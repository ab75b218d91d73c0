-------------------------------- MODULE Jobs --------------------------------
(***************************************************************************)
(* Background jobs, src/src/jobs.rs with the blocking runner of            *)
(* src/src/exec.rs.  A client submits a command and gets its id at once;   *)
(* the thread that runs it files the outcome in a process-wide registry    *)
(* and then trims it, and clients take finished results away.  Every       *)
(* registry operation runs under one mutex, so each is one step; what      *)
(* happens between two of them is up to the clients and the commands.      *)
(***************************************************************************)
EXTENDS Naturals, FiniteSets

CONSTANTS
  MaxJobs,     \* bound of the model: jobs submitted over the run
  MaxFinished  \* MAX_FINISHED: finished results the registry keeps

ASSUME JobsAssumption == MaxJobs \in Nat /\ MaxFinished \in Nat

VARIABLES
  nextJob,   \* Registry::next_id
  jobs,      \* Registry::jobs: id -> outcome, or "running"
  executing, \* threads still inside run_raw
  notices,   \* desktop notifications sent, by job
  handed,    \* history: how many times each result was returned
  dropped    \* history: jobs evict_overflow removed

jobVars == <<nextJob, jobs, executing, notices, handed, dropped>>

JobId == 1..MaxJobs
(* An exit code, a death by signal, or a command that could not start.     *)
Outcome == {"exited", "terminated", "failed"}
Finished(reg) == {id \in DOMAIN reg : reg[id] # "running"}
Keep(reg, ids) == [id \in ids |-> reg[id]]

-----------------------------------------------------------------------------
JobsInit ==
  /\ nextJob = 0 /\ jobs = [id \in {} |-> "running"] /\ executing = {}
  /\ notices = {} /\ dropped = {} /\ handed = [id \in JobId |-> 0]

(* job_start with a program; without one nothing is registered.            *)
JobStart ==
  /\ nextJob < MaxJobs
  /\ nextJob' = nextJob + 1
  /\ jobs' = [id \in DOMAIN jobs \cup {nextJob + 1} |->
                IF id = nextJob + 1 THEN "running" ELSE jobs[id]]
  /\ executing' = executing \cup {nextJob + 1}
  /\ UNCHANGED <<notices, handed, dropped>>

(* evict_overflow: all but the MaxFinished finished jobs of highest id.    *)
Overflow(reg) ==
  {id \in Finished(reg) : Cardinality({o \in Finished(reg) : o > id}) >= MaxFinished}

(* The thread of a job files its outcome and trims under the same lock:    *)
(* the job that just finished may be the one trimmed.                      *)
JobFinishes(id) == \E outcome \in Outcome, notify \in BOOLEAN :
  LET filed == [jobs EXCEPT ![id] = outcome] IN
  /\ id \in executing
  /\ executing' = executing \ {id}
  /\ jobs' = Keep(filed, DOMAIN filed \ Overflow(filed))
  /\ dropped' = dropped \cup Overflow(filed)
  /\ notices' = IF notify THEN notices \cup {id} ELSE notices
  /\ UNCHANGED <<nextJob, handed>>

(* Mutant: a poll reports what is finished and leaves it there. *)
Reported(taken) == DOMAIN jobs

(* What stays in the registry once some results were returned.             *)
Left(taken) == DOMAIN jobs \ taken

Hand(taken) ==
  /\ jobs' = Keep(jobs, Left(taken))
  /\ handed' = [id \in JobId |-> IF id \in taken THEN handed[id] + 1 ELSE handed[id]]
  /\ UNCHANGED <<nextJob, executing, notices, dropped>>

(* job_poll takes every finished job, job_result the one it names; of a    *)
(* running or unknown job job_result, like job_list of all, says so only.  *)
JobPoll == Finished(jobs) # {} /\ Hand(Finished(jobs))
JobResult(id) == id \in Finished(jobs) /\ Hand({id})

JobsNext ==
  \/ JobStart
  \/ \E id \in JobId : JobFinishes(id) \/ JobResult(id)
  \/ JobPoll

JobsSpec == JobsInit /\ [][JobsNext]_jobVars

-----------------------------------------------------------------------------
JobsTypeOK ==
  /\ nextJob \in 0..MaxJobs
  /\ DOMAIN jobs \subseteq 1..nextJob /\ executing \subseteq DOMAIN jobs
  /\ \A id \in DOMAIN jobs : jobs[id] \in Outcome \cup {"running"}
  /\ notices \subseteq 1..nextJob /\ dropped \subseteq 1..nextJob

(* Every job that ended is accounted for: its result is in the registry,   *)
(* was returned exactly once, or was trimmed unseen; the registry never    *)
(* holds more than MAX_FINISHED of them, whatever clients poll or not.     *)
JobAccounting ==
  /\ Cardinality(Finished(jobs)) <= MaxFinished
  /\ \A id \in JobId : handed[id] =
       IF id \in (1..nextJob) \ (DOMAIN jobs \cup dropped) THEN 1 ELSE 0
=============================================================================
