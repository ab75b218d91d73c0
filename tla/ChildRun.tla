------------------------------ MODULE ChildRun ------------------------------
(***************************************************************************)
(* One subprocess and the host thread that runs it.  Hook scripts and      *)
(* inline code, src/src/stryke_runner.rs, are fed their event, polled      *)
(* until a deadline and then killed, while two threads drain the output    *)
(* up to a cap; exec and background jobs, src/src/exec.rs, are fed and     *)
(* waited for without either.  Both write the whole of stdin before        *)
(* anything reads the output.                                              *)
(*                                                                         *)
(* Pipes hold PipeRoom units.  stdout and stderr behave alike and are one  *)
(* pipe here; what is in it is a number of units.  The child may leave a   *)
(* helper behind that has inherited the pipe.                              *)
(***************************************************************************)
EXTENDS Naturals

CONSTANTS
  PipeRoom,    \* capacity of a pipe
  OutputCap,   \* MAX_OUTPUT_BYTES
  MaxPayload,  \* bound of the model: longest input
  MaxOutput    \* bound of the model: longest output

ASSUME ChildRunAssumption == {PipeRoom, OutputCap, MaxPayload, MaxOutput} \subseteq Nat

VARIABLES
  run,    \* the host thread: mode, payload, still unsent, where it is, deadline passed
  stdin,  \* units the child has not read
  child,  \* "alive", "exited", "killed"
  helper, \* a process the child left holds the output pipe
  out,    \* units written so far, and of those still in the pipe
  drain   \* the reader: where it is and what it keeps

childVars == <<run, stdin, child, helper, out, drain>>

RunAt(pc) == run.pc = pc
Least(a, b) == IF a < b THEN a ELSE b
Timed == run.mode \in {"script", "code"}
Cap == IF Timed THEN OutputCap ELSE MaxOutput

-----------------------------------------------------------------------------
ChildRunInit ==
  /\ run = [mode |-> "none", payload |-> 0, unsent |-> 0, pc |-> "called", timedOut |-> FALSE]
  /\ stdin = 0 /\ child = "none" /\ helper = FALSE
  /\ out = [written |-> 0, piped |-> 0]
  /\ drain = [pc |-> "none", kept |-> 0]

(* spawn; when it fails there is no child, and the caller gets the error.  *)
Spawn(mode) == \E payload \in 0..MaxPayload :
  /\ RunAt("called")
  /\ run' = [run EXCEPT !.mode = mode, !.payload = payload, !.unsent = payload, !.pc = "feeding"]
  /\ child' = "alive"
  /\ UNCHANGED <<stdin, helper, out, drain>>
SpawnScript == Spawn("script") \* a hook, fed its event
SpawnCode == Spawn("code")     \* stryke_run, fed what the caller gave
SpawnExec == Spawn("exec")     \* exec, job_start: neither deadline nor cap

(* write_all: blocks while the pipe is full, and gives up when the child   *)
(* is gone (the error is ignored).                                         *)
Feed ==
  /\ RunAt("feeding") /\ run.unsent > 0
  /\ \/ /\ child = "alive" /\ stdin < PipeRoom
        /\ stdin' = stdin + 1 /\ run' = [run EXCEPT !.unsent = @ - 1]
     \/ /\ child # "alive"
        /\ run' = [run EXCEPT !.unsent = 0] /\ UNCHANGED stdin
  /\ UNCHANGED <<child, helper, out, drain>>

(* stdin is closed, and only now is anything going to read the output.     *)
CloseStdin ==
  /\ RunAt("feeding") /\ run.unsent = 0
  /\ run' = [run EXCEPT !.pc = IF Timed THEN "polling" ELSE "joining"]
  /\ drain' = [drain EXCEPT !.pc = "reading"]
  /\ UNCHANGED <<stdin, child, helper, out>>

(* read_capped: a read past the cap ends it, and closes the pipe; so does  *)
(* the end of the output, once nobody holds the other side.                *)
Drain ==
  /\ drain.pc = "reading"
  /\ IF out.piped > 0
     THEN /\ out' = [out EXCEPT !.piped = @ - 1]
          /\ drain' = IF drain.kept < Cap THEN [drain EXCEPT !.kept = @ + 1]
                                          ELSE [drain EXCEPT !.pc = "done"]
     ELSE /\ child # "alive" /\ ~helper
          /\ drain' = [drain EXCEPT !.pc = "done"] /\ UNCHANGED out
  /\ UNCHANGED <<run, stdin, child, helper>>

(* Mutant: the child is given up on at the deadline, and not killed. *)
Spared == "alive"
AfterDeadline == "killed"

(* try_wait answers, or the deadline, counted from the end of feeding, has *)
(* passed: how fast the clock is, is not told.                             *)
PollChild ==
  /\ RunAt("polling")
  /\ IF child # "alive"
     THEN run' = [run EXCEPT !.pc = "joining"] /\ UNCHANGED child
     ELSE /\ child' = AfterDeadline
          /\ run' = [run EXCEPT !.pc = "joining", !.timedOut = TRUE]
  /\ UNCHANGED <<stdin, helper, out, drain>>

(* Mutant: the output is taken when the child is gone. *)
ChildGone == child # "alive"
Drained == drain.pc = "done" /\ child # "alive"

(* The drain threads are joined; wait_with_output also reaps the child.    *)
Collect ==
  /\ RunAt("joining") /\ Drained
  /\ run' = [run EXCEPT !.pc = "ended"]
  /\ UNCHANGED <<stdin, child, helper, out, drain>>

(* The child reads, writes while there is room and a reader to come, forks *)
(* and exits as it pleases.                                                *)
ChildActs ==
  /\ child = "alive" /\ UNCHANGED run
  /\ \/ stdin > 0 /\ stdin' = stdin - 1 /\ UNCHANGED <<child, helper, out, drain>>
     \/ /\ drain.pc # "done" /\ out.written < MaxOutput /\ out.piped < PipeRoom
        /\ out' = [written |-> out.written + 1, piped |-> out.piped + 1]
        /\ UNCHANGED <<stdin, child, helper, drain>>
     \/ ~helper /\ helper' = TRUE /\ UNCHANGED <<stdin, child, out, drain>>
     \/ child' = "exited" /\ UNCHANGED <<stdin, helper, out, drain>>

HelperExits == helper /\ helper' = FALSE /\ UNCHANGED <<run, stdin, child, out, drain>>

ChildRunNext ==
  \/ SpawnScript \/ SpawnCode \/ SpawnExec
  \/ Feed \/ CloseStdin \/ Drain \/ PollChild \/ Collect
  \/ ChildActs \/ HelperExits

(* The host's threads are scheduled; a child or helper may hang for ever.  *)
ChildRunFairness ==
  /\ WF_childVars(Feed) /\ WF_childVars(CloseStdin) /\ WF_childVars(Drain)
  /\ WF_childVars(PollChild) /\ WF_childVars(Collect)
ChildRunSpec == ChildRunInit /\ [][ChildRunNext]_childVars /\ ChildRunFairness

-----------------------------------------------------------------------------
ChildRunTypeOK ==
  /\ run.pc \in {"called", "feeding", "polling", "joining", "ended"}
  /\ run.unsent \in 0..run.payload /\ stdin \in 0..PipeRoom
  /\ child \in {"none", "alive", "exited", "killed"} /\ helper \in BOOLEAN
  /\ out.piped \in 0..Least(PipeRoom, out.written)
  /\ drain.kept \in 0..out.written /\ drain.pc \in {"none", "reading", "done"}

(* What is returned is what the child wrote, up to the cap: exiting or     *)
(* being killed right after the last write loses nothing, though reader,   *)
(* waiter and child are three that do not wait for each other's last step. *)
OutputComplete == RunAt("ended") => drain.kept = Least(out.written, Cap)

(* A script whose event fits the stdin pipe returns, however it reads,     *)
(* writes or hangs, unless a process it left behind holds its output.      *)
ScriptEnds ==
  Timed /\ run.payload <= PipeRoom ~> RunAt("ended") \/ helper
=============================================================================
