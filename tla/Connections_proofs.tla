------------------------- MODULE Connections_proofs -------------------------
(***************************************************************************)
(* What lives on connections and threads, for any number of hosts,         *)
(* streams, links, events and deaths: the owner of the bus, the output of  *)
(* a run, the streams of a session, and events between peers.              *)
(*                                                                         *)
(* Each part starts with the inductive invariant that its property needs,  *)
(* and has one lemma per step; it ends with the component's types.  The    *)
(* last section puts the components together in one type theorem.          *)
(***************************************************************************)
EXTENDS MCConnections, FiniteSetTheorems, SequenceTheorems, TLAPS

-----------------------------------------------------------------------------
(***************************************************************************)
(* One owner of the bus, for any number of hosts and daemons and any       *)
(* number of deaths.                                                       *)
(*                                                                         *)
(* That a daemon which serves is the one the path leads to is not          *)
(* inductive: a rename would strand whoever serves.  It never happens,     *)
(* because the daemon about to rename found nobody serving, and while it   *)
(* holds the lock nobody can have come to serve since.                     *)
(***************************************************************************)

(* The records of the hosts, beyond what the type invariant says of them.  *)
HostRecord == [pc : {"out", "spawn", "wait", "ready"}, seen : Nat]

(* A daemon that is about to rename knows that nobody serves the bus.      *)
RenamerAlone == \A d \in Daemon : daemon[d] = "rename" => ~BusLive

OwnerInv ==
  /\ host \in [HostProc -> HostRecord] /\ deaths \in Nat
  /\ BusDaemonTypeOK
  /\ OwnerIsReachable
  /\ RenamerAlone

LEMMA OwnerInvInit == BusDaemonInit => OwnerInv
BY BusDaemonAssumption
   DEF BusDaemonInit, OwnerInv, HostRecord, BusDaemonTypeOK, OwnerIsReachable,
       RenamerAlone, Serving, BusLive

(* What hosts do concerns their own record and, for one that spawns, a     *)
(* daemon that starts to wait for the lock.                                *)
LEMMA HostStepInv ==
  ASSUME OwnerInv, NEW h \in HostProc,
         HostStarts(h) \/ SpawnDaemon(h) \/ FindsBus(h) \/ GivesUp(h) \/ HostExits(h)
  PROVE  OwnerInv'
<1>. USE DEF OwnerInv
<1>1. host' \in [HostProc -> HostRecord] /\ deaths' \in Nat
  BY DEF HostStarts, SpawnDaemon, FindsBus, GivesUp, HostExits, HostRecord
<1>2. BusDaemonTypeOK'
  <2>1. \A g \in HostProc : host'[g].pc \in {"out", "spawn", "wait", "ready"}
    BY <1>1 DEF HostRecord
  <2>2. /\ daemon' \in [Daemon -> {"none", "lock", "check", "rename", "serve", "exited"}]
        /\ \A d \in Daemon : socketLock' = d <=> daemon'[d] \in {"check", "rename"}
        /\ socket' = socket /\ socketLock' = socketLock
    BY DEF HostStarts, SpawnDaemon, FindsBus, GivesUp, HostExits, BusDaemonTypeOK
  <2>. QED  BY <2>1, <2>2 DEF BusDaemonTypeOK
<1>3. OwnerIsReachable' /\ RenamerAlone'
  <2>1. /\ socket' = socket
        /\ \A d \in Daemon : daemon'[d] = daemon[d] \/ (daemon[d] = "none" /\ daemon'[d] = "lock")
    BY DEF HostStarts, SpawnDaemon, FindsBus, GivesUp, HostExits, BusDaemonTypeOK
  <2>. QED
    BY <2>1, BusDaemonAssumption
       DEF BusDaemonTypeOK, OwnerIsReachable, RenamerAlone, Serving, BusLive
<1>. QED  BY <1>1, <1>2, <1>3

(* A daemon's step, one case for each; the rename is the one that matters. *)
LEMMA DaemonStepInv ==
  ASSUME OwnerInv, NEW d \in Daemon, DaemonStep(d) \/ Dies(d) \/ Reaped(d)
  PROVE  OwnerInv'
<1>. USE DEF OwnerInv
<1>1. host' \in [HostProc -> HostRecord] /\ deaths' \in Nat
  BY DEF DaemonStep, TakeLock, Adopt, BindPrivate, RenameOver, Dies, Reaped
<1>2. \A h \in HostProc : host'[h].pc \in {"out", "spawn", "wait", "ready"}
  BY <1>1 DEF HostRecord
<1>3. CASE TakeLock(d) \/ Adopt(d) \/ Reaped(d)
  <2>1. BusDaemonTypeOK'
    BY <1>2, <1>3, BusDaemonAssumption
       DEF TakeLock, Adopt, Reaped, LockIsFree, Becomes, BusDaemonTypeOK
  <2>2. OwnerIsReachable' /\ RenamerAlone'
    BY <1>3, BusDaemonAssumption
       DEF TakeLock, Adopt, Reaped, Becomes, BusDaemonTypeOK, OwnerIsReachable,
           RenamerAlone, Serving, BusLive
  <2>. QED  BY <1>1, <2>1, <2>2
<1>4. CASE BindPrivate(d)
  <2>1. BusDaemonTypeOK'
    BY <1>2, <1>4 DEF BindPrivate, Becomes, BusDaemonTypeOK
  <2>2. OwnerIsReachable' /\ RenamerAlone'
    BY <1>4, BusDaemonAssumption
       DEF BindPrivate, OwnerAnswers, Becomes, BusDaemonTypeOK, OwnerIsReachable,
           RenamerAlone, Serving, BusLive
  <2>. QED  BY <1>1, <2>1, <2>2
<1>5. CASE RenameOver(d)
  <2>1. \A e \in Daemon : ~Serving(e)
    BY <1>5, BusDaemonAssumption
       DEF RenameOver, RenamerAlone, OwnerIsReachable, BusLive
  <2>2. BusDaemonTypeOK'
    BY <1>2, <1>5, BusDaemonAssumption DEF RenameOver, Becomes, BusDaemonTypeOK
  <2>3. OwnerIsReachable'
    BY <1>5, <2>1 DEF RenameOver, Becomes, BusDaemonTypeOK, OwnerIsReachable, Serving
  <2>4. RenamerAlone'
    BY <1>5 DEF RenameOver, Becomes, BusDaemonTypeOK, RenamerAlone
  <2>. QED  BY <1>1, <2>2, <2>3, <2>4
<1>6. CASE Dies(d)
  <2>1. BusDaemonTypeOK'
    BY <1>2, <1>6, BusDaemonAssumption DEF Dies, Becomes, BusDaemonTypeOK
  <2>2. OwnerIsReachable' /\ RenamerAlone'
    BY <1>6, BusDaemonAssumption
       DEF Dies, Becomes, BusDaemonTypeOK, OwnerIsReachable, RenamerAlone, Serving, BusLive
  <2>. QED  BY <1>1, <2>1, <2>2
<1>. QED  BY <1>3, <1>4, <1>5, <1>6 DEF DaemonStep

(* The invariant the two theorems below follow from.                       *)
THEOREM OwnerInvariant == BusDaemonSpec => []OwnerInv
<1>1. OwnerInv /\ [BusDaemonNext]_daemonVars => OwnerInv'
  <2>. SUFFICES ASSUME OwnerInv, [BusDaemonNext]_daemonVars PROVE OwnerInv'
    OBVIOUS
  <2>1. CASE \E h \in HostProc :
               HostStarts(h) \/ SpawnDaemon(h) \/ FindsBus(h) \/ GivesUp(h) \/ HostExits(h)
    BY <2>1, HostStepInv
  <2>2. CASE \E d \in Daemon : DaemonStep(d) \/ Dies(d) \/ Reaped(d)
    BY <2>2, DaemonStepInv
  <2>3. CASE UNCHANGED daemonVars
    BY <2>3 DEF daemonVars, OwnerInv, BusDaemonTypeOK, OwnerIsReachable,
                RenamerAlone, Serving, BusLive
  <2>. QED  BY <2>1, <2>2, <2>3 DEF BusDaemonNext
<1>. QED  BY OwnerInvInit, <1>1, PTL DEF BusDaemonSpec

(* The states of hosts and daemons, and the lock: who holds it is checking *)
(* or about to rename, and who is has it.                                  *)
THEOREM BusDaemonTypes == BusDaemonSpec => []BusDaemonTypeOK
<1>1. OwnerInv => BusDaemonTypeOK
  BY DEF OwnerInv
<1>. QED  BY OwnerInvariant, <1>1, PTL

(* zbus.rs:1036-1041: one daemon serves, and the path leads to it.         *)
THEOREM BusOwnerIsReachable == BusDaemonSpec => []OwnerIsReachable
<1>1. OwnerInv => OwnerIsReachable
  BY DEF OwnerInv
<1>. QED  BY OwnerInvariant, <1>1, PTL

-----------------------------------------------------------------------------
(***************************************************************************)
(* A run returns what its child wrote, for every size of the pipe and the  *)
(* cap, every input and output, however the child and the helpers it       *)
(* leaves behind behave.                                                   *)
(***************************************************************************)

(* What is in the pipe and what was kept is all that was written, until    *)
(* the reader is done; it is done with what there was or with a full cap.  *)
Conserved ==
  /\ drain.pc \in {"none", "reading"} => drain.kept + out.piped = out.written /\ drain.kept <= Cap
  /\ drain.pc = "done" => drain.kept = Least(out.written, Cap)

OutputInv ==
  /\ run \in [mode : {"none", "script", "code", "exec"}, payload : Nat, unsent : Nat,
              pc : {"called", "feeding", "polling", "joining", "ended"}, timedOut : BOOLEAN]
  /\ out \in [written : Nat, piped : Nat]
  /\ drain \in [pc : {"none", "reading", "done"}, kept : Nat]
  /\ RunAt("called") => out.written = 0 /\ drain.kept = 0 /\ drain.pc = "none" /\ child = "none"
  /\ RunAt("feeding") => drain.pc = "none"
  /\ RunAt("ended") => drain.pc = "done"
  /\ Conserved

LEMMA CapIsNat == Cap \in Nat
BY ChildRunAssumption DEF Cap

LEMMA OutputInvInit == ChildRunInit => OutputInv
BY CapIsNat DEF ChildRunInit, OutputInv, Conserved, RunAt

(* Nothing is written before the spawn, which decides on the cap.          *)
LEMMA SpawnInv ==
  ASSUME OutputInv, NEW mode \in {"script", "code", "exec"}, Spawn(mode)
  PROVE  OutputInv'
<1>1. PICK payload \in 0..MaxPayload :
        /\ run' = [run EXCEPT !.mode = mode, !.payload = payload, !.unsent = payload, !.pc = "feeding"]
        /\ RunAt("called") /\ UNCHANGED <<out, drain>>
  BY DEF Spawn
<1>2. payload \in Nat
  BY ChildRunAssumption
<1>3. /\ run' \in [mode : {"none", "script", "code", "exec"}, payload : Nat, unsent : Nat,
                   pc : {"called", "feeding", "polling", "joining", "ended"}, timedOut : BOOLEAN]
      /\ run'.pc = "feeding"
  BY <1>1, <1>2 DEF OutputInv
<1>4. Cap' \in Nat
  BY ChildRunAssumption DEF Cap
<1>5. drain.kept = 0 /\ drain.pc = "none" /\ out.written = 0 /\ out.piped \in Nat
      /\ drain.kept + out.piped = out.written
  BY <1>1 DEF OutputInv, Conserved
<1>6. Conserved'
  BY <1>1, <1>4, <1>5 DEF Conserved
<1>. QED  BY <1>1, <1>3, <1>5, <1>6 DEF OutputInv, RunAt

(* The host thread: feeding, polling and joining leave the output alone,   *)
(* closing stdin lets the reader start.                                    *)
LEMMA HostThreadInv ==
  ASSUME OutputInv, Feed \/ CloseStdin \/ PollChild \/ Collect
  PROVE  OutputInv'
<1>1. /\ run' \in [mode : {"none", "script", "code", "exec"}, payload : Nat, unsent : Nat,
                   pc : {"called", "feeding", "polling", "joining", "ended"}, timedOut : BOOLEAN]
      /\ run'.mode = run.mode /\ out' = out
  <2>1. CASE Feed
    <3>1. PICK left \in Nat : run' = [run EXCEPT !.unsent = left]
      BY <2>1 DEF Feed, OutputInv
    <3>. QED  BY <2>1, <3>1 DEF Feed, OutputInv
  <2>2. CASE CloseStdin
    BY <2>2 DEF CloseStdin, OutputInv
  <2>3. CASE PollChild
    BY <2>3 DEF PollChild, OutputInv
  <2>4. CASE Collect
    BY <2>4 DEF Collect, OutputInv
  <2>. QED  BY <2>1, <2>2, <2>3, <2>4
<1>2. Cap' = Cap
  BY <1>1 DEF Cap, Timed
<1>3. CASE Feed
  BY <1>1, <1>2, <1>3 DEF Feed, OutputInv, Conserved, RunAt
<1>4. CASE CloseStdin
  <2>1. /\ drain' = [drain EXCEPT !.pc = "reading"] /\ drain.pc = "none"
        /\ run'.pc \in {"polling", "joining"}
    BY <1>4 DEF CloseStdin, OutputInv, RunAt
  <2>2. drain' \in [pc : {"none", "reading", "done"}, kept : Nat]
        /\ drain'.pc = "reading" /\ drain'.kept = drain.kept
    BY <2>1 DEF OutputInv
  <2>. QED  BY <1>1, <1>2, <2>1, <2>2 DEF OutputInv, Conserved, RunAt
<1>5. CASE PollChild
  BY <1>1, <1>2, <1>5 DEF PollChild, OutputInv, Conserved, RunAt
<1>6. CASE Collect
  BY <1>1, <1>2, <1>6 DEF Collect, Drained, OutputInv, Conserved, RunAt
<1>. QED  BY <1>3, <1>4, <1>5, <1>6

(* The reader: a unit moves from the pipe to what is kept; it is done at   *)
(* the cap, or when the pipe is empty and nobody holds its other side.     *)
LEMMA DrainKeepsInv ==
  ASSUME OutputInv, Drain
  PROVE  OutputInv'
<1>1. /\ drain.pc = "reading" /\ UNCHANGED <<run, child>> /\ Cap' = Cap
      /\ drain.kept \in Nat /\ out.piped \in Nat /\ out.written \in Nat
      /\ drain.kept + out.piped = out.written /\ drain.kept <= Cap
  BY DEF Drain, OutputInv, Conserved, Cap, Timed
<1>2. ~RunAt("called") /\ ~RunAt("feeding") /\ ~RunAt("ended")
  BY <1>1 DEF OutputInv
<1>3. /\ drain' \in [pc : {"reading", "done"}, kept : Nat]
      /\ out' \in [written : Nat, piped : Nat] /\ out'.written = out.written
      /\ drain'.pc = "reading" => drain'.kept + out'.piped = out.written /\ drain'.kept <= Cap
      /\ drain'.pc = "done" => drain'.kept = Least(out.written, Cap)
  <2>1. CASE out.piped > 0 /\ drain.kept < Cap
    <3>1. /\ out' = [out EXCEPT !.piped = @ - 1]
          /\ drain' = [drain EXCEPT !.kept = @ + 1]
      BY <2>1 DEF Drain
    <3>2. /\ out' \in [written : Nat, piped : Nat] /\ out'.written = out.written
          /\ out'.piped = out.piped - 1
          /\ drain' \in [pc : {"reading", "done"}, kept : Nat]
          /\ drain'.kept = drain.kept + 1 /\ drain'.pc = "reading"
      BY <1>1, <2>1, <3>1 DEF OutputInv
    <3>. QED  BY <1>1, <2>1, <3>2, CapIsNat
  <2>2. CASE out.piped > 0 /\ ~(drain.kept < Cap)
    <3>1. /\ out' = [out EXCEPT !.piped = @ - 1]
          /\ drain' = [drain EXCEPT !.pc = "done"]
      BY <2>2 DEF Drain
    <3>2. /\ out' \in [written : Nat, piped : Nat] /\ out'.written = out.written
          /\ drain' \in [pc : {"reading", "done"}, kept : Nat]
          /\ drain'.kept = drain.kept /\ drain'.pc = "done"
      BY <1>1, <2>2, <3>1 DEF OutputInv
    <3>3. drain.kept = Least(out.written, Cap)
      BY <1>1, <2>2, CapIsNat DEF Least
    <3>. QED  BY <3>2, <3>3
  <2>3. CASE ~(out.piped > 0)
    <3>1. out' = out /\ drain' = [drain EXCEPT !.pc = "done"]
      BY <2>3 DEF Drain
    <3>2. /\ drain' \in [pc : {"reading", "done"}, kept : Nat]
          /\ drain'.kept = drain.kept /\ drain'.pc = "done"
      BY <1>1, <3>1 DEF OutputInv
    <3>3. drain.kept = Least(out.written, Cap)
      BY <1>1, <2>3, CapIsNat DEF Least
    <3>. QED  BY <3>1, <3>2, <3>3 DEF OutputInv
  <2>. QED  BY <2>1, <2>2, <2>3
<1>4. Conserved'
  BY <1>1, <1>3 DEF Conserved
<1>. QED  BY <1>1, <1>2, <1>3, <1>4 DEF OutputInv, RunAt

(* The child writes only while somebody reads or will: after the reader is *)
(* done its writes fail, and what was returned stays what was written.     *)
LEMMA ChildInv ==
  ASSUME OutputInv, ChildActs \/ HelperExits
  PROVE  OutputInv'
<1>1. UNCHANGED <<run, drain>> /\ Cap' = Cap
  BY DEF ChildActs, HelperExits, Cap, Timed
<1>2. CASE UNCHANGED out
  <2>1. RunAt("called") => UNCHANGED child
    BY DEF OutputInv, ChildActs, HelperExits
  <2>. QED  BY <1>1, <1>2, <2>1 DEF OutputInv, Conserved, RunAt
<1>3. CASE /\ child = "alive" /\ drain.pc # "done"
           /\ out' = [written |-> out.written + 1, piped |-> out.piped + 1]
  <2>1. ~RunAt("called") /\ ~RunAt("ended")
    BY <1>3 DEF OutputInv
  <2>2. Conserved'
    BY <1>1, <1>3, CapIsNat DEF OutputInv, Conserved
  <2>. QED  BY <1>1, <1>3, <2>1, <2>2 DEF OutputInv, RunAt
<1>. QED  BY <1>2, <1>3 DEF ChildActs, HelperExits

(* What was written is kept or in the pipe until the reader is done, and   *)
(* the host joins the reader before it returns.                            *)
THEOREM OutputInvariant == ChildRunSpec => []OutputInv
<1>1. OutputInv /\ [ChildRunNext]_childVars => OutputInv'
  <2>. SUFFICES ASSUME OutputInv, [ChildRunNext]_childVars PROVE OutputInv'
    OBVIOUS
  <2>1. CASE SpawnScript \/ SpawnCode \/ SpawnExec
    BY <2>1, SpawnInv DEF SpawnScript, SpawnCode, SpawnExec
  <2>2. CASE Feed \/ CloseStdin \/ PollChild \/ Collect
    BY <2>2, HostThreadInv
  <2>3. CASE Drain
    BY <2>3, DrainKeepsInv
  <2>4. CASE ChildActs \/ HelperExits
    BY <2>4, ChildInv
  <2>5. CASE UNCHANGED childVars
    BY <2>5 DEF childVars, OutputInv, Conserved, RunAt, Cap, Timed
  <2>. QED  BY <2>1, <2>2, <2>3, <2>4, <2>5 DEF ChildRunNext
<1>. QED  BY OutputInvInit, <1>1, PTL DEF ChildRunSpec

(* What is returned is what the child wrote, up to the cap.                *)
THEOREM RunOutputComplete == ChildRunSpec => []OutputComplete
<1>1. OutputInv => OutputComplete
  BY DEF OutputInv, Conserved, OutputComplete
<1>. QED  BY OutputInvariant, <1>1, PTL

(* What OutputInv leaves open: the pipes hold no more than they have room  *)
(* for, and no more is unsent than was to be sent.                         *)
PipesFit ==
  /\ run.unsent \in 0..run.payload /\ stdin \in 0..PipeRoom
  /\ child \in {"none", "alive", "exited", "killed"} /\ helper \in BOOLEAN
  /\ out.piped \in 0..PipeRoom
  /\ out.piped <= out.written /\ drain.kept <= out.written

LEMMA PipesFitStep == OutputInv /\ PipesFit /\ [ChildRunNext]_childVars => PipesFit'
<1> SUFFICES ASSUME OutputInv, PipesFit, [ChildRunNext]_childVars PROVE PipesFit'
  OBVIOUS
<1> USE ChildRunAssumption
<1>0. /\ run \in [mode : {"none", "script", "code", "exec"}, payload : Nat, unsent : Nat,
                  pc : {"called", "feeding", "polling", "joining", "ended"}, timedOut : BOOLEAN]
      /\ out \in [written : Nat, piped : Nat] /\ drain \in [pc : {"none", "reading", "done"}, kept : Nat]
  BY DEF OutputInv
<1>1. ASSUME NEW mode, Spawn(mode) PROVE PipesFit'
  <2>1. PICK payload \in 0..MaxPayload :
          /\ run' = [run EXCEPT !.mode = mode, !.payload = payload, !.unsent = payload, !.pc = "feeding"]
          /\ child' = "alive" /\ UNCHANGED <<stdin, helper, out, drain>>
    BY <1>1 DEF Spawn
  <2>2. run'.unsent = payload /\ run'.payload = payload /\ payload \in Nat
    BY <1>0, <2>1
  <2> QED BY <2>1, <2>2 DEF PipesFit
<1>2. CASE Feed
  <2>1. PICK left \in 0..run.unsent : run' = [run EXCEPT !.unsent = left] /\ stdin' \in 0..PipeRoom
    <3>1. CASE child = "alive" /\ stdin < PipeRoom /\ stdin' = stdin + 1 /\ run' = [run EXCEPT !.unsent = @ - 1]
      <4>1. run.unsent - 1 \in 0..run.unsent
        BY <1>0, <1>2 DEF Feed
      <4> QED BY <1>0, <3>1, <4>1 DEF PipesFit
    <3>2. CASE run' = [run EXCEPT !.unsent = 0] /\ UNCHANGED stdin
      BY <1>0, <3>2 DEF PipesFit
    <3> QED BY <1>2, <3>1, <3>2 DEF Feed
  <2>2. run'.unsent = left /\ run'.payload = run.payload /\ UNCHANGED <<child, helper, out, drain>>
    BY <1>0, <1>2, <2>1 DEF Feed
  <2> QED BY <1>0, <2>1, <2>2 DEF PipesFit
<1>3. CASE CloseStdin
  <2>1. run'.unsent = run.unsent /\ run'.payload = run.payload /\ drain'.kept = drain.kept
        /\ UNCHANGED <<stdin, child, helper, out>>
    BY <1>0, <1>3 DEF CloseStdin
  <2> QED BY <2>1 DEF PipesFit
<1>4. CASE Drain
  <2>1. UNCHANGED <<run, stdin, child, helper>>
    BY <1>4 DEF Drain
  <2>2. /\ out'.piped \in 0..PipeRoom /\ out'.piped <= out'.written /\ drain'.kept <= out'.written
    <3>1. CASE out.piped > 0
      <4>1. /\ out' = [out EXCEPT !.piped = @ - 1]
            /\ drain' = IF drain.kept < Cap THEN [drain EXCEPT !.kept = @ + 1] ELSE [drain EXCEPT !.pc = "done"]
            /\ drain.pc = "reading"
        BY <1>4, <3>1 DEF Drain
      <4>2. out'.piped = out.piped - 1 /\ out'.written = out.written
        BY <1>0, <4>1
      <4>3. drain'.kept <= drain.kept + 1
        BY <1>0, <4>1
      <4>4. drain.kept + out.piped = out.written
        BY <4>1 DEF OutputInv, Conserved
      <4>5. drain'.kept \in Nat
        BY <1>0, <4>1
      <4> QED BY <1>0, <3>1, <4>2, <4>3, <4>4, <4>5 DEF PipesFit
    <3>2. CASE ~(out.piped > 0)
      <4>1. drain' = [drain EXCEPT !.pc = "done"] /\ UNCHANGED out
        BY <1>4, <3>2 DEF Drain
      <4> QED BY <1>0, <4>1 DEF PipesFit
    <3> QED BY <3>1, <3>2
  <2> QED BY <2>1, <2>2 DEF PipesFit
<1>5. CASE PollChild
  <2>1. run'.unsent = run.unsent /\ run'.payload = run.payload /\ UNCHANGED <<stdin, helper, out, drain>>
    BY <1>0, <1>5 DEF PollChild
  <2>2. child' \in {child, "killed"}
    BY <1>5 DEF PollChild, AfterDeadline
  <2> QED BY <2>1, <2>2 DEF PipesFit
<1>6. CASE Collect
  <2>1. run'.unsent = run.unsent /\ run'.payload = run.payload /\ UNCHANGED <<stdin, child, helper, out, drain>>
    BY <1>0, <1>6 DEF Collect
  <2> QED BY <2>1 DEF PipesFit
<1>7. CASE ChildActs
  <2>1. CASE stdin > 0 /\ stdin' = stdin - 1 /\ UNCHANGED <<child, helper, out, drain>>
    BY <1>7, <2>1 DEF ChildActs, PipesFit
  <2>2. CASE /\ out.piped < PipeRoom /\ out' = [written |-> out.written + 1, piped |-> out.piped + 1]
             /\ UNCHANGED <<stdin, child, helper, drain>>
    <3>1. out'.piped = out.piped + 1 /\ out'.written = out.written + 1 /\ run' = run
      BY <1>7, <2>2 DEF ChildActs
    <3> QED BY <1>0, <2>2, <3>1 DEF PipesFit
  <2>3. CASE helper' = TRUE /\ UNCHANGED <<stdin, child, out, drain>>
    BY <1>7, <2>3 DEF ChildActs, PipesFit
  <2>4. CASE child' = "exited" /\ UNCHANGED <<stdin, helper, out, drain>>
    BY <1>7, <2>4 DEF ChildActs, PipesFit
  <2> QED BY <1>7, <2>1, <2>2, <2>3, <2>4 DEF ChildActs
<1>8. CASE HelperExits
  BY <1>8 DEF HelperExits, PipesFit
<1>9. CASE UNCHANGED childVars
  BY <1>9 DEF childVars, PipesFit
<1> QED BY <1>1, <1>2, <1>3, <1>4, <1>5, <1>6, <1>7, <1>8, <1>9
        DEF ChildRunNext, SpawnScript, SpawnCode, SpawnExec

(* proc.rs: the pipes hold what there is room for, and the host has read   *)
(* no more than was written.                                               *)
THEOREM ChildRunTypes == ChildRunSpec => []ChildRunTypeOK
<1>1. ChildRunInit => PipesFit
  <2> SUFFICES ASSUME ChildRunInit PROVE PipesFit
    OBVIOUS
  <2>1. run.unsent = 0 /\ run.payload = 0 /\ out.piped = 0 /\ out.written = 0 /\ drain.kept = 0
    BY DEF ChildRunInit
  <2>2. 0 \in 0..0 /\ 0 \in 0..PipeRoom
    BY ChildRunAssumption
  <2>3. stdin = 0 /\ child = "none"
    BY DEF ChildRunInit
  <2>4. helper \in BOOLEAN
    BY Zenon DEF ChildRunInit
  <2> QED BY <2>1, <2>2, <2>3, <2>4 DEF PipesFit
<1>2. OutputInv /\ PipesFit => ChildRunTypeOK
  <2> SUFFICES ASSUME OutputInv, PipesFit PROVE ChildRunTypeOK
    OBVIOUS
  <2>1. out.piped \in 0..Least(PipeRoom, out.written) /\ drain.kept \in 0..out.written
    BY ChildRunAssumption DEF OutputInv, PipesFit, Least
  <2> QED BY <2>1 DEF OutputInv, PipesFit, ChildRunTypeOK
<1> QED BY <1>1, <1>2, PipesFitStep, OutputInvariant, PTL DEF ChildRunSpec

-----------------------------------------------------------------------------
(***************************************************************************)
(* Frames between commands come from streams the session holds, for any    *)
(* number of ids, streams, replacements and stops.                         *)
(*                                                                         *)
(* Whoever still runs is held, and whoever was told to stop and is waited  *)
(* for is the one stream the session is dropping: so while it reads the    *)
(* next command, or writes what a command gave it, no other can speak.     *)
(***************************************************************************)

StreamRecord == [slot : Slot, pc : {"running", "stopping", "over"}]
Session == [pc : {"reading", "sending", "dropping", "closing"}, drop : Nat, reply : BOOLEAN]

(* The one stream that was told to stop and is waited for.                 *)
OnlyTheDropped ==
  \A i \in Stream : stream[i].pc = "stopping" /\ Joined(i) =>
    serving.drop = i /\ serving.pc \in {"dropping", "closing"}

RunningIsHeld == \A i \in Stream : stream[i].pc = "running" => held[stream[i].slot] = i

HeldFits == \A s \in Slot : Holds(s) => held[s] \in Stream /\ stream[held[s]].slot = s

StreamInv ==
  /\ \E n \in Nat : stream \in [1..n -> StreamRecord]
  /\ held \in [Slot -> Nat] /\ serving \in Session
  /\ HeldFits /\ RunningIsHeld /\ OnlyTheDropped

LEMMA StreamInvInit == StreamsInit => StreamInv
<1>. SUFFICES ASSUME StreamsInit PROVE StreamInv
  OBVIOUS
<1>1. Stream = {} /\ stream \in [1..0 -> StreamRecord]
  BY DEF StreamsInit, Stream
<1>2. held \in [Slot -> Nat] /\ serving \in Session
  BY DEF StreamsInit, Session
<1>3. HeldFits /\ RunningIsHeld /\ OnlyTheDropped
  BY <1>1 DEF StreamsInit, HeldFits, Holds, RunningIsHeld, OnlyTheDropped
<1>. QED  BY <1>1, <1>2, <1>3 DEF StreamInv

(* Dropping stream i (none, for 0) of the streams all, while the session   *)
(* reads: i runs no more, and is waited for unless it is the server's.     *)
LEMMA DropThenEffect ==
  ASSUME NEW n \in Nat, NEW all \in [1..n -> StreamRecord],
         NEW i \in 0..n, NEW replies \in BOOLEAN,
         serving \in Session, serving.pc = "reading",
         i # 0 => stream[i].slot = all[i].slot,
         \A j \in 1..n : ~ (all[j].pc = "stopping" /\ all[j].slot.kind # "lsp"),
         DropThen(i, all, replies)
  PROVE  /\ stream' \in [1..n -> StreamRecord] /\ serving' \in Session
         /\ \A j \in 1..n : /\ stream'[j].slot = all[j].slot
                            /\ stream'[j].pc = "running" => all[j].pc = "running" /\ j # i
                            /\ stream'[j].pc = "stopping" /\ stream'[j].slot.kind # "lsp"
                                 => serving'.drop = j /\ serving'.pc = "dropping"
         /\ wire' = wire \/ wire'.from = 0
<1>1. wire' = wire \/ wire'.from = 0
  BY DEF DropThen
<1>2. CASE i = 0
  BY <1>1, <1>2 DEF DropThen, Session
<1>3. CASE i # 0
  <2>1. i \in 1..n /\ stream' = Told(i, all)
    BY <1>3 DEF DropThen
  <2>2. /\ stream' \in [1..n -> StreamRecord]
        /\ \A j \in 1..n : j # i => stream'[j] = all[j]
        /\ stream'[i].slot = all[i].slot /\ stream'[i].pc # "running"
    BY <2>1 DEF Told, StreamRecord
  <2>3. /\ serving' \in Session
        /\ all[i].slot.kind # "lsp" => serving'.drop = i /\ serving'.pc = "dropping"
    BY <1>3, <2>1 DEF DropThen, Session, Joined
  <2>. QED  BY <1>1, <2>1, <2>2, <2>3
<1>. QED  BY <1>2, <1>3

(* While the session reads or writes no stream waits to be joined.         *)
LEMMA NoneDropping ==
  ASSUME StreamInv, serving.pc \in {"reading", "sending"}
  PROVE  \A j \in Stream : ~ (stream[j].pc = "stopping" /\ Joined(j))
BY DEF StreamInv, OnlyTheDropped

(* Starting a stream, in the place of one or of none.                      *)
LEMMA ReplaceInv ==
  ASSUME StreamInv, NEW s \in Slot, Replace(s)
  PROVE  StreamInv' /\ (wire' = wire \/ wire'.from = 0)
<1>1. PICK n \in Nat : stream \in [1..n -> StreamRecord]
  BY DEF StreamInv
<1>2. Stream = 1..n /\ Cardinality(Stream) = n
  BY <1>1, FS_Interval DEF Stream
<1>. DEFINE all == [i \in 1..(n + 1) |-> IF i = n + 1 THEN [slot |-> s, pc |-> "running"] ELSE stream[i]]
<1>3. /\ held' = [held EXCEPT ![s] = n + 1] /\ serving.pc = "reading"
      /\ DropThen(held[s], all, TRUE)
  <2>1. Stream \cup {n + 1} = 1..(n + 1)
    BY <1>2
  <2>. QED  BY <1>2, <2>1 DEF Replace, ServingAt
<1>4. /\ all \in [1..(n + 1) -> StreamRecord]
      /\ \A j \in 1..n : all[j] = stream[j]
      /\ all[n + 1] = [slot |-> s, pc |-> "running"]
  BY <1>1 DEF StreamRecord
<1>5. held \in [Slot -> Nat] /\ serving \in Session /\ held[s] \in 0..n
  BY <1>2 DEF StreamInv, HeldFits, Holds
<1>6. held[s] # 0 => stream[held[s]].slot = all[held[s]].slot
  BY <1>4, <1>5
<1>7. \A j \in 1..(n + 1) : ~ (all[j].pc = "stopping" /\ all[j].slot.kind # "lsp")
  BY <1>2, <1>3, <1>4, NoneDropping DEF Joined
<1>. HIDE DEF all
<1>8. /\ stream' \in [1..(n + 1) -> StreamRecord] /\ serving' \in Session
      /\ \A j \in 1..(n + 1) :
           /\ stream'[j].slot = all[j].slot
           /\ stream'[j].pc = "running" => all[j].pc = "running" /\ j # held[s]
           /\ stream'[j].pc = "stopping" /\ stream'[j].slot.kind # "lsp"
                => serving'.drop = j /\ serving'.pc = "dropping"
      /\ wire' = wire \/ wire'.from = 0
  <2>1. n + 1 \in Nat /\ held[s] \in 0..(n + 1)
    BY <1>5
  <2>. QED  BY <1>3, <1>4, <1>5, <1>6, <1>7, <2>1, DropThenEffect
<1>9. Stream' = 1..(n + 1)
  BY <1>8 DEF Stream
<1>10. HeldFits'
  BY <1>2, <1>3, <1>4, <1>5, <1>8, <1>9 DEF StreamInv, HeldFits, Holds
<1>11. RunningIsHeld'
  <2>. SUFFICES ASSUME NEW j \in 1..(n + 1), stream'[j].pc = "running"
                PROVE  held'[stream'[j].slot] = j
    BY <1>9 DEF RunningIsHeld
  <2>1. CASE j = n + 1
    BY <1>3, <1>4, <1>5, <1>8, <2>1
  <2>2. CASE j \in 1..n
    <3>1. stream[j].pc = "running" /\ stream'[j].slot = stream[j].slot /\ j # held[s]
      BY <1>4, <1>8, <2>2
    <3>2. held[stream[j].slot] = j /\ stream[j].slot \in Slot
      BY <1>1, <1>2, <2>2, <3>1 DEF StreamInv, RunningIsHeld, StreamRecord
    <3>. QED  BY <1>3, <1>5, <3>1, <3>2
  <2>. QED  BY <2>1, <2>2
<1>12. OnlyTheDropped'
  BY <1>8, <1>9 DEF OnlyTheDropped, Joined
<1>. QED  BY <1>3, <1>5, <1>8, <1>10, <1>11, <1>12 DEF StreamInv

(* Taking a stream out.                                                    *)
LEMMA TakeOutInv ==
  ASSUME StreamInv, NEW s \in Slot, NEW replies \in BOOLEAN, TakeOut(s, replies)
  PROVE  StreamInv' /\ (wire' = wire \/ wire'.from = 0)
<1>1. PICK n \in Nat : stream \in [1..n -> StreamRecord]
  BY DEF StreamInv
<1>2. Stream = 1..n
  BY <1>1 DEF Stream
<1>3. /\ held' = [held EXCEPT ![s] = 0] /\ serving.pc = "reading"
      /\ DropThen(held[s], stream, replies)
  BY DEF TakeOut, ServingAt
<1>4. held \in [Slot -> Nat] /\ serving \in Session /\ held[s] \in 0..n
  BY <1>2 DEF StreamInv, HeldFits, Holds
<1>5. \A j \in 1..n : ~ (stream[j].pc = "stopping" /\ stream[j].slot.kind # "lsp")
  BY <1>2, <1>3, NoneDropping DEF Joined
<1>6. /\ stream' \in [1..n -> StreamRecord] /\ serving' \in Session
      /\ \A j \in 1..n :
           /\ stream'[j].slot = stream[j].slot
           /\ stream'[j].pc = "running" => stream[j].pc = "running" /\ j # held[s]
           /\ stream'[j].pc = "stopping" /\ stream'[j].slot.kind # "lsp"
                => serving'.drop = j /\ serving'.pc = "dropping"
      /\ wire' = wire \/ wire'.from = 0
  BY <1>1, <1>3, <1>4, <1>5, DropThenEffect
<1>7. Stream' = 1..n
  BY <1>6 DEF Stream
<1>8. HeldFits'
  BY <1>2, <1>3, <1>4, <1>6, <1>7 DEF StreamInv, HeldFits, Holds
<1>9. RunningIsHeld'
  <2>. SUFFICES ASSUME NEW j \in 1..n, stream'[j].pc = "running"
                PROVE  held'[stream'[j].slot] = j
    BY <1>7 DEF RunningIsHeld
  <2>1. stream[j].pc = "running" /\ stream'[j].slot = stream[j].slot /\ j # held[s]
    BY <1>6
  <2>2. held[stream[j].slot] = j /\ stream[j].slot \in Slot
    BY <1>1, <1>2, <2>1 DEF StreamInv, RunningIsHeld, StreamRecord
  <2>. QED  BY <1>3, <1>4, <2>1, <2>2
<1>10. OnlyTheDropped'
  BY <1>6, <1>7 DEF OnlyTheDropped, Joined
<1>. QED  BY <1>3, <1>4, <1>6, <1>8, <1>9, <1>10 DEF StreamInv

(* Steps that leave the streams and what is held alone, and do not move    *)
(* the session while it drops.                                             *)
LEMMA SessionOnlyInv ==
  ASSUME StreamInv, UNCHANGED <<held, stream>>, serving' \in Session,
         serving.pc \in {"dropping", "closing"} /\ stream[serving.drop].pc = "stopping"
           => serving'.pc = serving.pc /\ serving'.drop = serving.drop
  PROVE  StreamInv'
<1>1. OnlyTheDropped'
  <2>. SUFFICES ASSUME NEW i \in Stream, stream[i].pc = "stopping", Joined(i)
                PROVE  serving'.drop = i /\ serving'.pc \in {"dropping", "closing"}
    BY DEF OnlyTheDropped, Stream, Joined
  <2>. QED  BY DEF StreamInv, OnlyTheDropped
<1>. QED  BY <1>1 DEF StreamInv, HeldFits, Holds, RunningIsHeld, Stream

LEMMA SessionStepInv ==
  ASSUME StreamInv,
         \/ Refuse \/ Sent \/ DropReturns \/ ClientHangsUp \/ Disconnect
         \/ \E reply \in BOOLEAN : BeginSend(reply)
         \/ \E i \in Stream : EmitChange(i) \/ EmitStats(i) \/ EmitOutput(i) \/ EmitLsp(i)
                              \/ LeaveBehind(i) \/ LeftBehindEnds(i)
  PROVE  StreamInv'
<1>. USE DEF StreamInv, Session, ServingAt
<1>1. CASE Refuse
  BY <1>1, SessionOnlyInv DEF Refuse
<1>2. CASE Sent
  BY <1>2, SessionOnlyInv DEF Sent
<1>3. CASE DropReturns
  BY <1>3, SessionOnlyInv DEF DropReturns, Ended
<1>4. CASE Disconnect
  BY <1>4, SessionOnlyInv DEF Disconnect
<1>5. ASSUME NEW reply \in BOOLEAN, BeginSend(reply) PROVE StreamInv'
  <2>1. serving' = [serving EXCEPT !.pc = "sending", !.reply = reply] /\ serving.pc = "reading"
    BY <1>5 DEF BeginSend
  <2>. QED  BY <1>5, <2>1, SessionOnlyInv DEF BeginSend
<1>6. ASSUME NEW i \in Stream, EmitChange(i) \/ EmitStats(i) \/ EmitOutput(i) \/ EmitLsp(i)
      PROVE  StreamInv'
  BY <1>6, SessionOnlyInv DEF EmitChange, EmitStats, EmitOutput, EmitLsp, Frame
<1>7. ASSUME NEW i \in Stream, LeaveBehind(i) \/ LeftBehindEnds(i)
      PROVE  StreamInv'
  BY <1>7, SessionOnlyInv DEF LeaveBehind, LeftBehindEnds
<1>8. CASE ClientHangsUp
  BY <1>8, SessionOnlyInv DEF ClientHangsUp
<1>. QED  BY <1>1, <1>2, <1>3, <1>4, <1>5, <1>6, <1>7, <1>8

(* A thread that ends runs no more and needs no joining.                   *)
LEMMA ThreadEndsInv ==
  ASSUME StreamInv, NEW i \in Stream, ObserverEnds(i) \/ FrameRefused(i) \/ ReaderEnds(i)
  PROVE  StreamInv'
<1>1. PICK n \in Nat : stream \in [1..n -> StreamRecord]
  BY DEF StreamInv
<1>2. stream' = [stream EXCEPT ![i].pc = "over"] /\ UNCHANGED <<held, serving>> /\ i \in 1..n
  BY <1>1 DEF ObserverEnds, FrameRefused, ReaderEnds, Stream
<1>3. /\ stream' \in [1..n -> StreamRecord] /\ Stream = 1..n /\ Stream' = 1..n
      /\ \A j \in 1..n : /\ stream'[j].slot = stream[j].slot
                         /\ stream'[j].pc = IF j = i THEN "over" ELSE stream[j].pc
  BY <1>1, <1>2 DEF StreamRecord, Stream
<1>. QED  BY <1>2, <1>3 DEF StreamInv, HeldFits, Holds, RunningIsHeld, OnlyTheDropped, Joined

(* Closing drops the next stream when the last one is over.                *)
LEMMA CloseNextInv ==
  ASSUME StreamInv, CloseNext
  PROVE  StreamInv'
<1>1. PICK n \in Nat : stream \in [1..n -> StreamRecord]
  BY DEF StreamInv
<1>2. PICK s \in Slot :
        /\ serving.pc = "closing" /\ held[s] # 0
        /\ serving.drop \notin Live
        /\ held' = [held EXCEPT ![s] = 0]
        /\ stream' = Told(held[s], stream)
        /\ serving' = [serving EXCEPT !.drop = IF Joined(held[s]) THEN held[s] ELSE 0]
  BY DEF CloseNext, ServingAt, Holds
<1>. DEFINE i == held[s]
<1>3. /\ Stream = 1..n /\ i \in 1..n /\ stream[i].slot = s
      /\ held \in [Slot -> Nat] /\ serving \in Session
  BY <1>1, <1>2 DEF StreamInv, HeldFits, Holds, Stream
<1>4. /\ stream' \in [1..n -> StreamRecord] /\ Stream' = 1..n
      /\ \A j \in 1..n : stream'[j].slot = stream[j].slot
      /\ \A j \in 1..n : j # i => stream'[j] = stream[j]
      /\ stream'[i].pc # "running"
  BY <1>1, <1>2, <1>3 DEF Told, StreamRecord, Stream
<1>5. /\ serving' \in Session /\ serving'.pc = "closing"
      /\ serving'.drop = IF Joined(i) THEN i ELSE 0
  BY <1>2, <1>3 DEF Session
<1>6. \A j \in 1..n : ~ (stream[j].pc = "stopping" /\ Joined(j))
  BY <1>2, <1>3 DEF StreamInv, OnlyTheDropped, Live
<1>. HIDE DEF i
<1>7. HeldFits'
  BY <1>2, <1>3, <1>4 DEF StreamInv, HeldFits, Holds
<1>8. RunningIsHeld'
  <2>. SUFFICES ASSUME NEW j \in 1..n, stream'[j].pc = "running"
                PROVE  held'[stream'[j].slot] = j
    BY <1>4 DEF RunningIsHeld
  <2>1. j # i /\ stream[j].pc = "running" /\ stream[j].slot \in Slot
    BY <1>1, <1>4 DEF StreamRecord
  <2>2. held[stream[j].slot] = j
    BY <1>3, <2>1 DEF StreamInv, RunningIsHeld
  <2>. QED  BY <1>2, <1>3, <1>4, <2>1, <2>2 DEF i
<1>9. OnlyTheDropped'
  <2>. SUFFICES ASSUME NEW j \in 1..n, stream'[j].pc = "stopping", stream'[j].slot.kind # "lsp"
                PROVE  serving'.drop = j
    BY <1>4, <1>5 DEF OnlyTheDropped, Joined
  <2>1. j = i
    BY <1>4, <1>6 DEF Joined
  <2>. QED  BY <1>4, <1>5, <2>1 DEF Joined
<1>. QED  BY <1>2, <1>3, <1>4, <1>5, <1>7, <1>8, <1>9 DEF StreamInv

(* A command is a replacement, a removal, a refusal or the start of a      *)
(* send.                                                                   *)
Command ==
  \/ \E k \in StreamKey : StartWatcher(k) \/ StopWatcher(k) \/ SpawnPty(k) \/ KillPty(k) \/ WritePty(k)
  \/ StartMonitor \/ StopMonitor \/ StartLsp \/ StopLsp \/ SendLsp

LEMMA CommandCases ==
  ASSUME Command
  PROVE  \/ \E s \in Slot : Replace(s)
         \/ \E s \in Slot, replies \in BOOLEAN : TakeOut(s, replies)
         \/ Refuse \/ \E reply \in BOOLEAN : BeginSend(reply)
<1>1. /\ \A k \in StreamKey : Watch(k) \in Slot /\ Pty(k) \in Slot
      /\ Sysinfo \in Slot /\ Lsp \in Slot
  BY DEF Slot
<1>2. ASSUME NEW k \in StreamKey,
             StartWatcher(k) \/ StopWatcher(k) \/ SpawnPty(k) \/ KillPty(k) \/ WritePty(k)
      PROVE  \/ \E s \in Slot : Replace(s)
             \/ \E s \in Slot, replies \in BOOLEAN : TakeOut(s, replies)
             \/ Refuse \/ \E reply \in BOOLEAN : BeginSend(reply)
  BY <1>1, <1>2 DEF StartWatcher, StopWatcher, SpawnPty, KillPty, WritePty
<1>3. CASE StartMonitor \/ StopMonitor \/ StartLsp \/ StopLsp \/ SendLsp
  BY <1>1, <1>3 DEF StartMonitor, StopMonitor, StartLsp, StopLsp, SendLsp
<1>. QED  BY <1>2, <1>3 DEF Command

(* One case per kind of step: the invariant, and who may have sent what    *)
(* the step put on the wire.                                               *)
LEMMA StreamStep ==
  ASSUME StreamInv, [StreamsNext]_streamVars
  PROVE  /\ StreamInv'
         /\ wire' # wire /\ wire'.from # 0 =>
              wire'.from \in Stream /\ stream[wire'.from].pc # "over"
<1>1. CASE Command
  <2>1. CASE \E s \in Slot : Replace(s)
    BY <2>1, ReplaceInv
  <2>2. CASE \E s \in Slot, replies \in BOOLEAN : TakeOut(s, replies)
    BY <2>2, TakeOutInv
  <2>3. CASE Refuse \/ \E reply \in BOOLEAN : BeginSend(reply)
    <3>1. StreamInv'
      BY <2>3, SessionStepInv
    <3>2. wire' = wire \/ wire'.from = 0
      <4>1. Refuse => wire'.from = 0
        BY DEF Refuse
      <4>2. ASSUME NEW reply \in BOOLEAN, BeginSend(reply) PROVE wire' = wire
        BY <4>2 DEF BeginSend
      <4>. QED  BY <2>3, <4>1, <4>2
    <3>. QED  BY <3>1, <3>2
  <2>. QED  BY <1>1, <2>1, <2>2, <2>3, CommandCases
<1>2. CASE Sent \/ DropReturns \/ ClientHangsUp \/ Disconnect
  <2>1. StreamInv'
    BY <1>2, SessionStepInv
  <2>2. wire' = wire \/ wire' = [from |-> 0, what |-> "reply"]
    BY <1>2 DEF Sent, DropReturns, ClientHangsUp, Disconnect
  <2>. QED  BY <2>1, <2>2
<1>3. CASE CloseNext
  BY <1>3, CloseNextInv DEF CloseNext
<1>4. ASSUME NEW i \in Stream, EmitChange(i) \/ EmitStats(i) \/ EmitOutput(i) \/ EmitLsp(i)
      PROVE  /\ StreamInv'
             /\ wire'.from = i /\ stream[i].pc # "over"
  BY <1>4, SessionStepInv DEF EmitChange, EmitStats, EmitOutput, EmitLsp, Frame
<1>5. ASSUME NEW i \in Stream, ObserverEnds(i) \/ FrameRefused(i) \/ ReaderEnds(i)
      PROVE  /\ StreamInv'
             /\ wire' # wire => wire'.from = i /\ stream[i].pc # "over"
  BY <1>5, ThreadEndsInv DEF ObserverEnds, FrameRefused, ReaderEnds, Live
<1>6. ASSUME NEW i \in Stream, LeaveBehind(i) \/ LeftBehindEnds(i)
      PROVE  StreamInv' /\ wire' = wire
  BY <1>6, SessionStepInv DEF LeaveBehind, LeftBehindEnds
<1>7. CASE UNCHANGED streamVars
  BY <1>7 DEF streamVars, StreamInv, HeldFits, Holds, RunningIsHeld, OnlyTheDropped, Stream, Joined
<1>. QED  BY <1>1, <1>2, <1>3, <1>4, <1>5, <1>6, <1>7 DEF StreamsNext, Command

(* What runs is held, and what was told to stop and is still waited for is *)
(* the one stream the session drops.                                       *)
THEOREM StreamInvariant == StreamsSpec => []StreamInv
BY StreamInvInit, StreamStep, PTL DEF StreamsSpec

(* session.rs, watch.rs: between commands, a frame on the wire comes from  *)
(* the stream the session holds under its id, or from a language server.   *)
THEOREM StreamFramesAreLive == StreamsSpec => FramesAreLive
<1>. DEFINE LiveOnly ==
       wire' # wire /\ serving.pc \in {"reading", "sending"} /\ wire'.from # 0 =>
         \/ held[stream[wire'.from].slot] = wire'.from
         \/ ~Joined(wire'.from)
<1>1. StreamInv /\ [StreamsNext]_streamVars => [LiveOnly]_streamVars
  <2>. SUFFICES ASSUME StreamInv, [StreamsNext]_streamVars,
                       wire' # wire, serving.pc \in {"reading", "sending"}, wire'.from # 0,
                       Joined(wire'.from)
                PROVE  held[stream[wire'.from].slot] = wire'.from
    OBVIOUS
  <2>1. wire'.from \in Stream /\ stream[wire'.from].pc # "over"
    BY StreamStep
  <2>2. stream[wire'.from].pc # "stopping"
    BY <2>1, NoneDropping
  <2>3. stream[wire'.from].pc = "running"
    BY <2>1, <2>2 DEF StreamInv, StreamRecord, Stream
  <2>. QED  BY <2>1, <2>3 DEF StreamInv, RunningIsHeld
<1>. QED  BY StreamInvariant, <1>1, PTL DEF StreamsSpec, FramesAreLive

(* Whoever is waited for, spoke last or is kept open was started.          *)
SpeakersKnown ==
  /\ serving.drop \in Stream \cup {0} /\ wire.from \in Stream \cup {0}
  /\ kept \subseteq Stream

LEMMA DropThenKnown ==
  ASSUME SpeakersKnown, NEW all, NEW i \in Stream \cup {0}, NEW replies,
         Stream \subseteq DOMAIN all, DropThen(i, all, replies)
  PROVE  SpeakersKnown'
<1>1. Stream \subseteq Stream'
  <2>1. stream' = all \/ stream' = [all EXCEPT ![i].pc = "stopping"]
    BY DEF DropThen, Told
  <2>2. DOMAIN stream' = DOMAIN all
    BY <2>1
  <2> QED BY <2>2 DEF Stream
<1>2. serving'.drop \in {serving.drop, i} /\ wire'.from \in {wire.from, 0} /\ kept' = kept
  BY DEF DropThen
<1> QED BY <1>1, <1>2 DEF SpeakersKnown

LEMMA CommandKnown ==
  ASSUME StreamInv, SpeakersKnown, Command
  PROVE  SpeakersKnown'
<1>0. \A s \in Slot : held[s] \in Stream \cup {0}
  BY DEF StreamInv, HeldFits, Holds
<1>1. ASSUME NEW s \in Slot, Replace(s) PROVE SpeakersKnown'
  <2>1. PICK new : new = Cardinality(Stream) + 1
    OBVIOUS
  <2>2. PICK all : all = [i \in Stream \cup {new} |->
                            IF i = new THEN [slot |-> s, pc |-> "running"] ELSE stream[i]]
    OBVIOUS
  <2>3. DropThen(held[s], all, TRUE)
    BY <1>1, <2>1, <2>2 DEF Replace
  <2>4. Stream \subseteq DOMAIN all
    BY <2>2
  <2> QED BY <1>0, <2>3, <2>4, DropThenKnown
<1>2. ASSUME NEW s \in Slot, NEW replies \in BOOLEAN, TakeOut(s, replies) PROVE SpeakersKnown'
  BY <1>0, <1>2, DropThenKnown DEF TakeOut, Stream
<1>3. CASE Refuse
  BY <1>3 DEF Refuse, SpeakersKnown, Stream
<1>4. ASSUME NEW reply \in BOOLEAN, BeginSend(reply) PROVE SpeakersKnown'
  <2>1. serving'.drop = serving.drop
    BY <1>4 DEF BeginSend, StreamInv, Session
  <2> QED BY <1>4, <2>1 DEF BeginSend, SpeakersKnown, Stream
<1> QED BY <1>1, <1>2, <1>3, <1>4, CommandCases

LEMMA SpeakersKnownStep == StreamInv /\ SpeakersKnown /\ [StreamsNext]_streamVars => SpeakersKnown'
<1> SUFFICES ASSUME StreamInv, SpeakersKnown, [StreamsNext]_streamVars PROVE SpeakersKnown'
  OBVIOUS
<1>0. serving \in Session /\ \A s \in Slot : held[s] \in Stream \cup {0}
  BY DEF StreamInv, HeldFits, Holds
<1>1. CASE Command
  BY <1>1, CommandKnown
<1>2. CASE Sent \/ DropReturns \/ ClientHangsUp \/ Disconnect
  <2>1. /\ wire' = wire \/ wire' = [from |-> 0, what |-> "reply"]
        /\ stream' = stream /\ kept' = kept
    BY <1>2 DEF Sent, DropReturns, ClientHangsUp, Disconnect
  <2>2. \/ serving' = serving
        \/ serving' = [serving EXCEPT !.pc = "reading"]
        \/ serving' = [serving EXCEPT !.pc = "closing"]
        \/ serving' = [serving EXCEPT !.pc = "reading", !.drop = 0]
    BY <1>2 DEF Sent, DropReturns, ClientHangsUp, Disconnect
  <2>3. serving'.drop \in {serving.drop, 0}
    BY <1>0, <2>2 DEF Session
  <2>4. wire'.from \in {wire.from, 0}
    BY <2>1
  <2> QED BY <2>1, <2>3, <2>4 DEF SpeakersKnown, Stream
<1>3. CASE CloseNext
  <2>1. PICK s \in Slot : /\ stream' = Told(held[s], stream) /\ wire' = wire /\ kept' = kept
                          /\ serving' = [serving EXCEPT !.drop = IF Joined(held[s]) THEN held[s] ELSE 0]
    BY <1>3 DEF CloseNext
  <2>2. serving'.drop \in {held[s], 0}
    BY <1>0, <2>1 DEF Session
  <2>3. DOMAIN stream' = DOMAIN stream
    BY <2>1 DEF Told
  <2> QED BY <1>0, <2>1, <2>2, <2>3 DEF SpeakersKnown, Stream
<1>4. ASSUME NEW i \in Stream, EmitChange(i) \/ EmitStats(i) \/ EmitOutput(i) \/ EmitLsp(i)
                               \/ ObserverEnds(i) \/ FrameRefused(i) \/ ReaderEnds(i)
                               \/ LeaveBehind(i) \/ LeftBehindEnds(i)
      PROVE  SpeakersKnown'
  <2>1. /\ serving' = serving /\ wire'.from \in {wire.from, i} /\ DOMAIN stream' = DOMAIN stream
        /\ kept' \in {kept, kept \cup {i}, kept \ {i}}
    BY <1>4 DEF EmitChange, EmitStats, EmitOutput, EmitLsp, Frame, ObserverEnds, FrameRefused, ReaderEnds,
                LeaveBehind, LeftBehindEnds
  <2> QED BY <2>1 DEF SpeakersKnown, Stream
<1>5. CASE UNCHANGED streamVars
  BY <1>5 DEF streamVars, SpeakersKnown, Stream
<1> QED BY <1>1, <1>2, <1>3, <1>4, <1>5 DEF StreamsNext, Command

HangUp == gone \in BOOLEAN

(* A client that left does not come back.                                  *)
LEMMA HangUpLasts == [StreamsNext]_streamVars => gone' = gone \/ gone' = TRUE
<1> SUFFICES ASSUME [StreamsNext]_streamVars PROVE gone' = gone \/ gone' = TRUE
  OBVIOUS
<1>1. CASE Command
  <2>1. gone' = gone
    BY <1>1, CommandCases DEF Replace, TakeOut, DropThen, Refuse, BeginSend
  <2> QED BY <2>1
<1>2. CASE Sent \/ DropReturns \/ ClientHangsUp \/ Disconnect \/ CloseNext
  BY <1>2 DEF Sent, DropReturns, ClientHangsUp, Disconnect, CloseNext
<1>3. ASSUME NEW i \in Stream, EmitChange(i) \/ EmitStats(i) \/ EmitOutput(i) \/ EmitLsp(i)
                               \/ ObserverEnds(i) \/ FrameRefused(i) \/ ReaderEnds(i)
                               \/ LeaveBehind(i) \/ LeftBehindEnds(i)
      PROVE  gone' = gone
  BY <1>3 DEF EmitChange, EmitStats, EmitOutput, EmitLsp, Frame, ObserverEnds, FrameRefused, ReaderEnds,
              LeaveBehind, LeftBehindEnds
<1>4. CASE UNCHANGED streamVars
  BY <1>4 DEF streamVars
<1> QED BY <1>1, <1>2, <1>3, <1>4 DEF StreamsNext, Command

(* session.rs: a slot holds, and the session waits for, a stream that was  *)
(* started, and every frame comes from one.                                *)
THEOREM StreamTypes == StreamsSpec => []StreamsTypeOK
<1>1. StreamsInit => SpeakersKnown /\ HangUp
  <2>1. StreamsInit => SpeakersKnown
    BY DEF StreamsInit, SpeakersKnown
  <2>2. StreamsInit => HangUp
    BY Zenon DEF StreamsInit, HangUp
  <2> QED BY <2>1, <2>2
<1>2. StreamInv /\ SpeakersKnown /\ HangUp => StreamsTypeOK
  <2> SUFFICES ASSUME StreamInv, SpeakersKnown, HangUp PROVE StreamsTypeOK
    OBVIOUS
  <2>1. \A s \in Slot : held[s] \in Stream \cup {0}
    BY DEF StreamInv, HeldFits, Holds
  <2>2. \A i \in Stream : stream[i].slot \in Slot /\ stream[i].pc \in {"running", "stopping", "over"}
    BY DEF StreamInv, Stream, StreamRecord
  <2> QED BY <2>1, <2>2 DEF StreamInv, Session, SpeakersKnown, HangUp, StreamsTypeOK
<1>3. HangUp /\ [StreamsNext]_streamVars => HangUp'
  BY HangUpLasts DEF HangUp
<1> QED BY <1>1, <1>2, <1>3, SpeakersKnownStep, StreamInvariant, PTL DEF StreamsSpec

-----------------------------------------------------------------------------
(***************************************************************************)
(* Events between peers (PeerMesh).  A peer forwards only what its own     *)
(* clients published, so an event is on its way to a host at most once: in *)
(* the forwarder's list, in one queue, or delivered.                       *)
(***************************************************************************)

(* No host was told to dial itself: such a link would bring back what it   *)
(* carries away.                                                           *)
NoSelfDial == \A c \in Dials : c[1] # c[2]

PeerFrame == {Hello, Reply} \cup {Pub(e) : e \in Event}
Ends(c) == {c[1], c[2]}
Carries(s, e) == \E i \in 1..Len(s) : s[i] = Pub(e)
Once(s, e) == \A i, j \in 1..Len(s) : s[i] = Pub(e) /\ s[j] = Pub(e) => i = j

(* A link leads to the host whose name it has, and one link to each.       *)
GoodLinks(h, L) ==
  /\ \A l \in L : l.conn \in Dials /\ h \in Ends(l.conn) /\ l.peer = Other(l.conn, h)
  /\ \A l, m \in L : l.peer = m.peer => l = m

MeshRecords ==
  /\ events \in Nat
  /\ delivered \in [Host -> [Event -> 0..1]]
  /\ frames = [c \in Dials |-> frames[c]]
  /\ \A c \in Dials : frames[c] \in [Ends(c) -> Seq(PeerFrame)]
  /\ links = [h \in Host |-> links[h]] /\ forwarding = [h \in Host |-> forwarding[h]]
  /\ \A h \in Host : GoodLinks(h, links[h])

(* An event is forwarded by the host that published it, once, and has come *)
(* to that host's own bus.                                                 *)
OneForwarder ==
  /\ \A h \in Host : \A b \in forwarding[h] :
       /\ b = [event |-> b.event, to |-> b.to] /\ b.event \in Event /\ b.event <= events
       /\ GoodLinks(h, b.to) /\ delivered[h][b.event] = 1
  /\ \A h, g \in Host : \A b \in forwarding[h], d \in forwarding[g] :
       b.event = d.event => h = g /\ b = d

(* An event is on its way to a host in one place at most - in a frame, or  *)
(* in a broadcast that has yet to take the link there - and in none once   *)
(* it has come.                                                            *)
OnItsWay ==
  /\ \A c \in Dials : \A h \in Ends(c) : \A e \in Event :
       /\ Once(frames[c][h], e)
       /\ Carries(frames[c][h], e) => delivered[h][e] = 0 /\ e <= events
  /\ \A c, d \in Dials : \A h \in Ends(c) \cap Ends(d) : \A e \in Event :
       Carries(frames[c][h], e) /\ Carries(frames[d][h], e) => c = d
  /\ \A g \in Host : \A b \in forwarding[g] : \A l \in b.to :
       /\ delivered[l.peer][b.event] = 0
       /\ \A c \in Dials : l.peer \in Ends(c) => ~Carries(frames[c][l.peer], b.event)
  /\ \A h \in Host, e \in Event : e > events => delivered[h][e] = 0

MeshInv == MeshRecords /\ OneForwarder /\ OnItsWay

LEMMA DialsAre == \A c \in Dials : Ends(c) \subseteq Host /\ c = <<c[1], c[2]>>
BY PeerMeshAssumption DEF Ends

LEMMA PubsDiffer ==
  /\ \A e, f : Pub(e) = Pub(f) => e = f
  /\ \A e : Pub(e) # Hello /\ Pub(e) # Reply
<1>1. \A e, f : Pub(e) = Pub(f) => e = f
  <2>. SUFFICES ASSUME NEW e, NEW f, Pub(e) = Pub(f) PROVE e = f
    OBVIOUS
  <2>1. Pub(e).event = e /\ Pub(f).event = f
    BY DEF Pub
  <2>. QED  BY <2>1
<1>2. ASSUME NEW e PROVE Pub(e) # Hello /\ Pub(e) # Reply
  <2>1. Pub(e).kind = "pub" /\ Hello.kind = "hello" /\ Reply.kind = "reply"
    BY DEF Pub, Hello, Reply
  <2>. QED  BY <2>1
<1>. QED  BY <1>1, <1>2

LEMMA SmallQueues ==
  /\ <<>> \in Seq(PeerFrame) /\ <<Hello>> \in Seq(PeerFrame)
  /\ \A e : ~Carries(<<>>, e) /\ Once(<<>>, e) /\ ~Carries(<<Hello>>, e) /\ Once(<<Hello>>, e)
<1>1. <<>> \in Seq(PeerFrame) /\ <<Hello>> \in Seq(PeerFrame)
  BY DEF PeerFrame
<1>2. ASSUME NEW e
      PROVE  ~Carries(<<>>, e) /\ Once(<<>>, e) /\ ~Carries(<<Hello>>, e) /\ Once(<<Hello>>, e)
  <2>1. Len(<<>>) = 0 /\ Len(<<Hello>>) = 1 /\ <<Hello>>[1] = Hello
    OBVIOUS
  <2>2. \A i \in 1..0 : FALSE
    OBVIOUS
  <2>3. \A i \in 1..1 : i = 1
    OBVIOUS
  <2>. QED  BY <2>1, <2>2, <2>3, PubsDiffer DEF Carries, Once
<1>. QED  BY <1>1, <1>2

LEMMA AppendFrame ==
  ASSUME NEW s \in Seq(PeerFrame), NEW f \in PeerFrame
  PROVE  /\ Append(s, f) \in Seq(PeerFrame)
         /\ \A e : f # Pub(e) => /\ Carries(Append(s, f), e) => Carries(s, e)
                                 /\ Once(s, e) => Once(Append(s, f), e)
         /\ \A e : f = Pub(e) /\ ~Carries(s, e) => Once(Append(s, f), e)
<1>1. /\ Append(s, f) \in Seq(PeerFrame) /\ Len(Append(s, f)) = Len(s) + 1 /\ Len(s) \in Nat
      /\ \A i \in 1..Len(s) : Append(s, f)[i] = s[i]
      /\ Append(s, f)[Len(s) + 1] = f
  BY AppendProperties, LenProperties
<1>2. \A i \in 1..Len(Append(s, f)) : i \in 1..Len(s) \/ i = Len(s) + 1
  BY <1>1
<1>3. \A e : f # Pub(e) => /\ Carries(Append(s, f), e) => Carries(s, e)
                           /\ Once(s, e) => Once(Append(s, f), e)
  BY <1>1, <1>2, Zenon DEF Carries, Once
<1>4. \A e : f = Pub(e) /\ ~Carries(s, e) => Once(Append(s, f), e)
  BY <1>1, <1>2, Zenon DEF Carries, Once
<1>. QED  BY <1>1, <1>3, <1>4

LEMMA TakeHead ==
  ASSUME NEW s \in Seq(PeerFrame), s # <<>>
  PROVE  /\ Tail(s) \in Seq(PeerFrame) /\ Head(s) \in PeerFrame
         /\ \A e : /\ Carries(Tail(s), e) => Carries(s, e)
                   /\ Once(s, e) => Once(Tail(s), e)
                   /\ Head(s) = Pub(e) => Carries(s, e)
                   /\ Head(s) = Pub(e) /\ Once(s, e) => ~Carries(Tail(s), e)
<1>1. /\ Head(s) \in PeerFrame /\ Tail(s) \in Seq(PeerFrame) /\ Len(Tail(s)) = Len(s) - 1
      /\ \A i \in 1..Len(Tail(s)) : Tail(s)[i] = s[i + 1]
  BY HeadTailProperties
<1>2. Len(s) \in Nat /\ Len(s) > 0 /\ Head(s) = s[1]
  BY EmptySeq
<1>3. \A i \in 1..Len(Tail(s)) : i + 1 \in 1..Len(s) /\ i + 1 # 1
  BY <1>1, <1>2
<1>4. 1 \in 1..Len(s)
  BY <1>2
<1>5. \A i, j \in 1..Len(Tail(s)) : i + 1 = j + 1 => i = j
  BY <1>1, <1>2
<1>6. \A e : Carries(Tail(s), e) => Carries(s, e)
  BY <1>1, <1>3, Zenon DEF Carries
<1>7. \A e : Once(s, e) => Once(Tail(s), e)
  BY <1>1, <1>3, <1>5, Zenon DEF Once
<1>8. \A e : Head(s) = Pub(e) => Carries(s, e)
  BY <1>2, <1>4 DEF Carries
<1>9. \A e : Head(s) = Pub(e) /\ Once(s, e) => ~Carries(Tail(s), e)
  BY <1>1, <1>2, <1>3, <1>4, Zenon DEF Carries, Once
<1>. QED  BY <1>1, <1>6, <1>7, <1>8, <1>9

LEMMA MeshInvInit == PeerMeshInit => MeshInv
<1>. SUFFICES ASSUME PeerMeshInit PROVE MeshInv
  OBVIOUS
<1>1. MeshRecords
  BY SmallQueues DEF PeerMeshInit, MeshRecords, GoodLinks, Ends
<1>2. OneForwarder
  BY DEF PeerMeshInit, OneForwarder
<1>3. \A c \in Dials : \A h \in Ends(c) : frames[c][h] = <<>>
  BY DEF PeerMeshInit, Ends
<1>4. OnItsWay
  BY <1>3, SmallQueues, DialsAre DEF PeerMeshInit, OnItsWay
<1>. QED  BY <1>1, <1>2, <1>4 DEF MeshInv

(* A step that delivers nothing and forwards nothing can only lose events: *)
(* a queue gets shorter, or longer by a frame of the handshake.            *)
Weaker(new, old) ==
  /\ new \in Seq(PeerFrame)
  /\ \A e \in Event : (Carries(new, e) => Carries(old, e)) /\ (Once(old, e) => Once(new, e))

LEMMA WeakerIs ==
  /\ \A s \in Seq(PeerFrame) : Weaker(s, s) /\ Weaker(<<>>, s) /\ Weaker(<<Hello>>, s)
  /\ \A s \in Seq(PeerFrame) : Weaker(Append(s, Reply), s) /\ (s # <<>> => Weaker(Tail(s), s))
<1>1. \A s \in Seq(PeerFrame) : Weaker(s, s) /\ Weaker(<<>>, s) /\ Weaker(<<Hello>>, s)
  BY SmallQueues DEF Weaker
<1>2. ASSUME NEW s \in Seq(PeerFrame) PROVE Weaker(Append(s, Reply), s)
  <2>1. Reply \in PeerFrame /\ \A e : Reply # Pub(e)
    BY PubsDiffer DEF PeerFrame
  <2>. QED  BY <2>1, AppendFrame DEF Weaker
<1>3. ASSUME NEW s \in Seq(PeerFrame), s # <<>> PROVE Weaker(Tail(s), s)
  BY <1>3, TakeHead DEF Weaker
<1>. QED  BY <1>1, <1>2, <1>3

Loses ==
  /\ UNCHANGED <<events, delivered, forwarding>>
  /\ frames' = [c \in Dials |-> frames'[c]]
  /\ \A c \in Dials : /\ frames'[c] \in [Ends(c) -> Seq(PeerFrame)]
                      /\ \A h \in Ends(c) : Weaker(frames'[c][h], frames[c][h])
  /\ links' = [h \in Host |-> links'[h]] /\ \A h \in Host : GoodLinks(h, links'[h])

LEMMA LosesInv ==
  ASSUME MeshInv, Loses
  PROVE  MeshInv'
<1>1. MeshRecords'
  BY DEF MeshInv, MeshRecords, Loses
<1>2. OneForwarder'
  BY DEF MeshInv, OneForwarder, Loses
<1>3. /\ \A c \in Dials : \A h \in Ends(c) : \A e \in Event :
            /\ Carries(frames'[c][h], e) => Carries(frames[c][h], e)
            /\ Once(frames[c][h], e) => Once(frames'[c][h], e)
  BY DEF Loses, Weaker
<1>4. OnItsWay
  BY DEF MeshInv
<1>5. \A g \in Host : \A b \in forwarding[g] : b.event \in Event
  BY DEF MeshInv, OneForwarder
<1>6. events' = events /\ delivered' = delivered /\ forwarding' = forwarding
  BY DEF Loses
<1>7. OnItsWay'
  BY <1>3, <1>4, <1>5, <1>6 DEF OnItsWay
<1>. QED  BY <1>1, <1>2, <1>7 DEF MeshInv

(* One queue replaced by another.                                          *)
Replaced(c, h, s) == frames' = [frames EXCEPT ![c][h] = s]

LEMMA OneQueue ==
  ASSUME MeshRecords, NEW c \in Dials, NEW h \in Ends(c), NEW s \in Seq(PeerFrame),
         Replaced(c, h, s)
  PROVE  /\ frames' = [d \in Dials |-> frames'[d]]
         /\ \A d \in Dials : frames'[d] \in [Ends(d) -> Seq(PeerFrame)]
         /\ frames'[c][h] = s
         /\ \A d \in Dials : \A g \in Ends(d) : d # c \/ g # h => frames'[d][g] = frames[d][g]
<1>1. frames' = [frames EXCEPT ![c] = [frames[c] EXCEPT ![h] = s]]
  BY DEF Replaced
<1>2. /\ frames' = [d \in Dials |-> frames'[d]]
      /\ frames'[c] = [frames[c] EXCEPT ![h] = s]
      /\ \A d \in Dials : d # c => frames'[d] = frames[d]
  BY <1>1 DEF MeshRecords
<1>3. frames[c] \in [Ends(c) -> Seq(PeerFrame)]
  BY DEF MeshRecords
<1>4. PICK q : q = frames'[c]
  OBVIOUS
<1>5. q \in [Ends(c) -> Seq(PeerFrame)] /\ q[h] = s /\ \A g \in Ends(c) : g # h => q[g] = frames[c][g]
  BY <1>2, <1>3, <1>4
<1>6. \A d \in Dials : frames'[d] \in [Ends(d) -> Seq(PeerFrame)]
  <2>. SUFFICES ASSUME NEW d \in Dials PROVE frames'[d] \in [Ends(d) -> Seq(PeerFrame)]
    OBVIOUS
  <2>1. frames[d] \in [Ends(d) -> Seq(PeerFrame)]
    BY DEF MeshRecords
  <2>. QED  BY <1>2, <1>4, <1>5, <2>1
<1>7. \A d \in Dials : \A g \in Ends(d) : d # c \/ g # h => frames'[d][g] = frames[d][g]
  BY <1>2, <1>4, <1>5
<1>8. frames' = [d \in Dials |-> frames'[d]] /\ frames'[c][h] = s
  BY <1>2, <1>4, <1>5
<1>. HIDE DEF Ends
<1>. QED  BY <1>6, <1>7, <1>8

LEMMA WeakerQueue ==
  ASSUME MeshRecords, NEW c \in Dials, NEW h \in Ends(c), NEW s,
         Weaker(s, frames[c][h]), Replaced(c, h, s)
  PROVE  /\ frames' = [d \in Dials |-> frames'[d]]
         /\ \A d \in Dials : /\ frames'[d] \in [Ends(d) -> Seq(PeerFrame)]
                             /\ \A g \in Ends(d) : Weaker(frames'[d][g], frames[d][g])
<1>1. s \in Seq(PeerFrame)
  BY DEF Weaker
<1>2. \A d \in Dials : \A g \in Ends(d) : frames[d][g] \in Seq(PeerFrame)
  BY DEF MeshRecords
<1>. QED  BY <1>1, <1>2, OneQueue, WeakerIs

(* All queues of a connection replaced.                                    *)
LEMMA NewQueues ==
  ASSUME MeshRecords, NEW c \in Dials, NEW q \in [Ends(c) -> {<<>>, <<Hello>>}],
         frames' = [frames EXCEPT ![c] = q]
  PROVE  /\ frames' = [d \in Dials |-> frames'[d]]
         /\ \A d \in Dials : /\ frames'[d] \in [Ends(d) -> Seq(PeerFrame)]
                             /\ \A g \in Ends(d) : Weaker(frames'[d][g], frames[d][g])
<1>1. /\ frames' = [d \in Dials |-> frames'[d]] /\ frames'[c] = q
      /\ \A d \in Dials : d # c => frames'[d] = frames[d]
  BY DEF MeshRecords
<1>2. q \in [Ends(c) -> Seq(PeerFrame)]
  BY SmallQueues
<1>3. \A d \in Dials : frames[d] \in [Ends(d) -> Seq(PeerFrame)]
  BY DEF MeshRecords
<1>4. \A d \in Dials : \A g \in Ends(d) : frames[d][g] \in Seq(PeerFrame)
  BY <1>3
<1>5. \A g \in Ends(c) : Weaker(q[g], frames[c][g])
  BY <1>4, WeakerIs
<1>. QED  BY <1>1, <1>2, <1>3, <1>4, <1>5, WeakerIs

(* register_link leaves one link of each name; to drop some is harmless.   *)
LEMMA Registered ==
  ASSUME MeshRecords, NEW c \in Dials, NEW h \in Ends(c), RegisterLink(h, c)
  PROVE  links' = [g \in Host |-> links'[g]] /\ \A g \in Host : GoodLinks(g, links'[g])
<1>. DEFINE new == [id |-> lastLink[h] + 1, peer |-> Other(c, h), conn |-> c]
<1>1. h \in Host /\ links' = [links EXCEPT ![h] = Others(h, Other(c, h)) \cup {new}]
  BY DialsAre DEF RegisterLink
<1>2. new.peer = Other(c, h) /\ new.conn = c
  OBVIOUS
<1>. HIDE DEF new
<1>3. /\ links' = [g \in Host |-> links'[g]]
      /\ links'[h] = Others(h, Other(c, h)) \cup {new}
      /\ \A g \in Host : g # h => links'[g] = links[g]
  BY <1>1 DEF MeshRecords
<1>4. GoodLinks(h, links[h]) /\ \A g \in Host : GoodLinks(g, links[g])
  BY <1>1 DEF MeshRecords
<1>5. GoodLinks(h, Others(h, Other(c, h)) \cup {new})
  BY <1>2, <1>4 DEF GoodLinks, Others
<1>. QED  BY <1>3, <1>4, <1>5

LEMMA Dropped ==
  ASSUME MeshRecords, NEW h \in Host, NEW id, links' = Unregistered(h, id)
  PROVE  links' = [g \in Host |-> links'[g]] /\ \A g \in Host : GoodLinks(g, links'[g])
<1>1. /\ links' = [g \in Host |-> links'[g]]
      /\ \A g \in Host : links'[g] \subseteq links[g]
  BY DEF MeshRecords, Unregistered
<1>. QED  BY <1>1 DEF MeshRecords, GoodLinks

LEMMA SameLinks ==
  ASSUME MeshRecords, links' = links
  PROVE  links' = [g \in Host |-> links'[g]] /\ \A g \in Host : GoodLinks(g, links'[g])
BY DEF MeshRecords

LEMMA SameFrames ==
  ASSUME MeshRecords, frames' = frames
  PROVE  /\ frames' = [d \in Dials |-> frames'[d]]
         /\ \A d \in Dials : /\ frames'[d] \in [Ends(d) -> Seq(PeerFrame)]
                             /\ \A g \in Ends(d) : Weaker(frames'[d][g], frames[d][g])
<1>1. \A d \in Dials : \A g \in Ends(d) : frames[d][g] \in Seq(PeerFrame)
  BY DEF MeshRecords
<1>. QED  BY <1>1, WeakerIs DEF MeshRecords

(* Everything but publishing, forwarding and delivering.                   *)
LEMMA LinkStep ==
  ASSUME MeshInv, NEW c \in Dials,
         \/ StartDialling(c) \/ Dial(c) \/ AcceptHello(c) \/ ReplyHello(c) \/ DialAnswered(c)
         \/ DialRejected(c) \/ DialEnds(c) \/ Break(c)
  PROVE  MeshInv'
<1>1. MeshRecords /\ Ends(c) \subseteq Host /\ c[1] \in Ends(c) /\ c[2] \in Ends(c)
  BY DialsAre DEF MeshInv, Ends
<1>2. \A h \in Ends(c) : frames[c][h] \in Seq(PeerFrame)
  BY <1>1 DEF MeshRecords
<1>3. CASE StartDialling(c)
  <2>1. Loses
    BY <1>1, <1>3, SameFrames, SameLinks DEF StartDialling, Loses
  <2>. QED  BY <2>1, LosesInv
<1>4. CASE Dial(c)
  <2>1. /\ [h \in {c[1], c[2]} |-> IF h = c[2] THEN <<Hello>> ELSE <<>>] \in [Ends(c) -> {<<>>, <<Hello>>}]
        /\ frames' = [frames EXCEPT ![c] = [h \in {c[1], c[2]} |-> IF h = c[2] THEN <<Hello>> ELSE <<>>]]
        /\ links' = links /\ UNCHANGED <<events, delivered, forwarding>>
    BY <1>4 DEF Dial, Ends
  <2>2. Loses
    BY <1>1, <2>1, NewQueues, SameLinks DEF Loses
  <2>. QED  BY <2>2, LosesInv
<1>5. CASE AcceptHello(c)
  <2>1. /\ Replaced(c, c[2], Tail(frames[c][c[2]])) /\ frames[c][c[2]] # <<>>
        /\ RegisterLink(c[2], c) /\ UNCHANGED <<events, delivered, forwarding>>
    BY <1>5 DEF AcceptHello, TakeFrame, Arriving, Replaced
  <2>2. Weaker(Tail(frames[c][c[2]]), frames[c][c[2]])
    BY <1>1, <1>2, <2>1, WeakerIs
  <2>3. Loses
    BY <1>1, <2>1, <2>2, WeakerQueue, Registered DEF Loses
  <2>. QED  BY <2>3, LosesInv
<1>6. CASE ReplyHello(c)
  <2>1. /\ Replaced(c, c[1], Append(frames[c][c[1]], Reply))
        /\ links' = links /\ UNCHANGED <<events, delivered, forwarding>>
    BY <1>6 DEF ReplyHello, SendFrame, Replaced
  <2>2. Weaker(Append(frames[c][c[1]], Reply), frames[c][c[1]])
    BY <1>1, <1>2, WeakerIs
  <2>3. Loses
    BY <1>1, <2>1, <2>2, WeakerQueue, SameLinks DEF Loses
  <2>. QED  BY <2>3, LosesInv
<1>7. CASE DialAnswered(c)
  <2>1. /\ Replaced(c, c[1], Tail(frames[c][c[1]])) /\ frames[c][c[1]] # <<>>
        /\ RegisterLink(c[1], c) /\ UNCHANGED <<events, delivered, forwarding>>
    BY <1>7 DEF DialAnswered, TakeFrame, Arriving, Replaced
  <2>2. Weaker(Tail(frames[c][c[1]]), frames[c][c[1]])
    BY <1>1, <1>2, <2>1, WeakerIs
  <2>3. Loses
    BY <1>1, <2>1, <2>2, WeakerQueue, Registered DEF Loses
  <2>. QED  BY <2>3, LosesInv
<1>8. CASE DialRejected(c) \/ Break(c)
  <2>1. /\ [h \in {c[1], c[2]} |-> <<>>] \in [Ends(c) -> {<<>>, <<Hello>>}]
        /\ frames' = [frames EXCEPT ![c] = [h \in {c[1], c[2]} |-> <<>>]]
        /\ links' = links /\ UNCHANGED <<events, delivered, forwarding>>
    BY <1>8 DEF DialRejected, Break, Hangup, Ends
  <2>2. Loses
    BY <1>1, <2>1, NewQueues, SameLinks DEF Loses
  <2>. QED  BY <2>2, LosesInv
<1>9. CASE DialEnds(c)
  <2>1. /\ links' = Unregistered(c[1], dialler[c].link) /\ frames' = frames
        /\ UNCHANGED <<events, delivered, forwarding>>
    BY <1>9 DEF DialEnds
  <2>2. Loses
    BY <1>1, <2>1, SameFrames, Dropped DEF Loses
  <2>. QED  BY <2>2, LosesInv
<1>. QED  BY <1>3, <1>4, <1>5, <1>6, <1>7, <1>8, <1>9

LEMMA SessionEndsInv ==
  ASSUME MeshInv, NEW h \in Host, SessionEnds(h)
  PROVE  MeshInv'
<1>1. PICK id : /\ links' = Unregistered(h, id) /\ frames' = frames
                /\ UNCHANGED <<events, delivered, forwarding>>
  BY DEF SessionEnds
<1>2. Loses
  BY <1>1, SameFrames, Dropped DEF Loses, MeshInv
<1>. QED  BY <1>2, LosesInv

(* A new event: at home it has arrived, and it will go once on each link.  *)
LEMMA PublishEventInv ==
  ASSUME MeshInv, NoSelfDial, NEW h \in Host, PublishEvent(h)
  PROVE  MeshInv'
<1>. DEFINE e == events + 1
            new == [event |-> e, to |-> links[h]]
<1>1. /\ events' = e /\ e \in Event /\ events \in Nat
      /\ delivered' = [delivered EXCEPT ![h][e] = IF @ < 2 THEN @ + 1 ELSE @]
      /\ forwarding' = [forwarding EXCEPT ![h] = @ \cup {new}]
      /\ frames' = frames /\ links' = links
  BY PeerMeshAssumption DEF PublishEvent, DeliverOn, Event, MeshInv, MeshRecords
<1>2. MeshRecords /\ OneForwarder /\ OnItsWay
  BY DEF MeshInv
<1>3. new.event = e /\ new.to = links[h] /\ new = [event |-> new.event, to |-> new.to] /\ e > events
  BY <1>1
<1>. HIDE DEF e, new
<1>4. \A g \in Host : delivered[g][e] = 0
  BY <1>1, <1>2, <1>3 DEF OnItsWay
<1>5. /\ delivered' \in [Host -> [Event -> 0..1]]
      /\ delivered'[h][e] = 1
      /\ \A g \in Host, f \in Event : g # h \/ f # e => delivered'[g][f] = delivered[g][f]
  BY <1>1, <1>2, <1>4 DEF MeshRecords
<1>6. /\ forwarding' = [g \in Host |-> forwarding'[g]]
      /\ forwarding'[h] = forwarding[h] \cup {new}
      /\ \A g \in Host : g # h => forwarding'[g] = forwarding[g]
  BY <1>1, <1>2 DEF MeshRecords
<1>7. MeshRecords'
  BY <1>1, <1>2, <1>5, <1>6, <1>3 DEF MeshRecords, e
<1>8. \A g \in Host : \A b \in forwarding[g] : b.event # e /\ b.event \in Event /\ b.event <= events
  BY <1>1, <1>2, <1>3 DEF OneForwarder, Event
<1>9. OneForwarder'
  <2>1. ASSUME NEW g \in Host, NEW b \in forwarding'[g]
        PROVE  /\ b = [event |-> b.event, to |-> b.to] /\ b.event \in Event /\ b.event <= events'
               /\ GoodLinks(g, b.to) /\ delivered'[g][b.event] = 1
    <3>1. CASE b = new /\ g = h
      BY <1>1, <1>2, <1>3, <1>5, <3>1 DEF MeshRecords, Event
    <3>2. CASE b \in forwarding[g]
      BY <1>1, <1>2, <1>3, <1>5, <1>8, <3>2 DEF OneForwarder, Event
    <3>. QED  BY <1>6, <2>1, <3>1, <3>2
  <2>2. ASSUME NEW g \in Host, NEW k \in Host, NEW b \in forwarding'[g], NEW d \in forwarding'[k],
               b.event = d.event
        PROVE  g = k /\ b = d
    BY <1>2, <1>3, <1>6, <1>8, <2>2 DEF OneForwarder
  <2>. QED  BY <2>1, <2>2 DEF OneForwarder
<1>10. OnItsWay'
  <2>1. \A c \in Dials : \A g \in Ends(c) : ~Carries(frames[c][g], e)
    BY <1>1, <1>2, <1>3 DEF OnItsWay, Event
  <2>2. ASSUME NEW c \in Dials, NEW g \in Ends(c), NEW f \in Event
        PROVE  /\ Once(frames'[c][g], f)
               /\ Carries(frames'[c][g], f) => delivered'[g][f] = 0 /\ f <= events'
    BY <1>1, <1>2, <1>3, <1>5, <2>1, DialsAre DEF OnItsWay, Event
  <2>3. ASSUME NEW g \in Host, NEW b \in forwarding'[g], NEW l \in b.to
        PROVE  /\ delivered'[l.peer][b.event] = 0
               /\ \A c \in Dials : l.peer \in Ends(c) => ~Carries(frames'[c][l.peer], b.event)
    <3>1. CASE b = new /\ g = h
      <4>1. l.peer \in Host /\ l.peer # h
        <5>1. l \in links[h] /\ GoodLinks(h, links[h])
          BY <1>2, <1>3, <3>1 DEF MeshRecords
        <5>2. PICK c \in Dials : h \in Ends(c) /\ l.peer = Other(c, h)
          BY <5>1 DEF GoodLinks
        <5>3. c[1] # c[2] /\ c[1] \in Host /\ c[2] \in Host /\ (h = c[1] \/ h = c[2])
          BY <5>2, DialsAre DEF NoSelfDial, Ends
        <5>. QED  BY <5>2, <5>3 DEF Other
      <4>. QED  BY <1>1, <1>3, <1>4, <1>5, <2>1, <3>1, <4>1
    <3>2. CASE b \in forwarding[g]
      <4>1. l.peer \in Host
        BY <1>2, <3>2, <2>3, DialsAre DEF OneForwarder, GoodLinks, Ends, Other
      <4>. QED  BY <1>1, <1>2, <1>5, <1>8, <3>2, <4>1, <2>3 DEF OnItsWay
    <3>. QED  BY <1>6, <2>3, <3>1, <3>2
  <2>4. \A g \in Host, f \in Event : f > events' => delivered'[g][f] = 0
    BY <1>1, <1>2, <1>3, <1>5 DEF OnItsWay, Event, e
  <2>5. \A c, d \in Dials : \A g \in Ends(c) \cap Ends(d) : \A f \in Event :
          Carries(frames'[c][g], f) /\ Carries(frames'[d][g], f) => c = d
    BY <1>1, <1>2 DEF OnItsWay
  <2>. QED  BY <2>2, <2>3, <2>4, <2>5 DEF OnItsWay
<1>. QED  BY <1>7, <1>9, <1>10 DEF MeshInv

(* A broadcast takes a link: its event moves into a frame, or is lost.     *)
LEMMA ForwardInv ==
  ASSUME MeshInv, NEW h \in Host, Forward(h)
  PROVE  MeshInv'
<1>1. PICK b \in forwarding[h] :
        \/ b.to = {} /\ forwarding' = [forwarding EXCEPT ![h] = @ \ {b}] /\ UNCHANGED frames
        \/ \E l \in b.to :
             /\ \/ SendFrame(l.conn, Other(l.conn, h), Pub(b.event))
                \/ UNCHANGED frames
             /\ forwarding' = [forwarding EXCEPT ![h] = (@ \ {b}) \cup {[b EXCEPT !.to = @ \ {l}]}]
  BY DEF Forward
<1>2. links' = links /\ events' = events /\ delivered' = delivered
  BY DEF Forward
<1>3. MeshRecords /\ OneForwarder /\ OnItsWay
  BY DEF MeshInv
<1>4. CASE b.to = {} /\ forwarding' = [forwarding EXCEPT ![h] = @ \ {b}] /\ UNCHANGED frames
  <2>1. /\ forwarding' = [g \in Host |-> forwarding'[g]]
        /\ \A g \in Host : forwarding'[g] \subseteq forwarding[g]
    BY <1>3, <1>4 DEF MeshRecords
  <2>2. MeshRecords'
    BY <1>2, <1>3, <1>4, <2>1 DEF MeshRecords
  <2>3. OneForwarder'
    BY <1>2, <1>3, <2>1 DEF OneForwarder
  <2>4. OnItsWay'
    BY <1>2, <1>3, <1>4, <2>1 DEF OnItsWay
  <2>. QED  BY <2>2, <2>3, <2>4 DEF MeshInv
<1>5. ASSUME NEW l \in b.to,
             SendFrame(l.conn, Other(l.conn, h), Pub(b.event)) \/ UNCHANGED frames,
             forwarding' = [forwarding EXCEPT ![h] = (@ \ {b}) \cup {[b EXCEPT !.to = @ \ {l}]}]
      PROVE  MeshInv'
  <2>. DEFINE e == b.event
              c == l.conn
              to == l.peer
  <2>1. /\ b = [event |-> b.event, to |-> b.to] /\ e \in Event /\ e <= events
        /\ GoodLinks(h, b.to) /\ delivered[h][e] = 1
        /\ delivered[to][e] = 0 /\ \A d \in Dials : to \in Ends(d) => ~Carries(frames[d][to], e)
    BY <1>3, <1>5 DEF OneForwarder, OnItsWay
  <2>2. c \in Dials /\ to = Other(c, h) /\ to \in Ends(c) /\ to \in Host
    BY <1>5, <2>1, DialsAre DEF GoodLinks, Ends, Other
  <2>3. PICK rest : rest = [b EXCEPT !.to = b.to \ {l}]
    OBVIOUS
  <2>4. rest.event = e /\ rest.to = b.to \ {l} /\ rest = [event |-> rest.event, to |-> rest.to]
    BY <2>1, <2>3
  <2>5. /\ forwarding' = [g \in Host |-> forwarding'[g]]
        /\ forwarding'[h] = (forwarding[h] \ {b}) \cup {rest}
        /\ \A g \in Host : g # h => forwarding'[g] = forwarding[g]
    BY <1>3, <1>5, <2>3 DEF MeshRecords
  <2>6. PICK s : /\ s = frames[c][to] \/ s = Append(frames[c][to], Pub(e))
                 /\ Replaced(c, to, s)
    <3>1. CASE SendFrame(l.conn, Other(l.conn, h), Pub(b.event))
      BY <2>2, <3>1 DEF SendFrame, Replaced
    <3>2. CASE UNCHANGED frames
      <4>1. /\ frames = [d \in Dials |-> frames[d]] /\ frames[c] \in [Ends(c) -> Seq(PeerFrame)]
        BY <1>3, <2>2 DEF MeshRecords
      <4>2. [frames[c] EXCEPT ![to] = frames[c][to]] = frames[c]
        BY <2>2, <4>1
      <4>3. [frames EXCEPT ![c][to] = frames[c][to]] = [frames EXCEPT ![c] = frames[c]]
        BY <4>2
      <4>4. [frames EXCEPT ![c] = frames[c]] = frames
        BY <2>2, <4>1
      <4>. QED  BY <3>2, <4>3, <4>4 DEF Replaced
    <3>. QED  BY <1>5, <3>1, <3>2
  <2>. HIDE DEF e, c, to
  <2>7. /\ s \in Seq(PeerFrame) /\ Once(s, e)
        /\ \A f \in Event \ {e} : /\ Carries(s, f) => Carries(frames[c][to], f)
                                  /\ Once(frames[c][to], f) => Once(s, f)
    <3>1. frames[c][to] \in Seq(PeerFrame) /\ ~Carries(frames[c][to], e) /\ Once(frames[c][to], e)
      BY <1>3, <2>1, <2>2 DEF MeshRecords, OnItsWay
    <3>2. Pub(e) \in PeerFrame /\ \A f \in Event \ {e} : Pub(e) # Pub(f)
      BY <2>1, PubsDiffer DEF PeerFrame
    <3>. QED  BY <2>6, <3>1, <3>2, AppendFrame
  <2>8. /\ frames' = [d \in Dials |-> frames'[d]]
        /\ \A d \in Dials : frames'[d] \in [Ends(d) -> Seq(PeerFrame)]
        /\ frames'[c][to] = s
        /\ \A d \in Dials : \A g \in Ends(d) : d # c \/ g # to => frames'[d][g] = frames[d][g]
    BY <1>3, <2>2, <2>6, <2>7, OneQueue
  <2>9. MeshRecords'
    BY <1>2, <1>3, <2>5, <2>8 DEF MeshRecords
  <2>10. \A g \in Host : \A d \in forwarding'[g] :
           \/ d \in forwarding[g] /\ d.event # e
           \/ g = h /\ d = rest
    BY <1>3, <1>5, <2>5 DEF OneForwarder, e
  <2>11. OneForwarder'
    <3>1. GoodLinks(h, rest.to)
      BY <2>1, <2>4 DEF GoodLinks
    <3>2. \A g \in Host : \A d \in forwarding'[g] :
            /\ d = [event |-> d.event, to |-> d.to] /\ d.event \in Event /\ d.event <= events'
            /\ GoodLinks(g, d.to) /\ delivered'[g][d.event] = 1
      BY <1>2, <1>3, <2>1, <2>4, <2>10, <3>1 DEF OneForwarder
    <3>3. \A g, k \in Host : \A d \in forwarding'[g], f \in forwarding'[k] :
            d.event = f.event => g = k /\ d = f
      BY <1>3, <2>4, <2>10 DEF OneForwarder
    <3>. QED  BY <3>2, <3>3 DEF OneForwarder
  <2>12. OnItsWay'
    <3>1. ASSUME NEW d \in Dials, NEW g \in Ends(d), NEW f \in Event
          PROVE  /\ Once(frames'[d][g], f)
                 /\ Carries(frames'[d][g], f) => delivered'[g][f] = 0 /\ f <= events'
      BY <1>2, <1>3, <2>1, <2>2, <2>7, <2>8 DEF OnItsWay
    <3>2. ASSUME NEW d \in Dials, NEW k \in Dials, NEW g \in Ends(d) \cap Ends(k), NEW f \in Event,
                 Carries(frames'[d][g], f), Carries(frames'[k][g], f)
          PROVE  d = k
      <4>1. CASE f = e /\ g = to
        BY <2>1, <2>8, <3>2, <4>1
      <4>2. CASE f # e \/ g # to
        <5>1. Carries(frames[d][g], f) /\ Carries(frames[k][g], f)
          BY <2>7, <2>8, <3>2, <4>2
        <5>. QED  BY <1>3, <5>1 DEF OnItsWay
      <4>. QED  BY <4>1, <4>2
    <3>3. ASSUME NEW g \in Host, NEW d \in forwarding'[g], NEW m \in d.to
          PROVE  /\ delivered'[m.peer][d.event] = 0
                 /\ \A k \in Dials : m.peer \in Ends(k) => ~Carries(frames'[k][m.peer], d.event)
      <4>1. CASE d \in forwarding[g] /\ d.event # e
        <5>1. d.event \in Event
          BY <1>3, <4>1 DEF OneForwarder
        <5>2. /\ delivered[m.peer][d.event] = 0
              /\ \A k \in Dials : m.peer \in Ends(k) => ~Carries(frames[k][m.peer], d.event)
          BY <1>3, <4>1, <3>3 DEF OnItsWay
        <5>. QED  BY <1>2, <2>7, <2>8, <4>1, <5>1, <5>2
      <4>2. CASE g = h /\ d = rest
        <5>1. m \in b.to /\ m.peer # to /\ d.event = e
          BY <1>5, <2>1, <2>4, <4>2, <3>3 DEF GoodLinks, to
        <5>2. /\ delivered[m.peer][e] = 0
              /\ \A k \in Dials : m.peer \in Ends(k) => ~Carries(frames[k][m.peer], e)
          BY <1>3, <1>1, <5>1 DEF OnItsWay, e
        <5>. QED  BY <1>2, <2>8, <5>1, <5>2
      <4>. QED  BY <2>10, <3>3, <4>1, <4>2
    <3>4. \A g \in Host, f \in Event : f > events' => delivered'[g][f] = 0
      BY <1>2, <1>3 DEF OnItsWay
    <3>. QED  BY <3>1, <3>2, <3>3, <3>4 DEF OnItsWay
  <2>. QED  BY <2>9, <2>11, <2>12 DEF MeshInv
<1>. QED  BY <1>1, <1>4, <1>5

(* A frame is read: its event was nowhere else, and now has come.          *)
LEMMA PeerPubInv ==
  ASSUME MeshInv, NEW c \in Dials, NEW h \in Ends(c), PeerPub(c, h)
  PROVE  MeshInv'
<1>. DEFINE q == frames[c][h]
            e == Head(q).event
<1>1. /\ q # <<>> /\ Head(q).kind = "pub" /\ Replaced(c, h, Tail(q))
      /\ delivered' = [delivered EXCEPT ![h][e] = IF @ < 2 THEN @ + 1 ELSE @]
      /\ forwarding' = forwarding /\ links' = links /\ events' = events
  BY DEF PeerPub, Arriving, DeliverOn, NotForwarded, TakeFrame, Replaced
<1>2. MeshRecords /\ OneForwarder /\ OnItsWay /\ h \in Host
  BY DialsAre DEF MeshInv
<1>3. q \in Seq(PeerFrame)
  BY <1>2 DEF MeshRecords
<1>4. e \in Event /\ Head(q) = Pub(e)
  <2>1. Head(q) \in PeerFrame
    BY <1>1, <1>3, TakeHead
  <2>2. PICK f \in Event : Head(q) = Pub(f)
    BY <1>1, <2>1 DEF PeerFrame, Hello, Reply
  <2>. QED  BY <2>2 DEF Pub
<1>. HIDE DEF e
<1>5. /\ Tail(q) \in Seq(PeerFrame) /\ Carries(q, e) /\ ~Carries(Tail(q), e) /\ Once(q, e)
      /\ \A f \in Event : (Carries(Tail(q), f) => Carries(q, f)) /\ (Once(q, f) => Once(Tail(q), f))
  BY <1>1, <1>2, <1>3, <1>4, TakeHead DEF OnItsWay
<1>6. delivered[h][e] = 0 /\ e <= events
  BY <1>2, <1>4, <1>5 DEF OnItsWay
<1>7. /\ delivered' \in [Host -> [Event -> 0..1]]
      /\ delivered'[h][e] = 1
      /\ \A g \in Host, f \in Event : g # h \/ f # e => delivered'[g][f] = delivered[g][f]
  BY <1>1, <1>2, <1>4, <1>6 DEF MeshRecords
<1>8. /\ frames' = [d \in Dials |-> frames'[d]]
      /\ \A d \in Dials : frames'[d] \in [Ends(d) -> Seq(PeerFrame)]
      /\ frames'[c][h] = Tail(q)
      /\ \A d \in Dials : \A g \in Ends(d) : d # c \/ g # h => frames'[d][g] = frames[d][g]
  BY <1>1, <1>2, <1>5, OneQueue
<1>9. \A d \in Dials : \A g \in Ends(d) : \A f \in Event :
        /\ Carries(frames'[d][g], f) => Carries(frames[d][g], f)
        /\ Once(frames[d][g], f) => Once(frames'[d][g], f)
  <2>. SUFFICES ASSUME NEW d \in Dials, NEW g \in Ends(d), NEW f \in Event
                PROVE  /\ Carries(frames'[d][g], f) => Carries(frames[d][g], f)
                       /\ Once(frames[d][g], f) => Once(frames'[d][g], f)
    OBVIOUS
  <2>1. CASE d = c /\ g = h
    BY <1>5, <1>8, <2>1
  <2>2. CASE d # c \/ g # h
    <3>1. frames'[d][g] = frames[d][g]
      BY <1>8, <2>2
    <3>. QED  BY <3>1
  <2>. QED  BY <2>1, <2>2
<1>10. \A d \in Dials : h \in Ends(d) => ~Carries(frames'[d][h], e)
  <2>. SUFFICES ASSUME NEW d \in Dials, h \in Ends(d), Carries(frames'[d][h], e) PROVE FALSE
    OBVIOUS
  <2>1. d # c
    BY <1>5, <1>8
  <2>2. Carries(frames[d][h], e) /\ Carries(frames[c][h], e)
    BY <1>4, <1>5, <1>9
  <2>. QED  BY <1>2, <1>4, <2>1, <2>2 DEF OnItsWay
<1>11. MeshRecords'
  BY <1>1, <1>2, <1>7, <1>8 DEF MeshRecords
<1>12. OneForwarder'
  <2>1. \A g \in Host : \A b \in forwarding[g] : delivered'[g][b.event] = 1
    BY <1>2, <1>7 DEF OneForwarder
  <2>. QED  BY <1>1, <1>2, <2>1 DEF OneForwarder
<1>13. OnItsWay'
  <2>1. ASSUME NEW d \in Dials, NEW g \in Ends(d), NEW f \in Event
        PROVE  /\ Once(frames'[d][g], f)
               /\ Carries(frames'[d][g], f) => delivered'[g][f] = 0 /\ f <= events'
    <3>1. g \in Host
      BY DialsAre
    <3>2. Once(frames'[d][g], f) /\ (Carries(frames'[d][g], f) => delivered[g][f] = 0 /\ f <= events)
      BY <1>2, <1>9 DEF OnItsWay
    <3>. QED  BY <1>1, <1>7, <1>10, <3>1, <3>2
  <2>2. ASSUME NEW g \in Host, NEW b \in forwarding[g], NEW l \in b.to
        PROVE  /\ delivered'[l.peer][b.event] = 0
               /\ \A d \in Dials : l.peer \in Ends(d) => ~Carries(frames'[d][l.peer], b.event)
    <3>1. l.peer \in Host /\ b.event \in Event
      BY <1>2, DialsAre DEF OneForwarder, GoodLinks, Ends, Other
    <3>2. /\ delivered[l.peer][b.event] = 0
          /\ \A d \in Dials : l.peer \in Ends(d) => ~Carries(frames[d][l.peer], b.event)
      BY <1>2 DEF OnItsWay
    <3>3. l.peer # h \/ b.event # e
      BY <1>5, <3>2
    <3>. QED  BY <1>7, <1>9, <3>1, <3>2, <3>3
  <2>3. \A d, k \in Dials : \A g \in Ends(d) \cap Ends(k) : \A f \in Event :
          Carries(frames'[d][g], f) /\ Carries(frames'[k][g], f) => d = k
    BY <1>2, <1>9 DEF OnItsWay
  <2>4. \A g \in Host, f \in Event : f > events' => delivered'[g][f] = 0
    <3>1. e <= events /\ events' = events /\ events \in Nat /\ \A f \in Event : f \in Nat
      BY <1>1, <1>2, <1>6 DEF MeshRecords, Event
    <3>2. \A f \in Event : f > events => f # e
      BY <1>4, <3>1
    <3>. QED  BY <1>2, <1>7, <3>1, <3>2 DEF OnItsWay
  <2>. QED  BY <1>1, <2>1, <2>2, <2>3, <2>4 DEF OnItsWay
<1>. QED  BY <1>11, <1>12, <1>13 DEF MeshInv

(* Links and frames agree on who is at which end, and an event is on its   *)
(* way to a host at most once.                                             *)
THEOREM MeshInvariant ==
  ASSUME NoSelfDial
  PROVE  PeerMeshSpec => []MeshInv
<1>1. MeshInv /\ [PeerMeshNext]_peerVars => MeshInv'
  <2>. SUFFICES ASSUME MeshInv, [PeerMeshNext]_peerVars PROVE MeshInv'
    OBVIOUS
  <2>1. ASSUME NEW c \in Dials, StartDialling(c) \/ PeerProgress(c) \/ Break(c)
        PROVE  MeshInv'
    BY <2>1, LinkStep, PeerPubInv DEF PeerProgress, Ends
  <2>2. CASE UNCHANGED peerVars
    BY <2>2 DEF peerVars, MeshInv, MeshRecords, OneForwarder, OnItsWay
  <2>. QED  BY <2>1, <2>2, SessionEndsInv, PublishEventInv, ForwardInv DEF PeerMeshNext
<1>. QED  BY <1>1, MeshInvInit, PTL DEF PeerMeshSpec

(* peer.rs and session.rs:609-610: whatever links are made, replaced and   *)
(* lost, an event reaches each bus once at most.                           *)
THEOREM EventsDoNotLoop ==
  ASSUME NoSelfDial
  PROVE  PeerMeshSpec => []EventArrivesOnce
<1>1. MeshInv => EventArrivesOnce
  BY DEF MeshInv, MeshRecords, EventArrivesOnce
<1>. QED  BY <1>1, MeshInvariant, PTL

DiallerRecord == [pc : {"none", "down", "hello", "up", "ending"}, link : Nat]
AcceptorRecord == [pc : {"none", "open", "replying", "linked"}, link : Nat]

(* Links have the numbers their host gave out.                             *)
LinksFit(h, L, last) == \A l \in L : l.id \in 1..last /\ l.conn \in Dials

MeshShape ==
  /\ lastLink \in [Host -> Nat]
  /\ dialler \in [Dials -> DiallerRecord] /\ acceptor \in [Dials -> AcceptorRecord]
  /\ links = [h \in Host |-> links[h]] /\ \A h \in Host : LinksFit(h, links[h], lastLink[h])

LEMMA RegisterLinkFits ==
  ASSUME MeshShape, NEW c \in Dials, NEW h \in {c[1], c[2]}, RegisterLink(h, c)
  PROVE  /\ lastLink' \in [Host -> Nat] /\ lastLink'[h] \in Nat
         /\ links' = [g \in Host |-> links'[g]] /\ \A g \in Host : LinksFit(g, links'[g], lastLink'[g])
<1>1. h \in Host
  BY PeerMeshAssumption
<1>2. PICK n \in Nat : n = lastLink[h]
  BY <1>1 DEF MeshShape
<1>3. PICK new : new = Others(h, Other(c, h)) \cup {[id |-> n + 1, peer |-> Other(c, h), conn |-> c]}
  OBVIOUS
<1>4. new = Others(h, Other(c, h)) \cup {[id |-> lastLink[h] + 1, peer |-> Other(c, h), conn |-> c]}
  BY <1>2, <1>3
<1>5. lastLink' \in [Host -> Nat] /\ \A g \in Host : lastLink'[g] = IF g = h THEN n + 1 ELSE lastLink[g]
  <2>1. lastLink' = [lastLink EXCEPT ![h] = @ + 1]
    BY DEF RegisterLink
  <2> QED BY <1>1, <1>2, <2>1 DEF MeshShape
<1>6. links' = [g \in Host |-> links'[g]] /\ \A g \in Host : links'[g] = IF g = h THEN new ELSE links[g]
  <2>1. links' = [links EXCEPT ![h] = new]
    BY <1>4 DEF RegisterLink
  <2> QED BY <2>1 DEF MeshShape
<1>7. LinksFit(h, new, n + 1)
  <2>1. \A l \in Others(h, Other(c, h)) : l.id \in 1..n /\ l.conn \in Dials
    BY <1>1, <1>2 DEF MeshShape, LinksFit, Others
  <2>2. \A l \in new : l.id \in 1..(n + 1) /\ l.conn \in Dials
    BY <1>3, <2>1
  <2> QED BY <2>2 DEF LinksFit
<1> QED BY <1>1, <1>5, <1>6, <1>7 DEF MeshShape

LEMMA UnregisteredFits ==
  ASSUME MeshShape, NEW h \in Host, NEW id, links' = Unregistered(h, id), lastLink' = lastLink
  PROVE  links' = [g \in Host |-> links'[g]] /\ \A g \in Host : LinksFit(g, links'[g], lastLink'[g])
<1>1. links' = [g \in Host |-> links'[g]] /\ \A g \in Host : links'[g] \subseteq links[g]
  BY DEF MeshShape, Unregistered
<1> QED BY <1>1 DEF MeshShape, LinksFit

LEMMA HangupFits ==
  ASSUME MeshShape, NEW c \in Dials, Hangup(c)
  PROVE  dialler' \in [Dials -> DiallerRecord] /\ acceptor' \in [Dials -> AcceptorRecord]
<1>1. PICK pc \in {"ending", "down"} : dialler' = [dialler EXCEPT ![c].pc = pc]
  BY DEF Hangup
<1>2. dialler' \in [Dials -> DiallerRecord]
  BY <1>1 DEF MeshShape, DiallerRecord
<1>3. acceptor' \in [Dials -> AcceptorRecord]
  BY DEF Hangup, MeshShape, AcceptorRecord, NoLink
<1> QED BY <1>2, <1>3

LEMMA MeshShapeConnection ==
  ASSUME MeshShape, NEW c \in Dials, StartDialling(c) \/ PeerProgress(c) \/ Break(c)
  PROVE  MeshShape'
<1>0. c[1] \in Host /\ c[2] \in Host
  BY PeerMeshAssumption
<1>1. CASE StartDialling(c)
  <2>1. dialler' \in [Dials -> DiallerRecord]
    BY <1>1 DEF StartDialling, MeshShape, DiallerRecord
  <2> QED BY <1>1, <2>1 DEF StartDialling, MeshShape
<1>2. CASE Dial(c)
  <2>1. dialler' \in [Dials -> DiallerRecord] /\ acceptor' \in [Dials -> AcceptorRecord]
    BY <1>2 DEF Dial, MeshShape, DiallerRecord, AcceptorRecord, NoLink
  <2> QED BY <1>2, <2>1 DEF Dial, MeshShape
<1>3. CASE AcceptHello(c)
  <2>1. RegisterLink(c[2], c) /\ dialler' = dialler
        /\ acceptor' = [acceptor EXCEPT ![c] = [pc |-> "replying", link |-> lastLink'[c[2]]]]
    BY <1>3 DEF AcceptHello
  <2>2. PICK n \in Nat : n = lastLink'[c[2]]
    BY <2>1, RegisterLinkFits
  <2>3. acceptor' \in [Dials -> AcceptorRecord]
    BY <2>1, <2>2 DEF MeshShape, AcceptorRecord
  <2> QED BY <2>1, <2>3, RegisterLinkFits DEF MeshShape
<1>4. CASE ReplyHello(c)
  <2>1. acceptor' \in [Dials -> AcceptorRecord]
    BY <1>4 DEF ReplyHello, MeshShape, AcceptorRecord
  <2> QED BY <1>4, <2>1 DEF ReplyHello, MeshShape
<1>5. CASE DialAnswered(c)
  <2>1. RegisterLink(c[1], c) /\ acceptor' = acceptor
        /\ dialler' = [dialler EXCEPT ![c] = [pc |-> "up", link |-> lastLink'[c[1]]]]
    BY <1>5 DEF DialAnswered
  <2>2. PICK n \in Nat : n = lastLink'[c[1]]
    BY <2>1, RegisterLinkFits
  <2>3. dialler' \in [Dials -> DiallerRecord]
    BY <2>1, <2>2 DEF MeshShape, DiallerRecord
  <2> QED BY <2>1, <2>3, RegisterLinkFits DEF MeshShape
<1>6. CASE DialRejected(c) \/ Break(c)
  <2>1. Hangup(c) /\ UNCHANGED <<links, lastLink>>
    BY <1>6 DEF DialRejected, Break
  <2> QED BY <2>1, HangupFits DEF MeshShape
<1>7. CASE DialEnds(c)
  <2>1. dialler' \in [Dials -> DiallerRecord]
    BY <1>7 DEF DialEnds, MeshShape, DiallerRecord, NoLink
  <2>2. links' = Unregistered(c[1], dialler[c].link) /\ UNCHANGED <<lastLink, acceptor>>
    BY <1>7 DEF DialEnds
  <2> QED BY <1>0, <2>1, <2>2, UnregisteredFits DEF MeshShape
<1>8. ASSUME NEW h \in {c[1], c[2]}, PeerPub(c, h) PROVE MeshShape'
  BY <1>8 DEF PeerPub, MeshShape
<1> QED BY <1>1, <1>2, <1>3, <1>4, <1>5, <1>6, <1>7, <1>8 DEF PeerProgress

(* peer.rs: a link in the table has a number its host gave out, and every  *)
(* connection has ends that are where their code can be.                   *)
THEOREM PeerMeshTypes == PeerMeshSpec => []PeerMeshTypeOK
<1>1. PeerMeshInit => MeshShape
  BY DEF PeerMeshInit, MeshShape, LinksFit, DiallerRecord, AcceptorRecord, NoLink
<1>2. MeshShape /\ [PeerMeshNext]_peerVars => MeshShape'
  <2> SUFFICES ASSUME MeshShape, [PeerMeshNext]_peerVars PROVE MeshShape'
    OBVIOUS
  <2>1. ASSUME NEW h \in Host, SessionEnds(h) PROVE MeshShape'
    <3>1. PICK id : links' = Unregistered(h, id) /\ UNCHANGED <<lastLink, dialler, acceptor>>
      BY <2>1 DEF SessionEnds
    <3> QED BY <3>1, UnregisteredFits DEF MeshShape
  <2>2. ASSUME NEW h \in Host, PublishEvent(h) \/ Forward(h) PROVE MeshShape'
    BY <2>2 DEF PublishEvent, Forward, MeshShape
  <2>3. CASE UNCHANGED peerVars
    BY <2>3 DEF peerVars, MeshShape
  <2> QED BY <2>1, <2>2, <2>3, MeshShapeConnection DEF PeerMeshNext
<1>3. MeshShape => PeerMeshTypeOK
  BY DEF MeshShape, LinksFit, DiallerRecord, AcceptorRecord, PeerMeshTypeOK
<1> QED BY <1>1, <1>2, <1>3, PTL DEF PeerMeshSpec

-----------------------------------------------------------------------------
(***************************************************************************)
(* The theme on its way to the subscribers (ThemeSync): what each request  *)
(* and the watcher carry from one step to the next.                        *)
(***************************************************************************)

Values == 0 .. MaxChanges
Requests ==
  {NoRequest} \cup [pc : {"watch", "seed", "read"}, topic : Topic]
    \cup [pc : {"snapshot", "note", "publish"}, topic : Topic, value : Values]
    \cup [pc : {"send"}, topic : Topic, value : Values, to : SUBSET Client]
WatcherStates ==
  [pc : {"off", "seeding", "sleep"}] \cup [pc : {"compare"}, value : [Topic -> Values]]
    \cup [pc : {"publish"}, value : [Topic -> Values], topics : SUBSET Topic]
    \cup [pc : {"send"}, value : [Topic -> Values], topics : SUBSET Topic,
          topic : Topic, to : SUBSET Client]

(* A client's request and the watcher carry what their place needs.        *)
SyncShape ==
  /\ file \in [Topic -> Values] /\ noted \in [Topic -> Values] /\ changes \in Values
  /\ watch \in WatcherStates /\ conn \in [Client -> Requests]
  /\ subs \in [Client -> SUBSET Topic] /\ told \in [Client -> [Topic -> Heard]]

(* A frame changes what its one subscriber has been told, or nothing.      *)
LEMMA ReceiveFits ==
  ASSUME SyncShape, NEW c \in Client, NEW t \in Topic, NEW v, Receive(c, t, v)
  PROVE  told' \in [Client -> [Topic -> Heard]]
<1>1. CASE t \notin subs[c]
  BY <1>1 DEF Receive, SyncShape
<1>2. CASE t \in subs[c]
  <2>1. told[c][t] \in Heard
    BY DEF SyncShape
  <2>2. CASE v = file[t]
    BY <1>2, <2>2 DEF Receive, SyncShape, Heard
  <2>3. CASE v # file[t] /\ told[c][t] = "current"
    BY <1>2, <2>3 DEF Receive, SyncShape, Heard
  <2>4. CASE v # file[t] /\ told[c][t] # "current"
    <3>1. told' = [told EXCEPT ![c][t] = told[c][t]]
      BY <1>2, <2>4 DEF Receive
    <3> QED BY <2>1, <3>1 DEF SyncShape
  <2> QED BY <2>2, <2>3, <2>4
<1> QED BY <1>1, <1>2

(* A change leaves each client behind on its topic.                        *)
LEMMA StoreFits ==
  ASSUME SyncShape, NEW t \in Topic, Store(t)
  PROVE  /\ changes' \in Values /\ changes' = changes + 1
         /\ file' \in [Topic -> Values] /\ file'[t] = changes + 1
         /\ told' \in [Client -> [Topic -> Heard]]
<1>1. changes + 1 \in Values /\ changes' = changes + 1
  BY ThemeSyncAssumption DEF Store, SyncShape, Values
<1>2. file' \in [Topic -> Values] /\ file'[t] = changes + 1
  BY <1>1 DEF Store, SyncShape
<1>3. \A c \in Client : [told[c] EXCEPT ![t] = "behind"] \in [Topic -> Heard]
  BY DEF SyncShape, Heard
<1>4. told' \in [Client -> [Topic -> Heard]]
  BY <1>3 DEF Store
<1> QED BY <1>1, <1>2, <1>4

(* A sender that has a client fewer to send to is where it was.            *)
LEMMA LeftOutFits ==
  ASSUME NEW c \in Client
  PROVE  /\ \A x \in Requests : LeftOut(c, x) \in Requests
         /\ \A x \in WatcherStates : LeftOut(c, x) \in WatcherStates
<1>1. ASSUME NEW x \in Requests PROVE LeftOut(c, x) \in Requests
  <2>1. CASE x.pc = "send"
    <3>1. x \in [pc : {"send"}, topic : Topic, value : Values, to : SUBSET Client]
      BY <2>1 DEF Requests, NoRequest
    <3>2. [x EXCEPT !.to = @ \ {c}] \in [pc : {"send"}, topic : Topic, value : Values, to : SUBSET Client]
      BY <3>1
    <3> QED BY <2>1, <3>2 DEF LeftOut, Requests
  <2> QED BY <2>1 DEF LeftOut
<1>2. ASSUME NEW x \in WatcherStates PROVE LeftOut(c, x) \in WatcherStates
  <2>1. CASE x.pc = "send"
    <3>1. x \in [pc : {"send"}, value : [Topic -> Values], topics : SUBSET Topic,
                 topic : Topic, to : SUBSET Client]
      BY <2>1 DEF WatcherStates
    <3>2. [x EXCEPT !.to = @ \ {c}] \in [pc : {"send"}, value : [Topic -> Values], topics : SUBSET Topic,
                                        topic : Topic, to : SUBSET Client]
      BY <3>1
    <3> QED BY <2>1, <3>2 DEF LeftOut, WatcherStates
  <2> QED BY <2>1 DEF LeftOut
<1> QED BY <1>1, <1>2

LEMMA SyncShapeClient ==
  ASSUME SyncShape, NEW c \in Client, ServeRequest(c) \/ ClientLeaves(c)
  PROVE  SyncShape'
<1> USE ThemeSyncAssumption
<1>0. conn[c] \in Requests /\ NoRequest \in Requests
  BY DEF SyncShape, Requests
<1>1. CASE EnsureStarted(c)
  <2>1. conn[c] \in [pc : {"watch", "seed", "read"}, topic : Topic]
    BY <1>0, <1>1 DEF EnsureStarted, ConnAt, Requests, NoRequest
  <2>2. PICK pc \in {"seed", "read"} : conn' = [conn EXCEPT ![c].pc = pc]
    BY <1>1 DEF EnsureStarted
  <2>3. [conn[c] EXCEPT !.pc = pc] \in Requests
    BY <2>1, <2>2 DEF Requests
  <2>4. conn' \in [Client -> Requests]
    BY <2>2, <2>3 DEF SyncShape
  <2>5. watch' \in WatcherStates
    BY <1>1 DEF EnsureStarted, SyncShape, WatcherStates
  <2> QED BY <1>1, <2>4, <2>5 DEF EnsureStarted, SyncShape
<1>2. CASE Seed(c)
  <2>1. conn[c] \in [pc : {"watch", "seed", "read"}, topic : Topic]
    BY <1>0, <1>2 DEF Seed, ConnAt, Requests, NoRequest
  <2>2. [conn[c] EXCEPT !.pc = "read"] \in Requests
    BY <2>1 DEF Requests
  <2>3. conn' \in [Client -> Requests]
    BY <1>2, <2>2 DEF Seed, SyncShape
  <2>4. watch' \in WatcherStates
    BY <1>2 DEF Seed, WatcherStates
  <2> QED BY <1>2, <2>3, <2>4 DEF Seed, SyncShape
<1>3. CASE ReadSnapshot(c)
  <2>1. conn[c] \in [pc : {"watch", "seed", "read"}, topic : Topic]
    BY <1>0, <1>3 DEF ReadSnapshot, ConnAt, Requests, NoRequest
  <2>2. [pc |-> "snapshot", topic |-> conn[c].topic, value |-> file[conn[c].topic]] \in Requests
    BY <2>1 DEF Requests, SyncShape
  <2>3. conn' \in [Client -> Requests]
    BY <1>3, <2>2 DEF ReadSnapshot, SyncShape
  <2> QED BY <1>3, <2>3 DEF ReadSnapshot, SyncShape
<1>4. ASSUME conn[c].pc \in {"snapshot", "note", "publish"}
      PROVE  conn[c] \in [pc : {"snapshot", "note", "publish"}, topic : Topic, value : Values]
  BY <1>0, <1>4 DEF Requests, NoRequest
<1>5. CASE SendSnapshot(c)
  <2>1. conn[c].topic \in Topic /\ conn[c].value \in Values
    BY <1>4, <1>5 DEF SendSnapshot, ConnAt
  <2>2. Receive(c, conn[c].topic, conn[c].value)
    BY <1>5 DEF SendSnapshot
  <2>3. told' \in [Client -> [Topic -> Heard]]
    BY <2>1, <2>2, ReceiveFits
  <2>4. conn' \in [Client -> Requests]
    BY <1>0, <1>5 DEF SendSnapshot, SyncShape
  <2> QED BY <1>5, <2>3, <2>4 DEF SendSnapshot, SyncShape
<1>6. CASE Note(c)
  <2>1. conn[c] \in [pc : {"snapshot", "note", "publish"}, topic : Topic, value : Values]
    BY <1>4, <1>6 DEF Note, ConnAt
  <2>2. [conn[c] EXCEPT !.pc = "publish"] \in Requests
    BY <2>1 DEF Requests
  <2>3. conn' \in [Client -> Requests]
    BY <1>6, <2>2 DEF Note, SyncShape
  <2>4. noted' \in [Topic -> Values]
    BY <1>6, <2>1 DEF Note, NotedOwn, SyncShape
  <2> QED BY <1>6, <2>3, <2>4 DEF Note, SyncShape
<1>7. CASE PublishTheme(c)
  <2>1. conn[c].topic \in Topic /\ conn[c].value \in Values
    BY <1>4, <1>7 DEF PublishTheme, ConnAt
  <2>2. PICK to \in SUBSET Client :
          conn' = [conn EXCEPT ![c] = [pc |-> "send", topic |-> conn[c].topic, value |-> conn[c].value, to |-> to]]
    <3>1. Subscribers(conn[c].topic) \in SUBSET Client
      BY DEF Subscribers
    <3> QED BY <1>7, <3>1 DEF PublishTheme, SyncShape
  <2>3. [pc |-> "send", topic |-> conn[c].topic, value |-> conn[c].value, to |-> to] \in Requests
    BY <2>1 DEF Requests
  <2>4. conn' \in [Client -> Requests]
    BY <2>2, <2>3 DEF SyncShape
  <2> QED BY <1>7, <2>4 DEF PublishTheme, SyncShape
<1>8. CASE SendPublished(c)
  <2>1. conn[c] \in [pc : {"send"}, topic : Topic, value : Values, to : SUBSET Client]
    BY <1>0, <1>8 DEF SendPublished, ConnAt, Requests, NoRequest
  <2>2. CASE conn[c].to = {}
    BY <1>0, <1>8, <2>2 DEF SendPublished, SyncShape
  <2>3. CASE conn[c].to # {}
    <3>1. PICK d \in conn[c].to : /\ Receive(d, conn[c].topic, conn[c].value)
                                  /\ conn' = [conn EXCEPT ![c].to = @ \ {d}]
      BY <1>8, <2>3 DEF SendPublished
    <3>2. told' \in [Client -> [Topic -> Heard]]
      BY <2>1, <3>1, ReceiveFits
    <3>3. [conn[c] EXCEPT !.to = @ \ {d}] \in Requests
      BY <2>1 DEF Requests
    <3>4. conn' \in [Client -> Requests]
      BY <3>1, <3>3 DEF SyncShape
    <3> QED BY <1>8, <3>2, <3>4 DEF SendPublished, SyncShape
  <2> QED BY <2>2, <2>3
<1>9. CASE ClientLeaves(c)
  <2>1. [t \in Topic |-> "behind"] \in [Topic -> Heard]
    BY DEF Heard
  <2>2. told' \in [Client -> [Topic -> Heard]] /\ subs' \in [Client -> SUBSET Topic]
    BY <1>9, <2>1 DEF ClientLeaves, SyncShape
  <2>3. conn' \in [Client -> Requests] /\ watch' \in WatcherStates
    BY <1>9, LeftOutFits DEF ClientLeaves, SyncShape
  <2> QED BY <1>9, <2>2, <2>3 DEF ClientLeaves, SyncShape
<1> QED BY <1>1, <1>2, <1>3, <1>5, <1>6, <1>7, <1>8, <1>9 DEF ServeRequest

LEMMA SyncShapeTopic ==
  ASSUME SyncShape, NEW t \in Topic,
         OtherProcessWrites(t) \/ \E c \in Client : Sub(c, t) \/ Unsub(c, t) \/ WriteTheme(c, t)
  PROVE  SyncShape'
<1> USE ThemeSyncAssumption
<1>1. CASE OtherProcessWrites(t)
  <2>1. Store(t)
    BY <1>1 DEF OtherProcessWrites
  <2> QED BY <1>1, <2>1, StoreFits DEF OtherProcessWrites, SyncShape
<1>2. ASSUME NEW c \in Client, Sub(c, t) PROVE SyncShape'
  <2>1. [pc |-> "watch", topic |-> t] \in Requests
    BY DEF Requests
  <2>2. conn' \in [Client -> Requests]
    BY <1>2, <2>1 DEF Sub, SyncShape
  <2>3. subs' \in [Client -> SUBSET Topic]
    BY <1>2 DEF Sub, SyncShape
  <2> QED BY <1>2, <2>2, <2>3 DEF Sub, SyncShape
<1>3. ASSUME NEW c \in Client, Unsub(c, t) PROVE SyncShape'
  <2>1. [told[c] EXCEPT ![t] = "behind"] \in [Topic -> Heard]
    BY DEF SyncShape, Heard
  <2>2. told' \in [Client -> [Topic -> Heard]]
    BY <1>3, <2>1 DEF Unsub, SyncShape
  <2>3. subs' \in [Client -> SUBSET Topic]
    BY <1>3 DEF Unsub, SyncShape
  <2> QED BY <1>3, <2>2, <2>3 DEF Unsub, SyncShape
<1>4. ASSUME NEW c \in Client, WriteTheme(c, t) PROVE SyncShape'
  <2>1. Store(t)
    BY <1>4 DEF WriteTheme
  <2>2. /\ changes' \in Values /\ file'[t] \in Values /\ file' \in [Topic -> Values]
        /\ told' \in [Client -> [Topic -> Heard]]
    BY <2>1, StoreFits
  <2>3. [pc |-> "note", topic |-> t, value |-> file'[t]] \in Requests
    BY <2>2 DEF Requests
  <2>4. conn' \in [Client -> Requests]
    BY <1>4, <2>3 DEF WriteTheme, SyncShape
  <2> QED BY <1>4, <2>2, <2>4 DEF WriteTheme, SyncShape
<1> QED BY <1>1, <1>2, <1>3, <1>4

LEMMA SyncShapeWatcher ==
  ASSUME SyncShape, WatcherTick
  PROVE  SyncShape'
<1>0. watch \in WatcherStates
  BY DEF SyncShape
<1>1. CASE WatchRead
  <2>1. watch' \in WatcherStates
    BY <1>1 DEF WatchRead, SyncShape, WatcherStates
  <2> QED BY <1>1, <2>1 DEF WatchRead, SyncShape
<1>2. CASE WatchCompare
  <2>1. watch.value \in [Topic -> Values]
    BY <1>0, <1>2 DEF WatchCompare, WatcherStates
  <2>2. watch' \in WatcherStates
    <3>1. PICK T \in SUBSET Topic : watch' = [pc |-> "publish", value |-> watch.value, topics |-> T]
      BY <1>2 DEF WatchCompare
    <3> QED BY <2>1, <3>1 DEF WatcherStates
  <2> QED BY <1>2, <2>1, <2>2 DEF WatchCompare, SyncShape
<1>3. CASE WatchPublish
  <2>1. watch \in [pc : {"publish"}, value : [Topic -> Values], topics : SUBSET Topic]
    BY <1>0, <1>3 DEF WatchPublish, WatcherStates
  <2>2. CASE watch.topics = {}
    <3>1. watch' \in WatcherStates
      BY <1>3, <2>2 DEF WatchPublish, WatcherStates
    <3> QED BY <1>3, <3>1 DEF WatchPublish, SyncShape
  <2>3. CASE watch.topics # {}
    <3>1. PICK t \in watch.topics, to \in SUBSET Client :
            watch' = [pc |-> "send", value |-> watch.value, topics |-> watch.topics \ {t},
                      topic |-> t, to |-> to]
      <4>1. \A t \in Topic : Subscribers(t) \in SUBSET Client
        BY DEF Subscribers
      <4> QED BY <1>3, <2>1, <2>3, <4>1 DEF WatchPublish
    <3>2. watch' \in [pc : {"send"}, value : [Topic -> Values], topics : SUBSET Topic,
                      topic : Topic, to : SUBSET Client]
      BY <2>1, <3>1
    <3>3. watch' \in WatcherStates
      BY <3>2 DEF WatcherStates
    <3> QED BY <1>3, <3>3 DEF WatchPublish, SyncShape
  <2> QED BY <2>2, <2>3
<1>4. CASE WatchSend
  <2>1. watch \in [pc : {"send"}, value : [Topic -> Values], topics : SUBSET Topic,
                   topic : Topic, to : SUBSET Client]
    BY <1>0, <1>4 DEF WatchSend, WatcherStates
  <2>2. CASE watch.to = {}
    <3>1. watch' \in WatcherStates
      BY <1>4, <2>1, <2>2 DEF WatchSend, WatcherStates
    <3> QED BY <1>4, <2>2, <3>1 DEF WatchSend, SyncShape
  <2>3. CASE watch.to # {}
    <3>1. PICK d \in watch.to : /\ Receive(d, watch.topic, watch.value[watch.topic])
                               /\ watch' = [watch EXCEPT !.to = @ \ {d}]
      BY <1>4, <2>3 DEF WatchSend
    <3>2. told' \in [Client -> [Topic -> Heard]]
      BY <2>1, <3>1, ReceiveFits
    <3>3. watch' \in [pc : {"send"}, value : [Topic -> Values], topics : SUBSET Topic,
                      topic : Topic, to : SUBSET Client]
      BY <2>1, <3>1
    <3>4. watch' \in WatcherStates
      BY <3>3 DEF WatcherStates
    <3> QED BY <1>4, <3>2, <3>4 DEF WatchSend, SyncShape
  <2> QED BY <2>2, <2>3
<1> QED BY <1>1, <1>2, <1>3, <1>4 DEF WatcherTick

(* theme_watch.rs, bus.rs: what is stored and noted on a topic is a value  *)
(* of some write, and the watcher is where its code can be.                *)
THEOREM ThemeSyncTypes == ThemeSyncSpec => []ThemeSyncTypeOK
<1>1. ThemeSyncInit => SyncShape
  <2> SUFFICES ASSUME ThemeSyncInit PROVE SyncShape
    OBVIOUS
  <2>1. 0 \in Values /\ NoRequest \in Requests /\ [pc |-> "off"] \in WatcherStates
    BY ThemeSyncAssumption DEF Values, Requests, WatcherStates
  <2>2. [t \in Topic |-> "behind"] \in [Topic -> Heard]
    BY DEF Heard
  <2> QED BY <2>1, <2>2 DEF ThemeSyncInit, SyncShape
<1>2. SyncShape /\ [ThemeSyncNext]_syncVars => SyncShape'
  <2> SUFFICES ASSUME SyncShape, [ThemeSyncNext]_syncVars PROVE SyncShape'
    OBVIOUS
  <2>1. CASE UNCHANGED syncVars
    BY <2>1 DEF syncVars, SyncShape
  <2> QED BY <2>1, SyncShapeClient, SyncShapeTopic, SyncShapeWatcher DEF ThemeSyncNext
<1>3. SyncShape => ThemeSyncTypeOK
  <2> SUFFICES ASSUME SyncShape PROVE ThemeSyncTypeOK
    OBVIOUS
  <2>1. watch.pc \in {"off", "seeding", "sleep", "compare", "publish", "send"}
    BY DEF SyncShape, WatcherStates
  <2> QED BY <2>1 DEF SyncShape, Values, ThemeSyncTypeOK
<1> QED BY <1>1, <1>2, <1>3, PTL DEF ThemeSyncSpec

-----------------------------------------------------------------------------
(***************************************************************************)
(* The components together (MCConnections).  Each step is one of a single  *)
(* component and leaves the variables of the others alone.                 *)
(***************************************************************************)

(* A behaviour of the whole is a behaviour of each component.              *)
LEMMA ConnectionsFollow ==
  Spec => ThemeSyncSpec /\ PeerMeshSpec /\ BusDaemonSpec /\ ChildRunSpec /\ StreamsSpec
<1>1. Init => ThemeSyncInit /\ PeerMeshInit /\ BusDaemonInit /\ ChildRunInit /\ StreamsInit
  BY DEF Init
<1>2. [Next]_vars => [ThemeSyncNext]_syncVars
  BY DEF Next, vars
<1>3. [Next]_vars => [PeerMeshNext]_peerVars
  BY DEF Next, vars
<1>4. [Next]_vars => [BusDaemonNext]_daemonVars
  BY DEF Next, vars
<1>5. [Next]_vars => [ChildRunNext]_childVars
  BY DEF Next, vars
<1>6. [Next]_vars => [StreamsNext]_streamVars
  BY DEF Next, vars
<1> QED BY <1>1, <1>2, <1>3, <1>4, <1>5, <1>6, PTL
        DEF Spec, ThemeSyncSpec, PeerMeshSpec, BusDaemonSpec, ChildRunSpec, StreamsSpec

(* The five components of a host side by side keep their types.            *)
THEOREM ConnectionTypes == Spec => []ConnectionTypesOK
<1>1. ThemeSyncTypeOK /\ PeerMeshTypeOK /\ BusDaemonTypeOK /\ ChildRunTypeOK /\ StreamsTypeOK
        => ConnectionTypesOK
  BY DEF ConnectionTypesOK
<1> QED BY <1>1, ConnectionsFollow, ThemeSyncTypes, PeerMeshTypes, BusDaemonTypes, ChildRunTypes,
           StreamTypes, PTL
=============================================================================
