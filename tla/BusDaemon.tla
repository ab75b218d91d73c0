----------------------------- MODULE BusDaemon -----------------------------
(***************************************************************************)
(* Who owns the automation bus socket, the end of src/src/zbus.rs and run  *)
(* of src/src/lib.rs.  Every host process makes sure at its start that a   *)
(* detached bus-daemon is listening, and starts one if not; a daemon that  *)
(* finds another one listening leaves.  Under a lock on a sidecar file it  *)
(* checks, binds a private path and renames it over zwire.sock.            *)
(*                                                                         *)
(* socket is the daemon whose listener the path leads to, dead or alive:   *)
(* a daemon that dies leaves its path behind.                              *)
(***************************************************************************)
EXTENDS Naturals

CONSTANTS
  HostProc,   \* host processes
  Daemon,     \* daemon processes that may be spawned
  NoDaemon,   \* an absent daemon
  MaxDeaths   \* bound of the model: daemons that die

ASSUME BusDaemonAssumption == NoDaemon \notin Daemon /\ MaxDeaths \in Nat

VARIABLES
  host,       \* where each host is, and how many daemons had died when it looked
  daemon,     \* where each daemon is
  socket,     \* what zwire.sock leads to
  socketLock, \* the daemon that holds zwire.sock.lock
  deaths      \* daemons that died so far

daemonVars == <<host, daemon, socket, socketLock, deaths>>

Serving(d) == daemon[d] = "serve"
BusLive == socket # NoDaemon /\ Serving(socket)
AtHost(h, pc) == host[h].pc = pc

-----------------------------------------------------------------------------
BusDaemonInit ==
  /\ host = [h \in HostProc |-> [pc |-> "out", seen |-> 0]]
  /\ daemon = [d \in Daemon |-> "none"]
  /\ socket = NoDaemon /\ socketLock = NoDaemon /\ deaths = 0

(* A host starts, in stdio or serve mode, and looks for a listener. *)
HostStarts(h) ==
  /\ AtHost(h, "out")
  /\ host' = [host EXCEPT ![h] = [pc |-> IF BusLive THEN "ready" ELSE "spawn", seen |-> deaths]]
  /\ UNCHANGED <<daemon, socket, socketLock, deaths>>

(* There was none: it spawns a daemon and waits, for two seconds at most. *)
SpawnDaemon(h) ==
  /\ AtHost(h, "spawn")
  /\ \E d \in Daemon : /\ daemon[d] = "none"
                       /\ daemon' = [daemon EXCEPT ![d] = "lock"]
  /\ host' = [host EXCEPT ![h].pc = "wait"]
  /\ UNCHANGED <<socket, socketLock, deaths>>

FindsBus(h) ==
  /\ AtHost(h, "wait") /\ BusLive
  /\ host' = [host EXCEPT ![h].pc = "ready"]
  /\ UNCHANGED <<daemon, socket, socketLock, deaths>>

GivesUp(h) ==
  /\ AtHost(h, "wait") /\ ~BusLive
  /\ host' = [host EXCEPT ![h].pc = "ready"]
  /\ UNCHANGED <<daemon, socket, socketLock, deaths>>

(* A host is short-lived: it ends, and another one starts. *)
HostExits(h) ==
  /\ AtHost(h, "ready")
  /\ host' = [host EXCEPT ![h].pc = "out"]
  /\ UNCHANGED <<daemon, socket, socketLock, deaths>>

Becomes(d, pc) == daemon' = [daemon EXCEPT ![d] = pc]

(* Mutant: the lock is taken when it is held. *)
LockTaken == socketLock \in Daemon \cup {NoDaemon}
LockIsFree == socketLock = NoDaemon

(* bind_bus blocks for the lock. *)
TakeLock(d) ==
  /\ daemon[d] = "lock" /\ LockIsFree
  /\ socketLock' = d /\ Becomes(d, "check")
  /\ UNCHANGED <<host, socket, deaths>>

(* Mutant: any entry at the path counts as a live owner. *)
PathExists == socket # NoDaemon
OwnerAnswers == BusLive

(* Somebody is listening already: the lock goes and the daemon exits. *)
Adopt(d) ==
  /\ daemon[d] = "check" /\ OwnerAnswers
  /\ socketLock' = NoDaemon /\ Becomes(d, "exited")
  /\ UNCHANGED <<host, socket, deaths>>

(* Otherwise it binds its private path; nobody can connect to it there. *)
BindPrivate(d) ==
  /\ daemon[d] = "check" /\ ~OwnerAnswers
  /\ Becomes(d, "rename")
  /\ UNCHANGED <<host, socket, socketLock, deaths>>

RenameOver(d) ==
  /\ daemon[d] = "rename"
  /\ socket' = d /\ socketLock' = NoDaemon /\ Becomes(d, "serve")
  /\ UNCHANGED <<host, deaths>>

(* A daemon is killed, or leaves its accept loop: the system releases its  *)
(* lock and its listener, and the path stays.                              *)
Dies(d) ==
  /\ daemon[d] \in {"lock", "check", "rename", "serve"} /\ deaths < MaxDeaths
  /\ Becomes(d, "exited") /\ deaths' = deaths + 1
  /\ socketLock' = IF socketLock = d THEN NoDaemon ELSE socketLock
  /\ UNCHANGED <<host, socket>>

(* A pid can be used again once its process is gone. *)
Reaped(d) ==
  /\ daemon[d] = "exited" /\ socket # d
  /\ Becomes(d, "none")
  /\ UNCHANGED <<host, socket, socketLock, deaths>>

DaemonStep(d) == TakeLock(d) \/ Adopt(d) \/ BindPrivate(d) \/ RenameOver(d)

BusDaemonNext ==
  \/ \E h \in HostProc : HostStarts(h) \/ SpawnDaemon(h) \/ FindsBus(h) \/ GivesUp(h) \/ HostExits(h)
  \/ \E d \in Daemon : DaemonStep(d) \/ Dies(d) \/ Reaped(d)

(* Processes run; the kernel grants a lock that keeps becoming free.       *)
BusDaemonFairness ==
  /\ \A h \in HostProc : WF_daemonVars(SpawnDaemon(h))
  /\ \A d \in Daemon : SF_daemonVars(DaemonStep(d)) /\ WF_daemonVars(Reaped(d))

BusDaemonSpec == BusDaemonInit /\ [][BusDaemonNext]_daemonVars /\ BusDaemonFairness

-----------------------------------------------------------------------------
BusDaemonTypeOK ==
  /\ \A h \in HostProc : host[h].pc \in {"out", "spawn", "wait", "ready"}
  /\ daemon \in [Daemon -> {"none", "lock", "check", "rename", "serve", "exited"}]
  /\ socket \in Daemon \cup {NoDaemon} /\ socketLock \in Daemon \cup {NoDaemon}
  /\ \A d \in Daemon : socketLock = d <=> daemon[d] \in {"check", "rename"}

(* zbus.rs:1117-1118, 1036-1041: only one daemon lingers and the path      *)
(* leads to it; a daemon is never left listening where no client can       *)
(* connect, whoever else was starting and died.                            *)
OwnerIsReachable == \A d \in Daemon : Serving(d) => socket = d

(* zbus.rs:1239: a host that found the bus dead gets a live one, also over *)
(* the path of a daemon that died; only another death excuses it.          *)
BusComesUp == \A h \in HostProc :
  AtHost(h, "spawn") ~> BusLive \/ deaths > host[h].seen
=============================================================================
