------------------------------ MODULE KvStore -------------------------------
(***************************************************************************)
(* The file-backed key/value store, src/src/store.rs, and the browser      *)
(* action that travels in it.  A browser.* call on the automation bus      *)
(* (src/src/zbus.rs, run_command) stamps the action with a nonce and       *)
(* leaves it under one key; a stryke_run command (src/src/session.rs)      *)
(* whose script made the call takes it from there onto its reply.  Caller  *)
(* and runner are usually two processes.                                   *)
(*                                                                         *)
(* A value is replaced by writing a sibling .tmp, the same for every       *)
(* writer, and renaming it.  Files are modelled as a directory does: a     *)
(* name refers to an inode, and an open file keeps its inode whatever      *)
(* becomes of the name.                                                    *)
(***************************************************************************)
EXTENDS Naturals

CONSTANTS
  KvProc,     \* processes that may write the key
  MaxKvWrites, \* bound of the model: values written over the run
  MaxRuns,    \* bound of the model: stryke_run commands
  MaxClock    \* bound of the model: milliseconds that pass

ASSUME KvAssumption == {MaxKvWrites, MaxRuns, MaxClock} \subseteq Nat

VARIABLES
  inode,    \* contents by inode; Empty while truncated
  name,     \* the inodes that key and tmp name, 0 when there is none
  kvWriter, \* what each process is doing
  nonce,    \* the clock, and the last nonce of each process
  kvRun,    \* the stryke_run under way
  kvCount,  \* values written and runs started so far
  shared,   \* history: two processes were writing at once
  stale     \* history: an action older than its run was returned

kvVars == <<inode, name, kvWriter, nonce, kvRun, kvCount, shared, stale>>

Inode == 1..MaxKvWrites
Empty == [n |-> 0, w |-> 0]
(* kv_get: null when the file is absent or does not parse.                 *)
KvGet == IF name.key = 0 THEN Empty ELSE inode[name.key]
KvTorn == name.key # 0 /\ inode[name.key] = Empty
NotWriting == [pc |-> "idle", value |-> Empty, ino |-> 0]
Larger(a, b) == IF a > b THEN a ELSE b

-----------------------------------------------------------------------------
KvInit ==
  /\ inode = [i \in Inode |-> Empty] /\ name = [key |-> 0, tmp |-> 0]
  /\ kvWriter = [p \in KvProc |-> NotWriting]
  /\ nonce = [clock |-> 0, last |-> [p \in KvProc |-> 0]]
  /\ kvRun = [pc |-> "idle", before |-> 0, since |-> 0, took |-> Empty]
  /\ kvCount = [writes |-> 0, runs |-> 0]
  /\ shared = FALSE /\ stale = FALSE

Tick == /\ nonce.clock < MaxClock /\ nonce' = [nonce EXCEPT !.clock = @ + 1]
        /\ UNCHANGED <<inode, name, kvWriter, kvRun, kvCount, shared, stale>>

(* action_nonce: past the clock, and past this process's last one.         *)
ActionNonce(p) == Larger(nonce.last[p], nonce.clock) + 1

(* A browser.* verb: stamp, publish to whoever subscribes here, kv_set.    *)
BrowserCall(p) ==
  /\ kvWriter[p].pc = "idle" /\ kvCount.writes < MaxKvWrites
  /\ kvCount' = [kvCount EXCEPT !.writes = @ + 1]
  /\ nonce' = [nonce EXCEPT !.last[p] = ActionNonce(p)]
  /\ kvWriter' = [kvWriter EXCEPT ![p] =
       [pc |-> "open", ino |-> 0, value |-> [n |-> ActionNonce(p), w |-> kvCount.writes + 1]]]
  /\ shared' = (shared \/ \E q \in KvProc : kvWriter[q].pc # "idle")
  /\ UNCHANGED <<inode, name, kvRun, stale>>

FreeInode == CHOOSE i \in Inode :
  i \notin {name.key, name.tmp} \cup {kvWriter[q].ino : q \in KvProc}

(* fs::write, first half: the tmp file is created, or emptied if there.    *)
OpenTmp(p) ==
  LET i == IF name.tmp = 0 THEN FreeInode ELSE name.tmp IN
  /\ kvWriter[p].pc = "open"
  /\ inode' = [inode EXCEPT ![i] = Empty]
  /\ name' = [name EXCEPT !.tmp = i]
  /\ kvWriter' = [kvWriter EXCEPT ![p].pc = "write", ![p].ino = i]
  /\ UNCHANGED <<nonce, kvRun, kvCount, shared, stale>>

(* fs::write, second half, into the file that was opened.                  *)
WriteTmp(p) ==
  /\ kvWriter[p].pc = "write"
  /\ inode' = [inode EXCEPT ![kvWriter[p].ino] = kvWriter[p].value]
  /\ kvWriter' = [kvWriter EXCEPT ![p].pc = "rename", ![p].ino = 0]
  /\ UNCHANGED <<name, nonce, kvRun, kvCount, shared, stale>>

(* rename; it fails, and so does the call, when another writer has already *)
(* renamed the one tmp file away.                                          *)
RenameTmp(p) ==
  /\ kvWriter[p].pc = "rename"
  /\ name' = IF name.tmp = 0 THEN name ELSE [key |-> name.tmp, tmp |-> 0]
  /\ kvWriter' = [kvWriter EXCEPT ![p] = NotWriting]
  /\ UNCHANGED <<inode, nonce, kvRun, kvCount, shared, stale>>

KvCrash(p) ==
  /\ kvWriter[p].pc # "idle" /\ kvWriter' = [kvWriter EXCEPT ![p] = NotWriting]
  /\ UNCHANGED <<inode, name, nonce, kvRun, kvCount, shared, stale>>

(* stryke_run: note the queued nonce, then run the script.                 *)
RunStarts ==
  /\ kvRun.pc = "idle" /\ kvCount.runs < MaxRuns
  /\ kvCount' = [kvCount EXCEPT !.runs = @ + 1]
  /\ kvRun' = [pc |-> "running", before |-> KvGet.n, since |-> KvGet.w, took |-> Empty]
  /\ UNCHANGED <<inode, name, kvWriter, nonce, shared, stale>>

(* Mutant: whatever is queued is taken. *)
AnyAction(a, before) == a # Empty
NewAction(a, before) == a # Empty /\ a.n # before

(* The script is over.  What is queued now rides on the reply if its nonce *)
(* is another than before.                                                 *)
RunReads ==
  /\ kvRun.pc = "running"
  /\ kvRun' = IF NewAction(KvGet, kvRun.before)
              THEN [kvRun EXCEPT !.pc = "consuming", !.took = KvGet]
              ELSE [kvRun EXCEPT !.pc = "idle"]
  /\ stale' = (stale \/ (NewAction(KvGet, kvRun.before) /\ KvGet.w <= kvRun.since))
  /\ UNCHANGED <<inode, name, kvWriter, nonce, kvCount, shared>>

(* kv_del removes the key, whatever it holds by now.                       *)
RunConsumes ==
  /\ kvRun.pc = "consuming"
  /\ name' = [name EXCEPT !.key = 0]
  /\ kvRun' = [kvRun EXCEPT !.pc = "idle"]
  /\ UNCHANGED <<inode, kvWriter, nonce, kvCount, shared, stale>>

KvNext ==
  \/ Tick \/ RunStarts \/ RunReads \/ RunConsumes
  \/ \E p \in KvProc : BrowserCall(p) \/ OpenTmp(p) \/ WriteTmp(p) \/ RenameTmp(p) \/ KvCrash(p)

KvSpec == KvInit /\ [][KvNext]_kvVars

-----------------------------------------------------------------------------
KvTypeOK ==
  /\ name \in [key : 0..MaxKvWrites, tmp : 0..MaxKvWrites]
  /\ \A p \in KvProc : kvWriter[p].pc \in {"idle", "open", "write", "rename"}
  /\ kvRun.pc \in {"idle", "running", "consuming"}
  /\ nonce.clock \in 0..MaxClock /\ shared \in BOOLEAN /\ stale \in BOOLEAN

(* As long as writers do not overlap, dying at any point included, a run   *)
(* returns no action that was queued before it began: an old action is not *)
(* executed on behalf of a script that never asked for it.                 *)
PiggybackIsFresh == ~shared => ~stale

(* What write_atomic promises (store.rs:141-142): a rename over the target *)
(* "so a reader never observes a half-written file".                       *)
NeverHalfWritten == ~KvTorn
=============================================================================
