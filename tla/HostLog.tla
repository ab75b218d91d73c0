------------------------------- MODULE HostLog ------------------------------
(***************************************************************************)
(* The command log every host process appends to, src/src/hostlog.rs, and  *)
(* trims when it has grown too long: read, keep the newest lines, replace  *)
(* through a temporary file whose name all processes share.  respond       *)
(* (src/src/proto.rs) logs a reply before it sends it.                     *)
(*                                                                         *)
(* An entry is the number of its append.  One write(2) appends a whole     *)
(* line.  A name refers to an inode that an open file keeps.               *)
(***************************************************************************)
EXTENDS Naturals, Sequences, FiniteSetsExt

CONSTANTS
  LogProc,    \* host processes
  MaxEntries, \* bound of the model: entries over the run
  TrimPast,   \* MAX_BYTES, in entries: a longer log is trimmed
  TrimKeep    \* TRIM_KEEP

ASSUME HostLogAssumption == {MaxEntries, TrimPast, TrimKeep} \subseteq Nat

VARIABLES
  lines,    \* contents by inode
  logName,  \* the inodes that hostlog.jsonl and its .tmp name, 0 when none
  recorder, \* where each process is, the tail it keeps, the inode it has open
  recorded,  \* entries so far
  crossed   \* history: something happened to the log during a trim

logVars == <<lines, logName, recorder, recorded, crossed>>

LogInode == 1..(MaxEntries + 1)
Idle == [pc |-> "idle", tail |-> <<>>, ino |-> 0]
RecorderAt(p, pc) == recorder[p].pc = pc
Trimming(p) == recorder[p].pc \in {"tmp", "write", "rename"}
Log == lines[logName.log]

-----------------------------------------------------------------------------
HostLogInit ==
  /\ lines = [i \in LogInode |-> <<>>] /\ logName = [log |-> 1, tmp |-> 0]
  /\ recorder = [p \in LogProc |-> Idle] /\ recorded = 0 /\ crossed = FALSE

(* record: append one line, whatever file has the name.  (The other        *)
(* outcome leaves no trace here: cutting a summary inside a character      *)
(* panics, and respond does not get to send the reply.)                    *)
RecordReply(p) ==
  /\ RecorderAt(p, "idle") /\ recorded < MaxEntries
  /\ recorded' = recorded + 1
  /\ lines' = [lines EXCEPT ![logName.log] = Append(@, recorded + 1)]
  /\ recorder' = [recorder EXCEPT ![p].pc = "size"]
  /\ crossed' = (crossed \/ \E q \in LogProc : Trimming(q))
  /\ UNCHANGED logName

(* Mutant: the first lines are kept. *)
Oldest(log) == SubSeq(log, 1, TrimKeep)
Newest(log) == SubSeq(log, Len(log) - TrimKeep + 1, Len(log))

(* The size is looked at, and a log past it is read, in one step here.     *)
TrimReads(p) ==
  /\ RecorderAt(p, "size")
  /\ recorder' = [recorder EXCEPT ![p] =
       IF Len(Log) > TrimPast /\ Len(Log) > TrimKeep
       THEN [Idle EXCEPT !.pc = "tmp", !.tail = Newest(Log)] ELSE Idle]
  /\ crossed' = (crossed \/ \E q \in LogProc : Trimming(q))
  /\ UNCHANGED <<lines, logName, recorded>>

TrimOpens(p) ==
  LET i == IF logName.tmp # 0 THEN logName.tmp
           ELSE Min(LogInode \ ({logName.log} \cup {recorder[q].ino : q \in LogProc})) IN
  /\ RecorderAt(p, "tmp")
  /\ lines' = [lines EXCEPT ![i] = <<>>]
  /\ logName' = [logName EXCEPT !.tmp = i]
  /\ recorder' = [recorder EXCEPT ![p].pc = "write", ![p].ino = i]
  /\ UNCHANGED <<recorded, crossed>>

(* From the start of the file that was opened, over what may be there.     *)
TrimWrites(p) ==
  LET r == recorder[p]  old == lines[r.ino] IN
  /\ RecorderAt(p, "write")
  /\ lines' = [lines EXCEPT ![r.ino] = r.tail \o SubSeq(old, Len(r.tail) + 1, Len(old))]
  /\ recorder' = [recorder EXCEPT ![p].pc = "rename", ![p].ino = 0]
  /\ UNCHANGED <<logName, recorded, crossed>>

TrimRenames(p) ==
  /\ RecorderAt(p, "rename")
  /\ logName' = IF logName.tmp = 0 THEN logName ELSE [log |-> logName.tmp, tmp |-> 0]
  /\ recorder' = [recorder EXCEPT ![p] = Idle]
  /\ UNCHANGED <<lines, recorded, crossed>>

LogCrash(p) ==
  /\ ~RecorderAt(p, "idle") /\ recorder' = [recorder EXCEPT ![p] = Idle]
  /\ UNCHANGED <<lines, logName, recorded, crossed>>

HostLogNext == \E p \in LogProc :
  RecordReply(p) \/ TrimReads(p) \/ TrimOpens(p) \/ TrimWrites(p) \/ TrimRenames(p) \/ LogCrash(p)
HostLogSpec == HostLogInit /\ [][HostLogNext]_logVars

-----------------------------------------------------------------------------
HostLogTypeOK ==
  /\ logName \in [log : LogInode, tmp : LogInode \cup {0}]
  /\ \A p \in LogProc : recorder[p].pc \in {"idle", "size", "tmp", "write", "rename"}
  /\ recorded \in 0..MaxEntries /\ crossed \in BOOLEAN

(* While no trim was crossed by an append or another trim, deaths in the   *)
(* middle of one included, the log is an unbroken run of the newest        *)
(* entries, and what a trim took is what was beyond TRIM_KEEP of them.     *)
LogKeepsNewest == ~crossed =>
  /\ \A i \in DOMAIN Log : Log[i] = recorded - Len(Log) + i
  /\ Len(Log) >= Min({recorded, TrimKeep})
=============================================================================
