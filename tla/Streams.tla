------------------------------- MODULE Streams ------------------------------
(***************************************************************************)
(* What one connection streams: file watchers, tails and meter feeds       *)
(* (src/src/watch.rs), terminals (pty.rs), the stats monitor (sysmon.rs)   *)
(* and the language server (stryke_lsp.rs), each with a thread that sends  *)
(* frames on the connection, and the session (session.rs) that starts,     *)
(* replaces and stops them.  Taking a stream out of the session drops it,  *)
(* and dropping waits for its thread, except for the language server's.    *)
(*                                                                         *)
(* Watchers and terminals are kept by the id the client chose, the monitor *)
(* and the language server are one per connection.  The three observers    *)
(* differ in what they send, not in how they live.                         *)
(***************************************************************************)
EXTENDS Naturals, FiniteSets

CONSTANTS
  StreamKey,  \* ids a client gives its streams
  MaxStreams  \* bound of the model: streams started over the run

ASSUME StreamsAssumption == MaxStreams \in Nat

VARIABLES
  held,    \* the streams the session keeps, by slot
  stream,  \* every stream started: its slot and where its thread is
  serving, \* the session: what it does, the stream it drops, is a reply due
  wire,    \* the last frame sent: its stream (0 for a reply) and what it is
  gone,    \* the client has closed its end of the connection
  kept     \* streams whose output another program than their child holds open

streamVars == <<held, stream, serving, wire, gone, kept>>

Watch(k) == [kind |-> "watch", key |-> k]
Pty(k) == [kind |-> "pty", key |-> k]
Sysinfo == [kind |-> "sysinfo", key |-> "only"]
Lsp == [kind |-> "lsp", key |-> "only"]
Slot == {Watch(k) : k \in StreamKey} \cup {Pty(k) : k \in StreamKey} \cup {Sysinfo, Lsp}
Stream == DOMAIN stream
Holds(s) == held[s] # 0
Joined(i) == stream[i].slot.kind # "lsp"
(* A terminal and a language server end with a frame that says so.         *)
SaysExit(i) == stream[i].slot.kind \in {"pty", "lsp"}
ServingAt(pc) == serving.pc = pc
Live == {i \in Stream : stream[i].pc # "over"}

-----------------------------------------------------------------------------
StreamsInit ==
  /\ held = [s \in Slot |-> 0]
  /\ stream = [i \in {} |-> [slot |-> "none", pc |-> "over"]]
  /\ serving = [pc |-> "reading", drop |-> 0, reply |-> FALSE]
  /\ wire = [from |-> 0, what |-> "reply"]
  /\ gone = FALSE /\ kept = {}

(* Mutant: a drop does not tell the thread to stop. *)
NotTold(i, all) == all
(* Drop: the stop flag is set, the child killed.                           *)
Told(i, all) == IF all[i].pc = "running" THEN [all EXCEPT ![i].pc = "stopping"] ELSE all

(* Taking out a stream; none (0) is replied to at once, a kill never.      *)
DropThen(i, all, replies) ==
  /\ stream' = IF i = 0 THEN all ELSE Told(i, all)
  /\ UNCHANGED <<gone, kept>>
  /\ IF i = 0 \/ ~Joined(i)
     THEN /\ serving' = serving
          /\ wire' = IF replies THEN [from |-> 0, what |-> "reply"] ELSE wire
     ELSE /\ serving' = [pc |-> "dropping", drop |-> i, reply |-> replies]
          /\ UNCHANGED wire

(* A new stream runs before the one it replaces is dropped.                *)
Replace(s) ==
  LET new == Cardinality(Stream) + 1 IN
  /\ ServingAt("reading") /\ Cardinality(Stream) < MaxStreams
  /\ held' = [held EXCEPT ![s] = new]
  /\ DropThen(held[s], [i \in Stream \cup {new} |->
       IF i = new THEN [slot |-> s, pc |-> "running"] ELSE stream[i]], TRUE)
TakeOut(s, replies) ==
  /\ ServingAt("reading")
  /\ held' = [held EXCEPT ![s] = 0]
  /\ DropThen(held[s], stream, replies)
Refuse ==
  /\ ServingAt("reading") /\ wire' = [from |-> 0, what |-> "reply"]
  /\ UNCHANGED <<held, stream, serving, gone, kept>>

(* fs_watch, fs_tail, meter_stream; sysinfo_start.                         *)
StartWatcher(k) == Replace(Watch(k))
StartMonitor == Replace(Sysinfo)

(* pty_spawn: a shell that cannot be spawned leaves the one there alone.   *)
SpawnPty(k) == Replace(Pty(k)) \/ Refuse

(* stryke_lsp_start kills the server first, so that a failed start leaves  *)
(* none; nobody waits for the old one's thread.                            *)
StartLsp == Replace(Lsp) \/ TakeOut(Lsp, TRUE)

StopWatcher(k) == TakeOut(Watch(k), TRUE)
StopMonitor == TakeOut(Sysinfo, TRUE)
StopLsp == TakeOut(Lsp, TRUE)
(* pty_kill has no reply: the reader's exit frame stands for it.           *)
KillPty(k) == TakeOut(Pty(k), FALSE)

(* pty_write and stryke_lsp_send write all they are given on the session's *)
(* own thread, and take as long as the child takes to read it.             *)
BeginSend(reply) ==
  /\ ServingAt("reading")
  /\ serving' = [serving EXCEPT !.pc = "sending", !.reply = reply]
  /\ UNCHANGED <<held, stream, wire, gone, kept>>
WritePty(k) == Holds(Pty(k)) /\ BeginSend(FALSE)
SendLsp == IF Holds(Lsp) THEN BeginSend(TRUE) ELSE Refuse

Sent ==
  /\ ServingAt("sending")
  /\ serving' = [serving EXCEPT !.pc = "reading"]
  /\ wire' = IF serving.reply THEN [from |-> 0, what |-> "reply"] ELSE wire
  /\ UNCHANGED <<held, stream, gone, kept>>

(* Mutant: the thread is not waited for. *)
Detached(i) == TRUE
Ended(i) == stream[i].pc = "over"

(* join returns, and the command that dropped the stream can reply.        *)
DropReturns ==
  /\ ServingAt("dropping") /\ Ended(serving.drop)
  /\ serving' = [serving EXCEPT !.pc = "reading", !.drop = 0]
  /\ wire' = IF serving.reply THEN [from |-> 0, what |-> "reply"] ELSE wire
  /\ UNCHANGED <<held, stream, gone, kept>>

(* A frame.  A thread looks at its flag between frames, or between two     *)
(* looks at the files it watches, and there may be output left in the pipe *)
(* of a child that was killed.                                             *)
Frame(i, kind) ==
  /\ stream[i].slot.kind = kind /\ stream[i].pc \in {"running", "stopping"}
  /\ wire' = [from |-> i, what |-> "frame"]
  /\ UNCHANGED <<held, stream, serving, gone, kept>>
EmitChange(i) == Frame(i, "watch")
EmitStats(i) == Frame(i, "sysinfo")
EmitOutput(i) == Frame(i, "pty")
EmitLsp(i) == Frame(i, "lsp")

(* An observer ends at its flag.                                           *)
ObserverEnds(i) ==
  /\ ~SaysExit(i) /\ stream[i].pc = "stopping"
  /\ stream' = [stream EXCEPT ![i].pc = "over"]
  /\ UNCHANGED <<held, serving, wire, gone, kept>>

(* It, and the reader of a terminal, also end with a frame that the client *)
(* which left does not take.                                               *)
FrameRefused(i) ==
  /\ gone /\ i \in Live /\ stream[i].slot # Lsp
  /\ stream' = [stream EXCEPT ![i].pc = "over"]
  /\ UNCHANGED <<held, serving, wire, gone, kept>>

(* The program of a terminal or of the server leaves another behind that   *)
(* has its terminal or its output open, as a job of a shell in the         *)
(* background has.  Such a program ends when it likes.                     *)
LeaveBehind(i) ==
  /\ SaysExit(i) /\ stream[i].pc = "running" /\ i \notin kept
  /\ kept' = kept \cup {i}
  /\ UNCHANGED <<held, stream, serving, wire, gone>>
LeftBehindEnds(i) ==
  /\ i \in kept /\ kept' = kept \ {i}
  /\ UNCHANGED <<held, stream, serving, wire, gone>>

(* The reader of a terminal or of the server ends with its output, because *)
(* the program exited or was killed and no other has the output open, and  *)
(* says so.                                                                *)
ReaderEnds(i) ==
  /\ SaysExit(i) /\ i \in Live /\ i \notin kept
  /\ stream' = [stream EXCEPT ![i].pc = "over"]
  /\ wire' = [from |-> i, what |-> "exit"]
  /\ UNCHANGED <<held, serving, gone, kept>>

(* The client goes away, whatever the session is doing.  The session knows *)
(* when it has served what was sent before and reads the end.              *)
ClientHangsUp ==
  /\ ~gone /\ gone' = TRUE
  /\ UNCHANGED <<held, stream, serving, wire, kept>>

Disconnect ==
  /\ ServingAt("reading") /\ gone
  /\ serving' = [serving EXCEPT !.pc = "closing"]
  /\ UNCHANGED <<held, stream, wire, gone, kept>>

(* Then what the session held is dropped, one by one, in the order of its  *)
(* fields.                                                                 *)
Rank(s) == CASE s.kind = "pty" -> 1 [] s.kind = "watch" -> 2
             [] s.kind = "lsp" -> 3 [] s.kind = "sysinfo" -> 4

CloseNext == \E s \in Slot :
  LET i == held[s] IN
  /\ ServingAt("closing") /\ Holds(s)
  /\ \A o \in Slot : Holds(o) => Rank(s) <= Rank(o)
  /\ serving.drop \notin Live
  /\ held' = [held EXCEPT ![s] = 0]
  /\ stream' = Told(i, stream)
  /\ serving' = [serving EXCEPT !.drop = IF Joined(i) THEN i ELSE 0]
  /\ UNCHANGED <<wire, gone, kept>>

StreamsNext ==
  \/ \E k \in StreamKey : StartWatcher(k) \/ StopWatcher(k) \/ SpawnPty(k) \/ KillPty(k) \/ WritePty(k)
  \/ StartMonitor \/ StopMonitor \/ StartLsp \/ StopLsp \/ SendLsp \/ Sent
  \/ DropReturns \/ ClientHangsUp \/ Disconnect \/ CloseNext
  \/ \E i \in Stream : EmitChange(i) \/ EmitStats(i) \/ EmitOutput(i) \/ EmitLsp(i)
                       \/ ObserverEnds(i) \/ FrameRefused(i) \/ ReaderEnds(i)
                       \/ LeaveBehind(i) \/ LeftBehindEnds(i)

(* Threads are scheduled.  A thread that was told ends: its flag is looked *)
(* at within 100 ms, or its child is dead and the output, when nobody else *)
(* has it open, read out.  A client sends so much before it leaves, so     *)
(* that a session which keeps coming back to read reads the end.  No       *)
(* program need end, nor read what it is sent.                             *)
StreamsFairness ==
  /\ WF_streamVars(DropReturns) /\ WF_streamVars(CloseNext) /\ SF_streamVars(Disconnect)
  /\ \A i \in 1..MaxStreams : WF_streamVars(
       i \in Stream /\ stream[i].pc = "stopping" /\ (ObserverEnds(i) \/ ReaderEnds(i)))
StreamsSpec == StreamsInit /\ [][StreamsNext]_streamVars /\ StreamsFairness

-----------------------------------------------------------------------------
StreamsTypeOK ==
  /\ \A s \in Slot : held[s] \in Stream \cup {0}
  /\ \A i \in Stream : stream[i].slot \in Slot /\ stream[i].pc \in {"running", "stopping", "over"}
  /\ serving.pc \in {"reading", "sending", "dropping", "closing"} /\ serving.drop \in Stream \cup {0}
  /\ wire.from \in Stream \cup {0}
  /\ gone \in BOOLEAN /\ kept \subseteq Stream

(* Between two commands every frame comes from a stream the session holds: *)
(* after the reply to a stop or a start nothing more arrives under that id *)
(* from the stream that was there before.  (The language server's is an    *)
(* exception: its last frames may come after the start of the next.)       *)
FramesAreLive == [][wire' # wire /\ serving.pc \in {"reading", "sending"} /\ wire'.from # 0 =>
  \/ held[stream[wire'.from].slot] = wire'.from
  \/ ~Joined(wire'.from)]_streamVars

(* When the client leaves, everything started on the connection ends, in   *)
(* whatever state it finds the session and its streams, provided that the  *)
(* other programs do their part: none holds up the session by not reading  *)
(* what it was sent, and what was left behind on a terminal or pipe ends.  *)
NothingLeaks ==
  /\ []<>~ServingAt("sending")
  /\ []<>(kept \cap Live = {})
  => (gone ~> Live = {})

(* session.rs:53-55: "Dropping it tears down every PTY [...] so a client   *)
(* disconnect never leaks a shell, a thread, a subscriber, or a stale      *)
(* link".  Of the threads, when every program reads what it is sent.       *)
(* Violated: a reader goes on as long as somebody else has its terminal    *)
(* open, and the session waits for it before it closes the rest.           *)
ThreadsEnd == []<>~ServingAt("sending") => (gone ~> Live = {})
=============================================================================
