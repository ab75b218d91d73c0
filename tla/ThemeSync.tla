----------------------------- MODULE ThemeSync -----------------------------
(***************************************************************************)
(* How a change of the shared theme reaches the clients of one host        *)
(* process: the broker of src/src/bus.rs, the sub, unsub and theme         *)
(* requests of src/src/session.rs and the file watcher of                  *)
(* src/src/theme_watch.rs.  The file is also written by other processes.   *)
(* A value of a topic is the number of the change that wrote it, so that   *)
(* each change can be told from others.                                    *)
(*                                                                         *)
(* A client is a connection: its thread handles one request at a time, and *)
(* a request is cut where it takes a lock, reads the file or sends.        *)
(***************************************************************************)
EXTENDS Naturals

CONSTANTS
  Client,     \* connections of this process
  Topic,      \* theme topics, a subset of {"scheme", "ui", "palette", "schemes"}
  MaxChanges  \* bound of the model: writes of the file

ASSUME ThemeSyncAssumption ==
  Topic \subseteq {"scheme", "ui", "palette", "schemes"} /\ MaxChanges \in Nat

VARIABLES
  file,     \* what global.toml holds for each topic
  noted,    \* last() of theme_watch.rs
  watch,    \* the watcher thread
  subs,     \* the broker: the topics of each registered client
  conn,     \* the request each client's thread is in
  told,     \* what a subscriber has been told of each topic, as to what is in the file
  changes,  \* writes so far
  early     \* history: clients that found the watcher started but not seeded

syncVars == <<file, noted, watch, subs, conn, told, changes, early>>

NoRequest == [pc |-> "idle"]
ConnAt(c, pc) == conn[c].pc = pc
Idle(c) == ConnAt(c, "idle")
StartsWatcher == {"ui", "scheme", "palette"}
(* It was not told what the file holds; it was, and something older since; *)
(* or that is what it was told last.                                       *)
Heard == {"behind", "overtaken", "current"}

-----------------------------------------------------------------------------
ThemeSyncInit ==
  /\ file = [t \in Topic |-> 0] /\ noted = [t \in Topic |-> 0]
  /\ watch = [pc |-> "off"]
  /\ subs = [c \in Client |-> {}] /\ conn = [c \in Client |-> NoRequest]
  /\ told = [c \in Client |-> [t \in Topic |-> "behind"]]
  /\ changes = 0 /\ early = {}

(* A frame, not counted when its client is no longer subscribed.           *)
Receive(c, t, v) == told' = IF t \notin subs[c] THEN told ELSE
  [told EXCEPT ![c][t] = IF v = file[t] THEN "current"
                         ELSE IF @ = "current" THEN "overtaken" ELSE @]

(* A change of the file, which nobody has been told of.                    *)
Store(t) ==
  /\ changes < MaxChanges /\ changes' = changes + 1
  /\ file' = [file EXCEPT ![t] = changes + 1]
  /\ told' = [c \in Client |-> [told[c] EXCEPT ![t] = "behind"]]

(* sub: registered with the broker before anything is read or sent.  (One  *)
(* repeated gives the client another snapshot and is left out.)  An unsub  *)
(* or a lost connection starts the history of the topic anew.              *)
Sub(c, t) ==
  /\ Idle(c) /\ t \notin subs[c]
  /\ subs' = [subs EXCEPT ![c] = @ \cup {t}]
  /\ conn' = [conn EXCEPT ![c] = [pc |-> "watch", topic |-> t]]
  /\ UNCHANGED <<file, noted, watch, told, changes, early>>

(* ensure_started: the first caller marks the watcher started and then     *)
(* seeds last(); whoever comes in between does not wait for the seed.      *)
EnsureStarted(c) ==
  LET first == conn[c].topic \in StartsWatcher /\ watch.pc = "off" IN
  /\ ConnAt(c, "watch")
  /\ watch' = IF first THEN [pc |-> "seeding"] ELSE watch
  /\ conn' = [conn EXCEPT ![c].pc = IF first THEN "seed" ELSE "read"]
  /\ early' = IF watch.pc = "seeding" THEN early \cup {c} ELSE early
  /\ UNCHANGED <<file, noted, subs, told, changes>>

Seed(c) ==
  /\ ConnAt(c, "seed")
  /\ noted' = file /\ watch' = [pc |-> "sleep"]
  /\ conn' = [conn EXCEPT ![c].pc = "read"]
  /\ UNCHANGED <<file, subs, told, changes, early>>

(* The snapshot: the current value is read, then sent to this client. *)
ReadSnapshot(c) ==
  /\ ConnAt(c, "read")
  /\ conn' = [conn EXCEPT ![c] = [pc |-> "snapshot", topic |-> @.topic, value |-> file[@.topic]]]
  /\ UNCHANGED <<file, noted, watch, subs, told, changes, early>>

SendSnapshot(c) ==
  /\ ConnAt(c, "snapshot")
  /\ Receive(c, conn[c].topic, conn[c].value)
  /\ conn' = [conn EXCEPT ![c] = NoRequest]
  /\ UNCHANGED <<file, noted, watch, subs, changes, early>>

Unsub(c, t) ==
  /\ Idle(c) /\ t \in subs[c]
  /\ subs' = [subs EXCEPT ![c] = @ \ {t}]
  /\ told' = [told EXCEPT ![c][t] = "behind"] /\ early' = early \ {c}
  /\ UNCHANGED <<file, noted, watch, conn, changes>>

(* The connection closes: Session::drop unregisters it, and who has still  *)
(* a frame to send it fails to.                                            *)
LeftOut(c, x) == IF x.pc = "send" THEN [x EXCEPT !.to = @ \ {c}] ELSE x

ClientLeaves(c) ==
  /\ Idle(c) /\ subs[c] # {}
  /\ subs' = [subs EXCEPT ![c] = {}]
  /\ told' = [told EXCEPT ![c] = [t \in Topic |-> "behind"]] /\ early' = early \ {c}
  /\ conn' = [d \in Client |-> LeftOut(c, conn[d])] /\ watch' = LeftOut(c, watch)
  /\ UNCHANGED <<file, noted, changes>>

(* bus::publish collects the subscribers under the lock, and then sends to *)
(* one after the other outside it.                                         *)
Subscribers(t) == {d \in Client : t \in subs[d]}

(* theme_write, per field: stored, then noted, then published. *)
WriteTheme(c, t) ==
  /\ Idle(c) /\ Store(t)
  /\ conn' = [conn EXCEPT ![c] = [pc |-> "note", topic |-> t, value |-> file'[t]]]
  /\ UNCHANGED <<noted, watch, subs, early>>

(* Mutant: the value noted is read back from the file. *)
NotedFile(c) == file[conn[c].topic]
NotedOwn(c) == conn[c].value

Note(c) ==
  /\ ConnAt(c, "note")
  /\ noted' = [noted EXCEPT ![conn[c].topic] = NotedOwn(c)]
  /\ conn' = [conn EXCEPT ![c].pc = "publish"]
  /\ UNCHANGED <<file, watch, subs, told, changes, early>>

PublishTheme(c) ==
  /\ ConnAt(c, "publish")
  /\ conn' = [conn EXCEPT ![c] = [pc |-> "send", topic |-> @.topic, value |-> @.value,
                                   to |-> Subscribers(@.topic)]]
  /\ UNCHANGED <<file, noted, watch, subs, told, changes, early>>

SendPublished(c) ==
  /\ ConnAt(c, "send")
  /\ IF conn[c].to = {} THEN conn' = [conn EXCEPT ![c] = NoRequest] /\ UNCHANGED told
     ELSE \E d \in conn[c].to :
       /\ Receive(d, conn[c].topic, conn[c].value)
       /\ conn' = [conn EXCEPT ![c].to = @ \ {d}]
  /\ UNCHANGED <<file, noted, watch, subs, changes, early>>

(* Another host process writes the file. *)
OtherProcessWrites(t) == Store(t) /\ UNCHANGED <<noted, watch, subs, conn, early>>

(* The watcher wakes up and reads each topic; then, under the lock of      *)
(* last(), it decides what changed and takes note of it; then it publishes.*)
WatchRead ==
  /\ watch.pc = "sleep"
  /\ watch' = [pc |-> "compare", value |-> file]
  /\ UNCHANGED <<file, noted, subs, conn, told, changes, early>>

WatchCompare ==
  /\ watch.pc = "compare"
  /\ noted' = watch.value
  /\ watch' = [pc |-> "publish", value |-> watch.value,
               topics |-> {t \in Topic : watch.value[t] # noted[t]}]
  /\ UNCHANGED <<file, subs, conn, told, changes, early>>

WatchPublish ==
  /\ watch.pc = "publish"
  /\ IF watch.topics = {} THEN watch' = [pc |-> "sleep"]
     ELSE \E t \in watch.topics :
       watch' = [pc |-> "send", value |-> watch.value, topics |-> watch.topics \ {t},
                 topic |-> t, to |-> Subscribers(t)]
  /\ UNCHANGED <<file, noted, subs, conn, told, changes, early>>

WatchSend ==
  /\ watch.pc = "send"
  /\ IF watch.to = {}
     THEN /\ watch' = [pc |-> "publish", value |-> watch.value, topics |-> watch.topics]
          /\ UNCHANGED told
     ELSE \E d \in watch.to :
       /\ Receive(d, watch.topic, watch.value[watch.topic])
       /\ watch' = [watch EXCEPT !.to = @ \ {d}]
  /\ UNCHANGED <<file, noted, subs, conn, changes, early>>

ServeRequest(c) ==
  \/ EnsureStarted(c) \/ Seed(c) \/ ReadSnapshot(c) \/ SendSnapshot(c)
  \/ Note(c) \/ PublishTheme(c) \/ SendPublished(c)

WatcherTick == WatchRead \/ WatchCompare \/ WatchPublish \/ WatchSend

ThemeSyncNext ==
  \/ \E c \in Client : ServeRequest(c) \/ ClientLeaves(c)
  \/ \E c \in Client, t \in Topic : Sub(c, t) \/ Unsub(c, t) \/ WriteTheme(c, t)
  \/ \E t \in Topic : OtherProcessWrites(t)
  \/ WatcherTick

(* A thread that has a step to take takes it: connection threads finish    *)
(* their requests and the watcher's sleep ends.  No client must act.       *)
ThemeSyncFairness ==
  /\ \A c \in Client : WF_syncVars(ServeRequest(c))
  /\ WF_syncVars(WatcherTick)

ThemeSyncSpec == ThemeSyncInit /\ [][ThemeSyncNext]_syncVars /\ ThemeSyncFairness

-----------------------------------------------------------------------------
ThemeSyncTypeOK ==
  /\ file \in [Topic -> 0 .. MaxChanges] /\ noted \in [Topic -> 0 .. MaxChanges]
  /\ watch.pc \in {"off", "seeding", "sleep", "compare", "publish", "send"}
  /\ subs \in [Client -> SUBSET Topic]
  /\ told \in [Client -> [Topic -> Heard]]

(* theme_watch.rs:3-13: a change that lasts, whoever made it, is delivered *)
(* to every client that stays subscribed to a topic the watcher follows,   *)
(* unless it subscribed in the moment the watcher was being seeded.  The   *)
(* echo suppression must never swallow a change of another process that    *)
(* falls between a local write and its note.  This is not to say that no   *)
(* older value arrives after it: see LastIsCurrent.                        *)
LastingChangeArrives == \A c \in Client, t \in Topic \cap StartsWatcher :
  []<>(t \in subs[c] => told[c][t] # "behind" \/ c \in early)

(* session.rs:549-553: the snapshot is there so that any client "converges *)
(* to the persisted scheme + light/fx the instant it connects": what it    *)
(* was told last does not stay behind what is stored.                      *)
LastIsCurrent == \A c \in Client, t \in Topic \cap StartsWatcher :
  []<>(t \in subs[c] => told[c][t] = "current" \/ c \in early)
=============================================================================
