--------------------------- MODULE PageRendezvous ---------------------------
(***************************************************************************)
(* How a host thread reads the live page, src/src/page.rs: it files a      *)
(* query under a fresh id, publishes it to the browser, and sleeps on a    *)
(* condition variable until the answer is filed or its deadline passes.    *)
(* The answer arrives as a page_reply frame on a connection whose frames   *)
(* one reader thread handles in order, the same connection that may carry  *)
(* the page_get that started the query.                                    *)
(*                                                                         *)
(* Asks are numbered and each has a thread of its own: the thread          *)
(* spawn_page_reply starts, or that of the endpoint client who asked.      *)
(*                                                                         *)
(* The browser is the environment: it may be attached on some connections  *)
(* or on none, answer on each, late or never, and go away at any time.  An *)
(* answer is the number of the ask it is for and the port it came by, so   *)
(* that it can be told from others and traced to its question.             *)
(***************************************************************************)
EXTENDS Naturals, Sequences, FiniteSets

CONSTANTS
  Port,    \* connections the browser may attach on
  MaxAsks  \* bound of the model: asks over the run

ASSUME RendezvousAssumption == MaxAsks \in Nat

VARIABLES
  pending,   \* the map of page.rs: query id -> answer, or NoAnswer
  nextQid,   \* the id last drawn
  thread,    \* where each ask is
  attached,  \* ports with a subscription to page.query
  queries,   \* queries the browser holds
  inbox,     \* frames each port's reader has yet to handle, in order
  asked,     \* asks so far
  accepted   \* history: what fulfil reported as delivered

rvars == <<pending, nextQid, thread, attached, queries, inbox, asked, accepted>>

Ask == 1 .. MaxAsks
NoAnswer == [ask |-> 0]
At(n, pc) == thread[n].pc = pc
Waiting == {n \in Ask : thread[n].pc \in {"publish", "check", "asleep"}}

With(q, answer) == [x \in DOMAIN pending \cup {q} |-> IF x = q THEN answer ELSE pending[x]]
Without(q) == [x \in DOMAIN pending \ {q} |-> pending[x]]

-----------------------------------------------------------------------------
RendezvousInit ==
  /\ pending = [q \in {} |-> NoAnswer] /\ nextQid = 0
  /\ thread = [n \in Ask |-> [pc |-> "none"]]
  /\ attached = {} /\ queries = {}
  /\ inbox = [p \in Port |-> <<>>]
  /\ asked = 0 /\ accepted = {}

(* Mutant: an id is free again when its query is over. *)
FreedQid == CHOOSE q \in 1 .. MaxAsks :
  q \notin DOMAIN pending /\ \A r \in 1 .. (q - 1) : r \in DOMAIN pending

(* next_qid: a counter of the process. *)
FreshQid == nextQid + 1

(* ask, first part: draw an id and file an empty slot under it.  Nobody    *)
(* else knows the id before the slot is there.                             *)
StartAsk(n) ==
  /\ nextQid' = FreshQid
  /\ pending' = With(FreshQid, NoAnswer)
  /\ thread' = [thread EXCEPT ![n] = [pc |-> "publish", qid |-> FreshQid, late |-> FALSE]]

(* request, in the process the browser is attached to: a read that is      *)
(* well-formed and no witness is asked by the thread of the connection it  *)
(* came by, which waits.  One that is malformed is refused without a step. *)
ClientAsks ==
  /\ asked < MaxAsks
  /\ asked' = asked + 1
  /\ StartAsk(asked + 1)
  /\ UNCHANGED <<attached, queries, inbox, accepted>>

Return(n, answer) ==
  /\ pending' = Without(thread[n].qid)
  /\ thread' = [thread EXCEPT ![n] = [pc |-> "done", qid |-> thread[n].qid, answer |-> answer]]

Send(n) ==
  /\ queries' = queries \cup {[port |-> p, qid |-> thread[n].qid, ask |-> n] : p \in attached}
  /\ thread' = [thread EXCEPT ![n].pc = "check"]
  /\ UNCHANGED pending

(* Mutant: a query nobody received leaves its slot behind. *)
PublishLeaks(n) ==
  /\ At(n, "publish")
  /\ \/ /\ attached = {}
        /\ thread' = [thread EXCEPT ![n] =
             [pc |-> "done", qid |-> thread[n].qid, answer |-> NoAnswer]]
        /\ UNCHANGED <<queries, pending>>
     \/ attached # {} /\ Send(n)
  /\ UNCHANGED <<nextQid, attached, inbox, asked, accepted>>

(* ask publishes.  With nobody subscribed the slot goes and the ask fails. *)
Publish(n) ==
  /\ At(n, "publish")
  /\ \/ attached = {} /\ Return(n, NoAnswer) /\ UNCHANGED queries
     \/ attached # {} /\ Send(n)
  /\ UNCHANGED <<nextQid, attached, inbox, asked, accepted>>

Sleep(n) == thread' = [thread EXCEPT ![n].pc = "asleep"] /\ UNCHANGED pending

(* Mutant: the deadline is looked at before the slot. *)
CheckDeadlineFirst(n) ==
  /\ At(n, "check")
  /\ LET answer == pending[thread[n].qid]
     IN \/ thread[n].late /\ Return(n, NoAnswer)
        \/ ~ thread[n].late /\ answer # NoAnswer /\ Return(n, answer)
        \/ ~ thread[n].late /\ answer = NoAnswer /\ Sleep(n)
  /\ UNCHANGED <<nextQid, attached, queries, inbox, asked, accepted>>

(* One turn of the wait loop, under the lock: an answer wins over the      *)
(* deadline, and the wait that releases the lock is part of the turn.      *)
Check(n) ==
  /\ At(n, "check")
  /\ LET answer == pending[thread[n].qid]
     IN \/ answer # NoAnswer /\ Return(n, answer)
        \/ answer = NoAnswer /\ thread[n].late /\ Return(n, NoAnswer)
        \/ answer = NoAnswer /\ ~ thread[n].late /\ Sleep(n)
  /\ UNCHANGED <<nextQid, attached, queries, inbox, asked, accepted>>

(* Mutant: the wait has no timeout. *)
DeadlineUnheard(n) ==
  /\ At(n, "check") /\ ~ thread[n].late
  /\ thread' = [thread EXCEPT ![n].late = TRUE]
  /\ UNCHANGED <<pending, nextQid, attached, queries, inbox, asked, accepted>>

(* The deadline passes; wait_timeout wakes a thread that sleeps. *)
Deadline(n) ==
  /\ thread[n].pc \in {"check", "asleep"} /\ ~ thread[n].late
  /\ thread' = [thread EXCEPT ![n].late = TRUE, ![n].pc = "check"]
  /\ UNCHANGED <<pending, nextQid, attached, queries, inbox, asked, accepted>>

-----------------------------------------------------------------------------
Woken(N) == [n \in Ask |->
  IF n \in N /\ At(n, "asleep") THEN [thread[n] EXCEPT !.pc = "check"] ELSE thread[n]]

Unanswered(qid) == qid \in DOMAIN pending /\ pending[qid] = NoAnswer

Deliver(qid, answer) ==
  /\ pending' = With(qid, answer)
  /\ accepted' = accepted \cup {[qid |-> qid, answer |-> answer]}

(* Mutant: notify_one, which may wake another ask. *)
FulfilNotifyOne(qid, answer) ==
  \/ /\ Unanswered(qid)
     /\ Deliver(qid, answer)
     /\ \E n \in Ask : (At(n, "asleep") \/ \A m \in Ask : ~ At(m, "asleep")) /\ thread' = Woken({n})
  \/ /\ ~ Unanswered(qid)
     /\ UNCHANGED <<pending, accepted, thread>>

(* fulfil: file the answer if its slot exists and is empty, and wake all;  *)
(* report a duplicate, late or fabricated one as not delivered.            *)
Fulfil(qid, answer) ==
  \/ /\ Unanswered(qid)
     /\ Deliver(qid, answer)
     /\ thread' = Woken(Ask)
  \/ /\ ~ Unanswered(qid)
     /\ UNCHANGED <<pending, accepted, thread>>

(* The next frame of port p is a cmd; its reader takes it. *)
Handles(p, cmd) ==
  /\ inbox[p] # <<>> /\ Head(inbox[p]).cmd = cmd
  /\ inbox' = [inbox EXCEPT ![p] = Tail(@)]

(* Mutant: asks run on the reader's thread, which reads nothing meanwhile. *)
ReadReplyAfterAsks(p) ==
  /\ Waiting = {}
  /\ Handles(p, "page_reply")
  /\ Fulfil(Head(inbox[p]).qid, Head(inbox[p]).answer)
  /\ UNCHANGED <<nextQid, attached, queries, asked>>

(* The reader meets a page_reply and handles it itself. *)
ReadReply(p) ==
  /\ Handles(p, "page_reply")
  /\ Fulfil(Head(inbox[p]).qid, Head(inbox[p]).answer)
  /\ UNCHANGED <<nextQid, attached, queries, asked>>

(* The reader meets a page_get, starts a thread for the ask and reads on. *)
ReadGet(p) ==
  /\ Handles(p, "page_get")
  /\ StartAsk(Head(inbox[p]).ask)
  /\ UNCHANGED <<attached, queries, asked, accepted>>

-----------------------------------------------------------------------------
(* The browser attaches, or its port closes with all that is under way. *)
Attach(p) ==
  /\ p \notin attached
  /\ attached' = attached \cup {p}
  /\ UNCHANGED <<pending, nextQid, thread, queries, inbox, asked, accepted>>

Detach(p) ==
  /\ p \in attached
  /\ attached' = attached \ {p}
  /\ queries' = {q \in queries : q.port # p}
  /\ inbox' = [inbox EXCEPT ![p] = <<>>]
  /\ UNCHANGED <<pending, nextQid, thread, asked, accepted>>

(* The HUD asks for a page state on its own port. *)
HudAsks(p) ==
  /\ p \in attached /\ asked < MaxAsks
  /\ asked' = asked + 1
  /\ inbox' = [inbox EXCEPT ![p] = Append(@, [cmd |-> "page_get", ask |-> asked + 1])]
  /\ UNCHANGED <<pending, nextQid, thread, attached, queries, accepted>>

Answer(p) ==
  \E q \in queries :
    /\ q.port = p
    /\ queries' = queries \ {q}
    /\ inbox' = [inbox EXCEPT ![p] =
         Append(@, [cmd |-> "page_reply", qid |-> q.qid, answer |-> [ask |-> q.ask, port |-> p]])]
    /\ UNCHANGED <<pending, nextQid, thread, attached, asked, accepted>>

-----------------------------------------------------------------------------
Asking(n) == Publish(n) \/ Check(n)
Reading(p) == ReadReply(p) \/ ReadGet(p)

RendezvousNext ==
  \/ ClientAsks
  \/ \E n \in Ask : Asking(n) \/ Deadline(n)
  \/ \E p \in Port : Reading(p) \/ Attach(p) \/ Detach(p) \/ HudAsks(p) \/ Answer(p)

(* Threads run; the browser and the clock owe nothing. *)
RendezvousFairness ==
  /\ \A n \in Ask : WF_rvars(Asking(n))
  /\ \A p \in Port : WF_rvars(Reading(p))

RendezvousSpec == RendezvousInit /\ [][RendezvousNext]_rvars /\ RendezvousFairness

-----------------------------------------------------------------------------
(* Slots are exactly those of asks under way: an ask that ended, however   *)
(* it ended, leaves nothing in the map, and none loses its slot.           *)
RendezvousTypeOK ==
  /\ DOMAIN pending = {thread[n].qid : n \in Waiting}
  /\ \A q \in DOMAIN pending : pending[q] = NoAnswer \/ pending[q] \in [ask : Ask, port : Port]
  /\ \A m, n \in Waiting : thread[m].qid = thread[n].qid => m = n
  /\ nextQid \in 0 .. asked /\ attached \subseteq Port

(* An ask returns the answer to its own question, never a late answer to   *)
(* an ask given up before (page.rs next_qid: "never reused").              *)
AnswerIsOwn ==
  \A n \in Ask : At(n, "done") /\ thread[n].answer # NoAnswer => thread[n].answer.ask = n

(* What fulfil reported as delivered is what the ask returns: the race of  *)
(* answer, duplicate and deadline has one outcome, the same on both sides. *)
AcceptedIsReturned ==
  \A x \in accepted, n \in Ask :
    At(n, "done") /\ thread[n].qid = x.qid => thread[n].answer = x.answer

(* No ask sleeps on while its answer lies in the map. *)
NoLostWakeup == \A n \in Ask : At(n, "asleep") => pending[thread[n].qid] = NoAnswer

(* Every ask ends, if only by its deadline, whatever the browser does. *)
EndsByDeadline ==
  (\A n \in Ask : WF_rvars(Deadline(n))) => \A n \in Ask : (n \in Waiting) ~> At(n, "done")

(* A browser that answers is heard without any deadline's help: the ask    *)
(* does not occupy the reader its answer comes through (session.rs).       *)
EndsByAnswer ==
  (\A p \in Port : WF_rvars(Answer(p))) =>
    \A n \in Ask, p \in Port :
      (\E q \in queries : q.port = p /\ q.ask = n) ~> (At(n, "done") \/ p \notin attached)
-----------------------------------------------------------------------------
(* The inductive invariant behind PageRendezvous_proofs.                   *)
Started == {n \in Ask : ~ At(n, "none")}
Published(n, qid) == n \in Started /\ ~ At(n, "publish") /\ thread[n].qid = qid

Answers == [ask : Ask, port : Port]
Frames ==
  [cmd : {"page_get"}, ask : Ask] \cup [cmd : {"page_reply"}, qid : Nat, answer : Answers]

RendezvousTypes ==
  /\ thread \in [Ask ->
       [pc : {"none"}]
       \cup [pc : {"publish", "check", "asleep"}, qid : Nat, late : BOOLEAN]
       \cup [pc : {"done"}, qid : Nat, answer : Answers \cup {NoAnswer}]]
  /\ queries \subseteq [port : Port, qid : Nat, ask : Ask]
  /\ inbox \in [Port -> Seq(Frames)]
  /\ asked \in 0 .. MaxAsks /\ attached \subseteq Port
  /\ accepted \subseteq [qid : Nat, answer : Answers]

(* Every ask that started drew an id of its own, and no other drew one. *)
FreshIds ==
  /\ Started \subseteq 1 .. asked
  /\ nextQid = Cardinality(Started)
  /\ \A n \in Started : thread[n].qid <= nextQid
  /\ \A m, n \in Started : thread[m].qid = thread[n].qid => m = n

(* What waits in an inbox: page_gets of asks that have yet to start, each  *)
(* once, and answers for asks that have published the id they drew.        *)
Gets(p) == {i \in DOMAIN inbox[p] : inbox[p][i].cmd = "page_get"}
Replies(p) == {i \in DOMAIN inbox[p] : inbox[p][i].cmd = "page_reply"}

Addressed ==
  /\ \A q \in queries : Published(q.ask, q.qid)
  /\ \A p \in Port : \A i \in Replies(p) : Published(inbox[p][i].answer.ask, inbox[p][i].qid)
  /\ \A p \in Port : \A i \in Gets(p) : inbox[p][i].ask \in (1 .. asked) \ Started
  /\ \A p, r \in Port : \A i \in Gets(p), j \in Gets(r) :
       inbox[p][i].ask = inbox[r][j].ask => p = r /\ i = j

(* The slots are those of the waiting asks, and hold answers to them; none *)
(* can be there before the query is published.                             *)
Slots ==
  /\ DOMAIN pending = {thread[n].qid : n \in Waiting}
  /\ \A n \in Waiting :
       LET answer == pending[thread[n].qid]
       IN answer = NoAnswer \/ (answer \in Answers /\ answer.ask = n /\ ~ At(n, "publish"))

(* What fulfil accepted is in its slot until its ask returns it. *)
Delivered ==
  \A x \in accepted :
    /\ Published(x.answer.ask, x.qid)
    /\ x.answer.ask \in Waiting => pending[x.qid] = x.answer
    /\ At(x.answer.ask, "done") => thread[x.answer.ask].answer = x.answer

RendezvousInv ==
  /\ RendezvousTypes
  /\ FreshIds
  /\ Addressed
  /\ Slots
  /\ Delivered
  /\ AnswerIsOwn
  /\ NoLostWakeup
=============================================================================
