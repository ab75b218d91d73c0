------------------------ MODULE PageRendezvous_proofs ------------------------
(***************************************************************************)
(* Proofs about page reads for every set of ports and every number of      *)
(* asks: an ask returns its own answer or none, the answer fulfil accepted *)
(* is the one returned, and no ask sleeps over an answer.                  *)
(***************************************************************************)
EXTENDS PageRendezvous, FiniteSetTheorems, TLAPS

(* An answer names its ask, and no ask is numbered 0. *)
LEMMA NoAnswerIsNone == NoAnswer \notin Answers
BY RendezvousAssumption DEF NoAnswer, Answers, Ask

LEMMA StartedFinite ==
  ASSUME RendezvousTypes, FreshIds
  PROVE  /\ IsFiniteSet(Started) /\ nextQid \in Nat /\ nextQid <= asked
<1>1. asked \in Nat /\ IsFiniteSet(1 .. asked) /\ Cardinality(1 .. asked) = asked
  BY RendezvousAssumption, FS_Interval DEF RendezvousTypes
<1>2. Started \subseteq 1 .. asked /\ nextQid = Cardinality(Started)
  BY DEF FreshIds
<1>3. IsFiniteSet(Started) /\ Cardinality(Started) <= asked
  BY <1>1, <1>2, FS_Subset
<1>4. Cardinality(Started) \in Nat
  BY <1>3, FS_CardinalityType
<1>. QED  BY <1>2, <1>3, <1>4

(* What the reader's next frame is, and what its inbox is without it. *)
LEMMA TakesFirst ==
  ASSUME RendezvousTypes, NEW p \in Port, NEW cmd, Handles(p, cmd)
  PROVE  /\ 1 \in DOMAIN inbox[p]
         /\ Head(inbox[p]) = inbox[p][1] /\ inbox[p][1].cmd = cmd
         /\ inbox' \in [Port -> Seq(Frames)]
         /\ \A r \in Port : \A i \in DOMAIN inbox'[r] :
              IF r = p THEN /\ i \in Nat /\ i + 1 \in DOMAIN inbox[p] /\ i + 1 # 1
                            /\ inbox'[r][i] = inbox[p][i + 1]
                       ELSE i \in DOMAIN inbox[r] /\ inbox'[r] = inbox[r]
<1>1. inbox[p] \in Seq(Frames) /\ inbox[p] # <<>>
  BY DEF RendezvousTypes, Handles
<1>2. 1 \in DOMAIN inbox[p] /\ Head(inbox[p]) = inbox[p][1] /\ inbox[p][1].cmd = cmd
  BY <1>1 DEF Handles
<1>3. /\ Tail(inbox[p]) \in Seq(Frames)
      /\ \A i \in DOMAIN Tail(inbox[p]) :
           i \in Nat /\ i + 1 \in DOMAIN inbox[p] /\ i + 1 # 1 /\ Tail(inbox[p])[i] = inbox[p][i + 1]
  BY <1>1
<1>4. \A r \in Port : inbox'[r] = IF r = p THEN Tail(inbox[p]) ELSE inbox[r]
  BY DEF RendezvousTypes, Handles
<1>5. inbox' \in [Port -> Seq(Frames)]
  BY <1>3 DEF RendezvousTypes, Handles
<1>. QED  BY <1>2, <1>3, <1>4, <1>5

LEMMA AppendsLast ==
  ASSUME RendezvousTypes, NEW p \in Port, NEW f \in Frames,
         inbox' = [inbox EXCEPT ![p] = Append(@, f)]
  PROVE  /\ inbox' \in [Port -> Seq(Frames)]
         /\ \A r \in Port : \A i \in DOMAIN inbox'[r] :
              \/ i \in DOMAIN inbox[r] /\ inbox'[r][i] = inbox[r][i]
              \/ r = p /\ i = Len(inbox[p]) + 1 /\ inbox'[r][i] = f
<1>1. inbox[p] \in Seq(Frames)
  BY DEF RendezvousTypes
<1>2. /\ Append(inbox[p], f) \in Seq(Frames)
      /\ \A i \in DOMAIN Append(inbox[p], f) :
           \/ i \in DOMAIN inbox[p] /\ Append(inbox[p], f)[i] = inbox[p][i]
           \/ i = Len(inbox[p]) + 1 /\ Append(inbox[p], f)[i] = f
  BY <1>1
<1>. QED  BY <1>2 DEF RendezvousTypes

(* The answer in an inbox: what fulfil may be called with. *)
LEMMA ReplyTyped ==
  ASSUME RendezvousInv, NEW p \in Port, NEW i \in Replies(p)
  PROVE  /\ inbox[p][i].answer \in Answers
         /\ Published(inbox[p][i].answer.ask, inbox[p][i].qid)
<1>1. inbox[p] \in Seq(Frames) /\ i \in DOMAIN inbox[p] /\ inbox[p][i].cmd = "page_reply"
  BY DEF RendezvousInv, RendezvousTypes, Replies
<1>2. inbox[p][i] \in Frames
  BY <1>1
<1>. QED  BY <1>1, <1>2 DEF Frames, RendezvousInv, Addressed

LEMMA InitRendezvousInv == RendezvousInit => RendezvousInv
<1>. SUFFICES ASSUME RendezvousInit PROVE RendezvousInv
  OBVIOUS
<1>1. \A n \in Ask : At(n, "none")
  BY DEF RendezvousInit, At
<1>2. Started = {} /\ Waiting = {}
  BY <1>1 DEF Started, Waiting, At
<1>3. RendezvousTypes
  BY RendezvousAssumption DEF RendezvousTypes, RendezvousInit
<1>4. FreshIds
  BY <1>2, FS_EmptySet DEF FreshIds, RendezvousInit
<1>5. Addressed /\ Slots /\ Delivered
  BY <1>2 DEF Addressed, Slots, Delivered, RendezvousInit, Gets, Replies
<1>6. AnswerIsOwn /\ NoLostWakeup
  BY <1>1 DEF AnswerIsOwn, NoLostWakeup, At
<1>. QED  BY <1>3, <1>4, <1>5, <1>6 DEF RendezvousInv

(* An ask starts: it draws an id above all others, with an empty slot. *)
LEMMA StartAskInv ==
  ASSUME RendezvousInv, NEW n \in 1 .. asked', n \in Ask, At(n, "none"), StartAsk(n),
         asked' \in {asked, asked + 1}, asked' <= MaxAsks,
         inbox' \in [Port -> Seq(Frames)],
         UNCHANGED <<attached, queries, accepted>>
  PROVE  /\ RendezvousTypes' /\ FreshIds' /\ Slots' /\ Delivered'
         /\ AnswerIsOwn' /\ NoLostWakeup'
         /\ Started' = Started \cup {n}
         /\ \A m, q : Published(m, q) => Published(m, q)'
<1>. DEFINE r == [pc |-> "publish", qid |-> FreshQid, late |-> FALSE]
<1>0. nextQid \in Nat /\ nextQid <= asked /\ asked \in Nat /\ IsFiniteSet(Started)
  BY StartedFinite, RendezvousAssumption DEF RendezvousInv, RendezvousTypes
<1>1. /\ thread' = [thread EXCEPT ![n] = r]
      /\ \A m \in Ask : thread'[m] = IF m = n THEN r ELSE thread[m]
      /\ nextQid' = nextQid + 1 /\ FreshQid = nextQid + 1
  BY DEF StartAsk, FreshQid, RendezvousInv, RendezvousTypes
<1>2. /\ DOMAIN pending' = DOMAIN pending \cup {FreshQid}
      /\ \A q \in DOMAIN pending' : pending'[q] = IF q = FreshQid THEN NoAnswer ELSE pending[q]
  BY DEF StartAsk, With
<1>3. n \notin Started /\ Started' = Started \cup {n} /\ Waiting' = Waiting \cup {n} /\ Waiting \subseteq Started
  BY <1>1 DEF Started, Waiting, At
<1>4. \A m \in Started : thread'[m] = thread[m] /\ m # n /\ thread[m].qid <= nextQid
  BY <1>1, <1>3 DEF RendezvousInv, FreshIds, Started
<1>5. \A m, q : Published(m, q) => Published(m, q)' /\ thread'[m] = thread[m]
  BY <1>3, <1>4 DEF Published, At
<1>6. RendezvousTypes'
  <2>1. r \in [pc : {"publish", "check", "asleep"}, qid : Nat, late : BOOLEAN]
    BY <1>0, <1>1
  <2>. HIDE DEF r
  <2>. QED  BY <1>0, <1>1, <2>1, RendezvousAssumption DEF RendezvousInv, RendezvousTypes
<1>7. FreshIds'
  <2>1. Started' \subseteq 1 .. asked'
    BY <1>0, <1>3 DEF RendezvousInv, FreshIds
  <2>2. Cardinality(Started') = Cardinality(Started) + 1
    BY <1>0, <1>3, FS_AddElement
  <2>3. nextQid' = Cardinality(Started')
    BY <1>1, <2>2 DEF RendezvousInv, FreshIds
  <2>4. \A m \in Started : thread[m].qid \in Nat
    BY DEF RendezvousInv, RendezvousTypes, Started, At
  <2>5. thread'[n].qid = nextQid + 1
    BY <1>1
  <2>6. \A m \in Started' : thread'[m].qid <= nextQid'
    BY <1>0, <1>1, <1>3, <1>4, <2>4, <2>5
  <2>7. \A m \in Started : thread'[m].qid = thread[m].qid /\ thread'[m].qid # thread'[n].qid
    BY <1>0, <1>4, <2>4, <2>5
  <2>8. \A m, k \in Started : thread[m].qid = thread[k].qid => m = k
    BY DEF RendezvousInv, FreshIds
  <2>9. \A m, k \in Started' : thread'[m].qid = thread'[k].qid => m = k
    BY <1>3, <2>7, <2>8
  <2>. QED  BY <2>1, <2>3, <2>6, <2>9 DEF FreshIds
<1>8. \A m \in Started : thread[m].qid # FreshQid
  BY <1>0, <1>1, <1>4 DEF RendezvousInv, RendezvousTypes, Started, At
<1>9. Slots'
  <2>1. DOMAIN pending' = {thread'[m].qid : m \in Waiting'}
    BY <1>1, <1>2, <1>3, <1>4 DEF RendezvousInv, Slots
  <2>2. ASSUME NEW m \in Waiting'
        PROVE  LET answer == pending'[thread'[m].qid]
               IN answer = NoAnswer \/ (answer \in Answers /\ answer.ask = m /\ ~ At(m, "publish")')
    <3>1. CASE m = n
      BY <1>1, <1>2, <3>1
    <3>2. CASE m # n
      <4>1. m \in Waiting /\ thread'[m] = thread[m] /\ thread[m].qid # FreshQid
        BY <1>3, <1>4, <1>8, <3>2
      <4>2. thread[m].qid \in DOMAIN pending
        BY <4>1 DEF RendezvousInv, Slots
      <4>3. pending'[thread'[m].qid] = pending[thread[m].qid]
        BY <1>2, <4>1, <4>2
      <4>. QED  BY <4>1, <4>3 DEF RendezvousInv, Slots, At
    <3>. QED  BY <3>1, <3>2
  <2>. QED  BY <2>1, <2>2 DEF Slots
<1>10. Delivered'
  <2>. SUFFICES ASSUME NEW x \in accepted
                PROVE  /\ Published(x.answer.ask, x.qid)'
                       /\ x.answer.ask \in Waiting' => pending'[x.qid] = x.answer
                       /\ At(x.answer.ask, "done")' => thread'[x.answer.ask].answer = x.answer
    BY DEF Delivered
  <2>1. Published(x.answer.ask, x.qid) /\ x.answer.ask # n
    BY <1>3 DEF RendezvousInv, Delivered, Published
  <2>2. Published(x.answer.ask, x.qid)' /\ thread'[x.answer.ask] = thread[x.answer.ask]
    BY <2>1, <1>5
  <2>3. x.answer.ask \in Waiting' => x.answer.ask \in Waiting /\ x.qid \in DOMAIN pending /\ x.qid # FreshQid
    BY <1>3, <1>8, <2>1 DEF RendezvousInv, Slots, Published
  <2>. QED  BY <1>2, <2>1, <2>2, <2>3 DEF RendezvousInv, Delivered, At
<1>11. AnswerIsOwn'
  BY <1>1 DEF RendezvousInv, AnswerIsOwn, At
<1>12. NoLostWakeup'
  <2>. SUFFICES ASSUME NEW m \in Ask, At(m, "asleep")' PROVE pending'[thread'[m].qid] = NoAnswer
    BY DEF NoLostWakeup
  <2>1. m # n /\ m \in Waiting /\ thread'[m] = thread[m] /\ At(m, "asleep")
    BY <1>1 DEF At, Waiting
  <2>2. thread[m].qid \in DOMAIN pending /\ thread[m].qid # FreshQid
    BY <1>3, <1>8, <2>1 DEF RendezvousInv, Slots
  <2>. QED  BY <1>2, <2>1, <2>2 DEF RendezvousInv, NoLostWakeup
<1>. QED  BY <1>3, <1>5, <1>6, <1>7, <1>9, <1>10, <1>11, <1>12

(* A step that starts no ask and takes no id away leaves the ids in order. *)
LEMMA IdsKept ==
  ASSUME RendezvousInv, UNCHANGED nextQid, asked' \in {asked, asked + 1},
         \A m \in Ask :
           IF At(m, "none") THEN At(m, "none")'
           ELSE /\ ~ At(m, "none")' /\ thread'[m].qid = thread[m].qid
                /\ At(m, "publish")' => At(m, "publish")
  PROVE  /\ FreshIds' /\ Started' = Started
         /\ \A m, q : Published(m, q) => Published(m, q)'
<1>1. Started' = Started
  BY DEF Started
<1>2. \A m \in Started : thread'[m].qid = thread[m].qid
  BY DEF Started
<1>3. Started \subseteq 1 .. asked'
  BY RendezvousAssumption DEF RendezvousInv, RendezvousTypes, FreshIds
<1>4. FreshIds'
  BY <1>1, <1>2, <1>3 DEF RendezvousInv, FreshIds
<1>5. \A m, q : Published(m, q) => Published(m, q)'
  BY <1>1, <1>2 DEF Published, Started
<1>. QED  BY <1>1, <1>4, <1>5

(* What is addressed to published asks stays so, whoever takes some of it. *)
LEMMA AddressedKept ==
  ASSUME RendezvousInv, UNCHANGED <<inbox, asked>>, Started' = Started,
         \A m, q : Published(m, q) => Published(m, q)',
         \A q \in queries' : q \in queries \/ Published(q.ask, q.qid)'
  PROVE  Addressed'
BY DEF RendezvousInv, Addressed, Gets, Replies

(* An ask ends with what lies in its slot, which goes with it. *)
LEMMA ReturnInv ==
  ASSUME RendezvousInv, NEW n \in Waiting, Return(n, pending[thread[n].qid]),
         At(n, "publish") => pending[thread[n].qid] = NoAnswer,
         UNCHANGED <<nextQid, attached, queries, inbox, asked, accepted>>
  PROVE  RendezvousInv'
<1>. DEFINE q == thread[n].qid
            r == [pc |-> "done", qid |-> q, answer |-> pending[q]]
<1>1. /\ n \in Ask /\ n \in Started /\ thread[n].pc \in {"publish", "check", "asleep"}
      /\ thread[n].qid \in Nat
  BY DEF Waiting, Started, At, RendezvousInv, RendezvousTypes
<1>2. thread' = [thread EXCEPT ![n] = r]
      /\ \A m \in Ask : thread'[m] = IF m = n THEN r ELSE thread[m]
  BY <1>1 DEF Return, RendezvousInv, RendezvousTypes
<1>3. /\ DOMAIN pending' = DOMAIN pending \ {q}
      /\ \A x \in DOMAIN pending' : pending'[x] = pending[x]
  BY DEF Return, Without
<1>4. Waiting' = Waiting \ {n} /\ Waiting \subseteq Started
  BY <1>1, <1>2 DEF Waiting, Started, At
<1>5. \A m \in Waiting' : thread'[m] = thread[m] /\ thread[m].qid # q
  BY <1>1, <1>2, <1>4 DEF RendezvousInv, FreshIds, Waiting
<1>6. FreshIds' /\ Started' = Started /\ \A m, x : Published(m, x) => Published(m, x)'
  <2>1. \A m \in Ask :
          IF At(m, "none") THEN At(m, "none")'
          ELSE /\ ~ At(m, "none")' /\ thread'[m].qid = thread[m].qid
               /\ At(m, "publish")' => At(m, "publish")
    BY <1>1, <1>2 DEF At
  <2>. QED  BY <2>1, IdsKept
<1>7. pending[q] = NoAnswer \/ (pending[q] \in Answers /\ pending[q].ask = n)
  BY DEF RendezvousInv, Slots
<1>8. RendezvousTypes'
  <2>1. r \in [pc : {"done"}, qid : Nat, answer : Answers \cup {NoAnswer}]
    BY <1>1, <1>7
  <2>. HIDE DEF r
  <2>. QED  BY <1>2, <2>1 DEF RendezvousInv, RendezvousTypes
<1>9. Addressed'
  BY <1>6, AddressedKept
<1>10. Slots'
  <2>1. DOMAIN pending' = {thread'[m].qid : m \in Waiting'}
    BY <1>2, <1>3, <1>4, <1>5 DEF RendezvousInv, Slots
  <2>. QED  BY <1>3, <1>4, <1>5, <2>1 DEF RendezvousInv, Slots, At
<1>11. Delivered'
  <2>. SUFFICES ASSUME NEW x \in accepted
                PROVE  /\ Published(x.answer.ask, x.qid)'
                       /\ x.answer.ask \in Waiting' => pending'[x.qid] = x.answer
                       /\ At(x.answer.ask, "done")' => thread'[x.answer.ask].answer = x.answer
    BY DEF Delivered
  <2>1. Published(x.answer.ask, x.qid) /\ Published(x.answer.ask, x.qid)' /\ x.answer.ask \in Ask
    BY <1>6 DEF RendezvousInv, Delivered, Published, Started
  <2>2. CASE x.answer.ask = n
    BY <1>2, <1>4, <2>1, <2>2 DEF RendezvousInv, Delivered, Published
  <2>3. CASE x.answer.ask # n
    <3>1. thread'[x.answer.ask] = thread[x.answer.ask]
      BY <1>2, <2>1, <2>3
    <3>2. x.answer.ask \in Waiting' => x.answer.ask \in Waiting /\ pending'[x.qid] = pending[x.qid]
      <4>. SUFFICES ASSUME x.answer.ask \in Waiting'
                    PROVE  x.answer.ask \in Waiting /\ pending'[x.qid] = pending[x.qid]
        OBVIOUS
      <4>1. x.answer.ask \in Waiting /\ x.qid = thread[x.answer.ask].qid /\ x.qid # q
        BY <1>4, <1>5, <2>1 DEF Published
      <4>2. x.qid \in DOMAIN pending'
        BY <1>3, <4>1 DEF RendezvousInv, Slots
      <4>. QED  BY <1>3, <4>1, <4>2
    <3>. QED  BY <2>1, <3>1, <3>2 DEF RendezvousInv, Delivered, At
  <2>. QED  BY <2>2, <2>3
<1>12. AnswerIsOwn'
  BY <1>2, <1>7 DEF RendezvousInv, AnswerIsOwn, At
<1>13. NoLostWakeup'
  <2>. SUFFICES ASSUME NEW m \in Ask, At(m, "asleep")' PROVE pending'[thread'[m].qid] = NoAnswer
    BY DEF NoLostWakeup
  <2>1. m # n /\ m \in Waiting' /\ At(m, "asleep")
    BY <1>2 DEF At, Waiting
  <2>2. thread[m].qid \in DOMAIN pending'
    BY <1>3, <1>4, <1>5, <2>1 DEF RendezvousInv, Slots
  <2>. QED  BY <1>3, <1>5, <2>1, <2>2 DEF RendezvousInv, NoLostWakeup
<1>. QED  BY <1>6, <1>8, <1>9, <1>10, <1>11, <1>12, <1>13 DEF RendezvousInv

(* Waiting asks move on, keeping their ids and leaving the slots alone;    *)
(* those that go to sleep have found their slot empty.                     *)
LEMMA WaitersMove ==
  ASSUME RendezvousInv, UNCHANGED <<pending, nextQid, attached, inbox, asked, accepted>>,
         RendezvousTypes',
         \A m \in Ask :
           \/ thread'[m] = thread[m]
           \/ /\ m \in Waiting /\ thread'[m].qid = thread[m].qid
              /\ thread'[m].pc \in {"check", "asleep"}
              /\ thread'[m].pc = "asleep" => pending[thread[m].qid] = NoAnswer,
         \A q \in queries' : q \in queries \/ Published(q.ask, q.qid)'
  PROVE  RendezvousInv'
<1>1. FreshIds' /\ Started' = Started /\ \A m, x : Published(m, x) => Published(m, x)'
  <2>1. \A m \in Ask :
          IF At(m, "none") THEN At(m, "none")'
          ELSE /\ ~ At(m, "none")' /\ thread'[m].qid = thread[m].qid
               /\ At(m, "publish")' => At(m, "publish")
    BY DEF At, Waiting
  <2>. QED  BY <2>1, IdsKept
<1>2. Addressed'
  BY <1>1, AddressedKept
<1>3. Waiting' = Waiting /\ \A m \in Waiting : thread'[m].qid = thread[m].qid
  BY DEF Waiting
<1>4. \A m \in Ask : At(m, "publish")' => At(m, "publish")
  BY DEF At
<1>5. Slots'
  <2>1. DOMAIN pending' = {thread'[m].qid : m \in Waiting'}
    BY <1>3 DEF RendezvousInv, Slots
  <2>. QED  BY <1>3, <1>4, <2>1 DEF RendezvousInv, Slots, Waiting
<1>6. \A m \in Ask : At(m, "done")' => thread'[m] = thread[m]
  BY DEF At
<1>7. Delivered'
  <2>1. \A x \in accepted : x.answer.ask \in Ask
    BY DEF RendezvousInv, Delivered, Published, Started
  <2>. QED  BY <1>1, <1>3, <1>6, <2>1 DEF RendezvousInv, Delivered, At
<1>8. AnswerIsOwn'
  BY <1>6 DEF RendezvousInv, AnswerIsOwn, At
<1>9. NoLostWakeup'
  BY DEF RendezvousInv, NoLostWakeup, At
<1>. QED  BY <1>1, <1>2, <1>5, <1>7, <1>8, <1>9 DEF RendezvousInv

LEMMA PublishInv ==
  ASSUME RendezvousInv, NEW n \in Ask, Publish(n)
  PROVE  RendezvousInv'
<1>1. n \in Waiting /\ pending[thread[n].qid] = NoAnswer
  BY DEF Publish, At, Waiting, RendezvousInv, Slots
<1>2. CASE attached = {}
  BY <1>1, <1>2, ReturnInv DEF Publish, Send
<1>3. CASE attached # {}
  <2>. DEFINE r == [thread[n] EXCEPT !.pc = "check"]
              asks == {[port |-> p, qid |-> thread[n].qid, ask |-> n] : p \in attached}
  <2>1. /\ thread' = [thread EXCEPT ![n] = r] /\ queries' = queries \cup asks
        /\ UNCHANGED <<pending, nextQid, attached, inbox, asked, accepted>>
    BY <1>3 DEF Publish, Send
  <2>2. /\ thread[n].qid \in Nat /\ r.pc = "check" /\ r.qid = thread[n].qid
        /\ r \in [pc : {"publish", "check", "asleep"}, qid : Nat, late : BOOLEAN]
    BY DEF Publish, At, RendezvousInv, RendezvousTypes
  <2>3. asks \subseteq [port : Port, qid : Nat, ask : Ask]
    BY <2>2 DEF RendezvousInv, RendezvousTypes
  <2>. HIDE DEF r
  <2>4. \A m \in Ask : thread'[m] = IF m = n THEN r ELSE thread[m]
    BY <2>1 DEF RendezvousInv, RendezvousTypes
  <2>5. RendezvousTypes'
    BY <2>1, <2>2, <2>3 DEF RendezvousInv, RendezvousTypes
  <2>6. \A q \in asks : Published(q.ask, q.qid)'
    <3>1. \A q \in asks : q.ask = n /\ q.qid = thread'[n].qid
      BY <2>2, <2>4
    <3>2. n \in Started' /\ ~ At(n, "publish")'
      BY <2>2, <2>4 DEF Started, At
    <3>. QED  BY <3>1, <3>2 DEF Published
  <2>7. \A q \in queries' : q \in queries \/ Published(q.ask, q.qid)'
    BY <2>1, <2>6
  <2>8. \A m \in Ask :
          \/ thread'[m] = thread[m]
          \/ /\ m \in Waiting /\ thread'[m].qid = thread[m].qid
             /\ thread'[m].pc \in {"check", "asleep"}
             /\ thread'[m].pc = "asleep" => pending[thread[m].qid] = NoAnswer
    BY <1>1, <2>2, <2>4
  <2>. QED  BY <2>1, <2>5, <2>7, <2>8, WaitersMove
<1>. QED  BY <1>2, <1>3

LEMMA CheckInv ==
  ASSUME RendezvousInv, NEW n \in Ask, Check(n)
  PROVE  RendezvousInv'
<1>1. n \in Waiting /\ thread[n].pc = "check"
  BY DEF Check, At, Waiting
<1>2. CASE Return(n, pending[thread[n].qid])
  BY <1>1, <1>2, ReturnInv DEF Check, At
<1>3. CASE pending[thread[n].qid] = NoAnswer /\ Sleep(n)
  <2>. DEFINE r == [thread[n] EXCEPT !.pc = "asleep"]
  <2>1. /\ thread' = [thread EXCEPT ![n] = r]
        /\ UNCHANGED <<pending, nextQid, attached, queries, inbox, asked, accepted>>
    BY <1>3 DEF Check, Sleep
  <2>2. /\ r.pc = "asleep" /\ r.qid = thread[n].qid
        /\ r \in [pc : {"publish", "check", "asleep"}, qid : Nat, late : BOOLEAN]
    BY <1>1 DEF RendezvousInv, RendezvousTypes
  <2>. HIDE DEF r
  <2>3. \A m \in Ask : thread'[m] = IF m = n THEN r ELSE thread[m]
    BY <2>1 DEF RendezvousInv, RendezvousTypes
  <2>4. RendezvousTypes'
    BY <2>1, <2>2 DEF RendezvousInv, RendezvousTypes
  <2>. QED  BY <1>1, <1>3, <2>1, <2>2, <2>3, <2>4, WaitersMove
<1>. QED  BY <1>2, <1>3 DEF Check

LEMMA DeadlineInv ==
  ASSUME RendezvousInv, NEW n \in Ask, Deadline(n)
  PROVE  RendezvousInv'
<1>. DEFINE r == [thread[n] EXCEPT !.late = TRUE, !.pc = "check"]
<1>1. /\ thread[n].pc \in {"check", "asleep"} /\ n \in Waiting
      /\ UNCHANGED <<pending, nextQid, attached, queries, inbox, asked, accepted>>
  BY DEF Deadline, Waiting
<1>2. thread' = [thread EXCEPT ![n] = r]
  BY DEF Deadline, RendezvousInv, RendezvousTypes
<1>3. /\ r.pc = "check" /\ r.qid = thread[n].qid
      /\ r \in [pc : {"publish", "check", "asleep"}, qid : Nat, late : BOOLEAN]
  BY <1>1 DEF RendezvousInv, RendezvousTypes
<1>. HIDE DEF r
<1>4. \A m \in Ask : thread'[m] = IF m = n THEN r ELSE thread[m]
  BY <1>2 DEF RendezvousInv, RendezvousTypes
<1>5. RendezvousTypes'
  BY <1>1, <1>2, <1>3 DEF RendezvousInv, RendezvousTypes
<1>. QED  BY <1>1, <1>3, <1>4, <1>5, WaitersMove

(* Frames that leave an inbox from the front take nothing else with them.  *)
LEMMA AddressedShrinks ==
  ASSUME RendezvousInv, UNCHANGED asked, queries' \subseteq queries,
         \A m, q : Published(m, q) => Published(m, q)',
         NEW shift \in [Port -> Nat],
         \A r \in Port : \A i \in DOMAIN inbox'[r] :
           /\ i \in Nat /\ i + shift[r] \in DOMAIN inbox[r]
           /\ inbox'[r][i] = inbox[r][i + shift[r]],
         \A r \in Port : \A i \in Gets(r)' : inbox'[r][i].ask \notin Started' \ Started
  PROVE  Addressed'
<1>1. \A r \in Port : \A i \in Gets(r)' : i \in Nat /\ i + shift[r] \in Gets(r)
                                          /\ inbox'[r][i] = inbox[r][i + shift[r]]
  BY DEF Gets
<1>2. \A r \in Port : \A i \in Replies(r)' : i + shift[r] \in Replies(r)
                                             /\ inbox'[r][i] = inbox[r][i + shift[r]]
  BY DEF Replies
<1>3. \A q \in queries' : Published(q.ask, q.qid)'
  BY DEF RendezvousInv, Addressed
<1>4. \A r \in Port : \A i \in Replies(r)' : Published(inbox[r][i].answer.ask, inbox[r][i].qid)'
  BY <1>2 DEF RendezvousInv, Addressed
<1>5. \A r \in Port : \A i \in Gets(r)' : inbox'[r][i].ask \in (1 .. asked') \ Started'
  BY <1>1 DEF RendezvousInv, Addressed
<1>6. ASSUME NEW r \in Port, NEW s \in Port, NEW i \in Gets(r)', NEW j \in Gets(s)',
             inbox'[r][i].ask = inbox'[s][j].ask
      PROVE  r = s /\ i = j
  <2>1. r = s /\ i + shift[r] = j + shift[s]
    BY <1>1, <1>6 DEF RendezvousInv, Addressed
  <2>. QED  BY <1>1, <2>1
<1>. QED  BY <1>3, <1>4, <1>5, <1>6 DEF Addressed

(* An answer is filed once, in the empty slot of the ask it is for, which  *)
(* wakes; any other is refused and changes nothing.                        *)
LEMMA ReadReplyInv ==
  ASSUME RendezvousInv, NEW p \in Port, ReadReply(p)
  PROVE  RendezvousInv'
<1>f. PICK f : f = inbox[p][1]
  OBVIOUS
<1>n. PICK n : n = f.answer.ask
  OBVIOUS
<1>. DEFINE shift == [r \in Port |-> IF r = p THEN 1 ELSE 0]
<1>1. /\ 1 \in Replies(p) /\ Head(inbox[p]) = f /\ inbox' \in [Port -> Seq(Frames)]
      /\ \A r \in Port : \A i \in DOMAIN inbox'[r] :
           /\ i \in Nat /\ i + shift[r] \in DOMAIN inbox[r]
           /\ inbox'[r][i] = inbox[r][i + shift[r]]
  <2>1. inbox' \in [Port -> Seq(Frames)] /\ \A r \in Port : \A i \in DOMAIN inbox'[r] : i \in Nat
    BY TakesFirst DEF ReadReply, RendezvousInv
  <2>2. Handles(p, "page_reply") /\ RendezvousTypes
    BY DEF ReadReply, RendezvousInv
  <2>3. 1 \in Replies(p) /\ Head(inbox[p]) = f
    BY <1>f, <2>2, TakesFirst DEF Replies
  <2>4. ASSUME NEW r \in Port, NEW i \in DOMAIN inbox'[r]
        PROVE  i + shift[r] \in DOMAIN inbox[r] /\ inbox'[r][i] = inbox[r][i + shift[r]]
    BY <2>1, <2>2, TakesFirst
  <2>. QED  BY <2>1, <2>3, <2>4
<1>2. /\ f.answer \in Answers /\ f.answer # NoAnswer /\ f.answer.ask = n
      /\ Published(n, f.qid) /\ n \in Ask
  BY <1>f, <1>n, <1>1, ReplyTyped, NoAnswerIsNone DEF Published, Started
<1>3. f.qid \in Nat /\ f.qid = thread[n].qid
  BY <1>2 DEF Published, Started, At, RendezvousInv, RendezvousTypes
<1>4. UNCHANGED <<nextQid, attached, queries, asked>> /\ Fulfil(f.qid, f.answer)
  BY <1>1 DEF ReadReply
<1>5. shift \in [Port -> Nat]
  OBVIOUS
<1>. HIDE DEF shift
<1>6. Woken(Ask) = [m \in Ask |-> IF At(m, "asleep") THEN [thread[m] EXCEPT !.pc = "check"] ELSE thread[m]]
  BY DEF Woken
<1>7. /\ thread' \in {thread, Woken(Ask)}
      /\ RendezvousTypes'
  <2>1. thread' \in {thread, Woken(Ask)} /\ accepted' \subseteq [qid : Nat, answer : Answers]
    BY <1>2, <1>3, <1>4 DEF Fulfil, Deliver, RendezvousInv, RendezvousTypes
  <2>2. ASSUME NEW m \in Ask, At(m, "asleep")
        PROVE  [thread[m] EXCEPT !.pc = "check"]
                 \in [pc : {"publish", "check", "asleep"}, qid : Nat, late : BOOLEAN]
    BY <2>2 DEF At, RendezvousInv, RendezvousTypes
  <2>3. Woken(Ask) \in [Ask ->
       [pc : {"none"}]
       \cup [pc : {"publish", "check", "asleep"}, qid : Nat, late : BOOLEAN]
       \cup [pc : {"done"}, qid : Nat, answer : Answers \cup {NoAnswer}]]
    BY <1>6, <2>2 DEF RendezvousInv, RendezvousTypes
  <2>. QED  BY <1>1, <1>4, <2>1, <2>3 DEF RendezvousInv, RendezvousTypes
<1>8. \A m \in Ask :
        IF At(m, "asleep") /\ thread' # thread
        THEN thread'[m].pc = "check" /\ thread'[m].qid = thread[m].qid
        ELSE thread'[m] = thread[m]
  BY ZenonT(40), <1>6, <1>7 DEF At, RendezvousInv, RendezvousTypes
<1>9. FreshIds' /\ Started' = Started /\ \A m, x : Published(m, x) => Published(m, x)'
  <2>1. \A m \in Ask :
          IF At(m, "none") THEN At(m, "none")'
          ELSE /\ ~ At(m, "none")' /\ thread'[m].qid = thread[m].qid
               /\ At(m, "publish")' => At(m, "publish")
    BY <1>8 DEF At
  <2>. QED  BY <1>4, <2>1, IdsKept
<1>10. Addressed'
  BY <1>1, <1>4, <1>5, <1>9, AddressedShrinks
<1>11. Waiting' = Waiting /\ \A m \in Waiting : thread'[m].qid = thread[m].qid
  BY <1>8 DEF Waiting, At
<1>12. \A m \in Ask : /\ At(m, "done")' => At(m, "done") /\ thread'[m] = thread[m]
                      /\ At(m, "publish")' => At(m, "publish")
  BY <1>8 DEF At
<1>13. AnswerIsOwn'
  BY <1>12 DEF RendezvousInv, AnswerIsOwn
<1>14. CASE ~ Unanswered(f.qid)
  <2>1. UNCHANGED <<pending, accepted, thread>>
    BY <1>4, <1>14 DEF Fulfil
  <2>2. Slots' /\ NoLostWakeup'
    BY <2>1 DEF RendezvousInv, Slots, NoLostWakeup, Waiting, At
  <2>3. Delivered'
    BY <2>1, <1>9, <1>11, <1>12 DEF RendezvousInv, Delivered, At
  <2>. QED  BY <1>7, <1>9, <1>10, <1>13, <2>2, <2>3 DEF RendezvousInv
<1>15. CASE Unanswered(f.qid)
  <2>1. /\ accepted' = accepted \cup {[qid |-> f.qid, answer |-> f.answer]}
        /\ thread' = Woken(Ask) /\ f.qid \in DOMAIN pending /\ pending[f.qid] = NoAnswer
        /\ DOMAIN pending' = DOMAIN pending
        /\ \A x \in DOMAIN pending : pending'[x] = IF x = f.qid THEN f.answer ELSE pending[x]
    BY <1>4, <1>15 DEF Fulfil, Deliver, Unanswered, With
  <2>2. n \in Waiting
    <3>1. PICK m \in Waiting : thread[m].qid = f.qid
      BY <2>1 DEF RendezvousInv, Slots
    <3>2. m \in Started /\ n \in Started
      BY <1>2, <3>1 DEF Waiting, Started, At, Published
    <3>. QED  BY <1>3, <3>1, <3>2 DEF RendezvousInv, FreshIds
  <2>3. ~ At(n, "publish") /\ ~ At(n, "publish")'
    BY <1>2, <1>12 DEF Published
  <2>4. \A m \in Waiting : thread[m].qid = f.qid => m = n
    BY <1>3, <2>2 DEF RendezvousInv, FreshIds, Waiting, Started, At
  <2>5. Slots'
    <3>1. DOMAIN pending' = {thread'[m].qid : m \in Waiting'}
      BY <1>11, <2>1 DEF RendezvousInv, Slots
    <3>2. ASSUME NEW m \in Waiting
          PROVE  LET answer == pending'[thread[m].qid]
                 IN answer = NoAnswer
                    \/ (answer \in Answers /\ answer.ask = m /\ ~ At(m, "publish")')
      <4>1. thread[m].qid \in DOMAIN pending /\ m \in Ask
        BY DEF RendezvousInv, Slots, Waiting
      <4>2. CASE thread[m].qid = f.qid
        BY <1>2, <2>1, <2>3, <2>4, <4>1, <4>2
      <4>3. CASE thread[m].qid # f.qid
        BY <1>12, <2>1, <4>1, <4>3 DEF RendezvousInv, Slots
      <4>. QED  BY <4>2, <4>3
    <3>. QED  BY <1>11, <3>1, <3>2 DEF Slots
  <2>6. NoLostWakeup'
    BY <1>6, <2>1 DEF NoLostWakeup, At, RendezvousInv, RendezvousTypes
  <2>7. Delivered'
    <3>. SUFFICES ASSUME NEW x \in accepted'
                  PROVE  /\ Published(x.answer.ask, x.qid)'
                         /\ x.answer.ask \in Waiting' => pending'[x.qid] = x.answer
                         /\ At(x.answer.ask, "done")' => thread'[x.answer.ask].answer = x.answer
      BY DEF Delivered
    <3>1. CASE x \in accepted
      <4>1. Published(x.answer.ask, x.qid) /\ x.answer.ask \in Ask
        BY <3>1 DEF RendezvousInv, Delivered, Published, Started
      <4>2. x.answer.ask \in Waiting => pending[x.qid] = x.answer /\ x.qid \in DOMAIN pending
        BY <3>1, <4>1 DEF RendezvousInv, Delivered, Slots, Published
      <4>3. x.answer # NoAnswer
        BY <3>1, NoAnswerIsNone DEF RendezvousInv, RendezvousTypes
      <4>4. x.answer.ask \in Waiting' => pending'[x.qid] = x.answer
        BY <1>11, <2>1, <4>2, <4>3
      <4>. QED  BY <1>9, <1>12, <3>1, <4>1, <4>4 DEF RendezvousInv, Delivered
    <3>2. CASE x = [qid |-> f.qid, answer |-> f.answer]
      BY <1>2, <1>9, <1>11, <2>1, <2>2, <3>2 DEF Waiting, At
    <3>. QED  BY <2>1, <3>1, <3>2
  <2>. QED  BY <1>7, <1>9, <1>10, <1>13, <2>5, <2>6, <2>7 DEF RendezvousInv
<1>. QED  BY <1>14, <1>15

LEMMA ReadGetInv ==
  ASSUME RendezvousInv, NEW p \in Port, ReadGet(p)
  PROVE  RendezvousInv'
<1>n. PICK n : n = inbox[p][1].ask
  OBVIOUS
<1>. DEFINE shift == [r \in Port |-> IF r = p THEN 1 ELSE 0]
<1>1. Handles(p, "page_get") /\ RendezvousTypes
  BY DEF ReadGet, RendezvousInv
<1>2. 1 \in Gets(p) /\ Head(inbox[p]).ask = n /\ inbox' \in [Port -> Seq(Frames)]
  BY <1>n, <1>1, TakesFirst DEF Gets
<1>3. n \in 1 .. asked /\ n \notin Started /\ asked \in 0 .. MaxAsks
  BY <1>n, <1>2 DEF RendezvousInv, Addressed, RendezvousTypes
<1>4. n \in Ask /\ At(n, "none")
  BY <1>3, RendezvousAssumption DEF Ask, Started
<1>5. StartAsk(n) /\ UNCHANGED <<attached, queries, asked, accepted>>
  BY <1>2 DEF ReadGet
<1>6. /\ RendezvousTypes' /\ FreshIds' /\ Slots' /\ Delivered' /\ AnswerIsOwn' /\ NoLostWakeup'
      /\ Started' = Started \cup {n}
      /\ \A m, q : Published(m, q) => Published(m, q)'
  BY <1>2, <1>3, <1>4, <1>5, StartAskInv, RendezvousAssumption
<1>7. \A r \in Port : \A i \in DOMAIN inbox'[r] :
        /\ i \in Nat /\ i + shift[r] \in DOMAIN inbox[r]
        /\ inbox'[r][i] = inbox[r][i + shift[r]]
  <2>1. \A r \in Port : \A i \in DOMAIN inbox'[r] : i \in Nat
    BY <1>2
  <2>. QED  BY <1>1, <2>1, TakesFirst
<1>8. ASSUME NEW r \in Port, NEW i \in Gets(r)' PROVE inbox'[r][i].ask # n
  <2>1. i + shift[r] \in Gets(r) /\ inbox'[r][i] = inbox[r][i + shift[r]]
    BY <1>7, <1>8 DEF Gets
  <2>2. r = p => i + shift[r] # 1
    BY <1>7, <1>1, <1>8, TakesFirst DEF Gets
  <2>. QED  BY <1>n, <1>2, <2>1, <2>2 DEF RendezvousInv, Addressed
<1>9. shift \in [Port -> Nat]
  OBVIOUS
<1>. HIDE DEF shift
<1>10. Addressed'
  BY <1>5, <1>6, <1>7, <1>8, <1>9, AddressedShrinks
<1>. QED  BY <1>6, <1>10 DEF RendezvousInv

LEMMA ClientAsksInv ==
  ASSUME RendezvousInv, ClientAsks
  PROVE  RendezvousInv'
<1>n. PICK n : n = asked + 1
  OBVIOUS
<1>1. asked \in Nat /\ asked < MaxAsks /\ asked' = n
  BY <1>n, RendezvousAssumption DEF RendezvousInv, RendezvousTypes, ClientAsks
<1>2. n \in 1 .. asked' /\ n \in Ask /\ n \notin Started
  BY <1>n, <1>1, RendezvousAssumption DEF Ask, RendezvousInv, FreshIds
<1>3. At(n, "none") /\ StartAsk(n) /\ UNCHANGED <<attached, queries, inbox, accepted>>
  BY <1>n, <1>2 DEF Started, ClientAsks
<1>4. /\ RendezvousTypes' /\ FreshIds' /\ Slots' /\ Delivered' /\ AnswerIsOwn' /\ NoLostWakeup'
      /\ Started' = Started \cup {n}
      /\ \A m, q : Published(m, q) => Published(m, q)'
  BY <1>n, <1>1, <1>2, <1>3, StartAskInv, RendezvousAssumption DEF RendezvousInv, RendezvousTypes
<1>5. Addressed'
  BY <1>n, <1>1, <1>3, <1>4 DEF RendezvousInv, Addressed, Gets, Replies
<1>. QED  BY <1>4, <1>5 DEF RendezvousInv

(* What the browser does leaves threads, slots and ids alone. *)
LEMMA BrowserKeeps ==
  ASSUME RendezvousInv, UNCHANGED <<pending, nextQid, thread, accepted>>,
         asked' \in {asked, asked + 1}
  PROVE  /\ FreshIds' /\ Started' = Started /\ Slots' /\ Delivered'
         /\ AnswerIsOwn' /\ NoLostWakeup'
         /\ \A m, q : Published(m, q) => Published(m, q)'
<1>1. Started' = Started /\ Waiting' = Waiting /\ \A m, q : Published(m, q) => Published(m, q)'
  BY DEF Started, Waiting, At, Published
<1>2. FreshIds'
  BY IdsKept DEF At
<1>. QED
  BY <1>1, <1>2 DEF RendezvousInv, Slots, Delivered, AnswerIsOwn, NoLostWakeup, At

LEMMA BrowserInv ==
  ASSUME RendezvousInv, NEW p \in Port, Attach(p) \/ Detach(p) \/ HudAsks(p) \/ Answer(p)
  PROVE  RendezvousInv'
<1>1. CASE Attach(p)
  <2>1. UNCHANGED <<pending, nextQid, thread, queries, inbox, asked, accepted>>
    BY <1>1 DEF Attach
  <2>2. RendezvousTypes'
    BY <1>1 DEF Attach, RendezvousInv, RendezvousTypes
  <2>. QED  BY <2>1, <2>2, BrowserKeeps, AddressedKept DEF RendezvousInv
<1>2. CASE Detach(p)
  <2>. DEFINE shift == [r \in Port |-> 0]
  <2>1. /\ UNCHANGED <<pending, nextQid, thread, asked, accepted>> /\ queries' \subseteq queries
        /\ attached' \subseteq attached /\ inbox' = [inbox EXCEPT ![p] = <<>>]
    BY <1>2 DEF Detach
  <2>2. RendezvousTypes'
    BY <2>1 DEF RendezvousInv, RendezvousTypes
  <2>3. \A r \in Port : \A i \in DOMAIN inbox'[r] :
          /\ i \in Nat /\ i + shift[r] \in DOMAIN inbox[r]
          /\ inbox'[r][i] = inbox[r][i + shift[r]]
    <3>1. \A r \in Port : inbox'[r] = IF r = p THEN <<>> ELSE inbox[r]
      BY <2>1 DEF RendezvousInv, RendezvousTypes
    <3>2. \A r \in Port : inbox[r] \in Seq(Frames)
      BY DEF RendezvousInv, RendezvousTypes
    <3>. QED  BY <3>1, <3>2
  <2>4. shift \in [Port -> Nat]
    OBVIOUS
  <2>. HIDE DEF shift
  <2>. QED  BY <2>1, <2>2, <2>3, <2>4, BrowserKeeps, AddressedShrinks DEF RendezvousInv
<1>3. CASE HudAsks(p)
  <2>n. PICK n : n = asked + 1
    OBVIOUS
  <2>1. /\ UNCHANGED <<pending, nextQid, thread, attached, queries, accepted>>
        /\ asked' = n /\ asked \in Nat /\ asked < MaxAsks
        /\ inbox' = [inbox EXCEPT ![p] = Append(@, [cmd |-> "page_get", ask |-> n])]
    BY <1>3, <2>n DEF HudAsks, RendezvousInv, RendezvousTypes
  <2>2. n \in Ask /\ n \notin 1 .. asked /\ 1 .. asked \subseteq 1 .. asked' /\ n \in 1 .. asked'
    BY <2>n, <2>1, RendezvousAssumption DEF Ask
  <2>f. PICK f : f = [cmd |-> "page_get", ask |-> n]
    OBVIOUS
  <2>3. f \in Frames /\ f.cmd = "page_get" /\ f.ask = n /\ RendezvousTypes
    BY <2>f, <2>2 DEF Frames, RendezvousInv
  <2>4. /\ inbox' \in [Port -> Seq(Frames)]
        /\ \A r \in Port : \A i \in DOMAIN inbox'[r] :
             \/ i \in DOMAIN inbox[r] /\ inbox'[r][i] = inbox[r][i]
             \/ r = p /\ i = Len(inbox[p]) + 1 /\ inbox'[r][i] = f
    <3>1. inbox' = [inbox EXCEPT ![p] = Append(@, f)]
      BY <2>f, <2>1
    <3>. QED  BY <2>3, <3>1, AppendsLast
  <2>5. RendezvousTypes'
    <3>1. asked' \in 0 .. MaxAsks
      BY <2>n, <2>1, RendezvousAssumption
    <3>. QED  BY <2>1, <2>4, <3>1 DEF RendezvousInv, RendezvousTypes
  <2>6. \A r \in Port : \A i \in Gets(r)' :
          \/ i \in Gets(r) /\ inbox'[r][i] = inbox[r][i] /\ inbox'[r][i].ask # n
          \/ r = p /\ i = Len(inbox[p]) + 1 /\ inbox'[r][i].ask = n
    BY <2>2, <2>3, <2>4 DEF Gets, RendezvousInv, Addressed
  <2>7. \A r \in Port : \A i \in Replies(r)' : i \in Replies(r) /\ inbox'[r][i] = inbox[r][i]
    BY <2>3, <2>4 DEF Replies
  <2>8. /\ FreshIds' /\ Started' = Started /\ Slots' /\ Delivered' /\ AnswerIsOwn' /\ NoLostWakeup'
        /\ \A m, q : Published(m, q) => Published(m, q)'
    BY <2>n, <2>1, BrowserKeeps
  <2>9. Addressed'
    <3>1. \A q \in queries' : Published(q.ask, q.qid)'
      BY <2>1, <2>8 DEF RendezvousInv, Addressed
    <3>2. \A r \in Port : \A i \in Replies(r)' : Published(inbox[r][i].answer.ask, inbox[r][i].qid)'
      BY <2>7, <2>8 DEF RendezvousInv, Addressed
    <3>3. \A r \in Port : \A i \in Gets(r)' : inbox'[r][i].ask \in (1 .. asked') \ Started'
      <4>1. n \notin Started'
        BY <2>2, <2>8 DEF RendezvousInv, FreshIds
      <4>2. \A r \in Port : \A i \in Gets(r) : inbox[r][i].ask \in (1 .. asked) \ Started
        BY DEF RendezvousInv, Addressed
      <4>. QED  BY <2>2, <2>6, <2>8, <4>1, <4>2
    <3>4. \A r, s \in Port : \A i \in Gets(r)', j \in Gets(s)' :
            inbox'[r][i].ask = inbox'[s][j].ask => r = s /\ i = j
      BY <2>6 DEF RendezvousInv, Addressed
    <3>. QED  BY <3>1, <3>2, <3>3, <3>4 DEF Addressed
  <2>. QED  BY <2>5, <2>8, <2>9 DEF RendezvousInv
<1>4. CASE Answer(p)
  <2>q. PICK q \in queries :
          /\ q.port = p /\ queries' = queries \ {q}
          /\ inbox' = [inbox EXCEPT ![p] =
               Append(@, [cmd |-> "page_reply", qid |-> q.qid, answer |-> [ask |-> q.ask, port |-> p]])]
          /\ UNCHANGED <<pending, nextQid, thread, attached, asked, accepted>>
    BY <1>4 DEF Answer
  <2>f. PICK f : f = [cmd |-> "page_reply", qid |-> q.qid, answer |-> [ask |-> q.ask, port |-> p]]
    OBVIOUS
  <2>1. q.qid \in Nat /\ q.ask \in Ask /\ Published(q.ask, q.qid) /\ RendezvousTypes
    BY DEF RendezvousInv, RendezvousTypes, Addressed
  <2>2. f \in Frames /\ f.cmd = "page_reply" /\ f.qid = q.qid /\ f.answer.ask = q.ask
    BY <2>f, <2>1 DEF Frames, Answers
  <2>3. /\ inbox' \in [Port -> Seq(Frames)]
        /\ \A r \in Port : \A i \in DOMAIN inbox'[r] :
             \/ i \in DOMAIN inbox[r] /\ inbox'[r][i] = inbox[r][i]
             \/ r = p /\ i = Len(inbox[p]) + 1 /\ inbox'[r][i] = f
    <3>1. inbox' = [inbox EXCEPT ![p] = Append(@, f)]
      BY <2>q, <2>f
    <3>. QED  BY ZenonT(40), <2>1, <2>2, <3>1, AppendsLast
  <2>4. RendezvousTypes'
    BY <2>q, <2>3 DEF RendezvousInv, RendezvousTypes
  <2>5. \A r \in Port : \A i \in Gets(r)' : i \in Gets(r) /\ inbox'[r][i] = inbox[r][i]
    BY <2>2, <2>3 DEF Gets
  <2>6. \A r \in Port : \A i \in Replies(r)' :
          Published(inbox'[r][i].answer.ask, inbox'[r][i].qid)
    BY <2>1, <2>2, <2>3 DEF Replies, RendezvousInv, Addressed
  <2>7. /\ FreshIds' /\ Started' = Started /\ Slots' /\ Delivered' /\ AnswerIsOwn' /\ NoLostWakeup'
        /\ \A m, x : Published(m, x) => Published(m, x)'
    BY <2>q, BrowserKeeps
  <2>8. Addressed'
    <3>1. \A x \in queries' : Published(x.ask, x.qid)'
      BY <2>q, <2>7 DEF RendezvousInv, Addressed
    <3>2. \A r \in Port : \A i \in Replies(r)' : Published(inbox[r][i].answer.ask, inbox[r][i].qid)'
      BY <2>6, <2>7
    <3>3. \A r \in Port : \A i \in Gets(r)' : inbox'[r][i].ask \in (1 .. asked') \ Started'
      BY <2>q, <2>5, <2>7 DEF RendezvousInv, Addressed
    <3>4. \A r, s \in Port : \A i \in Gets(r)', j \in Gets(s)' :
            inbox'[r][i].ask = inbox'[s][j].ask => r = s /\ i = j
      BY <2>5 DEF RendezvousInv, Addressed
    <3>. QED  BY <3>1, <3>2, <3>3, <3>4 DEF Addressed
  <2>. QED  BY <2>4, <2>7, <2>8 DEF RendezvousInv
<1>. QED  BY <1>1, <1>2, <1>3, <1>4

LEMMA NextRendezvousInv == RendezvousInv /\ [RendezvousNext]_rvars => RendezvousInv'
<1>. SUFFICES ASSUME RendezvousInv, [RendezvousNext]_rvars PROVE RendezvousInv'
  OBVIOUS
<1>1. CASE ClientAsks
  BY <1>1, ClientAsksInv
<1>2. ASSUME NEW n \in Ask, Asking(n) \/ Deadline(n) PROVE RendezvousInv'
  BY <1>2, PublishInv, CheckInv, DeadlineInv DEF Asking
<1>3. ASSUME NEW p \in Port, Reading(p) PROVE RendezvousInv'
  BY <1>3, ReadReplyInv, ReadGetInv DEF Reading
<1>4. ASSUME NEW p \in Port, Attach(p) \/ Detach(p) \/ HudAsks(p) \/ Answer(p) PROVE RendezvousInv'
  BY <1>4, BrowserInv
<1>5. CASE UNCHANGED rvars
  <2>1. UNCHANGED <<pending, nextQid, thread, attached, queries, inbox, asked, accepted>>
    BY <1>5 DEF rvars
  <2>2. RendezvousTypes'
    BY <2>1 DEF RendezvousInv, RendezvousTypes
  <2>. QED  BY <2>1, <2>2, BrowserKeeps, AddressedKept DEF RendezvousInv
<1>. QED  BY <1>1, <1>2, <1>3, <1>4, <1>5 DEF RendezvousNext

-----------------------------------------------------------------------------
(* Whatever the browser, the deadlines and the other asks do, the          *)
(* rendezvous keeps its invariant: ids drawn once, what is under way       *)
(* addressed to the asks that drew them, one slot per waiting ask.         *)
THEOREM RendezvousInvariant == RendezvousSpec => []RendezvousInv
<1>. QED  BY InitRendezvousInv, NextRendezvousInv, PTL DEF RendezvousSpec

(* The map of page.rs never leaks a slot and never lacks one. *)
THEOREM RendezvousTypeCorrect == RendezvousSpec => []RendezvousTypeOK
<1>1. RendezvousInv => RendezvousTypeOK
  <2>. SUFFICES ASSUME RendezvousInv PROVE RendezvousTypeOK
    OBVIOUS
  <2>1. nextQid \in Nat /\ nextQid <= asked /\ asked \in Nat
    BY StartedFinite, RendezvousAssumption DEF RendezvousInv, RendezvousTypes
  <2>2. \A q \in DOMAIN pending : pending[q] = NoAnswer \/ pending[q] \in [ask : Ask, port : Port]
    BY DEF RendezvousInv, Slots, Answers
  <2>3. \A m, n \in Waiting : thread[m].qid = thread[n].qid => m = n
    BY DEF RendezvousInv, FreshIds, Waiting, Started, At
  <2>. QED  BY <2>1, <2>2, <2>3 DEF RendezvousInv, Slots, RendezvousTypes, RendezvousTypeOK
<1>. QED  BY <1>1, RendezvousInvariant, PTL

(* No ask is given the answer to another one, however late or often the    *)
(* browser answers.                                                        *)
THEOREM AnswersAreOwn == RendezvousSpec => []AnswerIsOwn
<1>1. RendezvousInv => AnswerIsOwn
  BY DEF RendezvousInv
<1>. QED  BY <1>1, RendezvousInvariant, PTL

(* fulfil says "delivered" of exactly the answer the ask returns, when     *)
(* answer, duplicate and deadline race.                                    *)
THEOREM AcceptedAnswersReturn == RendezvousSpec => []AcceptedIsReturned
<1>1. RendezvousInv => AcceptedIsReturned
  <2>. SUFFICES ASSUME RendezvousInv, NEW x \in accepted, NEW n \in Ask,
                       At(n, "done"), thread[n].qid = x.qid
                PROVE  thread[n].answer = x.answer
    BY DEF AcceptedIsReturned
  <2>1. n \in Started /\ x.answer.ask \in Started /\ thread[x.answer.ask].qid = x.qid
    BY DEF RendezvousInv, Delivered, Published, Started, At
  <2>2. n = x.answer.ask
    BY <2>1 DEF RendezvousInv, FreshIds
  <2>. QED  BY <2>2 DEF RendezvousInv, Delivered
<1>. QED  BY <1>1, RendezvousInvariant, PTL

(* No ask sleeps on while its answer lies in its slot. *)
THEOREM WakeupsAreKept == RendezvousSpec => []NoLostWakeup
<1>1. RendezvousInv => NoLostWakeup
  BY DEF RendezvousInv
<1>. QED  BY <1>1, RendezvousInvariant, PTL
=============================================================================
