---------------------------- MODULE TxnBus_proofs ----------------------------
(***************************************************************************)
(* The bus uses the journal only through the journal's own operations:     *)
(* every step of TxnBus is a step of Journal or leaves the journal alone.  *)
(* So everything proved of the journal holds of the composed system.       *)
(***************************************************************************)
EXTENDS TxnBus, Journal_proofs, FiniteSetTheorems

LEMMA NamesExplicit ==
  ASSUME NEW c \in Client, NEW t \in Names[c]
  PROVE  /\ t \in Explicit \cup {NoTxn}
         /\ t \in TxnId \cup {NoTxn}
  BY TxnBusAssumption, JournalAssumption DEF TxnBusAssumption, JournalAssumption, TxnId

LEMMA ConnIsThread ==
  ASSUME NEW c \in Client
  PROVE  Conn(c) \in Thread /\ (\A via \in Vias : <<c, via>> \in Thread)
  BY TxnBusAssumption DEF TxnBusAssumption, Conn, Thread

(* A thread may move to any record that ThreadOK allows. *)
LEMMA GotoKeepsCallOK ==
  ASSUME CallOK, NEW th \in Thread, NEW r, ThreadOK(r), Goto(th, r)
  PROVE  CallOK'
  <1>1. call' = [call EXCEPT ![th] = r]  BY DEF Goto
  <1>2. call' = [x \in Thread |-> IF x = th THEN r ELSE call[x]]
    BY <1>1 DEF CallOK
  <1>3. call' = [x \in Thread |-> call'[x]]  BY <1>2
  <1>4. ASSUME NEW x \in Thread  PROVE ThreadOK(call'[x])
    BY <1>2, <1>4 DEF CallOK
  <1> QED  BY <1>3, <1>4 DEF CallOK, ThreadOK

LEMMA CallOKInit == TxnBusInit => CallOK
  BY DEF TxnBusInit, CallOK, ThreadOK, Idle

(* What a client asks for puts a record of the right type on a thread. *)
LEMMA RequestKeepsCallOK ==
  ASSUME CallOK, NEW c \in Client, Request(c)
  PROVE  CallOK'
  <1> USE ConnIsThread, NamesExplicit
  <1>1. ASSUME NEW t \in Names[c], TxnBegin(c, t)  PROVE CallOK'
    BY <1>1 DEF TxnBegin, CallOK, ThreadOK
  <1>2. ASSUME NEW t \in Names[c], NEW v \in Verb \cup Pure \cup Irreversible, Call(c, t, v)
        PROVE  CallOK'
    <2> DEFINE r == IF Gated(t) /\ Rev(v) = "inverse"
                      THEN [pc |-> "record", tag |-> t, verb |-> v]
                      ELSE [pc |-> "forward", tag |-> t, verb |-> v, seq |-> 0]
    <2>1. Goto(Conn(c), r)  BY <1>2 DEF Call
    <2>2. ThreadOK(r)  BY DEF ThreadOK, Rev
    <2> QED  BY <2>1, <2>2, GotoKeepsCallOK
  <1>3. ASSUME NEW t \in Names[c], NEW f \in Forms, NEW q \in Proj, NEW o \in Op \cup {NoOp},
               Witness(c, t, f, q, o)
        PROVE  CallOK'
    <2> DEFINE txns == Targets(IF f = "args" THEN t ELSE NoTxn)
               r == [pc |-> "read", tag |-> t, proj |-> q, op |-> o,
                     for |-> {[txn |-> x, born |-> born[x]] : x \in txns}]
    <2>1. Goto(Conn(c), r)  BY <1>3 DEF Witness
    <2>2. ThreadOK(r)  BY DEF ThreadOK
    <2> QED  BY <2>1, <2>2, GotoKeepsCallOK
  <1>4. ASSUME NEW t \in Names[c] \ {NoTxn}, TxnAbort(c, t)  PROVE CallOK'
    <2> DEFINE r == [pc |-> "drop", txn |-> t, steps |-> Reversed(Journaled(t))]
    <2>1. Goto(Conn(c), r)  BY <1>4 DEF TxnAbort, Drain
    <2>2. ThreadOK(r)  BY DEF ThreadOK
    <2> QED  BY <2>1, <2>2, GotoKeepsCallOK
  <1>5. ASSUME NEW t \in Names[c] \ {NoTxn}, NEW via \in Vias, TxnCommit(c, t, via)
        PROVE  CallOK'
    <2> DEFINE th == IF Ledgered(t) # {} THEN <<c, via>> ELSE Conn(c)
               r == [pc |-> "take", txn |-> t]
    <2>1. Goto(th, r) /\ th \in Thread  BY <1>5 DEF TxnCommit
    <2>2. ThreadOK(r)  BY DEF ThreadOK
    <2> HIDE DEF th, r
    <2> QED  BY <2>1, <2>2, GotoKeepsCallOK
  <1> QED  BY <1>1, <1>2, <1>3, <1>4, <1>5 DEF Request

(* So does what a thread or the browser does next. *)
LEMMA ThreadKeepsCallOK ==
  ASSUME CallOK, NEW th \in Thread, Advance(th) \/ ReadPage(th) \/ Revalidate(th)
  PROVE  CallOK'
  <1>0. ThreadOK(call[th])  BY DEF CallOK
  <1>1. CASE CallRecord(th)
    <2> PICK seq : Goto(th, [pc |-> "forward", tag |-> call[th].tag,
                             verb |-> call[th].verb, seq |-> seq])
      BY <1>1 DEF CallRecord
    <2> QED  BY GotoKeepsCallOK DEF ThreadOK
  <1>2. CASE Forward(th) \/ ReadFails(th) \/ FilePremise(th) \/ SendUndo(th) \/ Close(th)
    <2>1. Goto(th, Idle)
      BY <1>2 DEF Forward, ReadFails, FilePremise, SendUndo, Close
    <2>2. ThreadOK(Idle)  BY DEF ThreadOK, Idle
    <2> QED  BY <2>1, <2>2, GotoKeepsCallOK
  <1>3. CASE DropPremises(th)
    <2> DEFINE r == IF call[th].steps = {} THEN Idle
                    ELSE [pc |-> "undo", txn |-> call[th].txn, steps |-> call[th].steps]
    <2>1. Goto(th, r) /\ At(th, "drop")  BY <1>3 DEF DropPremises
    <2>2. ThreadOK(r)  BY <1>0, <2>1 DEF ThreadOK, At, Idle
    <2> QED  BY <2>1, <2>2, GotoKeepsCallOK
  <1>4. CASE TakePremises(th)
    <2> DEFINE P == Ledgered(call[th].txn)
               r == IF P = {} THEN [pc |-> "close", txn |-> call[th].txn]
                    ELSE [pc |-> "validate", txn |-> call[th].txn, premises |-> P]
    <2>1. Goto(th, r) /\ At(th, "take")  BY <1>4 DEF TakePremises
    <2>2. ThreadOK(r)  BY <1>0, <2>1 DEF ThreadOK, At
    <2> QED  BY <2>1, <2>2, GotoKeepsCallOK
  <1>5. CASE RevalidateFails(th) \/ Revalidate(th)
    <2>1. PICK p \in {"close", "unwind"} : Goto(th, [txn |-> call[th].txn, pc |-> p])
      BY <1>5 DEF RevalidateFails, Revalidate
    <2>2. ThreadOK([txn |-> call[th].txn, pc |-> p])
      BY <1>0, <1>5 DEF ThreadOK, At, RevalidateFails, Revalidate
    <2> QED  BY <2>1, <2>2, GotoKeepsCallOK
  <1>6. CASE Unwind(th)
    <2> DEFINE r == [pc |-> "drop", txn |-> call[th].txn,
                     steps |-> Reversed(Journaled(call[th].txn))]
    <2>1. Goto(th, r) /\ At(th, "unwind")  BY <1>6 DEF Unwind, Drain
    <2>2. ThreadOK(r)  BY <1>0, <2>1 DEF ThreadOK, At
    <2> QED  BY <2>1, <2>2, GotoKeepsCallOK
  <1>7. CASE ReadPage(th)
    <2>1. PICK r : Goto(th, r) /\ r.pc \in {"idle", "file"}
      BY <1>7 DEF ReadPage, Idle
    <2>2. ThreadOK(r)  BY <2>1 DEF ThreadOK
    <2> QED  BY <2>1, <2>2, GotoKeepsCallOK
  <1> QED  BY <1>1, <1>2, <1>3, <1>4, <1>5, <1>6, <1>7 DEF Advance

LEMMA CallOKNext == CallOK /\ [TxnBusNext]_vars => CallOK'
  <1> SUFFICES ASSUME CallOK, [TxnBusNext]_vars  PROVE CallOK'
    OBVIOUS
  <1>1. CASE PageChange \/ UNCHANGED vars
    BY <1>1 DEF PageChange, vars, bvars, CallOK, ThreadOK
  <1>2. CASE \E c \in Client : Request(c)
    BY <1>2, RequestKeepsCallOK
  <1>3. CASE \E th \in Thread : Advance(th) \/ ReadPage(th) \/ Revalidate(th)
    BY <1>3, ThreadKeepsCallOK
  <1> QED  BY <1>1, <1>2, <1>3 DEF TxnBusNext, Browser

-----------------------------------------------------------------------------
LEMMA RequestUsesJournal ==
  ASSUME CallOK, NEW c \in Client, Request(c)
  PROVE  JournalNext \/ UNCHANGED jvars
  <1> USE NamesExplicit
  <1>1. ASSUME NEW t \in Names[c], TxnBegin(c, t)  PROVE JournalNext
    BY <1>1 DEF TxnBegin, JournalNext
  <1>2. ASSUME NEW t \in Names[c] \ {NoTxn}, TxnAbort(c, t)  PROVE JournalNext
    BY <1>2 DEF TxnAbort, Drain, JournalNext
  <1>3. ASSUME NEW t \in Names[c], NEW v, Call(c, t, v)  PROVE UNCHANGED jvars
    BY <1>3 DEF Call
  <1>4. ASSUME NEW t, NEW f, NEW q, NEW o, Witness(c, t, f, q, o)  PROVE UNCHANGED jvars
    BY <1>4 DEF Witness
  <1>5. ASSUME NEW t, NEW via, TxnCommit(c, t, via)  PROVE UNCHANGED jvars
    BY <1>5 DEF TxnCommit
  <1> QED  BY <1>1, <1>2, <1>3, <1>4, <1>5 DEF Request

LEMMA ThreadUsesJournal ==
  ASSUME CallOK, NEW th \in Thread, Advance(th) \/ ReadPage(th) \/ Revalidate(th)
  PROVE  JournalNext \/ UNCHANGED jvars
  <1>0. ThreadOK(call[th])  BY DEF CallOK
  <1>1. CASE CallRecord(th)
    <2>1. call[th].tag \in TxnId \cup {NoTxn} /\ call[th].verb \in Verb
      BY <1>0, <1>1 DEF CallRecord, At, ThreadOK
    <2>2. Record(call[th].tag, call[th].verb) \/ UNCHANGED jvars
      BY <1>1 DEF CallRecord
    <2> QED  BY <2>1, <2>2 DEF JournalNext
  <1>2. CASE Close(th)
    <2>1. call[th].txn \in TxnId  BY <1>0, <1>2 DEF Close, At, ThreadOK
    <2>2. Commit(call[th].txn)  BY <1>2 DEF Close
    <2> QED  BY <2>1, <2>2 DEF JournalNext
  <1>3. CASE Unwind(th)
    <2>1. call[th].txn \in TxnId  BY <1>0, <1>3 DEF Unwind, At, ThreadOK
    <2>2. TakeReversed(call[th].txn)  BY <1>3 DEF Unwind, Drain
    <2> QED  BY <2>1, <2>2 DEF JournalNext
  <1>4. CASE \/ Forward(th) \/ ReadFails(th) \/ FilePremise(th) \/ DropPremises(th)
             \/ SendUndo(th) \/ TakePremises(th) \/ RevalidateFails(th)
             \/ ReadPage(th) \/ Revalidate(th)
    BY <1>4 DEF Forward, ReadFails, FilePremise, DropPremises, SendUndo, TakePremises,
                RevalidateFails, ReadPage, Revalidate
  <1> QED  BY <1>1, <1>2, <1>3, <1>4 DEF Advance

LEMMA StepUsesJournal == CallOK /\ [TxnBusNext]_vars => [JournalNext]_jvars
  <1> SUFFICES ASSUME CallOK, [TxnBusNext]_vars  PROVE JournalNext \/ UNCHANGED jvars
    OBVIOUS
  <1>1. CASE PageChange \/ UNCHANGED vars
    BY <1>1 DEF PageChange, vars
  <1>2. CASE \E c \in Client : Request(c)
    BY <1>2, RequestUsesJournal
  <1>3. CASE \E th \in Thread : Advance(th) \/ ReadPage(th) \/ Revalidate(th)
    BY <1>3, ThreadUsesJournal
  <1> QED  BY <1>1, <1>2, <1>3 DEF TxnBusNext, Browser

(* The composed system implements the journal's specification: no handler  *)
(* of zbus.rs, session.rs or page.rs reaches into the journal other than   *)
(* through begin, record, commit and take_reversed.                        *)
THEOREM BusImplementsJournal == TxnBusSpec => JournalSpec
  <1>1. TxnBusInit => JournalInit  BY DEF TxnBusInit
  <1> QED
    BY <1>1, CallOKInit, CallOKNext, StepUsesJournal, PTL DEF TxnBusSpec, JournalSpec

(* On the whole bus, whatever its clients do, a journaled step has one     *)
(* fate and its number is used by one call only.                           *)
THEOREM BusOneFate == TxnBusSpec => [](OneFate /\ OneCallPerSeq)
  <1>1. JournalInv => OneFate /\ OneCallPerSeq  BY DEF JournalInv
  <1> QED  BY <1>1, BusImplementsJournal, JournalInvariant, PTL

(* On the whole bus no step leaves the journal but through a commit or an  *)
(* abort, as long as the ids do not wrap.                                  *)
THEOREM BusNoSilentLoss ==
  ASSUME NoWrap
  PROVE  TxnBusSpec => NoSilentLoss
  BY BusImplementsJournal, JournalNoSilentLoss, PTL

-----------------------------------------------------------------------------
(* The journal's clock and history only grow, and the journal is finite at *)
(* all times.                                                              *)
LEMMA JournalGrows ==
  ASSUME JournalInv, IsFiniteSet(entries), seqClock <= MaxSeq, [JournalNext]_jvars
  PROVE  /\ IsFiniteSet(entries') /\ seqClock' <= MaxSeq
         /\ seqClock <= seqClock' /\ seqClock \in Nat /\ seqClock' \in Nat
         /\ undone \subseteq undone' /\ kept \subseteq kept'
  <1>1. IsFiniteSet(open)
    <2>1. IsFiniteSet(TxnId)
      BY FS_Interval, JournalAssumption DEF TxnId
    <2> QED  BY <2>1, FS_Subset DEF JournalInv, JournalTypeOK
  <1>2. seqClock \in Nat /\ MaxSeq \in Nat
    BY JournalAssumption DEF JournalInv, JournalTypeOK
  <1>3. ASSUME NEW tag, NEW verb, Record(tag, verb)
        PROVE  IsFiniteSet(entries') /\ seqClock' <= MaxSeq /\ seqClock' = seqClock + 1
    <2> DEFINE New == {[seq |-> seqClock + 1, txn |-> t, verb |-> verb] : t \in Targets(tag)}
    <2>1. IsFiniteSet(Targets(tag))
      BY <1>1, FS_Subset DEF Targets
    <2>2. IsFiniteSet(New)
      <3> DEFINE f == [t \in Targets(tag) |-> [seq |-> seqClock + 1, txn |-> t, verb |-> verb]]
      <3>1. f \in Surjection(Targets(tag), New)
        BY DEF Surjection
      <3> QED  BY <2>1, <3>1, FS_Surjection
    <2>3. entries' = entries \cup New /\ seqClock' = seqClock + 1 /\ seqClock < MaxSeq
      BY <1>3 DEF Record
    <2>4. IsFiniteSet(entries')
      BY <2>2, <2>3, FS_Union
    <2> QED  BY <1>2, <2>3, <2>4
  <1>4. \/ \E tag, verb : Record(tag, verb)
        \/ entries' \subseteq entries /\ seqClock' = seqClock
    BY DEF JournalNext, BeginExplicit, BeginAlloc, Commit, TakeReversed, jvars
  <1>5. undone \subseteq undone' /\ kept \subseteq kept'
    BY DEF JournalNext, BeginExplicit, BeginAlloc, Record, Commit, TakeReversed, jvars
  <1>6. CASE \E tag, verb : Record(tag, verb)
    BY <1>2, <1>3, <1>5, <1>6
  <1>7. CASE entries' \subseteq entries /\ seqClock' = seqClock
    BY <1>2, <1>5, <1>7, FS_Subset
  <1> QED  BY <1>4, <1>6, <1>7

(* The types cover what CallOK says of a thread's record. *)
LEMMA BusPhaseOK ==
  ASSUME NEW r \in BusPhase
  PROVE  ThreadOK(r)
  <1>1. Named \subseteq TxnId \cup {NoTxn} /\ Ids \subseteq TxnId
    BY NamesExplicit DEF Named, Ids
  <1> QED  BY <1>1 DEF BusPhase, Phase, ThreadOK

(* The wire grows at its end. *)
LEMMA WireGrows ==
  ASSUME wire \in Seq(Frame), NEW f \in Frame, wire' = Append(wire, f)
  PROVE  /\ wire' \in Seq(Frame)
         /\ DOMAIN wire' = DOMAIN wire \cup {Len(wire) + 1}
         /\ Len(wire) + 1 \notin DOMAIN wire /\ wire'[Len(wire) + 1] = f
         /\ \A i \in DOMAIN wire : wire'[i] = wire[i] /\ i \in Nat /\ i # 0 /\ i <= Len(wire)
         /\ Len(wire) \in Nat
  OBVIOUS

(* One thread moves to record r, the journal takes a step of its own or    *)
(* none, and what it publishes and files is in step with both.             *)
LEMMA ThreadStep ==
  ASSUME BusInv, [JournalNext]_jvars,
         NEW th \in Thread, NEW r \in BusPhase, Goto(th, r),
         UNCHANGED page, asked' \in 0 .. MaxRequests, born' \in [TxnId -> 0 .. asked'],
         nextWitness' \in Nat, nextWitness <= nextWitness', ledger' \subseteq Premise,
         \A p \in ledger' : p.id <= nextWitness' /\ (p \in ledger \/ p.id > nextWitness),
         r.pc = "forward" => r.seq <= seqClock',
         r.pc = "validate" =>
           r.premises \cap ledger' = {} /\ \A p \in r.premises : p.id <= nextWitness',
         \/ wire' = wire
         \/ \E f \in Frame :
              /\ wire' = Append(wire, f)
              /\ f.kind = "do" => f.seq <= seqClock'
              /\ f.kind = "undo" => Whole(f) \subseteq undone',
         r.pc \in {"drop", "undo"} =>
           /\ Whole(r) \subseteq undone'
           /\ r.pc = "undo" => r.steps # {}
           /\ Whole(r) \cap undone = {} \/ (th \in Draining /\ Whole(r) = Whole(call[th]))
  PROVE  BusInv'
  <1>1. /\ IsFiniteSet(entries') /\ seqClock' <= MaxSeq
        /\ seqClock <= seqClock' /\ seqClock \in Nat /\ seqClock' \in Nat
        /\ undone \subseteq undone'
    BY JournalGrows DEF BusInv, BusTypes
  <1>2. JournalInv'
    BY NextInv DEF BusInv
  <1>3. /\ call' \in [Thread -> BusPhase]
        /\ \A x \in Thread : call'[x] = IF x = th THEN r ELSE call[x]
    BY DEF Goto, BusInv, BusTypes
  <1>4. CallOK'
    BY <1>3, BusPhaseOK DEF CallOK
  <1>5. \/ wire' = wire
        \/ \E f \in Frame :
             /\ wire' = Append(wire, f)
             /\ f.kind = "do" => f.seq <= seqClock'
             /\ f.kind = "undo" => Whole(f) \subseteq undone'
    OBVIOUS
  <1>6. /\ wire' \in Seq(Frame)
        /\ \A i \in DOMAIN wire' :
             \/ i \in DOMAIN wire /\ wire'[i] = wire[i]
             \/ /\ wire'[i].kind = "do" => wire'[i].seq <= seqClock'
                /\ wire'[i].kind = "undo" => Whole(wire'[i]) \subseteq undone'
    <2>0. wire \in Seq(Frame)
      BY DEF BusInv, BusTypes
    <2>1. CASE wire' = wire
      BY <2>0, <2>1
    <2>2. ASSUME NEW f \in Frame, wire' = Append(wire, f),
                 f.kind = "do" => f.seq <= seqClock',
                 f.kind = "undo" => Whole(f) \subseteq undone'
          PROVE  <1>6!2 /\ wire' \in Seq(Frame)
      BY <2>0, <2>2, WireGrows
    <2> QED  BY <1>5, <2>1, <2>2
  <1>7. BusTypes'
    BY <1>1, <1>3, <1>6 DEF BusInv, BusTypes
  <1>8. BusClocks'
    <2>1. ASSUME NEW x \in Thread, At(x, "forward")' PROVE call'[x].seq <= seqClock'
      <3>1. CASE x = th
        BY <1>3, <2>1, <3>1 DEF At
      <3>2. CASE x # th
        <4>1. call'[x] = call[x] /\ call[x] \in BusPhase /\ call[x].pc = "forward"
          BY <1>3, <2>1, <3>2 DEF At, BusInv, BusTypes
        <4>2. call[x].seq \in Nat /\ call[x].seq <= seqClock
          BY <4>1 DEF BusPhase, Phase, BusInv, BusClocks, At
        <4> QED  BY <1>1, <4>1, <4>2
      <3> QED  BY <3>1, <3>2
    <2>2. ASSUME NEW i \in DOMAIN wire', wire'[i].kind = "do" PROVE wire'[i].seq <= seqClock'
      <3>1. CASE i \in DOMAIN wire /\ wire'[i] = wire[i]
        <4>1. wire[i] \in Frame
          BY <3>1 DEF BusInv, BusTypes
        <4>2. wire[i].seq \in Nat /\ wire[i].seq <= seqClock
          BY <2>2, <3>1, <4>1 DEF Frame, BusInv, BusClocks
        <4> QED  BY <1>1, <3>1, <4>2
      <3> QED  BY <1>6, <2>2, <3>1
    <2>3. ASSUME NEW x \in Thread, At(x, "validate")'
          PROVE  /\ call'[x].premises \cap ledger' = {}
                 /\ \A p \in call'[x].premises : p.id <= nextWitness'
      <3>1. CASE x = th
        BY <1>3, <2>3, <3>1 DEF At
      <3>2. CASE x # th
        <4>1. call'[x] = call[x] /\ call[x] \in BusPhase /\ call[x].pc = "validate"
          BY <1>3, <2>3, <3>2 DEF At, BusInv, BusTypes
        <4>2. /\ call[x].premises \subseteq Premise
              /\ call[x].premises \cap ledger = {}
              /\ \A p \in call[x].premises : p.id <= nextWitness
          BY <4>1 DEF BusPhase, Phase, BusInv, BusClocks, At
        <4>3. nextWitness \in Nat /\ \A p \in Premise : p.id \in Nat
          BY DEF Premise, BusInv, BusTypes
        <4>4. \A p \in call[x].premises : p.id <= nextWitness' /\ ~ (p.id > nextWitness)
          BY <4>2, <4>3
        <4> QED  BY <4>1, <4>2, <4>4
      <3> QED  BY <3>1, <3>2
    <2> QED  BY <2>1, <2>2, <2>3 DEF BusClocks
  <1>9. Drained'
    <2>1. \A x \in Draining' : x # th => x \in Draining /\ call'[x] = call[x]
      BY <1>3 DEF Draining
    <2>2. th \in Draining' => r.pc \in {"drop", "undo"} /\ call'[th] = r
      BY <1>3 DEF Draining
    <2>3. \A x \in Draining : Whole(call[x]) \subseteq undone
      BY DEF BusInv, Drained
    <2>4. \A x \in Draining' : Whole(call'[x]) \subseteq undone'
      BY <1>1, <2>1, <2>2, <2>3
    <2>5. \A x \in Draining' : At(x, "undo")' => call'[x].steps # {}
      BY <2>1, <2>2 DEF BusInv, Drained, At
    <2>6. ASSUME NEW x \in Draining', x # th, th \in Draining'
          PROVE  Whole(r) \cap Whole(call[x]) = {}
      <3>1. x \in Draining /\ Whole(call[x]) \subseteq undone
        BY <2>1, <2>3, <2>6
      <3>2. th \in Draining => Whole(call[th]) \cap Whole(call[x]) = {}
        BY <2>6, <3>1 DEF BusInv, Drained
      <3> QED  BY <2>2, <2>6, <3>1, <3>2
    <2>7. \A x, y \in Draining' : x # y => Whole(call'[x]) \cap Whole(call'[y]) = {}
      <3>1. ASSUME NEW x \in Draining', NEW y \in Draining', x # y, x # th, y # th
            PROVE  Whole(call'[x]) \cap Whole(call'[y]) = {}
        BY <2>1, <3>1 DEF BusInv, Drained
      <3>2. ASSUME NEW x \in Draining', x # th, th \in Draining'
            PROVE  Whole(call'[x]) \cap Whole(call'[th]) = {}
        BY <2>1, <2>2, <2>6, <3>2
      <3> QED  BY <3>1, <3>2
    <2>8. \A u \in Undos' : Whole(wire'[u]) \subseteq undone'
      BY <1>1, <1>6 DEF Undos, BusInv, Drained
    <2> QED  BY <2>4, <2>5, <2>7, <2>8 DEF Drained
  <1> QED  BY <1>2, <1>4, <1>7, <1>8, <1>9 DEF BusInv

LEMMA NamesNamed ==
  ASSUME NEW c \in Client, NEW t \in Names[c]
  PROVE  t \in Named /\ (t # NoTxn => t \in Ids)
  BY DEF Named, Ids

LEMMA IdleInBusPhase == Idle \in BusPhase
  BY DEF BusPhase, Phase, Idle

(* A thread moves while the ledger, the wire and the clients' counters     *)
(* stand still: what is left to show is that its new record is in order.   *)
LEMMA QuietStep ==
  ASSUME BusInv, [JournalNext]_jvars,
         NEW th \in Thread, NEW r \in BusPhase, Goto(th, r),
         UNCHANGED <<page, asked, born, nextWitness, ledger, wire>>,
         r.pc = "forward" => r.seq <= seqClock',
         r.pc = "validate" =>
           r.premises \cap ledger = {} /\ \A p \in r.premises : p.id <= nextWitness,
         r.pc \in {"drop", "undo"} =>
           /\ Whole(r) \subseteq undone'
           /\ r.pc = "undo" => r.steps # {}
           /\ Whole(r) \cap undone = {} \/ (th \in Draining /\ Whole(r) = Whole(call[th]))
  PROVE  BusInv'
  <1>1. /\ asked' \in 0 .. MaxRequests /\ born' \in [TxnId -> 0 .. asked']
        /\ nextWitness' \in Nat /\ nextWitness <= nextWitness' /\ ledger' \subseteq Premise
    BY DEF BusInv, BusTypes
  <1>2. \A p \in ledger' : p.id <= nextWitness' /\ (p \in ledger \/ p.id > nextWitness)
    BY DEF BusInv, BusClocks
  <1> QED  BY <1>1, <1>2, ThreadStep

(* Draining a transaction hands its steps, and nobody else's, to the       *)
(* thread; each has a place in the order of compensation.                  *)
LEMMA DrainHandsOver ==
  ASSUME BusInv, NEW t \in Ids, TakeReversed(t)
  PROVE  LET r == [pc |-> "drop", txn |-> t, steps |-> Reversed(Journaled(t))]
         IN  /\ r \in BusPhase
             /\ Whole(r) = Journaled(t)
             /\ Whole(r) \subseteq undone' /\ Whole(r) \cap undone = {}
  <1> DEFINE J == Journaled(t)
             Place(e) == Cardinality({d \in J : d.seq > e.seq})
             r == [pc |-> "drop", txn |-> t, steps |-> Reversed(J)]
  <1>1. IsFiniteSet(J) /\ J \subseteq entries /\ \A e \in J : e.txn = t
    BY FS_Subset DEF Journaled, BusInv, BusTypes
  <1>2. \A e \in J : e \in JournalEntry /\ e.seq \in 1 .. MaxSeq /\ e.verb \in Verb
    <2>1. \A e \in J : e \in JournalEntry /\ e.seq <= seqClock
      BY <1>1 DEF BusInv, JournalInv, JournalTypeOK, Ever
    <2>2. seqClock \in Nat /\ seqClock <= MaxSeq /\ MaxSeq \in Nat
      BY JournalAssumption DEF BusInv, BusTypes, JournalInv, JournalTypeOK
    <2> QED  BY <2>1, <2>2 DEF JournalEntry
  <1>3. \A e \in J : Place(e) \in Nat
    BY <1>1, FS_Subset, FS_CardinalityType
  <1>4. Reversed(J) = {[place |-> Place(e), seq |-> e.seq, verb |-> e.verb] : e \in J}
    BY DEF Reversed
  <1> HIDE DEF Place
  <1>5. Reversed(J) \subseteq [place : Nat, seq : 1 .. MaxSeq, verb : Verb]
    BY <1>2, <1>3, <1>4
  <1>6. r \in BusPhase
    BY <1>5 DEF BusPhase, Phase
  <1>7. Whole(r) = J
    <2>1. \A e \in J : e = [seq |-> e.seq, txn |-> t, verb |-> e.verb]
      BY <1>1, <1>2 DEF JournalEntry
    <2>2. Whole(r) = {[seq |-> s.seq, txn |-> t, verb |-> s.verb] : s \in Reversed(J)}
      BY DEF Whole
    <2>3. \A s \in Reversed(J) : \E e \in J : s.seq = e.seq /\ s.verb = e.verb
      BY <1>4
    <2>4. \A e \in J : [place |-> Place(e), seq |-> e.seq, verb |-> e.verb] \in Reversed(J)
      BY <1>4
    <2> HIDE DEF J, r
    <2>5. ASSUME NEW e \in J  PROVE e \in Whole(r)
      <3>1. PICK s \in Reversed(J) : s.seq = e.seq /\ s.verb = e.verb
        BY <2>4
      <3> QED  BY <2>1, <2>2, <3>1
    <2> QED  BY <2>1, <2>2, <2>3, <2>5
  <1>8. J \subseteq undone' /\ J \cap undone = {}
    BY <1>1 DEF TakeReversed, BusInv, JournalInv, OneFate
  <1> QED  BY <1>6, <1>7, <1>8

LEMMA InitBusInv == TxnBusInit => BusInv
  <1> SUFFICES ASSUME TxnBusInit PROVE BusInv
    OBVIOUS
  <1>1. JournalInv /\ CallOK
    BY InitInv, CallOKInit DEF TxnBusInit
  <1>2. \A th \in Thread : call[th].pc = "idle"
    BY DEF TxnBusInit, Idle
  <1>3. call \in [Thread -> BusPhase] /\ IsFiniteSet(entries)
    BY IdleInBusPhase, FS_EmptySet DEF TxnBusInit, JournalInit
  <1>4. BusTypes
    BY <1>3, TxnBusAssumption, JournalAssumption DEF TxnBusInit, JournalInit, BusTypes
  <1>5. BusClocks /\ Drained
    BY <1>2 DEF TxnBusInit, BusClocks, Drained, Draining, Undos, At
  <1> QED  BY <1>1, <1>4, <1>5 DEF BusInv

(* No thread moves and nothing is published. *)
LEMMA StandingStep ==
  ASSUME BusInv, [JournalNext]_jvars, UNCHANGED <<ledger, nextWitness, call, wire>>,
         page' \in [Proj -> Val], asked' \in 0 .. MaxRequests, born' \in [TxnId -> 0 .. asked']
  PROVE  BusInv'
  <1>1. /\ IsFiniteSet(entries') /\ seqClock' <= MaxSeq
        /\ seqClock <= seqClock' /\ seqClock \in Nat /\ seqClock' \in Nat
        /\ undone \subseteq undone'
    BY JournalGrows DEF BusInv, BusTypes
  <1>2. JournalInv' /\ CallOK'
    BY NextInv DEF BusInv, CallOK, ThreadOK
  <1>3. BusTypes'
    BY <1>1 DEF BusInv, BusTypes
  <1>4. BusClocks'
    <2>1. \A th \in Thread : At(th, "forward") => call[th].seq \in Nat
      BY DEF BusInv, BusTypes, BusPhase, Phase, At
    <2>2. \A i \in DOMAIN wire : wire[i].kind = "do" => wire[i].seq \in Nat
      BY DEF BusInv, BusTypes, Frame
    <2>3. \A th \in Thread : At(th, "forward")' => call'[th].seq <= seqClock'
      BY <1>1, <2>1 DEF BusInv, BusClocks, At
    <2>4. \A i \in DOMAIN wire' : wire'[i].kind = "do" => wire'[i].seq <= seqClock'
      BY <1>1, <2>2 DEF BusInv, BusClocks
    <2> QED  BY <2>3, <2>4 DEF BusInv, BusClocks, At
  <1>5. Drained'
    BY <1>1 DEF BusInv, Drained, Draining, Undos, At, Whole
  <1> QED  BY <1>2, <1>3, <1>4, <1>5 DEF BusInv

(* A request that puts a thread to work. *)
LEMMA AskStep ==
  ASSUME BusInv, [JournalNext]_jvars, NEW th \in Thread, NEW r \in BusPhase, Goto(th, r),
         UNCHANGED <<page, born, nextWitness, ledger, wire>>,
         asked' \in 0 .. MaxRequests, 0 .. asked \subseteq 0 .. asked',
         r.pc \in {"record", "forward", "read", "drop", "take"},
         r.pc = "forward" => r.seq = 0,
         r.pc = "drop" => Whole(r) \subseteq undone' /\ Whole(r) \cap undone = {}
  PROVE  BusInv'
  <1>1. /\ born' \in [TxnId -> 0 .. asked']
        /\ nextWitness' \in Nat /\ nextWitness <= nextWitness' /\ ledger' \subseteq Premise
    BY DEF BusInv, BusTypes
  <1>2. \A p \in ledger' : p.id <= nextWitness' /\ (p \in ledger \/ p.id > nextWitness)
    BY DEF BusInv, BusClocks
  <1>3. r.pc = "forward" => r.seq <= seqClock'
    BY JournalGrows DEF BusInv, BusTypes
  <1> QED  BY <1>1, <1>2, <1>3, ThreadStep

LEMMA RequestKeepsBusInv ==
  ASSUME BusInv, NEW c \in Client, Request(c)
  PROVE  BusInv'
  <1> USE ConnIsThread, NamesNamed
  <1>0. /\ [JournalNext]_jvars /\ Conn(c) \in Thread
        /\ \A via \in Vias : <<c, via>> \in Thread
    BY RequestUsesJournal DEF BusInv
  <1>1. ASSUME Ready(c), Ask
        PROVE  /\ asked \in Nat /\ asked' \in 0 .. MaxRequests
               /\ 0 .. asked \subseteq 0 .. asked' /\ 0 .. asked \subseteq 0 .. MaxRequests
               /\ \A n \in 0 .. asked : n + 1 \in 0 .. asked'
    BY <1>1, TxnBusAssumption DEF Ready, Ask, BusInv, BusTypes
  <1>2. ASSUME NEW t \in Names[c], TxnBegin(c, t)  PROVE BusInv'
    <2>1. /\ UNCHANGED <<ledger, nextWitness, call, wire, page>> /\ Ready(c) /\ Ask
          /\ born' = [born EXCEPT ![IF t = NoTxn THEN Allocated ELSE t] = @ + 1]
      BY <1>2 DEF TxnBegin
    <2>2. PICK x : born' = [born EXCEPT ![x] = @ + 1]
      BY <2>1
    <2>3. born' \in [TxnId -> 0 .. asked']
      BY <1>1, <2>1, <2>2 DEF BusInv, BusTypes
    <2>4. page' \in [Proj -> Val]
      BY <2>1 DEF BusInv, BusTypes
    <2> QED  BY <1>0, <1>1, <2>1, <2>3, <2>4, StandingStep
  <1>3. ASSUME NEW t \in Names[c], NEW v \in Verb \cup Pure \cup Irreversible, Call(c, t, v)
        PROVE  BusInv'
    <2> DEFINE r == IF Gated(t) /\ Rev(v) = "inverse"
                      THEN [pc |-> "record", tag |-> t, verb |-> v]
                      ELSE [pc |-> "forward", tag |-> t, verb |-> v, seq |-> 0]
    <2>1. /\ Goto(Conn(c), r) /\ Ready(c) /\ Ask
          /\ UNCHANGED <<ledger, nextWitness, wire, page, born>>
      BY <1>3 DEF Call
    <2>2. r \in BusPhase /\ r.pc \in {"record", "forward"} /\ (r.pc = "forward" => r.seq = 0)
      BY DEF BusPhase, Phase, Rev
    <2> HIDE DEF r
    <2> QED  BY <1>0, <1>1, <2>1, <2>2, AskStep
  <1>4. ASSUME NEW t \in Names[c], NEW f \in Forms, NEW q \in Proj, NEW o \in Op \cup {NoOp},
               Witness(c, t, f, q, o)
        PROVE  BusInv'
    <2> DEFINE txns == Targets(IF f = "args" THEN t ELSE NoTxn)
               r == [pc |-> "read", tag |-> t, proj |-> q, op |-> o,
                     for |-> {[txn |-> x, born |-> born[x]] : x \in txns}]
    <2>1. /\ Goto(Conn(c), r) /\ Ready(c) /\ Ask
          /\ UNCHANGED <<ledger, nextWitness, wire, page, born>>
      BY <1>4 DEF Witness
    <2>2. txns \subseteq TxnId
      BY DEF Targets, BusInv, JournalInv, JournalTypeOK
    <2>3. \A x \in txns : born[x] \in 0 .. MaxRequests
      BY <1>1, <2>1, <2>2 DEF BusInv, BusTypes
    <2>4. r \in BusPhase /\ r.pc = "read"
      BY <2>2, <2>3 DEF BusPhase, Phase
    <2> HIDE DEF r
    <2> QED  BY <1>0, <1>1, <2>1, <2>4, AskStep
  <1>5. ASSUME NEW t \in Names[c] \ {NoTxn}, TxnAbort(c, t)  PROVE BusInv'
    <2> DEFINE r == [pc |-> "drop", txn |-> t, steps |-> Reversed(Journaled(t))]
    <2>1. /\ Goto(Conn(c), r) /\ Ready(c) /\ Ask /\ TakeReversed(t)
          /\ UNCHANGED <<ledger, nextWitness, wire, page, born>>
      BY <1>5 DEF TxnAbort, Drain
    <2>2. r \in BusPhase /\ Whole(r) \subseteq undone' /\ Whole(r) \cap undone = {} /\ r.pc = "drop"
      BY <2>1, DrainHandsOver
    <2> HIDE DEF r
    <2> QED  BY <1>0, <1>1, <2>1, <2>2, AskStep
  <1>6. ASSUME NEW t \in Names[c] \ {NoTxn}, NEW via \in Vias, TxnCommit(c, t, via)
        PROVE  BusInv'
    <2> DEFINE th == IF Ledgered(t) # {} THEN <<c, via>> ELSE Conn(c)
               r == [pc |-> "take", txn |-> t]
    <2>1. /\ Goto(th, r) /\ Ready(c) /\ Ask
          /\ UNCHANGED <<ledger, nextWitness, wire, page, born>>
      BY <1>6 DEF TxnCommit
    <2>2. r \in BusPhase /\ r.pc = "take" /\ th \in Thread
      BY <1>0 DEF BusPhase, Phase
    <2> HIDE DEF r, th
    <2> QED  BY <1>0, <1>1, <2>1, <2>2, AskStep
  <1> QED  BY <1>2, <1>3, <1>4, <1>5, <1>6 DEF Request

(* A thread publishes a frame and is done with its request. *)
LEMMA PublishStep ==
  ASSUME BusInv, NEW th \in Thread, Goto(th, Idle), NEW f \in Frame, wire' = Append(wire, f),
         UNCHANGED <<jvars, ledger, nextWitness, page, asked, born>>,
         f.kind = "do" => f.seq <= seqClock',
         f.kind = "undo" => Whole(f) \subseteq undone'
  PROVE  BusInv'
  <1>1. /\ asked' \in 0 .. MaxRequests /\ born' \in [TxnId -> 0 .. asked']
        /\ nextWitness' \in Nat /\ nextWitness <= nextWitness' /\ ledger' \subseteq Premise
    BY DEF BusInv, BusTypes
  <1>2. \A p \in ledger' : p.id <= nextWitness' /\ (p \in ledger \/ p.id > nextWitness)
    BY DEF BusInv, BusClocks
  <1>3. Idle.pc = "idle"
    BY DEF Idle
  <1> QED  BY <1>1, <1>2, <1>3, IdleInBusPhase, ThreadStep

(* A thread moves on and takes premises out of the ledger. *)
LEMMA LedgerShrinks ==
  ASSUME BusInv, NEW th \in Thread, NEW r \in BusPhase, Goto(th, r), ledger' \subseteq ledger,
         UNCHANGED <<jvars, nextWitness, wire, page, asked, born>>,
         r.pc \in {"idle", "undo", "close", "validate"},
         r.pc = "validate" =>
           r.premises \cap ledger' = {} /\ \A p \in r.premises : p.id <= nextWitness',
         r.pc = "undo" =>
           /\ Whole(r) \subseteq undone' /\ r.steps # {}
           /\ th \in Draining /\ Whole(r) = Whole(call[th])
  PROVE  BusInv'
  <1>1. /\ asked' \in 0 .. MaxRequests /\ born' \in [TxnId -> 0 .. asked']
        /\ nextWitness' \in Nat /\ nextWitness <= nextWitness' /\ ledger' \subseteq Premise
    BY DEF BusInv, BusTypes
  <1>2. \A p \in ledger' : p.id <= nextWitness' /\ (p \in ledger \/ p.id > nextWitness)
    BY DEF BusInv, BusClocks
  <1> QED  BY <1>1, <1>2, ThreadStep

LEMMA AdvanceKeepsBusInv ==
  ASSUME BusInv, NEW th \in Thread, Advance(th) \/ ReadPage(th) \/ Revalidate(th)
  PROVE  BusInv'
  <1>0. /\ [JournalNext]_jvars /\ call[th] \in BusPhase
        /\ asked \in 0 .. MaxRequests /\ born \in [TxnId -> 0 .. asked]
    BY ThreadUsesJournal DEF BusInv, BusTypes
  <1>1. CASE CallRecord(th)
    <2>0. call[th].tag \in Named /\ call[th].verb \in Verb
      BY <1>0, <1>1 DEF BusPhase, Phase, CallRecord, At
    <2>1. PICK seq \in {0, seqClock + 1} :
            /\ Goto(th, [pc |-> "forward", tag |-> call[th].tag, verb |-> call[th].verb, seq |-> seq])
            /\ seq # 0 => seqClock' = seqClock + 1
      BY <1>1 DEF CallRecord, Record
    <2> DEFINE r == [pc |-> "forward", tag |-> call[th].tag, verb |-> call[th].verb, seq |-> seq]
    <2>2. Goto(th, r)
      BY <2>1
    <2>3. seqClock \in Nat /\ seqClock' \in Nat
      BY <1>0, JournalGrows DEF BusInv, BusTypes
    <2>4. r \in BusPhase /\ r.pc = "forward" /\ r.seq <= seqClock'
      BY <2>0, <2>1, <2>3 DEF BusPhase, Phase
    <2>5. UNCHANGED <<ledger, nextWitness, wire, page, asked, born>>
      BY <1>1 DEF CallRecord
    <2> HIDE DEF r
    <2> QED  BY <1>0, <2>2, <2>4, <2>5, QuietStep
  <1>2. CASE Forward(th)
    <2> DEFINE f == [kind |-> "do", txn |-> call[th].tag, seq |-> call[th].seq, verb |-> call[th].verb]
    <2>1. /\ wire' = Append(wire, f) /\ Goto(th, Idle)
          /\ UNCHANGED <<jvars, ledger, nextWitness, page, asked, born>>
      BY <1>2 DEF Forward
    <2>2. /\ call[th].tag \in Named /\ call[th].verb \in Verb \cup Pure \cup Irreversible
          /\ call[th].seq \in Nat /\ call[th].seq <= seqClock
      BY <1>0, <1>2 DEF BusPhase, Phase, Forward, At, BusInv, BusClocks
    <2>3. f \in Frame /\ f.kind = "do" /\ f.seq <= seqClock'
      BY <2>1, <2>2 DEF Frame, jvars
    <2> HIDE DEF f
    <2> QED  BY <1>0, <2>1, <2>3, PublishStep
  <1>3. CASE ReadPage(th)
    <2> DEFINE r == call[th]
               v == page[r.proj]
               s == IF ~ Satisfies(v, r.op) THEN Idle
                    ELSE [pc |-> "file", tag |-> r.tag, proj |-> r.proj, for |-> r.for,
                          accept |-> IF r.op = NoOp THEN {v} ELSE r.op]
    <2>1. Goto(th, s) /\ UNCHANGED <<ledger, nextWitness, wire, page, asked, born>>
      BY <1>3 DEF ReadPage
    <2>2. /\ r.tag \in Named /\ r.proj \in Proj /\ r.op \in Op \cup {NoOp}
          /\ r.for \in SUBSET [txn : TxnId, born : 0 .. MaxRequests]
      BY <1>0, <1>3 DEF BusPhase, Phase, ReadPage, At
    <2>3. v \in Val /\ Op \subseteq SUBSET Val /\ NoOp \notin Op
      BY <2>2, TxnBusAssumption DEF BusInv, BusTypes
    <2>4. (IF r.op = NoOp THEN {v} ELSE r.op) \in (SUBSET Val) \ {{}}
      BY <2>2, <2>3 DEF NoOp
    <2>5. s \in BusPhase /\ s.pc \in {"idle", "file"}
      BY <2>2, <2>4, IdleInBusPhase DEF BusPhase, Phase, Idle
    <2> HIDE DEF s
    <2> QED  BY <1>0, <2>1, <2>5, QuietStep
  <1>4. CASE ReadFails(th)
    BY <1>0, <1>4, IdleInBusPhase, QuietStep DEF ReadFails, Idle
  <1>5. CASE FilePremise(th)
    <2> DEFINE r == call[th]
               P == {[id |-> nextWitness + 1, tag |-> r.tag, txn |-> f.txn, born |-> f.born,
                      proj |-> r.proj, accept |-> r.accept] : f \in r.for}
    <2>1. /\ nextWitness' = nextWitness + 1 /\ ledger' = ledger \cup P /\ Goto(th, Idle)
          /\ UNCHANGED <<wire, page, asked, born>>
      BY <1>5 DEF FilePremise
    <2>2. /\ r.tag \in Named /\ r.proj \in Proj /\ r.accept \in (SUBSET Val) \ {{}}
          /\ r.for \in SUBSET [txn : TxnId, born : 0 .. MaxRequests]
      BY <1>0, <1>5 DEF BusPhase, Phase, FilePremise, At
    <2>3. nextWitness \in Nat /\ \A p \in ledger : p.id \in Nat /\ p.id <= nextWitness
      BY DEF BusInv, BusTypes, BusClocks, Premise
    <2>4. P \subseteq Premise /\ \A p \in P : p.id = nextWitness + 1
      BY <2>2, <2>3 DEF Premise
    <2> HIDE DEF P
    <2>5. ledger' \subseteq Premise /\ nextWitness' \in Nat /\ nextWitness <= nextWitness'
      BY <2>1, <2>3, <2>4 DEF BusInv, BusTypes
    <2>6. \A p \in ledger' : p.id <= nextWitness' /\ (p \in ledger \/ p.id > nextWitness)
      BY <2>1, <2>3, <2>4
    <2> QED  BY <1>0, <2>1, <2>5, <2>6, IdleInBusPhase, ThreadStep DEF Idle
  <1>6. CASE DropPremises(th)
    <2> DEFINE r == IF call[th].steps = {} THEN Idle
                    ELSE [pc |-> "undo", txn |-> call[th].txn, steps |-> call[th].steps]
    <2>1. Goto(th, r) /\ ledger' \subseteq ledger /\ UNCHANGED <<jvars, nextWitness, wire, page, asked, born>>
      BY <1>6 DEF DropPremises
    <2>2. /\ call[th].txn \in Ids /\ th \in Draining
          /\ call[th].steps \in SUBSET [place : Nat, seq : 1 .. MaxSeq, verb : Verb]
      BY <1>0, <1>6 DEF BusPhase, Phase, DropPremises, At, Draining
    <2>3. r \in BusPhase /\ r.pc \in {"idle", "undo"}
      BY <2>2, IdleInBusPhase DEF BusPhase, Phase, Idle
    <2>4. r.pc = "undo" => Whole(r) = Whole(call[th]) /\ r.steps # {}
      BY DEF Idle, Whole
    <2>5. Whole(call[th]) \subseteq undone'
      BY <2>1, <2>2 DEF BusInv, Drained, jvars
    <2> HIDE DEF r
    <2> QED  BY <1>0, <2>1, <2>2, <2>3, <2>4, <2>5, LedgerShrinks
  <1>7. CASE SendUndo(th)
    <2> DEFINE f == [kind |-> "undo", txn |-> call[th].txn, steps |-> call[th].steps]
    <2>1. /\ wire' = Append(wire, f) /\ Goto(th, Idle)
          /\ UNCHANGED <<jvars, ledger, nextWitness, page, asked, born>>
      BY <1>7 DEF SendUndo
    <2>2. /\ call[th].txn \in Ids /\ th \in Draining
          /\ call[th].steps \in SUBSET [place : Nat, seq : 1 .. MaxSeq, verb : Verb]
      BY <1>0, <1>7 DEF BusPhase, Phase, SendUndo, At, Draining
    <2>3. f \in Frame /\ f.kind = "undo" /\ Whole(f) = Whole(call[th])
      BY <2>2 DEF Frame, Whole
    <2>4. Whole(f) \subseteq undone'
      BY <2>1, <2>2, <2>3 DEF BusInv, Drained, jvars
    <2> HIDE DEF f
    <2> QED  BY <1>0, <2>1, <2>3, <2>4, PublishStep
  <1>8. CASE TakePremises(th)
    <2> DEFINE P == Ledgered(call[th].txn)
               r == IF P = {} THEN [pc |-> "close", txn |-> call[th].txn]
                    ELSE [pc |-> "validate", txn |-> call[th].txn, premises |-> P]
    <2>1. /\ Goto(th, r) /\ ledger' = ledger \ P
          /\ UNCHANGED <<jvars, nextWitness, wire, page, asked, born>>
      BY <1>8 DEF TakePremises
    <2>2. call[th].txn \in Ids /\ P \subseteq ledger /\ ledger \subseteq Premise
      BY <1>0, <1>8 DEF BusPhase, Phase, TakePremises, At, Ledgered, BusInv, BusTypes
    <2>3. r \in BusPhase /\ r.pc \in {"close", "validate"} /\ (r.pc = "validate" => r.premises = P)
      BY <2>2 DEF BusPhase, Phase
    <2>4. r.pc = "validate" =>
            r.premises \cap ledger' = {} /\ \A p \in r.premises : p.id <= nextWitness'
      BY <2>1, <2>2, <2>3 DEF BusInv, BusClocks
    <2> HIDE DEF r, P
    <2> QED  BY <1>0, <2>1, <2>2, <2>3, <2>4, LedgerShrinks
  <1>9. CASE RevalidateFails(th) \/ Revalidate(th)
    <2>1. PICK p \in {"close", "unwind"} : Goto(th, [txn |-> call[th].txn, pc |-> p])
      BY <1>9 DEF RevalidateFails, Revalidate
    <2>2. call[th].txn \in Ids /\ UNCHANGED <<ledger, nextWitness, wire, page, asked, born>>
      BY <1>0, <1>9 DEF BusPhase, Phase, RevalidateFails, Revalidate, At
    <2>3. [txn |-> call[th].txn, pc |-> p] \in BusPhase
      BY <2>2 DEF BusPhase, Phase
    <2> QED  BY <1>0, <2>1, <2>2, <2>3, QuietStep
  <1>10. CASE Close(th)
    BY <1>0, <1>10, IdleInBusPhase, QuietStep DEF Close, Idle
  <1>11. CASE Unwind(th)
    <2> DEFINE t == call[th].txn
               r == [pc |-> "drop", txn |-> t, steps |-> Reversed(Journaled(t))]
    <2>1. /\ Goto(th, r) /\ TakeReversed(t)
          /\ UNCHANGED <<ledger, nextWitness, wire, page, asked, born>>
      BY <1>11 DEF Unwind, Drain
    <2>2. t \in Ids
      BY <1>0, <1>11 DEF BusPhase, Phase, Unwind, At
    <2>3. r \in BusPhase /\ Whole(r) \subseteq undone' /\ Whole(r) \cap undone = {} /\ r.pc = "drop"
      BY <2>1, <2>2, DrainHandsOver
    <2> HIDE DEF r, t
    <2> QED  BY <1>0, <2>1, <2>3, QuietStep
  <1> QED  BY <1>1, <1>2, <1>3, <1>4, <1>5, <1>6, <1>7, <1>8, <1>9, <1>10, <1>11 DEF Advance

LEMMA BusInvNext == BusInv /\ [TxnBusNext]_vars => BusInv'
  <1> SUFFICES ASSUME BusInv, [TxnBusNext]_vars  PROVE BusInv'
    OBVIOUS
  <1>1. CASE PageChange \/ UNCHANGED vars
    <2>1. UNCHANGED <<jvars, ledger, nextWitness, call, wire, asked, born>>
      BY <1>1 DEF PageChange, vars, bvars
    <2>2. page' \in [Proj -> Val]
      BY <1>1 DEF PageChange, vars, bvars, BusInv, BusTypes
    <2> QED  BY <2>1, <2>2, StandingStep DEF BusInv, BusTypes
  <1>2. CASE \E c \in Client : Request(c)
    BY <1>2, RequestKeepsBusInv
  <1>3. CASE \E th \in Thread : Advance(th) \/ ReadPage(th) \/ Revalidate(th)
    BY <1>3, AdvanceKeepsBusInv
  <1> QED  BY <1>1, <1>2, <1>3 DEF TxnBusNext, Browser

(* In every state of the bus the records of threads, ledger and wire have  *)
(* their types, and what is being compensated left the journal for that.   *)
THEOREM BusInvariant == TxnBusSpec => []BusInv
  BY InitBusInv, BusInvNext, PTL DEF TxnBusSpec

-----------------------------------------------------------------------------
(* Stamps, the keys the worker files a step under, tell steps apart.       *)
LEMMA StampTells ==
  ASSUME JournalInv, NEW e \in Ever, NEW f \in Ever, Stamp(e) = Stamp(f)
  PROVE  e = f
  <1>1. e \in JournalEntry /\ f \in JournalEntry
    BY DEF JournalInv, JournalTypeOK, Ever
  <1>2. e.txn = f.txn /\ e.seq = f.seq
    BY DEF Stamp
  <1>3. e.verb = f.verb
    BY <1>2 DEF JournalInv, OneCallPerSeq
  <1> QED  BY <1>1, <1>2, <1>3 DEF JournalEntry

LEMMA StampsOfWhole ==
  ASSUME NEW r
  PROVE  StampsOf(r) = {Stamp(e) : e \in Whole(r)}
  <1> DEFINE w(s) == [seq |-> s.seq, txn |-> r.txn, verb |-> s.verb]
  <1>1. \A s \in r.steps : Stamp(w(s)) = [txn |-> r.txn, seq |-> s.seq] /\ w(s) \in Whole(r)
    BY DEF Stamp, Whole
  <1>2. \A e \in Whole(r) : \E s \in r.steps : e = w(s)
    BY DEF Whole
  <1>3. \A x \in StampsOf(r) : \E s \in r.steps : x = [txn |-> r.txn, seq |-> s.seq]
    BY DEF StampsOf
  <1>4. \A s \in r.steps : [txn |-> r.txn, seq |-> s.seq] \in StampsOf(r)
    BY DEF StampsOf
  <1> HIDE DEF w
  <1> QED  BY <1>1, <1>2, <1>3, <1>4

(* The batch a thread with record r has decided on and not yet sent. *)
Batch(r) == IF r.pc \in {"drop", "undo"} /\ r.steps # {} THEN {StampsOf(r)} ELSE {}

LEMMA UnsentMoves ==
  ASSUME BusInv, NEW th \in Thread, NEW r, Goto(th, r)
  PROVE  LET Others == UNION {Batch(call[x]) : x \in Thread \ {th}}
         IN  Unsent = Others \cup Batch(call[th]) /\ Unsent' = Others \cup Batch(r)
  <1> DEFINE Others == UNION {Batch(call[x]) : x \in Thread \ {th}}
  <1>1. Unsent = UNION {Batch(call[x]) : x \in Thread}
    BY DEF Unsent, Batch
  <1>2. Unsent' = UNION {Batch(call'[x]) : x \in Thread}
    BY DEF Unsent, Batch
  <1>3. \A x \in Thread : call'[x] = IF x = th THEN r ELSE call[x]
    BY DEF Goto, BusInv, BusTypes
  <1>4. Unsent = Others \cup Batch(call[th])
    BY <1>1
  <1>5. Unsent' = Others \cup Batch(r)
    BY <1>2, <1>3
  <1> QED  BY <1>4, <1>5

(* The steps of different threads are different steps. *)
LEMMA BatchesApart ==
  ASSUME BusInv, NEW th \in Thread, call[th].pc \in {"drop", "undo"},
         NEW x \in Thread \ {th}, StampsOf(call[th]) \in Batch(call[x])
  PROVE  FALSE
  <1>1. th \in Draining /\ x \in Draining /\ StampsOf(call[th]) = StampsOf(call[x]) /\ call[x].steps # {}
    BY DEF Batch, Draining
  <1>2. PICK s \in call[x].steps : TRUE
    BY <1>1
  <1>3. PICK e \in Whole(call[x]) : TRUE
    BY <1>2 DEF Whole
  <1>a. StampsOf(call[th]) = {Stamp(f) : f \in Whole(call[th])}
    BY StampsOfWhole
  <1>b. StampsOf(call[x]) = {Stamp(f) : f \in Whole(call[x])}
    BY StampsOfWhole
  <1>c. Stamp(e) \in StampsOf(call[x])
    BY <1>b, <1>3
  <1>d. Stamp(e) \in {Stamp(f) : f \in Whole(call[th])}
    BY <1>1, <1>a, <1>c
  <1>4. PICK f \in Whole(call[th]) : Stamp(e) = Stamp(f)
    BY <1>d
  <1>5. e \in Ever /\ f \in Ever
    BY <1>1 DEF BusInv, Drained, Ever
  <1>6. e = f
    BY <1>4, <1>5, StampTells DEF BusInv
  <1> QED  BY <1>1, <1>6 DEF BusInv, Drained

(* The types of the run, and that what threads are compensating is no      *)
(* longer in the journal.                                                  *)
THEOREM BusTypesCorrect == TxnBusSpec => []TxnTypeOK
  <1>1. BusInv => TxnTypeOK
    <2> SUFFICES ASSUME BusInv PROVE TxnTypeOK
      OBVIOUS
    <2>1. \A th \in Thread :
            LET r == call[th]
            IN \/ r \in Phase
               \/ r.pc = "validate" /\ r.premises # {} /\ r.premises \cap ledger = {}
      BY DEF BusInv, BusTypes, BusPhase, BusClocks, At
    <2>2. ASSUME NEW B \in Unsent, NEW x \in B, NEW e \in entries, x = Stamp(e) PROVE FALSE
      <3>1. PICK th \in Draining : B = StampsOf(call[th])
        BY DEF Unsent, Draining
      <3>2. PICK f \in Whole(call[th]) : x = Stamp(f)
        BY <3>1, StampsOfWhole
      <3>3. f \in undone /\ e \in Ever /\ f \in Ever
        BY <3>2 DEF BusInv, Drained, Ever
      <3>4. e = f
        BY <2>2, <3>2, <3>3, StampTells DEF BusInv
      <3> QED  BY <3>3, <3>4 DEF BusInv, JournalInv, OneFate
    <2>3. \A p \in ledger : p.id \in 1 .. nextWitness /\ p.accept # {}
      BY DEF BusInv, BusTypes, BusClocks, Premise
    <2>4. \A i \in DOMAIN wire : wire[i].kind = "do" => wire[i].seq <= seqClock
      BY DEF BusInv, BusClocks
    <2> QED  BY <2>1, <2>2, <2>3, <2>4 DEF TxnTypeOK
  <1> QED  BY <1>1, BusInvariant, PTL

-----------------------------------------------------------------------------
(* The refinement of Saga.  Its state, seen from the bus: pending are the  *)
(* stamps of the journal, batches what threads have yet to send, and sent  *)
(* the undo frames on the wire.                                            *)
SentFrames == {[at |-> i, steps |-> StampsOf(wire[i])] : i \in Undos}

LEMMA StutterOfSaga ==
  ASSUME UNCHANGED <<entries, kept, Unsent, SentFrames>>
  PROVE  UNCHANGED Promise!svars
  BY DEF Promise!svars, SentFrames

LEMMA OfStamps ==
  ASSUME NEW t
  PROVE  Promise!Of(t) = {Stamp(e) : e \in Journaled(t)}
  BY DEF Promise!Of, Journaled, Stamp

(* A transaction that ends takes exactly its own stamps along. *)
LEMMA StampsLeave ==
  ASSUME NEW t, entries' = entries \ Journaled(t)
  PROVE  {Stamp(e) : e \in entries}' = {Stamp(e) : e \in entries} \ Promise!Of(t)
  BY DEF Promise!Of, Journaled, Stamp

LEMMA SentGrows ==
  ASSUME BusInv, NEW f \in Frame, wire' = Append(wire, f)
  PROVE  LET m == [at |-> Len(wire) + 1, steps |-> StampsOf(f)]
         IN  /\ f.kind = "do" => SentFrames' = SentFrames
             /\ f.kind = "undo" => SentFrames' = SentFrames \cup {m} /\ m \notin SentFrames
  <1>1. /\ DOMAIN wire' = DOMAIN wire \cup {Len(wire) + 1}
        /\ Len(wire) + 1 \notin DOMAIN wire /\ wire'[Len(wire) + 1] = f
        /\ \A i \in DOMAIN wire : wire'[i] = wire[i]
    BY WireGrows DEF BusInv, BusTypes
  <1>2. SentFrames' = {[at |-> i, steps |-> StampsOf(wire'[i])] : i \in Undos'}
    BY DEF SentFrames
  <1>3. \A i \in Undos : [at |-> i, steps |-> StampsOf(wire'[i])] = [at |-> i, steps |-> StampsOf(wire[i])]
    BY <1>1 DEF Undos
  <1>4. {[at |-> i, steps |-> StampsOf(wire'[i])] : i \in Undos} = SentFrames
    BY <1>3 DEF SentFrames
  <1>5. CASE f.kind = "do"
    <2>1. Undos' = Undos
      BY <1>1, <1>5 DEF Undos
    <2> QED  BY <1>2, <1>4, <1>5, <2>1
  <1>6. CASE f.kind = "undo"
    <2> DEFINE m == [at |-> Len(wire) + 1, steps |-> StampsOf(f)]
    <2>1. Undos' = Undos \cup {Len(wire) + 1} /\ Len(wire) + 1 \notin Undos
      BY <1>1, <1>6 DEF Undos
    <2>2. SentFrames' = {[at |-> i, steps |-> StampsOf(wire'[i])] : i \in Undos} \cup {m}
      BY <1>1, <1>2, <2>1
    <2>3. \A x \in SentFrames : x.at \in Undos
      BY DEF SentFrames
    <2>4. m.at = Len(wire) + 1
      OBVIOUS
    <2>5. m \notin SentFrames
      BY <2>1, <2>3, <2>4
    <2>6. SentFrames' = SentFrames \cup {m}
      BY <1>4, <2>2
    <2> QED  BY <1>6, <2>5, <2>6
  <1>7. f.kind \in {"do", "undo"}
    BY DEF Frame
  <1> QED  BY <1>5, <1>6, <1>7

LEMMA SentStands ==
  ASSUME UNCHANGED wire
  PROVE  SentFrames' = SentFrames
  BY DEF SentFrames, Undos, StampsOf

(* A thread moves without deciding on a compensation or sending one. *)
LEMMA UnsentStands ==
  ASSUME BusInv, NEW th \in Thread, NEW r, Goto(th, r), Batch(r) = Batch(call[th])
  PROVE  Unsent' = Unsent
  BY UnsentMoves

(* The clock is ahead of every stamp that Saga knows of. *)
LEMMA KnownBehind ==
  ASSUME BusInv, NEW k \in Promise!Known
  PROVE  k.seq \in Nat /\ k.seq <= seqClock
  <1>1. \A e \in Ever : Stamp(e).seq \in Nat /\ Stamp(e).seq <= seqClock
    BY DEF BusInv, JournalInv, JournalTypeOK, Ever, JournalEntry, Stamp
  <1>2. CASE k \in {Stamp(e) : e \in entries} \cup {Stamp(e) : e \in kept}
    BY <1>1, <1>2 DEF Ever
  <1>3. ASSUME NEW B \in Unsent, k \in B  PROVE k.seq \in Nat /\ k.seq <= seqClock
    <2>1. PICK th \in Draining : B = StampsOf(call[th])
      BY DEF Unsent, Draining
    <2>2. PICK e \in Whole(call[th]) : k = Stamp(e)
      BY <1>3, <2>1, StampsOfWhole
    <2>3. e \in Ever
      BY <2>2 DEF BusInv, Drained, Ever
    <2> QED  BY <1>1, <2>2, <2>3
  <1>4. ASSUME NEW u \in Undos, k \in StampsOf(wire[u])  PROVE k.seq \in Nat /\ k.seq <= seqClock
    <2>1. PICK e \in Whole(wire[u]) : k = Stamp(e)
      BY <1>4, StampsOfWhole
    <2>2. e \in Ever
      BY <2>1 DEF BusInv, Drained, Ever
    <2> QED  BY <1>1, <2>1, <2>2
  <1>5. \/ k \in {Stamp(e) : e \in entries} \cup {Stamp(e) : e \in kept}
        \/ \E B \in Unsent : k \in B
        \/ \E u \in Undos : k \in StampsOf(wire[u])
    BY DEF Promise!Known
  <1> QED  BY <1>2, <1>3, <1>4, <1>5

(* A transaction is drained: its stamps leave together, as one batch. *)
LEMMA DrainTakes ==
  ASSUME BusInv, NEW th \in Thread, call[th].pc \in {"idle", "unwind"}, NEW t \in Ids, Drain(th, t)
  PROVE  [Promise!SagaNext]_Promise!svars
  <1> DEFINE J == Journaled(t)
             r == [pc |-> "drop", txn |-> t, steps |-> Reversed(J)]
             Others == UNION {Batch(call[x]) : x \in Thread \ {th}}
  <1>1. TakeReversed(t) /\ Goto(th, r) /\ UNCHANGED <<wire, kept>>
    BY DEF Drain, TakeReversed
  <1>2. Whole(r) = J
    BY <1>1, DrainHandsOver
  <1>3. Batch(call[th]) = {}
    BY DEF Batch
  <1>4. Unsent = Others \cup Batch(call[th]) /\ Unsent' = Others \cup Batch(r)
    BY <1>1, UnsentMoves
  <1>5. StampsOf(r) = Promise!Of(t)
    <2>1. StampsOf(r) = {Stamp(e) : e \in Whole(r)}
      BY StampsOfWhole
    <2> HIDE DEF r
    <2> QED  BY <1>2, <2>1, OfStamps
  <1>6. SentFrames' = SentFrames
    BY <1>1, SentStands
  <1>7. r.steps = {} <=> J = {}
    BY DEF Reversed
  <1>8. J = {} <=> Promise!Of(t) = {}
    BY OfStamps
  <1>9. CASE J = {}
    <2>1. Batch(r) = {}
      BY <1>7, <1>9 DEF Batch
    <2>2. Unsent' = Unsent
      BY <1>3, <1>4, <2>1
    <2>3. entries' = entries
      BY <1>1, <1>9 DEF TakeReversed
    <2> QED  BY <1>1, <1>6, <2>2, <2>3, StutterOfSaga
  <1>10. CASE J # {}
    <2>1. Batch(r) = {Promise!Of(t)}
      BY <1>5, <1>7, <1>10 DEF Batch
    <2>2. Unsent' = Unsent \cup {Promise!Of(t)}
      BY <1>3, <1>4, <2>1
    <2>3. entries' = entries \ Journaled(t)
      BY <1>1 DEF TakeReversed
    <2>4. {Stamp(e) : e \in entries}' = {Stamp(e) : e \in entries} \ Promise!Of(t)
      BY <2>3, StampsLeave
    <2>5. Promise!Take(t)
      BY <1>1, <1>6, <1>8, <1>10, <2>2, <2>4 DEF Promise!Take, SentFrames
    <2>6. t \in TxnId
      BY NamesExplicit DEF Named, Ids
    <2> QED  BY <2>5, <2>6 DEF Promise!SagaNext
  <1> QED  BY <1>9, <1>10

(* A call journals its steps under the next number. *)
LEMMA RecordSteps ==
  ASSUME BusInv, NEW th \in Thread, CallRecord(th)
  PROVE  [Promise!SagaNext]_Promise!svars
  <1>1. PICK seq : Goto(th, [pc |-> "forward", tag |-> call[th].tag, verb |-> call[th].verb, seq |-> seq])
    BY DEF CallRecord
  <1>2. Unsent' = Unsent
    BY <1>1, UnsentStands DEF CallRecord, At, Batch
  <1>3. SentFrames' = SentFrames /\ UNCHANGED kept
    BY SentStands DEF CallRecord, Record, jvars
  <1>4. CASE entries' = entries
    BY <1>2, <1>3, <1>4, StutterOfSaga
  <1>5. CASE Record(call[th].tag, call[th].verb)
    <2> DEFINE New == {[seq |-> seqClock + 1, txn |-> t, verb |-> call[th].verb] : t \in Targets(call[th].tag)}
               NewStamps == {Stamp(e) : e \in entries}' \ {Stamp(e) : e \in entries}
    <2>1. entries' = entries \cup New
      BY <1>5 DEF Record
    <2>2. {Stamp(e) : e \in entries} \subseteq {Stamp(e) : e \in entries}'
      BY <2>1
    <2>3. \A s \in NewStamps : s.seq = seqClock + 1
      BY <2>1 DEF Stamp
    <2>4. seqClock \in Nat
      BY DEF BusInv, JournalInv, JournalTypeOK
    <2>5. \A s \in NewStamps, k \in Promise!Known : k.seq < s.seq
      BY <2>3, <2>4, KnownBehind
    <2>6. CASE NewStamps = {}
      <3>1. {Stamp(e) : e \in entries}' = {Stamp(e) : e \in entries}
        BY <2>2, <2>6
      <3> QED  BY <1>2, <1>3, <3>1 DEF Promise!svars, SentFrames
    <2>7. CASE NewStamps # {}
      <3>1. Promise!Step
        BY <1>2, <1>3, <2>2, <2>3, <2>5, <2>7 DEF Promise!Step, SentFrames
      <3> QED  BY <3>1 DEF Promise!SagaNext
    <2> QED  BY <2>6, <2>7
  <1> QED  BY <1>4, <1>5 DEF CallRecord, jvars

(* A commit that stands keeps all steps of its transaction. *)
LEMMA CloseKeeps ==
  ASSUME BusInv, NEW th \in Thread, Close(th)
  PROVE  [Promise!SagaNext]_Promise!svars
  <1> DEFINE t == call[th].txn
  <1>1. /\ Commit(t) /\ Goto(th, Idle) /\ UNCHANGED wire /\ call[th].pc = "close"
        /\ entries' = entries \ Journaled(t) /\ kept' = kept \cup Journaled(t)
    BY DEF Close, Commit, At
  <1>2. t \in TxnId
    BY <1>1 DEF BusInv, CallOK, ThreadOK
  <1>3. Unsent' = Unsent /\ SentFrames' = SentFrames
    BY <1>1, UnsentStands, SentStands DEF Batch, Idle
  <1>4. {Stamp(e) : e \in entries}' = {Stamp(e) : e \in entries} \ Promise!Of(t)
    BY <1>1, StampsLeave
  <1>5. {Stamp(e) : e \in kept}' = {Stamp(e) : e \in kept} \cup Promise!Of(t)
    BY <1>1, OfStamps
  <1>6. Promise!Keep(t)
    BY <1>3, <1>4, <1>5 DEF Promise!Keep, SentFrames
  <1> QED  BY <1>2, <1>6 DEF Promise!SagaNext

(* An undo frame carries one batch, which is then no longer to be sent. *)
LEMMA UndoSends ==
  ASSUME BusInv, NEW th \in Thread, SendUndo(th)
  PROVE  [Promise!SagaNext]_Promise!svars
  <1> DEFINE f == [kind |-> "undo", txn |-> call[th].txn, steps |-> call[th].steps]
             m == [at |-> Len(wire) + 1, steps |-> StampsOf(f)]
             B == StampsOf(call[th])
             Others == UNION {Batch(call[x]) : x \in Thread \ {th}}
  <1>1. /\ wire' = Append(wire, f) /\ Goto(th, Idle) /\ UNCHANGED <<entries, kept>>
        /\ call[th].pc = "undo"
    BY DEF SendUndo, jvars, At
  <1>2. call[th].steps # {}
    BY <1>1 DEF BusInv, Drained, Draining, At
  <1>3. f \in Frame /\ f.kind = "undo"
    BY <1>1 DEF BusInv, BusTypes, BusPhase, Phase, Frame
  <1>4. StampsOf(f) = B
    BY DEF StampsOf
  <1>5. SentFrames' = SentFrames \cup {m} /\ m \notin SentFrames
    BY <1>1, <1>3, SentGrows
  <1>6. Unsent = Others \cup {B} /\ Unsent' = Others
    BY <1>1, <1>2, UnsentMoves DEF Batch, Idle
  <1>7. B \notin Others
    BY <1>1, BatchesApart
  <1>8. PICK b : b = B
    OBVIOUS
  <1>9. Unsent' = Unsent \ {b} /\ b \in Unsent
    BY <1>6, <1>7, <1>8
  <1>10. m \in SentFrames' \ SentFrames /\ m.steps = b
    BY <1>4, <1>5, <1>8
  <1> HIDE DEF m, B
  <1>11. Promise!Send(b)
    BY <1>1, <1>5, <1>9, <1>10 DEF Promise!Send, SentFrames
  <1> QED  BY <1>9, <1>11 DEF Promise!SagaNext

(* What begins a transaction begins it empty. *)
LEMMA BeginStutters ==
  ASSUME BusInv, NoWrap, NEW c \in Client, NEW t \in Names[c], TxnBegin(c, t)
  PROVE  UNCHANGED <<entries, kept, call, wire>>
  <1>1. \A x : x \notin open => Journaled(x) = {}
    BY DEF Journaled, BusInv, JournalInv, JournalTypeOK
  <1>2. CASE t = NoTxn
    BY <1>1, <1>2, AllocatedFresh DEF TxnBegin, BeginAlloc, BusInv
  <1>3. CASE t # NoTxn
    BY <1>1, <1>3 DEF TxnBegin, BeginExplicit
  <1> QED  BY <1>2, <1>3

LEMMA RequestKeepsPromise ==
  ASSUME BusInv, NoWrap, NEW c \in Client, Request(c)
  PROVE  [Promise!SagaNext]_Promise!svars
  <1> USE ConnIsThread, NamesNamed
  <1>1. ASSUME NEW t \in Names[c], TxnBegin(c, t)  PROVE [Promise!SagaNext]_Promise!svars
    <2>1. UNCHANGED <<entries, kept, call, wire>>
      BY <1>1, BeginStutters
    <2>2. Unsent' = Unsent
      BY <2>1 DEF Unsent, StampsOf
    <2> QED  BY <2>1, <2>2, SentStands, StutterOfSaga
  <1>2. ASSUME NEW th \in Thread, NEW r, Goto(th, r), call[th].pc = "idle",
               r.pc \in {"record", "forward", "read", "take"}, UNCHANGED <<jvars, wire>>
        PROVE  [Promise!SagaNext]_Promise!svars
    <2>1. Unsent' = Unsent
      BY <1>2, UnsentStands DEF Batch
    <2>2. SentFrames' = SentFrames
      BY <1>2, SentStands
    <2> QED  BY <1>2, <2>1, <2>2, StutterOfSaga DEF jvars
  <1>3. ASSUME NEW t \in Names[c], NEW v \in Verb \cup Pure \cup Irreversible, Call(c, t, v)
        PROVE  [Promise!SagaNext]_Promise!svars
    <2> DEFINE r == IF Gated(t) /\ Rev(v) = "inverse"
                      THEN [pc |-> "record", tag |-> t, verb |-> v]
                      ELSE [pc |-> "forward", tag |-> t, verb |-> v, seq |-> 0]
    <2>1. Goto(Conn(c), r) /\ call[Conn(c)].pc = "idle" /\ UNCHANGED <<jvars, wire>>
      BY <1>3 DEF Call, Ready, At
    <2>2. r.pc \in {"record", "forward"}
      OBVIOUS
    <2> HIDE DEF r
    <2> QED  BY <1>2, <2>1, <2>2
  <1>4. ASSUME NEW t \in Names[c], NEW f \in Forms, NEW q \in Proj, NEW o \in Op \cup {NoOp},
               Witness(c, t, f, q, o)
        PROVE  [Promise!SagaNext]_Promise!svars
    <2>1. PICK r : Goto(Conn(c), r) /\ r.pc = "read"
      BY <1>4 DEF Witness
    <2> QED  BY <1>2, <1>4, <2>1 DEF Witness, Ready, At
  <1>5. ASSUME NEW t \in Names[c] \ {NoTxn}, TxnAbort(c, t)
        PROVE  [Promise!SagaNext]_Promise!svars
    BY <1>5, DrainTakes DEF TxnAbort, Ready, At
  <1>6. ASSUME NEW t \in Names[c] \ {NoTxn}, NEW via \in Vias, TxnCommit(c, t, via)
        PROVE  [Promise!SagaNext]_Promise!svars
    <2>1. PICK th \in Thread : Goto(th, [pc |-> "take", txn |-> t]) /\ call[th].pc = "idle"
      BY <1>6 DEF TxnCommit, At
    <2>2. UNCHANGED <<jvars, wire>>
      BY <1>6 DEF TxnCommit
    <2> QED  BY <1>2, <2>1, <2>2
  <1> QED  BY <1>1, <1>3, <1>4, <1>5, <1>6 DEF Request

LEMMA AdvanceKeepsPromise ==
  ASSUME BusInv, NEW th \in Thread, Advance(th) \/ ReadPage(th) \/ Revalidate(th)
  PROVE  [Promise!SagaNext]_Promise!svars
  <1>1. ASSUME NEW r, Goto(th, r), Batch(r) = Batch(call[th]), UNCHANGED <<entries, kept>>,
               SentFrames' = SentFrames
        PROVE  [Promise!SagaNext]_Promise!svars
    BY <1>1, UnsentStands, StutterOfSaga
  <1>2. CASE CallRecord(th)
    BY <1>2, RecordSteps
  <1>3. CASE Forward(th)
    <2> DEFINE f == [kind |-> "do", txn |-> call[th].tag, seq |-> call[th].seq, verb |-> call[th].verb]
    <2>1. f \in Frame /\ f.kind = "do"
      BY <1>3 DEF Forward, At, BusInv, BusTypes, BusPhase, Phase, Frame
    <2>2. wire' = Append(wire, f) /\ Goto(th, Idle) /\ UNCHANGED jvars /\ call[th].pc = "forward"
      BY <1>3 DEF Forward, At
    <2>3. SentFrames' = SentFrames
      BY <2>1, <2>2, SentGrows
    <2>4. Batch(Idle) = Batch(call[th])
      BY <2>2 DEF Batch, Idle
    <2> QED  BY <1>1, <2>2, <2>3, <2>4 DEF jvars
  <1>4. CASE ReadPage(th) \/ ReadFails(th) \/ FilePremise(th) \/ TakePremises(th)
             \/ RevalidateFails(th) \/ Revalidate(th)
    <2>1. PICK r : Goto(th, r) /\ r.pc \in {"idle", "file", "close", "validate", "unwind"}
      BY <1>4 DEF ReadPage, ReadFails, FilePremise, TakePremises, RevalidateFails, Revalidate, Idle
    <2>2. call[th].pc \in {"read", "file", "take", "validate"} /\ UNCHANGED <<jvars, wire>>
      BY <1>4 DEF ReadPage, ReadFails, FilePremise, TakePremises, RevalidateFails, Revalidate, At
    <2>3. Batch(r) = Batch(call[th])
      BY <2>1, <2>2 DEF Batch
    <2>4. SentFrames' = SentFrames
      BY <2>2, SentStands
    <2> QED  BY <1>1, <2>1, <2>2, <2>3, <2>4 DEF jvars
  <1>5. CASE DropPremises(th)
    <2> DEFINE r == IF call[th].steps = {} THEN Idle
                    ELSE [pc |-> "undo", txn |-> call[th].txn, steps |-> call[th].steps]
    <2>1. Goto(th, r) /\ call[th].pc = "drop" /\ UNCHANGED <<jvars, wire>>
      BY <1>5 DEF DropPremises, At
    <2>2. Batch(r) = Batch(call[th])
      BY <2>1 DEF Batch, Idle, StampsOf
    <2>3. SentFrames' = SentFrames
      BY <2>1, SentStands
    <2> QED  BY <1>1, <2>1, <2>2, <2>3 DEF jvars
  <1>6. CASE SendUndo(th)
    BY <1>6, UndoSends
  <1>7. CASE Close(th)
    BY <1>7, CloseKeeps
  <1>8. CASE Unwind(th)
    <2>1. call[th].txn \in Ids
      BY <1>8 DEF Unwind, At, BusInv, BusTypes, BusPhase, Phase
    <2> QED  BY <1>8, <2>1, DrainTakes DEF Unwind, At
  <1> QED  BY <1>2, <1>3, <1>4, <1>5, <1>6, <1>7, <1>8 DEF Advance

(* As long as ids do not wrap, the bus implements Saga: whatever calls,    *)
(* commits, conflicts and aborts of all clients interleave, the steps of a *)
(* transaction are kept together, or leave together in one compensation    *)
(* that is sent one time, and no stamp is used twice.                      *)
THEOREM BusKeepsPromise == ASSUME NoWrap PROVE TxnBusSpec => KeepsPromise
  <1>1. TxnBusInit => Promise!SagaInit
    BY DEF TxnBusInit, JournalInit, Idle, Promise!SagaInit, Unsent, Undos
  <1>2. BusInv /\ [TxnBusNext]_vars => [Promise!SagaNext]_Promise!svars
    <2> SUFFICES ASSUME BusInv, [TxnBusNext]_vars  PROVE [Promise!SagaNext]_Promise!svars
      OBVIOUS
    <2>1. CASE PageChange \/ UNCHANGED vars
      <3>1. UNCHANGED <<entries, kept, call, wire>>
        BY <2>1 DEF PageChange, vars, bvars, jvars
      <3>2. Unsent' = Unsent
        BY <3>1 DEF Unsent, StampsOf
      <3> QED  BY <3>1, <3>2, SentStands, StutterOfSaga
    <2>2. CASE \E c \in Client : Request(c)
      BY <2>2, RequestKeepsPromise
    <2>3. CASE \E th \in Thread : Advance(th) \/ ReadPage(th) \/ Revalidate(th)
      BY <2>3, AdvanceKeepsPromise
    <2> QED  BY <2>1, <2>2, <2>3 DEF TxnBusNext, Browser
  <1> QED  BY <1>1, <1>2, BusInvariant, PTL DEF TxnBusSpec, KeepsPromise, Promise!SagaSpec
=============================================================================
