------------------------ MODULE TxnDiscipline_proofs ------------------------
(***************************************************************************)
(* What transactions of several clients promise when the clients keep      *)
(* apart (Disciplined in TxnBus): compensation runs in the reverse of the  *)
(* order of execution, a transaction inherits no premise of an earlier one *)
(* with its id, and a commit stands only on premises that held together.   *)
(* The runs commit_retried, id_reused and abort_overtakes show what        *)
(* becomes of these without the discipline.                                *)
(***************************************************************************)
EXTENDS TxnBus_proofs

LEMMA ThreadPair ==
  ASSUME NEW th \in Thread
  PROVE  th[1] \in Client /\ th[2] \in {"conn", "session", "bus"} /\ th = <<th[1], th[2]>>
  BY DEF Thread

LEMMA ThreadsApart ==
  ASSUME NEW c \in Client
  PROVE  /\ Conn(c) \in Thread /\ Conn(c)[1] = c /\ Conn(c)[2] = "conn"
         /\ <<c, "session">> \in Thread /\ <<c, "session">>[1] = c /\ <<c, "session">>[2] = "session"
  BY DEF Thread, Conn

LEMMA CallMoves ==
  ASSUME BusInv, NEW th \in Thread, NEW r, Goto(th, r)
  PROVE  \A x \in Thread : call'[x] = IF x = th THEN r ELSE call[x]
  BY DEF BusInv, BusTypes, Goto

(* No two threads are about one transaction. *)
LEMMA OneThreadPerTxn ==
  ASSUME Disciplined, Alone, NEW th \in Busy, NEW x \in Busy, About(call[th]) = About(call[x])
  PROVE  th = x
  <1>1. th[1] \in Client /\ x[1] \in Client
    BY ThreadPair DEF Busy
  <1>2. About(call[th]) \in Names[th[1]] \cap Names[x[1]]
    BY DEF Alone
  <1>3. th[1] = x[1]
    BY <1>1, <1>2 DEF Disciplined
  <1> QED  BY <1>3 DEF Alone

(* While a client is ready to ask, no thread is about its transactions. *)
LEMMA ReadyIsFree ==
  ASSUME Disciplined, Alone, NEW c \in Client, Ready(c)
  PROVE  /\ \A x \in Busy : x[1] # c
         /\ \A t \in Names[c] : \A x \in Busy : About(call[x]) # t
  <1>1. ASSUME NEW x \in Busy PROVE x[1] # c
    <2>1. x[2] \in {"conn", "session"} /\ x = <<x[1], x[2]>>
      BY ThreadPair DEF Alone, Busy
    <2> QED  BY <2>1 DEF Ready, At, Conn, Busy
  <1>2. ASSUME NEW t \in Names[c], NEW x \in Busy, About(call[x]) = t PROVE FALSE
    <2>1. t \in Names[x[1]] /\ x[1] \in Client
      BY <1>2, ThreadPair DEF Alone, Busy
    <2> QED  BY <1>1, <2>1 DEF Disciplined
  <1> QED  BY <1>1, <1>2

-----------------------------------------------------------------------------
(* A client has one thread at work. *)
LEMMA AloneMoves ==
  ASSUME BusInv, Alone, NEW th \in Thread, NEW r, Goto(th, r),
         r.pc # "idle" =>
           /\ th[2] # "bus" /\ About(r) \in Names[th[1]]
           /\ \A x \in Busy : x[1] = th[1] => x = th
  PROVE  Alone'
  <1>1. \A x \in Thread : call'[x] = IF x = th THEN r ELSE call[x]
    BY CallMoves
  <1>2. /\ \A x \in Busy' : x # th => x \in Busy /\ call'[x] = call[x]
        /\ th \in Busy' => r.pc # "idle" /\ call'[th] = r
    BY <1>1 DEF Busy
  <1>3. ASSUME NEW x \in Busy' PROVE x[2] # "bus" /\ About(call'[x]) \in Names[x[1]]
    BY <1>2 DEF Alone
  <1>4. ASSUME NEW x \in Busy', NEW y \in Busy', x[1] = y[1] PROVE x = y
    BY <1>2, <1>4 DEF Alone
  <1> QED  BY <1>3, <1>4 DEF Alone, About

LEMMA RequestKeepsAlone ==
  ASSUME Disciplined, BusInv, Alone, NEW c \in Client, Request(c)
  PROVE  Alone'
  <1> USE ThreadsApart
  <1>1. ASSUME NEW t \in Names[c], Ready(c), NEW th \in {Conn(c), <<c, "session">>},
               NEW r, Goto(th, r), About(r) = t
        PROVE  Alone'
    <2>1. \A x \in Busy : x[1] # c
      BY <1>1, ReadyIsFree
    <2>2. th \in Thread /\ th[1] = c /\ th[2] # "bus"
      BY <1>1
    <2> QED  BY <1>1, <2>1, <2>2, AloneMoves
  <1>2. ASSUME NEW t \in Names[c], TxnBegin(c, t)  PROVE Alone'
    BY <1>2 DEF TxnBegin, Alone, Busy, About
  <1>3. ASSUME NEW t \in Names[c], NEW v \in Verb \cup Pure \cup Irreversible, Call(c, t, v)
        PROVE  Alone'
    BY <1>1, <1>3 DEF Call, About
  <1>4. ASSUME NEW t \in Names[c], NEW f \in Forms, NEW q \in Proj, NEW o \in Op \cup {NoOp},
               Witness(c, t, f, q, o)
        PROVE  Alone'
    <2>1. PICK r : Goto(Conn(c), r) /\ About(r) = t
      BY <1>4 DEF Witness, About
    <2> QED  BY <1>1, <1>4, <2>1 DEF Witness
  <1>5. ASSUME NEW t \in Names[c] \ {NoTxn}, TxnAbort(c, t)  PROVE Alone'
    BY <1>1, <1>5 DEF TxnAbort, Drain, About
  <1>6. ASSUME NEW t \in Names[c] \ {NoTxn}, NEW via \in Vias, TxnCommit(c, t, via)  PROVE Alone'
    <2>1. via = "session"
      BY DEF Disciplined
    <2>2. PICK th \in {Conn(c), <<c, "session">>} : Goto(th, [pc |-> "take", txn |-> t])
      BY <1>6, <2>1 DEF TxnCommit
    <2> QED  BY <1>1, <1>6, <2>2 DEF TxnCommit, About
  <1> QED  BY <1>2, <1>3, <1>4, <1>5, <1>6 DEF Request

(* A thread that goes on stays about its transaction until it is idle. *)
LEMMA ThreadGoesOn ==
  ASSUME NEW th \in Thread, Advance(th) \/ ReadPage(th) \/ Revalidate(th)
  PROVE  /\ th \in Busy
         /\ \E r : Goto(th, r) /\ (r.pc = "idle" \/ About(r) = About(call[th]))
  <1>1. th \in Busy
    BY DEF Advance, CallRecord, Forward, ReadFails, FilePremise, DropPremises, SendUndo,
           TakePremises, RevalidateFails, Close, Unwind, ReadPage, Revalidate, At, Busy
  <1>2. CASE CallRecord(th)
    <2>1. PICK seq : Goto(th, [pc |-> "forward", tag |-> call[th].tag, verb |-> call[th].verb, seq |-> seq])
      BY <1>2 DEF CallRecord
    <2> QED  BY <1>1, <1>2, <2>1 DEF CallRecord, At, About
  <1>3. CASE Forward(th) \/ ReadFails(th) \/ FilePremise(th) \/ SendUndo(th) \/ Close(th)
    BY <1>1, <1>3 DEF Forward, ReadFails, FilePremise, SendUndo, Close, Idle
  <1>4. CASE DropPremises(th)
    BY <1>1, <1>4 DEF DropPremises, At, About, Idle
  <1>5. CASE TakePremises(th)
    BY <1>1, <1>5 DEF TakePremises, At, About
  <1>6. CASE RevalidateFails(th) \/ Revalidate(th)
    BY <1>1, <1>6 DEF RevalidateFails, Revalidate, At, About
  <1>7. CASE Unwind(th)
    BY <1>1, <1>7 DEF Unwind, Drain, At, About
  <1>8. CASE ReadPage(th)
    BY <1>1, <1>8 DEF ReadPage, At, About, Idle
  <1> QED  BY <1>2, <1>3, <1>4, <1>5, <1>6, <1>7, <1>8 DEF Advance

LEMMA AdvanceKeepsAlone ==
  ASSUME BusInv, Alone, NEW th \in Thread, Advance(th) \/ ReadPage(th) \/ Revalidate(th)
  PROVE  Alone'
  <1>1. th \in Busy
    BY ThreadGoesOn
  <1>2. PICK r : Goto(th, r) /\ (r.pc = "idle" \/ About(r) = About(call[th]))
    BY ThreadGoesOn
  <1>3. /\ th[2] # "bus" /\ About(call[th]) \in Names[th[1]]
        /\ \A x \in Busy : x[1] = th[1] => x = th
    BY <1>1 DEF Alone
  <1> QED  BY <1>2, <1>3, AloneMoves

-----------------------------------------------------------------------------
(* Nothing that decides about t, or that t declared, changes. *)
LEMMA JudgedStands ==
  ASSUME NEW t, Judged(t), Deciding(t)' = Deciding(t), Declared(t)' = Declared(t),
         Dropping(t)' = {}, \A x \in Deciding(t) : call'[x] = call[x],
         \A p \in ledger : p.txn = t => p \in ledger',
         since'[t] = since[t], page' = page
  PROVE  Judged(t)'
  <1>1. Deciding(t)' = {} => Declared(t)' \subseteq ledger'
    BY DEF Judged, Declared
  <1>2. Declared(t)' # {} => page' \in since'[t]
    BY DEF Judged
  <1>3. \A x \in Deciding(t)' : At(x, "validate")' => Declared(t)' \subseteq call'[x].premises
    BY DEF Judged, At
  <1>4. \A x \in Deciding(t)' : At(x, "close")' /\ Declared(t)' # {} =>
          \E pg \in since'[t] : \A p \in Declared(t)' : Holds(p, pg)
    BY DEF Judged, At
  <1> QED  BY <1>1, <1>2, <1>3, <1>4 DEF Judged

(* Which threads decide about t, and which drop its premises, when one     *)
(* thread moves.                                                           *)
LEMMA DecidingMoves ==
  ASSUME BusInv, NEW th \in Thread, NEW r, Goto(th, r), NEW t
  PROVE  LET Decides(q) == q.pc \in {"validate", "close", "unwind"} /\ q.txn = t
             Drops(q) == q.pc = "drop" /\ q.txn = t
         IN  /\ ~ Decides(call[th]) /\ ~ Decides(r) =>
                  Deciding(t)' = Deciding(t) /\ \A x \in Deciding(t) : call'[x] = call[x]
             /\ Decides(r) => Deciding(t)' = Deciding(t) \cup {th}
             /\ ~ Decides(r) => Deciding(t)' = Deciding(t) \ {th}
             /\ Drops(r) => Dropping(t)' = Dropping(t) \cup {th}
             /\ ~ Drops(r) => Dropping(t)' = Dropping(t) \ {th}
             /\ ~ Drops(call[th]) => th \notin Dropping(t)
  <1>1. \A x \in Thread : call'[x] = IF x = th THEN r ELSE call[x]
    BY CallMoves
  <1> QED  BY <1>1 DEF Deciding, Dropping

(* The transactions a thread reads or files a premise for stay open. *)
LEMMA ForOpenMoves ==
  ASSUME BusInv, ForOpen, NEW th \in Thread, NEW r, Goto(th, r), born' = born,
         \A x \in Thread \ {th} : call[x].pc \in {"read", "file"} => \A t \in open : t = call[x].tag => t \in open',
         r.pc \in {"read", "file"} =>
           \A f \in r.for : f.txn = r.tag /\ f.txn \in open' /\ f.born = born[f.txn]
  PROVE  ForOpen'
  <1>1. \A x \in Thread : call'[x] = IF x = th THEN r ELSE call[x]
    BY CallMoves
  <1> QED  BY <1>1 DEF ForOpen

(* A thread moves that neither decides about premises nor drops any. *)
LEMMA PremisesQuiet ==
  ASSUME BusInv, PremisesCurrent, NEW th \in Thread, NEW r, Goto(th, r),
         UNCHANGED <<open, ledger, filed, since, born, page>>,
         call[th].pc \notin {"drop", "validate", "close", "unwind"},
         r.pc \notin {"drop", "validate", "close", "unwind"},
         r.pc \in {"read", "file"} =>
           \A f \in r.for : f.txn = r.tag /\ f.txn \in open /\ f.born = born[f.txn]
  PROVE  PremisesCurrent'
  <1>1. \A t : /\ Deciding(t)' = Deciding(t) /\ Dropping(t)' = Dropping(t)
               /\ \A x \in Deciding(t) : call'[x] = call[x]
    BY DecidingMoves
  <1>2. FiledTypes'
    BY DEF PremisesCurrent, FiledTypes
  <1>3. ForOpen'
    BY ForOpenMoves DEF PremisesCurrent
  <1>4. LedgerCurrent'
    BY <1>1 DEF PremisesCurrent, LedgerCurrent
  <1>5. ASSUME NEW t \in open' PROVE Judged(t)'
    <2>1. Declared(t)' = Declared(t) /\ Judged(t)
      BY DEF Declared, PremisesCurrent
    <2> QED  BY <1>1, <2>1, JudgedStands DEF Judged
  <1> QED  BY <1>2, <1>3, <1>4, <1>5 DEF PremisesCurrent

(* A transaction is begun by its owner, who is doing nothing else. *)
LEMMA BeginKeepsPremises ==
  ASSUME Disciplined, BusInv, Alone, PremisesCurrent, NEW c \in Client, NEW t \in Names[c],
         TxnBegin(c, t)
  PROVE  PremisesCurrent'
  <1>1. t # NoTxn /\ t \in TxnId
    BY NamesExplicit DEF Disciplined
  <1>2. /\ t \notin open /\ open' = open \cup {t}
        /\ born' = [born EXCEPT ![t] = @ + 1] /\ since' = [since EXCEPT ![t] = {}]
        /\ UNCHANGED <<ledger, filed, call, page>>
    BY <1>1 DEF TxnBegin, BeginExplicit
  <1>3. \A x \in Busy : About(call[x]) # t
    BY ReadyIsFree DEF TxnBegin
  <1>4. Deciding(t) = {} /\ Dropping(t) = {}
    BY <1>3 DEF Deciding, Dropping, Busy, About
  <1>5. \A x : Deciding(x)' = Deciding(x) /\ Dropping(x)' = Dropping(x)
    BY <1>2 DEF Deciding, Dropping
  <1>6. /\ \A x \in TxnId : born[x] \in Nat /\ born'[x] = IF x = t THEN born[x] + 1 ELSE born[x]
        /\ \A x \in TxnId : since'[x] = IF x = t THEN {} ELSE since[x]
        /\ \A p \in filed : p.txn \in TxnId /\ p.born \in Nat /\ p.born <= born[p.txn]
    BY <1>2, TxnBusAssumption DEF BusInv, BusTypes, PremisesCurrent, FiledTypes, Premise
  <1>7. FiledTypes'
    <2>1. since' \in [TxnId -> SUBSET [Proj -> Val]]
      BY <1>2 DEF PremisesCurrent, FiledTypes
    <2>2. \A p \in filed' : p.born <= born'[p.txn]
      BY <1>2, <1>6
    <2> QED  BY <1>2, <2>1, <2>2 DEF PremisesCurrent, FiledTypes
  <1>8. ForOpen'
    <2>1. ASSUME NEW x \in Thread, call[x].pc \in {"read", "file"}, NEW f \in call[x].for
          PROVE  f.txn = call[x].tag /\ f.txn \in open' /\ f.born = born'[f.txn]
      <3>1. x \in Busy /\ About(call[x]) = call[x].tag
        BY <2>1 DEF Busy, About
      <3>2. f.txn = call[x].tag /\ f.txn \in open /\ f.born = born[f.txn] /\ open \subseteq TxnId
        BY <2>1 DEF PremisesCurrent, ForOpen, BusInv, JournalInv, JournalTypeOK
      <3> QED  BY <1>2, <1>3, <1>6, <3>1, <3>2
    <2> QED  BY <1>2, <2>1 DEF ForOpen
  <1>9. LedgerCurrent'
    <2>1. ASSUME NEW p \in ledger
          PROVE  /\ p.born = born'[p.txn] /\ Deciding(p.txn)' = {}
                 /\ p.txn \in open' \/ Dropping(p.txn)' # {}
      <3>1. /\ p.born = born[p.txn] /\ Deciding(p.txn) = {} /\ p.txn \in TxnId
            /\ p.txn \in open \/ Dropping(p.txn) # {}
        BY <1>6 DEF PremisesCurrent, LedgerCurrent, FiledTypes
      <3>2. p.txn # t
        BY <1>2, <1>4, <3>1
      <3> QED  BY <1>2, <1>5, <1>6, <3>1, <3>2
    <2> QED  BY <1>2, <2>1 DEF LedgerCurrent
  <1>10. ASSUME NEW x \in open'  PROVE Judged(x)'
    <2>1. CASE x = t
      <3>1. Declared(x)' = {}
        BY <1>1, <1>2, <1>6, <2>1 DEF Declared
      <3> QED  BY <1>4, <1>5, <2>1, <3>1 DEF Judged
    <2>2. CASE x # t
      <3>1. x \in open /\ x \in TxnId /\ Judged(x)
        BY <1>2, <2>2 DEF PremisesCurrent, BusInv, JournalInv, JournalTypeOK
      <3>2. Declared(x)' = Declared(x)
        BY <1>2, <1>6, <2>2, <3>1 DEF Declared
      <3>3. since'[x] = since[x]
        BY <1>6, <2>2, <3>1
      <3>4. Dropping(x)' = {}
        BY <1>5, <3>1 DEF Judged
      <3> QED  BY <1>2, <1>5, <3>1, <3>2, <3>3, <3>4, JudgedStands
    <2> QED  BY <2>1, <2>2
  <1> QED  BY <1>7, <1>8, <1>9, <1>10 DEF PremisesCurrent

(* No thread but th is about the transaction th is about. *)
LEMMA OthersElsewhere ==
  ASSUME Disciplined, Alone, NEW th \in Busy, NEW x \in Thread \ {th}
  PROVE  /\ call[x].pc \in {"read", "file"} => call[x].tag # About(call[th])
         /\ call[x].pc \in {"validate", "close", "unwind", "drop"} => call[x].txn # About(call[th])
  BY OneThreadPerTxn DEF Busy, About

LEMMA FilePremiseKeepsPremises ==
  ASSUME Disciplined, BusInv, BusInv', Alone, PremisesCurrent, NEW th \in Thread, FilePremise(th)
  PROVE  PremisesCurrent'
  <1> DEFINE r == call[th]
             t == r.tag
             P == {[id |-> nextWitness + 1, tag |-> r.tag, txn |-> f.txn, born |-> f.born,
                    proj |-> r.proj, accept |-> r.accept] : f \in r.for}
  <1>1. /\ ledger' = ledger \cup P /\ filed' = filed \cup P /\ Goto(th, Idle) /\ r.pc = "file"
        /\ since' = [x \in TxnId |-> IF \E p \in P : p.txn = x THEN {page} ELSE since[x]]
        /\ UNCHANGED <<open, born, page>>
    BY DEF FilePremise, jvars, At
  <1>2. \A p \in P : p.txn = t /\ p.txn \in open /\ p.born = born[p.txn]
    BY <1>1 DEF PremisesCurrent, ForOpen
  <1>3. th \in Busy /\ About(r) = t
    BY <1>1 DEF Busy, About
  <1>4. Deciding(t) = {} /\ Dropping(t) = {}
    BY <1>1, <1>3, OthersElsewhere DEF Deciding, Dropping
  <1>5. \A x : /\ Deciding(x)' = Deciding(x) /\ Dropping(x)' = Dropping(x)
               /\ \A y \in Deciding(x) : call'[y] = call[y]
    <2>1. PICK q : Goto(th, q) /\ q.pc = "idle"
      BY <1>1 DEF Idle
    <2> SUFFICES ASSUME NEW x
                 PROVE  /\ Deciding(x)' = Deciding(x) /\ Dropping(x)' = Dropping(x)
                        /\ \A y \in Deciding(x) : call'[y] = call[y]
      OBVIOUS
    <2> QED  BY <1>1, <2>1, DecidingMoves
  <1>6. page \in [Proj -> Val] /\ born \in [TxnId -> 0 .. asked] /\ open \subseteq TxnId /\ asked \in Nat
    BY TxnBusAssumption DEF BusInv, BusTypes, JournalInv, JournalTypeOK
  <1> HIDE DEF P
  <1>7. FiledTypes'
    <2>1. P \subseteq Premise
      BY <1>1 DEF BusInv, BusTypes
    <2>2. since' \in [TxnId -> SUBSET [Proj -> Val]]
      BY <1>1, <1>6 DEF PremisesCurrent, FiledTypes
    <2>3. \A p \in P : p.born <= born[p.txn]
      BY <1>2, <1>6
    <2> QED  BY <1>1, <2>1, <2>2, <2>3 DEF PremisesCurrent, FiledTypes
  <1>8. ForOpen'
    BY <1>1, ForOpenMoves DEF PremisesCurrent, Idle
  <1>9. LedgerCurrent'
    BY <1>1, <1>2, <1>4, <1>5 DEF PremisesCurrent, LedgerCurrent
  <1>10. ASSUME NEW x \in open'  PROVE Judged(x)'
    <2>1. x \in open /\ x \in TxnId /\ Judged(x) /\ Dropping(x)' = {}
      BY <1>1, <1>5, <1>6 DEF PremisesCurrent, Judged
    <2>2. CASE \E p \in P : p.txn = x
      <3>1. x = t /\ since'[x] = {page} /\ Deciding(x)' = {}
        BY <1>1, <1>2, <1>4, <1>5, <2>1, <2>2
      <3>2. Declared(x)' \subseteq ledger'
        BY <1>1, <1>4, <2>1, <3>1 DEF Declared, Judged
      <3> QED  BY <1>1, <2>1, <3>1, <3>2 DEF Judged
    <2>3. CASE ~ \E p \in P : p.txn = x
      <3>1. Declared(x)' = Declared(x)
        BY <1>1, <2>3 DEF Declared
      <3>2. since'[x] = since[x]
        BY <1>1, <2>1, <2>3
      <3> QED  BY <1>1, <1>5, <2>1, <3>1, <3>2, JudgedStands
    <2> QED  BY <2>2, <2>3
  <1> QED  BY <1>7, <1>8, <1>9, <1>10 DEF PremisesCurrent

(* A drain closes the transaction; its premises wait for the drop. *)
LEMMA DrainKeepsPremises ==
  ASSUME BusInv, PremisesCurrent, NEW th \in Thread, NEW t, Drain(th, t),
         call[th].pc = "idle" \/ (call[th].pc = "unwind" /\ call[th].txn = t),
         \A x \in Busy \ {th} : About(call[x]) # t
  PROVE  PremisesCurrent'
  <1>1. open' = open \ {t} /\ UNCHANGED <<ledger, filed, since, born, page>>
    BY DEF Drain, TakeReversed
  <1>2. PICK r : Goto(th, r) /\ r.pc = "drop" /\ r.txn = t
    BY DEF Drain
  <1>3. ASSUME NEW x, x # t
        PROVE  /\ Deciding(x)' = Deciding(x) /\ Dropping(x)' = Dropping(x)
               /\ \A y \in Deciding(x) : call'[y] = call[y]
    <2>1. Deciding(x)' = Deciding(x) /\ \A y \in Deciding(x) : call'[y] = call[y]
      BY <1>2, <1>3, DecidingMoves
    <2>2. th \notin Dropping(x) /\ Dropping(x)' = Dropping(x) \ {th}
      BY <1>2, <1>3, DecidingMoves
    <2> QED  BY <2>1, <2>2
  <1>9. Deciding(t)' = Deciding(t) \ {th} /\ th \in Dropping(t)'
    BY <1>1, <1>2, DecidingMoves
  <1>4. FiledTypes'
    BY <1>1 DEF PremisesCurrent, FiledTypes
  <1>5. \A x \in Thread \ {th} : call[x].pc \in {"read", "file"} => call[x].tag # t
    BY DEF Busy, About
  <1>6. ForOpen'
    BY <1>1, <1>2, <1>5, ForOpenMoves DEF PremisesCurrent
  <1>7. LedgerCurrent'
    BY <1>1, <1>3, <1>9 DEF PremisesCurrent, LedgerCurrent
  <1>8. ASSUME NEW x \in open'  PROVE Judged(x)'
    <2>1. x \in open /\ x # t /\ Judged(x) /\ Declared(x)' = Declared(x)
      BY <1>1 DEF PremisesCurrent, Declared
    <2> QED  BY <1>1, <1>3, <2>1, JudgedStands DEF Judged
  <1> QED  BY <1>4, <1>6, <1>7, <1>8 DEF PremisesCurrent

LEMMA DropKeepsPremises ==
  ASSUME BusInv, PremisesCurrent, NEW th \in Thread, DropPremises(th)
  PROVE  PremisesCurrent'
  <1> DEFINE t == call[th].txn
  <1>1. /\ ledger' = ledger \ Ledgered(t) /\ call[th].pc = "drop"
        /\ UNCHANGED <<open, filed, since, born, page>>
    BY DEF DropPremises, jvars, At
  <1>2. PICK r : Goto(th, r) /\ r.pc \in {"idle", "undo"}
    BY DEF DropPremises, Idle
  <1>3. \A x : /\ Deciding(x)' = Deciding(x) /\ \A y \in Deciding(x) : call'[y] = call[y]
               /\ Dropping(x)' = Dropping(x) \ {th}
               /\ x # t => Dropping(x)' = Dropping(x)
    BY <1>1, <1>2, DecidingMoves
  <1>4. t \notin open
    BY <1>1 DEF PremisesCurrent, Judged, Dropping
  <1>5. FiledTypes'
    BY <1>1 DEF PremisesCurrent, FiledTypes
  <1>6. ForOpen'
    BY <1>1, <1>2, ForOpenMoves DEF PremisesCurrent
  <1>7. LedgerCurrent'
    BY <1>1, <1>3 DEF PremisesCurrent, LedgerCurrent, Ledgered
  <1>8. ASSUME NEW x \in open'  PROVE Judged(x)'
    <2>1. x # t /\ Judged(x) /\ Declared(x)' = Declared(x)
      BY <1>1, <1>4 DEF PremisesCurrent, Declared
    <2>2. \A p \in ledger : p.txn = x => p \in ledger'
      BY <1>1, <2>1 DEF Ledgered
    <2> QED  BY <1>1, <1>3, <2>1, <2>2, JudgedStands DEF Judged
  <1> QED  BY <1>5, <1>6, <1>7, <1>8 DEF PremisesCurrent

(* The premises a commit takes are all that the transaction declared. *)
LEMMA TakeKeepsPremises ==
  ASSUME Disciplined, BusInv, Alone, PremisesCurrent, NEW th \in Thread, TakePremises(th)
  PROVE  PremisesCurrent'
  <1> PICK t : t = call[th].txn
    OBVIOUS
  <1> DEFINE P == Ledgered(t)
             r == IF P = {} THEN [pc |-> "close", txn |-> t]
                  ELSE [pc |-> "validate", txn |-> t, premises |-> P]
  <1>1. /\ ledger' = ledger \ P /\ call[th].pc = "take" /\ Goto(th, r)
        /\ UNCHANGED <<open, filed, since, born, page>>
    BY DEF TakePremises, jvars, At
  <1>2. /\ r.txn = t /\ r.pc \in {"close", "validate"}
        /\ r.pc = "validate" => r.premises = P
        /\ r.pc = "close" => P = {}
    OBVIOUS
  <1>3. P = {p \in ledger : p.txn = t}
    BY DEF Ledgered
  <1>4. th \in Busy /\ About(call[th]) = t
    BY <1>1 DEF Busy, About
  <1> HIDE DEF r, P
  <1>5. \A x : /\ x # t => Deciding(x)' = Deciding(x) /\ \A y \in Deciding(x) : call'[y] = call[y]
               /\ Dropping(x)' = Dropping(x)
    BY <1>1, <1>2, DecidingMoves
  <1>6. Deciding(t) = {}
    BY <1>1, <1>4, OthersElsewhere DEF Deciding
  <1>7. Deciding(t)' = {th} /\ call'[th] = r
    BY <1>1, <1>2, <1>6, DecidingMoves, CallMoves
  <1>8. FiledTypes'
    BY <1>1 DEF PremisesCurrent, FiledTypes
  <1>9. ForOpen'
    BY <1>1, <1>2, ForOpenMoves DEF PremisesCurrent
  <1>10. LedgerCurrent'
    BY <1>1, <1>3, <1>5 DEF PremisesCurrent, LedgerCurrent
  <1>11. ASSUME NEW x \in open'  PROVE Judged(x)'
    <2>1. Judged(x) /\ Declared(x)' = Declared(x) /\ Dropping(x)' = {}
      BY <1>1, <1>5 DEF PremisesCurrent, Declared, Judged
    <2>2. CASE x # t
      <3>1. \A p \in ledger : p.txn = x => p \in ledger'
        BY <1>1, <1>3, <2>2
      <3> QED  BY <1>1, <1>5, <2>1, <2>2, <3>1, JudgedStands
    <2>3. CASE x = t
      <3>1. Declared(x) \subseteq P
        BY <1>3, <1>6, <2>1, <2>3 DEF Judged, Declared
      <3>2. \A y \in Deciding(x)' : y = th /\ call'[y] = r
        BY <1>7, <2>3
      <3>3. \A y \in Deciding(x)' : At(y, "validate")' => Declared(x)' \subseteq call'[y].premises
        BY <1>2, <2>1, <3>1, <3>2 DEF At
      <3>4. \A y \in Deciding(x)' : At(y, "close")' => Declared(x)' = {}
        BY <1>2, <2>1, <3>1, <3>2 DEF At
      <3>5. Declared(x)' # {} => page' \in since'[x]
        BY <1>1, <2>1 DEF Judged
      <3>6. Deciding(x)' # {}
        BY <1>7, <2>3
      <3> QED  BY <2>1, <3>3, <3>4, <3>5, <3>6 DEF Judged
    <2> QED  BY <2>2, <2>3
  <1> QED  BY <1>8, <1>9, <1>10, <1>11 DEF PremisesCurrent

(* A commit that stands does so on the page it read, and that page is one  *)
(* the transaction has seen since its last premise.                        *)
LEMMA RevalidateKeepsPremises ==
  ASSUME BusInv, PremisesCurrent, NEW th \in Thread, Revalidate(th) \/ RevalidateFails(th)
  PROVE  PremisesCurrent'
  <1> PICK t : t = call[th].txn
    OBVIOUS
  <1>1. call[th].pc = "validate" /\ UNCHANGED <<open, ledger, filed, since, born, page>>
    BY DEF Revalidate, RevalidateFails, jvars, At
  <1>2. PICK r : /\ Goto(th, r) /\ r.txn = t /\ r.pc \in {"close", "unwind"}
                 /\ r.pc = "close" => \A p \in call[th].premises : Holds(p, page)
    BY DEF Revalidate, RevalidateFails
  <1>3. ASSUME NEW x
        PROVE  /\ Deciding(x)' = Deciding(x) /\ Dropping(x)' = Dropping(x)
               /\ \A y \in Deciding(x) : y # th => call'[y] = call[y]
    <2>1. th \in Deciding(x) <=> x = t
      BY <1>1 DEF Deciding
    <2>2. Deciding(x)' = IF x = t THEN Deciding(x) \cup {th} ELSE Deciding(x) \ {th}
      BY <1>2, DecidingMoves
    <2>3. th \notin Dropping(x) /\ Dropping(x)' = Dropping(x) \ {th}
      BY <1>1, <1>2, DecidingMoves
    <2>4. \A y \in Deciding(x) : y # th => call'[y] = call[y]
      BY <1>2, CallMoves DEF Deciding
    <2> QED  BY <2>1, <2>2, <2>3, <2>4
  <1>4. FiledTypes'
    BY <1>1 DEF PremisesCurrent, FiledTypes
  <1>5. ForOpen'
    BY <1>1, <1>2, ForOpenMoves DEF PremisesCurrent
  <1>6. LedgerCurrent'
    BY <1>1, <1>3 DEF PremisesCurrent, LedgerCurrent
  <1>7. ASSUME NEW x \in open'  PROVE Judged(x)'
    <2>1. Judged(x) /\ Declared(x)' = Declared(x) /\ Dropping(x)' = {}
      BY <1>1, <1>3 DEF PremisesCurrent, Declared, Judged
    <2>2. CASE th \notin Deciding(x)
      <3>1. \A y \in Deciding(x) : call'[y] = call[y]
        BY <1>3, <2>2
      <3> QED  BY <1>1, <1>3, <2>1, <3>1, JudgedStands
    <2>3. CASE th \in Deciding(x)
      <3>1. Deciding(x)' # {}
        BY <1>3, <2>3
      <3>2. Declared(x)' # {} => page' \in since'[x]
        BY <1>1, <2>1 DEF Judged
      <3>3. call'[th] = r
        BY <1>2, CallMoves
      <3>4. \A y \in Deciding(x)' : At(y, "validate")' => Declared(x)' \subseteq call'[y].premises
        BY <1>2, <1>3, <2>1, <3>3 DEF Judged, At
      <3>5. ASSUME r.pc = "close", Declared(x) # {}
            PROVE  page \in since'[x] /\ \A p \in Declared(x) : Holds(p, page)
        <4>1. Declared(x) \subseteq call[th].premises
          BY <1>1, <2>1, <2>3 DEF Judged, At
        <4> QED  BY <1>1, <1>2, <2>1, <3>5, <4>1 DEF Judged
      <3>6. \A y \in Deciding(x)' : At(y, "close")' /\ Declared(x)' # {} =>
              \E pg \in since'[x] : \A p \in Declared(x)' : Holds(p, pg)
        <4> SUFFICES ASSUME NEW y \in Deciding(x)', At(y, "close")', Declared(x)' # {}
                     PROVE  \E pg \in since'[x] : \A p \in Declared(x)' : Holds(p, pg)
          OBVIOUS
        <4>1. CASE y = th
          BY <2>1, <3>3, <3>5, <4>1 DEF At
        <4>2. CASE y # th
          <5>1. y \in Deciding(x) /\ At(y, "close")
            BY <1>3, <4>2 DEF At
          <5> QED  BY <1>1, <2>1, <5>1 DEF Judged
        <4> QED  BY <4>1, <4>2
      <3> QED  BY <2>1, <3>1, <3>2, <3>4, <3>6 DEF Judged
    <2> QED  BY <2>2, <2>3
  <1> QED  BY <1>4, <1>5, <1>6, <1>7 DEF PremisesCurrent

LEMMA CloseKeepsPremises ==
  ASSUME Disciplined, BusInv, Alone, PremisesCurrent, NEW th \in Thread, Close(th)
  PROVE  PremisesCurrent'
  <1> PICK t : t = call[th].txn
    OBVIOUS
  <1>1. /\ call[th].pc = "close" /\ open' = open \ {t} /\ since' = [since EXCEPT ![t] = {}]
        /\ UNCHANGED <<ledger, filed, born, page>>
    BY DEF Close, Commit, At
  <1>2. PICK r : Goto(th, r) /\ r.pc = "idle"
    BY DEF Close, Idle
  <1>3. th \in Busy /\ About(call[th]) = t
    BY <1>1 DEF Busy, About
  <1>4. ASSUME NEW x
        PROVE  /\ Deciding(x)' = Deciding(x) \ {th} /\ Dropping(x)' = Dropping(x)
               /\ x # t => /\ Deciding(x)' = Deciding(x)
                           /\ \A y \in Deciding(x) : call'[y] = call[y]
    <2>1. Deciding(x)' = Deciding(x) \ {th}
      BY <1>2, DecidingMoves
    <2>2. th \notin Dropping(x) /\ Dropping(x)' = Dropping(x) \ {th}
      BY <1>1, <1>2, DecidingMoves
    <2>3. x # t => Deciding(x)' = Deciding(x) /\ \A y \in Deciding(x) : call'[y] = call[y]
      BY <1>1, <1>2, DecidingMoves
    <2> QED  BY <2>1, <2>2, <2>3
  <1>5. since' \in [TxnId -> SUBSET [Proj -> Val]] /\ \A x \in TxnId : x # t => since'[x] = since[x]
    BY <1>1 DEF PremisesCurrent, FiledTypes
  <1>6. FiledTypes'
    BY <1>1, <1>5 DEF PremisesCurrent, FiledTypes
  <1>7. \A x \in Thread \ {th} : call[x].pc \in {"read", "file"} => call[x].tag # t
    BY <1>3, OthersElsewhere
  <1>8. ForOpen'
    BY <1>1, <1>2, <1>7, ForOpenMoves DEF PremisesCurrent
  <1>9. LedgerCurrent'
    <2>1. th \in Deciding(t)
      BY <1>1 DEF Deciding
    <2>2. \A p \in ledger : p.txn # t
      BY <2>1 DEF PremisesCurrent, LedgerCurrent
    <2> QED  BY <1>1, <1>4, <2>2 DEF PremisesCurrent, LedgerCurrent
  <1>10. ASSUME NEW x \in open'  PROVE Judged(x)'
    <2>1. x \in open /\ x # t /\ x \in TxnId
      BY <1>1 DEF BusInv, JournalInv, JournalTypeOK
    <2>2. Judged(x) /\ Declared(x)' = Declared(x) /\ Dropping(x)' = {}
      BY <1>1, <1>4, <2>1 DEF PremisesCurrent, Declared, Judged
    <2> QED  BY <1>1, <1>4, <1>5, <2>1, <2>2, JudgedStands
  <1> QED  BY <1>6, <1>8, <1>9, <1>10 DEF PremisesCurrent

LEMMA PageKeepsPremises ==
  ASSUME BusInv, PremisesCurrent, PageChange
  PROVE  PremisesCurrent'
  <1>1. /\ UNCHANGED <<open, ledger, filed, born, call>>
        /\ since' = [t \in TxnId |-> IF since[t] = {} THEN {} ELSE since[t] \cup {page'}]
    BY DEF PageChange, jvars
  <1>2. page' \in [Proj -> Val]
    BY DEF PageChange, BusInv, BusTypes
  <1>3. since' \in [TxnId -> SUBSET [Proj -> Val]]
    BY <1>1, <1>2 DEF PremisesCurrent, FiledTypes
  <1>4. FiledTypes' /\ ForOpen' /\ LedgerCurrent'
    <2>1. FiledTypes'
      BY <1>1, <1>3 DEF PremisesCurrent, FiledTypes
    <2>2. ForOpen'
      BY <1>1 DEF PremisesCurrent, ForOpen
    <2>3. \A t : Deciding(t)' = Deciding(t) /\ Dropping(t)' = Dropping(t)
      BY <1>1 DEF Deciding, Dropping
    <2>4. LedgerCurrent'
      BY <1>1, <2>3 DEF PremisesCurrent, LedgerCurrent
    <2> QED  BY <2>1, <2>2, <2>4
  <1>5. ASSUME NEW t \in open'  PROVE Judged(t)'
    <2>1. t \in TxnId /\ Judged(t)
      BY <1>1 DEF PremisesCurrent, BusInv, JournalInv, JournalTypeOK
    <2>2. /\ Declared(t)' = Declared(t) /\ Deciding(t)' = Deciding(t) /\ Dropping(t)' = Dropping(t)
          /\ \A x : call'[x] = call[x]
      BY <1>1 DEF Declared, Deciding, Dropping
    <2>3. since[t] # {} => page' \in since'[t] /\ since[t] \subseteq since'[t]
      BY <1>1, <2>1
    <2>4. Declared(t) # {} => since[t] # {}
      BY <2>1 DEF Judged
    <2>5. \A x \in Deciding(t)' : At(x, "validate")' => Declared(t)' \subseteq call'[x].premises
      BY <2>1, <2>2 DEF Judged, At
    <2>6. \A x \in Deciding(t)' : At(x, "close")' /\ Declared(t)' # {} =>
            \E pg \in since'[t] : \A p \in Declared(t)' : Holds(p, pg)
      BY <2>1, <2>2, <2>3, <2>4 DEF Judged, At
    <2>7. Deciding(t)' = {} => Declared(t)' \subseteq ledger'
      BY <1>1, <2>1, <2>2 DEF Judged
    <2>8. Declared(t)' # {} => page' \in since'[t]
      BY <2>2, <2>3, <2>4
    <2> QED  BY <2>1, <2>2, <2>5, <2>6, <2>7, <2>8 DEF Judged
  <1> QED  BY <1>4, <1>5 DEF PremisesCurrent

LEMMA RequestKeepsPremises ==
  ASSUME Disciplined, BusInv, Alone, PremisesCurrent, NEW c \in Client, Request(c)
  PROVE  PremisesCurrent'
  <1> USE ThreadsApart
  <1>1. ASSUME NEW t \in Names[c], TxnBegin(c, t)  PROVE PremisesCurrent'
    BY <1>1, BeginKeepsPremises
  <1>2. ASSUME NEW t \in Names[c], NEW v \in Verb \cup Pure \cup Irreversible, Call(c, t, v)
        PROVE  PremisesCurrent'
    <2>1. PICK r : Goto(Conn(c), r) /\ r.pc \in {"record", "forward"}
      BY <1>2 DEF Call
    <2>2. call[Conn(c)].pc = "idle" /\ UNCHANGED <<open, ledger, filed, since, born, page>>
      BY <1>2 DEF Call, Ready, At, jvars
    <2> QED  BY <2>1, <2>2, PremisesQuiet
  <1>3. ASSUME NEW t \in Names[c], NEW f \in Forms, NEW q \in Proj, NEW o \in Op \cup {NoOp},
               Witness(c, t, f, q, o)
        PROVE  PremisesCurrent'
    <2>1. f = "args" /\ t # NoTxn
      BY DEF Disciplined
    <2>2. PICK r : /\ Goto(Conn(c), r) /\ r.pc = "read" /\ r.tag = t
                   /\ r.for = {[txn |-> x, born |-> born[x]] : x \in Targets(t)}
      BY <1>3, <2>1 DEF Witness
    <2>3. \A g \in r.for : g.txn = r.tag /\ g.txn \in open /\ g.born = born[g.txn]
      BY <2>1, <2>2 DEF Targets
    <2>4. call[Conn(c)].pc = "idle" /\ UNCHANGED <<open, ledger, filed, since, born, page>>
      BY <1>3 DEF Witness, Ready, At, jvars
    <2> QED  BY <2>2, <2>3, <2>4, PremisesQuiet
  <1>4. ASSUME NEW t \in Names[c] \ {NoTxn}, TxnAbort(c, t)  PROVE PremisesCurrent'
    <2>1. \A x \in Busy : About(call[x]) # t
      BY <1>4, ReadyIsFree DEF TxnAbort
    <2> QED  BY <1>4, <2>1, DrainKeepsPremises DEF TxnAbort, Ready, At
  <1>5. ASSUME NEW t \in Names[c] \ {NoTxn}, NEW via \in Vias, TxnCommit(c, t, via)
        PROVE  PremisesCurrent'
    <2>1. PICK th \in Thread : Goto(th, [pc |-> "take", txn |-> t]) /\ call[th].pc = "idle"
      BY <1>5, ConnIsThread DEF TxnCommit, At
    <2>2. UNCHANGED <<open, ledger, filed, since, born, page>>
      BY <1>5 DEF TxnCommit, jvars
    <2> QED  BY <2>1, <2>2, PremisesQuiet
  <1> QED  BY <1>1, <1>2, <1>3, <1>4, <1>5 DEF Request

LEMMA AdvanceKeepsPremises ==
  ASSUME Disciplined, BusInv, Alone, PremisesCurrent, NEW th \in Thread,
         Advance(th) \/ ReadPage(th) \/ Revalidate(th)
  PROVE  PremisesCurrent'
  <1>1. CASE CallRecord(th)
    <2>1. PICK r : Goto(th, r) /\ r.pc = "forward"
      BY <1>1 DEF CallRecord
    <2>2. call[th].pc = "record" /\ UNCHANGED <<open, ledger, filed, since, born, page>>
      BY <1>1 DEF CallRecord, Record, jvars, At
    <2> QED  BY <2>1, <2>2, PremisesQuiet
  <1>2. CASE Forward(th) \/ ReadFails(th) \/ SendUndo(th)
    <2>1. PICK r : Goto(th, r) /\ r.pc = "idle"
      BY <1>2 DEF Forward, ReadFails, SendUndo, Idle
    <2>2. call[th].pc \in {"forward", "read", "undo"} /\ UNCHANGED <<open, ledger, filed, since, born, page>>
      BY <1>2 DEF Forward, ReadFails, SendUndo, jvars, At
    <2> QED  BY <2>1, <2>2, PremisesQuiet
  <1>3. CASE ReadPage(th)
    <2>1. PICK r : /\ Goto(th, r) /\ r.pc \in {"idle", "file"}
                   /\ r.pc = "file" => r.tag = call[th].tag /\ r.for = call[th].for
      BY <1>3 DEF ReadPage, Idle
    <2>2. call[th].pc = "read" /\ UNCHANGED <<open, ledger, filed, since, born, page>>
      BY <1>3 DEF ReadPage, jvars, At
    <2>3. \A g \in call[th].for : g.txn = call[th].tag /\ g.txn \in open /\ g.born = born[g.txn]
      BY <2>2 DEF PremisesCurrent, ForOpen
    <2> QED  BY <2>1, <2>2, <2>3, PremisesQuiet
  <1>4. CASE FilePremise(th)
    BY <1>4, AdvanceKeepsBusInv, FilePremiseKeepsPremises
  <1>5. CASE DropPremises(th)
    BY <1>5, DropKeepsPremises
  <1>6. CASE TakePremises(th)
    BY <1>6, TakeKeepsPremises
  <1>7. CASE RevalidateFails(th) \/ Revalidate(th)
    BY <1>7, RevalidateKeepsPremises
  <1>8. CASE Close(th)
    BY <1>8, CloseKeepsPremises
  <1>9. CASE Unwind(th)
    <2> PICK t : t = call[th].txn
      OBVIOUS
    <2>1. Drain(th, t) /\ call[th].pc = "unwind"
      BY <1>9 DEF Unwind, At
    <2>2. \A x \in Busy \ {th} : About(call[x]) # t
      BY <2>1, OneThreadPerTxn DEF Busy, About
    <2> QED  BY <2>1, <2>2, DrainKeepsPremises
  <1> QED  BY <1>1, <1>2, <1>3, <1>4, <1>5, <1>6, <1>7, <1>8, <1>9 DEF Advance

-----------------------------------------------------------------------------
(* The wire and the journal stand still, or entries are only kept. *)
LEMMA WireQuiet ==
  ASSUME WireOrdered, UNCHANGED <<wire, undone>>, entries' \subseteq entries, Ever' \subseteq Ever,
         \A x \in Thread : At(x, "forward") => call'[x] = call[x],
         \A x \in Thread : At(x, "forward")' => call'[x] = call[x] \/ call'[x].seq = 0,
         \A x \in Draining' : x \in Draining /\ call'[x].steps = call[x].steps,
         BusInv
  PROVE  WireOrdered'
  <1>1. /\ \A t : Tagged(t)' = Tagged(t)
        /\ \A n : Executed(n)' = Executed(n)
        /\ Undos' = Undos
    BY DEF Tagged, Executed, Undos
  <1>2. \A e \in Ever : e.seq # 0
    BY DEF Ever, BusInv, JournalInv, JournalTypeOK, JournalEntry
  <1>3. NumbersRise'
    <2>1. ASSUME NEW x \in Thread, NEW t \in Ids, At(x, "forward")', call'[x].tag = t, call'[x].seq # 0
          PROVE  \A i \in Tagged(t) : wire[i].seq < call'[x].seq
      BY <2>1 DEF WireOrdered, NumbersRise, At
    <2>2. \A t \in Ids : \A i, j \in Tagged(t) : i < j /\ wire[j].seq # 0 => wire[i].seq < wire[j].seq
      BY DEF WireOrdered, NumbersRise
    <2> QED  BY <1>1, <2>1, <2>2 DEF NumbersRise
  <1>4. StampsMatch'
    <2>1. ASSUME NEW e \in Ever', NEW x \in Thread, At(x, "forward")', call'[x].seq = e.seq
          PROVE  call'[x].tag = e.txn
      BY <1>2, <2>1 DEF WireOrdered, StampsMatch, At
    <2> QED  BY <1>1, <2>1 DEF WireOrdered, StampsMatch
  <1>5. StepsExecuted'
    BY <1>1 DEF WireOrdered, StepsExecuted, At
  <1>6. UndoOrdered'
    <2>1. \A x \in Draining' : LatestFirst(call'[x].steps)
      BY DEF WireOrdered, UndoOrdered
    <2>2. \A u \in Undos' : LatestFirst(wire'[u].steps)
      BY <1>1 DEF WireOrdered, UndoOrdered
    <2> QED  BY <1>1, <2>1, <2>2 DEF WireOrdered, UndoOrdered, LatestFirst
  <1> QED  BY <1>3, <1>4, <1>5, <1>6 DEF WireOrdered

(* A thread moves, but to no numbered action and no new compensation. *)
LEMMA WireQuietMove ==
  ASSUME BusInv, WireOrdered, UNCHANGED <<wire, undone>>, entries' \subseteq entries, Ever' \subseteq Ever,
         NEW th \in Thread, NEW r, Goto(th, r), call[th].pc # "forward",
         r.pc = "forward" => r.seq = 0,
         r.pc \in {"drop", "undo"} => th \in Draining /\ r.steps = call[th].steps
  PROVE  WireOrdered'
  <1>1. \A x \in Thread : call'[x] = IF x = th THEN r ELSE call[x]
    BY CallMoves
  <1>2. \A x \in Thread : At(x, "forward") => call'[x] = call[x]
    BY <1>1 DEF At
  <1>3. \A x \in Thread : At(x, "forward")' => call'[x] = call[x] \/ call'[x].seq = 0
    BY <1>1 DEF At
  <1>4. \A x \in Draining' : x \in Draining /\ call'[x].steps = call[x].steps
    BY <1>1 DEF Draining
  <1> QED  BY <1>2, <1>3, <1>4, WireQuiet

LEMMA DoAppended ==
  ASSUME BusInv, NEW f \in Frame, f.kind = "do", wire' = Append(wire, f)
  PROVE  /\ \A n : Executed(n)' = Executed(n) \cup (IF f.seq = n THEN {Len(wire) + 1} ELSE {})
         /\ \A t : Tagged(t)' = Tagged(t) \cup (IF f.txn = t THEN {Len(wire) + 1} ELSE {})
         /\ Undos' = Undos /\ wire'[Len(wire) + 1] = f
         /\ \A i \in DOMAIN wire : wire'[i] = wire[i] /\ i \in Nat /\ i <= Len(wire)
         /\ Len(wire) \in Nat
  <1>1. wire \in Seq(Frame)
    BY DEF BusInv, BusTypes
  <1> QED  BY <1>1, WireGrows DEF Executed, Tagged, Undos

LEMMA UndoAppended ==
  ASSUME BusInv, NEW f \in Frame, f.kind = "undo", wire' = Append(wire, f)
  PROVE  /\ \A n : Executed(n)' = Executed(n)
         /\ \A t : Tagged(t)' = Tagged(t)
         /\ Undos' = Undos \cup {Len(wire) + 1} /\ wire'[Len(wire) + 1] = f
         /\ \A i \in DOMAIN wire : wire'[i] = wire[i] /\ i \in Nat /\ i <= Len(wire)
         /\ Len(wire) \in Nat
  <1>1. wire \in Seq(Frame)
    BY DEF BusInv, BusTypes
  <1> QED  BY <1>1, WireGrows DEF Executed, Tagged, Undos

(* A numbered action reaches the wire: it is the latest of its transaction *)
(* and the one its step of the journal waited for.                         *)
LEMMA ForwardKeepsOrder ==
  ASSUME Disciplined, BusInv, Alone, WireOrdered, NEW th \in Thread, Forward(th)
  PROVE  WireOrdered'
  <1> PICK f : f = [kind |-> "do", txn |-> call[th].tag, seq |-> call[th].seq, verb |-> call[th].verb]
    OBVIOUS
  <1> PICK l : l = Len(wire) + 1
    OBVIOUS
  <1>1. /\ wire' = Append(wire, f) /\ call[th].pc = "forward" /\ f.kind = "do"
        /\ UNCHANGED <<entries, undone, kept>>
    BY DEF Forward, At, jvars
  <1>2. f \in Frame
    BY <1>1 DEF BusInv, BusTypes, BusPhase, Phase, Frame
  <1>3. /\ \A n : Executed(n)' = Executed(n) \cup (IF f.seq = n THEN {l} ELSE {})
        /\ \A t : Tagged(t)' = Tagged(t) \cup (IF f.txn = t THEN {l} ELSE {})
        /\ Undos' = Undos /\ wire'[l] = f
        /\ \A i \in DOMAIN wire : wire'[i] = wire[i] /\ i \in Nat /\ i < l
        /\ l \in Nat
    BY <1>1, <1>2, DoAppended
  <1>4. \A x \in Thread : x # th => call'[x] = call[x]
    BY CallMoves DEF Forward
  <1>5. call'[th].pc = "idle"
    BY CallMoves DEF Forward, Idle
  <1>6. f.seq = call[th].seq /\ f.txn = call[th].tag
    OBVIOUS
  <1>7. \A x \in Thread : At(x, "forward")' => x # th /\ At(x, "forward") /\ call'[x] = call[x]
    BY <1>4, <1>5 DEF At
  <1>8. \A x \in Thread : At(x, "forward") /\ call[x].tag = f.txn => x = th
    BY <1>1, <1>6, OneThreadPerTxn DEF At, Busy, About
  <1>9. \A t : Tagged(t) \subseteq DOMAIN wire
    BY DEF Tagged
  <1>10. NumbersRise'
    <2>1. ASSUME NEW x \in Thread, NEW t \in Ids, At(x, "forward")', call'[x].tag = t, call'[x].seq # 0,
                 NEW i \in Tagged(t)'
          PROVE  wire'[i].seq < call'[x].seq
      <3>1. i \in Tagged(t)
        BY <1>3, <1>7, <1>8, <2>1
      <3> QED  BY <1>3, <1>7, <1>9, <2>1, <3>1 DEF WireOrdered, NumbersRise
    <2>2. ASSUME NEW t \in Ids, NEW i \in Tagged(t)', NEW j \in Tagged(t)', i < j, wire'[j].seq # 0
          PROVE  wire'[i].seq < wire'[j].seq
      <3>1. CASE j \in Tagged(t)
        <4>1. i # l /\ i \in Tagged(t)
          BY <1>3, <1>9, <2>2, <3>1
        <4> QED  BY <1>3, <1>9, <2>2, <3>1, <4>1 DEF WireOrdered, NumbersRise
      <3>2. CASE j \notin Tagged(t)
        <4>1. j = l /\ f.txn = t /\ i \in Tagged(t)
          BY <1>3, <2>2, <3>2
        <4>2. wire[i].seq < call[th].seq
          BY <1>1, <1>3, <1>6, <2>2, <4>1 DEF WireOrdered, NumbersRise, At
        <4> QED  BY <1>3, <1>6, <1>9, <4>1, <4>2
      <3> QED  BY <3>1, <3>2
    <2> QED  BY <2>1, <2>2 DEF NumbersRise
  <1>11. StampsMatch'
    <2>1. ASSUME NEW e \in Ever, f.seq = e.seq PROVE f.txn = e.txn
      BY <1>1, <1>6, <2>1 DEF WireOrdered, StampsMatch, At
    <2>2. Ever' = Ever
      BY <1>1 DEF Ever
    <2>3. \A e \in Ever : Executed(e.seq)' \subseteq Tagged(e.txn)'
      BY <1>3, <2>1 DEF WireOrdered, StampsMatch
    <2> QED  BY ZenonT(40), <1>7, <2>2, <2>3 DEF WireOrdered, StampsMatch
  <1>12. StepsExecuted'
    <2>1. ASSUME NEW e \in entries, Executed(e.seq)' = {}
          PROVE  \E x \in Thread : At(x, "forward")' /\ call'[x].seq = e.seq
      <3>1. f.seq # e.seq /\ Executed(e.seq) = {}
        BY <1>3, <2>1
      <3>2. PICK x \in Thread : At(x, "forward") /\ call[x].seq = e.seq
        BY <3>1 DEF WireOrdered, StepsExecuted
      <3> QED  BY <1>4, <1>6, <3>1, <3>2 DEF At
    <2> QED  BY <1>1, <1>3, <2>1 DEF WireOrdered, StepsExecuted
  <1>13. UndoOrdered'
    <2>1. \A x \in Draining' : x \in Draining /\ call'[x] = call[x]
      BY <1>4, <1>5 DEF Draining
    <2>2. \A u \in Undos : wire'[u] = wire[u]
      BY <1>3 DEF Undos
    <2>3. \A x \in Draining' : LatestFirst(call'[x].steps)
      BY <2>1 DEF WireOrdered, UndoOrdered
    <2>4. \A u \in Undos' : LatestFirst(wire'[u].steps)
      BY <1>3, <2>2 DEF WireOrdered, UndoOrdered
    <2>5. \A u \in Undos' : \A s \in wire'[u].steps : \E i \in Executed(s.seq)' : i < u
      BY <1>3, <2>2 DEF WireOrdered, UndoOrdered
    <2> QED  BY <2>3, <2>4, <2>5 DEF UndoOrdered, LatestFirst
  <1> QED  BY <1>10, <1>11, <1>12, <1>13 DEF WireOrdered

(* A call that is journaled draws a number past all numbers in use. *)
LEMMA RecordKeepsOrder ==
  ASSUME Disciplined, BusInv, Alone, WireOrdered, NEW th \in Thread, CallRecord(th)
  PROVE  WireOrdered'
  <1> PICK t : t = call[th].tag
    OBVIOUS
  <1> PICK n : n = seqClock + 1
    OBVIOUS
  <1>1. /\ call[th].pc = "record" /\ th \in Busy /\ About(call[th]) = t
        /\ UNCHANGED <<wire, undone, kept>>
    BY DEF CallRecord, Record, jvars, At, Busy, About
  <1>2. t # NoTxn
    <2>1. t \in Names[th[1]] /\ th[1] \in Client
      BY <1>1, ThreadPair DEF Alone
    <2> QED  BY <2>1 DEF Disciplined
  <1>3. \/ entries' = entries /\ \E r : Goto(th, r) /\ r.pc = "forward" /\ r.seq = 0
        \/ /\ entries' = entries \cup {[seq |-> n, txn |-> t, verb |-> call[th].verb]}
           /\ \E r : Goto(th, r) /\ r.pc = "forward" /\ r.seq = n /\ r.tag = t
    <2>1. Targets(t) = {} \/ Targets(t) = {t}
      BY <1>2 DEF Targets
    <2>2. CASE open = {}
      BY <2>2 DEF CallRecord, Record, jvars
    <2>3. CASE open # {} /\ Targets(t) = {}
      BY <2>3 DEF CallRecord, Record, jvars
    <2>4. CASE open # {} /\ Targets(t) = {t}
      BY <2>4 DEF CallRecord, Record, jvars
    <2> QED  BY <2>1, <2>2, <2>3, <2>4
  <1>4. CASE entries' = entries /\ \E r : Goto(th, r) /\ r.pc = "forward" /\ r.seq = 0
    <2>1. Ever' = Ever
      BY <1>1, <1>4 DEF Ever
    <2> QED  BY <1>1, <1>4, <2>1, WireQuietMove
  <1>5. ASSUME NEW e, e.seq = n, e.txn = t, entries' = entries \cup {e},
               NEW r, Goto(th, r), r.pc = "forward", r.seq = n, r.tag = t
        PROVE  WireOrdered'
    <2>1. /\ \A x : Tagged(x)' = Tagged(x)
          /\ \A m : Executed(m)' = Executed(m)
          /\ Undos' = Undos /\ Ever' = Ever \cup {e}
      BY <1>1, <1>5 DEF Tagged, Executed, Undos, Ever
    <2>2. seqClock \in Nat /\ n \in Nat /\ n # 0
      BY DEF BusInv, JournalInv, JournalTypeOK
    <2>3. \A d \in Ever : d.seq \in Nat /\ d.seq <= seqClock /\ d.seq < n
      BY <2>2 DEF BusInv, JournalInv, JournalTypeOK, Ever, JournalEntry
    <2>4. \A x : \A i \in Tagged(x) : wire[i].seq < n
      <3>1. \A i \in DOMAIN wire : wire[i].kind = "do" => wire[i].seq \in Nat /\ wire[i].seq <= seqClock
        BY DEF BusInv, BusTypes, BusClocks, Frame
      <3> QED  BY <2>2, <3>1 DEF Tagged
    <2>5. Executed(n) = {}
      BY <2>2 DEF Executed, BusInv, BusClocks
    <2>6. \A x \in Thread : At(x, "forward") => call[x].seq < n
      <3>1. \A x \in Thread : At(x, "forward") => call[x].seq \in Nat /\ call[x].seq <= seqClock
        BY DEF BusInv, BusTypes, BusPhase, Phase, BusClocks, At
      <3> QED  BY <2>2, <3>1
    <2>7. \A x \in Thread : call'[x] = IF x = th THEN r ELSE call[x]
      BY <1>5, CallMoves
    <2>8. NumbersRise'
      <3>1. ASSUME NEW x \in Thread, NEW y \in Ids, At(x, "forward")', call'[x].tag = y, call'[x].seq # 0,
                   NEW i \in Tagged(y)
            PROVE  wire[i].seq < call'[x].seq
        BY <1>5, <2>4, <2>7, <3>1 DEF WireOrdered, NumbersRise, At
      <3> QED  BY <1>1, <2>1, <3>1 DEF WireOrdered, NumbersRise
    <2>9. StampsMatch'
      <3>1. ASSUME NEW d \in Ever', NEW x \in Thread, At(x, "forward")', call'[x].seq = d.seq
            PROVE  call'[x].tag = d.txn
        <4>1. CASE x = th
          BY <1>5, <2>1, <2>3, <2>7, <3>1, <4>1
        <4>2. CASE x # th
          <5>1. At(x, "forward") /\ call'[x] = call[x] /\ d \in Ever
            BY <1>5, <2>1, <2>2, <2>6, <2>7, <3>1, <4>2 DEF At
          <5> QED  BY <3>1, <5>1 DEF WireOrdered, StampsMatch
        <4> QED  BY <4>1, <4>2
      <3>2. \A d \in Ever' : Executed(d.seq)' \subseteq Tagged(d.txn)'
        BY <1>5, <2>1, <2>5 DEF WireOrdered, StampsMatch
      <3> QED  BY <3>1, <3>2 DEF StampsMatch
    <2>10. StepsExecuted'
      <3>1. ASSUME NEW d \in entries', Executed(d.seq) = {}
            PROVE  \E x \in Thread : At(x, "forward")' /\ call'[x].seq = d.seq
        <4>1. CASE d = e
          BY <1>5, <2>7, <4>1 DEF At
        <4>2. CASE d # e
          <5>1. PICK x \in Thread : At(x, "forward") /\ call[x].seq = d.seq
            BY <1>5, <3>1, <4>2 DEF WireOrdered, StepsExecuted
          <5> QED  BY <1>1, <2>7, <5>1 DEF At
        <4> QED  BY <4>1, <4>2
      <3> QED  BY <1>1, <2>1, <3>1 DEF WireOrdered, StepsExecuted
    <2>11. UndoOrdered'
      <3>1. \A x \in Draining' : x \in Draining /\ call'[x] = call[x]
        BY <1>5, <2>7 DEF Draining
      <3>2. \A x \in Draining' : LatestFirst(call'[x].steps)
        BY <3>1 DEF WireOrdered, UndoOrdered
      <3> QED  BY <1>1, <2>1, <3>2 DEF WireOrdered, UndoOrdered, LatestFirst
    <2> QED  BY <2>8, <2>9, <2>10, <2>11 DEF WireOrdered
  <1>6. CASE /\ entries' = entries \cup {[seq |-> n, txn |-> t, verb |-> call[th].verb]}
             /\ \E r : Goto(th, r) /\ r.pc = "forward" /\ r.seq = n /\ r.tag = t
    BY <1>5, <1>6
  <1> QED  BY <1>3, <1>4, <1>6

(* The places of drained steps run against their numbers. *)
LEMMA ReversedIsLatestFirst ==
  ASSUME NEW J, IsFiniteSet(J), \A e \in J : e.seq \in Nat
  PROVE  LatestFirst(Reversed(J))
  <1> DEFINE After(n) == {d \in J : d.seq > n}
  <1>1. \A n : IsFiniteSet(After(n)) /\ Cardinality(After(n)) \in Nat
    BY FS_Subset, FS_CardinalityType
  <1>2. \A m, n \in Nat : m <= n => Cardinality(After(n)) <= Cardinality(After(m))
    <2> SUFFICES ASSUME NEW m \in Nat, NEW n \in Nat, m <= n
                 PROVE  Cardinality(After(n)) <= Cardinality(After(m))
      OBVIOUS
    <2>1. After(n) \subseteq After(m)
      OBVIOUS
    <2> QED  BY <1>1, <2>1, FS_Subset
  <1>a. Reversed(J) = {[place |-> Cardinality(After(e.seq)), seq |-> e.seq, verb |-> e.verb] : e \in J}
    BY DEF Reversed
  <1> HIDE DEF After
  <1>3. \A r \in Reversed(J) : r.seq \in Nat /\ r.place = Cardinality(After(r.seq))
    BY <1>a
  <1>4. ASSUME NEW r \in Reversed(J), NEW s \in Reversed(J), r.place < s.place
        PROVE  s.seq < r.seq
    <2>1. CASE r.seq <= s.seq
      <3>1. s.place <= r.place
        BY <1>2, <1>3, <2>1
      <3>2. s.place \in Nat /\ r.place \in Nat
        BY <1>1, <1>3
      <3> QED  BY <1>4, <3>1, <3>2
    <2> QED  BY <1>3, <2>1
  <1> QED  BY <1>4 DEF LatestFirst

(* A drain takes steps that were all executed: the one thread that could   *)
(* still be about to forward a step of t is the one that drains it.        *)
LEMMA DrainKeepsOrder ==
  ASSUME BusInv, WireOrdered, NEW th \in Thread, NEW t, Drain(th, t),
         call[th].pc \in {"idle", "unwind"}, \A x \in Busy \ {th} : About(call[x]) # t
  PROVE  WireOrdered'
  <1> PICK J : J = Journaled(t)
    OBVIOUS
  <1>1. /\ entries' = entries \ J /\ undone' = undone \cup J /\ UNCHANGED <<kept, wire>>
        /\ J \subseteq entries /\ \A e \in J : e.txn = t
    BY DEF Drain, TakeReversed, Journaled
  <1>2. PICK r : Goto(th, r) /\ r.pc = "drop" /\ r.steps = Reversed(J)
    BY DEF Drain
  <1>3. /\ \A x : Tagged(x)' = Tagged(x)
        /\ \A n : Executed(n)' = Executed(n)
        /\ Undos' = Undos /\ Ever' = Ever
    BY <1>1 DEF Tagged, Executed, Undos, Ever
  <1>4. \A x \in Thread : call'[x] = IF x = th THEN r ELSE call[x]
    BY <1>2, CallMoves
  <1>5. \A x \in Thread : At(x, "forward")' => At(x, "forward") /\ call'[x] = call[x]
    BY <1>2, <1>4 DEF At
  <1>6. \A x \in Thread : At(x, "forward") => At(x, "forward")' /\ call'[x] = call[x]
    BY <1>4 DEF At
  <1>7. NumbersRise'
    BY <1>1, <1>3, <1>5 DEF WireOrdered, NumbersRise
  <1>8. StampsMatch'
    BY <1>1, <1>3, <1>5 DEF WireOrdered, StampsMatch
  <1>9. StepsExecuted'
    <2>1. ASSUME NEW e \in J PROVE Executed(e.seq) # {}
      <3>1. SUFFICES ASSUME Executed(e.seq) = {} PROVE FALSE
        OBVIOUS
      <3>2. PICK x \in Thread : At(x, "forward") /\ call[x].seq = e.seq
        BY <1>1, <3>1 DEF WireOrdered, StepsExecuted
      <3>3. call[x].tag = e.txn
        BY <1>1, <3>2 DEF WireOrdered, StampsMatch, Ever
      <3>4. x # th /\ x \in Busy /\ About(call[x]) = t
        BY <1>1, <3>2, <3>3 DEF At, Busy, About
      <3> QED  BY <3>4
    <2> QED  BY <1>1, <1>3, <1>6, <2>1 DEF WireOrdered, StepsExecuted
  <1>10. UndoOrdered'
    <2>1. IsFiniteSet(J) /\ \A e \in J : e.seq \in Nat
      BY <1>1, FS_Subset DEF BusInv, BusTypes, JournalInv, JournalTypeOK, JournalEntry
    <2>2. LatestFirst(r.steps)
      BY <1>2, <2>1, ReversedIsLatestFirst
    <2>3. \A x \in Draining' : x = th \/ (x \in Draining /\ call'[x] = call[x])
      BY <1>4 DEF Draining
    <2>4. \A x \in Draining' : LatestFirst(call'[x].steps)
      BY <1>4, <2>2, <2>3 DEF WireOrdered, UndoOrdered
    <2> QED  BY <1>1, <1>3, <2>4 DEF WireOrdered, UndoOrdered, LatestFirst
  <1> QED  BY <1>7, <1>8, <1>9, <1>10 DEF WireOrdered

LEMMA UndoKeepsOrder ==
  ASSUME BusInv, WireOrdered, NEW th \in Thread, SendUndo(th)
  PROVE  WireOrdered'
  <1> PICK f : f = [kind |-> "undo", txn |-> call[th].txn, steps |-> call[th].steps]
    OBVIOUS
  <1> PICK l : l = Len(wire) + 1
    OBVIOUS
  <1>1. /\ wire' = Append(wire, f) /\ call[th].pc = "undo" /\ f.kind = "undo"
        /\ f.steps = call[th].steps /\ UNCHANGED <<entries, undone, kept>>
    BY DEF SendUndo, At, jvars
  <1>2. f \in Frame
    BY <1>1 DEF BusInv, BusTypes, BusPhase, Phase, Frame
  <1>3. /\ \A n : Executed(n)' = Executed(n)
        /\ \A t : Tagged(t)' = Tagged(t)
        /\ Undos' = Undos \cup {l} /\ wire'[l] = f /\ Ever' = Ever
        /\ \A i \in DOMAIN wire : wire'[i] = wire[i] /\ i < l
    BY <1>1, <1>2, UndoAppended DEF Ever
  <1>4. \A x \in Thread : x # th => call'[x] = call[x]
    BY CallMoves DEF SendUndo
  <1>5. call'[th].pc = "idle"
    BY CallMoves DEF SendUndo, Idle
  <1>6. \A x \in Thread : At(x, "forward")' => At(x, "forward") /\ call'[x] = call[x]
    BY <1>4, <1>5 DEF At
  <1>7. \A x \in Thread : At(x, "forward") => At(x, "forward")' /\ call'[x] = call[x]
    BY <1>1, <1>4 DEF At
  <1>8. \A t : \A i \in Tagged(t) : wire'[i] = wire[i]
    BY <1>3 DEF Tagged
  <1>9. NumbersRise'
    BY <1>3, <1>6, <1>8 DEF WireOrdered, NumbersRise
  <1>10. StampsMatch'
    BY <1>3, <1>6 DEF WireOrdered, StampsMatch
  <1>11. StepsExecuted'
    BY <1>1, <1>3, <1>7 DEF WireOrdered, StepsExecuted
  <1>12. UndoOrdered'
    <2>1. \A x \in Draining' : x \in Draining /\ call'[x] = call[x]
      BY <1>4, <1>5 DEF Draining
    <2>2. th \in Draining /\ LatestFirst(f.steps)
      BY <1>1 DEF Draining, WireOrdered, UndoOrdered
    <2>3. \A u \in Undos : wire'[u] = wire[u]
      BY <1>3 DEF Undos
    <2>4. ASSUME NEW s \in f.steps PROVE \E i \in Executed(s.seq) : i < l
      <3> DEFINE e == [seq |-> s.seq, txn |-> call[th].txn, verb |-> s.verb]
      <3>1. e \in Whole(call[th]) /\ e.seq = s.seq
        BY <1>1 DEF Whole
      <3> HIDE DEF e
      <3>2. Executed(s.seq) # {}
        BY <2>2, <3>1 DEF BusInv, Drained, WireOrdered, StepsExecuted
      <3>3. \A i \in Executed(s.seq) : i < l
        BY <1>3 DEF Executed
      <3> QED  BY <3>2, <3>3
    <2>5. \A x \in Draining' : LatestFirst(call'[x].steps)
      BY <2>1 DEF WireOrdered, UndoOrdered
    <2>6. \A u \in Undos' : LatestFirst(wire'[u].steps)
      BY <1>3, <2>2, <2>3 DEF WireOrdered, UndoOrdered
    <2>7. \A u \in Undos' : \A s \in wire'[u].steps : \E i \in Executed(s.seq) : i < u
      BY <1>3, <2>3, <2>4 DEF WireOrdered, UndoOrdered
    <2> QED  BY <1>3, <2>5, <2>6, <2>7 DEF UndoOrdered, LatestFirst
  <1> QED  BY <1>9, <1>10, <1>11, <1>12 DEF WireOrdered

LEMMA RequestKeepsOrder ==
  ASSUME Disciplined, BusInv, Alone, WireOrdered, NEW c \in Client, Request(c)
  PROVE  WireOrdered'
  <1> USE ThreadsApart
  <1>1. ASSUME NEW t \in Names[c], TxnBegin(c, t)  PROVE WireOrdered'
    <2>1. t # NoTxn
      BY DEF Disciplined
    <2>2. BeginExplicit(t) /\ UNCHANGED <<call, wire>>
      BY <1>1, <2>1 DEF TxnBegin
    <2>3. entries' \subseteq entries /\ UNCHANGED <<undone, kept>>
      BY <2>2 DEF BeginExplicit
    <2>4. Ever' \subseteq Ever /\ Draining' = Draining
      BY <2>2, <2>3 DEF Ever, Draining
    <2> QED  BY <2>2, <2>3, <2>4, WireQuiet
  <1>2. ASSUME NEW th \in Thread, NEW r, Goto(th, r), call[th].pc = "idle", UNCHANGED <<jvars, wire>>,
               r.pc \in {"record", "forward", "read", "take"}, r.pc = "forward" => r.seq = 0
        PROVE  WireOrdered'
    BY <1>2, WireQuietMove DEF jvars, Ever
  <1>3. ASSUME NEW t \in Names[c], NEW v \in Verb \cup Pure \cup Irreversible, Call(c, t, v)
        PROVE  WireOrdered'
    <2>1. PICK r : Goto(Conn(c), r) /\ r.pc \in {"record", "forward"} /\ (r.pc = "forward" => r.seq = 0)
      BY <1>3 DEF Call
    <2> QED  BY <1>2, <1>3, <2>1 DEF Call, Ready, At
  <1>4. ASSUME NEW t \in Names[c], NEW f \in Forms, NEW q \in Proj, NEW o \in Op \cup {NoOp},
               Witness(c, t, f, q, o)
        PROVE  WireOrdered'
    <2>1. PICK r : Goto(Conn(c), r) /\ r.pc = "read"
      BY <1>4 DEF Witness
    <2> QED  BY <1>2, <1>4, <2>1 DEF Witness, Ready, At
  <1>5. ASSUME NEW t \in Names[c] \ {NoTxn}, TxnAbort(c, t)  PROVE WireOrdered'
    <2>1. \A x \in Busy : About(call[x]) # t
      BY <1>5, ReadyIsFree DEF TxnAbort
    <2> QED  BY <1>5, <2>1, DrainKeepsOrder DEF TxnAbort, Ready, At
  <1>6. ASSUME NEW t \in Names[c] \ {NoTxn}, NEW via \in Vias, TxnCommit(c, t, via)
        PROVE  WireOrdered'
    <2>1. PICK th \in Thread : Goto(th, [pc |-> "take", txn |-> t]) /\ call[th].pc = "idle"
      BY <1>6, ConnIsThread DEF TxnCommit, At
    <2>2. UNCHANGED <<jvars, wire>>
      BY <1>6 DEF TxnCommit
    <2> QED  BY <1>2, <2>1, <2>2
  <1> QED  BY <1>1, <1>3, <1>4, <1>5, <1>6 DEF Request

LEMMA AdvanceKeepsOrder ==
  ASSUME Disciplined, BusInv, Alone, WireOrdered, NEW th \in Thread,
         Advance(th) \/ ReadPage(th) \/ Revalidate(th)
  PROVE  WireOrdered'
  <1>1. CASE CallRecord(th)
    BY <1>1, RecordKeepsOrder
  <1>2. CASE Forward(th)
    BY <1>2, ForwardKeepsOrder
  <1>3. CASE SendUndo(th)
    BY <1>3, UndoKeepsOrder
  <1>4. CASE Unwind(th)
    <2> PICK t : t = call[th].txn
      OBVIOUS
    <2>1. Drain(th, t) /\ call[th].pc = "unwind"
      BY <1>4 DEF Unwind, At
    <2>2. \A x \in Busy \ {th} : About(call[x]) # t
      BY <2>1, OneThreadPerTxn DEF Busy, About
    <2> QED  BY <2>1, <2>2, DrainKeepsOrder
  <1>5. CASE Close(th)
    <2>1. /\ entries' \subseteq entries /\ UNCHANGED <<undone, wire>> /\ call[th].pc = "close"
          /\ Ever' \subseteq Ever
      BY <1>5 DEF Close, Commit, Journaled, Ever, At
    <2>2. PICK r : Goto(th, r) /\ r.pc = "idle"
      BY <1>5 DEF Close, Idle
    <2> QED  BY <2>1, <2>2, WireQuietMove
  <1>6. CASE ReadPage(th) \/ ReadFails(th) \/ FilePremise(th) \/ TakePremises(th)
             \/ RevalidateFails(th) \/ Revalidate(th)
    <2>1. PICK r : Goto(th, r) /\ r.pc \in {"idle", "file", "close", "validate", "unwind"}
      BY <1>6 DEF ReadPage, ReadFails, FilePremise, TakePremises, RevalidateFails, Revalidate, Idle
    <2>2. call[th].pc # "forward" /\ UNCHANGED <<jvars, wire>>
      BY <1>6 DEF ReadPage, ReadFails, FilePremise, TakePremises, RevalidateFails, Revalidate, At
    <2> QED  BY <2>1, <2>2, WireQuietMove DEF jvars, Ever
  <1>7. CASE DropPremises(th)
    <2>1. PICK r : Goto(th, r) /\ r.pc \in {"idle", "undo"} /\ (r.pc = "undo" => r.steps = call[th].steps)
      BY <1>7 DEF DropPremises, Idle
    <2>2. call[th].pc = "drop" /\ th \in Draining /\ UNCHANGED <<jvars, wire>>
      BY <1>7 DEF DropPremises, At, Draining
    <2> QED  BY <2>1, <2>2, WireQuietMove DEF jvars, Ever
  <1> QED  BY <1>1, <1>2, <1>3, <1>4, <1>5, <1>6, <1>7 DEF Advance

-----------------------------------------------------------------------------
LEMMA InitDiscipline == TxnBusInit => DisciplineInv
  <1> SUFFICES ASSUME TxnBusInit PROVE DisciplineInv
    OBVIOUS
  <1>1. /\ \A th \in Thread : call[th].pc = "idle"
        /\ open = {} /\ entries = {} /\ kept = {} /\ undone = {} /\ ledger = {} /\ filed = {}
        /\ wire = <<>> /\ since = [t \in TxnId |-> {}]
    BY DEF TxnBusInit, JournalInit, Idle
  <1>2. Alone
    BY <1>1 DEF Alone, Busy
  <1>3. PremisesCurrent
    BY <1>1 DEF PremisesCurrent, FiledTypes, ForOpen, LedgerCurrent
  <1>4. WireOrdered
    BY <1>1 DEF WireOrdered, NumbersRise, StampsMatch, StepsExecuted, UndoOrdered,
                Tagged, Executed, Undos, Ever, Draining, At
  <1> QED  BY <1>2, <1>3, <1>4, InitBusInv DEF DisciplineInv

LEMMA DisciplineInvNext ==
  ASSUME Disciplined, DisciplineInv, [TxnBusNext]_vars
  PROVE  DisciplineInv'
  <1>0. BusInv /\ Alone /\ PremisesCurrent /\ WireOrdered
    BY DEF DisciplineInv
  <1>1. BusInv'
    BY <1>0, BusInvNext
  <1>2. CASE PageChange
    <2>1. UNCHANGED <<call, jvars, wire>>
      BY <1>2 DEF PageChange
    <2>2. Alone'
      BY <1>0, <2>1 DEF Alone, Busy, About
    <2>3. WireOrdered'
      BY <1>0, <2>1, WireQuiet DEF jvars, Ever, Draining
    <2> QED  BY <1>0, <1>1, <1>2, <2>2, <2>3, PageKeepsPremises DEF DisciplineInv
  <1>3. CASE UNCHANGED vars
    <2>1. UNCHANGED <<call, jvars, wire, page, ledger, filed, since, born>>
      BY <1>3 DEF vars, bvars
    <2>2. Alone'
      BY <1>0, <2>1 DEF Alone, Busy, About
    <2>3. WireOrdered'
      BY <1>0, <2>1, WireQuiet DEF jvars, Ever, Draining
    <2>4. PremisesCurrent'
      BY <1>0, <2>1 DEF PremisesCurrent, FiledTypes, ForOpen, LedgerCurrent, Judged,
                        Deciding, Dropping, Declared, At, jvars
    <2> QED  BY <1>1, <2>2, <2>3, <2>4 DEF DisciplineInv
  <1>4. ASSUME NEW c \in Client, Request(c)  PROVE DisciplineInv'
    BY <1>0, <1>1, <1>4, RequestKeepsAlone, RequestKeepsPremises, RequestKeepsOrder DEF DisciplineInv
  <1>5. ASSUME NEW th \in Thread, Advance(th) \/ ReadPage(th) \/ Revalidate(th)  PROVE DisciplineInv'
    BY <1>0, <1>1, <1>5, AdvanceKeepsAlone, AdvanceKeepsPremises, AdvanceKeepsOrder DEF DisciplineInv
  <1> QED  BY <1>2, <1>3, <1>4, <1>5 DEF TxnBusNext, Browser

(* Clients that keep the discipline stay apart in every state: one thread  *)
(* per transaction, its premises where its commit will find them, its      *)
(* actions on the wire in the order of their numbers.                      *)
THEOREM DisciplineInvariant == ASSUME Disciplined PROVE TxnBusSpec => []DisciplineInv
  BY InitDiscipline, DisciplineInvNext, PTL DEF TxnBusSpec

(* Under the discipline a compensation undoes actions the browser has      *)
(* executed, and in the reverse of the order it executed them in.          *)
THEOREM DisciplinedUndo == ASSUME Disciplined PROVE TxnBusSpec => []UndoReversesExecution
  <1>1. DisciplineInv => UndoReversesExecution
    <2> SUFFICES ASSUME DisciplineInv, NEW u \in Undos, NEW s \in wire[u].steps
                 PROVE  /\ \E i \in Executed(s.seq) : i < u
                        /\ \A r \in wire[u].steps : r.place < s.place =>
                             \A i \in Executed(r.seq), j \in Executed(s.seq) : j < i
      BY DEF UndoReversesExecution
    <2>1. \E i \in Executed(s.seq) : i < u
      BY DEF DisciplineInv, WireOrdered, UndoOrdered
    <2>2. ASSUME NEW r \in wire[u].steps, r.place < s.place,
                 NEW i \in Executed(r.seq), NEW j \in Executed(s.seq)
          PROVE  j < i
      <3> PICK t : t = wire[u].txn
        OBVIOUS
      <3>1. t \in Ids /\ wire[u].steps \subseteq [place : Nat, seq : 1 .. MaxSeq, verb : Verb]
        BY DEF DisciplineInv, BusInv, BusTypes, Frame, Undos
      <3>2. \A q \in wire[u].steps : Executed(q.seq) \subseteq Tagged(t)
        <4>1. ASSUME NEW q \in wire[u].steps PROVE Executed(q.seq) \subseteq Tagged(t)
          <5> DEFINE e == [seq |-> q.seq, txn |-> t, verb |-> q.verb]
          <5>1. e \in Whole(wire[u]) /\ e.seq = q.seq /\ e.txn = t
            BY DEF Whole
          <5> HIDE DEF e
          <5>2. e \in Ever
            BY <5>1 DEF DisciplineInv, BusInv, Drained, Ever
          <5> QED  BY <5>1, <5>2 DEF DisciplineInv, WireOrdered, StampsMatch
        <4> QED  BY <4>1
      <3>3. s.seq < r.seq
        BY <2>2 DEF DisciplineInv, WireOrdered, UndoOrdered, LatestFirst
      <3>4. wire[i].seq = r.seq /\ wire[j].seq = s.seq /\ i \in Tagged(t) /\ j \in Tagged(t)
        BY <2>2, <3>2 DEF Executed
      <3>5. r.seq \in Nat /\ s.seq \in Nat /\ r.seq # 0 /\ s.seq # 0
        BY <3>1
      <3>6. i \in Nat /\ j \in Nat
        BY <2>2 DEF Executed, DisciplineInv, BusInv, BusTypes
      <3>7. ~ (i < j) /\ i # j
        BY <3>1, <3>3, <3>4, <3>5 DEF DisciplineInv, WireOrdered, NumbersRise
      <3> QED  BY <3>6, <3>7
    <2> QED  BY <2>1, <2>2
  <1> QED  BY <1>1, DisciplineInvariant, PTL

(* Under the discipline a transaction that is begun under an id used       *)
(* before finds no premise of the earlier one in the ledger.               *)
THEOREM DisciplinedLedger == ASSUME Disciplined PROVE TxnBusSpec => []NoInheritedPremise
  <1>1. DisciplineInv => NoInheritedPremise
    BY DEF DisciplineInv, PremisesCurrent, LedgerCurrent, NoInheritedPremise, Ledgered
  <1> QED  BY <1>1, DisciplineInvariant, PTL

(* Under the discipline a transaction with premises commits only if all of *)
(* them held on one page it saw after the last of them was declared.       *)
THEOREM DisciplinedCommit == ASSUME Disciplined PROVE TxnBusSpec => CommitConfirmed
  <1> DEFINE Confirmed ==
        \A t \in open \ open' :
          (Declared(t) # {} /\ \E th \in Thread : At(th, "close") /\ call[th].txn = t /\ At(th, "idle")')
            => \E pg \in since[t] : \A p \in Declared(t) : Holds(p, pg)
  <1>1. DisciplineInv => [Confirmed]_vars
    BY DEF DisciplineInv, PremisesCurrent, Judged, Deciding, At
  <1> QED  BY <1>1, DisciplineInvariant, PTL DEF CommitConfirmed
=============================================================================
