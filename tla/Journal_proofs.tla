--------------------------- MODULE Journal_proofs ---------------------------
(***************************************************************************)
(* Proofs about the journal for every set of verbs and ids and every bound *)
(* on its counters.                                                        *)
(***************************************************************************)
EXTENDS Journal, TLAPS

(* Arithmetic on u64: a number below the width is its own remainder, and   *)
(* every remainder is an id.                                               *)
LEMMA ModWidth ==
  /\ \A n \in Nat : n % Width \in TxnId
  /\ \A n \in Nat : n < Width => n % Width = n
BY JournalAssumption DEF TxnId

(* What the four operations on the table do, in the terms the proofs use:  *)
(* a step journals entries numbered past the clock, or moves entries to    *)
(* their fate, or opens a transaction.                                     *)
LEMMA InitInv == JournalInit => JournalInv
BY JournalAssumption
   DEF JournalInit, JournalInv, JournalTypeOK, OneCallPerSeq, OneFate,
       AllocatorAhead, Ever, TxnId

(* Opening any id, with its vector emptied, keeps the invariant when the   *)
(* id counter moves to a value that covers it.                             *)
LEMMA OpenInv ==
  ASSUME JournalInv,
         NEW t \in TxnId, NEW n \in TxnId,
         NoWrap => t <= n /\ nextTxn <= n,
         open' = open \cup {t}, entries' = entries \ Journaled(t),
         nextTxn' = n, UNCHANGED <<seqClock, kept, undone>>
  PROVE  JournalInv'
<1>. USE DEF JournalInv, Ever
<1>1. JournalTypeOK'
  BY DEF JournalTypeOK
<1>2. OneCallPerSeq'
  BY DEF OneCallPerSeq
<1>3. OneFate'
  BY DEF OneFate
<1>4. AllocatorAhead'
  BY DEF AllocatorAhead, JournalTypeOK, TxnId, NoWrap
<1>. QED  BY <1>1, <1>2, <1>3, <1>4

LEMMA BeginExplicitInv ==
  ASSUME JournalInv, NEW t \in Explicit, BeginExplicit(t)
  PROVE  JournalInv'
<1>1. t \in TxnId /\ t + 1 \in Nat
  BY JournalAssumption DEF TxnId
<1>2. (t + 1) % Width \in TxnId /\ nextTxn \in TxnId
  BY <1>1, ModWidth DEF JournalInv, JournalTypeOK
<1>3. nextTxn' \in TxnId
  BY <1>2 DEF BeginExplicit
<1>4. NoWrap => t <= nextTxn' /\ nextTxn <= nextTxn'
  <2>. SUFFICES ASSUME NoWrap PROVE t <= nextTxn' /\ nextTxn <= nextTxn'
    OBVIOUS
  <2>1. t + 1 < Width
    BY JournalAssumption DEF NoWrap
  <2>2. (t + 1) % Width = t + 1
    BY <1>1, <2>1, ModWidth
  <2>. QED  BY <1>1, <1>2, <2>2 DEF BeginExplicit, TxnId
<1>. QED  BY <1>1, <1>3, <1>4, OpenInv DEF BeginExplicit

(* An allocating begin hands out an id above every open one. *)
LEMMA AllocatedFresh ==
  ASSUME JournalInv, nextTxn + 1 <= MaxTxn
  PROVE  /\ Allocated \in TxnId
         /\ NoWrap => Allocated = nextTxn + 1 /\ Allocated \notin open
<1>1. nextTxn \in Nat /\ open \subseteq TxnId
  BY JournalAssumption DEF JournalInv, JournalTypeOK, TxnId
<1>2. Allocated \in TxnId
  BY <1>1, ModWidth DEF Allocated
<1>3. ASSUME NoWrap PROVE Allocated = nextTxn + 1
  BY <1>1, <1>3, ModWidth, JournalAssumption DEF Allocated, NoWrap
<1>4. ASSUME NoWrap PROVE Allocated \notin open
  BY <1>1, <1>3, <1>4 DEF JournalInv, AllocatorAhead, TxnId
<1>. QED  BY <1>2, <1>3, <1>4

LEMMA BeginAllocInv ==
  ASSUME JournalInv, BeginAlloc
  PROVE  JournalInv'
<1>1. nextTxn \in TxnId
  BY DEF JournalInv, JournalTypeOK
<1>2. NoWrap => Allocated <= Allocated /\ nextTxn <= Allocated
  BY <1>1, AllocatedFresh DEF BeginAlloc, TxnId
<1>. QED  BY <1>2, AllocatedFresh, OpenInv DEF BeginAlloc

LEMMA RecordInv ==
  ASSUME JournalInv, NEW tag, NEW verb \in Verb, Record(tag, verb)
  PROVE  JournalInv'
<1>. DEFINE New == {[seq |-> seqClock + 1, txn |-> t, verb |-> verb] : t \in Targets(tag)}
<1>1. /\ New \subseteq JournalEntry
      /\ \A e \in New : e.seq = seqClock + 1 /\ e.verb = verb /\ e.txn \in open
  BY DEF JournalInv, JournalTypeOK, JournalEntry, Targets
<1>2. /\ entries' = entries \cup New /\ seqClock' = seqClock + 1
      /\ UNCHANGED <<open, nextTxn, kept, undone>>
  BY DEF Record
<1>3. seqClock \in Nat /\ \A e \in Ever : e \in JournalEntry /\ e.seq <= seqClock
  BY DEF JournalInv, JournalTypeOK, Ever
<1>4. \A e \in Ever : e.seq \in Nat /\ e.seq # seqClock + 1
  BY <1>3 DEF JournalEntry
<1>. HIDE DEF New
<1>5. JournalTypeOK'
  BY <1>1, <1>2, <1>3, <1>4 DEF JournalInv, JournalTypeOK, Ever
<1>6. OneCallPerSeq'
  BY <1>1, <1>2, <1>4 DEF JournalInv, OneCallPerSeq, Ever
<1>7. OneFate'
  BY <1>1, <1>2, <1>4 DEF JournalInv, OneFate, Ever
<1>8. AllocatorAhead'
  BY <1>2 DEF JournalInv, AllocatorAhead
<1>. QED  BY <1>5, <1>6, <1>7, <1>8 DEF JournalInv

LEMMA CommitInv ==
  ASSUME JournalInv, NEW t, Commit(t)
  PROVE  JournalInv'
<1>. USE DEF JournalInv, Ever, Commit, Journaled
<1>1. JournalTypeOK'
  BY DEF JournalTypeOK
<1>2. OneCallPerSeq'
  BY DEF OneCallPerSeq
<1>3. OneFate'
  BY DEF OneFate
<1>4. AllocatorAhead'
  BY DEF AllocatorAhead
<1>. QED  BY <1>1, <1>2, <1>3, <1>4

LEMMA TakeReversedInv ==
  ASSUME JournalInv, NEW t, TakeReversed(t)
  PROVE  JournalInv'
<1>. USE DEF JournalInv, Ever, TakeReversed, Journaled
<1>1. JournalTypeOK'
  BY DEF JournalTypeOK
<1>2. OneCallPerSeq'
  BY DEF OneCallPerSeq
<1>3. OneFate'
  BY DEF OneFate
<1>4. AllocatorAhead'
  BY DEF AllocatorAhead
<1>. QED  BY <1>1, <1>2, <1>3, <1>4

LEMMA NextInv == JournalInv /\ [JournalNext]_jvars => JournalInv'
<1>. SUFFICES ASSUME JournalInv, [JournalNext]_jvars PROVE JournalInv'
  OBVIOUS
<1>1. ASSUME NEW t \in Explicit, BeginExplicit(t) PROVE JournalInv'
  BY <1>1, BeginExplicitInv
<1>2. CASE BeginAlloc
  BY <1>2, BeginAllocInv
<1>3. ASSUME NEW tag, NEW verb \in Verb, Record(tag, verb) PROVE JournalInv'
  BY <1>3, RecordInv
<1>4. ASSUME NEW t, Commit(t) PROVE JournalInv'
  BY <1>4, CommitInv
<1>5. ASSUME NEW t, TakeReversed(t) PROVE JournalInv'
  BY <1>5, TakeReversedInv
<1>6. CASE UNCHANGED jvars
  BY <1>6 DEF jvars, JournalInv, JournalTypeOK, OneCallPerSeq, OneFate, AllocatorAhead, Ever
<1>. QED  BY <1>1, <1>2, <1>3, <1>4, <1>5, <1>6 DEF JournalNext

(* The journal's invariant holds in every reachable state: types, one call *)
(* per number, one fate per step, and an allocator ahead of the open ids.  *)
THEOREM JournalInvariant == JournalSpec => []JournalInv
<1>1. JournalInit => JournalInv
  BY InitInv
<1>2. JournalInv /\ [JournalNext]_jvars => JournalInv'
  BY NextInv
<1>. QED  BY <1>1, <1>2, PTL DEF JournalSpec

(* The types hold, every entry belongs to an open transaction, and the     *)
(* clock has drawn every number in use.                                    *)
THEOREM JournalTypes == JournalSpec => []JournalTypeOK
<1>1. JournalInv => JournalTypeOK
  BY DEF JournalInv
<1>. QED  BY <1>1, JournalInvariant, PTL

(* Whatever commits and aborts race, no step is both kept and undone. *)
THEOREM JournalOneFate == JournalSpec => []OneFate
<1>1. JournalInv => OneFate
  BY DEF JournalInv
<1>. QED  BY <1>1, JournalInvariant, PTL

(* Two entries with one number come from one call, whatever begins, records *)
(* and ends of transactions lie between them.                              *)
THEOREM JournalOneCallPerSeq == JournalSpec => []OneCallPerSeq
<1>1. JournalInv => OneCallPerSeq
  BY DEF JournalInv
<1>. QED  BY <1>1, JournalInvariant, PTL

(* The id counter stays ahead of every open id, those that callers chose   *)
(* included, so an allocating begin never replaces an open transaction.    *)
THEOREM JournalAllocatorAhead == JournalSpec => []AllocatorAhead
<1>1. JournalInv => AllocatorAhead
  BY DEF JournalInv
<1>. QED  BY <1>1, JournalInvariant, PTL

(* As long as ids do not wrap, no operation drops a journaled step without *)
(* keeping or undoing it.                                                  *)
THEOREM JournalNoSilentLoss == ASSUME NoWrap PROVE JournalSpec => NoSilentLoss
<1>1. ASSUME JournalInv, JournalNext
      PROVE  \A e \in entries : e \in entries' \cup kept' \cup undone'
  <2>. SUFFICES ASSUME NEW e \in entries PROVE e \in entries' \cup kept' \cup undone'
    OBVIOUS
  <2>1. e.txn \in open
    BY <1>1 DEF JournalInv, JournalTypeOK
  <2>2. ASSUME NEW t \in Explicit, BeginExplicit(t) PROVE e \in entries'
    BY <2>1, <2>2 DEF BeginExplicit, Journaled
  <2>3. ASSUME BeginAlloc PROVE e \in entries'
    BY <1>1, <2>1, <2>3, AllocatedFresh DEF BeginAlloc, Journaled
  <2>4. ASSUME NEW tag, NEW verb, Record(tag, verb) PROVE e \in entries'
    BY <2>4 DEF Record
  <2>5. ASSUME NEW t, Commit(t) PROVE e \in entries' \cup kept'
    BY <2>5 DEF Commit
  <2>6. ASSUME NEW t, TakeReversed(t) PROVE e \in entries' \cup undone'
    BY <2>6 DEF TakeReversed
  <2>. QED  BY <1>1, <2>2, <2>3, <2>4, <2>5, <2>6 DEF JournalNext
<1>. QED  BY <1>1, JournalInvariant, PTL DEF JournalSpec, NoSilentLoss

(* Steps are numbered in one total order over all transactions. *)
THEOREM JournalClockOrders == JournalSpec => ClockOrders
<1>1. ASSUME JournalInv, JournalNext
      PROVE  \A e \in entries' \ entries, f \in Ever : f.seq < e.seq
  <2>. SUFFICES ASSUME NEW e \in entries' \ entries, NEW f \in Ever PROVE f.seq < e.seq
    OBVIOUS
  <2>1. f.seq \in Nat /\ seqClock \in Nat /\ f.seq <= seqClock
    BY <1>1 DEF JournalInv, JournalTypeOK, Ever, JournalEntry
  <2>2. ASSUME NEW tag, NEW verb, Record(tag, verb) PROVE f.seq < e.seq
    <3>1. e.seq = seqClock + 1
      BY <2>2 DEF Record
    <3>. QED  BY <2>1, <3>1
  <2>3. entries' \subseteq entries \/ \E tag, verb : Record(tag, verb)
    BY <1>1 DEF JournalNext, BeginExplicit, BeginAlloc, Commit, TakeReversed
  <2>. QED  BY <2>2, <2>3
<1>. QED  BY <1>1, JournalInvariant, PTL DEF JournalSpec, ClockOrders
=============================================================================
