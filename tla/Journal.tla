------------------------------- MODULE Journal -------------------------------
(***************************************************************************)
(* The transaction journal of the automation bus, src/src/txn.rs.  One     *)
(* process-global table maps every open transaction to the forward steps   *)
(* it has run; one clock numbers the steps of all of them; one counter     *)
(* hands out transaction ids.  Each operation below runs under the         *)
(* journal's single mutex, so each is one action.                          *)
(*                                                                         *)
(* The Rust table is HashMap<txn, Vec<JournalEntry>>.  Here its keys are   *)
(* the set open and all its entries the set entries: an entry carries its  *)
(* txn, and within one vector the push order is the order of seq, because  *)
(* a seq is drawn and pushed under the same lock.  The arguments of a step *)
(* are left out.                                                           *)
(*                                                                         *)
(* kept and undone are history: the entries whose transaction was closed   *)
(* by commit, and by the drain that precedes a compensation.               *)
(***************************************************************************)
EXTENDS Naturals

CONSTANTS
  Verb,      \* the verbs that may be journaled
  Explicit,  \* the ids callers choose for themselves in txn_begin
  NoTxn,     \* an absent "txn" field
  Width,     \* ids and counters are u64: Width is 2^64 in the code
  MaxTxn,    \* bound of the model: the id counter is not driven past this
  MaxSeq     \* bound of the model: steps journaled over the whole run

ASSUME JournalAssumption ==
  /\ Width \in Nat \ {0}
  /\ Explicit \subseteq 0 .. (Width - 1)
  /\ MaxTxn \in Nat
  /\ MaxSeq \in Nat
  /\ NoTxn \notin Nat

VARIABLES
  open,      \* the keys of Journal.open
  entries,   \* its values, as one set
  seqClock,  \* Journal.seq: the number last drawn
  nextTxn,   \* Journal.next_txn: the highest id reserved
  kept,      \* history: entries a commit dropped
  undone     \* history: entries an abort drained

jvars == <<open, entries, seqClock, nextTxn, kept, undone>>

TxnId == 0 .. (Width - 1)
JournalEntry == [seq : Nat \ {0}, txn : TxnId, verb : Verb]

Journaled(t) == {e \in entries : e.txn = t}
Ever == entries \cup kept \cup undone

(* The id counter never reaches the end of u64, and no caller chooses the  *)
(* last id, whose successor is 0.                                          *)
NoWrap == MaxTxn < Width /\ Width - 1 \notin Explicit

-----------------------------------------------------------------------------
JournalInit ==
  /\ open = {} /\ entries = {}
  /\ seqClock = 0 /\ nextTxn = 0
  /\ kept = {} /\ undone = {}

(* Mutant: the "txn already open" check is missing. *)
BeginOverOpen(t) ==
  /\ (t + 1) % Width <= MaxTxn
  /\ nextTxn' = IF nextTxn < (t + 1) % Width THEN (t + 1) % Width ELSE nextTxn
  /\ open' = open \cup {t}
  /\ entries' = entries \ Journaled(t)
  /\ UNCHANGED <<seqClock, kept, undone>>

(* Mutant: a chosen id does not move the id counter. *)
BeginKeepsCounter(t) ==
  /\ t \notin open
  /\ open' = open \cup {t}
  /\ entries' = entries \ Journaled(t)
  /\ UNCHANGED <<seqClock, nextTxn, kept, undone>>

(* txn_begin with a caller-chosen id: refused when that id is open. *)
BeginExplicit(t) ==
  /\ t \notin open
  /\ (t + 1) % Width <= MaxTxn
  /\ nextTxn' = IF nextTxn < (t + 1) % Width THEN (t + 1) % Width ELSE nextTxn
  /\ open' = open \cup {t}
  /\ entries' = entries \ Journaled(t)
  /\ UNCHANGED <<seqClock, kept, undone>>

Allocated == (nextTxn + 1) % Width

(* Mutant: the first allocation of an empty journal restarts the clock. *)
BeginRestartsClock ==
  /\ nextTxn + 1 <= MaxTxn
  /\ nextTxn' = Allocated
  /\ open' = open \cup {Allocated}
  /\ entries' = entries \ Journaled(Allocated)
  /\ seqClock' = IF open = {} THEN 0 ELSE seqClock
  /\ UNCHANGED <<kept, undone>>

(* txn_begin without an id.  The insert is unconditional: it would replace *)
(* the vector of an id that is already open.                               *)
BeginAlloc ==
  /\ nextTxn + 1 <= MaxTxn
  /\ nextTxn' = Allocated
  /\ open' = open \cup {Allocated}
  /\ entries' = entries \ Journaled(Allocated)
  /\ UNCHANGED <<seqClock, kept, undone>>

(* The transactions a step tagged with tag is journaled in: the one it     *)
(* names if that is open, every open one when it names none.               *)
Targets(tag) == {t \in open : tag \in {NoTxn, t}}

(* Mutant: fetch_add returns the number before the increment. *)
RecordOldSeq(tag, verb) ==
  /\ open # {}
  /\ seqClock < MaxSeq
  /\ seqClock' = seqClock + 1
  /\ entries' = entries \cup
       {[seq |-> seqClock, txn |-> t, verb |-> verb] : t \in Targets(tag)}
  /\ UNCHANGED <<open, nextTxn, kept, undone>>

(* Mutant: the clock is read, not advanced, when one transaction is named. *)
RecordKeepsClock(tag, verb) ==
  /\ open # {}
  /\ seqClock < MaxSeq
  /\ seqClock' = IF tag = NoTxn THEN seqClock + 1 ELSE seqClock
  /\ entries' = entries \cup
       {[seq |-> seqClock + 1, txn |-> t, verb |-> verb] : t \in Targets(tag)}
  /\ UNCHANGED <<open, nextTxn, kept, undone>>

(* txn::record while some transaction is open.  The clock advances even    *)
(* when the named transaction is not among the open ones.                  *)
Record(tag, verb) ==
  /\ open # {}
  /\ seqClock < MaxSeq
  /\ seqClock' = seqClock + 1
  /\ entries' = entries \cup
       {[seq |-> seqClock + 1, txn |-> t, verb |-> verb] : t \in Targets(tag)}
  /\ UNCHANGED <<open, nextTxn, kept, undone>>

(* txn::commit.  Of an id that is not open it changes nothing. *)
Commit(t) ==
  /\ open' = open \ {t}
  /\ entries' = entries \ Journaled(t)
  /\ kept' = kept \cup Journaled(t)
  /\ UNCHANGED <<seqClock, nextTxn, undone>>

(* Mutant: the drain copies the vector and leaves the transaction open. *)
TakeCopies(t) ==
  /\ undone' = undone \cup Journaled(t)
  /\ UNCHANGED <<open, entries, seqClock, nextTxn, kept>>

(* txn::take_reversed: close the transaction and hand its entries over. *)
TakeReversed(t) ==
  /\ open' = open \ {t}
  /\ entries' = entries \ Journaled(t)
  /\ undone' = undone \cup Journaled(t)
  /\ UNCHANGED <<seqClock, nextTxn, kept>>

JournalNext ==
  \/ \E t \in Explicit : BeginExplicit(t)
  \/ BeginAlloc
  \/ \E tag \in TxnId \cup {NoTxn}, verb \in Verb : Record(tag, verb)
  \/ \E t \in TxnId : Commit(t)
  \/ \E t \in TxnId : TakeReversed(t)

JournalSpec == JournalInit /\ [][JournalNext]_jvars

-----------------------------------------------------------------------------
(* The types of the journal, and that every entry belongs to an open       *)
(* transaction and carries a number the clock has drawn.                   *)
JournalTypeOK ==
  /\ open \subseteq TxnId
  /\ entries \subseteq JournalEntry
  /\ kept \subseteq JournalEntry
  /\ undone \subseteq JournalEntry
  /\ seqClock \in Nat
  /\ nextTxn \in TxnId
  /\ \A e \in entries : e.txn \in open
  /\ \A e \in Ever : e.seq <= seqClock

(* Begin, record, commit and take_reversed over reused ids: two entries    *)
(* with one number, wherever they are or went, come from the same call, so *)
(* the number alone is the key under which the browser worker files what   *)
(* that call changed.                                                      *)
OneCallPerSeq ==
  \A e, f \in Ever : e.seq = f.seq => e.verb = f.verb

(* Whatever commits and aborts race for a transaction, one step of it has  *)
(* one fate: it is still journaled, or it was kept, or it was undone, and  *)
(* never two of these.                                                     *)
OneFate ==
  /\ entries \cap kept = {}
  /\ entries \cap undone = {}
  /\ kept \cap undone = {}

(* Ids handed out never run into ids in use, so that the unconditional     *)
(* insert of an allocating begin replaces nothing.                         *)
AllocatorAhead == NoWrap => \A t \in open : t <= nextTxn

(* A journaled step leaves the journal only through a commit or an abort   *)
(* of its transaction: no begin, record or other transaction's end drops   *)
(* it, which would leave a step that nothing compensates.                  *)
NoSilentLoss ==
  [][\A e \in entries : e \in entries' \cup kept' \cup undone']_jvars

(* A step recorded later is numbered higher than every step of every       *)
(* transaction before it, open or closed: one total order to unwind by.    *)
ClockOrders ==
  [][\A e \in entries' \ entries, f \in Ever : f.seq < e.seq]_jvars

(* The inductive invariant behind the theorems of Journal_proofs. *)
JournalInv ==
  /\ JournalTypeOK
  /\ OneCallPerSeq
  /\ OneFate
  /\ AllocatorAhead
=============================================================================
