-------------------------------- MODULE Saga --------------------------------
(***************************************************************************)
(* What the transactional bus promises about compensation, without its     *)
(* threads, its journal or its locks.  A step of a transaction is pending  *)
(* until the transaction ends.  It ends in one of two ways, for all of its *)
(* steps at once: they are kept, or they leave as one batch, which is sent *)
(* to the browser one time.  TxnBus implements this.                       *)
(***************************************************************************)
EXTENDS Naturals

CONSTANT Txn  \* transaction ids

VARIABLES
  pending,  \* steps of transactions that have not ended
  kept,     \* steps some commit let stand
  batches,  \* compensations decided and not yet sent, each a set of steps
  sent      \* messages, each with the batch it carries and the place it was sent at

svars == <<pending, kept, batches, sent>>

Of(t) == {s \in pending : s.txn = t}
Known == pending \cup kept \cup UNION (batches \cup {m.steps : m \in sent})

SagaInit == pending = {} /\ kept = {} /\ batches = {} /\ sent = {}

(* One call runs one step of each transaction it belongs to, all under a   *)
(* number later than every number used before.                             *)
Step ==
  LET New == pending' \ pending
  IN /\ pending \subseteq pending' /\ New # {}
     /\ \A r, s \in New : r.seq = s.seq
     /\ \A s \in New, k \in Known : k.seq < s.seq
     /\ UNCHANGED <<kept, batches, sent>>

Keep(t) ==
  /\ pending' = pending \ Of(t)
  /\ kept' = kept \cup Of(t)
  /\ UNCHANGED <<batches, sent>>

Take(t) ==
  /\ Of(t) # {}
  /\ pending' = pending \ Of(t)
  /\ batches' = batches \cup {Of(t)}
  /\ UNCHANGED <<kept, sent>>

Send(B) ==
  /\ batches' = batches \ {B}
  /\ \E m \in sent' \ sent : m.steps = B /\ sent' = sent \cup {m}
  /\ UNCHANGED <<pending, kept>>

SagaNext ==
  \/ Step
  \/ \E t \in Txn : Keep(t) \/ Take(t)
  \/ \E B \in batches : Send(B)

SagaSpec == SagaInit /\ [][SagaNext]_svars
=============================================================================
