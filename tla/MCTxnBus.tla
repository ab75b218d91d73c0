------------------------------ MODULE MCTxnBus ------------------------------
(* Instances of TxnBus for TLC. *)
EXTENDS TxnBus, TLC

CONSTANTS hud, script, v1, v2

(* Each client has a transaction id of its own and always writes it. *)
OwnIds == (hud :> {1} @@ script :> {2})

(* Both clients use the same id; one of them not in every call. *)
SharedIds == (hud :> {1, NoTxn} @@ script :> {1})

(* One client alone. *)
OneId == (hud :> {1})

OneOp == {{v1}}
=============================================================================
