------------------------------- MODULE MCHost -------------------------------
(***************************************************************************)
(* The components of MCDisk and the transaction journal: all that is a     *)
(* table under a mutex or a file, and of which only safety is asked.  The  *)
(* journal shares no state with them, so that a behaviour is either one of *)
(* the journal, with the disk as it was at first, or one of MCDisk.        *)
(***************************************************************************)
EXTENDS MCDisk, Journal

VARIABLE journaling

HostInit ==
  /\ Init /\ JournalInit
  /\ journaling \in BOOLEAN /\ (journaling => part = "log")

HostNext ==
  \/ journaling /\ JournalNext /\ UNCHANGED <<journaling, vars>>
  \/ ~journaling /\ Next /\ UNCHANGED <<journaling, jvars>>

HostSpec == HostInit /\ [][HostNext]_<<journaling, vars, jvars>>
=============================================================================
