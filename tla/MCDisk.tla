------------------------------- MODULE MCDisk -------------------------------
(***************************************************************************)
(* The components that meet on disk or in a table under a mutex, side by   *)
(* side.  They share no state; a behaviour is one of the component chosen  *)
(* at its start, the others keep one of their initial states.              *)
(***************************************************************************)
EXTENDS ThemeStore, Hooks, KvStore, HostLog, Tail, Jobs, FileOps, FileQueries

VARIABLE part

(* A and B, each with a file and a directory of its own, some left out,    *)
(* and perhaps one directory that cannot be read.                          *)
Holding(content) == [kind |-> "file", lines |-> content, readable |-> TRUE]
Locked == [Holding(<<"x">>) EXCEPT !.readable = FALSE]

SmallTrees == UNION {
  LET folder(p) == [kind |-> "dir", lines |-> <<>>, readable |-> p # shut]
      node(p) == CASE p = <<"A", "f">>       -> fa
                   [] p = <<"B", "f">>       -> fb
                   [] p = <<"A", "d", leaf>> -> da
                   [] p = <<"B", "d", "f">>  -> db
                   [] OTHER                  -> folder(p)
      paths == {<<"A">>, <<"B">>, <<"A", "d">>, <<"B", "d">>, <<"A", "f">>, <<"B", "f">>,
                <<"A", "d", leaf>>, <<"B", "d", "f">>}
  IN {[p \in {q \in paths : node(q) # NoFile} |-> node(p)]} :
  fa \in {Holding(<<"x">>), Holding(<<"bad", "x">>), Holding(<<"y", "y", "x">>), Locked, NoFile},
  fb \in {Holding(<<"x">>), Holding(<<"y">>), Holding(<<"x", "bad">>), Holding(<<"x", "x", "x">>),
         Locked, [kind |-> "dir", lines |-> <<>>, readable |-> TRUE], NoFile},
  da \in {Holding(<<"x">>), Holding(<<"x", "bad">>), NoFile},
  db \in {Holding(<<"x">>), Holding(<<"y">>), NoFile},
  leaf \in {"f", "g", ".h"}, shut \in {<<>>, <<"A">>, <<"A", "d">>, <<"B", "d">>}}

(* A directory with a file and perhaps a link, to the file or to nothing.  *)
SmallDisks == UNION {
  LET files == <<a>> :> Dir @@ <<a, a>> :> File("old")
      link(p) == <<a, b>> :> LinkTo(p)
  IN IF a = b THEN {} ELSE {files, files @@ link(<<a, a>>), files @@ link(<<b>>)} :
  a, b \in FileName}

vars == <<part, storeVars, hookVars, kvVars, logVars, tailVars, jobVars, fileVars, queryVars>>

Init ==
  /\ part \in {"theme", "hooks", "kv", "log", "tail", "jobs", "files", "queries"}
  /\ ThemeStoreInit /\ HooksInit /\ KvInit /\ HostLogInit /\ JobsInit
  /\ TailInit /\ (part # "tail" => tailer.from = 0)
  /\ FileInit /\ (part # "files" => disk = CHOOSE d \in Disks : TRUE)
  /\ IF part = "queries" THEN FileQueriesInit
     ELSE /\ tree = [p \in {} |-> Locked] /\ stack = {} /\ found = {} /\ capped = FALSE
          /\ query = [kind |-> "walk", deep |-> TRUE, dirsOnly |-> FALSE]

Next ==
  \/ /\ part = "theme" /\ ThemeStoreNext
     /\ UNCHANGED <<part, hookVars, kvVars, logVars, tailVars, jobVars, fileVars, queryVars>>
  \/ /\ part = "hooks" /\ HooksNext
     /\ UNCHANGED <<part, storeVars, kvVars, logVars, tailVars, jobVars, fileVars, queryVars>>
  \/ /\ part = "kv" /\ KvNext
     /\ UNCHANGED <<part, storeVars, hookVars, logVars, tailVars, jobVars, fileVars, queryVars>>
  \/ /\ part = "log" /\ HostLogNext
     /\ UNCHANGED <<part, storeVars, hookVars, kvVars, tailVars, jobVars, fileVars, queryVars>>
  \/ /\ part = "tail" /\ TailNext
     /\ UNCHANGED <<part, storeVars, hookVars, kvVars, logVars, jobVars, fileVars, queryVars>>
  \/ /\ part = "jobs" /\ JobsNext
     /\ UNCHANGED <<part, storeVars, hookVars, kvVars, logVars, tailVars, fileVars, queryVars>>
  \/ /\ part = "files" /\ FileNext
     /\ UNCHANGED <<part, storeVars, hookVars, kvVars, logVars, tailVars, jobVars, queryVars>>
  \/ /\ part = "queries" /\ FileQueriesNext
     /\ UNCHANGED <<part, storeVars, hookVars, kvVars, logVars, tailVars, jobVars, fileVars>>

Spec == Init /\ [][Next]_vars

(* The type invariants of the eight components.                            *)
DiskTypesOK ==
  /\ ThemeStoreTypeOK /\ HooksTypeOK /\ KvTypeOK /\ HostLogTypeOK
  /\ TailTypeOK /\ JobsTypeOK /\ FileTypeOK /\ FileQueriesTypeOK
=============================================================================
