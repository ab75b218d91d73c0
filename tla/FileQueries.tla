---------------------------- MODULE FileQueries -----------------------------
(***************************************************************************)
(* The queries over a directory tree, src/src/fsops.rs (walk) and fsx.rs   *)
(* (list_dir, list_subdirs, folder_size, grep, find_duplicates,            *)
(* compare_dirs).  Each keeps a stack of directories still to be read and  *)
(* collects what it is after, entry by entry, until the tree is done, or a *)
(* cap or deadline is reached; two of them then work on what was           *)
(* collected.  One directory is one step here, and which is read next is   *)
(* left open, as the order of a listing is.                                *)
(*                                                                         *)
(* A tree is a function from paths, which are sequences of names, to       *)
(* nodes.  Two of its directories, A and B, are compared with each other,  *)
(* and all of it is searched.  A file has lines, whose number is its size, *)
(* some of which are not text.  A file or a directory may be one that      *)
(* cannot be read.  There are no links, and find_duplicates is asked to    *)
(* search recursively.                                                     *)
(***************************************************************************)
EXTENDS Naturals, Sequences, SequencesExt, FiniteSets

CONSTANTS
  Trees,    \* directory trees that are queried
  QueryCap, \* MAX_WALK and max_results: entries a walk or grep collects
  SideCap   \* MAX_ENTRIES: entries of each side of a comparison

(* Lines: one that is searched for, another, one that is not UTF-8.        *)
Line == {"x", "y", "bad"}
Folders == [kind : {"dir"}, lines : {<<>>}, readable : BOOLEAN]
Files == [kind : {"file"}, lines : Seq(Line) \ {<<>>}, readable : BOOLEAN]
(* The part of a path that leads to a directory above it.                  *)
Above(p, n) == SubSeq(p, 1, n)

IsTree(t) ==
  /\ IsFiniteSet(DOMAIN t) /\ DOMAIN t \subseteq Seq(STRING) \ {<<>>}
  /\ \A p \in DOMAIN t : /\ t[p] \in Files \cup Folders
                        /\ \A n \in 1..(Len(p) - 1) : Above(p, n) \in DOMAIN t /\ t[Above(p, n)] \in Folders
  /\ \A side \in {<<"A">>, <<"B">>} : side \in DOMAIN t /\ t[side] \in Folders

ASSUME FileQueriesAssumption ==
  {QueryCap, SideCap} \subseteq Nat \ {0} /\ \A t \in Trees : IsTree(t)

VARIABLES
  tree,   \* path -> node
  query,  \* what is asked: its kind, walk's options
  stack,  \* directories to read
  found,  \* entries collected, by the root they were collected under
  capped  \* a cap or deadline left something out, or a listing failed

queryVars == <<tree, query, stack, found, capped>>

Size(p) == Len(tree[p].lines)
(* A file with more lines is too large to be searched or hashed.           *)
HashCap == 2
IsFolder(p) == tree[p].kind = "dir"
Opens(d) == d # <<>> => tree[d].readable
Hidden(p) == Last(p) = ".h"
Ext(p) == IF Last(p) = "g" THEN "other" ELSE "same"
Children(d) == {p \in DOMAIN tree : Len(p) = Len(d) + 1 /\ Front(p) = d}

-----------------------------------------------------------------------------
FileQueriesInit ==
  /\ tree \in Trees
  /\ query \in [kind : {"walk"}, deep : {FALSE}, dirsOnly : BOOLEAN]
                 \cup [kind : {"walk", "grep", "dups", "compare", "size"}, deep : {TRUE}, dirsOnly : {FALSE}]
                 \cup [kind : {"list"}, deep : {FALSE}, dirsOnly : BOOLEAN]
  /\ stack = CASE query.kind = "compare" -> {<<"A">>, <<"B">>}
               [] query.kind = "list"    -> {<<"A">>}
               [] OTHER                  -> {<<>>}
  /\ found = {} /\ capped = FALSE

(* What an entry contributes to each query.                                *)
Walked(p) == query.dirsOnly => IsFolder(p)
(* grep ends a file at its first line that is not UTF-8; one hit stands    *)
(* for all the lines of a file that have it.                               *)
Hit(p) ==
  /\ ~Hidden(p) /\ ~IsFolder(p) /\ Size(p) <= HashCap /\ tree[p].readable
  /\ \E i \in 1..Size(p) : tree[p].lines[i] = "x" /\ \A j \in 1..i : tree[p].lines[j] # "bad"
Candidate(p) == ~Hidden(p) /\ ~IsFolder(p) /\ Size(p) >= 1
Compared(p) == ~Hidden(p)
Shown(p) == ~Hidden(p) /\ (query.dirsOnly => IsFolder(p)) \* list_dir, list_subdirs
Counted(p) == ~IsFolder(p) \* folder_size: hidden and unreadable files too
Collected(p) ==
  CASE query.kind = "walk"    -> Walked(p)
    [] query.kind = "grep"    -> Hit(p)
    [] query.kind = "dups"    -> Candidate(p)
    [] query.kind = "compare" -> Compared(p)
    [] query.kind = "list"    -> Shown(p)
    [] query.kind = "size"    -> Counted(p)

(* Mutant: a directory met below the root is not entered. *)
Shallow(p) == IsFolder(p) /\ Len(p) = 1
(* A directory that will be read in its turn.                              *)
Entered(p) ==
  /\ IsFolder(p)
  /\ query.kind = "walk" => query.deep \/ Len(p) <= 1
  /\ query.kind \notin {"walk", "size"} => ~Hidden(p)
  /\ query.kind # "list"

(* Only walk, grep and compare_dirs have a cap, the last for each side.    *)
RoomFor(p) ==
  IF query.kind \in {"dups", "list", "size"} THEN 1 + Cardinality(DOMAIN tree)
  ELSE IF query.kind = "compare" THEN SideCap - Cardinality({q \in found : Head(q) = Head(p)})
  ELSE QueryCap - Cardinality(found)

(* A directory that cannot be read is passed over, and nothing says so,    *)
(* except that a listing of it is answered with an error.                  *)
PassOver(d) ==
  /\ ~Opens(d)
  /\ stack' = stack \ {d} /\ capped' = (capped \/ query.kind = "list")
  /\ UNCHANGED <<tree, query, found>>

ReadFolder(d) ==
  LET hits == {p \in Children(d) : Collected(p)}
      room == RoomFor(IF d = <<>> THEN <<"A">> ELSE d)
      full == Cardinality(hits) >= room /\ hits # {}
      stops == {e \in stack : query.kind = "compare" => Head(e) = Head(d)}
  IN
  /\ Opens(d)
  /\ \E kept \in SUBSET hits :
       /\ Cardinality(kept) = IF full THEN room ELSE Cardinality(hits)
       /\ found' = found \cup kept
  /\ capped' = (capped \/ full)
  /\ stack' = IF full THEN stack \ stops
              ELSE (stack \ {d}) \cup {p \in Children(d) : Entered(p)}
  /\ UNCHANGED <<tree, query>>

(* folder_size past its deadline reads nothing more.  What it was in is    *)
(* dropped, and unless entries of the root are still to come, which makes  *)
(* it an error, the rest is returned as if it were the whole.              *)
TimesOut ==
  /\ query.kind = "size" /\ stack # {}
  /\ stack' = {} /\ capped' = TRUE
  /\ UNCHANGED <<tree, query, found>>

FileQueriesNext == TimesOut \/ \E d \in stack : ReadFolder(d) \/ PassOver(d)
FileQueriesSpec == FileQueriesInit /\ [][FileQueriesNext]_queryVars

-----------------------------------------------------------------------------
(* find_duplicates: buckets by size and extension, then by hash; a bucket  *)
(* or group of one is dropped, as is a file that cannot be read.           *)
Bucket(p) == {q \in found : Size(q) = Size(p) /\ Ext(q) = Ext(p)}
Groups ==
  LET same(p) == {q \in Bucket(p) : tree[q].readable /\ tree[q].lines = tree[p].lines}
  IN {same(p) : p \in {q \in found : Cardinality(Bucket(q)) > 1 /\ tree[q].readable
                                      /\ Cardinality(same(q)) > 1}}

(* compare_dirs.  What is too large or cannot be read has no fingerprint,  *)
(* and two of those count as equal.                                        *)
Fingerprint(p) == IF Size(p) > HashCap \/ ~tree[p].readable THEN <<>> ELSE tree[p].lines
In(side) == {Tail(p) : p \in {q \in found : Head(q) = side}}
Different == {r \in In("A") \cap In("B") :
  LET a == <<"A">> \o r  b == <<"B">> \o r IN
  \/ IsFolder(a) # IsFolder(b)
  \/ ~IsFolder(a) /\ (Size(a) # Size(b) \/ Fingerprint(a) # Fingerprint(b))}

-----------------------------------------------------------------------------
FileQueriesTypeOK ==
  /\ found \subseteq DOMAIN tree /\ stack \subseteq DOMAIN tree \cup {<<>>}
  /\ \A p \in stack \ {<<>>} : IsFolder(p)

(* What can be come to: each directory above it, up to the root, opens.    *)
Reachable == {p \in DOMAIN tree : \A n \in 1..(Len(p) - 1) : Opens(Above(p, n))}
Visible == {p \in Reachable : ".h" \notin Range(p)}
Beneath(side) == {Tail(p) : p \in {q \in Visible : Head(q) = side /\ Len(q) > 1}}
Equal(a, b) == tree[a].kind = tree[b].kind /\ (IsFolder(a) \/ tree[a].lines = tree[b].lines)

(* A query that reached no cap or deadline answers for all of the tree     *)
(* that is under directories it can read, and says nothing of what is not: *)
(* walk lists it all, to the depth asked for; a listing shows what is      *)
(* visible; a folder's size counts every file; grep finds every visible    *)
(* file, not too large, with the text in a line before the first that is   *)
(* not UTF-8; two files are reported as duplicates exactly when they are   *)
(* equal and named alike; and a comparison says of each path on which side *)
(* it could be come to and whether its content differs, but for files both *)
(* too large to be read, or one or both unreadable.                        *)
QueriesExact == stack = {} /\ ~capped =>
  CASE query.kind = "walk" ->
         found = {p \in Reachable : (query.dirsOnly => IsFolder(p)) /\ (query.deep \/ Len(p) <= 2)}
    [] query.kind = "grep" ->
         found = {p \in Visible : /\ tree[p].readable /\ Size(p) <= HashCap
                                  /\ \E i \in 1..Size(p) : /\ tree[p].lines[i] = "x"
                                                            /\ \A j \in 1..Size(p) : tree[p].lines[j] = "bad" => i < j}
    [] query.kind = "list" ->
         found = {p \in Visible : Len(p) = 2 /\ Head(p) = "A" /\ (query.dirsOnly => IsFolder(p))}
    [] query.kind = "size" -> found = {p \in Reachable : ~IsFolder(p)}
    [] query.kind = "dups" ->
         \A p, q \in {r \in DOMAIN tree : ~IsFolder(r)} :
           p # q => ((\E g \in Groups : {p, q} \subseteq g)
                       <=> ({p, q} \subseteq Visible /\ tree[p] = tree[q] /\ tree[p].readable
                              /\ Ext(p) = Ext(q)))
    [] query.kind = "compare" ->
         /\ In("A") \ In("B") = Beneath("A") \ Beneath("B")
         /\ In("B") \ In("A") = Beneath("B") \ Beneath("A")
         /\ \A r \in Beneath("A") \cap Beneath("B") :
              LET a == <<"A">> \o r  b == <<"B">> \o r IN
              (tree[a].readable /\ tree[b].readable /\ Size(a) <= HashCap)
                => (r \in Different <=> ~Equal(a, b))
=============================================================================
