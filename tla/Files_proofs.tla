---------------------------- MODULE Files_proofs ----------------------------
(***************************************************************************)
(* The file commands of fsx.rs and fsops.rs, for disks, trees, clients and *)
(* depths of any size: walks and comparisons give exactly what the         *)
(* definition of their answer says, an operation writes nothing but its    *)
(* own footprint, and a directory copy that ran through holds what its     *)
(* source held.  The last section puts the components of the disk together *)
(* in one type theorem.                                                    *)
(***************************************************************************)
EXTENDS MCDisk, ThemeStore_proofs, Disk_proofs, SequenceTheorems, FiniteSetTheorems, TLAPS

-----------------------------------------------------------------------------
(***************************************************************************)
(* Queries (FileQueries).  Which directory is read next is open, so the    *)
(* invariant does not speak of an order: a query comes to the directories  *)
(* below its roots that it enters, as far as those above them open, and of *)
(* each of them that opens it has collected what it is after, or that      *)
(* directory or one above it is still on the stack, until a cap leaves     *)
(* something out.                                                          *)
(***************************************************************************)
LEMMA AboveIs ==
  ASSUME NEW S, NEW p \in Seq(S), NEW n \in 0..Len(p)
  PROVE  /\ Above(p, n) \in Seq(S) /\ Len(Above(p, n)) = n
         /\ \A i \in 1..n : Above(p, n)[i] = p[i]
<1>1. Len(p) \in Nat /\ n \in Int /\ \A i \in 1..n : p[i] \in S
  BY LenProperties, ElementOfSeq
<1>2. /\ SubSeq(p, 1, n) \in Seq(S)
      /\ Len(SubSeq(p, 1, n)) = IF 1 <= n THEN n - 1 + 1 ELSE 0
      /\ \A i \in 1 .. n - 1 + 1 : SubSeq(p, 1, n)[i] = p[1 + i - 1]
  BY <1>1, SubSeqProperties
<1> QED BY <1>1, <1>2 DEF Above

LEMMA AboveAbove ==
  ASSUME NEW S, NEW p \in Seq(S), NEW n \in 0..Len(p), NEW m \in 0..n
  PROVE  Above(Above(p, n), m) = Above(p, m)
<1>0. Len(p) \in Nat
  BY LenProperties
<1>1. /\ Above(p, n) \in Seq(S) /\ Len(Above(p, n)) = n
      /\ \A i \in 1..n : Above(p, n)[i] = p[i]
  BY AboveIs
<1> DEFINE q == Above(p, n)
<1> HIDE DEF q
<1>2. q \in Seq(S) /\ m \in 0..Len(q) /\ m \in 0..Len(p) /\ m \in 0..n
  BY <1>0, <1>1 DEF q
<1>3. /\ Above(q, m) \in Seq(S) /\ Len(Above(q, m)) = m
      /\ \A i \in 1..m : Above(q, m)[i] = q[i]
  BY <1>2, AboveIs
<1>4. /\ Above(p, m) \in Seq(S) /\ Len(Above(p, m)) = m
      /\ \A i \in 1..m : Above(p, m)[i] = p[i]
  BY <1>2, AboveIs
<1>5. \A i \in 1..m : Above(q, m)[i] = Above(p, m)[i]
  BY <1>0, <1>1, <1>2, <1>3, <1>4 DEF q
<1>6. Above(q, m) = Above(p, m)
  BY <1>3, <1>4, <1>5, SeqEqual
<1> QED BY <1>6 DEF q

LEMMA AboveAll ==
  ASSUME NEW S, NEW p \in Seq(S)
  PROVE  Above(p, Len(p)) = p
BY SubSeqFull DEF Above

Queries == [kind : {"walk"}, deep : {FALSE}, dirsOnly : BOOLEAN]
             \cup [kind : {"walk", "grep", "dups", "compare", "size"}, deep : {TRUE}, dirsOnly : {FALSE}]
             \cup [kind : {"list"}, deep : {FALSE}, dirsOnly : BOOLEAN]

(* Where a query begins, and which directories it comes to from there.     *)
RootDepth == IF query.kind \in {"compare", "list"} THEN 1 ELSE 0
Roots == CASE query.kind = "compare" -> {<<"A">>, <<"B">>}
           [] query.kind = "list"    -> {<<"A">>}
           [] OTHER                  -> {<<>>}
Due(d) ==
  /\ d \in Seq(STRING) /\ RootDepth <= Len(d) /\ Above(d, RootDepth) \in Roots
  /\ \A n \in RootDepth + 1 .. Len(d) : Above(d, n) \in DOMAIN tree /\ Entered(Above(d, n))
  /\ \A n \in RootDepth .. Len(d) - 1 : Opens(Above(d, n))

(* An entry of a directory that is come to and opens.                      *)
Met(p) == Due(Front(p)) /\ Opens(Front(p))
Waiting(d) == \E n \in RootDepth .. Len(d) : Above(d, n) \in stack
Read(d) == \A p \in Children(d) : Collected(p) => p \in found

(* Unless something was left out, a directory that the query comes to and  *)
(* that opens is read, or one above it still is to be.                     *)
QueryInv ==
  /\ tree \in Trees /\ query \in Queries
  /\ \A d \in stack : Due(d)
  /\ \A p \in found : p \in DOMAIN tree /\ Collected(p) /\ Met(p)
  /\ ~capped => \A d : Due(d) /\ Opens(d) => Waiting(d) \/ Read(d)

LEMMA FolderIs ==
  \A f \in Folders : f.kind = "dir" /\ f.lines = <<>> /\ f.readable \in BOOLEAN
BY DEF Folders

LEMMA TreeIs ==
  ASSUME tree \in Trees
  PROVE  /\ IsFiniteSet(DOMAIN tree) /\ \A p \in DOMAIN tree : p \in Seq(STRING) /\ Len(p) \in Nat /\ Len(p) >= 1
         /\ \A p \in DOMAIN tree :
              /\ tree[p] \in Files \cup Folders
              /\ \A n \in 1..(Len(p) - 1) : Above(p, n) \in DOMAIN tree /\ tree[Above(p, n)] \in Folders
         /\ \A side \in {<<"A">>, <<"B">>} : side \in DOMAIN tree /\ tree[side] \in Folders
<1>1. IsTree(tree)
  BY FileQueriesAssumption
<1>2. \A p \in DOMAIN tree : p \in Seq(STRING) /\ p # <<>>
  BY <1>1 DEF IsTree
<1>3. \A p \in DOMAIN tree : Len(p) \in Nat /\ Len(p) >= 1
  BY <1>2, EmptySeq
<1> QED BY <1>1, <1>2, <1>3 DEF IsTree

LEMMA RootsAre ==
  ASSUME tree \in Trees
  PROVE  \A d \in Roots : d \in Seq(STRING) /\ Len(d) = RootDepth /\ Due(d)
<1>1. /\ Len(<<"A">>) = 1 /\ Len(<<"B">>) = 1 /\ Len(<<>>) = 0
      /\ <<"A">> \in Seq(STRING) /\ <<"B">> \in Seq(STRING) /\ <<>> \in Seq(STRING)
  BY TreeIs, EmptySeq
<1>2. \A d \in Roots : d \in Seq(STRING) /\ Len(d) = RootDepth
  BY <1>1 DEF Roots, RootDepth
<1>3. RootDepth \in Nat
  BY DEF RootDepth
<1>4. \A d \in Roots : Above(d, RootDepth) = d
  BY <1>2, AboveAll
<1>5. \A d \in Roots : \A n \in RootDepth .. Len(d) - 1 : FALSE
  BY <1>2, <1>3
<1> QED BY <1>2, <1>3, <1>4, <1>5 DEF Due

LEMMA QueryInvInit == FileQueriesInit => QueryInv
<1> SUFFICES ASSUME FileQueriesInit PROVE QueryInv
  OBVIOUS
<1>1. tree \in Trees /\ query \in Queries /\ found = {} /\ stack = Roots
  BY DEF FileQueriesInit, Queries, Roots
<1>2. \A d \in stack : Due(d)
  BY <1>1, RootsAre
<1>3. ASSUME NEW d, Due(d) PROVE Waiting(d)
  <2>1. Above(d, RootDepth) \in stack /\ RootDepth \in RootDepth .. Len(d)
    BY <1>1, <1>3, LenProperties DEF Due, RootDepth
  <2> QED BY <2>1 DEF Waiting
<1> QED BY <1>1, <1>2, <1>3 DEF QueryInv

(* The tree and the question stay.                                         *)
LEMMA DueStays ==
  ASSUME tree' = tree, query' = query
  PROVE  /\ RootDepth' = RootDepth
         /\ \A d : (Due(d)' <=> Due(d)) /\ (Opens(d)' <=> Opens(d)) /\ Children(d)' = Children(d)
         /\ \A p : Met(p)' <=> Met(p)
         /\ \A p : Collected(p)' = Collected(p)
<1>1. RootDepth' = RootDepth /\ Roots' = Roots
  BY DEF RootDepth, Roots
<1>2. \A p : IsFolder(p)' = IsFolder(p) /\ Size(p)' = Size(p)
  BY DEF IsFolder, Size
<1>3. \A p : Entered(p)' = Entered(p)
  BY <1>2 DEF Entered
<1>0. \A d : Opens(d)' <=> Opens(d)
  BY DEF Opens
<1>4. \A d : Due(d)' <=> Due(d)
  BY <1>0, <1>1, <1>3 DEF Due
<1>5. \A p : Collected(p)' = Collected(p)
  BY <1>2 DEF Collected, Walked, Hit, Candidate, Compared, Shown, Counted
<1>6. \A d : Children(d)' = Children(d)
  BY DEF Children
<1>7. \A p : Met(p)' <=> Met(p)
  BY <1>0, <1>4 DEF Met
<1> QED BY <1>0, <1>1, <1>4, <1>5, <1>6, <1>7

(* A directory entered below one that the query comes to and reads is come *)
(* to.                                                                     *)
LEMMA DueBelow ==
  ASSUME tree \in Trees, NEW d, Due(d), Opens(d), NEW p \in Children(d)
  PROVE  /\ Front(p) = d /\ p \in DOMAIN tree /\ Met(p)
         /\ Entered(p) => Due(p)
<1>1. p \in DOMAIN tree /\ Len(p) = Len(d) + 1 /\ Front(p) = d
  BY DEF Children
<1>2. p \in Seq(STRING) /\ d \in Seq(STRING) /\ Len(p) \in Nat /\ Len(d) \in Nat /\ RootDepth \in Nat
      /\ RootDepth <= Len(d)
  BY <1>1, TreeIs, LenProperties DEF Due, RootDepth
<1>3. d = Above(p, Len(d))
  BY <1>1, <1>2 DEF Front, Above
<1>4. ASSUME NEW n \in 0..Len(d) PROVE Above(p, n) = Above(d, n)
  <2>1. Len(d) \in 0..Len(p)
    BY <1>1, <1>2
  <2> QED BY <1>2, <1>3, <2>1, AboveAbove
<1>5. ASSUME Entered(p) PROVE Due(p)
  <2>1. Above(p, RootDepth) \in Roots
    BY <1>2, <1>4 DEF Due
  <2>2. ASSUME NEW n \in RootDepth + 1 .. Len(p)
        PROVE  Above(p, n) \in DOMAIN tree /\ Entered(Above(p, n))
    <3>1. CASE n <= Len(d)
      <4>1. n \in 0..Len(d) /\ n \in RootDepth + 1 .. Len(d)
        BY <1>2, <3>1
      <4> QED BY <1>4, <4>1 DEF Due
    <3>2. CASE n > Len(d)
      <4>1. n = Len(p)
        BY <1>1, <1>2, <3>2
      <4> QED BY <1>1, <1>2, <1>5, <4>1, AboveAll
    <3> QED BY <1>2, <3>1, <3>2
  <2>3. ASSUME NEW n \in RootDepth .. Len(p) - 1
        PROVE  Opens(Above(p, n))
    <3>1. CASE n < Len(d)
      <4>1. n \in 0..Len(d) /\ n \in RootDepth .. Len(d) - 1
        BY <1>2, <3>1
      <4> QED BY <1>4, <4>1 DEF Due
    <3>2. CASE ~(n < Len(d))
      <4>1. n = Len(d)
        BY <1>1, <1>2, <3>2
      <4> QED BY <1>3, <4>1
    <3> QED BY <3>1, <3>2
  <2> QED BY <1>1, <1>2, <2>1, <2>2, <2>3 DEF Due
<1> QED BY <1>1, <1>5 DEF Met

LEMMA ReadFolderInv ==
  ASSUME QueryInv, NEW e \in stack, ReadFolder(e)
  PROVE  QueryInv'
<1> DEFINE hits == {p \in Children(e) : Collected(p)}
           room == RoomFor(IF e = <<>> THEN <<"A">> ELSE e)
           full == Cardinality(hits) >= room /\ hits # {}
<1> HIDE DEF room
<1>1. PICK kept \in SUBSET hits :
        /\ Cardinality(kept) = IF full THEN room ELSE Cardinality(hits)
        /\ found' = found \cup kept
  BY DEF ReadFolder, room
<1>2. /\ tree' = tree /\ query' = query /\ capped' = (capped \/ full)
      /\ full => stack' \subseteq stack
      /\ ~full => stack' = (stack \ {e}) \cup {p \in Children(e) : Entered(p)}
  BY DEF ReadFolder, room
<1>3. tree \in Trees /\ query \in Queries /\ Due(e) /\ Opens(e)
  BY DEF QueryInv, ReadFolder
<1>4. \A d \in stack' : Due(d)
  BY <1>2, <1>3, DueBelow DEF QueryInv
<1>5. \A p \in found' : p \in DOMAIN tree /\ Collected(p) /\ Met(p)
  BY <1>1, <1>3, DueBelow DEF QueryInv
<1>6. ASSUME ~capped', NEW d, Due(d), Opens(d) PROVE Waiting(d)' \/ Read(d)'
  <2>0. ~capped /\ ~full
    BY <1>2, <1>6
  <2>1. kept = hits
    <3>1. IsFiniteSet(hits)
      <4>1. IsFiniteSet(DOMAIN tree) /\ hits \subseteq DOMAIN tree
        BY <1>3, TreeIs DEF Children
      <4> QED BY <4>1, FS_Subset
    <3> QED BY <1>1, <2>0, <3>1, FS_Subset
  <2>2. hits \subseteq found'
    BY <1>1, <2>1
  <2>3. d \in Seq(STRING) /\ Len(d) \in Nat /\ RootDepth \in Nat
    BY <1>6, LenProperties DEF Due, RootDepth
  <2>4. CASE Waiting(d)
    <3>1. PICK n \in RootDepth .. Len(d) : Above(d, n) \in stack
      BY <2>4 DEF Waiting
    <3>2. CASE Above(d, n) # e
      <4>1. Above(d, n) \in stack'
        BY <1>2, <2>0, <3>1, <3>2
      <4> QED BY <1>2, <4>1, DueStays DEF Waiting
    <3>3. CASE Above(d, n) = e /\ n = Len(d)
      <4>1. d = e
        BY <2>3, <3>3, AboveAll
      <4> QED BY <1>2, <2>2, <4>1, DueStays DEF Read
    <3>4. CASE Above(d, n) = e /\ n # Len(d)
      <4>1. n + 1 \in RootDepth + 1 .. Len(d) /\ n + 1 \in RootDepth .. Len(d)
            /\ n + 1 \in 0 .. Len(d) /\ n \in 0..(n + 1) /\ n \in 0..Len(d) /\ n \in Nat
        BY <2>3, <3>4
      <4> DEFINE c == Above(d, n + 1)
      <4>2. c \in DOMAIN tree /\ Entered(c)
        BY <1>6, <4>1 DEF Due
      <4>3. Len(c) = n + 1 /\ Len(e) = n
        BY <2>3, <3>4, <4>1, AboveIs
      <4>4. Above(c, n) = e
        BY <2>3, <3>4, <4>1, AboveAbove
      <4> HIDE DEF c
      <4>5. Front(c) = e
        <5>1. Len(c) - 1 = n
          BY <4>1, <4>3
        <5> QED BY <4>4, <5>1 DEF Front, Above
      <4>6. c \in stack'
        BY <1>2, <2>0, <4>2, <4>3, <4>5 DEF Children
      <4> QED BY <1>2, <4>1, <4>6, DueStays DEF Waiting, c
    <3> QED BY <3>2, <3>3, <3>4
  <2>5. CASE Read(d)
    BY <1>1, <1>2, <2>5, DueStays DEF Read
  <2> QED BY <1>6, <2>0, <2>4, <2>5 DEF QueryInv
<1> QED BY <1>2, <1>3, <1>4, <1>5, <1>6, DueStays DEF QueryInv

(* What is passed over is not among the directories that open, nor above   *)
(* one that is come to.                                                    *)
LEMMA PassOverInv ==
  ASSUME QueryInv, NEW e \in stack, PassOver(e)
  PROVE  QueryInv'
<1>1. /\ ~Opens(e) /\ tree' = tree /\ query' = query /\ found' = found
      /\ stack' = stack \ {e} /\ capped' = (capped \/ query.kind = "list")
  BY DEF PassOver
<1>2. /\ tree \in Trees /\ query \in Queries /\ \A d \in stack' : Due(d)
      /\ \A p \in found' : p \in DOMAIN tree /\ Collected(p) /\ Met(p)
  BY <1>1 DEF QueryInv
<1>3. ASSUME ~capped', NEW d, Due(d), Opens(d) PROVE Waiting(d)' \/ Read(d)'
  <2>1. ~capped
    BY <1>1, <1>3
  <2>2. CASE Waiting(d)
    <3>1. PICK n \in RootDepth .. Len(d) : Above(d, n) \in stack
      BY <2>2 DEF Waiting
    <3>2. d \in Seq(STRING) /\ Len(d) \in Nat /\ RootDepth \in Nat
      BY <1>3, LenProperties DEF Due, RootDepth
    <3>3. Opens(Above(d, n))
      <4>1. CASE n = Len(d)
        BY <1>3, <3>2, <4>1, AboveAll
      <4>2. CASE n # Len(d)
        <5>1. n \in RootDepth .. Len(d) - 1
          BY <3>2, <4>2
        <5> QED BY <1>3, <5>1 DEF Due
      <4> QED BY <4>1, <4>2
    <3>4. Above(d, n) \in stack'
      BY <1>1, <3>1, <3>3
    <3> QED BY <1>1, <3>4, DueStays DEF Waiting
  <2>3. CASE Read(d)
    BY <1>1, <2>3, DueStays DEF Read
  <2> QED BY <1>3, <2>1, <2>2, <2>3 DEF QueryInv
<1> QED BY <1>1, <1>2, <1>3, DueStays DEF QueryInv

LEMMA QueryInvStep == QueryInv /\ [FileQueriesNext]_queryVars => QueryInv'
<1> SUFFICES ASSUME QueryInv, [FileQueriesNext]_queryVars PROVE QueryInv'
  OBVIOUS
<1>1. CASE TimesOut
  BY <1>1, DueStays DEF TimesOut, QueryInv
<1>2. ASSUME NEW d \in stack, ReadFolder(d) \/ PassOver(d) PROVE QueryInv'
  BY <1>2, ReadFolderInv, PassOverInv
<1>3. CASE UNCHANGED queryVars
  <2>1. /\ tree' = tree /\ query' = query /\ stack' = stack /\ found' = found /\ capped' = capped
    BY <1>3 DEF queryVars
  <2>2. \A d : (Waiting(d)' <=> Waiting(d)) /\ (Read(d)' <=> Read(d))
    BY <2>1, DueStays DEF Waiting, Read
  <2> QED BY <2>1, <2>2, DueStays DEF QueryInv
<1> QED BY <1>1, <1>2, <1>3 DEF FileQueriesNext

(* QueryInv is the inductive invariant of the queries.                     *)
THEOREM QueriesInvariant == FileQueriesSpec => []QueryInv
BY QueryInvInit, QueryInvStep, PTL DEF FileQueriesSpec

(* A path of the tree, name by name.                                       *)
LEMMA PathIs ==
  ASSUME tree \in Trees, NEW p \in DOMAIN tree
  PROVE  /\ p \in Seq(STRING) /\ Len(p) \in Nat /\ Len(p) >= 1 /\ DOMAIN p = 1..Len(p)
         /\ Front(p) = Above(p, Len(p) - 1) /\ Front(p) \in Seq(STRING) /\ Len(Front(p)) = Len(p) - 1
         /\ p \in Children(Front(p))
         /\ Head(p) = p[1] /\ Last(p) = p[Len(p)]
<1>1. p \in Seq(STRING) /\ Len(p) \in Nat /\ Len(p) >= 1
  BY TreeIs
<1>2. DOMAIN p = 1..Len(p)
  BY <1>1, LenProperties
<1>3. Front(p) = Above(p, Len(p) - 1)
  BY DEF Front, Above
<1>4. Len(p) - 1 \in 0..Len(p)
  BY <1>1
<1>5. Front(p) \in Seq(STRING) /\ Len(Front(p)) = Len(p) - 1
  BY <1>1, <1>3, <1>4, AboveIs
<1>6. p \in Children(Front(p))
  BY <1>1, <1>5 DEF Children
<1>7. Head(p) = p[1] /\ Last(p) = p[Len(p)]
  BY <1>1, <1>2, HeadTailProperties, EmptySeq DEF Last
<1> QED BY <1>1, <1>2, <1>3, <1>5, <1>6, <1>7

(* A query with nothing left to read, and nothing left out, has collected  *)
(* what is in a directory it comes to.                                     *)
LEMMA FoundIs ==
  ASSUME QueryInv, stack = {}, ~capped
  PROVE  found = {p \in DOMAIN tree : Collected(p) /\ Met(p)}
<1>1. ASSUME NEW p \in DOMAIN tree, Collected(p), Met(p) PROVE p \in found
  <2>1. ~Waiting(Front(p))
    BY DEF Waiting
  <2>2. Read(Front(p))
    BY <1>1, <2>1 DEF QueryInv, Met
  <2> QED BY <1>1, <2>2, PathIs DEF QueryInv, Read
<1> QED BY <1>1 DEF QueryInv

LEMMA DueOf ==
  ASSUME tree \in Trees, NEW p \in DOMAIN tree
  PROVE  /\ Met(p) <=> /\ RootDepth <= Len(p) - 1 /\ Above(p, RootDepth) \in Roots
                       /\ \A n \in RootDepth + 1 .. Len(p) - 1 : Entered(Above(p, n))
                       /\ p \in Reachable
         /\ \A n \in 1..(Len(p) - 1) :
              /\ Above(p, n) \in DOMAIN tree /\ IsFolder(Above(p, n))
              /\ Len(Above(p, n)) = n /\ (Hidden(Above(p, n)) <=> p[n] = ".h")
         /\ Hidden(p) <=> p[Len(p)] = ".h"
<1>1. /\ p \in Seq(STRING) /\ Len(p) \in Nat /\ Len(p) >= 1
      /\ Front(p) = Above(p, Len(p) - 1) /\ Front(p) \in Seq(STRING) /\ Len(Front(p)) = Len(p) - 1
      /\ Last(p) = p[Len(p)]
  BY PathIs
<1>2. RootDepth \in Nat
  BY DEF RootDepth
<1>3. ASSUME NEW n \in 1..(Len(p) - 1)
      PROVE  /\ Above(p, n) \in DOMAIN tree /\ IsFolder(Above(p, n))
             /\ Len(Above(p, n)) = n /\ (Hidden(Above(p, n)) <=> p[n] = ".h")
  <2>1. n \in 0..Len(p) /\ n \in 1..n
    BY <1>1
  <2>2. Len(Above(p, n)) = n /\ Above(p, n)[n] = p[n]
    BY <1>1, <2>1, AboveIs
  <2>3. Above(p, n) \in DOMAIN tree /\ tree[Above(p, n)] \in Folders
    BY TreeIs, Zenon
  <2>4. IsFolder(Above(p, n))
    BY <2>3, FolderIs DEF IsFolder
  <2> QED BY <2>2, <2>3, <2>4 DEF Hidden, Last
<1>4. ASSUME NEW n \in 0..(Len(p) - 1) PROVE Above(Front(p), n) = Above(p, n)
  <2>1. Len(p) - 1 \in 0..Len(p)
    BY <1>1
  <2> QED BY <1>1, <2>1, AboveAbove
<1>5. ASSUME RootDepth <= Len(p) - 1
      PROVE  Met(p) <=> /\ Above(p, RootDepth) \in Roots
                        /\ \A n \in RootDepth + 1 .. Len(p) - 1 : Entered(Above(p, n))
                        /\ p \in Reachable
  <2>1. RootDepth \in 0..(Len(p) - 1)
    BY <1>1, <1>2, <1>5
  <2>2. \A n \in RootDepth + 1 .. Len(p) - 1 : n \in 0..(Len(p) - 1) /\ n \in 1..(Len(p) - 1)
    BY <1>1, <1>2
  <2>3. \A n \in RootDepth + 1 .. Len(p) - 1 :
          Above(Front(p), n) = Above(p, n) /\ Above(p, n) \in DOMAIN tree
    BY <1>3, <1>4, <2>2
  <2>4. Above(Front(p), RootDepth) = Above(p, RootDepth)
    BY <1>4, <2>1
  <2>5. Met(p) <=> /\ Above(p, RootDepth) \in Roots
                   /\ \A n \in RootDepth + 1 .. Len(p) - 1 : Entered(Above(p, n))
                   /\ \A n \in RootDepth .. (Len(p) - 1) - 1 : Opens(Above(Front(p), n))
                   /\ Opens(Front(p))
    BY <1>1, <1>5, <2>3, <2>4 DEF Due, Met
  <2>6. \A n \in RootDepth .. (Len(p) - 1) - 1 : Above(Front(p), n) = Above(p, n)
    <3>1. \A n \in RootDepth .. (Len(p) - 1) - 1 : n \in 0..(Len(p) - 1)
      BY <1>1, <1>2
    <3> QED BY <1>4, <3>1
  <2>7. /\ (\A n \in RootDepth .. (Len(p) - 1) - 1 : Opens(Above(Front(p), n))) /\ Opens(Front(p))
        <=> \A n \in RootDepth .. Len(p) - 1 : Opens(Above(p, n))
    <3> DEFINE Opened(n) == Opens(Above(p, n))
    <3>1. (\A n \in RootDepth .. (Len(p) - 1) - 1 : Opens(Above(Front(p), n)))
            <=> \A n \in RootDepth .. (Len(p) - 1) - 1 : Opened(n)
      BY <2>6
    <3>2. Opens(Front(p)) <=> Opened(Len(p) - 1)
      BY <1>1
    <3> HIDE DEF Opened
    <3>3. (\A n \in RootDepth .. (Len(p) - 1) - 1 : Opened(n)) /\ Opened(Len(p) - 1)
            <=> \A n \in RootDepth .. Len(p) - 1 : Opened(n)
      <4>1. \A n \in RootDepth .. Len(p) - 1 : n = Len(p) - 1 \/ n \in RootDepth .. (Len(p) - 1) - 1
        BY <1>1, <1>2
      <4>2. Len(p) - 1 \in RootDepth .. Len(p) - 1
        BY <1>1, <1>2, <1>5
      <4>3. \A n \in RootDepth .. (Len(p) - 1) - 1 : n \in RootDepth .. Len(p) - 1
        BY <1>1, <1>2
      <4> QED BY <4>1, <4>2, <4>3
    <3> QED BY <3>1, <3>2, <3>3 DEF Opened
  <2>8. (\A n \in RootDepth .. Len(p) - 1 : Opens(Above(p, n))) <=> p \in Reachable
    <3>1. p \in Reachable <=> \A n \in 1..(Len(p) - 1) : Opens(Above(p, n))
      BY DEF Reachable
    <3>2. Opens(Above(p, 0))
      <4>1. 0 \in 0..Len(p)
        BY <1>1
      <4>2. Above(p, 0) \in Seq(STRING) /\ Len(Above(p, 0)) = 0
        BY <1>1, <4>1, AboveIs
      <4> QED BY <4>2, EmptySeq DEF Opens
    <3>3. \A n \in RootDepth .. Len(p) - 1 : n = 0 \/ n \in 1..(Len(p) - 1)
      BY <1>1, <1>2
    <3>4. RootDepth \in {0, 1} /\ \A n \in 1..(Len(p) - 1) : n \in RootDepth .. Len(p) - 1
      <4>1. RootDepth \in {0, 1}
        BY DEF RootDepth
      <4> QED BY <1>1, <4>1
    <3> QED BY <3>1, <3>2, <3>3, <3>4
  <2> QED BY <2>5, <2>7, <2>8
<1>6. Met(p) => RootDepth <= Len(p) - 1
  BY <1>1 DEF Due, Met
<1> QED BY <1>1, <1>3, <1>5, <1>6 DEF Hidden

LEMMA VisibleIs ==
  ASSUME tree \in Trees, NEW p \in DOMAIN tree
  PROVE  p \in Visible <=> p \in Reachable /\ \A n \in 1..Len(p) : p[n] # ".h"
<1>1. DOMAIN p = 1..Len(p)
  BY PathIs
<1>2. ".h" \in Range(p) <=> \E n \in 1..Len(p) : p[n] = ".h"
  BY <1>1 DEF Range
<1> QED BY <1>2 DEF Visible

(* A visible search of everything: what it collects is the visible part of *)
(* what an entry contributes.                                              *)
LEMMA SearchIs ==
  ASSUME tree \in Trees, query.kind \in {"grep", "dups"}, NEW p \in DOMAIN tree
  PROVE  ~Hidden(p) /\ Met(p) <=> p \in Visible
<1>1. Len(p) \in Nat /\ Len(p) >= 1 /\ p \in Seq(STRING)
  BY PathIs
<1>2. RootDepth = 0 /\ Roots = {<<>>}
  BY DEF RootDepth, Roots
<1>3. Above(p, 0) = <<>>
  <2>1. 0 \in 0..Len(p)
    BY <1>1
  <2>2. Above(p, 0) \in Seq(STRING) /\ Len(Above(p, 0)) = 0
    BY <1>1, <2>1, AboveIs
  <2> QED BY <2>2, EmptySeq
<1>4. \A n \in 1..(Len(p) - 1) : Entered(Above(p, n)) <=> p[n] # ".h"
  BY DueOf DEF Entered
<1>5. Met(p) <=> p \in Reachable /\ \A n \in 1..(Len(p) - 1) : p[n] # ".h"
  <2>1. Met(p) <=> p \in Reachable /\ \A n \in 1..(Len(p) - 1) : Entered(Above(p, n))
    BY <1>1, <1>2, <1>3, DueOf
  <2> QED BY <1>4, <2>1
<1>6. (\A n \in 1..Len(p) : p[n] # ".h") <=> p[Len(p)] # ".h" /\ \A n \in 1..(Len(p) - 1) : p[n] # ".h"
  BY <1>1
<1> QED BY <1>5, <1>6, VisibleIs, DueOf

(* walk and folder_size begin at the root.                                 *)
LEMMA WholeIs ==
  ASSUME tree \in Trees, query.kind \in {"walk", "size"}, NEW p \in DOMAIN tree
  PROVE  Met(p) <=> p \in Reachable /\ (query.kind = "walk" => query.deep \/ Len(p) <= 2)
<1>1. Len(p) \in Nat /\ Len(p) >= 1 /\ p \in Seq(STRING)
  BY PathIs
<1>2. RootDepth = 0 /\ Roots = {<<>>}
  BY DEF RootDepth, Roots
<1>3. Above(p, 0) = <<>>
  <2>1. 0 \in 0..Len(p)
    BY <1>1
  <2>2. Above(p, 0) \in Seq(STRING) /\ Len(Above(p, 0)) = 0
    BY <1>1, <2>1, AboveIs
  <2> QED BY <2>2, EmptySeq
<1>4. ASSUME NEW n \in 1..(Len(p) - 1)
      PROVE  Entered(Above(p, n)) <=> (query.kind = "walk" => query.deep \/ n <= 1)
  <2>1. IsFolder(Above(p, n)) /\ Len(Above(p, n)) = n
    BY DueOf
  <2> QED BY <2>1 DEF Entered
<1>5. Met(p) <=> /\ p \in Reachable
                 /\ \A n \in 1..(Len(p) - 1) : (query.kind = "walk" => query.deep \/ n <= 1)
  <2>1. Met(p) <=> p \in Reachable /\ \A n \in 1..(Len(p) - 1) : Entered(Above(p, n))
    BY <1>1, <1>2, <1>3, DueOf
  <2> QED BY <1>4, <2>1
<1>6. (\A n \in 1..(Len(p) - 1) : n <= 1) <=> Len(p) <= 2
  <2>1. ASSUME \A n \in 1..(Len(p) - 1) : n <= 1 PROVE Len(p) <= 2
    <3>1. CASE Len(p) >= 2
      <4>1. Len(p) - 1 \in 1..(Len(p) - 1)
        BY <1>1, <3>1
      <4>2. Len(p) - 1 <= 1
        BY <2>1, <4>1
      <4> QED BY <1>1, <4>2
    <3> QED BY <1>1, <3>1
  <2> QED BY <1>1, <2>1
<1> QED BY <1>5, <1>6

(* list_dir and compare_dirs begin in one directory, or two.               *)
LEMMA RootedIs ==
  ASSUME tree \in Trees, query.kind \in {"list", "compare"}, NEW p \in DOMAIN tree
  PROVE  ~Hidden(p) /\ Met(p)
           <=> /\ p \in Visible /\ Len(p) >= 2 /\ Head(p) \in {"A"} \cup {x \in {"B"} : query.kind = "compare"}
               /\ query.kind = "list" => Len(p) = 2
<1>1. Len(p) \in Nat /\ Len(p) >= 1 /\ p \in Seq(STRING) /\ Head(p) = p[1]
  BY PathIs
<1>2. RootDepth = 1 /\ Roots = {<<"A">>} \cup {x \in {<<"B">>} : query.kind = "compare"}
  BY DEF RootDepth, Roots
<1>3. Above(p, 1) = <<p[1]>>
  <2>1. 1 \in 0..Len(p)
    BY <1>1
  <2>2. /\ Above(p, 1) \in Seq(STRING) /\ Len(Above(p, 1)) = 1
        /\ \A n \in 1..1 : Above(p, 1)[n] = p[n]
    BY <1>1, <2>1, AboveIs
  <2>3. 1 \in 1..1
    OBVIOUS
  <2>4. Above(p, 1)[1] = p[1]
    BY <2>2, <2>3
  <2> QED BY <2>2, <2>4
<1>4. Above(p, 1) \in Roots <=> Head(p) \in {"A"} \cup {x \in {"B"} : query.kind = "compare"}
  <2>1. (<<p[1]>> = <<"A">> <=> p[1] = "A") /\ (<<p[1]>> = <<"B">> <=> p[1] = "B")
    OBVIOUS
  <2> QED BY <1>1, <1>2, <1>3, <2>1
<1>5. \A n \in 1..(Len(p) - 1) : Entered(Above(p, n)) <=> query.kind = "compare" /\ p[n] # ".h"
  BY DueOf DEF Entered
<1>6. Met(p) <=> /\ Len(p) >= 2 /\ Above(p, 1) \in Roots /\ p \in Reachable
                 /\ \A n \in 2..(Len(p) - 1) : query.kind = "compare" /\ p[n] # ".h"
  <2>1. Met(p) <=> /\ Len(p) >= 2 /\ Above(p, 1) \in Roots /\ p \in Reachable
                   /\ \A n \in 2..(Len(p) - 1) : Entered(Above(p, n))
    BY <1>1, <1>2, DueOf
  <2> QED BY <1>1, <1>5, <2>1
<1>7. p[1] \in {"A", "B"} /\ Len(p) >= 2 =>
        ((\A n \in 1..Len(p) : p[n] # ".h") <=> p[Len(p)] # ".h" /\ \A n \in 2..(Len(p) - 1) : p[n] # ".h")
  <2>1. ASSUME p[1] \in {"A", "B"} PROVE p[1] # ".h"
    BY <2>1
  <2> QED BY <1>1, <2>1
<1>8. Len(p) >= 2 => ((\A n \in 2..(Len(p) - 1) : FALSE) <=> Len(p) = 2)
  <2>1. ASSUME \A n \in 2..(Len(p) - 1) : FALSE PROVE ~(2 \in 2..(Len(p) - 1))
    BY <2>1
  <2>2. (\A n \in 2..(Len(p) - 1) : FALSE) => ~(Len(p) > 2)
    BY <1>1, <2>1
  <2>3. Len(p) = 2 => \A n \in 2..(Len(p) - 1) : FALSE
    BY <1>1
  <2>4. ASSUME Len(p) >= 2 PROVE ~(Len(p) > 2) <=> Len(p) = 2
    <3>1. PICK m \in Nat : m = Len(p)
      BY <1>1
    <3>2. m >= 2 => (~(m > 2) <=> m = 2)
      OBVIOUS
    <3> QED BY <2>4, <3>1, <3>2
  <2> QED BY <2>2, <2>3, <2>4, Zenon
<1>9. Hidden(p) <=> p[Len(p)] = ".h"
  BY DueOf
<1>10. p \in Visible <=> p \in Reachable /\ \A n \in 1..Len(p) : p[n] # ".h"
  BY VisibleIs
<1>11. CASE query.kind = "list"
  BY <1>1, <1>4, <1>6, <1>7, <1>8, <1>9, <1>10, <1>11
<1>12. CASE query.kind = "compare"
  BY <1>1, <1>4, <1>6, <1>7, <1>9, <1>10, <1>12
<1> QED BY <1>11, <1>12

LEMMA NodeIs ==
  ASSUME tree \in Trees, NEW p \in DOMAIN tree
  PROVE  /\ IsFolder(p) => tree[p].kind = "dir" /\ tree[p].lines = <<>> /\ Size(p) = 0
         /\ ~IsFolder(p) =>
              /\ tree[p] = [kind |-> "file", lines |-> tree[p].lines, readable |-> tree[p].readable]
              /\ tree[p].kind = "file"
         /\ tree[p].lines \in Seq(Line) /\ tree[p].readable \in BOOLEAN
         /\ Size(p) \in Nat /\ (~IsFolder(p) => Size(p) >= 1)
<1>1. tree[p] \in Files \cup Folders
  BY TreeIs
<1>2. CASE tree[p] \in Folders
  <2>1. tree[p].kind = "dir" /\ tree[p].lines = <<>> /\ tree[p].readable \in BOOLEAN
    BY <1>2, FolderIs
  <2>2. IsFolder(p) /\ Size(p) = 0 /\ <<>> \in Seq(Line)
    BY <2>1, EmptySeq DEF IsFolder, Size
  <2> QED BY <2>1, <2>2
<1>3. CASE tree[p] \in Files
  <2>1. /\ tree[p] = [kind |-> "file", lines |-> tree[p].lines, readable |-> tree[p].readable]
        /\ tree[p].lines \in Seq(Line) /\ tree[p].lines # <<>>
        /\ tree[p].readable \in BOOLEAN /\ tree[p].kind = "file"
    BY <1>3 DEF Files
  <2>2. Size(p) \in Nat /\ Size(p) >= 1
    BY <2>1, EmptySeq, LenProperties DEF Size
  <2> QED BY <2>1, <2>2 DEF IsFolder
<1> QED BY <1>1, <1>2, <1>3

LEMMA WalkExact ==
  ASSUME QueryInv, stack = {}, ~capped, query.kind = "walk"
  PROVE  found = {p \in Reachable : (query.dirsOnly => IsFolder(p)) /\ (query.deep \/ Len(p) <= 2)}
<1>1. \A p \in DOMAIN tree : Collected(p) <=> (query.dirsOnly => IsFolder(p))
  BY DEF Collected, Walked
<1>2. \A p \in DOMAIN tree : Met(p) <=> p \in Reachable /\ (query.deep \/ Len(p) <= 2)
  BY WholeIs DEF QueryInv
<1>3. Reachable \subseteq DOMAIN tree
  BY DEF Reachable
<1> QED BY <1>1, <1>2, <1>3, FoundIs

LEMMA SizeExact ==
  ASSUME QueryInv, stack = {}, ~capped, query.kind = "size"
  PROVE  found = {p \in Reachable : ~IsFolder(p)}
<1>1. \A p \in DOMAIN tree : Collected(p) <=> ~IsFolder(p)
  BY DEF Collected, Counted
<1>2. \A p \in DOMAIN tree : Met(p) <=> p \in Reachable
  BY WholeIs DEF QueryInv
<1>3. Reachable \subseteq DOMAIN tree
  BY DEF Reachable
<1> QED BY <1>1, <1>2, <1>3, FoundIs

LEMMA GrepExact ==
  ASSUME QueryInv, stack = {}, ~capped, query.kind = "grep"
  PROVE  found = {p \in Visible : /\ tree[p].readable /\ Size(p) <= HashCap
                                  /\ \E i \in 1..Size(p) : /\ tree[p].lines[i] = "x"
                                                            /\ \A j \in 1..Size(p) : tree[p].lines[j] = "bad" => i < j}
<1> DEFINE Shows(p) == \E i \in 1..Size(p) : /\ tree[p].lines[i] = "x"
                                            /\ \A j \in 1..Size(p) : tree[p].lines[j] = "bad" => i < j
<1>1. ASSUME NEW p \in DOMAIN tree
      PROVE  Collected(p) <=> ~Hidden(p) /\ tree[p].readable /\ Size(p) <= HashCap /\ Shows(p)
  <2>1. Size(p) \in Nat /\ (IsFolder(p) => Size(p) = 0)
    BY NodeIs DEF QueryInv
  <2>2. ASSUME NEW i \in 1..Size(p), tree[p].lines[i] = "x"
        PROVE  (\A j \in 1..i : tree[p].lines[j] # "bad")
                 <=> \A j \in 1..Size(p) : tree[p].lines[j] = "bad" => i < j
    <3>1. \A j \in 1..i : j \in 1..Size(p) /\ ~(i < j)
      BY <2>1
    <3>2. \A j \in 1..Size(p) : i < j \/ j \in 1..i
      BY <2>1
    <3> QED BY <3>1, <3>2
  <2>3. (\E i \in 1..Size(p) : tree[p].lines[i] = "x" /\ \A j \in 1..i : tree[p].lines[j] # "bad") <=> Shows(p)
    BY <2>2
  <2>4. Shows(p) => ~IsFolder(p)
    BY <2>1
  <2>5. Collected(p) <=> Hit(p)
    BY DEF Collected
  <2> HIDE DEF Shows
  <2> QED BY <2>3, <2>4, <2>5 DEF Hit
<1>2. Visible \subseteq DOMAIN tree
  BY DEF Visible, Reachable
<1>3. \A p \in DOMAIN tree : ~Hidden(p) /\ Met(p) <=> p \in Visible
  BY SearchIs DEF QueryInv
<1>4. found = {p \in Visible : tree[p].readable /\ Size(p) <= HashCap /\ Shows(p)}
  <2> HIDE DEF Shows
  <2> QED BY <1>1, <1>2, <1>3, FoundIs
<1> QED BY <1>4

LEMMA ListExact ==
  ASSUME QueryInv, stack = {}, ~capped, query.kind = "list"
  PROVE  found = {p \in Visible : Len(p) = 2 /\ Head(p) = "A" /\ (query.dirsOnly => IsFolder(p))}
<1>1. \A p \in DOMAIN tree : Collected(p) <=> ~Hidden(p) /\ (query.dirsOnly => IsFolder(p))
  BY DEF Collected, Shown
<1>2. Visible \subseteq DOMAIN tree
  BY DEF Visible, Reachable
<1>3. \A p \in DOMAIN tree : ~Hidden(p) /\ Met(p) <=> p \in Visible /\ Len(p) = 2 /\ Head(p) = "A"
  BY RootedIs DEF QueryInv
<1> QED BY <1>1, <1>2, <1>3, FoundIs DEF QueryInv

LEMMA TwoOf ==
  ASSUME NEW S, IsFiniteSet(S), NEW x \in S, NEW y \in S, x # y
  PROVE  Cardinality(S) > 1
<1>1. Cardinality({x}) = 1 /\ IsFiniteSet({x})
  BY FS_Singleton
<1>2. Cardinality({x} \cup {y}) = 2
  BY <1>1, FS_AddElement
<1>3. {x} \cup {y} \subseteq S
  OBVIOUS
<1>4. Cardinality({x} \cup {y}) <= Cardinality(S)
  BY <1>3, FS_Subset
<1>5. Cardinality(S) \in Nat
  BY FS_CardinalityType
<1> QED BY <1>2, <1>4, <1>5

LEMMA DupsExact ==
  ASSUME QueryInv, stack = {}, ~capped, query.kind = "dups",
         NEW p \in DOMAIN tree, NEW q \in DOMAIN tree, ~IsFolder(p), ~IsFolder(q), p # q
  PROVE  (\E g \in Groups : {p, q} \subseteq g)
           <=> ({p, q} \subseteq Visible /\ tree[p] = tree[q] /\ tree[p].readable /\ Ext(p) = Ext(q))
<1> DEFINE same(r) == {x \in Bucket(r) : tree[x].readable /\ tree[x].lines = tree[r].lines}
<1>1. tree \in Trees
  BY DEF QueryInv
<1>2. \A r \in found : r \in DOMAIN tree /\ r \in Visible
  <2>1. \A r \in DOMAIN tree : Collected(r) => ~Hidden(r)
    BY DEF Collected, Candidate
  <2> QED BY <1>1, <2>1, FoundIs, SearchIs
<1>3. ASSUME NEW r \in DOMAIN tree, ~IsFolder(r), r \in Visible PROVE r \in found
  <2>2. Size(r) >= 1
    BY <1>1, <1>3, NodeIs
  <2>3. ~Hidden(r) /\ Met(r)
    BY <1>1, <1>3, SearchIs
  <2>4. Collected(r)
    BY <1>3, <2>2, <2>3 DEF Collected, Candidate
  <2> QED BY <2>3, <2>4, FoundIs
<1>4. ASSUME NEW g \in Groups, p \in g, q \in g
      PROVE  {p, q} \subseteq Visible /\ tree[p] = tree[q] /\ tree[p].readable /\ Ext(p) = Ext(q)
  <2>1. PICK r : g = same(r)
    BY DEF Groups
  <2>2. p \in same(r) /\ q \in same(r)
    BY <1>4, <2>1
  <2>3. /\ p \in found /\ Ext(p) = Ext(r) /\ tree[p].readable /\ tree[p].lines = tree[r].lines
        /\ q \in found /\ Ext(q) = Ext(r) /\ tree[q].readable /\ tree[q].lines = tree[r].lines
    BY <2>2 DEF Bucket
  <2>4. /\ tree[p] = [kind |-> "file", lines |-> tree[p].lines, readable |-> tree[p].readable]
        /\ tree[q] = [kind |-> "file", lines |-> tree[q].lines, readable |-> tree[q].readable]
        /\ tree[p].readable \in BOOLEAN /\ tree[q].readable \in BOOLEAN
    BY <1>1, NodeIs
  <2>5. tree[p].readable = tree[q].readable /\ tree[p].lines = tree[q].lines
    BY <2>3, <2>4
  <2>6. tree[p] = tree[q]
    BY <2>4, <2>5, Zenon
  <2> QED BY <1>2, <2>3, <2>6
<1>5. ASSUME {p, q} \subseteq Visible, tree[p] = tree[q], tree[p].readable, Ext(p) = Ext(q)
      PROVE  \E g \in Groups : {p, q} \subseteq g
  <2>1. p \in found /\ q \in found
    BY <1>3, <1>5
  <2>2. Size(p) = Size(q)
    BY <1>5 DEF Size
  <2>3. p \in Bucket(p) /\ q \in Bucket(p)
    BY <1>5, <2>1, <2>2 DEF Bucket
  <2>4. p \in same(p) /\ q \in same(p)
    BY <1>5, <2>3
  <2>5. IsFiniteSet(Bucket(p)) /\ IsFiniteSet(same(p))
    <3>1. IsFiniteSet(DOMAIN tree) /\ found \subseteq DOMAIN tree
      BY <1>1, <1>2, TreeIs
    <3>2. Bucket(p) \subseteq DOMAIN tree /\ same(p) \subseteq DOMAIN tree
      BY <3>1 DEF Bucket
    <3> QED BY <3>1, <3>2, FS_Subset
  <2>6. Cardinality(Bucket(p)) > 1 /\ Cardinality(same(p)) > 1
    BY <2>3, <2>4, <2>5, TwoOf
  <2>7. same(p) \in Groups
    BY <1>5, <2>1, <2>6 DEF Groups
  <2> QED BY <2>4, <2>7
<1> QED BY <1>4, <1>5

(* What is collected on a side of a comparison is what is visible beneath. *)
LEMMA SideIs ==
  ASSUME QueryInv, stack = {}, ~capped, query.kind = "compare", NEW side \in {"A", "B"}
  PROVE  In(side) = Beneath(side)
<1>1. \A p \in DOMAIN tree : Collected(p) <=> ~Hidden(p)
  BY DEF Collected, Compared
<1>2. \A p \in DOMAIN tree : ~Hidden(p) /\ Met(p) <=> p \in Visible /\ Len(p) >= 2 /\ Head(p) \in {"A", "B"}
  BY RootedIs DEF QueryInv
<1>3. \A p \in DOMAIN tree : Len(p) >= 2 <=> Len(p) > 1
  BY TreeIs DEF QueryInv
<1>4. Visible \subseteq DOMAIN tree
  BY DEF Visible, Reachable
<1>5. {q \in found : Head(q) = side} = {q \in Visible : Head(q) = side /\ Len(q) > 1}
  BY <1>1, <1>2, <1>3, <1>4, FoundIs
<1> QED BY <1>5 DEF In, Beneath

(* Where both can be read whole, fingerprints tell texts apart.            *)
LEMMA UnlikeIs ==
  ASSUME tree \in Trees, NEW a \in DOMAIN tree, NEW b \in DOMAIN tree,
         tree[a].readable, tree[b].readable, Size(a) <= HashCap
  PROVE  \/ IsFolder(a) # IsFolder(b)
         \/ ~IsFolder(a) /\ (Size(a) # Size(b) \/ Fingerprint(a) # Fingerprint(b))
         <=> ~Equal(a, b)
<1>1. \A x \in {a, b} : /\ IsFolder(x) => tree[x].kind = "dir"
                        /\ ~IsFolder(x) => tree[x].kind = "file"
  BY NodeIs
<1>2. CASE IsFolder(a) \/ IsFolder(b)
  BY <1>1, <1>2 DEF Equal
<1>3. CASE ~IsFolder(a) /\ ~IsFolder(b)
  <2>1. Equal(a, b) <=> tree[a].lines = tree[b].lines
    BY <1>1, <1>3 DEF Equal
  <2>2. Fingerprint(a) = tree[a].lines
    BY NodeIs DEF Fingerprint, HashCap
  <2>3. CASE Size(b) # Size(a)
    <3>1. tree[a].lines # tree[b].lines
      BY <2>3 DEF Size
    <3> QED BY <1>3, <2>1, <2>3, <3>1
  <2>4. CASE Size(b) = Size(a)
    <3>1. Fingerprint(b) = tree[b].lines
      BY <2>4, NodeIs DEF Fingerprint, HashCap
    <3>2. Fingerprint(a) # Fingerprint(b) <=> tree[a].lines # tree[b].lines
      BY <2>2, <3>1
    <3>3. Fingerprint(a) # Fingerprint(b) <=> ~Equal(a, b)
      BY <2>1, <3>2, Zenon
    <3>4. IsFolder(a) = IsFolder(b)
      BY <1>3 DEF IsFolder
    <3> QED BY <1>3, <2>4, <3>3, <3>4
  <2> QED BY <2>3, <2>4
<1> QED BY <1>2, <1>3

LEMMA CompareExact ==
  ASSUME QueryInv, stack = {}, ~capped, query.kind = "compare",
         NEW r \in Beneath("A") \cap Beneath("B"), NEW a, NEW b, a = <<"A">> \o r, b = <<"B">> \o r,
         tree[a].readable, tree[b].readable, Size(a) <= HashCap
  PROVE  r \in Different <=> ~Equal(a, b)
<1>1. tree \in Trees
  BY DEF QueryInv
<1>2. ASSUME NEW side \in {"A", "B"} PROVE <<side>> \o r \in DOMAIN tree
  <2>1. PICK p \in Visible : Head(p) = side /\ Len(p) > 1 /\ r = Tail(p)
    BY <1>2 DEF Beneath
  <2>2. p \in DOMAIN tree
    BY DEF Visible, Reachable
  <2>3. p \in Seq(STRING) /\ p # <<>>
    BY <1>1, <2>1, <2>2, TreeIs, EmptySeq
  <2>4. p = <<Head(p)>> \o Tail(p)
    BY <2>3
  <2> QED BY <2>1, <2>2, <2>4
<1>3. a \in DOMAIN tree /\ b \in DOMAIN tree
  BY <1>2
<1>4. r \in Different <=> \/ IsFolder(a) # IsFolder(b)
                          \/ ~IsFolder(a) /\ (Size(a) # Size(b) \/ Fingerprint(a) # Fingerprint(b))
  <2>1. r \in In("A") \cap In("B")
    BY SideIs
  <2> QED BY <2>1 DEF Different
<1> QED BY <1>1, <1>3, <1>4, UnlikeIs

(* QueriesExact: a query that was not cut short answers for all that is    *)
(* under directories it can read, whatever the tree, which of its          *)
(* directories those are, and the order they are read in.                  *)
THEOREM QueriesAreExact == FileQueriesSpec => []QueriesExact
<1>1. QueryInv => QueriesExact
  <2> SUFFICES ASSUME QueryInv, stack = {}, ~capped PROVE QueriesExact
    BY DEF QueriesExact
  <2>1. query.kind \in {"walk", "grep", "list", "size", "dups", "compare"}
    BY DEF QueryInv, Queries
  <2>2. CASE query.kind \in {"walk", "grep", "list", "size"}
    BY <2>2, WalkExact, GrepExact, ListExact, SizeExact DEF QueriesExact
  <2>3. CASE query.kind = "dups"
    BY <2>3, DupsExact DEF QueriesExact
  <2>4. CASE query.kind = "compare"
    <3>1. In("A") = Beneath("A") /\ In("B") = Beneath("B")
      BY <2>4, SideIs
    <3> QED BY <2>4, <3>1, CompareExact DEF QueriesExact
  <2> QED BY <2>1, <2>2, <2>3, <2>4
<1> QED BY <1>1, QueriesInvariant, PTL

LEMMA QueryTypes == QueryInv => FileQueriesTypeOK
<1> SUFFICES ASSUME QueryInv PROVE FileQueriesTypeOK
  OBVIOUS
<1>1. ASSUME NEW d \in stack PROVE d = <<>> \/ (d \in DOMAIN tree /\ IsFolder(d))
  <2>1. Due(d) /\ tree \in Trees /\ d \in Seq(STRING)
    BY DEF QueryInv, Due
  <2>2. Len(d) \in Nat /\ RootDepth \in 0..1 /\ RootDepth <= Len(d)
    BY <2>1, LenProperties DEF Due, RootDepth
  <2>3. Above(d, Len(d)) = d
    BY <2>1, AboveAll
  <2>4. CASE Len(d) = RootDepth
    <3>1. d \in {<<>>, <<"A">>, <<"B">>}
      BY <2>1, <2>3, <2>4 DEF Due, Roots
    <3>2. \A side \in {<<"A">>, <<"B">>} : side \in DOMAIN tree /\ tree[side].kind = "dir"
      BY <2>1, TreeIs, FolderIs, Zenon
    <3> QED BY <3>1, <3>2, Zenon DEF IsFolder
  <2>5. CASE Len(d) # RootDepth
    <3>1. Len(d) \in RootDepth + 1 .. Len(d)
      BY <2>2, <2>5
    <3> QED BY <2>1, <2>3, <3>1 DEF Due, Entered
  <2> QED BY <2>4, <2>5
<1> QED BY <1>1 DEF QueryInv, FileQueriesTypeOK

(* The queries keep their types, whatever the tree.                        *)
THEOREM FileQueriesTyped == FileQueriesSpec => []FileQueriesTypeOK
BY QueryTypes, QueriesInvariant, PTL

-----------------------------------------------------------------------------
(***************************************************************************)
(* File operations (FileOps): what the operators on paths and disks yield, *)
(* and what one entry of a tree copy and each operation does to a disk and *)
(* to the state of its client.                                             *)
(***************************************************************************)
LEMMA PathHas ==
  ASSUME MaxDepth \in Nat
  PROVE  \A p : p \in Path <=> p \in Seq(FileName) /\ Len(p) \in Nat /\ 1 <= Len(p) /\ Len(p) <= MaxDepth
<1>1. ASSUME NEW p \in Path PROVE p \in Seq(FileName) /\ Len(p) \in Nat /\ 1 <= Len(p) /\ Len(p) <= MaxDepth
  <2>1. PICK n \in 1..MaxDepth : p \in [1..n -> FileName]
    BY DEF Path
  <2>2. n \in Nat /\ 1 <= n /\ n <= MaxDepth
    BY <2>1
  <2>3. p \in Seq(FileName)
    BY <2>1, <2>2, IsASeq
  <2>4. Len(p) \in Nat /\ DOMAIN p = 1..Len(p)
    BY <2>3, LenProperties
  <2>5. DOMAIN p = 1..n
    BY <2>1
  <2>6. Len(p) = n
    <3>1. PICK m \in Nat : m = Len(p)
      BY <2>4
    <3>2. 1..m = 1..n
      BY <2>4, <2>5, <3>1
    <3>3. n \in 1..m
      BY <2>2, <3>2
    <3>4. m < n => n \notin 1..m
      BY <2>2
    <3>5. m > n => m \in 1..m /\ m \notin 1..n
      BY <2>2
    <3> QED BY <2>2, <3>1, <3>2, <3>3, <3>4, <3>5
  <2> QED BY <2>2, <2>3, <2>6
<1>2. ASSUME NEW p \in Seq(FileName), Len(p) \in Nat, 1 <= Len(p), Len(p) <= MaxDepth PROVE p \in Path
  <2>1. p \in [1..Len(p) -> FileName]
    BY <1>2, LenProperties
  <2>2. Len(p) \in 1..MaxDepth
    BY <1>2
  <2> QED BY <2>1, <2>2 DEF Path
<1> QED BY <1>1, <1>2

LEMMA WithinIs ==
  ASSUME NEW S, NEW p \in Seq(S), NEW q \in Seq(S)
  PROVE  Within(p, q) <=> /\ Len(p) \in Nat /\ Len(q) \in Nat /\ Len(q) <= Len(p)
                          /\ \A i \in 1..Len(q) : p[i] = q[i]
<1>1. Len(p) \in Nat /\ Len(q) \in Nat
  BY LenProperties
<1>2. SubSeq(q, 1, Len(q)) = q
  BY SubSeqFull
<1>3. CASE Len(q) <= Len(p)
  <2>1. Len(q) \in 0..Len(p)
    BY <1>1, <1>3
  <2>2. /\ Above(p, Len(q)) \in Seq(S) /\ Len(Above(p, Len(q))) = Len(q)
        /\ \A i \in 1..Len(q) : Above(p, Len(q))[i] = p[i]
    BY <2>1, AboveIs
  <2>3. Within(p, q) <=> q = Above(p, Len(q))
    BY <1>2, <1>3 DEF Within, IsPrefix, Above
  <2> DEFINE a == Above(p, Len(q))
  <2> HIDE DEF a
  <2>4. a \in Seq(S) /\ Len(a) = Len(q) /\ \A i \in 1..Len(q) : a[i] = p[i]
    BY <2>2 DEF a
  <2>5. q = a <=> \A i \in 1..Len(q) : p[i] = q[i]
    <3>1. ASSUME \A i \in 1..Len(q) : p[i] = q[i] PROVE q = a
      <4>1. \A i \in 1..Len(q) : q[i] = a[i]
        BY <2>4, <3>1
      <4> QED BY <2>4, <4>1, SeqEqual
    <3> QED BY <2>4, <3>1
  <2> QED BY <1>1, <1>3, <2>3, <2>5 DEF a
<1>4. CASE ~(Len(q) <= Len(p))
  BY <1>4 DEF Within, IsPrefix
<1> QED BY <1>3, <1>4

LEMMA WithinOrder ==
  ASSUME NEW S, NEW p \in Seq(S), NEW q \in Seq(S)
  PROVE  /\ Within(p, p)
         /\ Within(p, q) => Len(q) <= Len(p)
         /\ Within(p, q) /\ Len(p) = Len(q) => p = q
         /\ Within(p, q) /\ p # q => Len(q) < Len(p)
         /\ \A r \in Seq(S) : Within(p, q) /\ Within(q, r) => Within(p, r)
         /\ \A r \in Seq(S) : Within(p, q) /\ Within(p, r) /\ Len(r) <= Len(q) => Within(q, r)
<1>1. Len(p) \in Nat /\ Len(q) \in Nat /\ \A r \in Seq(S) : Len(r) \in Nat
  BY LenProperties
<1>2. Within(p, p)
  BY <1>1, WithinIs
<1>3. Within(p, q) => Len(q) <= Len(p)
  BY WithinIs
<1>4. ASSUME Within(p, q), Len(p) = Len(q) PROVE p = q
  <2>1. \A i \in 1..Len(p) : p[i] = q[i]
    BY <1>4, WithinIs
  <2> QED BY <1>4, <2>1, SeqEqual
<1>5. ASSUME NEW r \in Seq(S), Within(p, q), Within(q, r) PROVE Within(p, r)
  <2>1. /\ Len(q) <= Len(p) /\ \A i \in 1..Len(q) : p[i] = q[i]
        /\ Len(r) <= Len(q) /\ \A i \in 1..Len(r) : q[i] = r[i]
    BY <1>5, WithinIs
  <2>2. Len(r) <= Len(p)
    BY <1>1, <2>1
  <2>3. \A i \in 1..Len(r) : p[i] = r[i]
    BY <1>1, <2>1
  <2> QED BY <1>1, <2>2, <2>3, WithinIs
<1>6. ASSUME NEW r \in Seq(S), Within(p, q), Within(p, r), Len(r) <= Len(q) PROVE Within(q, r)
  <2>1. /\ Len(q) <= Len(p) /\ \A i \in 1..Len(q) : p[i] = q[i]
        /\ \A i \in 1..Len(r) : p[i] = r[i]
    BY <1>6, WithinIs
  <2>2. \A i \in 1..Len(r) : q[i] = r[i]
    BY <1>1, <1>6, <2>1
  <2> QED BY <1>1, <1>6, <2>2, WithinIs
<1>7. Within(p, q) /\ p # q => Len(q) < Len(p)
  BY <1>1, <1>3, <1>4
<1> QED BY <1>2, <1>3, <1>4, <1>5, <1>6, <1>7

(* The directory a path names something in.                                *)
LEMMA FrontIs ==
  ASSUME NEW S, NEW p \in Seq(S), Len(p) >= 1
  PROVE  /\ Front(p) \in Seq(S) /\ Len(Front(p)) = Len(p) - 1 /\ \A i \in 1..(Len(p) - 1) : Front(p)[i] = p[i]
         /\ Within(p, Front(p)) /\ Last(p) = p[Len(p)] /\ Last(p) \in S
         /\ \A q \in Seq(S) : /\ Within(Front(p), q) => Within(p, q)
                              /\ Within(p, q) /\ p # q => Within(Front(p), q)
<1>1. Len(p) \in Nat /\ Len(p) - 1 \in 0..Len(p) /\ Len(p) \in 1..Len(p)
  BY LenProperties
<1>2. /\ Front(p) \in Seq(S) /\ Len(Front(p)) = Len(p) - 1
      /\ \A i \in 1..(Len(p) - 1) : Front(p)[i] = p[i]
  BY <1>1, AboveIs DEF Front, Above
<1>3. Within(p, Front(p))
  BY <1>1, <1>2, WithinIs
<1>4. Last(p) = p[Len(p)] /\ Last(p) \in S
  BY <1>1, ElementOfSeq DEF Last
<1>5. \A q \in Seq(S) : Within(Front(p), q) => Within(p, q)
  BY <1>2, <1>3, WithinOrder
<1>6. ASSUME NEW q \in Seq(S), Within(p, q), p # q PROVE Within(Front(p), q)
  <2>1. Len(q) \in Nat /\ Len(q) < Len(p)
    BY <1>6, WithinOrder, LenProperties
  <2>2. Len(q) <= Len(Front(p))
    BY <1>1, <1>2, <2>1
  <2> QED BY <1>2, <1>3, <1>6, <2>2, WithinOrder
<1> QED BY <1>2, <1>3, <1>4, <1>5, <1>6

LEMMA AppendIs ==
  ASSUME NEW S, NEW p \in Seq(S), NEW x \in S
  PROVE  /\ Append(p, x) \in Seq(S) /\ Len(Append(p, x)) = Len(p) + 1
         /\ Front(Append(p, x)) = p /\ Last(Append(p, x)) = x /\ Within(Append(p, x), p)
<1>1. /\ Append(p, x) \in Seq(S) /\ Len(Append(p, x)) = Len(p) + 1 /\ Len(p) \in Nat
      /\ \A i \in 1..Len(p) : Append(p, x)[i] = p[i]
      /\ Append(p, x)[Len(p) + 1] = x
  BY AppendProperties, LenProperties
<1> DEFINE a == Append(p, x)
<1> HIDE DEF a
<1>2. a \in Seq(S) /\ Len(a) = Len(p) + 1 /\ Len(a) >= 1 /\ (\A i \in 1..Len(p) : a[i] = p[i]) /\ a[Len(p) + 1] = x
  BY <1>1 DEF a
<1>3. /\ Front(a) \in Seq(S) /\ Len(Front(a)) = Len(a) - 1 /\ \A i \in 1..(Len(a) - 1) : Front(a)[i] = a[i]
      /\ Last(a) = a[Len(a)]
  BY <1>2, FrontIs
<1>4. Front(a) = p
  <2>1. Len(Front(a)) = Len(p)
    BY <1>1, <1>2, <1>3
  <2>2. \A i \in 1..Len(p) : Front(a)[i] = p[i]
    BY <1>1, <1>2, <1>3
  <2> QED BY <1>3, <2>1, <2>2, SeqEqual
<1>5. Within(a, p)
  BY <1>1, <1>2, WithinIs
<1> QED BY <1>2, <1>3, <1>4, <1>5 DEF a

(* A path is the directory it names something in, and the name.            *)
LEMMA FrontLast ==
  ASSUME NEW S, NEW p \in Seq(S), NEW q \in Seq(S), Len(p) >= 1, Len(q) >= 1, Front(p) = Front(q), Last(p) = Last(q)
  PROVE  p = q
<1>1. Len(p) \in Nat /\ Len(q) \in Nat
  BY LenProperties
<1>2. /\ Len(Front(p)) = Len(p) - 1 /\ (\A i \in 1..(Len(p) - 1) : Front(p)[i] = p[i]) /\ Last(p) = p[Len(p)]
      /\ Len(Front(q)) = Len(q) - 1 /\ (\A i \in 1..(Len(q) - 1) : Front(q)[i] = q[i]) /\ Last(q) = q[Len(q)]
  BY FrontIs
<1>3. Len(p) = Len(q)
  BY <1>1, <1>2
<1>4. ASSUME NEW i \in 1..Len(p) PROVE p[i] = q[i]
  <2>1. CASE i = Len(p)
    BY <1>2, <1>3, <2>1
  <2>2. CASE i # Len(p)
    <3>1. i \in 1..(Len(p) - 1)
      BY <1>1, <2>2
    <3> QED BY <1>2, <1>3, <3>1
  <2> QED BY <2>1, <2>2
<1> QED BY <1>3, <1>4, SeqEqual

(* The entry of a directory that leads to a node further below.            *)
LEMMA ChildToward ==
  ASSUME NEW S, NEW p \in Seq(S), NEW q \in Seq(S), Within(p, q), p # q, NEW c, c = Above(p, Len(q) + 1)
  PROVE  c \in Seq(S) /\ Len(c) = Len(q) + 1 /\ Within(c, q) /\ Within(p, c)
<1>1. Len(p) \in Nat /\ Len(q) \in Nat /\ Len(q) < Len(p)
  BY LenProperties, WithinOrder
<1>2. Len(q) + 1 \in 0..Len(p)
  BY <1>1
<1>3. c \in Seq(S) /\ Len(c) = Len(q) + 1 /\ \A i \in 1..(Len(q) + 1) : c[i] = p[i]
  BY <1>2, AboveIs
<1>4. Len(c) \in Nat /\ Len(c) <= Len(p)
  BY <1>1, <1>3
<1>5. \A i \in 1..Len(c) : p[i] = c[i]
  BY <1>3
<1>6. Within(p, c)
  BY <1>1, <1>3, <1>4, <1>5, WithinIs
<1>7. Within(c, q)
  <2>1. Len(q) <= Len(c)
    BY <1>1, <1>3
  <2> QED BY <1>3, <1>6, <2>1, WithinOrder
<1> QED BY <1>3, <1>6, <1>7

Alike(p, a, r, b) == \A i \in 1..(Len(p) - Len(a)) : r[Len(b) + i] = p[Len(a) + i]

LEMMA RebasedIs ==
  ASSUME NEW S, NEW p \in Seq(S), NEW a \in Seq(S), NEW b \in Seq(S), Within(p, a)
  PROVE  /\ Rebased(p, a, b) \in Seq(S) /\ Len(Rebased(p, a, b)) = Len(b) + (Len(p) - Len(a))
         /\ \A i \in 1..Len(b) : Rebased(p, a, b)[i] = b[i]
         /\ Alike(p, a, Rebased(p, a, b), b)
<1>1. Len(p) \in Nat /\ Len(a) \in Nat /\ Len(b) \in Nat /\ Len(a) <= Len(p)
  BY LenProperties, WithinIs
<1> DEFINE t == SubSeq(p, Len(a) + 1, Len(p))
<1>2. t \in Seq(S) /\ Len(t) = Len(p) - Len(a) /\ \A i \in 1..(Len(p) - Len(a)) : t[i] = p[Len(a) + i]
  <2>1. PICK m \in Int : m = Len(a) + 1
    BY <1>1
  <2>2. PICK n \in Int : n = Len(p)
    BY <1>1
  <2>3. \A i \in m..n : p[i] \in S
    BY <1>1, <2>1, <2>2, ElementOfSeq
  <2>4. /\ SubSeq(p, m, n) \in Seq(S)
        /\ Len(SubSeq(p, m, n)) = IF m <= n THEN n - m + 1 ELSE 0
        /\ \A i \in 1 .. n - m + 1 : SubSeq(p, m, n)[i] = p[m + i - 1]
    BY <2>3, SubSeqProperties
  <2>5. t = SubSeq(p, m, n)
    BY <2>1, <2>2
  <2>6. Len(t) = Len(p) - Len(a)
    BY <1>1, <2>1, <2>2, <2>4, <2>5
  <2>7. ASSUME NEW i \in 1..(Len(p) - Len(a)) PROVE t[i] = p[Len(a) + i]
    <3>1. i \in 1 .. n - m + 1 /\ m + i - 1 = Len(a) + i
      BY <1>1, <2>1, <2>2
    <3> QED BY <2>4, <2>5, <3>1
  <2> QED BY <2>4, <2>5, <2>6, <2>7
<1> HIDE DEF t
<1>3. /\ b \o t \in Seq(S) /\ Len(b \o t) = Len(b) + Len(t)
      /\ \A i \in 1..Len(b) + Len(t) : (b \o t)[i] = IF i <= Len(b) THEN b[i] ELSE t[i - Len(b)]
  BY <1>2, ConcatProperties
<1>4. ASSUME NEW i \in 1..Len(b) PROVE (b \o t)[i] = b[i]
  <2>1. i \in 1..Len(b) + Len(t) /\ i <= Len(b)
    BY <1>1, <1>2
  <2> QED BY <1>3, <2>1
<1>5. ASSUME NEW i \in 1..(Len(p) - Len(a)) PROVE (b \o t)[Len(b) + i] = p[Len(a) + i]
  <2>1. Len(b) + i \in 1..Len(b) + Len(t) /\ ~(Len(b) + i <= Len(b)) /\ (Len(b) + i) - Len(b) = i
    BY <1>1, <1>2
  <2> QED BY <1>2, <1>3, <2>1
<1>6. Rebased(p, a, b) = b \o t
  BY DEF Rebased, t
<1> QED BY <1>2, <1>3, <1>4, <1>5, <1>6 DEF Alike

LEMMA RebasedOrder ==
  ASSUME NEW S, NEW p \in Seq(S), NEW a \in Seq(S), NEW b \in Seq(S), Within(p, a)
  PROVE  /\ Within(Rebased(p, a, b), b)
         /\ Rebased(Rebased(p, a, b), b, a) = p
         /\ Rebased(a, a, b) = b
<1>1. Len(p) \in Nat /\ Len(a) \in Nat /\ Len(b) \in Nat /\ Len(a) <= Len(p) /\ \A i \in 1..Len(a) : p[i] = a[i]
  BY LenProperties, WithinIs
<1> DEFINE r == Rebased(p, a, b)
<1>2. /\ r \in Seq(S) /\ Len(r) = Len(b) + (Len(p) - Len(a))
      /\ \A i \in 1..Len(b) : r[i] = b[i]
      /\ \A i \in 1..(Len(p) - Len(a)) : r[Len(b) + i] = p[Len(a) + i]
  <2>1. r \in Seq(S) /\ Len(r) = Len(b) + (Len(p) - Len(a))
    BY RebasedIs
  <2>2. \A i \in 1..Len(b) : r[i] = b[i]
    BY RebasedIs
  <2>3. Alike(p, a, r, b)
    BY RebasedIs
  <2> QED BY <2>1, <2>2, <2>3 DEF Alike
<1> HIDE DEF r
<1>3. Within(r, b)
  <2>1. Len(r) \in Nat /\ Len(b) <= Len(r)
    BY <1>1, <1>2
  <2> QED BY <1>1, <1>2, <2>1, WithinIs
<1>4. Rebased(r, b, a) = p
  <2> DEFINE s == Rebased(r, b, a)
  <2>1. /\ s \in Seq(S) /\ Len(s) = Len(a) + (Len(r) - Len(b))
        /\ \A i \in 1..Len(a) : s[i] = a[i]
        /\ \A i \in 1..(Len(r) - Len(b)) : s[Len(a) + i] = r[Len(b) + i]
    <3>1. s \in Seq(S) /\ Len(s) = Len(a) + (Len(r) - Len(b))
      BY <1>2, <1>3, RebasedIs
    <3>2. \A i \in 1..Len(a) : s[i] = a[i]
      BY <1>2, <1>3, RebasedIs
    <3>3. Alike(r, b, s, a)
      BY <1>2, <1>3, RebasedIs
    <3> QED BY <3>1, <3>2, <3>3 DEF Alike
  <2> HIDE DEF s
  <2>2. Len(s) = Len(p) /\ Len(r) - Len(b) = Len(p) - Len(a)
    BY <1>1, <1>2, <2>1
  <2>3. ASSUME NEW i \in 1..Len(s) PROVE s[i] = p[i]
    <3>1. CASE i <= Len(a)
      <4>1. i \in 1..Len(a)
        BY <1>1, <3>1
      <4> QED BY <1>1, <2>1, <4>1
    <3>2. CASE i > Len(a)
      <4>1. PICK k \in 1..(Len(p) - Len(a)) : i = Len(a) + k
        <5>1. i - Len(a) \in 1..(Len(p) - Len(a)) /\ i = Len(a) + (i - Len(a))
          BY <1>1, <2>2, <3>2
        <5> QED BY <5>1
      <4>2. k \in 1..(Len(r) - Len(b))
        BY <2>2
      <4> QED BY <1>2, <2>1, <4>1, <4>2
    <3> QED BY <1>1, <2>2, <3>1, <3>2
  <2>4. s = p
    BY <2>1, <2>2, <2>3, SeqEqual
  <2> QED BY <2>4 DEF s
<1>5. Rebased(a, a, b) = b
  <2>0. Within(a, a)
    BY WithinOrder
  <2> DEFINE s == Rebased(a, a, b)
  <2>1. s \in Seq(S) /\ Len(s) = Len(b) + (Len(a) - Len(a)) /\ \A i \in 1..Len(b) : s[i] = b[i]
    <3>1. s \in Seq(S) /\ Len(s) = Len(b) + (Len(a) - Len(a))
      BY <2>0, RebasedIs
    <3>2. \A i \in 1..Len(b) : s[i] = b[i]
      BY <2>0, RebasedIs
    <3> QED BY <3>1, <3>2
  <2> HIDE DEF s
  <2>2. Len(s) = Len(b)
    BY <1>1, <2>1
  <2>3. s = b
    BY <2>1, <2>2, SeqEqual
  <2> QED BY <2>3 DEF s
<1> QED BY <1>3, <1>4, <1>5 DEF r

LEMMA RebasedWithin ==
  ASSUME NEW S, NEW p \in Seq(S), NEW q \in Seq(S), NEW a \in Seq(S), NEW b \in Seq(S), Within(q, a), Within(p, q)
  PROVE  Within(Rebased(p, a, b), Rebased(q, a, b))
<1>1. /\ Len(p) \in Nat /\ Len(q) \in Nat /\ Len(a) \in Nat /\ Len(b) \in Nat /\ Len(a) <= Len(q) /\ Len(q) <= Len(p)
      /\ \A i \in 1..Len(q) : p[i] = q[i]
  BY LenProperties, WithinIs
<1>2. Within(p, a)
  BY WithinOrder
<1> DEFINE r == Rebased(p, a, b)  s == Rebased(q, a, b)
<1>3. /\ r \in Seq(S) /\ Len(r) = Len(b) + (Len(p) - Len(a)) /\ Alike(p, a, r, b)
      /\ \A i \in 1..Len(b) : r[i] = b[i]
  BY <1>2, RebasedIs
<1>4. /\ s \in Seq(S) /\ Len(s) = Len(b) + (Len(q) - Len(a)) /\ Alike(q, a, s, b)
      /\ \A i \in 1..Len(b) : s[i] = b[i]
  BY RebasedIs
<1> HIDE DEF r, s
<1>5. Len(s) <= Len(r) /\ Len(s) \in Nat /\ Len(r) \in Nat
  BY <1>1, <1>3, <1>4
<1>6. ASSUME NEW i \in 1..Len(s) PROVE r[i] = s[i]
  <2>1. CASE i <= Len(b)
    <3>1. i \in 1..Len(b)
      BY <1>1, <2>1
    <3> QED BY <1>3, <1>4, <3>1
  <2>2. CASE i > Len(b)
    <3>0. Len(s) = Len(b) + (Len(q) - Len(a))
      BY <1>4
    <3>1. PICK kp \in Nat, kq \in Nat, ka \in Nat, kb \in Nat : kp = Len(p) /\ kq = Len(q) /\ ka = Len(a) /\ kb = Len(b)
      BY <1>1
    <3>2. ka <= kq /\ kq <= kp /\ i \in 1..(kb + (kq - ka)) /\ i > kb
      BY <1>1, <2>2, <3>0, <3>1
    <3>3. i - kb \in 1..(kq - ka) /\ i - kb \in 1..(kp - ka) /\ ka + (i - kb) \in 1..kq /\ i = kb + (i - kb)
      BY <3>2
    <3>4. PICK k \in 1..(Len(q) - Len(a)) : k \in 1..(Len(p) - Len(a)) /\ Len(a) + k \in 1..Len(q) /\ i = Len(b) + k
      BY <3>1, <3>3
    <3>5. r[Len(b) + k] = p[Len(a) + k] /\ s[Len(b) + k] = q[Len(a) + k]
      BY <1>3, <1>4, <3>4 DEF Alike
    <3> QED BY <1>1, <3>4, <3>5
  <2> QED BY <1>1, <2>1, <2>2
<1> QED BY <1>3, <1>4, <1>5, <1>6, WithinIs DEF r, s

(* Rebasing a path rebases the directory it is in, and keeps its name.     *)
LEMMA RebasedFront ==
  ASSUME NEW S, NEW p \in Seq(S), NEW a \in Seq(S), NEW b \in Seq(S), Within(p, a), p # a
  PROVE  /\ Front(Rebased(p, a, b)) = Rebased(Front(p), a, b) /\ Within(Front(p), a)
         /\ Rebased(p, a, b) = Append(Rebased(Front(p), a, b), Last(p))
<1>1. Len(p) \in Nat /\ Len(a) \in Nat /\ Len(b) \in Nat /\ Len(a) < Len(p) /\ Len(p) >= 1
  BY LenProperties, WithinOrder
<1> DEFINE r == Rebased(p, a, b)  f == Front(p)  g == Rebased(f, a, b)
<1>2. /\ f \in Seq(S) /\ Len(f) = Len(p) - 1 /\ (\A i \in 1..(Len(p) - 1) : f[i] = p[i])
      /\ Within(f, a) /\ Last(p) = p[Len(p)] /\ Last(p) \in S
  BY <1>1, FrontIs
<1>3. /\ r \in Seq(S) /\ Len(r) = Len(b) + (Len(p) - Len(a))
      /\ \A i \in 1..Len(b) : r[i] = b[i]
      /\ \A i \in 1..(Len(p) - Len(a)) : r[Len(b) + i] = p[Len(a) + i]
  <2>1. r \in Seq(S) /\ Len(r) = Len(b) + (Len(p) - Len(a))
    BY RebasedIs
  <2>2. \A i \in 1..Len(b) : r[i] = b[i]
    BY RebasedIs
  <2>3. Alike(p, a, r, b)
    BY RebasedIs
  <2> QED BY <2>1, <2>2, <2>3 DEF Alike
<1> HIDE DEF f
<1>4. /\ g \in Seq(S) /\ Len(g) = Len(b) + (Len(f) - Len(a))
      /\ \A i \in 1..Len(b) : g[i] = b[i]
      /\ \A i \in 1..(Len(f) - Len(a)) : g[Len(b) + i] = f[Len(a) + i]
  <2>1. g \in Seq(S) /\ Len(g) = Len(b) + (Len(f) - Len(a))
    BY ZenonT(30), <1>2, RebasedIs
  <2>2. \A i \in 1..Len(b) : g[i] = b[i]
    BY <1>2, RebasedIs
  <2>3. Alike(f, a, g, b)
    BY <1>2, RebasedIs
  <2> QED BY <2>1, <2>2, <2>3 DEF Alike
<1> HIDE DEF r, g
<1> DEFINE x == Last(p)  h == Append(g, x)
<1>5. /\ h \in Seq(S) /\ Len(h) = Len(g) + 1
      /\ \A i \in 1..Len(g) : h[i] = g[i]
      /\ h[Len(g) + 1] = x
  BY <1>2, <1>4, AppendProperties
<1> HIDE DEF h
<1>6. Len(r) = Len(h) /\ Len(g) + 1 = Len(r) /\ Len(g) \in Nat /\ Len(r) \in Nat
  BY <1>1, <1>2, <1>3, <1>4, <1>5
<1>7. ASSUME NEW i \in 1..Len(r) PROVE r[i] = h[i]
  <2>1. CASE i <= Len(b)
    <3>1. i \in 1..Len(b) /\ i \in 1..Len(g)
      BY <1>1, <1>2, <1>4, <2>1
    <3> QED BY <1>3, <1>4, <1>5, <3>1
  <2>2. CASE i > Len(b) /\ i # Len(r)
    <3>1. PICK k \in 1..(Len(f) - Len(a)) : i = Len(b) + k
      <4>0. Len(f) = Len(p) - 1 /\ Len(r) = Len(b) + (Len(p) - Len(a)) /\ Len(r) \in Nat
        BY <1>2, <1>3, <1>6
      <4>1. i - Len(b) \in 1..(Len(f) - Len(a)) /\ i = Len(b) + (i - Len(b))
        <5>1. PICK kp \in Nat, ka \in Nat, kb \in Nat : kp = Len(p) /\ ka = Len(a) /\ kb = Len(b)
          BY <1>1
        <5>2. ka < kp /\ i \in 1..(kb + (kp - ka)) /\ i > kb /\ i # kb + (kp - ka)
          BY <1>1, <2>2, <4>0, <5>1
        <5>3. i - kb \in 1..((kp - 1) - ka) /\ i = kb + (i - kb)
          BY <5>2
        <5> QED BY <4>0, <5>1, <5>3
      <4> QED BY <4>1
    <3>2. k \in 1..(Len(p) - Len(a)) /\ i \in 1..Len(g) /\ Len(a) + k \in 1..(Len(p) - 1)
      BY <1>1, <1>2, <1>4, <3>1
    <3> QED BY <1>2, <1>3, <1>4, <1>5, <3>1, <3>2
  <2>3. CASE i > Len(b) /\ i = Len(r)
    <3>1. PICK k \in 1..(Len(p) - Len(a)) : k = Len(p) - Len(a)
      BY <1>1
    <3>2. i = Len(b) + k /\ Len(a) + k = Len(p)
      BY <1>1, <1>3, <2>3, <3>1
    <3> QED BY <1>2, <1>3, <1>5, <1>6, <2>3, <3>2
  <2> QED BY <1>1, <1>6, <2>1, <2>2, <2>3
<1>8. r = h
  BY <1>3, <1>5, <1>6, <1>7, SeqEqual
<1>9. Front(h) = g
  BY <1>2, <1>4, AppendIs DEF h
<1> QED BY <1>2, <1>8, <1>9 DEF r, f, g, h

LEMMA PathIn ==
  \A p \in Path : p \in Seq(FileName) /\ Len(p) \in Nat /\ 1 <= Len(p) /\ Len(p) <= MaxDepth
BY PathHas, FileOpsAssumption

LEMMA InPath ==
  ASSUME NEW p \in Seq(FileName), 1 <= Len(p), Len(p) <= MaxDepth
  PROVE  p \in Path
BY PathHas, LenProperties, FileOpsAssumption

LEMMA KindsAre ==
  /\ Dir.kind = "dir" /\ \A x : File(x).kind = "file" /\ File(x).data = x
  /\ \A x : LinkTo(x).kind = "link" /\ LinkTo(x).data = x
BY DEF Dir, File, LinkTo

Texts == {"old", "new", "zeros", "", "archive"}

LEMMA NodeKinds ==
  ASSUME NEW n \in Node
  PROVE  /\ n.kind \in {"dir", "file", "link"}
         /\ n.kind = "dir" => n = Dir
         /\ n.kind = "file" => n = File(n.data) /\ n.data \in Texts
         /\ n.kind = "link" => n = LinkTo(n.data) /\ n.data \in Path
<1>1. CASE n = Dir
  BY <1>1, KindsAre
<1>2. ASSUME NEW x \in Texts, n = File(x)
      PROVE  n.kind = "file" /\ n = File(n.data) /\ n.data \in Texts
  <2>1. n.kind = "file" /\ n.data = x
    BY <1>2, KindsAre
  <2> QED BY <1>2, <2>1
<1>3. ASSUME NEW x \in Path, n = LinkTo(x)
      PROVE  n.kind = "link" /\ n = LinkTo(n.data) /\ n.data \in Path
  <2>1. n.kind = "link" /\ n.data = x
    BY <1>3, KindsAre
  <2> QED BY <1>3, <2>1
<1>4. n = Dir \/ (\E x \in Texts : n = File(x)) \/ (\E x \in Path : n = LinkTo(x))
  BY DEF Node, Texts
<1> QED BY <1>1, <1>2, <1>3, <1>4

LEMMA NodesAre ==
  /\ Dir \in Node /\ (\A x \in Texts : File(x) \in Node) /\ (\A p \in Path : LinkTo(p) \in Node)
BY DEF Node, Texts

(* What the calls say of a path.                                           *)
LEMMA CallsSay ==
  ASSUME IsDisk(disk), NEW p \in Path
  PROVE  /\ Reached(p) \in Path
         /\ There(Reached(p)) => disk[Reached(p)] \in Node
         /\ Exists(p) => disk[Reached(p)].kind \in {"dir", "file"}
         /\ ~IsLink(p) => Reached(p) = p
         /\ IsLink(p) => disk[p].data = Reached(p)
         /\ ~IsLink(Reached(p)) /\ ~IsDir(p) => (There(Reached(p)) => disk[Reached(p)].kind = "file")
         /\ ~Exists(p) /\ There(p) => disk[p].kind = "link"
<1>1. \A q \in DOMAIN disk : q \in Path /\ disk[q] \in Node
  BY DEF IsDisk
<1>2. Reached(p) \in Path
  BY <1>1, NodeKinds DEF Reached, IsLink, There
<1>3. There(Reached(p)) => disk[Reached(p)] \in Node /\ disk[Reached(p)].kind \in {"dir", "file", "link"}
  BY <1>1, NodeKinds DEF There
<1>4. Exists(p) => disk[Reached(p)].kind \in {"dir", "file"}
  BY <1>3 DEF Exists, IsLink
<1>5. ~IsLink(Reached(p)) /\ ~IsDir(p) => (There(Reached(p)) => disk[Reached(p)].kind = "file")
  BY <1>3 DEF Exists, IsLink, IsDir
<1>6. ~Exists(p) /\ There(p) => disk[p].kind = "link"
  BY DEF Exists, IsLink, Reached
<1> QED BY <1>2, <1>3, <1>4, <1>5, <1>6 DEF Reached

(* A parent that is a directory has only directories above it.             *)
LEMMA ParentIs ==
  ASSUME IsDisk(disk), NEW p \in Path
  PROVE  /\ HasParent(p) => \A q \in Path : Within(p, q) /\ q # p => q \in DOMAIN disk /\ disk[q] = Dir
         /\ p \in DOMAIN disk => HasParent(p)
<1>1. p \in Seq(FileName) /\ Len(p) \in Nat /\ Len(p) >= 1
  BY PathIn
<1> DEFINE f == Front(p)
<1>2. f \in Seq(FileName) /\ Len(f) = Len(p) - 1 /\ Within(p, f)
  BY <1>1, FrontIs
<1>3. ASSUME HasParent(p), NEW q \in Path, Within(p, q), q # p PROVE q \in DOMAIN disk /\ disk[q] = Dir
  <2>1. q \in Seq(FileName) /\ Len(q) \in Nat /\ Len(q) >= 1 /\ Len(q) < Len(p)
    BY <1>1, <1>3, PathIn, WithinOrder
  <2>2. Len(p) # 1
    BY <1>1, <2>1
  <2>3. f \in DOMAIN disk /\ disk[f].kind = "dir"
    BY <1>3, <2>2 DEF HasParent, There
  <2>4. disk[f] = Dir
    BY <2>3, NodeKinds DEF IsDisk
  <2>5. Within(f, q)
    BY <1>1, <1>3, <2>1, FrontIs
  <2> HIDE DEF f
  <2> QED BY <2>3, <2>4, <2>5 DEF IsDisk
<1>4. ASSUME p \in DOMAIN disk PROVE HasParent(p)
  <2>1. CASE Len(p) = 1
    BY <2>1 DEF HasParent
  <2>2. CASE Len(p) # 1
    <3>1. f # p /\ f \in Path
      <4>1. Len(p) <= MaxDepth /\ MaxDepth \in Nat
        BY PathIn, FileOpsAssumption
      <4>2. 1 <= Len(f) /\ Len(f) <= MaxDepth /\ Len(f) # Len(p)
        BY <1>1, <1>2, <2>2, <4>1
      <4> QED BY <1>2, <4>2, InPath
    <3>2. f \in DOMAIN disk /\ disk[f] = Dir
      BY <1>2, <1>4, <3>1 DEF IsDisk
    <3> QED BY <3>2, KindsAre DEF HasParent, There
  <2> QED BY <2>1, <2>2
<1> QED BY <1>3, <1>4

LEMMA PutOK ==
  ASSUME IsDisk(disk), NEW p \in Path, HasParent(p), NEW n \in Node, There(p) => disk[p] # Dir
  PROVE  /\ IsDisk(Put(p, n)) /\ Put(p, n)[p] = n /\ DOMAIN Put(p, n) = DOMAIN disk \cup {p}
         /\ \A q \in DOMAIN disk : q # p => Put(p, n)[q] = disk[q]
<1> DEFINE d == Put(p, n)
<1>1. DOMAIN d = DOMAIN disk \cup {p} /\ d[p] = n /\ \A q \in DOMAIN disk : q # p => d[q] = disk[q]
  BY DEF Put
<1> HIDE DEF d
<1>2. DOMAIN d \subseteq Path /\ \A q \in DOMAIN d : d[q] \in Node
  BY <1>1 DEF IsDisk
<1>3. ASSUME NEW q \in DOMAIN d, NEW r \in Path, Within(q, r), r # q PROVE r \in DOMAIN d /\ d[r] = Dir
  <2>1. r \in DOMAIN disk /\ disk[r] = Dir
    BY <1>1, <1>3, ParentIs DEF IsDisk
  <2>2. r # p
    BY <2>1 DEF There
  <2> QED BY <1>1, <2>1, <2>2
<1> QED BY <1>1, <1>2, <1>3 DEF d, IsDisk

LEMMA WithoutOK ==
  ASSUME IsDisk(disk), NEW p \in Path
  PROVE  IsDisk(Without(p)) /\ \A q \in DOMAIN disk : ~Within(q, p) => q \in DOMAIN Without(p) /\ Without(p)[q] = disk[q]
<1> DEFINE d == Without(p)
<1>1. DOMAIN d = {q \in DOMAIN disk : ~Within(q, p)} /\ \A q \in DOMAIN d : d[q] = disk[q]
  BY DEF Without
<1> HIDE DEF d
<1>2. ASSUME NEW q \in DOMAIN d, NEW r \in Path, Within(q, r), r # q PROVE r \in DOMAIN d /\ d[r] = Dir
  <2>1. q \in DOMAIN disk /\ ~Within(q, p)
    BY <1>1
  <2>2. r \in DOMAIN disk /\ disk[r] = Dir
    BY <1>2, <2>1 DEF IsDisk
  <2>3. ~Within(r, p)
    <3>1. q \in Seq(FileName) /\ r \in Seq(FileName) /\ p \in Seq(FileName)
      BY <2>1, PathIn DEF IsDisk
    <3> QED BY <1>2, <2>1, <3>1, WithinOrder
  <2> QED BY <1>1, <2>2, <2>3
<1> QED BY <1>1, <1>2 DEF d, IsDisk

(* The new disk d has what the old one has, but for X.                     *)
Spares(d, X) == \A p \in DOMAIN disk \ X : p \in DOMAIN d /\ d[p] = disk[p]

LEMMA OverwrittenOK ==
  ASSUME IsDisk(disk), NEW p \in Path, NEW x \in Texts
  PROVE  /\ IsDisk(Overwritten(p, x)) /\ Spares(Overwritten(p, x), {Reached(p)})
         /\ ~Exists(p) => Spares(Overwritten(p, x), {})
<1>1. CASE HasParent(Reached(p)) /\ ~IsDir(p) /\ ~IsLink(Reached(p))
  <2>1. Overwritten(p, x) = Put(Reached(p), File(x))
    BY <1>1 DEF Overwritten
  <2>2. File(x) \in Node /\ Reached(p) \in Path
    BY NodesAre, CallsSay
  <2>3. There(Reached(p)) => disk[Reached(p)] # Dir
    BY <1>1, CallsSay, KindsAre
  <2> DEFINE q == Reached(p)  d == Put(q, File(x))
  <2>4. IsDisk(d) /\ DOMAIN d = DOMAIN disk \cup {q} /\ \A r \in DOMAIN disk : r # q => d[r] = disk[r]
    BY <1>1, <2>2, <2>3, PutOK
  <2>5. ~Exists(p) => q \notin DOMAIN disk
    BY <1>1 DEF Exists, There
  <2> HIDE DEF q, d
  <2>6. IsDisk(d) /\ Spares(d, {q}) /\ (~Exists(p) => Spares(d, {}))
    BY <2>4, <2>5 DEF Spares
  <2> QED BY <2>1, <2>6 DEF q, d
<1>2. CASE ~(HasParent(Reached(p)) /\ ~IsDir(p) /\ ~IsLink(Reached(p)))
  <2>1. Overwritten(p, x) = disk
    BY <1>2 DEF Overwritten
  <2> QED BY <2>1 DEF Spares
<1> QED BY <1>1, <1>2

LEMMA UnlinkedOK ==
  ASSUME IsDisk(disk), NEW p \in Path
  PROVE  IsDisk(Unlinked(p)) /\ Spares(Unlinked(p), {p})
<1>1. CASE There(p) /\ disk[p].kind # "dir"
  <2>1. Unlinked(p) = Without(p)
    BY <1>1 DEF Unlinked
  <2>2. \A q \in DOMAIN disk : q # p => ~Within(q, p)
    BY <1>1, KindsAre DEF IsDisk
  <2>3. IsDisk(Without(p)) /\ Spares(Without(p), {p})
    BY <2>2, WithoutOK DEF Spares
  <2> QED BY <2>1, <2>3
<1>2. CASE ~(There(p) /\ disk[p].kind # "dir")
  <2>1. Unlinked(p) = disk
    BY <1>2 DEF Unlinked
  <2> QED BY <2>1 DEF Spares
<1> QED BY <1>1, <1>2

LEMMA AncestorsAre ==
  ASSUME NEW p \in Path
  PROVE  Ancestors(p) = {q \in Path : Within(p, q)}
<1>1. p \in Seq(FileName) /\ Len(p) \in Nat /\ Len(p) >= 1 /\ Len(p) <= MaxDepth /\ MaxDepth \in Nat
  BY PathIn, FileOpsAssumption
<1>2. ASSUME NEW n \in 1..Len(p) PROVE Above(p, n) \in Path /\ Within(p, Above(p, n))
  <2>1. n \in 0..Len(p)
    BY <1>1
  <2> DEFINE a == Above(p, n)
  <2>2. a \in Seq(FileName) /\ Len(a) = n /\ \A i \in 1..n : a[i] = p[i]
    BY <1>1, <2>1, AboveIs
  <2> HIDE DEF a
  <2>3. 1 <= Len(a) /\ Len(a) <= MaxDepth /\ Len(a) <= Len(p) /\ Len(a) \in Nat
    BY <1>1, <2>2
  <2>4. a \in Path
    BY <2>2, <2>3, InPath
  <2>5. Within(p, a)
    BY <1>1, <2>2, <2>3, WithinIs
  <2> QED BY <2>4, <2>5 DEF a
<1>3. ASSUME NEW q \in Path, Within(p, q) PROVE \E n \in 1..Len(p) : q = SubSeq(p, 1, n)
  <2>1. q \in Seq(FileName) /\ Len(q) \in Nat /\ Len(q) >= 1 /\ Len(q) <= Len(p)
    BY <1>1, <1>3, PathIn, WithinOrder
  <2>2. SubSeq(q, 1, Len(q)) = q
    BY <2>1, SubSeqFull
  <2>3. q = SubSeq(p, 1, Len(q))
    BY <1>3, <2>2 DEF Within, IsPrefix
  <2>4. Len(q) \in 1..Len(p)
    BY <1>1, <2>1
  <2> QED BY <2>3, <2>4
<1> QED BY <1>2, <1>3 DEF Ancestors, Above

LEMMA MadeDirsOK ==
  ASSUME IsDisk(disk), NEW p \in Path
  PROVE  /\ IsDisk(MadeDirs(p)) /\ Spares(MadeDirs(p), {})
         /\ \A q \in DOMAIN MadeDirs(p) : q \in DOMAIN disk \/ Within(p, q)
<1>1. CASE \E q \in Ancestors(p) : There(q) /\ disk[q].kind # "dir"
  <2>1. MadeDirs(p) = disk
    BY <1>1 DEF MadeDirs
  <2> QED BY <2>1 DEF Spares
<1>2. CASE ~\E q \in Ancestors(p) : There(q) /\ disk[q].kind # "dir"
  <2> DEFINE d == MadeDirs(p)
  <2>1. /\ DOMAIN d = DOMAIN disk \cup Ancestors(p)
        /\ \A q \in DOMAIN disk : d[q] = disk[q]
        /\ \A q \in Ancestors(p) \ DOMAIN disk : d[q] = Dir
    BY <1>2 DEF MadeDirs, There
  <2> HIDE DEF d
  <2>2. \A q \in Ancestors(p) : q \in DOMAIN disk => disk[q] = Dir
    BY <1>2, NodeKinds DEF IsDisk, There
  <2>3. \A q \in Ancestors(p) : d[q] = Dir
    BY <2>1, <2>2
  <2>4. DOMAIN d \subseteq Path /\ \A q \in DOMAIN d : d[q] \in Node
    BY <2>1, <2>3, AncestorsAre, NodesAre DEF IsDisk
  <2>5. ASSUME NEW q \in DOMAIN d, NEW r \in Path, Within(q, r), r # q PROVE r \in DOMAIN d /\ d[r] = Dir
    <3>1. CASE q \in DOMAIN disk
      BY <2>1, <2>5, <3>1 DEF IsDisk
    <3>2. CASE q \in Ancestors(p)
      <4>1. q \in Seq(FileName) /\ r \in Seq(FileName) /\ p \in Seq(FileName) /\ Within(p, q)
        BY <3>2, PathIn, AncestorsAre
      <4>2. Within(p, r)
        BY <2>5, <4>1, WithinOrder
      <4>3. r \in Ancestors(p)
        BY <4>2, AncestorsAre
      <4> QED BY <2>1, <2>3, <4>3
    <3> QED BY <2>1, <3>1, <3>2
  <2> QED BY <2>1, <2>4, <2>5, AncestorsAre DEF d, IsDisk, Spares
<1> QED BY <1>1, <1>2

LEMMA WrittenOK ==
  ASSUME IsDisk(disk), NEW p \in Path
  PROVE  IsDisk(Written(p)) /\ Spares(Written(p), {Reached(p)})
<1>1. CASE There(p)
  <2>1. Written(p) = Overwritten(p, "new")
    BY <1>1 DEF Written
  <2>2. "new" \in Texts
    BY DEF Texts
  <2> QED BY <2>1, <2>2, OverwrittenOK
<1>2. CASE ~There(p)
  <2> DEFINE m == MadeDirs(p)  d == Written(p)
  <2>1. /\ DOMAIN d = DOMAIN m
        /\ \A q \in DOMAIN m : d[q] = IF q = p THEN File("new") ELSE m[q]
    BY <1>2 DEF Written
  <2>2. IsDisk(m) /\ Spares(m, {}) /\ \A q \in DOMAIN m : q \in DOMAIN disk \/ Within(p, q)
    BY MadeDirsOK
  <2> HIDE DEF m, d
  <2>3. DOMAIN d \subseteq Path /\ \A q \in DOMAIN d : d[q] \in Node
    BY <2>1, <2>2, NodesAre DEF IsDisk, Texts
  <2>4. ASSUME NEW q \in DOMAIN d, NEW r \in Path, Within(q, r), r # q PROVE r \in DOMAIN d /\ d[r] = Dir
    <3>1. r \in DOMAIN m /\ m[r] = Dir
      BY <2>1, <2>2, <2>4 DEF IsDisk
    <3>2. r # p
      <4> SUFFICES ASSUME r = p PROVE FALSE
        OBVIOUS
      <4>1. p \notin DOMAIN disk
        BY <1>2 DEF There
      <4>2. q \notin DOMAIN disk
        BY <2>4, <4>1 DEF IsDisk
      <4>3. Within(p, q) /\ Within(q, p) /\ q # p
        BY <2>1, <2>2, <2>4, <4>2
      <4>4. q \in Seq(FileName) /\ p \in Seq(FileName) /\ Len(p) \in Nat /\ Len(q) \in Nat
        BY <2>1, <2>2, PathIn DEF IsDisk
      <4> QED BY <4>3, <4>4, WithinOrder
    <3> QED BY <2>1, <3>1, <3>2
  <2>5. IsDisk(d)
    BY <2>3, <2>4 DEF IsDisk
  <2>6. Spares(d, {Reached(p)})
    BY <1>2, <2>1, <2>2 DEF Spares, There
  <2> QED BY <2>5, <2>6 DEF d
<1> QED BY <1>1, <1>2

LEMMA MovedOK ==
  ASSUME IsDisk(disk), NEW src \in Path, NEW dst \in Path, MayMove(src, dst)
  PROVE  /\ IsDisk(Moved(src, dst))
         /\ Spares(Moved(src, dst), {p \in Path : Within(p, src) \/ p = dst})
<1> DEFINE to(p) == Rebased(p, src, dst)  from(p) == Rebased(p, dst, src)
           old == Below(src) \cup {src}  moved == {to(p) : p \in old}
           stays == {p \in DOMAIN disk : ~Within(p, src) /\ ~Within(p, dst)}
           d == Moved(src, dst)
<1>1. DOMAIN d = stays \cup moved /\ \A p \in DOMAIN d : d[p] = IF p \in moved THEN disk[from(p)] ELSE disk[p]
  BY DEF Moved
<1>2. /\ src \in DOMAIN disk /\ HasParent(dst)
      /\ ~(disk[src].kind = "dir" /\ Within(dst, src))
      /\ dst \in DOMAIN disk => (disk[src].kind = "dir" <=> disk[dst].kind = "dir") /\ Below(dst) = {}
      /\ \A p \in Below(src) : Len(dst) + Len(p) - Len(src) <= MaxDepth
  BY DEF MayMove, There
<1>3. /\ src \in Seq(FileName) /\ Len(src) \in Nat /\ Len(src) >= 1
      /\ dst \in Seq(FileName) /\ Len(dst) \in Nat /\ Len(dst) >= 1 /\ Len(dst) <= MaxDepth /\ MaxDepth \in Nat
  BY PathIn, FileOpsAssumption
<1>4. \A p \in DOMAIN disk : p \in Path /\ p \in Seq(FileName) /\ Len(p) \in Nat
  BY PathIn DEF IsDisk
<1>5. \A p \in old : p \in DOMAIN disk /\ Within(p, src)
  BY <1>2, <1>3, WithinOrder DEF Below
<1>6. ASSUME NEW p \in old
      PROVE  /\ to(p) \in Path /\ Within(to(p), dst) /\ from(to(p)) = p
             /\ p = src => to(p) = dst
             /\ p # src => Front(to(p)) = to(Front(p)) /\ Front(p) \in old /\ disk[Front(p)] = Dir /\ to(p) # dst
  <2>1. p \in Seq(FileName) /\ Len(p) \in Nat /\ Within(p, src) /\ p \in DOMAIN disk /\ p \in Path /\ Len(p) >= 1
    BY <1>4, <1>5, PathIn
  <2>2. to(p) \in Seq(FileName) /\ Len(to(p)) = Len(dst) + (Len(p) - Len(src)) /\ Within(to(p), dst) /\ from(to(p)) = p
    BY <1>3, <2>1, RebasedIs, RebasedOrder
  <2>3. to(src) = dst
    BY <1>3, <2>1, RebasedOrder
  <2>4. ASSUME p # src
        PROVE  Front(to(p)) = to(Front(p)) /\ Front(p) \in old /\ disk[Front(p)] = Dir /\ to(p) \in Path /\ to(p) # dst
    <3>1. Front(to(p)) = to(Front(p)) /\ Within(Front(p), src)
      BY <1>3, <2>1, <2>4, RebasedFront
    <3>2. Front(p) \in Seq(FileName) /\ Len(Front(p)) = Len(p) - 1 /\ Within(p, Front(p)) /\ Len(src) < Len(p)
      BY <1>3, <2>1, <2>4, FrontIs, WithinOrder
    <3>3. Front(p) \in Path /\ Front(p) # p
      <4>1. Len(p) <= MaxDepth
        BY <2>1, PathIn
      <4>2. 1 <= Len(Front(p)) /\ Len(Front(p)) <= MaxDepth /\ Len(Front(p)) # Len(p)
        BY <1>3, <2>1, <3>2, <4>1
      <4> QED BY <3>2, <4>2, InPath
    <3>4. Front(p) \in DOMAIN disk /\ disk[Front(p)] = Dir
      BY <2>1, <3>2, <3>3 DEF IsDisk
    <3>5. Front(p) \in old
      BY <3>1, <3>4 DEF Below
    <3>6. 1 <= Len(to(p)) /\ Len(to(p)) <= MaxDepth /\ Len(to(p)) # Len(dst)
      <4>1. Len(dst) + Len(p) - Len(src) <= MaxDepth
        BY <1>2, <2>1, <2>4 DEF Below
      <4> QED BY <1>3, <2>1, <2>2, <3>2, <4>1
    <3>7. to(p) \in Path
      BY <2>2, <3>6, InPath
    <3> QED BY <3>1, <3>4, <3>5, <3>6, <3>7
  <2> QED BY <2>2, <2>3, <2>4
<1> HIDE DEF d, to, from, old
<1>7. \A q \in moved : \E p \in old : q = to(p) /\ d[q] = disk[p]
  BY <1>1, <1>6
<1>8. \A q \in stays : q \notin moved /\ d[q] = disk[q]
  BY <1>1, <1>6
<1>9. DOMAIN d \subseteq Path /\ \A q \in DOMAIN d : d[q] \in Node
  BY <1>1, <1>4, <1>5, <1>6, <1>7, <1>8 DEF IsDisk
<1>10. ASSUME NEW r \in Path, Within(dst, r), r # dst PROVE r \in stays /\ disk[r] = Dir
  <2>1. r \in DOMAIN disk /\ disk[r] = Dir
    BY <1>2, <1>10, ParentIs
  <2>2. r \in Seq(FileName)
    BY PathIn
  <2>3. ~Within(r, dst)
    BY <1>3, <1>10, <2>2, WithinOrder, LenProperties
  <2>4. ~Within(r, src)
    <3>1. SUFFICES ASSUME Within(r, src) PROVE FALSE
      OBVIOUS
    <3>2. Within(dst, src)
      BY <1>3, <1>10, <2>2, <3>1, WithinOrder
    <3>3. disk[src] = Dir
      BY <1>2, <2>1, <3>1 DEF IsDisk
    <3> QED BY <1>2, <3>2, <3>3, KindsAre
  <2> QED BY <2>1, <2>3, <2>4
<1>11. ASSUME NEW q \in DOMAIN d, NEW r \in Path, Within(q, r), r # q PROVE r \in DOMAIN d /\ d[r] = Dir
  <2>1. r \in Seq(FileName) /\ Len(r) \in Nat
    BY PathIn
  <2>2. CASE q \in stays
    <3>1. q \in DOMAIN disk /\ q \in Seq(FileName) /\ ~Within(q, src) /\ ~Within(q, dst)
      BY <1>4, <2>2
    <3>2. r \in DOMAIN disk /\ disk[r] = Dir
      BY <1>11, <3>1 DEF IsDisk
    <3>3. ~Within(r, src) /\ ~Within(r, dst)
      BY <1>3, <1>11, <2>1, <3>1, WithinOrder
    <3>4. r \in stays
      BY <3>2, <3>3
    <3> QED BY <1>1, <1>8, <3>2, <3>4
  <2>3. ASSUME NEW p \in old, q = to(p) PROVE r \in DOMAIN d /\ d[r] = Dir
    <3>1. q \in Seq(FileName) /\ Within(q, dst) /\ p \in Seq(FileName) /\ Within(p, src) /\ p \in DOMAIN disk
      BY <1>4, <1>5, <1>6, <2>3, PathIn
    <3>2. CASE Within(r, dst)
      <4> DEFINE o == from(r)
      <4>1. o \in Seq(FileName) /\ Within(o, src) /\ to(o) = r
        BY <1>3, <2>1, <3>2, RebasedIs, RebasedOrder DEF to, from
      <4>2. Within(from(q), o) /\ from(q) = p /\ o # p
        BY <1>3, <1>6, <1>11, <2>1, <2>3, <3>1, <3>2, <4>1, RebasedWithin DEF from
      <4>3. o \in Path
        <5>1. 1 <= Len(o) /\ Len(o) <= Len(p) /\ Len(p) <= MaxDepth /\ Len(p) \in Nat /\ Len(o) \in Nat
          <6>1. Len(src) <= Len(o) /\ Len(o) <= Len(p) /\ Len(o) \in Nat
            BY <1>3, <3>1, <4>1, <4>2, WithinOrder, LenProperties
          <6>2. p \in Path /\ Len(p) <= MaxDepth /\ Len(p) \in Nat
            BY <1>4, <3>1, PathIn
          <6> QED BY <1>3, <6>1, <6>2
        <5>2. Len(o) <= MaxDepth
          BY <1>3, <5>1
        <5> QED BY <4>1, <5>1, <5>2, InPath
      <4>4. o \in DOMAIN disk /\ disk[o] = Dir
        BY <3>1, <4>2, <4>3 DEF IsDisk
      <4>5. o \in old
        BY <4>1, <4>4 DEF old, Below
      <4> QED BY <1>1, <1>6, <4>1, <4>4, <4>5
    <3>3. CASE ~Within(r, dst)
      <4>1. Len(r) <= Len(dst)
        BY <1>3, <1>11, <2>1, <3>1, <3>3, WithinOrder
      <4>2. Within(dst, r) /\ r # dst
        BY <1>3, <1>11, <2>1, <3>1, <3>3, <4>1, WithinOrder
      <4> QED BY <1>1, <1>8, <1>10, <4>2
    <3> QED BY <3>2, <3>3
  <2> QED BY <1>1, <2>2, <2>3
<1>12. IsDisk(d)
  BY <1>9, <1>11 DEF IsDisk
<1>13. ASSUME NEW p \in DOMAIN disk, ~Within(p, src), p # dst PROVE p \in stays
  <2>1. CASE Within(p, dst)
    <3>1. dst \in DOMAIN disk
      BY <1>13, <2>1 DEF IsDisk
    <3>2. p \in Below(dst)
      BY <1>13, <2>1 DEF Below
    <3> QED BY <1>2, <3>1, <3>2
  <2> QED BY <1>13, <2>1
<1> QED BY <1>1, <1>4, <1>8, <1>12, <1>13 DEF d, Spares

LEMMA UnpackedOK ==
  ASSUME IsDisk(disk), NEW d \in Path, NEW read \in SUBSET FileName
  PROVE  IsDisk(Unpacked(d, read)) /\ (~Exists(d) => Spares(Unpacked(d, read), {}))
<1>0. CASE ~(d \in DOMAIN MadeDirs(d) /\ MadeDirs(d)[d].kind = "dir")
  <2>1. Unpacked(d, read) = disk
    BY <1>0 DEF Unpacked
  <2> QED BY <2>1 DEF Spares
<1> SUFFICES ASSUME d \in DOMAIN MadeDirs(d), MadeDirs(d)[d].kind = "dir"
             PROVE  IsDisk(Unpacked(d, read)) /\ (~Exists(d) => Spares(Unpacked(d, read), {}))
  BY <1>0
<1> DEFINE m == MadeDirs(d)
           fresh(p) == p \in Path /\ (There(p) => disk[p].kind = "file")
           made == {p \in {Append(d, n) : n \in read} : fresh(p)}
           u == Unpacked(d, read)
<1>1. /\ DOMAIN u = DOMAIN m \cup made
      /\ \A p \in made : u[p] = File("new")
      /\ \A p \in DOMAIN m \ made : u[p] = m[p]
  BY DEF Unpacked
<1>2. /\ IsDisk(m) /\ Spares(m, {}) /\ \A q \in DOMAIN m : q \in DOMAIN disk \/ Within(d, q)
      /\ d \in DOMAIN m /\ m[d] = Dir
  BY MadeDirsOK, NodeKinds DEF IsDisk
<1>3. d \in Seq(FileName) /\ Len(d) \in Nat
  BY PathIn
<1>4. ASSUME NEW p \in made
      PROVE  /\ p \in Path /\ p \in Seq(FileName) /\ Len(p) = Len(d) + 1 /\ Within(p, d) /\ Front(p) = d
             /\ There(p) => disk[p].kind = "file"
             /\ ~Within(d, p) /\ p # d
  <2>1. PICK n \in FileName : p = Append(d, n)
    OBVIOUS
  <2>2. p \in Seq(FileName) /\ Len(p) = Len(d) + 1 /\ Within(p, d) /\ Front(p) = d
    BY <1>3, <2>1, AppendIs
  <2>3. ~Within(d, p)
    <3>1. ~(Len(p) <= Len(d))
      BY <1>3, <2>2
    <3> QED BY <1>3, <2>2, <3>1, WithinOrder
  <2>4. p # d
    BY <1>3, <2>2
  <2> QED BY <2>2, <2>3, <2>4
<1> HIDE DEF m, made, u
<1>5. \A p \in DOMAIN m : m[p] = Dir => p \notin made
  <2>1. ASSUME NEW p \in made, p \in DOMAIN m, m[p] = Dir PROVE FALSE
    <3>1. p \in DOMAIN disk
      BY <1>2, <1>4, <2>1
    <3>2. m[p] = disk[p]
      BY <1>2, <3>1 DEF Spares
    <3> QED BY <1>4, <2>1, <3>1, <3>2, KindsAre DEF There
  <2> QED BY <2>1
<1>6. DOMAIN u \subseteq Path /\ \A p \in DOMAIN u : u[p] \in Node
  <2>1. File("new") \in Node
    BY NodesAre DEF Texts
  <2> QED BY <1>1, <1>2, <1>4, <2>1 DEF IsDisk
<1>7. ASSUME NEW q \in DOMAIN u, NEW p \in Path, Within(q, p), p # q PROVE p \in DOMAIN u /\ u[p] = Dir
  <2>1. CASE q \in DOMAIN m
    <3>1. p \in DOMAIN m /\ m[p] = Dir
      BY <1>2, <1>7, <2>1 DEF IsDisk
    <3> QED BY <1>1, <1>5, <3>1
  <2>2. CASE q \in made
    <3>1. p \in Seq(FileName) /\ Len(q) >= 1
      BY <1>4, <2>2, PathIn
    <3>2. Within(d, p)
      BY <1>4, <1>7, <2>2, <3>1, FrontIs
    <3>3. p \in DOMAIN m /\ m[p] = Dir
      BY <1>2, <3>2 DEF IsDisk
    <3> QED BY <1>1, <1>5, <3>3
  <2> QED BY <1>1, <2>1, <2>2
<1>8. ASSUME ~Exists(d) PROVE Spares(u, {})
  <2>1. d \notin DOMAIN disk
    <3>1. d \in DOMAIN disk => m[d] = disk[d] /\ disk[d].kind = "link"
      BY <1>2, <1>8, CallsSay DEF Spares, There
    <3> QED BY <1>2, <3>1, KindsAre
  <2>2. ASSUME NEW p \in DOMAIN disk PROVE p \in DOMAIN m /\ p \notin made /\ m[p] = disk[p]
    <3>1. p \in DOMAIN m /\ m[p] = disk[p]
      BY <1>2 DEF Spares
    <3>2. p \notin made
      BY <1>4, <2>1 DEF IsDisk
    <3> QED BY <3>1, <3>2
  <2> QED BY <1>1, <2>2 DEF Spares
<1> QED BY <1>6, <1>7, <1>8 DEF u, IsDisk

(* SetToSeq lists a finite set.                                            *)
LEMMA SetToSeqIs ==
  ASSUME NEW S, IsFiniteSet(S)
  PROVE  /\ SetToSeq(S) \in Seq(S)
         /\ \A x \in S : \E i \in 1..Len(SetToSeq(S)) : SetToSeq(S)[i] = x
         /\ \A i, k \in 1..Len(SetToSeq(S)) : SetToSeq(S)[i] = SetToSeq(S)[k] => i = k
<1> DEFINE n == Cardinality(S)  f == SetToSeq(S)
<1>1. n \in Nat /\ ExistsBijection(1..n, S)
  BY FS_CardinalityType
<1>2. PICK g \in [1..n -> S] : IsInjective(g)
  <2>1. PICK g \in Bijection(1..n, S) : TRUE
    BY <1>1 DEF ExistsBijection
  <2>2. g \in [1..n -> S] /\ \A i, k \in 1..n : g[i] = g[k] => i = k
    BY <2>1 DEF Bijection, Injection, Surjection, IsInjective
  <2> QED BY <2>2 DEF IsInjective
<1>3. f \in [1..n -> S] /\ IsInjective(f)
  BY <1>2 DEF SetToSeq
<1> HIDE DEF f, n
<1>4. f \in Seq(S)
  BY <1>1, <1>3, IsASeq
<1>5. Len(f) = n
  <2>1. Len(f) \in Nat /\ DOMAIN f = 1..Len(f) /\ DOMAIN f = 1..n
    BY <1>3, <1>4, LenProperties
  <2>2. PICK m \in Nat : m = Len(f)
    BY <2>1
  <2>3. 1..m = 1..n
    BY <2>1, <2>2
  <2>4. m < n => n \in 1..n /\ n \notin 1..m
    BY <1>1
  <2>5. m > n => m \in 1..m /\ m \notin 1..n
    BY <1>1
  <2> QED BY <1>1, <2>2, <2>3, <2>4, <2>5
<1>6. \A i, k \in 1..n : f[i] = f[k] => i = k
  BY <1>3 DEF IsInjective
<1>7. \A x \in S : \E i \in 1..n : f[i] = x
  <2> DEFINE T == {f[i] : i \in 1..n}
  <2>1. T \subseteq S
    BY <1>3
  <2>2. f \in Bijection(1..n, T)
    BY <1>3, <1>6 DEF Bijection, Injection, Surjection, IsInjective
  <2>3. IsFiniteSet(1..n) /\ Cardinality(1..n) = n
    BY <1>1, FS_Interval
  <2>4. IsFiniteSet(T) /\ Cardinality(T) = n
    BY <1>1, <2>2, <2>3, FS_Bijection DEF ExistsBijection
  <2>5. T = S
    BY <2>1, <2>4, FS_Subset DEF n
  <2> QED BY <2>5
<1> QED BY <1>4, <1>5, <1>6, <1>7 DEF f

Acting == {"create_dir", "create_file", "touch", "write", "mkdir", "delete", "trash", "rm", "rmdir", "rename"}

(* The operations that take each step.                                     *)
Takes(op, step) ==
  \/ op \in Acting /\ step = "act"
  \/ op \in {"compress", "extract"} /\ step = op
  \/ op \in {"copy", "duplicate"} /\ step \in {"tree", "copyfile"}
  \/ op = "shred" /\ step \in {"overwrite", "unlink"}
  \/ op = "retarget" /\ step \in {"unlink", "link"}

Pairs == Path \X Seq(FileName)
JobOK(j) ==
  /\ j = [op |-> j.op, src |-> j.src, dst |-> j.dst, step |-> j.step, todo |-> j.todo, was |-> j.was]
  /\ j.op = "none" => j.step \in {"idle", "copied"}
  /\ j.op # "none" => /\ j.src \in Path /\ j.dst \in Path /\ Takes(j.op, j.step)
                      /\ j.step = "tree" => j.todo \in Seq(Pairs) /\ j.todo # <<>>
FileTypes ==
  /\ FileTypeOK
  /\ DOMAIN job = FileClient /\ \A c \in FileClient : JobOK(job[c])

LEMMA NoOpOK == JobOK(NoOp) /\ NoOp.op = "none"
BY DEF JobOK, NoOp

LEMMA CopiedOK == JobOK([NoOp EXCEPT !.step = "copied"]) /\ [NoOp EXCEPT !.step = "copied"].op = "none"
                    /\ [NoOp EXCEPT !.step = "copied"].step = "copied"
BY DEF JobOK, NoOp

LEMMA StepTo ==
  ASSUME NEW j, JobOK(j), NEW step, j.op # "none", Takes(j.op, step), step # "tree", NEW k, k = [j EXCEPT !.step = step]
  PROVE  JobOK(k) /\ k.op = j.op /\ k.src = j.src /\ k.dst = j.dst /\ k.step = step
<1>1. j = [op |-> j.op, src |-> j.src, dst |-> j.dst, step |-> j.step, todo |-> j.todo, was |-> j.was]
  BY DEF JobOK
<1>2. k = [op |-> j.op, src |-> j.src, dst |-> j.dst, step |-> step, todo |-> j.todo, was |-> j.was]
  BY <1>1
<1>3. k.op = j.op /\ k.src = j.src /\ k.dst = j.dst /\ k.step = step /\ k.todo = j.todo /\ k.was = j.was
  BY <1>2
<1>4. k = [op |-> k.op, src |-> k.src, dst |-> k.dst, step |-> k.step, todo |-> k.todo, was |-> k.was]
  BY <1>2, <1>3, Zenon
<1> QED BY <1>3, <1>4 DEF JobOK

LEMMA TodoTo ==
  ASSUME NEW j, JobOK(j), NEW todo, j.op # "none", j.step = "tree", todo \in Seq(Pairs), todo # <<>>,
         NEW k, k = [j EXCEPT !.todo = todo]
  PROVE  JobOK(k) /\ k.op = j.op /\ k.src = j.src /\ k.dst = j.dst /\ k.step = "tree" /\ k.todo = todo /\ k.was = j.was
<1>1. j = [op |-> j.op, src |-> j.src, dst |-> j.dst, step |-> j.step, todo |-> j.todo, was |-> j.was]
  BY DEF JobOK
<1>2. k = [op |-> j.op, src |-> j.src, dst |-> j.dst, step |-> j.step, todo |-> todo, was |-> j.was]
  BY <1>1
<1>3. k.op = j.op /\ k.src = j.src /\ k.dst = j.dst /\ k.step = j.step /\ k.todo = todo /\ k.was = j.was
  BY <1>2
<1>4. k = [op |-> k.op, src |-> k.src, dst |-> k.dst, step |-> k.step, todo |-> k.todo, was |-> k.was]
  BY <1>2, <1>3, Zenon
<1> QED BY <1>3, <1>4 DEF JobOK

LEMMA ActedOK ==
  ASSUME IsDisk(disk), NEW op \in Acting, NEW src \in Path, NEW dst \in Path
  PROVE  /\ IsDisk(Acted(op, src, dst))
         /\ Spares(Acted(op, src, dst),
              IF op \in {"delete", "trash", "rm", "rmdir", "rename"}
              THEN {p \in Path : Within(p, src) \/ (op = "rename" /\ p = dst)}
              ELSE IF op = "write" THEN {Reached(src)} ELSE {})
<1> DEFINE X == IF op \in {"delete", "trash", "rm", "rmdir", "rename"}
                THEN {p \in Path : Within(p, src) \/ (op = "rename" /\ p = dst)}
                ELSE IF op = "write" THEN {Reached(src)} ELSE {}
           OK(d) == IsDisk(d) /\ Spares(d, X)
<1>1. OK(disk)
  BY DEF Spares
<1>2. CASE op \in {"create_dir", "create_file"}
  <2>1. Dir \in Node /\ File("") \in Node
    BY NodesAre DEF Texts
  <2>2. ASSUME NEW n \in Node, ~There(src), HasParent(src) PROVE OK(Put(src, n))
    <3>1. IsDisk(Put(src, n)) /\ DOMAIN Put(src, n) = DOMAIN disk \cup {src} /\ \A q \in DOMAIN disk : q # src => Put(src, n)[q] = disk[q]
      BY <2>2, PutOK
    <3> QED BY <2>2, <3>1 DEF Spares, There
  <2>3. Acted(op, src, dst) = disk \/ (~There(src) /\ HasParent(src) /\ \E n \in Node : Acted(op, src, dst) = Put(src, n))
    BY <1>2, <2>1 DEF Acted
  <2> HIDE DEF OK
  <2>4. OK(Acted(op, src, dst))
    BY <1>1, <2>2, <2>3
  <2> QED BY <2>4 DEF OK
<1>3. CASE op \in {"touch", "write"}
  <2>1. "" \in Texts /\ "new" \in Texts
    BY DEF Texts
  <2>2. op = "touch" => Acted(op, src, dst) = IF Exists(src) THEN disk ELSE Overwritten(src, "")
    BY DEF Acted
  <2>3. op = "write" => Acted(op, src, dst) = Written(src)
    BY DEF Acted
  <2>4. X = IF op = "write" THEN {Reached(src)} ELSE {}
    BY <1>3
  <2> HIDE DEF X
  <2>5. CASE op = "touch"
    BY <1>1, <2>1, <2>2, <2>4, <2>5, OverwrittenOK
  <2>6. CASE op = "write"
    BY <2>3, <2>4, <2>6, WrittenOK
  <2> QED BY <1>3, <2>5, <2>6 DEF X
<1>4. CASE op = "mkdir"
  <2>1. Acted(op, src, dst) = MadeDirs(src)
    BY <1>4 DEF Acted
  <2>2. X = {}
    BY <1>4
  <2> HIDE DEF X
  <2> QED BY <2>1, <2>2, MadeDirsOK DEF X
<1>5. CASE op \in {"delete", "trash", "rm", "rmdir"}
  <2>1. Acted(op, src, dst) = disk \/ Acted(op, src, dst) = Without(src)
    BY <1>5 DEF Acted
  <2>2. OK(Without(src))
    <3>1. X = {p \in Path : Within(p, src)}
      BY <1>5
    <3>2. IsDisk(Without(src)) /\ \A q \in DOMAIN disk : ~Within(q, src) => q \in DOMAIN Without(src) /\ Without(src)[q] = disk[q]
      BY WithoutOK
    <3> HIDE DEF X
    <3> QED BY <3>1, <3>2 DEF Spares, IsDisk
  <2> HIDE DEF OK
  <2>3. OK(Acted(op, src, dst))
    BY <1>1, <2>1, <2>2
  <2> QED BY <2>3 DEF OK
<1>6. CASE op = "rename"
  <2>1. Acted(op, src, dst) = IF MayMove(src, dst) THEN Moved(src, dst) ELSE disk
    BY <1>6 DEF Acted
  <2>2. X = {p \in Path : Within(p, src) \/ p = dst}
    BY <1>6
  <2> HIDE DEF X
  <2> QED BY <1>1, <2>1, <2>2, MovedOK DEF X
<1> QED BY <1>2, <1>3, <1>4, <1>5, <1>6 DEF Acting

(* What a directory lists: paths one name longer, as many at most as there *)
(* are names.                                                              *)
LEMMA EntriesAre ==
  ASSUME NEW d, IsDisk(d), NEW r \in Path
  PROVE  /\ IsFiniteSet(Entries(d, r))
         /\ \A p \in Entries(d, r) : /\ p \in Path /\ p \in Seq(FileName) /\ Front(p) = r /\ Last(p) \in FileName
                                     /\ p \in DOMAIN d /\ Within(p, r) /\ p # r
<1>1. r \in Seq(FileName) /\ Len(r) \in Nat /\ Len(r) >= 1
  BY PathIn
<1>2. ASSUME NEW p \in Entries(d, r)
      PROVE  /\ p \in Path /\ p \in Seq(FileName) /\ Front(p) = r /\ Last(p) \in FileName /\ p = Append(r, Last(p))
             /\ p \in DOMAIN d /\ Within(p, r) /\ p # r
  <2>1. p \in DOMAIN d /\ Within(p, r) /\ Len(p) = Len(r) + 1
    BY DEF Entries
  <2>2. p \in Path /\ p \in Seq(FileName) /\ Len(p) >= 1 /\ p # r
    BY <1>1, <2>1, PathIn DEF IsDisk
  <2>3. Front(p) \in Seq(FileName) /\ Len(Front(p)) = Len(p) - 1 /\ Within(Front(p), r) /\ Last(p) \in FileName
    BY <1>1, <2>1, <2>2, FrontIs
  <2>4. Len(Front(p)) = Len(r)
    BY <1>1, <2>1, <2>3
  <2>5. Front(p) = r
    BY <1>1, <2>3, <2>4, WithinOrder
  <2> DEFINE a == Append(r, Last(p))
  <2>6. a \in Seq(FileName) /\ Len(a) = Len(r) + 1 /\ Front(a) = r /\ Last(a) = Last(p)
    BY <1>1, <2>3, AppendIs
  <2> HIDE DEF a
  <2>7. Len(a) >= 1
    BY <1>1, <2>6
  <2>8. p = a
    BY <2>2, <2>5, <2>6, <2>7, FrontLast
  <2> QED BY <2>1, <2>2, <2>3, <2>5, <2>8 DEF a
<1>3. IsFiniteSet({Append(r, n) : n \in FileName})
  <2>1. IsFiniteSet(FileName)
    BY FileOpsAssumption
  <2> DEFINE f == [n \in FileName |-> Append(r, n)]  T == {Append(r, n) : n \in FileName}
  <2>2. f \in Surjection(FileName, T)
    BY DEF Surjection
  <2> HIDE DEF f
  <2>3. IsFiniteSet(T)
    BY <2>1, <2>2, FS_Surjection DEF ExistsSurjection
  <2> QED BY <2>3
<1>4. Entries(d, r) \subseteq {Append(r, n) : n \in FileName}
  BY <1>2
<1>5. IsFiniteSet(Entries(d, r))
  BY <1>3, <1>4, FS_Subset
<1> QED BY <1>2, <1>5

(* s lists what is to be copied from directory r to the new one at to.     *)
Lists(s, d, r, to) ==
  /\ \A i \in 1..Len(s) : \E p \in Entries(d, r) : s[i] = <<p, Append(to, Last(p))>>
  /\ \A p \in Entries(d, r) : \E i \in 1..Len(s) : s[i] = <<p, Append(to, Last(p))>>
  /\ \A i, k \in 1..Len(s) : s[i] = s[k] => i = k

Listing(d, r, to) == SetToSeq({<<p, Append(to, Last(p))>> : p \in Entries(d, r)})

LEMMA ListedIs ==
  ASSUME NEW d, IsDisk(d), NEW r \in Path, NEW to \in Path
  PROVE  Listing(d, r, to) \in Seq(Pairs) /\ Lists(Listing(d, r, to), d, r, to)
<1> DEFINE s == Listing(d, r, to)  E == Entries(d, r)  read == {<<p, Append(to, Last(p))>> : p \in E}
<1>1. IsFiniteSet(E) /\ \A p \in E : p \in Path /\ Last(p) \in FileName
  BY EntriesAre
<1>2. to \in Seq(FileName)
  BY PathIn
<1> HIDE DEF E
<1>3. IsFiniteSet(read)
  <2> DEFINE f == [p \in E |-> <<p, Append(to, Last(p))>>]
  <2>1. f \in Surjection(E, read)
    BY DEF Surjection
  <2> HIDE DEF f
  <2> QED BY <1>1, <2>1, FS_Surjection DEF ExistsSurjection
<1>4. read \subseteq Pairs
  <2>1. ASSUME NEW p \in E PROVE Append(to, Last(p)) \in Seq(FileName)
    BY <1>1, <1>2, AppendIs
  <2> QED BY <1>1, <2>1 DEF Pairs
<1>5. s = SetToSeq(read)
  BY DEF E, Listing
<1> HIDE DEF s
<1>6. /\ s \in Seq(read)
      /\ \A x \in read : \E i \in 1..Len(s) : s[i] = x
      /\ \A i, k \in 1..Len(s) : s[i] = s[k] => i = k
  BY <1>3, <1>5, SetToSeqIs
<1>7. \A i \in 1..Len(s) : s[i] \in read
  BY <1>6, ElementOfSeq
<1>8. s \in Seq(Pairs)
  BY <1>4, <1>6, SeqMonotonic
<1> QED BY <1>6, <1>7, <1>8 DEF Lists, E, s

(* One entry of a tree copy: it fails, or makes a directory and has its    *)
(* entries to copy next, or copies a file.                                 *)
Copies(j, from, to, s) ==
  /\ s \in Seq(Pairs) /\ to \in Path /\ HasParent(to) /\ Exists(from)
  /\ \/ /\ IsDir(from) /\ (from = j.src \/ ~IsLink(from)) /\ ~There(to)
        /\ disk' = Put(to, Dir) /\ Lists(s, disk', Reached(from), to)
     \/ /\ ~(IsDir(from) /\ (from = j.src \/ ~IsLink(from))) /\ ~IsDir(from) /\ ~IsDir(to)
        /\ disk' = Overwritten(to, disk[Reached(from)].data) /\ s = <<>>
CopyGoesOn(c, j, todo) ==
  job' = [job EXCEPT ![c] = IF todo = <<>> THEN [NoOp EXCEPT !.step = "copied"] ELSE [j EXCEPT !.todo = todo]]

CopiesEntry(c, j, from, to) ==
  /\ j.op # "none" /\ j.step = "tree" /\ JobOK(j) /\ fileOps' = fileOps /\ intertwined' = intertwined
  /\ j.todo \in Seq(Pairs) /\ j.todo # <<>> /\ Head(j.todo) = <<from, to>>
  /\ from \in Path /\ to \in Seq(FileName)
  /\ \/ disk' = disk /\ job' = [job EXCEPT ![c] = NoOp]
     \/ \E s : Copies(j, from, to, s) /\ CopyGoesOn(c, j, s \o Tail(j.todo))

LEMMA CopyStepIs ==
  ASSUME FileTypes, NEW c \in FileClient, CopyTree(c)
  PROVE  \E from, to : CopiesEntry(c, job[c], from, to)
<1>0. PICK j, from, to : j = job[c] /\ from = Head(j.todo)[1] /\ to = Head(j.todo)[2]
  OBVIOUS
<1> DEFINE dir == IsDir(from) /\ (from = j.src \/ ~IsLink(from))
           works == /\ to \in Path /\ HasParent(to) /\ Exists(from)
                    /\ IF dir THEN ~There(to) ELSE ~IsDir(from) /\ ~IsDir(to)
           read == {<<p, Append(to, Last(p))>> : p \in Entries(disk', Reached(from))}
           s == IF dir THEN SetToSeq(read) ELSE <<>>
           todo == s \o Tail(j.todo)
<1>1. /\ Underway(c) /\ j.step = "tree" /\ fileOps' = fileOps /\ intertwined' = intertwined
      /\ disk' = CASE ~works -> disk
                    [] works /\ dir -> Put(to, Dir)
                    [] OTHER -> Overwritten(to, disk[Reached(from)].data)
      /\ job' = [job EXCEPT ![c] = CASE ~works -> NoOp
                                      [] works /\ todo = <<>> -> [NoOp EXCEPT !.step = "copied"]
                                      [] OTHER -> [j EXCEPT !.todo = todo]]
  BY <1>0 DEF CopyTree, Copied
<1>2. /\ JobOK(j) /\ j.op # "none" /\ j.todo \in Seq(Pairs) /\ j.todo # <<>>
  BY <1>0, <1>1 DEF FileTypes, JobOK, Underway
<1>3. Head(j.todo) \in Pairs
  BY <1>2, HeadTailProperties
<1>4. from \in Path /\ to \in Seq(FileName) /\ Head(j.todo) = <<from, to>>
  BY <1>0, <1>3 DEF Pairs
<1>5. IsDisk(disk)
  BY DEF FileTypes, FileTypeOK
<1> HIDE DEF works, todo, s, dir
<1>6. CASE ~works
  <2>1. disk' = disk
    BY <1>1, <1>6
  <2>2. job' = [job EXCEPT ![c] = NoOp]
    BY <1>1, <1>6
  <2>3. CopiesEntry(c, j, from, to)
    BY <1>1, <1>2, <1>4, <2>1, <2>2 DEF CopiesEntry
  <2> QED BY <1>0, <2>3
<1>7. CASE works
  <2>1. CopyGoesOn(c, j, todo)
    BY <1>1, <1>7 DEF CopyGoesOn
  <2>2. to \in Path /\ HasParent(to) /\ Exists(from)
    BY <1>7 DEF works
  <2>3. CASE dir
    <3>1. disk' = Put(to, Dir) /\ ~There(to)
      BY <1>1, <1>7, <2>3 DEF works
    <3>2. IsDisk(disk')
      BY <1>5, <2>2, <3>1, PutOK, NodesAre
    <3>3. Reached(from) \in Path
      BY <1>4, <1>5, CallsSay
    <3>4. s = Listing(disk', Reached(from), to)
      BY <2>3 DEF s, Listing
    <3>5. s \in Seq(Pairs) /\ Lists(s, disk', Reached(from), to)
      BY <2>2, <3>2, <3>3, <3>4, ListedIs
    <3>6. Copies(j, from, to, s)
      BY <2>2, <2>3, <3>1, <3>5 DEF Copies, dir
    <3>7. CopiesEntry(c, j, from, to)
      BY <1>1, <1>2, <1>4, <2>1, <3>6 DEF todo, CopiesEntry
    <3> QED BY <1>0, <3>7
  <2>4. CASE ~dir
    <3>1. disk' = Overwritten(to, disk[Reached(from)].data) /\ ~IsDir(from) /\ ~IsDir(to)
      BY <1>1, <1>7, <2>4 DEF works
    <3>2. s = <<>> /\ s \in Seq(Pairs)
      BY <2>4 DEF s
    <3>3. Copies(j, from, to, s)
      BY <2>2, <2>4, <3>1, <3>2 DEF Copies, dir
    <3>4. CopiesEntry(c, j, from, to)
      BY <1>1, <1>2, <1>4, <2>1, <3>3 DEF todo, CopiesEntry
    <3> QED BY <1>0, <3>4
  <2> QED BY <2>3, <2>4
<1> QED BY <1>6, <1>7

LEMMA BeginIs ==
  ASSUME NEW c \in FileClient, BeginOp(c)
  PROVE  \E j : /\ JobOK(j) /\ j.op # "none" /\ job' = [job EXCEPT ![c] = j]
                /\ disk' = disk /\ fileOps < MaxFileOps /\ fileOps' = fileOps + 1 /\ ~Underway(c)
                /\ intertwined' = (intertwined \/ \E d \in FileClient : Underway(d))
                /\ Allowed(j.op, j.src, j.dst) /\ j.step = FirstStep(j.op, j.src)
                /\ j.op = "duplicate" => ~Exists(j.dst)
                /\ j.todo = <<<<j.src, j.dst>>>> /\ (j.step = "tree" => j.was = disk)
<1>1. PICK op \in Paired \cup Single, src \in Path, dst \in Path :
        /\ ~Underway(c) /\ fileOps < MaxFileOps
        /\ op = "duplicate" => dst \in FreeSibling(src)
        /\ Allowed(op, src, dst)
        /\ job' = [job EXCEPT ![c] = [op |-> op, src |-> src, dst |-> dst,
               step |-> FirstStep(op, src), todo |-> <<<<src, dst>>>>, was |-> IF FirstStep(op, src) = "tree" THEN disk ELSE <<>>]]
        /\ fileOps' = fileOps + 1
        /\ intertwined' = (intertwined \/ \E d \in FileClient : Underway(d))
        /\ disk' = disk
  BY Zenon DEF BeginOp
<1> DEFINE step == FirstStep(op, src)  was == IF step = "tree" THEN disk ELSE <<>>  todo == <<<<src, dst>>>>
           j == [op |-> op, src |-> src, dst |-> dst, step |-> step, todo |-> todo, was |-> was]
<1>2. Takes(op, step)
  <2>1. CASE op \in Acting
    BY <2>1 DEF Takes, FirstStep, Acting
  <2>2. CASE op \notin Acting
    <3>1. op \in {"compress", "extract", "copy", "duplicate", "shred", "retarget"}
      BY <2>2 DEF Paired, Single, Acting
    <3> QED BY <3>1 DEF Takes, FirstStep
  <2> QED BY <2>1, <2>2
<1>3. todo \in Seq(Pairs) /\ todo # <<>>
  <2>1. <<src, dst>> \in Pairs
    BY PathIn DEF Pairs
  <2> QED BY <2>1
<1>4. op # "none"
  BY DEF Paired, Single
<1>5. op = "duplicate" => ~Exists(dst)
  BY <1>1 DEF FreeSibling
<1> HIDE DEF step, was, todo
<1>6. j.op = op /\ j.src = src /\ j.dst = dst /\ j.step = step /\ j.todo = todo /\ j.was = was
  OBVIOUS
<1>7. job' = [job EXCEPT ![c] = j]
  BY <1>1 DEF step, was, todo
<1> HIDE DEF j
<1>8. j = [op |-> j.op, src |-> j.src, dst |-> j.dst, step |-> j.step, todo |-> j.todo, was |-> j.was]
  BY <1>6, Zenon DEF j
<1>9. JobOK(j)
  BY <1>2, <1>3, <1>4, <1>6, <1>8 DEF JobOK
<1>10. step = "tree" => was = disk
  BY DEF was
<1>11. /\ j.op # "none" /\ Allowed(j.op, j.src, j.dst) /\ j.step = FirstStep(j.op, j.src)
       /\ j.op = "duplicate" => ~Exists(j.dst)
       /\ j.todo = <<<<j.src, j.dst>>>> /\ (j.step = "tree" => j.was = disk)
  BY <1>1, <1>4, <1>5, <1>6, <1>10 DEF step, todo
<1> QED BY <1>1, <1>7, <1>9, <1>11, Zenon

LEMMA JobPut ==
  ASSUME FileTypes, NEW c \in FileClient, NEW k, JobOK(k), job' = [job EXCEPT ![c] = k],
         IsDisk(disk'), fileOps' \in 0..MaxFileOps, intertwined' \in BOOLEAN
  PROVE  FileTypes' /\ job'[c] = k /\ \A d \in FileClient : d # c => job'[d] = job[d]
<1>1. DOMAIN job' = FileClient /\ job'[c] = k /\ \A d \in FileClient : d # c => job'[d] = job[d]
  BY DEF FileTypes
<1>2. \A d \in FileClient : JobOK(job'[d])
  BY <1>1 DEF FileTypes
<1> QED BY <1>1, <1>2 DEF FileTypes, FileTypeOK

LEMMA FileTypesInit == FileInit => FileTypes
<1> SUFFICES ASSUME FileInit PROVE FileTypes
  OBVIOUS
<1>1. DOMAIN job = FileClient /\ \A c \in FileClient : job[c] = NoOp
  BY DEF FileInit
<1>2. IsDisk(disk)
  BY FileOpsAssumption DEF FileInit
<1>3. fileOps \in 0..MaxFileOps /\ intertwined \in BOOLEAN
  <2>1. MaxFileOps \in Nat
    BY FileOpsAssumption
  <2>2. 0 \in 0..MaxFileOps
    BY <2>1
  <2> QED BY <2>2 DEF FileInit
<1> QED BY <1>1, <1>2, <1>3, NoOpOK DEF FileTypes, FileTypeOK

(* What each step does to the disk, to the client's operation, and that it *)
(* changes nothing else.                                                   *)
Ends(c) == job' = [job EXCEPT ![c] = NoOp]
Steps(c, step) == job' = [job EXCEPT ![c] = [job[c] EXCEPT !.step = step]]

LEMMA StepsAre ==
  ASSUME FileTypes, NEW c \in FileClient,
         Act(c) \/ Compress(c) \/ Extract(c) \/ Overwrite(c) \/ Unlink(c) \/ Link(c) \/ CopyFile(c),
         NEW j, j = job[c]
  PROVE  /\ JobOK(j) /\ j.op # "none" /\ fileOps' = fileOps /\ intertwined' = intertwined
         /\ IsDisk(disk')
         /\ \/ j.step = "act" /\ j.op \in Acting /\ disk' = Acted(j.op, j.src, j.dst) /\ Ends(c)
            \/ /\ j.step = "compress" /\ j.op = "compress" /\ Ends(c)
               /\ \E x \in Texts : disk' = Overwritten(j.dst, x)
            \/ /\ j.step = "extract" /\ j.op = "extract" /\ Ends(c)
               /\ ~Exists(j.dst) => Spares(disk', {})
            \/ /\ j.step = "overwrite" /\ j.op = "shred"
               /\ \/ disk' = disk /\ Ends(c)
                  \/ Spares(disk', {Reached(j.src)}) /\ Steps(c, "unlink")
            \/ /\ j.step = "unlink" /\ j.op \in {"shred", "retarget"} /\ disk' = Unlinked(j.src)
               /\ Ends(c) \/ (j.op = "retarget" /\ Steps(c, "link"))
            \/ j.step = "link" /\ j.op = "retarget" /\ Spares(disk', {}) /\ Ends(c)
            \/ /\ j.step = "copyfile" /\ j.op \in {"copy", "duplicate"} /\ Ends(c)
               /\ disk' = disk \/ \E x \in Texts : disk' = Overwritten(j.dst, x)
<1>1. IsDisk(disk) /\ JobOK(j)
  BY DEF FileTypes, FileTypeOK
<1>2. ASSUME j.op # "none"
      PROVE  j.src \in Path /\ j.dst \in Path /\ Takes(j.op, j.step)
  BY <1>1, <1>2 DEF JobOK
<1>3. CASE Act(c)
  <2>1. j.op # "none" /\ j.step = "act" /\ disk' = Acted(j.op, j.src, j.dst) /\ Ends(c) /\ fileOps' = fileOps /\ intertwined' = intertwined
    BY <1>3 DEF Act, Underway, Done, Ends
  <2>2. j.op \in Acting
    BY <1>2, <2>1 DEF Takes
  <2> QED BY <1>1, <1>2, <2>1, <2>2, ActedOK
<1>4. CASE Compress(c)
  <2>1. /\ j.op # "none" /\ j.step = "compress" /\ Ends(c) /\ fileOps' = fileOps /\ intertwined' = intertwined
        /\ \E x \in Texts : disk' = Overwritten(j.dst, x)
    BY <1>4 DEF Compress, Underway, Done, Ends, Texts
  <2>2. j.op = "compress"
    BY <1>2, <2>1 DEF Takes, Acting
  <2> QED BY <1>1, <1>2, <2>1, <2>2, OverwrittenOK
<1>5. CASE Extract(c)
  <2>1. PICK read \in SUBSET FileName :
        /\ j.op # "none" /\ j.step = "extract" /\ Ends(c) /\ fileOps' = fileOps /\ intertwined' = intertwined
        /\ disk' = Unpacked(j.dst, read)
    BY <1>5 DEF Extract, Underway, Done, Ends
  <2>2. j.op = "extract"
    BY <1>2, <2>1 DEF Takes, Acting
  <2> QED BY <1>1, <1>2, <2>1, <2>2, UnpackedOK
<1>6. CASE Overwrite(c)
  <2>1. /\ j.op # "none" /\ j.step = "overwrite" /\ fileOps' = fileOps /\ intertwined' = intertwined
        /\ \/ Exists(j.src) /\ ~IsDir(j.src) /\ disk' = Put(Reached(j.src), File("zeros")) /\ Steps(c, "unlink")
           \/ disk' = disk /\ Ends(c)
    BY <1>6 DEF Overwrite, Underway, Done, ToStep, Ends, Steps
  <2>2. j.op = "shred"
    BY <1>2, <2>1 DEF Takes, Acting
  <2>3. ASSUME Exists(j.src), ~IsDir(j.src), disk' = Put(Reached(j.src), File("zeros"))
        PROVE  IsDisk(disk') /\ Spares(disk', {Reached(j.src)})
    <3> DEFINE r == Reached(j.src)
    <3>1. r \in Path /\ r \in DOMAIN disk /\ disk[r].kind = "file"
      BY <1>1, <1>2, <2>1, <2>3, CallsSay DEF IsDir, Exists, There
    <3>2. File("zeros") \in Node
      BY NodesAre DEF Texts
    <3>3. HasParent(r)
      BY <1>1, <3>1, ParentIs
    <3>4. disk' = Put(r, File("zeros"))
      BY <2>3
    <3> HIDE DEF r
    <3>5. /\ IsDisk(disk') /\ DOMAIN disk' = DOMAIN disk \cup {r}
          /\ \A q \in DOMAIN disk : q # r => disk'[q] = disk[q]
      BY <1>1, <3>1, <3>2, <3>3, <3>4, PutOK, KindsAre
    <3> QED BY <3>5 DEF Spares, r
  <2> QED BY <1>1, <2>1, <2>2, <2>3
<1>7. CASE Unlink(c)
  <2>1. /\ j.op # "none" /\ j.step = "unlink" /\ fileOps' = fileOps /\ intertwined' = intertwined
        /\ disk' = Unlinked(j.src)
        /\ Ends(c) \/ (j.op = "retarget" /\ Steps(c, "link"))
    BY <1>7 DEF Unlink, Underway, Done, ToStep, Ends, Steps
  <2>2. j.op \in {"shred", "retarget"}
    BY <1>2, <2>1 DEF Takes, Acting
  <2> QED BY <1>1, <1>2, <2>1, <2>2, UnlinkedOK
<1>8. CASE Link(c)
  <2>1. PICK target \in Path :
        /\ j.op # "none" /\ j.step = "link" /\ fileOps' = fileOps /\ intertwined' = intertwined /\ Ends(c)
        /\ disk' = IF There(j.src) \/ ~HasParent(j.src) THEN disk ELSE Put(j.src, LinkTo(target))
    BY <1>8 DEF Link, Underway, Done, Ends
  <2>2. j.op = "retarget"
    BY <1>2, <2>1 DEF Takes, Acting
  <2>3. IsDisk(disk') /\ Spares(disk', {})
    <3>1. CASE There(j.src) \/ ~HasParent(j.src)
      BY <1>1, <2>1, <3>1 DEF Spares
    <3>2. CASE ~There(j.src) /\ HasParent(j.src)
      <4>1. disk' = Put(j.src, LinkTo(target)) /\ LinkTo(target) \in Node /\ j.src \in Path
        BY <1>2, <2>1, <3>2, NodesAre
      <4>2. /\ IsDisk(disk') /\ DOMAIN disk' = DOMAIN disk \cup {j.src}
            /\ \A q \in DOMAIN disk : q # j.src => disk'[q] = disk[q]
        BY <1>1, <3>2, <4>1, PutOK
      <4> QED BY <3>2, <4>2 DEF Spares, There
    <3> QED BY <3>1, <3>2
  <2> QED BY <1>1, <2>1, <2>2, <2>3
<1>9. CASE CopyFile(c)
  <2>1. /\ j.op # "none" /\ j.step = "copyfile" /\ fileOps' = fileOps /\ intertwined' = intertwined /\ Ends(c)
        /\ \/ disk' = disk
           \/ Exists(j.src) /\ ~IsDir(j.src) /\ disk' = Overwritten(j.dst, disk[Reached(j.src)].data)
    BY <1>9 DEF CopyFile, Underway, Done, Ends
  <2>2. j.op \in {"copy", "duplicate"}
    BY <1>2, <2>1 DEF Takes, Acting
  <2>3. ASSUME Exists(j.src), ~IsDir(j.src) PROVE disk[Reached(j.src)].data \in Texts
    <3>1. disk[Reached(j.src)] \in Node /\ disk[Reached(j.src)].kind = "file"
      BY <1>1, <1>2, <2>1, <2>3, CallsSay DEF IsDir, Exists
    <3> QED BY <3>1, NodeKinds
  <2> QED BY <1>1, <1>2, <2>1, <2>2, <2>3, OverwrittenOK
<1> QED BY <1>3, <1>4, <1>5, <1>6, <1>7, <1>8, <1>9

-----------------------------------------------------------------------------
(***************************************************************************)
(* Type correctness: the disk stays one, parents of every node included.   *)
(***************************************************************************)
(* A tree copy's step keeps the disk one, and what is left to copy.        *)
LEMMA CopyTypes ==
  ASSUME FileTypes, NEW c \in FileClient, CopyTree(c)
  PROVE  /\ IsDisk(disk')
         /\ \E k : JobOK(k) /\ job' = [job EXCEPT ![c] = k]
<1>0. PICK from, to : CopiesEntry(c, job[c], from, to)
  BY CopyStepIs
<1>j. PICK j : j = job[c]
  OBVIOUS
<1>1. /\ j.op # "none" /\ j.step = "tree" /\ JobOK(j)
      /\ j.todo \in Seq(Pairs) /\ j.todo # <<>> /\ Head(j.todo) = <<from, to>>
      /\ from \in Path
      /\ \/ disk' = disk /\ job' = [job EXCEPT ![c] = NoOp]
         \/ \E s : Copies(j, from, to, s) /\ CopyGoesOn(c, j, s \o Tail(j.todo))
  BY <1>0, <1>j DEF CopiesEntry
<1>2. IsDisk(disk)
  BY DEF FileTypes, FileTypeOK
<1>3. CASE disk' = disk /\ job' = [job EXCEPT ![c] = NoOp]
  BY <1>2, <1>3, NoOpOK
<1>4. ASSUME NEW s, Copies(j, from, to, s), CopyGoesOn(c, j, s \o Tail(j.todo))
      PROVE  IsDisk(disk') /\ \E k : JobOK(k) /\ job' = [job EXCEPT ![c] = k]
  <2>1. /\ s \in Seq(Pairs) /\ to \in Path /\ HasParent(to) /\ Exists(from)
        /\ \/ disk' = Put(to, Dir) /\ ~There(to)
           \/ ~IsDir(from) /\ disk' = Overwritten(to, disk[Reached(from)].data)
    BY <1>4 DEF Copies
  <2>2. ASSUME disk' = Put(to, Dir), ~There(to) PROVE IsDisk(disk')
    BY <1>2, <2>1, <2>2, PutOK, NodesAre
  <2>3. ASSUME ~IsDir(from), disk' = Overwritten(to, disk[Reached(from)].data) PROVE IsDisk(disk')
    <3>1. disk[Reached(from)] \in Node /\ disk[Reached(from)].kind = "file"
      BY <1>1, <1>2, <2>1, <2>3, CallsSay DEF IsDir, Exists
    <3>2. disk[Reached(from)].data \in Texts
      BY <3>1, NodeKinds
    <3> QED BY <1>2, <2>1, <2>3, <3>2, OverwrittenOK
  <2>4. IsDisk(disk')
    BY <2>1, <2>2, <2>3
  <2> DEFINE todo == s \o Tail(j.todo)
  <2>5. todo \in Seq(Pairs)
    BY <1>1, <2>1, HeadTailProperties, ConcatProperties
  <2>6. CopyGoesOn(c, j, todo)
    BY <1>4
  <2> HIDE DEF todo
  <2>7. CASE todo = <<>>
    <3>1. job' = [job EXCEPT ![c] = [NoOp EXCEPT !.step = "copied"]]
      BY <2>6, <2>7 DEF CopyGoesOn
    <3> QED BY <2>4, <3>1, CopiedOK, Zenon
  <2>8. CASE todo # <<>>
    <3>1. job' = [job EXCEPT ![c] = [j EXCEPT !.todo = todo]]
      BY <2>6, <2>8 DEF CopyGoesOn
    <3>2. JobOK([j EXCEPT !.todo = todo])
      BY <1>1, <2>5, <2>8, TodoTo
    <3> QED BY <2>4, <3>1, <3>2, Zenon
  <2> QED BY <2>7, <2>8
<1> QED BY <1>1, <1>3, <1>4

LEMMA StepsTyped ==
  ASSUME FileTypes, NEW c \in FileClient,
         Act(c) \/ Compress(c) \/ Extract(c) \/ Overwrite(c) \/ Unlink(c) \/ Link(c) \/ CopyFile(c)
  PROVE  \E k : JobOK(k) /\ job' = [job EXCEPT ![c] = k]
<1> DEFINE j == job[c]
<1>1. /\ JobOK(j) /\ j.op # "none"
      /\ \/ Ends(c)
         \/ j.op = "shred" /\ Steps(c, "unlink")
         \/ j.op = "retarget" /\ Steps(c, "link")
  BY StepsAre
<1>2. CASE Ends(c)
  BY <1>2, NoOpOK, Zenon DEF Ends
<1>3. ASSUME NEW step, Takes(j.op, step), step # "tree", Steps(c, step)
      PROVE  \E k : JobOK(k) /\ job' = [job EXCEPT ![c] = k]
  <2> DEFINE k == [j EXCEPT !.step = step]
  <2>1. job' = [job EXCEPT ![c] = k]
    BY <1>3 DEF Steps
  <2>2. JobOK(k)
    BY <1>1, <1>3, StepTo
  <2> HIDE DEF k
  <2> QED BY <2>1, <2>2
<1>4. (j.op = "shred" => Takes(j.op, "unlink")) /\ (j.op = "retarget" => Takes(j.op, "link"))
  BY DEF Takes
<1> HIDE DEF j
<1> QED BY <1>1, <1>2, <1>3, <1>4

LEMMA FileTypesStep == FileTypes /\ [FileNext]_fileVars => FileTypes'
<1> SUFFICES ASSUME FileTypes, [FileNext]_fileVars PROVE FileTypes'
  OBVIOUS
<1>0. fileOps \in 0..MaxFileOps /\ intertwined \in BOOLEAN /\ MaxFileOps \in Nat /\ IsDisk(disk)
  <2>1. MaxFileOps \in Nat
    BY FileOpsAssumption
  <2> QED BY <2>1 DEF FileTypes, FileTypeOK
<1>1. ASSUME NEW c \in FileClient, BeginOp(c) PROVE FileTypes'
  <2>1. PICK j : /\ JobOK(j) /\ job' = [job EXCEPT ![c] = j]
                 /\ disk' = disk /\ fileOps < MaxFileOps /\ fileOps' = fileOps + 1
                 /\ intertwined' = (intertwined \/ \E d \in FileClient : Underway(d))
    BY <1>1, BeginIs
  <2>2. fileOps' \in 0..MaxFileOps
    BY <1>0, <2>1
  <2>3. intertwined' \in BOOLEAN
    BY <2>1, Zenon
  <2>4. IsDisk(disk')
    BY <1>0, <2>1
  <2> QED BY <2>1, <2>2, <2>3, <2>4, JobPut
<1>2. ASSUME NEW c \in FileClient,
             Act(c) \/ Compress(c) \/ Extract(c) \/ Overwrite(c) \/ Unlink(c) \/ Link(c) \/ CopyFile(c)
      PROVE  FileTypes'
  <2>1. IsDisk(disk') /\ fileOps' = fileOps /\ intertwined' = intertwined
    BY <1>2, StepsAre
  <2>2. PICK k : JobOK(k) /\ job' = [job EXCEPT ![c] = k]
    BY <1>2, StepsTyped
  <2> QED BY <1>0, <2>1, <2>2, JobPut
<1>3. ASSUME NEW c \in FileClient, CopyTree(c) PROVE FileTypes'
  <2>1. fileOps' = fileOps /\ intertwined' = intertwined
    BY <1>3, Zenon DEF CopyTree
  <2>2. IsDisk(disk') /\ \E k : JobOK(k) /\ job' = [job EXCEPT ![c] = k]
    BY <1>3, CopyTypes
  <2> QED BY <1>0, <2>1, <2>2, JobPut
<1>4. CASE UNCHANGED fileVars
  BY <1>4 DEF fileVars, FileTypes, FileTypeOK, IsDisk
<1>5. CASE FileNext
  <2>1. PICK c \in FileClient : \/ BeginOp(c) \/ Act(c) \/ Compress(c) \/ Extract(c)
                                \/ Overwrite(c) \/ Unlink(c) \/ Link(c) \/ CopyFile(c) \/ CopyTree(c)
    BY <1>5, Zenon DEF FileNext
  <2> QED BY <1>1, <1>2, <1>3, <2>1
<1> QED BY <1>4, <1>5

(* The disk stays one: what it holds lies in directories down from the     *)
(* top, a link leads to a path, whatever the file commands do and however  *)
(* they overlap (fsx.rs, fsops.rs).                                        *)
THEOREM FileTyped == FileSpec => []FileTypeOK
<1>1. FileTypes => FileTypeOK
  BY DEF FileTypes
<1> QED BY <1>1, FileTypesInit, FileTypesStep, PTL DEF FileSpec

-----------------------------------------------------------------------------
(***************************************************************************)
(* An operation stays in its footprint.  What it would write was looked at *)
(* before the first write, and stays what it was while operations do not   *)
(* overlap; what a tree copy has left is below what was looked at.         *)
(***************************************************************************)
(* What is left of a list when its first entry gave way to s.              *)
Follows(z, s, todo) ==
  /\ Len(todo) >= 1 /\ Head(todo) = todo[1]
  /\ \A i \in 1..Len(s) : i \in 1..Len(z) /\ z[i] = s[i]
  /\ \A k \in 2..Len(todo) : \E i \in 1..Len(z) : z[i] = todo[k]
  /\ \A i \in 1..Len(z) :
       \/ i \in 1..Len(s) /\ z[i] = s[i]
       \/ i # 1 /\ i - Len(s) + 1 \in 2..Len(todo) /\ z[i] = todo[i - Len(s) + 1]
       \/ i = 1 /\ s = <<>> /\ 2 \in 2..Len(todo) /\ z[i] = todo[2]

LEMMA QueueIs ==
  ASSUME NEW S, NEW s \in Seq(S), NEW todo \in Seq(S), todo # <<>>, NEW z, z = s \o Tail(todo)
  PROVE  z \in Seq(S) /\ Follows(z, s, todo)
<1> DEFINE t == Tail(todo)
<1>1. /\ Len(s) \in Nat /\ Len(todo) \in Nat /\ Len(todo) # 0 /\ t \in Seq(S) /\ Len(t) = Len(todo) - 1
      /\ \A i \in 1..Len(t) : t[i] = todo[i + 1]
      /\ Head(todo) = todo[1]
  BY LenProperties, EmptySeq, HeadTailProperties
<1> HIDE DEF t
<1>2. /\ z \in Seq(S) /\ Len(z) = Len(s) + Len(t)
      /\ \A i \in 1..Len(s) + Len(t) : z[i] = IF i <= Len(s) THEN s[i] ELSE t[i - Len(s)]
  BY <1>1, ConcatProperties DEF t
<1>3. PICK m \in Nat, n \in Nat : m = Len(s) /\ n = Len(t) /\ Len(todo) = n + 1 /\ Len(z) = m + n
  <2>1. Len(s) \in Nat /\ Len(t) \in Nat /\ Len(todo) = Len(t) + 1
    BY <1>1
  <2> QED BY <1>2, <2>1
<1>4. \A i \in 1..Len(s) : i \in 1..Len(z) /\ z[i] = s[i]
  BY <1>2, <1>3
<1>5. ASSUME NEW k \in 2..Len(todo) PROVE \E i \in 1..Len(z) : z[i] = todo[k]
  <2>0. k \in 2..(n + 1)
    BY <1>3
  <2>1. PICK i \in 1..(m + n), l \in 1..n : ~(i <= m) /\ i - m = l /\ l + 1 = k
    <3>1. m + (k - 1) \in 1..(m + n) /\ ~(m + (k - 1) <= m) /\ m + (k - 1) - m = k - 1 /\ k - 1 \in 1..n /\ (k - 1) + 1 = k
      BY <2>0
    <3> QED BY <3>1
  <2>2. z[i] = t[l]
    BY <1>2, <1>3, <2>1
  <2>3. t[l] = todo[k]
    BY <1>1, <1>3, <2>1
  <2> QED BY <1>3, <2>1, <2>2, <2>3
<1>6. ASSUME NEW i \in 1..Len(z), i > m
      PROVE  i - Len(s) + 1 \in 2..Len(todo) /\ z[i] = todo[i - Len(s) + 1] /\ (i = 1 => m = 0)
  <2>1. i \in 1..(m + n) /\ ~(i <= m) /\ i - m \in 1..n /\ i - m + 1 \in 2..(n + 1) /\ (i - m) + 1 = i - m + 1
    BY <1>3, <1>6
  <2>2. z[i] = t[i - m]
    BY <1>2, <1>3, <2>1
  <2>3. t[i - m] = todo[(i - m) + 1]
    BY <1>1, <1>3, <2>1
  <2> QED BY <1>3, <1>6, <2>1, <2>2, <2>3, SMTT(30)
<1>7. m = 0 => s = <<>>
  BY <1>3, EmptySeq
<1>8. ASSUME NEW i \in 1..Len(z)
      PROVE  \/ i \in 1..Len(s) /\ z[i] = s[i]
             \/ i # 1 /\ i - Len(s) + 1 \in 2..Len(todo) /\ z[i] = todo[i - Len(s) + 1]
             \/ i = 1 /\ s = <<>> /\ 2 \in 2..Len(todo) /\ z[i] = todo[2]
  <2>1. CASE i <= m
    <3>1. i \in 1..Len(s)
      BY <1>3, <2>1
    <3> QED BY <1>4, <3>1
  <2>2. CASE i > m
    <3>1. i = 1 => i - Len(s) + 1 = 2
      BY <1>3, <1>6, <2>2
    <3> QED BY <1>6, <1>7, <2>2, <3>1
  <2> QED BY <1>3, <2>1, <2>2
<1>9. Len(todo) >= 1
  BY <1>3
<1> QED BY <1>1, <1>2, <1>4, <1>5, <1>8, <1>9 DEF Follows

(* What is left to copy goes where nothing is yet, each entry elsewhere,   *)
(* and all but the first into a directory that is there.                   *)
Ahead(todo) ==
  /\ \A i \in 1..Len(todo) : /\ todo[i][2] \notin DOMAIN disk
                             /\ i # 1 => Front(todo[i][2]) \in DOMAIN disk
  /\ \A i, k \in 1..Len(todo) : todo[i][2] = todo[k][2] => i = k

(* What an operation under way by itself may rely on.                      *)
Looked(j) ==
  /\ j.step \in {"compress", "extract", "copyfile"} => ~Exists(j.dst)
  /\ j.step = "overwrite" => ~IsLink(j.src)
  /\ j.step = "tree" => \/ j.todo = <<<<j.src, j.dst>>>> /\ IsDir(j.src)
                        \/ Ahead(j.todo)

LookInv ==
  /\ FileTypes
  /\ ~intertwined => \A c \in FileClient : Underway(c) =>
       Looked(job[c]) /\ \A d \in FileClient : Underway(d) => d = c

LEMMA OverwrittenAdds ==
  ASSUME IsDisk(disk), NEW p \in Path, NEW x \in Texts, ~There(p)
  PROVE  /\ Reached(p) = p
         /\ DOMAIN Overwritten(p, x) \subseteq DOMAIN disk \cup {p}
         /\ HasParent(p) => Overwritten(p, x) = Put(p, File(x))
<1>1. Reached(p) = p /\ ~IsLink(p) /\ ~Exists(p) /\ ~IsDir(p)
  BY DEF Reached, IsLink, Exists, IsDir
<1>2. Overwritten(p, x) = IF HasParent(p) THEN Put(p, File(x)) ELSE disk
  BY <1>1 DEF Overwritten
<1>3. DOMAIN Put(p, File(x)) = DOMAIN disk \cup {p}
  BY DEF Put
<1> QED BY <1>1, <1>2, <1>3

(* A copied entry goes where nothing was, and so do its own entries.       *)
LEMMA CopyAhead ==
  ASSUME IsDisk(disk), IsDisk(disk'), NEW j, j.todo \in Seq(Pairs), j.todo # <<>>,
         NEW from \in Path, NEW to, Head(j.todo) = <<from, to>>,
         \/ j.todo = <<<<j.src, j.dst>>>> /\ IsDir(j.src)
         \/ Ahead(j.todo),
         NEW s, Copies(j, from, to, s)
  PROVE  /\ ~There(to) /\ Ahead(j.todo) /\ Spares(disk', {}) /\ to \in DOMAIN disk'
         /\ DOMAIN disk' = DOMAIN disk \cup {to}
         /\ Ahead(s \o Tail(j.todo))'
<1>1. /\ s \in Seq(Pairs) /\ to \in Path /\ HasParent(to) /\ Exists(from)
      /\ \/ IsDir(from) /\ ~There(to) /\ disk' = Put(to, Dir) /\ Lists(s, disk', Reached(from), to)
         \/ ~IsDir(from) /\ disk' = Overwritten(to, disk[Reached(from)].data) /\ s = <<>>
  BY DEF Copies
<1> DEFINE todo == j.todo  z == s \o Tail(todo)
<1>2. todo \in Seq(Pairs) /\ todo # <<>> /\ Len(todo) \in Nat /\ Len(todo) >= 1 /\ todo[1] = <<from, to>>
  <2>1. Len(todo) \in Nat /\ Len(todo) # 0
    BY LenProperties, EmptySeq
  <2>2. todo[1] = <<from, to>>
    BY HeadTailProperties
  <2> QED BY <2>1, <2>2
<1>3. ~There(to) /\ Ahead(todo)
  <2>1. CASE todo = <<<<j.src, j.dst>>>> /\ IsDir(j.src)
    <3>1. from = j.src /\ to = j.dst /\ Len(todo) = 1 /\ todo[1][2] = to
      BY <1>2, <2>1
    <3>2. ~There(to)
      BY <1>1, <2>1, <3>1
    <3> HIDE DEF todo
    <3>3. \A i \in 1..Len(todo) : i = 1
      BY <3>1
    <3>4. Ahead(todo)
      BY <3>1, <3>2, <3>3 DEF Ahead, There
    <3> QED BY <3>2, <3>4
  <2>2. CASE Ahead(todo)
    <3>1. 1 \in 1..Len(todo) /\ todo[1][2] = to
      BY <1>2
    <3> QED BY <2>2, <3>1 DEF Ahead, There
  <2> QED BY <2>1, <2>2
<1>4. Spares(disk', {}) /\ DOMAIN disk' = DOMAIN disk \cup {to}
  <2>1. CASE disk' = Put(to, Dir)
    <3>1. Dir \in Node
      BY NodesAre
    <3>2. DOMAIN Put(to, Dir) = DOMAIN disk \cup {to} /\ \A q \in DOMAIN disk : q # to => Put(to, Dir)[q] = disk[q]
      BY <1>1, <1>3, <3>1, PutOK
    <3> QED BY <1>3, <2>1, <3>2 DEF Spares, There
  <2>2. CASE ~IsDir(from) /\ disk' = Overwritten(to, disk[Reached(from)].data)
    <3>1. disk[Reached(from)] \in Node /\ disk[Reached(from)].kind = "file"
      BY <1>1, <2>2, CallsSay DEF IsDir, Exists
    <3>2. PICK x \in Texts : x = disk[Reached(from)].data
      BY <3>1, NodeKinds
    <3>3. disk' = Put(to, File(x)) /\ File(x) \in Node
      BY <1>1, <1>3, <2>2, <3>2, OverwrittenAdds, NodesAre
    <3>4. DOMAIN Put(to, File(x)) = DOMAIN disk \cup {to} /\ \A q \in DOMAIN disk : q # to => Put(to, File(x))[q] = disk[q]
      BY <1>1, <1>3, <3>3, PutOK
    <3> QED BY <1>3, <3>3, <3>4 DEF Spares, There
  <2> QED BY <1>1, <2>1, <2>2
<1> HIDE DEF todo, z
<1>5. /\ z \in Seq(Pairs)
      /\ \A i \in 1..Len(z) :
              \/ i \in 1..Len(s) /\ z[i] = s[i]
              \/ i # 1 /\ i - Len(s) + 1 \in 2..Len(todo) /\ z[i] = todo[i - Len(s) + 1]
              \/ i = 1 /\ s = <<>> /\ 2 \in 2..Len(todo) /\ z[i] = todo[2]
  <2>1. z \in Seq(Pairs) /\ Follows(z, s, todo)
    BY <1>1, <1>2, QueueIs DEF z
  <2> QED BY <2>1 DEF Follows
<1>6. Len(s) \in Nat /\ Len(z) \in Nat
  BY <1>1, <1>5, LenProperties
<1>7. to \in Seq(FileName) /\ Len(to) \in Nat
  BY <1>1, PathIn
<1>8. ASSUME NEW i \in 1..Len(s)
      PROVE  /\ s[i][2] \notin DOMAIN disk' /\ Front(s[i][2]) = to
             /\ \A k \in 1..Len(s) : s[i][2] = s[k][2] => i = k
  <2>1. Lists(s, disk', Reached(from), to)
    BY <1>1, <1>8, EmptySeq
  <2>2. Reached(from) \in Path
    BY CallsSay
  <2>3. ASSUME NEW k \in 1..Len(s)
        PROVE  \E p \in Path : /\ s[k] = <<p, Append(to, Last(p))>> /\ p \in Seq(FileName) /\ Len(p) >= 1
                               /\ Front(p) = Reached(from) /\ Last(p) \in FileName
    <3>1. PICK p \in Entries(disk', Reached(from)) : s[k] = <<p, Append(to, Last(p))>>
      BY <2>1 DEF Lists
    <3>2. p \in Path /\ p \in Seq(FileName) /\ Front(p) = Reached(from) /\ Last(p) \in FileName
      BY <2>2, EntriesAre
    <3>3. Len(p) >= 1
      BY <3>2, PathIn
    <3> QED BY <3>1, <3>2, <3>3
  <2>4. PICK p \in Path : /\ s[i] = <<p, Append(to, Last(p))>> /\ p \in Seq(FileName) /\ Len(p) >= 1
                          /\ Front(p) = Reached(from) /\ Last(p) \in FileName
    BY <2>3
  <2> DEFINE a == Append(to, Last(p))
  <2>5. a \in Seq(FileName) /\ Len(a) = Len(to) + 1 /\ Front(a) = to /\ Last(a) = Last(p) /\ Within(a, to)
    BY <1>7, <2>4, AppendIs
  <2>6. s[i][2] = a
    BY <2>4
  <2> HIDE DEF a
  <2>7. a # to
    BY <1>7, <2>5
  <2>8. a \notin DOMAIN disk
    BY <1>1, <1>3, <2>5, <2>7 DEF IsDisk, There
  <2>9. ASSUME NEW k \in 1..Len(s), s[k][2] = a PROVE i = k
    <3>1. PICK q \in Path : /\ s[k] = <<q, Append(to, Last(q))>> /\ q \in Seq(FileName) /\ Len(q) >= 1
                            /\ Front(q) = Reached(from) /\ Last(q) \in FileName
      BY <2>3
    <3>2. Append(to, Last(q)) = a
      BY <2>9, <3>1
    <3>3. Last(q) = Last(a)
      BY <1>7, <3>1, <3>2, AppendIs
    <3>4. p = q
      BY <2>4, <2>5, <3>1, <3>3, FrontLast
    <3>5. s[i] = s[k]
      BY <2>4, <3>1, <3>4
    <3> QED BY <2>1, <3>5 DEF Lists
  <2> QED BY <1>4, <2>5, <2>6, <2>7, <2>8, <2>9
<1>9. ASSUME NEW k \in 2..Len(todo)
      PROVE  /\ k \in 1..Len(todo) /\ todo[k][2] \notin DOMAIN disk' /\ Front(todo[k][2]) \in DOMAIN disk /\ Front(todo[k][2]) # to
             /\ \A l \in 2..Len(todo) : todo[k][2] = todo[l][2] => k = l
  <2>1. k \in 1..Len(todo) /\ 1 \in 1..Len(todo) /\ k # 1 /\ todo[1][2] = to
    BY <1>2
  <2>2. todo[k][2] \notin DOMAIN disk /\ Front(todo[k][2]) \in DOMAIN disk /\ todo[k][2] # to
    BY <1>3, <2>1 DEF Ahead
  <2>3. \A l \in 2..Len(todo) : l \in 1..Len(todo)
    BY <1>2
  <2> QED BY <1>3, <1>4, <2>1, <2>2, <2>3 DEF Ahead, There
<1>10. ASSUME NEW i \in 1..Len(z)
       PROVE  z[i][2] \notin DOMAIN disk' /\ (i # 1 => Front(z[i][2]) \in DOMAIN disk')
  BY <1>4, <1>5, <1>8, <1>9
<1>11. ASSUME NEW i \in 1..Len(z), NEW k \in 1..Len(z), z[i][2] = z[k][2] PROVE i = k
  <2> DEFINE fresh(n) == n \in 1..Len(s) /\ z[n] = s[n]
             late(n) == n - Len(s) + 1 \in 2..Len(todo) /\ z[n] = todo[n - Len(s) + 1]
  <2>0. s = <<>> => Len(s) = 0
    BY EmptySeq
  <2>1. \A n \in 1..Len(z) : fresh(n) \/ late(n)
    <3>1. ASSUME NEW n \in 1..Len(z), n = 1, s = <<>>, 2 \in 2..Len(todo), z[n] = todo[2] PROVE late(n)
      <4>1. n - Len(s) + 1 = 2
        BY <2>0, <3>1
      <4> QED BY <3>1, <4>1
    <3> QED BY <1>5, <3>1
  <2>2. CASE fresh(i) /\ fresh(k)
    BY <1>8, <1>11, <2>2
  <2>3. CASE fresh(i) /\ late(k)
    BY <1>8, <1>9, <1>11, <2>3
  <2>4. CASE late(i) /\ fresh(k)
    BY <1>8, <1>9, <1>11, <2>4
  <2>5. CASE late(i) /\ late(k)
    <3>1. i - Len(s) + 1 = k - Len(s) + 1
      BY <1>9, <1>11, <2>5
    <3> QED BY <1>6, <3>1
  <2> QED BY <2>1, <2>2, <2>3, <2>4, <2>5
<1>12. Ahead(z)'
  BY <1>10, <1>11 DEF Ahead
<1>13. to \in DOMAIN disk'
  BY <1>4
<1> QED BY <1>3, <1>4, <1>12, <1>13 DEF todo, z

-----------------------------------------------------------------------------
(***************************************************************************)
(* One step for each way an operation goes on.                             *)
(***************************************************************************)
LEMMA LookPut ==
  ASSUME LookInv, FileTypes', NEW c \in FileClient, Underway(c), intertwined' = intertwined,
         NEW k, job' = [job EXCEPT ![c] = k], ~intertwined /\ k.op # "none" => Looked(k)'
  PROVE  LookInv'
<1>1. DOMAIN job = FileClient
  BY DEF LookInv, FileTypes
<1>2. job'[c] = k /\ \A d \in FileClient : d # c => job'[d] = job[d]
  BY <1>1
<1>3. ASSUME ~intertwined', NEW d \in FileClient, job'[d].op # "none"
      PROVE  d = c /\ Looked(job[d])'
  <2>1. ~intertwined
    BY <1>3
  <2>2. d = c
    <3>1. SUFFICES ASSUME d # c PROVE FALSE
      OBVIOUS
    <3>2. Underway(d)
      BY <1>2, <1>3, <3>1 DEF Underway
    <3> QED BY <2>1, <3>1, <3>2 DEF LookInv
  <2> QED BY <1>2, <1>3, <2>1, <2>2
<1> QED BY <1>3 DEF LookInv, Underway

LEMMA BeginLooked ==
  ASSUME LookInv, FileTypes', NEW c \in FileClient, BeginOp(c)
  PROVE  LookInv'
<1>1. PICK j : /\ JobOK(j) /\ j.op # "none" /\ job' = [job EXCEPT ![c] = j]
               /\ disk' = disk
               /\ intertwined' = (intertwined \/ \E d \in FileClient : Underway(d))
               /\ Allowed(j.op, j.src, j.dst) /\ j.step = FirstStep(j.op, j.src)
               /\ j.op = "duplicate" => ~Exists(j.dst)
               /\ j.todo = <<<<j.src, j.dst>>>>
  BY BeginIs
<1>2. job'[c] = j /\ \A d \in FileClient : d # c => job'[d] = job[d]
  BY <1>1 DEF LookInv, FileTypes
<1>3. Takes(j.op, j.step)
  BY <1>1 DEF JobOK
<1>4. j.step \in {"compress", "extract", "copyfile"} => ~Exists(j.dst)
  <2>1. j.step \in {"compress", "extract"} => j.op = j.step
    BY <1>3 DEF Takes, Acting
  <2>2. j.step = "copyfile" => j.op \in {"copy", "duplicate"}
    BY <1>3 DEF Takes, Acting
  <2>3. j.op \in {"compress", "extract", "copy"} => ~Exists(j.dst)
    BY <1>1 DEF Allowed
  <2> QED BY <1>1, <2>1, <2>2, <2>3
<1>5. j.step = "overwrite" => ~IsLink(j.src)
  <2>1. j.step = "overwrite" => j.op = "shred"
    BY <1>3 DEF Takes, Acting
  <2>2. j.op = "shred" => j.step = IF IsLink(j.src) THEN "unlink" ELSE "overwrite"
    BY <1>1 DEF FirstStep, SeenAsLink
  <2> QED BY <2>1, <2>2
<1>6. j.step = "tree" => IsDir(j.src)
  <2>1. j.step = "tree" => j.op \in {"copy", "duplicate"}
    BY <1>3 DEF Takes, Acting
  <2>2. j.op \in {"copy", "duplicate"} => j.step = IF IsDir(j.src) THEN "tree" ELSE "copyfile"
    BY <1>1 DEF FirstStep
  <2> QED BY <2>1, <2>2
<1>7. Looked(j)
  BY <1>1, <1>4, <1>5, <1>6 DEF Looked
<1>8. Looked(j)'
  BY <1>1, <1>7 DEF Looked, Exists, IsLink, IsDir, Ahead, There, Reached
<1>9. ASSUME ~intertwined', NEW d \in FileClient, job'[d].op # "none"
      PROVE  d = c /\ Looked(job[d])'
  <2>1. d = c
    BY <1>1, <1>2, <1>9 DEF Underway
  <2> QED BY <1>2, <1>8, <2>1
<1> QED BY <1>9 DEF LookInv, Underway

LEMMA CopyLooked ==
  ASSUME LookInv, FileTypes', NEW c \in FileClient, CopyTree(c)
  PROVE  LookInv' /\ (~intertwined => Spares(disk', {}))
<1>0. PICK from, to : CopiesEntry(c, job[c], from, to)
  BY CopyStepIs DEF LookInv
<1>j. PICK j : j = job[c]
  OBVIOUS
<1>1. /\ j.op # "none" /\ j.step = "tree" /\ JobOK(j) /\ intertwined' = intertwined
      /\ j.todo \in Seq(Pairs) /\ j.todo # <<>> /\ Head(j.todo) = <<from, to>>
      /\ from \in Path
      /\ \/ disk' = disk /\ job' = [job EXCEPT ![c] = NoOp]
         \/ \E s : Copies(j, from, to, s) /\ CopyGoesOn(c, j, s \o Tail(j.todo))
  BY <1>0, <1>j DEF CopiesEntry
<1>2. IsDisk(disk) /\ IsDisk(disk') /\ FileTypes
  BY DEF LookInv, FileTypes, FileTypeOK
<1>3. Underway(c)
  BY <1>j, <1>1 DEF Underway
<1>4. ~intertwined => Looked(j)
  BY <1>j, <1>3 DEF LookInv
<1>5. ASSUME disk' = disk, job' = [job EXCEPT ![c] = NoOp] PROVE LookInv' /\ Spares(disk', {})
  <2>1. Spares(disk', {})
    BY <1>5 DEF Spares
  <2>2. LookInv'
    BY <1>1, <1>2, <1>3, <1>5, NoOpOK, LookPut
  <2> QED BY <2>1, <2>2
<1>6. ASSUME NEW s, Copies(j, from, to, s), CopyGoesOn(c, j, s \o Tail(j.todo))
      PROVE  LookInv' /\ (~intertwined => Spares(disk', {}))
  <2>1. ASSUME ~intertwined PROVE Spares(disk', {}) /\ Ahead(s \o Tail(j.todo))'
    <3>1. \/ j.todo = <<<<j.src, j.dst>>>> /\ IsDir(j.src)
          \/ Ahead(j.todo)
      BY <1>1, <1>4, <2>1 DEF Looked
    <3> QED BY <1>1, <1>2, <1>6, <3>1, CopyAhead
  <2>2. PICK todo : todo = s \o Tail(j.todo)
    OBVIOUS
  <2>3. ~intertwined => Ahead(todo)'
    BY <2>1, <2>2
  <2>4. CopyGoesOn(c, j, todo)
    BY <1>6, <2>2
  <2>5. s \in Seq(Pairs)
    BY <1>6 DEF Copies
  <2>6. todo \in Seq(Pairs)
    BY <1>1, <2>2, <2>5, HeadTailProperties, ConcatProperties
  <2>7. CASE todo = <<>>
    <3>1. job' = [job EXCEPT ![c] = [NoOp EXCEPT !.step = "copied"]]
      BY <2>4, <2>7 DEF CopyGoesOn
    <3>2. LookInv'
      BY <1>1, <1>2, <1>3, <3>1, CopiedOK, LookPut
    <3> QED BY <2>1, <3>2
  <2>8. CASE todo # <<>>
    <3>1. PICK k : k = [j EXCEPT !.todo = todo]
      OBVIOUS
    <3>2. job' = [job EXCEPT ![c] = k]
      BY <2>4, <2>8, <3>1 DEF CopyGoesOn
    <3>3. k.step = "tree" /\ k.todo = todo
      BY <1>1, <2>6, <2>8, <3>1, TodoTo
    <3>4. ~intertwined => Looked(k)'
      BY <2>3, <3>3 DEF Looked
    <3>5. LookInv'
      BY <1>1, <1>2, <1>3, <3>2, <3>4, LookPut
    <3> QED BY <2>1, <3>5
  <2> QED BY <2>7, <2>8
<1> QED BY <1>1, <1>5, <1>6

LEMMA StepsLooked ==
  ASSUME LookInv, FileTypes', NEW c \in FileClient,
         Act(c) \/ Compress(c) \/ Extract(c) \/ Overwrite(c) \/ Unlink(c) \/ Link(c) \/ CopyFile(c)
  PROVE  LookInv' /\ (~intertwined => Spares(disk', Footprint(job[c])))
<1>j. PICK j : j = job[c]
  OBVIOUS
<1>0. FileTypes /\ IsDisk(disk)
  BY DEF LookInv, FileTypes, FileTypeOK
<1>1. /\ JobOK(j) /\ j.op # "none" /\ intertwined' = intertwined
      /\ \/ j.step = "act" /\ j.op \in Acting /\ disk' = Acted(j.op, j.src, j.dst) /\ Ends(c)
         \/ /\ j.step = "compress" /\ j.op = "compress" /\ Ends(c)
            /\ \E x \in Texts : disk' = Overwritten(j.dst, x)
         \/ /\ j.step = "extract" /\ j.op = "extract" /\ Ends(c)
            /\ ~Exists(j.dst) => Spares(disk', {})
         \/ /\ j.step = "overwrite" /\ j.op = "shred"
            /\ \/ disk' = disk /\ Ends(c)
               \/ Spares(disk', {Reached(j.src)}) /\ Steps(c, "unlink")
         \/ /\ j.step = "unlink" /\ j.op \in {"shred", "retarget"} /\ disk' = Unlinked(j.src)
            /\ Ends(c) \/ (j.op = "retarget" /\ Steps(c, "link"))
         \/ j.step = "link" /\ j.op = "retarget" /\ Spares(disk', {}) /\ Ends(c)
         \/ /\ j.step = "copyfile" /\ j.op \in {"copy", "duplicate"} /\ Ends(c)
            /\ disk' = disk \/ \E x \in Texts : disk' = Overwritten(j.dst, x)
  BY <1>0, <1>j, StepsAre
<1>2. j.src \in Path /\ j.dst \in Path
  BY <1>1 DEF JobOK
<1>3. Underway(c)
  BY <1>j, <1>1 DEF Underway
<1>4. ~intertwined => Looked(j)
  BY <1>j, <1>3 DEF LookInv
<1>5. LookInv'
  <2>1. Ends(c) \/ Steps(c, "unlink") \/ Steps(c, "link")
    BY <1>1
  <2>2. CASE Ends(c)
    BY <1>1, <1>3, <2>2, NoOpOK, LookPut DEF Ends
  <2>3. ASSUME NEW step \in {"unlink", "link"}, Takes(j.op, step), Steps(c, step) PROVE LookInv'
    <3>1. PICK k : k = [j EXCEPT !.step = step]
      OBVIOUS
    <3>2. job' = [job EXCEPT ![c] = k]
      BY <1>j, <2>3, <3>1 DEF Steps
    <3>3. k.step = step
      BY <1>1, <2>3, <3>1, StepTo
    <3>4. Looked(k)'
      BY <2>3, <3>3 DEF Looked
    <3> QED BY <1>1, <1>3, <3>2, <3>4, LookPut
  <2>4. /\ j.op = "shred" => Takes(j.op, "unlink")
        /\ j.op = "retarget" => Takes(j.op, "link")
    BY DEF Takes
  <2>5. Ends(c) \/ (j.op = "shred" /\ Steps(c, "unlink")) \/ (j.op = "retarget" /\ Steps(c, "link"))
    BY <1>1
  <2> QED BY <2>2, <2>3, <2>4, <2>5
<1>6. ASSUME ~intertwined PROVE Spares(disk', Footprint(j))
  <2>0. Looked(j) /\ Spares(disk, {})
    BY <1>4, <1>6 DEF Spares
  <2>1. \A d, X : Spares(d, {}) => Spares(d, X)
    BY DEF Spares
  <2>2. CASE j.op \in Acting /\ disk' = Acted(j.op, j.src, j.dst)
    <3>1. Footprint(j) = IF j.op \in {"delete", "trash", "rm", "rmdir", "rename"}
                         THEN {p \in Path : Within(p, j.src) \/ (j.op = "rename" /\ p = j.dst)}
                         ELSE IF j.op = "write" THEN {Reached(j.src)} ELSE {}
      BY <2>2 DEF Footprint, Acting
    <3>2. PICK X : X = IF j.op \in {"delete", "trash", "rm", "rmdir", "rename"}
                       THEN {p \in Path : Within(p, j.src) \/ (j.op = "rename" /\ p = j.dst)}
                       ELSE IF j.op = "write" THEN {Reached(j.src)} ELSE {}
      OBVIOUS
    <3>3. Spares(Acted(j.op, j.src, j.dst), X)
      BY <1>0, <1>2, <2>2, <3>2, ActedOK
    <3>4. Footprint(j) = X
      BY <3>1, <3>2
    <3> QED BY <2>2, <3>3, <3>4
  <2>3. CASE ~Exists(j.dst) /\ \E x \in Texts : disk' = Overwritten(j.dst, x)
    BY <1>0, <1>2, <2>1, <2>3, OverwrittenOK
  <2>4. CASE j.step = "overwrite" /\ j.op = "shred" /\ Spares(disk', {Reached(j.src)})
    <3>1. Reached(j.src) = j.src
      BY <2>0, <2>4 DEF Looked, Reached
    <3>2. Footprint(j) = {j.src}
      BY <2>4 DEF Footprint
    <3> QED BY <2>4, <3>1, <3>2
  <2>5. CASE j.op \in {"shred", "retarget"} /\ disk' = Unlinked(j.src)
    <3>1. Footprint(j) = {j.src}
      BY <2>5 DEF Footprint
    <3> QED BY <1>0, <1>2, <2>5, <3>1, UnlinkedOK
  <2>6. CASE disk' = disk
    BY <2>0, <2>1, <2>6
  <2>7. CASE Spares(disk', {})
    BY <2>1, <2>7
  <2>8. j.step \in {"compress", "extract", "copyfile"} => ~Exists(j.dst)
    BY <2>0 DEF Looked
  <2> QED BY <1>1, <2>2, <2>3, <2>4, <2>5, <2>6, <2>7, <2>8
<1> QED BY <1>j, <1>5, <1>6

LEMMA LookInit == FileInit => LookInv
<1> SUFFICES ASSUME FileInit PROVE LookInv
  OBVIOUS
<1>1. \A c \in FileClient : ~Underway(c)
  BY DEF FileInit, NoOp, Underway
<1> QED BY <1>1, FileTypesInit DEF LookInv

LEMMA LookStep == LookInv /\ [FileNext]_fileVars =>
  LookInv' /\ [disk' # disk /\ ~intertwined => \E c \in FileClient : Underway(c) /\ Spares(disk', Footprint(job[c]))]_fileVars
<1> SUFFICES ASSUME LookInv, [FileNext]_fileVars
             PROVE  /\ LookInv'
                    /\ disk' # disk /\ ~intertwined => \E c \in FileClient : Underway(c) /\ Spares(disk', Footprint(job[c]))
  OBVIOUS
<1>0. FileTypes'
  BY FileTypesStep DEF LookInv
<1>1. ASSUME NEW c \in FileClient, BeginOp(c) PROVE LookInv' /\ disk' = disk
  <2>1. disk' = disk
    BY <1>1, BeginIs
  <2> QED BY <1>0, <1>1, <2>1, BeginLooked
<1>2. ASSUME NEW c \in FileClient,
             Act(c) \/ Compress(c) \/ Extract(c) \/ Overwrite(c) \/ Unlink(c) \/ Link(c) \/ CopyFile(c)
      PROVE  LookInv' /\ (~intertwined => Underway(c) /\ Spares(disk', Footprint(job[c])))
  <2>1. Underway(c)
    BY <1>2, Zenon DEF Act, Compress, Extract, Overwrite, Unlink, Link, CopyFile
  <2> QED BY <1>0, <1>2, <2>1, StepsLooked
<1>3. ASSUME NEW c \in FileClient, CopyTree(c)
      PROVE  LookInv' /\ (~intertwined => Underway(c) /\ Spares(disk', Footprint(job[c])))
  <2>1. Underway(c)
    BY <1>3, Zenon DEF CopyTree
  <2>2. Spares(disk', {}) => Spares(disk', Footprint(job[c]))
    BY DEF Spares
  <2> QED BY <1>0, <1>3, <2>1, <2>2, CopyLooked
<1>4. CASE UNCHANGED fileVars
  <2>1. disk' = disk /\ job' = job /\ intertwined' = intertwined
    BY <1>4 DEF fileVars
  <2>2. \A p : (Exists(p)' <=> Exists(p)) /\ (IsLink(p)' <=> IsLink(p)) /\ (IsDir(p)' <=> IsDir(p))
    BY <2>1 DEF Exists, IsLink, IsDir, There, Reached
  <2>3. \A t : Ahead(t)' <=> Ahead(t)
    BY <2>1 DEF Ahead
  <2>4. \A j : Looked(j)' <=> Looked(j)
    BY <2>2, <2>3 DEF Looked
  <2>5. LookInv'
    BY <1>0, <2>1, <2>4 DEF LookInv, Underway
  <2> QED BY <2>1, <2>5
<1>5. CASE FileNext
  <2>1. PICK c \in FileClient : \/ BeginOp(c) \/ Act(c) \/ Compress(c) \/ Extract(c)
                                \/ Overwrite(c) \/ Unlink(c) \/ Link(c) \/ CopyFile(c) \/ CopyTree(c)
    BY <1>5, Zenon DEF FileNext
  <2> QED BY <1>1, <1>2, <1>3, <2>1
<1> QED BY <1>4, <1>5

(* As long as operations do not overlap, each has looked at the disk it    *)
(* acts on: what is to be made is not there, what is overwritten by a      *)
(* shred is no link, and a tree copy's entries go where nothing is.        *)
THEOREM OperationsHaveLooked == FileSpec => []LookInv
BY LookInit, LookStep, PTL DEF FileSpec

(* An operation by itself changes and removes nothing but what it was told *)
(* to: a shred spares what a link leads to (fsx.rs:673), and what creates, *)
(* copies, packs or unpacks leaves everything that was there as it was.    *)
THEOREM FootprintIsKept == FileSpec => StaysInFootprint
<1>1. LookInv /\ [FileNext]_fileVars =>
        [disk' # disk /\ ~intertwined => \E c \in FileClient :
          /\ Underway(c)
          /\ \A p \in DOMAIN disk \ Footprint(job[c]) : p \in DOMAIN disk' /\ disk'[p] = disk[p]]_fileVars
  BY LookStep DEF Spares
<1> QED BY <1>1, OperationsHaveLooked, PTL DEF FileSpec, StaysInFootprint

-----------------------------------------------------------------------------
(***************************************************************************)
(* A tree copy is faithful.  By itself it knows its source as it was at    *)
(* its start; each entry of it has its image or is still to come, and what *)
(* a copy into its own source has to do never ends: a directory to descend *)
(* into is always left.                                                    *)
(***************************************************************************)
(* A tree copy by itself: the source as it was when the copy began, the    *)
(* images it has, and what a copy into its own source always has left.     *)
SourceOf(j) == {p \in DOMAIN j.was : Within(p, j.src)}
ImageOf(j, p) == Rebased(p, j.src, j.dst)
HasImage(j, p) ==
  /\ ImageOf(j, p) \in DOMAIN disk
  /\ disk[ImageOf(j, p)] = IF j.was[p].kind = "link" THEN disk[j.was[p].data] ELSE disk[p]
  /\ j.was[p].kind = "link" => j.was[p].data \in DOMAIN disk

Kept(j) ==
  /\ IsDisk(j.was) /\ j.src \in DOMAIN j.was /\ j.was[j.src].kind \in {"dir", "link"}
  /\ \A p \in DOMAIN j.was : p \in DOMAIN disk /\ disk[p] = j.was[p]

Images(j, todo) ==
  /\ j.dst \notin DOMAIN j.was /\ ~Within(j.dst, j.src)
  /\ \A i \in 1..Len(todo) : todo[i][1] \in SourceOf(j) /\ todo[i][2] = ImageOf(j, todo[i][1])
  /\ \A p \in SourceOf(j) : HasImage(j, p) \/ \E i \in 1..Len(todo) : Within(p, todo[i][1])
  /\ \A q \in DOMAIN disk : q \in DOMAIN j.was \/ Within(q, j.dst)
  /\ \A q \in DOMAIN disk : Within(q, j.dst) => \E p \in SourceOf(j) : q = ImageOf(j, p) /\ HasImage(j, p)

Endless(todo) == \E i \in 1..Len(todo) :
  /\ todo[i][1] \in DOMAIN disk /\ disk[todo[i][1]] = Dir
  /\ Within(todo[i][2], todo[i][1]) /\ todo[i][2] # todo[i][1]

Copying(j) ==
  /\ Kept(j)
  /\ j.was[j.src].kind = "dir" => \/ j.todo = <<<<j.src, j.dst>>>> /\ disk = j.was
                                  \/ Endless(j.todo) \/ Images(j, j.todo)

CopyInv ==
  /\ LookInv
  /\ ~intertwined => \A c \in FileClient : Underway(c) /\ job[c].step = "tree" => Copying(job[c])

(* The entry of a directory on the way to a path below it is there, when   *)
(* the path is, and listed.                                                *)
LEMMA ChildThere ==
  ASSUME NEW d, IsDisk(d), NEW p \in Path, p \in DOMAIN d, NEW q \in Path, Within(p, q), p # q
  PROVE  \E k \in Entries(d, q) : Within(p, k) /\ (k # p => d[k] = Dir)
<1>1. /\ p \in Seq(FileName) /\ Len(p) \in Nat /\ Len(p) <= MaxDepth
      /\ q \in Seq(FileName) /\ Len(q) \in Nat /\ Len(q) >= 1 /\ MaxDepth \in Nat
  BY PathIn, FileOpsAssumption
<1>2. PICK k : k = Above(p, Len(q) + 1)
  OBVIOUS
<1>3. k \in Seq(FileName) /\ Len(k) = Len(q) + 1 /\ Within(k, q) /\ Within(p, k)
  BY <1>1, <1>2, ChildToward
<1>4. k \in Path
  <2>1. Len(k) <= Len(p)
    BY <1>1, <1>3, WithinOrder
  <2>2. 1 <= Len(k) /\ Len(k) <= MaxDepth
    BY <1>1, <1>3, <2>1
  <2> QED BY <1>3, <2>2, InPath
<1>5. k # p => k \in DOMAIN d /\ d[k] = Dir
  BY <1>3, <1>4 DEF IsDisk
<1>6. k \in Entries(d, q)
  BY <1>3, <1>5 DEF Entries
<1> QED BY <1>3, <1>5, <1>6

(* Nothing is both within the source and within a destination outside it.  *)
LEMMA Apart ==
  ASSUME NEW j, Kept(j), j.src \in Path, j.dst \in Path, j.dst \notin DOMAIN j.was, ~Within(j.dst, j.src),
         NEW q \in Path, Within(q, j.src), Within(q, j.dst)
  PROVE  FALSE
<1>1. q \in Seq(FileName) /\ j.src \in Seq(FileName) /\ j.dst \in Seq(FileName) /\ Len(j.src) \in Nat /\ Len(j.dst) \in Nat
  BY PathIn
<1>2. CASE Len(j.src) <= Len(j.dst)
  BY <1>1, <1>2, WithinOrder
<1>3. CASE Len(j.dst) <= Len(j.src)
  <2>1. Within(j.src, j.dst)
    BY <1>1, <1>3, WithinOrder
  <2>2. j.src \in DOMAIN j.was /\ j.dst # j.src
    BY DEF Kept
  <2> QED BY <2>1, <2>2 DEF Kept, IsDisk
<1> QED BY <1>1, <1>2, <1>3

(* What one entry's copy leaves: the same node, for a link a file with     *)
(* what it leads to, and a directory's entries to copy next.               *)
LEMMA CopiedNode ==
  ASSUME IsDisk(disk), NEW j, Kept(j), NEW from \in DOMAIN j.was, from = j.src => j.was[from].kind = "dir",
         NEW to, ~There(to), NEW s, Copies(j, from, to, s), Spares(disk', {})
  PROVE  /\ disk'[to] = IF j.was[from].kind = "link" THEN disk'[j.was[from].data] ELSE disk'[from]
         /\ j.was[from].kind = "link" => j.was[from].data \in DOMAIN disk'
         /\ j.was[from] = Dir => Lists(s, disk', from, to)
         /\ j.was[from] # Dir => s = <<>>
<1> DEFINE n == j.was[from]
<1>1. from \in DOMAIN disk /\ disk[from] = n /\ n \in Node /\ from \in Path /\ from \in DOMAIN disk' /\ disk'[from] = n
  BY DEF Kept, IsDisk, Spares
<1>2. /\ to \in Path /\ HasParent(to) /\ Exists(from)
      /\ \/ /\ IsDir(from) /\ (from = j.src \/ ~IsLink(from))
            /\ disk' = Put(to, Dir) /\ Lists(s, disk', Reached(from), to)
         \/ /\ ~(IsDir(from) /\ (from = j.src \/ ~IsLink(from))) /\ ~IsDir(from)
            /\ disk' = Overwritten(to, disk[Reached(from)].data) /\ s = <<>>
  BY DEF Copies
<1> HIDE DEF n
<1>3. /\ n.kind \in {"dir", "file", "link"} /\ (n.kind = "dir" => n = Dir)
      /\ (n.kind = "file" => n = File(n.data)) /\ Dir.kind = "dir"
  BY <1>1, NodeKinds, KindsAre
<1>4. IsLink(from) <=> n.kind = "link"
  BY <1>1 DEF IsLink, There
<1>5. CASE n.kind = "dir"
  <2>1. Reached(from) = from /\ IsDir(from) /\ ~IsLink(from)
    BY <1>1, <1>4, <1>5 DEF Reached, IsDir, Exists, There
  <2>2. disk' = Put(to, Dir) /\ Lists(s, disk', from, to)
    BY <1>2, <2>1
  <2>3. disk'[to] = Dir
    BY <2>2 DEF Put
  <2> QED BY <1>1, <1>3, <1>5, <2>2, <2>3 DEF n
<1>6. CASE n.kind # "dir"
  <2>1. from # j.src
    BY <1>6 DEF n
  <2>2. ~IsDir(from)
    <3>1. CASE n.kind = "link"
      BY <1>2, <1>4, <2>1, <3>1
    <3>2. CASE n.kind # "link"
      <4>1. Reached(from) = from
        BY <1>4, <3>2 DEF Reached
      <4> QED BY <1>1, <1>6, <4>1 DEF IsDir
    <3> QED BY <3>1, <3>2
  <2>3. PICK r \in Path : r = Reached(from)
    BY <1>1, CallsSay
  <2>4. disk' = Overwritten(to, disk[r].data) /\ s = <<>>
    BY <1>2, <2>2, <2>3
  <2>5. r \in DOMAIN disk /\ disk[r] \in Node /\ disk[r].kind = "file" /\ disk'[r] = disk[r] /\ r \in DOMAIN disk'
    <3>1. r \in DOMAIN disk /\ disk[r] \in Node /\ disk[r].kind = "file"
      BY <1>1, <1>2, <2>2, <2>3, CallsSay DEF IsDir, Exists, There
    <3> QED BY <3>1 DEF Spares
  <2>6. disk[r].data \in Texts /\ disk[r] = File(disk[r].data)
    BY <2>5, NodeKinds
  <2>7. disk' = Put(to, disk[r])
    BY <1>2, <2>4, <2>6, OverwrittenAdds
  <2>8. disk'[to] = disk'[r]
    <3>1. disk'[to] = disk[r]
      BY <2>7 DEF Put
    <3> QED BY <2>5, <3>1
  <2>9. r = IF n.kind = "link" THEN n.data ELSE from
    BY <1>1, <1>4, <2>3 DEF Reached
  <2>10. n # Dir
    BY <1>3, <1>6
  <2> QED BY <2>4, <2>5, <2>8, <2>9, <2>10 DEF n
<1> QED BY <1>5, <1>6

(* A copy into its own source always has a directory left to copy into     *)
(* itself.                                                                 *)
LEMMA EndlessStep ==
  ASSUME IsDisk(disk), IsDisk(disk'), NEW j, j.todo \in Seq(Pairs), j.todo # <<>>,
         NEW from \in Path, NEW to, Head(j.todo) = <<from, to>>, ~There(to), Spares(disk', {}),
         NEW s, Copies(j, from, to, s), Endless(j.todo), NEW z, z = s \o Tail(j.todo)
  PROVE  Endless(z)'
<1>0. PICK todo \in Seq(Pairs) : todo = j.todo /\ todo # <<>>
  OBVIOUS
<1> DEFINE left(d, f, t) == f \in DOMAIN d /\ d[f] = Dir /\ Within(t, f) /\ t # f
<1>1. /\ s \in Seq(Pairs) /\ to \in Path
      /\ \/ disk' = Put(to, Dir) /\ Lists(s, disk', Reached(from), to)
         \/ ~(IsDir(from) /\ (from = j.src \/ ~IsLink(from)))
  BY DEF Copies
<1>2. /\ Len(todo) \in Nat /\ todo[1] = <<from, to>> /\ Len(todo) >= 1
      /\ \A i \in 1..Len(s) : i \in 1..Len(z) /\ z[i] = s[i]
      /\ \A k \in 2..Len(todo) : \E i \in 1..Len(z) : z[i] = todo[k]
  <2>0. z = s \o Tail(todo) /\ s \in Seq(Pairs)
    BY <1>0, <1>1
  <2>1. Follows(z, s, todo)
    BY <1>0, <2>0, QueueIs
  <2> QED BY <1>0, <2>1, LenProperties DEF Follows
<1>3. PICK i \in 1..Len(todo) : left(disk, todo[i][1], todo[i][2])
  BY <1>0 DEF Endless
<1>4. SUFFICES \E k \in 1..Len(z) : left(disk', z[k][1], z[k][2])
  BY DEF Endless
<1>5. CASE i # 1
  <2>1. i \in 2..Len(todo)
    BY <1>2, <1>5
  <2>2. PICK k \in 1..Len(z) : z[k] = todo[i]
    BY <1>2, <2>1
  <2>3. todo[i][1] \in DOMAIN disk' /\ disk'[todo[i][1]] = Dir
    BY <1>3 DEF Spares
  <2> QED BY <1>3, <2>2, <2>3
<1>6. CASE i = 1
  <2>1. from \in DOMAIN disk /\ disk[from] = Dir /\ Within(to, from) /\ to # from
    BY <1>2, <1>3, <1>6
  <2>2. Reached(from) = from /\ IsDir(from) /\ ~IsLink(from)
    BY <2>1, KindsAre DEF Reached, IsDir, Exists, IsLink, There
  <2>3. disk' = Put(to, Dir) /\ Lists(s, disk', from, to)
    BY <1>1, <2>2
  <2>4. to \in DOMAIN disk' /\ disk'[to] = Dir
    BY <2>3 DEF Put
  <2>5. PICK k \in Entries(disk', from) : Within(to, k) /\ disk'[k] = Dir
    BY <1>1, <2>1, <2>4, ChildThere
  <2>6. k \in Path /\ k \in DOMAIN disk' /\ Last(k) \in FileName
    BY EntriesAre
  <2>7. PICK l \in 1..Len(s) : s[l] = <<k, Append(to, Last(k))>>
    BY <2>3 DEF Lists
  <2>8. Within(Append(to, Last(k)), k) /\ Append(to, Last(k)) # k
    <3>1. to \in Seq(FileName) /\ k \in Seq(FileName) /\ Len(to) \in Nat /\ Len(k) \in Nat
      BY <1>1, <2>6, PathIn
    <3>2. PICK a \in Seq(FileName) : a = Append(to, Last(k)) /\ Len(a) = Len(to) + 1 /\ Within(a, to)
      BY <2>6, <3>1, AppendIs
    <3>3. Within(a, k)
      BY <2>5, <3>1, <3>2, WithinOrder
    <3>4. Len(k) <= Len(to)
      BY <2>5, <3>1, WithinOrder
    <3>5. a # k
      BY <3>1, <3>2, <3>4
    <3> QED BY <3>2, <3>3, <3>5
  <2>9. l \in 1..Len(z) /\ z[l] = <<k, Append(to, Last(k))>>
    BY <1>2, <2>7
  <2>10. z[l][1] = k /\ z[l][2] = Append(to, Last(k))
    BY <2>9, SMTT(30)
  <2>11. left(disk', z[l][1], z[l][2])
    BY <2>5, <2>6, <2>8, <2>10
  <2> QED BY <2>9, <2>11
<1> QED BY <1>5, <1>6

-----------------------------------------------------------------------------
(***************************************************************************)
(* What an entry's copy leaves of the images that are there.               *)
(***************************************************************************)
(* What has an image keeps it.                                             *)
LEMMA ImageStays ==
  ASSUME NEW j, Kept(j), Spares(disk', {}), NEW p \in SourceOf(j), HasImage(j, p)
  PROVE  HasImage(j, p)'
<1>1. p \in DOMAIN disk
  BY DEF SourceOf, Kept
<1> DEFINE q == ImageOf(j, p)  l == j.was[p].data  k == j.was[p].kind
<1>2. q \in DOMAIN disk /\ disk[q] = (IF k = "link" THEN disk[l] ELSE disk[p]) /\ (k = "link" => l \in DOMAIN disk)
  BY DEF HasImage
<1> HIDE DEF q, l, k
<1>3. q \in DOMAIN disk' /\ disk'[q] = (IF k = "link" THEN disk'[l] ELSE disk'[p]) /\ (k = "link" => l \in DOMAIN disk')
  BY <1>1, <1>2 DEF Spares
<1> QED BY <1>3 DEF HasImage, ImageOf, q, l, k

LEMMA ImagesStep ==
  ASSUME IsDisk(disk), IsDisk(disk'), NEW j, Kept(j), j.src \in Path, j.dst \in Path, j.was[j.src].kind = "dir",
         j.todo \in Seq(Pairs), j.todo # <<>>, Images(j, j.todo),
         NEW from \in Path, NEW to, Head(j.todo) = <<from, to>>, ~There(to), Spares(disk', {}),
         DOMAIN disk' = DOMAIN disk \cup {to},
         NEW s, Copies(j, from, to, s), NEW z, z = s \o Tail(j.todo)
  PROVE  Images(j, z)'
<1>0. PICK todo \in Seq(Pairs) : todo = j.todo /\ todo # <<>>
  OBVIOUS
<1>1. s \in Seq(Pairs) /\ to \in Path
  BY DEF Copies
<1>2. Len(todo) \in Nat /\ Len(s) \in Nat /\ Len(todo) >= 1 /\ todo[1] = <<from, to>> /\ Follows(z, s, todo)
  <2>1. Follows(z, s, todo)
    BY <1>0, <1>1, QueueIs
  <2> QED BY <1>0, <1>1, <2>1, LenProperties DEF Follows
<1>3. /\ j.dst \notin DOMAIN j.was /\ ~Within(j.dst, j.src)
      /\ \A i \in 1..Len(todo) : todo[i][1] \in SourceOf(j) /\ todo[i][2] = ImageOf(j, todo[i][1])
      /\ \A p \in SourceOf(j) : HasImage(j, p) \/ \E i \in 1..Len(todo) : Within(p, todo[i][1])
      /\ \A q \in DOMAIN disk : q \in DOMAIN j.was \/ Within(q, j.dst)
      /\ \A q \in DOMAIN disk : Within(q, j.dst) => \E p \in SourceOf(j) : q = ImageOf(j, p) /\ HasImage(j, p)
  BY <1>0 DEF Images
<1>4. from \in SourceOf(j) /\ to = ImageOf(j, from)
  <2>1. 1 \in 1..Len(todo) /\ todo[1][1] = from /\ todo[1][2] = to
    BY <1>2
  <2> QED BY <1>3, <2>1
<1>5. /\ j.src \in Seq(FileName) /\ j.dst \in Seq(FileName) /\ from \in Seq(FileName) /\ to \in Seq(FileName)
      /\ from \in DOMAIN j.was /\ Within(from, j.src) /\ IsDisk(j.was)
  BY <1>1, <1>4, PathIn DEF SourceOf, Kept
<1>6. Within(to, j.dst)
  BY <1>4, <1>5, RebasedOrder DEF ImageOf
<1>7. /\ disk'[to] = IF j.was[from].kind = "link" THEN disk'[j.was[from].data] ELSE disk'[from]
      /\ j.was[from].kind = "link" => j.was[from].data \in DOMAIN disk'
      /\ j.was[from] = Dir => Lists(s, disk', from, to)
      /\ j.was[from] # Dir => s = <<>>
  <2>1. from = j.src => j.was[from].kind = "dir"
    OBVIOUS
  <2> QED BY <1>5, <2>1, CopiedNode
<1>8. HasImage(j, from)'
  <2>1. to \in DOMAIN disk'
    OBVIOUS
  <2>2. ImageOf(j, from)' = to
    BY <1>4 DEF ImageOf
  <2> QED BY <1>7, <2>1, <2>2 DEF HasImage
<1>9. \A p \in SourceOf(j) : HasImage(j, p) => HasImage(j, p)'
  BY ImageStays
<1>10. ASSUME NEW i \in 1..Len(s) PROVE s[i][1] \in SourceOf(j) /\ s[i][2] = ImageOf(j, s[i][1])
  <2>1. Lists(s, disk', from, to)
    BY <1>7, <1>10, EmptySeq
  <2>2. PICK p \in Entries(disk', from) : s[i] = <<p, Append(to, Last(p))>>
    BY <2>1 DEF Lists
  <2>3. p \in Path /\ p \in Seq(FileName) /\ Front(p) = from /\ p \in DOMAIN disk' /\ Within(p, from) /\ p # from
    BY EntriesAre
  <2>4. Within(p, j.src) /\ p # j.src
    <3>1. Within(p, j.src)
      BY <1>5, <2>3, WithinOrder
    <3>2. p = j.src => Len(p) <= Len(from) /\ Len(from) <= Len(p) /\ Len(p) \in Nat /\ Len(from) \in Nat
      BY <1>5, <2>3, WithinOrder, LenProperties
    <3>3. p = j.src => Len(p) = Len(from)
      BY <3>2
    <3>4. Len(p) = Len(from) => p = from
      BY <1>5, <2>3, WithinOrder
    <3> QED BY <2>3, <3>1, <3>3, <3>4
  <2>5. ~Within(p, j.dst)
    BY <1>3, <2>3, <2>4, Apart
  <2>6. p \in DOMAIN j.was
    <3>1. p # to
      BY <1>6, <2>5
    <3> QED BY <1>3, <2>3, <2>5, <3>1
  <2>7. Append(to, Last(p)) = ImageOf(j, p)
    <3>1. Rebased(p, j.src, j.dst) = Append(Rebased(Front(p), j.src, j.dst), Last(p))
      BY <1>5, <2>3, <2>4, RebasedFront, ZenonT(90)
    <3> QED BY <1>4, <2>3, <3>1 DEF ImageOf
  <2>8. s[i][1] = p /\ s[i][2] = Append(to, Last(p))
    BY <2>2
  <2> QED BY <2>4, <2>6, <2>7, <2>8 DEF SourceOf
<1>11. ASSUME NEW i \in 1..Len(z) PROVE z[i][1] \in SourceOf(j) /\ z[i][2] = ImageOf(j, z[i][1])
  <2>1. \/ i \in 1..Len(s) /\ z[i] = s[i]
        \/ \E k \in 2..Len(todo) : z[i] = todo[k]
    BY <1>2, <1>11 DEF Follows
  <2>2. \A k \in 2..Len(todo) : k \in 1..Len(todo)
    BY <1>2
  <2> QED BY <1>3, <1>10, <2>1, <2>2
<1>12. ASSUME NEW p \in SourceOf(j) PROVE HasImage(j, p)' \/ \E i \in 1..Len(z) : Within(p, z[i][1])
  <2>1. CASE HasImage(j, p)
    BY <1>9, <2>1
  <2>2. ASSUME NEW i \in 1..Len(todo), Within(p, todo[i][1]), i # 1 PROVE \E k \in 1..Len(z) : Within(p, z[k][1])
    <3>1. i \in 2..Len(todo)
      BY <1>2, <2>2
    <3>2. PICK k \in 1..Len(z) : z[k] = todo[i]
      BY <1>2, <3>1 DEF Follows
    <3> QED BY <2>2, <3>2
  <2>3. ASSUME Within(p, from), p # from PROVE \E i \in 1..Len(z) : Within(p, z[i][1])
    <3>1. p \in Path /\ p \in DOMAIN j.was
      BY <1>5 DEF SourceOf, IsDisk
    <3>2. j.was[from] = Dir
      BY <1>5, <2>3, <3>1 DEF IsDisk
    <3>3. PICK k \in Entries(j.was, from) : Within(p, k)
      BY <1>5, <2>3, <3>1, ChildThere
    <3>4. k \in Entries(disk', from)
      BY <3>3 DEF Entries, Kept, Spares
    <3>5. PICK l \in 1..Len(s) : s[l] = <<k, Append(to, Last(k))>>
      BY <1>7, <3>2, <3>4 DEF Lists
    <3>6. l \in 1..Len(z) /\ z[l] = s[l]
      BY <1>2 DEF Follows
    <3>7. z[l][1] = k
      BY <3>5, <3>6
    <3> QED BY <3>3, <3>6, <3>7
  <2>4. ASSUME NEW i \in 1..Len(todo), Within(p, todo[i][1]), i = 1 PROVE Within(p, from)
    BY <1>2, <2>4
  <2> QED BY <1>3, <1>8, <2>1, <2>2, <2>3, <2>4
<1>13. \A q \in DOMAIN disk' : q \in DOMAIN j.was \/ Within(q, j.dst)
  BY <1>3, <1>6
<1>14. ASSUME NEW q \in DOMAIN disk', Within(q, j.dst) PROVE \E p \in SourceOf(j) : q = ImageOf(j, p) /\ HasImage(j, p)'
  <2>1. CASE q = to
    BY <1>4, <1>8, <2>1
  <2>2. CASE q \in DOMAIN disk
    BY <1>3, <1>9, <1>14, <2>2
  <2> QED BY <2>1, <2>2
<1> QED BY <1>3, <1>11, <1>12, <1>13, <1>14 DEF Images, SourceOf, ImageOf

(* Where a copy that has made nothing yet stands.                          *)
LEMMA CopyBegun ==
  ASSUME IsDisk(disk), NEW j, Kept(j), j.src \in Path, j.dst \in Path, j.was[j.src].kind = "dir",
         j.todo = <<<<j.src, j.dst>>>>, disk = j.was, ~There(j.dst)
  PROVE  Endless(j.todo) \/ Images(j, j.todo)
<1>1. /\ j.src \in DOMAIN disk /\ j.was[j.src] = Dir /\ j.dst # j.src
      /\ j.src \in Seq(FileName) /\ j.dst \in Seq(FileName)
  BY PathIn, NodeKinds DEF Kept, IsDisk, There
<1>2. PICK todo : todo = j.todo /\ Len(todo) = 1 /\ todo[1] = <<j.src, j.dst>>
  OBVIOUS
<1>3. 1 \in 1..Len(todo) /\ todo[1][1] = j.src /\ todo[1][2] = j.dst /\ \A i \in 1..Len(todo) : i = 1
  BY <1>2
<1>4. CASE Within(j.dst, j.src)
  BY <1>1, <1>2, <1>3, <1>4 DEF Endless
<1>5. CASE ~Within(j.dst, j.src)
  <2>1. j.src \in SourceOf(j) /\ j.dst = ImageOf(j, j.src)
    BY <1>1, WithinOrder, RebasedOrder DEF SourceOf, ImageOf
  <2>2. \A q \in DOMAIN disk : ~Within(q, j.dst)
    BY DEF IsDisk, There
  <2>3. \A p \in SourceOf(j) : Within(p, todo[1][1])
    BY <1>3 DEF SourceOf
  <2> QED BY <1>2, <1>3, <1>5, <2>1, <2>2, <2>3 DEF Images, There
<1> QED BY <1>4, <1>5

LEMMA KeptStays ==
  ASSUME NEW j, Kept(j), Spares(disk', {})
  PROVE  Kept(j)'
<1>1. \A p \in DOMAIN j.was : p \in DOMAIN disk' /\ disk'[p] = j.was[p]
  BY DEF Kept, Spares
<1> QED BY <1>1 DEF Kept, IsDisk

-----------------------------------------------------------------------------
(***************************************************************************)
(* Copies that begin, go on and end.                                       *)
(***************************************************************************)
(* What a tree copy that ran through has made.                             *)
CopiedAll(d, j) ==
  /\ {p \in DOMAIN d : Within(p, j.dst)} = {ImageOf(j, p) : p \in SourceOf(j)}
  /\ \A p \in SourceOf(j) :
       d[ImageOf(j, p)] = IF j.was[p].kind = "link" THEN d[j.was[p].data] ELSE d[p]

LEMMA ImagesDone ==
  ASSUME NEW j, IsDisk(j.was), j.src \in Path, j.dst \in Path, NEW z, z = <<>>, Images(j, z)'
  PROVE  CopiedAll(disk', j)
<1>1. \A i \in 1..Len(z) : FALSE
  OBVIOUS
<1>2. \A p \in SourceOf(j) : HasImage(j, p)'
  BY <1>1 DEF Images, SourceOf
<1>3. \A q \in DOMAIN disk' : Within(q, j.dst) => \E p \in SourceOf(j) : q = ImageOf(j, p)
  BY DEF Images, SourceOf, ImageOf
<1>4. ASSUME NEW p \in SourceOf(j) PROVE ImageOf(j, p) \in DOMAIN disk' /\ Within(ImageOf(j, p), j.dst)
  <2>1. p \in Seq(FileName) /\ j.src \in Seq(FileName) /\ j.dst \in Seq(FileName) /\ Within(p, j.src)
    BY PathIn DEF SourceOf, IsDisk
  <2>2. Within(ImageOf(j, p), j.dst)
    BY <2>1, RebasedOrder DEF ImageOf
  <2> QED BY <1>2, <2>2 DEF HasImage, ImageOf
<1>5. {p \in DOMAIN disk' : Within(p, j.dst)} = {ImageOf(j, p) : p \in SourceOf(j)}
  BY <1>3, <1>4
<1> QED BY <1>2, <1>5 DEF CopiedAll, HasImage, ImageOf

(* One entry of a tree copy by itself: what is left, or the whole made.    *)
LEMMA CopyingStep ==
  ASSUME IsDisk(disk), IsDisk(disk'), NEW j, j.src \in Path, j.dst \in Path, Copying(j), Looked(j), j.step = "tree",
         j.todo \in Seq(Pairs), j.todo # <<>>,
         NEW from \in Path, NEW to, Head(j.todo) = <<from, to>>,
         NEW s, Copies(j, from, to, s), NEW z, z = s \o Tail(j.todo)
  PROVE  /\ Kept(j)' /\ (j.was[j.src].kind = "dir" => (Endless(z) \/ Images(j, z))')
         /\ Spares(disk', {})
<1>1. \/ j.todo = <<<<j.src, j.dst>>>> /\ IsDir(j.src)
      \/ Ahead(j.todo)
  BY DEF Looked
<1>2. ~There(to) /\ Spares(disk', {}) /\ DOMAIN disk' = DOMAIN disk \cup {to}
  BY <1>1, CopyAhead
<1>3. Kept(j) /\ Kept(j)'
  BY <1>2, KeptStays DEF Copying
<1>4. ASSUME j.was[j.src].kind = "dir" PROVE Endless(j.todo) \/ Images(j, j.todo)
  <2>1. CASE j.todo = <<<<j.src, j.dst>>>> /\ disk = j.was
    <3>1. to = j.dst
      <4>1. Head(j.todo) = <<j.src, j.dst>>
        BY <2>1
      <4> QED BY <4>1
    <3> QED BY <1>2, <1>3, <1>4, <2>1, <3>1, CopyBegun
  <2> QED BY <1>4, <2>1 DEF Copying
<1>5. Endless(j.todo) => Endless(z)'
  BY <1>2, EndlessStep
<1>6. j.was[j.src].kind = "dir" /\ Images(j, j.todo) => Images(j, z)'
  BY <1>2, <1>3, ImagesStep
<1> QED BY <1>2, <1>3, <1>4, <1>5, <1>6

LEMMA CopyPut ==
  ASSUME CopyInv, LookInv', NEW c \in FileClient, Underway(c), intertwined' = intertwined,
         NEW k, job' = [job EXCEPT ![c] = k], ~intertwined /\ k.op # "none" /\ k.step = "tree" => Copying(k)'
  PROVE  CopyInv'
<1>1. DOMAIN job = FileClient
  BY DEF CopyInv, LookInv, FileTypes
<1>2. job'[c] = k /\ \A d \in FileClient : d # c => job'[d] = job[d]
  BY <1>1
<1>3. ASSUME ~intertwined', NEW d \in FileClient, job'[d].op # "none", job'[d].step = "tree"
      PROVE  Copying(job[d])'
  <2>1. ~intertwined
    BY <1>3
  <2>2. d = c
    <3>1. SUFFICES ASSUME d # c PROVE FALSE
      OBVIOUS
    <3>2. Underway(d)
      BY <1>2, <1>3, <3>1 DEF Underway
    <3> QED BY <2>1, <3>1, <3>2 DEF CopyInv, LookInv
  <2> QED BY <1>2, <1>3, <2>1, <2>2
<1> QED BY <1>3 DEF CopyInv, Underway

LEMMA BeginCopying ==
  ASSUME CopyInv, LookInv', NEW c \in FileClient, BeginOp(c)
  PROVE  CopyInv'
<1>1. PICK j : /\ JobOK(j) /\ j.op # "none" /\ job' = [job EXCEPT ![c] = j]
               /\ disk' = disk
               /\ intertwined' = (intertwined \/ \E d \in FileClient : Underway(d))
               /\ j.step = FirstStep(j.op, j.src)
               /\ j.todo = <<<<j.src, j.dst>>>> /\ (j.step = "tree" => j.was = disk)
  BY BeginIs
<1>2. job'[c] = j /\ \A d \in FileClient : d # c => job'[d] = job[d]
  BY <1>1 DEF CopyInv, LookInv, FileTypes
<1>3. IsDisk(disk)
  BY DEF CopyInv, LookInv, FileTypes, FileTypeOK
<1>4. ASSUME j.step = "tree" PROVE Copying(j)
  <2>1. j.op \in {"copy", "duplicate"} /\ j.src \in Path
    BY <1>1, <1>4 DEF JobOK, Takes, Acting
  <2>2. IsDir(j.src)
    BY <1>1, <1>4, <2>1 DEF FirstStep
  <2>3. j.src \in DOMAIN disk /\ disk[j.src].kind \in {"dir", "link"}
    <3>1. CASE IsLink(j.src)
      BY <3>1 DEF IsLink, There
    <3>2. CASE ~IsLink(j.src)
      BY <2>2, <3>2 DEF IsDir, Exists, Reached, There
    <3> QED BY <3>1, <3>2
  <2>4. Kept(j)
    BY <1>1, <1>3, <1>4, <2>3 DEF Kept
  <2> QED BY <1>1, <1>4, <2>4 DEF Copying
<1>5. j.step = "tree" => Copying(j)'
  BY <1>1, <1>4 DEF Copying, Kept, Endless, Images, HasImage
<1>6. ASSUME ~intertwined', NEW d \in FileClient, job'[d].op # "none", job'[d].step = "tree"
      PROVE  Copying(job[d])'
  <2>1. d = c
    BY <1>1, <1>2, <1>6 DEF Underway
  <2> QED BY <1>2, <1>5, <1>6, <2>1
<1> QED BY <1>6 DEF CopyInv, Underway

(* A tree copy's step, and what is made when it is the last.               *)
LEMMA CopyTreeCopies ==
  ASSUME CopyInv, LookInv', NEW c \in FileClient, CopyTree(c)
  PROVE  /\ CopyInv'
         /\ ~intertwined /\ job'[c].step = "copied" /\ ~IsLink(job[c].src) => CopiedAll(disk', job[c])
<1>0. PICK from, to : CopiesEntry(c, job[c], from, to)
  BY CopyStepIs DEF CopyInv, LookInv
<1>j. PICK j : j = job[c]
  OBVIOUS
<1>1. /\ j.op # "none" /\ j.step = "tree" /\ JobOK(j) /\ intertwined' = intertwined
      /\ j.todo \in Seq(Pairs) /\ j.todo # <<>> /\ Head(j.todo) = <<from, to>>
      /\ from \in Path
      /\ \/ disk' = disk /\ job' = [job EXCEPT ![c] = NoOp]
         \/ \E s : Copies(j, from, to, s) /\ CopyGoesOn(c, j, s \o Tail(j.todo))
  BY <1>0, <1>j DEF CopiesEntry
<1>2. IsDisk(disk) /\ IsDisk(disk') /\ FileTypes /\ DOMAIN job = FileClient
  BY DEF CopyInv, LookInv, FileTypes, FileTypeOK
<1>3. Underway(c) /\ j.src \in Path /\ j.dst \in Path
  BY <1>j, <1>1 DEF Underway, JobOK
<1>4. ~intertwined => Looked(j) /\ Copying(j)
  BY <1>j, <1>1, <1>3 DEF CopyInv, LookInv
<1>5. ASSUME job' = [job EXCEPT ![c] = NoOp] PROVE CopyInv' /\ job'[c].step # "copied"
  <2>1. CopyInv'
    BY <1>1, <1>3, <1>5, NoOpOK, CopyPut
  <2> QED BY <1>2, <1>5, <2>1 DEF NoOp
<1>6. ASSUME NEW s, Copies(j, from, to, s), CopyGoesOn(c, j, s \o Tail(j.todo))
      PROVE  CopyInv' /\ (~intertwined /\ job'[c].step = "copied" /\ ~IsLink(j.src) => CopiedAll(disk', j))
  <2>1. PICK z : z = s \o Tail(j.todo)
    OBVIOUS
  <2>2. ASSUME ~intertwined
        PROVE  /\ Kept(j)' /\ (j.was[j.src].kind = "dir" => (Endless(z) \/ Images(j, z))')
               /\ Spares(disk', {})
    BY <1>1, <1>2, <1>3, <1>4, <1>6, <2>1, <2>2, CopyingStep
  <2>3. CopyGoesOn(c, j, z)
    BY <1>6, <2>1
  <2>4. s \in Seq(Pairs)
    BY <1>6 DEF Copies
  <2>5. z \in Seq(Pairs)
    BY <1>1, <2>1, <2>4, HeadTailProperties, ConcatProperties
  <2>6. CASE z = <<>>
    <3>1. job' = [job EXCEPT ![c] = [NoOp EXCEPT !.step = "copied"]]
      BY <2>3, <2>6 DEF CopyGoesOn
    <3>2. CopyInv'
      BY <1>1, <1>3, <3>1, CopiedOK, CopyPut
    <3>3. ASSUME ~intertwined, ~IsLink(j.src) PROVE CopiedAll(disk', j)
      <4>1. j.was[j.src].kind = "dir"
        <5>1. Kept(j)
          BY <1>4, <3>3 DEF Copying
        <5> QED BY <3>3, <5>1 DEF Kept, IsLink, There
      <4>2. (Endless(z) \/ Images(j, z))'
        BY <2>2, <3>3, <4>1
      <4>3. ~Endless(z)'
        BY <2>6 DEF Endless
      <4>4. Images(j, z)'
        BY <4>2, <4>3
      <4>5. IsDisk(j.was)
        BY <1>4, <3>3 DEF Copying, Kept
      <4> QED BY <1>3, <2>6, <4>4, <4>5, ImagesDone
    <3> QED BY <3>2, <3>3
  <2>7. CASE z # <<>>
    <3>1. PICK k : k = [j EXCEPT !.todo = z]
      OBVIOUS
    <3>2. job' = [job EXCEPT ![c] = k]
      BY <2>3, <2>7, <3>1 DEF CopyGoesOn
    <3>3. k.step = "tree" /\ k.todo = z /\ k.src = j.src /\ k.dst = j.dst /\ k.was = j.was
      BY <1>1, <2>5, <2>7, <3>1, TodoTo
    <3>4. ~intertwined => Copying(k)'
      BY <2>2, <3>3 DEF Copying, Kept, Endless, Images, HasImage, ImageOf, SourceOf
    <3>5. CopyInv'
      BY <1>1, <1>3, <3>2, <3>4, CopyPut
    <3> QED BY <1>2, <3>2, <3>3, <3>5
  <2> QED BY <2>6, <2>7
<1> QED BY <1>j, <1>1, <1>5, <1>6

LEMMA CopyInit == FileInit => CopyInv
<1> SUFFICES ASSUME FileInit PROVE CopyInv
  OBVIOUS
<1>1. \A c \in FileClient : ~Underway(c)
  BY DEF FileInit, NoOp, Underway
<1> QED BY <1>1, LookInit DEF CopyInv

LEMMA CopyStep == CopyInv /\ [FileNext]_fileVars =>
  CopyInv' /\ [\A c \in FileClient : job[c].step = "tree" /\ job'[c].step = "copied" /\ ~intertwined /\ ~IsLink(job[c].src) =>
                 CopiedAll(disk', job[c])]_fileVars
<1> SUFFICES ASSUME CopyInv, [FileNext]_fileVars
             PROVE  /\ CopyInv'
                    /\ \A c \in FileClient : job[c].step = "tree" /\ job'[c].step = "copied" /\ ~intertwined /\ ~IsLink(job[c].src) =>
                         CopiedAll(disk', job[c])
  OBVIOUS
<1> DEFINE done(c) == job[c].step = "tree" /\ job'[c].step = "copied" /\ ~intertwined /\ ~IsLink(job[c].src)
<1>0. LookInv' /\ FileTypes
  BY LookStep DEF CopyInv, LookInv
<1>1. DOMAIN job = FileClient /\ \A d \in FileClient : JobOK(job[d])
  BY <1>0 DEF FileTypes
<1>2. ASSUME NEW c \in FileClient, NEW k, job' = [job EXCEPT ![c] = k], NEW d \in FileClient, done(d)
      PROVE  d = c
  BY <1>1, <1>2
<1>3. ASSUME NEW c \in FileClient, BeginOp(c) PROVE CopyInv' /\ \A d \in FileClient : ~done(d)
  <2>1. CopyInv'
    BY <1>0, <1>3, BeginCopying
  <2>2. PICK j : job' = [job EXCEPT ![c] = j] /\ ~Underway(c)
    BY <1>3, BeginIs
  <2>3. job[c].step # "tree"
    BY <1>1, <2>2 DEF Underway, JobOK
  <2> QED BY <1>2, <2>1, <2>2, <2>3
<1>4. ASSUME NEW c \in FileClient,
             Act(c) \/ Compress(c) \/ Extract(c) \/ Overwrite(c) \/ Unlink(c) \/ Link(c) \/ CopyFile(c)
      PROVE  CopyInv' /\ \A d \in FileClient : ~done(d)
  <2>1. job[c].op # "none" /\ job[c].step # "tree" /\ JobOK(job[c]) /\ intertwined' = intertwined
        /\ (Ends(c) \/ Steps(c, "unlink") \/ Steps(c, "link"))
    BY <1>0, <1>4, StepsAre
  <2>2. Underway(c)
    BY <2>1 DEF Underway
  <2>3. PICK k : job' = [job EXCEPT ![c] = k] /\ (k.op = "none" \/ k.step # "tree")
    <3>1. CASE Ends(c)
      BY <3>1, NoOpOK DEF Ends
    <3>2. ASSUME NEW step \in {"unlink", "link"}, Steps(c, step)
          PROVE  \E k : job' = [job EXCEPT ![c] = k] /\ (k.op = "none" \/ k.step # "tree")
      <4>1. PICK j : j = job[c] /\ JobOK(j)
        BY <2>1
      <4>2. PICK k : k = [j EXCEPT !.step = step]
        OBVIOUS
      <4>3. k.step = step
        <5>1. j = [op |-> j.op, src |-> j.src, dst |-> j.dst, step |-> j.step, todo |-> j.todo, was |-> j.was]
          BY <4>1 DEF JobOK
        <5> QED BY <4>2, <5>1
      <4>4. job' = [job EXCEPT ![c] = k]
        BY <3>2, <4>1, <4>2 DEF Steps
      <4> QED BY <3>2, <4>3, <4>4
    <3> QED BY <2>1, <3>1, <3>2
  <2>4. CopyInv'
    BY <1>0, <2>1, <2>2, <2>3, CopyPut
  <2> QED BY <1>2, <2>1, <2>3, <2>4
<1>5. ASSUME NEW c \in FileClient, CopyTree(c)
      PROVE  CopyInv' /\ \A d \in FileClient : done(d) => CopiedAll(disk', job[d])
  <2>1. CopyInv' /\ (done(c) => CopiedAll(disk', job[c]))
    BY <1>0, <1>5, CopyTreeCopies
  <2>2. \E k : job' = [job EXCEPT ![c] = k]
    BY <1>0, <1>5, CopyTypes
  <2>3. \A d \in FileClient : done(d) => d = c
    BY <1>2, <2>2
  <2> QED BY <2>1, <2>3
<1>6. ASSUME UNCHANGED fileVars PROVE CopyInv' /\ \A d \in FileClient : ~done(d)
  <2>1. disk' = disk /\ job' = job /\ intertwined' = intertwined
    BY <1>6 DEF fileVars
  <2>2. \A j : Kept(j)' <=> Kept(j)
    BY <2>1 DEF Kept
  <2>3. \A j, t : (Endless(t)' <=> Endless(t)) /\ (Images(j, t)' <=> Images(j, t))
    BY <2>1 DEF Endless, Images, HasImage
  <2>4. \A j : Copying(j)' <=> Copying(j)
    BY <2>1, <2>2, <2>3 DEF Copying
  <2>5. CopyInv'
    BY <1>0, <2>1, <2>4 DEF CopyInv, Underway
  <2> QED BY <2>1, <2>5
<1>7. CASE FileNext
  <2>1. PICK c \in FileClient : \/ BeginOp(c) \/ Act(c) \/ Compress(c) \/ Extract(c)
                                \/ Overwrite(c) \/ Unlink(c) \/ Link(c) \/ CopyFile(c) \/ CopyTree(c)
    BY <1>7, Zenon DEF FileNext
  <2> QED BY <1>3, <1>4, <1>5, <2>1
<1> QED BY <1>6, <1>7

(* A tree copy by itself has, at any moment, what it was to copy unchanged *)
(* and made or ahead of it, and made nothing else; or it copies a          *)
(* directory into itself and has one more level ahead of it.               *)
THEOREM CopiesGoOn == FileSpec => []CopyInv
BY CopyInit, CopyStep, PTL DEF FileSpec

(* A tree copy that ran through by itself has made an image of every node  *)
(* of its source, and nothing else (copy_dir_recursive).                   *)
THEOREM CopiesAreFaithful == FileSpec => CopyIsFaithful
<1>1. CopyInv /\ [FileNext]_fileVars =>
        [\A c \in FileClient :
           LET j == job[c]
               image(p) == Rebased(p, j.src, j.dst)
               source == {p \in DOMAIN j.was : Within(p, j.src)}
               content(p) == IF j.was[p].kind = "link" THEN disk'[j.was[p].data] ELSE disk'[p]
           IN
           j.step = "tree" /\ job'[c].step = "copied" /\ ~intertwined /\ ~IsLink(j.src) =>
             /\ {p \in DOMAIN disk' : Within(p, j.dst)} = {image(p) : p \in source}
             /\ \A p \in source : disk'[image(p)] = content(p)]_fileVars
  BY CopyStep DEF CopiedAll, SourceOf, ImageOf
<1> QED BY <1>1, CopiesGoOn, PTL DEF FileSpec, CopyIsFaithful

-----------------------------------------------------------------------------
(***************************************************************************)
(* The components together (MCDisk).  Each step is one of a single         *)
(* component and leaves the variables of the others alone.                 *)
(***************************************************************************)

(* A behaviour of the whole is one of each component but the queries,      *)
(* which rest on an empty tree when they are not what is run.              *)
LEMMA DiskFollows ==
  Spec => /\ ThemeStoreSpec /\ HooksSpec /\ KvSpec /\ HostLogSpec
          /\ TailSpec /\ JobsSpec /\ FileSpec
<1>1. Init => /\ ThemeStoreInit /\ HooksInit /\ KvInit /\ HostLogInit
              /\ TailInit /\ JobsInit /\ FileInit
  BY DEF Init
<1>2. [Next]_vars => [ThemeStoreNext]_storeVars
  BY DEF Next, vars
<1>3. [Next]_vars => [HooksNext]_hookVars
  BY DEF Next, vars
<1>4. [Next]_vars => [KvNext]_kvVars
  BY DEF Next, vars
<1>5. [Next]_vars => [HostLogNext]_logVars
  BY DEF Next, vars
<1>6. [Next]_vars => [TailNext]_tailVars
  BY DEF Next, vars
<1>7. [Next]_vars => [JobsNext]_jobVars
  BY DEF Next, vars
<1>8. [Next]_vars => [FileNext]_fileVars
  BY DEF Next, vars
<1> QED BY <1>1, <1>2, <1>3, <1>4, <1>5, <1>6, <1>7, <1>8, PTL
        DEF Spec, ThemeStoreSpec, HooksSpec, KvSpec, HostLogSpec, TailSpec, JobsSpec, FileSpec

(* A behaviour of another component asks nothing.                          *)
QueriesRest == stack = {} /\ found = {}

LEMMA QueriesRestOrRun == Spec => [](IF part = "queries" THEN QueryInv ELSE QueriesRest)
<1>1. Init => IF part = "queries" THEN QueryInv ELSE QueriesRest
  BY QueryInvInit DEF Init, QueriesRest
<1>2. (IF part = "queries" THEN QueryInv ELSE QueriesRest) /\ [Next]_vars
        => (IF part = "queries" THEN QueryInv ELSE QueriesRest)'
  <2>1. [Next]_vars => part' = part
    BY DEF Next, vars
  <2>2. [Next]_vars => [FileQueriesNext]_queryVars
    BY DEF Next, vars
  <2>3. part # "queries" /\ [Next]_vars => UNCHANGED <<stack, found>>
    BY DEF Next, vars, queryVars
  <2> QED BY <2>1, <2>2, <2>3, QueryInvStep DEF QueriesRest
<1> QED BY <1>1, <1>2, PTL DEF Spec

(* The eight components of the disk side by side keep their types.         *)
THEOREM DiskTypes == Spec => []DiskTypesOK
<1>1. (IF part = "queries" THEN QueryInv ELSE QueriesRest) => FileQueriesTypeOK
  BY QueryTypes DEF QueriesRest, FileQueriesTypeOK
<1>2. /\ ThemeStoreTypeOK /\ HooksTypeOK /\ KvTypeOK /\ HostLogTypeOK
      /\ TailTypeOK /\ JobsTypeOK /\ FileTypeOK /\ FileQueriesTypeOK
      => DiskTypesOK
  BY DEF DiskTypesOK
<1> QED BY <1>1, <1>2, DiskFollows, QueriesRestOrRun, ThemeStoreTypes, HooksTypes, KvTypes,
           HostLogTypes, TailTypes, JobsTypes, FileTyped, PTL
=============================================================================
