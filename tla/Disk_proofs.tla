---------------------------- MODULE Disk_proofs -----------------------------
(***************************************************************************)
(* What processes and threads do to files and tables they share, for any   *)
(* number of them and any bounds: actions on the kv slot, the host log,    *)
(* tails of a growing file, the table of background jobs, and the manifest *)
(* and scripts of hooks.  The theme store has a module of its own.         *)
(*                                                                         *)
(* Each part starts with the inductive invariant that its property needs,  *)
(* and has one lemma per step.                                             *)
(***************************************************************************)
EXTENDS KvStore, HostLog, Tail, Jobs, Hooks,
        FiniteSetTheorems, SequenceTheorems, WellFoundedInduction, TLAPS

(* A nonempty set of naturals has a least element.                         *)
LEMMA LeastOf ==
  ASSUME NEW S \in SUBSET Nat, S # {}
  PROVE  \E least \in S : \A id \in S : least <= id
<1>1. PICK least \in S : \A id \in S : ~(<<id, least>> \in OpToRel(<, Nat))
  BY WFMin, NatLessThanWellFounded, Zenon
<1>2. \A id \in S : ~(id < least)
  BY <1>1, Zenon DEF OpToRel
<1> QED BY <1>2

(* Inodes in use, and processes that are about to take one, are as many as *)
(* were accounted for.                                                     *)
Fits(used, wanting, k) ==
  IsFiniteSet(used) /\ IsFiniteSet(wanting) /\ Cardinality(used) + Cardinality(wanting) <= k

LEMMA FitsLess ==
  ASSUME NEW U, NEW W, NEW k \in Nat, Fits(U, W, k), NEW V \in SUBSET U, NEW X \in SUBSET W
  PROVE  Fits(V, X, k)
<1>1. IsFiniteSet(V) /\ Cardinality(V) <= Cardinality(U)
  BY FS_Subset DEF Fits
<1>2. IsFiniteSet(X) /\ Cardinality(X) <= Cardinality(W)
  BY FS_Subset DEF Fits
<1>3. {Cardinality(U), Cardinality(V), Cardinality(W), Cardinality(X)} \subseteq Nat
  BY <1>1, <1>2, FS_CardinalityType DEF Fits
<1> QED BY <1>1, <1>2, <1>3 DEF Fits

LEMMA FitsOneMore ==
  ASSUME NEW U, NEW W, NEW k \in Nat, Fits(U, W, k), NEW p, NEW V \in SUBSET U, NEW X \in SUBSET (W \cup {p})
  PROVE  Fits(V, X, k + 1)
<1>1. IsFiniteSet(W \cup {p}) /\ Cardinality(W \cup {p}) <= Cardinality(W) + 1
  <2>1. Cardinality(W) \in Nat
    BY FS_CardinalityType DEF Fits
  <2> QED BY <2>1, FS_AddElement, SMTT(30) DEF Fits
<1>2. {Cardinality(U), Cardinality(W), Cardinality(W \cup {p})} \subseteq Nat
  BY <1>1, FS_CardinalityType DEF Fits
<1>3. Fits(U, W \cup {p}, k + 1)
  BY <1>1, <1>2 DEF Fits
<1> QED BY <1>3, FitsLess

LEMMA FitsTaken ==
  ASSUME NEW U, NEW W, NEW k \in Nat, Fits(U, W, k), NEW p \in W, NEW i,
         NEW V \in SUBSET (U \cup {i}), NEW X \in SUBSET (W \ {p})
  PROVE  Fits(V, X, k)
<1>1. {Cardinality(U), Cardinality(W)} \subseteq Nat
  BY FS_CardinalityType DEF Fits
<1>2. IsFiniteSet(W \ {p}) /\ Cardinality(W \ {p}) = Cardinality(W) - 1
  BY FS_RemoveElement DEF Fits
<1>3. IsFiniteSet(U \cup {i}) /\ Cardinality(U \cup {i}) <= Cardinality(U) + 1
  <2>1. IsFiniteSet(U)
    BY DEF Fits
  <2>2. /\ IsFiniteSet(U \cup {i})
        /\ Cardinality(U \cup {i}) = IF i \in U THEN Cardinality(U) ELSE Cardinality(U) + 1
    BY <2>1, FS_AddElement
  <2> QED BY <1>1, <2>2
<1>4. {Cardinality(U \cup {i}), Cardinality(W \ {p})} \subseteq Nat
  BY <1>2, <1>3, FS_CardinalityType
<1>5. Fits(U \cup {i}, W \ {p}, k)
  BY <1>1, <1>2, <1>3, <1>4 DEF Fits
<1> QED BY <1>5, FitsLess

LEMMA FitsFree ==
  ASSUME NEW U, NEW W, NEW k \in Nat, Fits(U, W, k), NEW p \in W, NEW n \in Nat, k <= n
  PROVE  \E i \in 1..n : i \notin U
<1>1. {Cardinality(U), Cardinality(W)} \subseteq Nat
  BY FS_CardinalityType DEF Fits
<1>2. Cardinality(W) # 0
  BY FS_EmptySet DEF Fits
<1>3. Cardinality(1..n) = n
  BY FS_Interval
<1>4. ASSUME 1..n \subseteq U PROVE FALSE
  <2>1. Cardinality(1..n) <= Cardinality(U)
    BY <1>4, FS_Subset DEF Fits
  <2> QED BY <1>1, <1>2, <1>3, <2>1 DEF Fits
<1> QED BY <1>4

-----------------------------------------------------------------------------
(***************************************************************************)
(* The action a reply carries (KvStore).  The slot is read by name, so it  *)
(* has to be known what the inode of that name holds; while writers do not *)
(* overlap, the one with the temporary name is never it.                   *)
(***************************************************************************)

Active(p) == kvWriter[p].pc # "idle"

KvRecords ==
  /\ kvWriter \in [KvProc -> [pc : {"idle", "open", "write", "rename"},
                              value : [n : Nat, w : Nat], ino : Nat]]
  /\ kvCount \in [writes : 0..MaxKvWrites, runs : Nat]
  /\ nonce \in [clock : Nat, last : [KvProc -> Nat]]
  /\ inode \in [Inode -> [n : Nat, w : Nat]]

(* While writers do not overlap there is one at a time, it has the newest  *)
(* value, and its file is the .tmp, which is never the one that is read.   *)
OneWriter ==
  /\ \A p, q \in KvProc : Active(p) /\ Active(q) => p = q
  /\ name \in [key : 0..MaxKvWrites, tmp : 0..MaxKvWrites]
  /\ name.tmp # 0 => name.tmp # name.key
  /\ name.key # 0 => inode[name.key].w \in 1..kvCount.writes
  /\ \A p \in KvProc :
       /\ Active(p) => kvWriter[p].value.w = kvCount.writes /\ KvGet.w < kvCount.writes
       /\ kvWriter[p].ino = IF kvWriter[p].pc = "write" THEN name.tmp ELSE 0
       /\ kvWriter[p].pc \in {"write", "rename"} => name.tmp # 0
       /\ kvWriter[p].pc = "rename" => inode[name.tmp] = kvWriter[p].value

(* A run sees what was queued when it began, or something later.           *)
RunSees ==
  /\ kvRun \in [pc : {"idle", "running", "consuming"}, before : Nat, since : Nat,
                took : [n : Nat, w : Nat]]
  /\ kvRun.pc = "running" =>
       /\ KvGet = [n |-> kvRun.before, w |-> kvRun.since] \/ KvGet.w > kvRun.since \/ KvGet = Empty
       /\ kvRun.since <= kvCount.writes
       /\ \A p \in KvProc : Active(p) => kvRun.since < kvCount.writes

KvInv == ~shared => KvRecords /\ ~stale /\ OneWriter /\ RunSees

LEMMA KvInvInit == KvInit => KvInv
<1> SUFFICES ASSUME KvInit PROVE KvInv
  OBVIOUS
<1> USE KvAssumption
<1>1. Empty \in [n : Nat, w : Nat]
  BY DEF Empty
<1>2. KvRecords
  <2>1. kvWriter \in [KvProc -> [pc : {"idle", "open", "write", "rename"},
                                 value : [n : Nat, w : Nat], ino : Nat]]
    BY <1>1 DEF KvInit, NotWriting
  <2>2. kvCount \in [writes : 0..MaxKvWrites, runs : Nat]
    BY DEF KvInit
  <2>3. nonce \in [clock : Nat, last : [KvProc -> Nat]]
    BY DEF KvInit
  <2>4. inode \in [Inode -> [n : Nat, w : Nat]]
    BY <1>1 DEF KvInit
  <2> QED BY <2>1, <2>2, <2>3, <2>4 DEF KvRecords
<1>3. \A p \in KvProc : ~Active(p) /\ kvWriter[p].ino = 0 /\ kvWriter[p].pc = "idle"
  BY DEF KvInit, NotWriting, Active
<1>4. OneWriter /\ RunSees /\ ~stale
  BY <1>1, <1>3 DEF KvInit, OneWriter, RunSees
<1> QED BY <1>2, <1>4 DEF KvInv

LEMMA KvGetTyped ==
  ASSUME KvRecords, name.key \in 0..MaxKvWrites
  PROVE  KvGet \in [n : Nat, w : Nat]
BY KvAssumption DEF KvRecords, KvGet, Empty, Inode

(* A call makes the newest value there is; if nobody else is writing, its  *)
(* process becomes the one writer.                                         *)
LEMMA BrowserCallInv ==
  ASSUME KvInv, NEW p \in KvProc, BrowserCall(p)
  PROVE  KvInv'
<1> USE KvAssumption
<1> SUFFICES ASSUME ~shared' PROVE KvRecords' /\ ~stale' /\ OneWriter' /\ RunSees'
  BY DEF KvInv
<1>0. ~shared /\ KvRecords /\ ~stale /\ OneWriter /\ RunSees
  BY DEF KvInv, BrowserCall
<1>1. PICK n \in Nat : /\ n = ActionNonce(p)
                       /\ nonce' = [nonce EXCEPT !.last[p] = n]
                       /\ kvWriter' = [kvWriter EXCEPT ![p] =
                            [pc |-> "open", ino |-> 0, value |-> [n |-> n, w |-> kvCount.writes + 1]]]
  <2>1. ActionNonce(p) \in Nat
    BY <1>0 DEF KvRecords, ActionNonce, Larger
  <2> QED BY <2>1 DEF BrowserCall
<1>2. /\ kvCount' = [kvCount EXCEPT !.writes = @ + 1] /\ kvCount.writes < MaxKvWrites
      /\ inode' = inode /\ name' = name /\ kvRun' = kvRun /\ stale' = stale
      /\ shared' = (shared \/ \E q \in KvProc : Active(q))
      /\ KvGet' = KvGet
  BY DEF BrowserCall, Active, KvGet
<1>3. kvCount' \in [writes : 0..MaxKvWrites, runs : Nat] /\ kvCount'.writes = kvCount.writes + 1
  BY <1>0, <1>2 DEF KvRecords
<1>4. KvRecords'
  <2>1. [pc |-> "open", ino |-> 0, value |-> [n |-> n, w |-> kvCount.writes + 1]]
          \in [pc : {"idle", "open", "write", "rename"}, value : [n : Nat, w : Nat], ino : Nat]
    BY <1>0, <1>3 DEF KvRecords
  <2>2. kvWriter' \in [KvProc -> [pc : {"idle", "open", "write", "rename"},
                                  value : [n : Nat, w : Nat], ino : Nat]]
    BY <1>0, <1>1, <2>1 DEF KvRecords
  <2>3. nonce' \in [clock : Nat, last : [KvProc -> Nat]]
    BY <1>0, <1>1 DEF KvRecords
  <2> QED BY <1>0, <1>2, <1>3, <2>2, <2>3 DEF KvRecords
<1>5. /\ OneWriter /\ RunSees /\ ~stale /\ \A q \in KvProc : ~Active(q)
  BY <1>0, <1>2 DEF KvRecords
<1>6. /\ \A q \in KvProc \ {p} : kvWriter'[q] = kvWriter[q]
      /\ kvWriter'[p] = [pc |-> "open", ino |-> 0, value |-> [n |-> n, w |-> kvCount.writes + 1]]
  BY <1>0, <1>1 DEF KvRecords
<1>7. KvGet.w <= kvCount.writes /\ KvGet.w \in Nat /\ kvCount.writes \in Nat
  BY <1>0, <1>5 DEF KvRecords, KvGet, OneWriter, Empty
<1>8. OneWriter'
  <2>1. \A q \in KvProc : Active(q)' => q = p
    BY <1>5, <1>6 DEF Active
  <2>2. ASSUME NEW q \in KvProc
        PROVE  /\ Active(q)' => kvWriter'[q].value.w = kvCount'.writes /\ KvGet'.w < kvCount'.writes
               /\ kvWriter'[q].ino = IF kvWriter'[q].pc = "write" THEN name'.tmp ELSE 0
               /\ kvWriter'[q].pc \in {"write", "rename"} => name'.tmp # 0
               /\ kvWriter'[q].pc = "rename" => inode'[name'.tmp] = kvWriter'[q].value
    <3>1. CASE q = p
      BY <1>2, <1>3, <1>6, <1>7, <3>1
    <3>2. CASE q # p
      BY <1>2, <1>5, <1>6, <2>1, <3>2 DEF OneWriter, Active
    <3> QED BY <3>1, <3>2
  <2>3. name'.key # 0 => inode'[name'.key].w \in 1..kvCount'.writes
    BY <1>2, <1>3, <1>5, <1>7 DEF OneWriter
  <2> QED BY <1>2, <1>5, <2>1, <2>2, <2>3 DEF OneWriter
<1>9. RunSees'
  BY <1>0, <1>2, <1>3, <1>5, <1>7 DEF RunSees, KvRecords
<1> QED BY <1>2, <1>4, <1>5, <1>8, <1>9

(* There is a file to write to besides the one that is read: the newest    *)
(* value has none yet.                                                     *)
LEMMA TmpIsFree ==
  ASSUME KvRecords, OneWriter, NEW p \in KvProc, kvWriter[p].pc = "open", name.tmp = 0
  PROVE  FreeInode \in Inode /\ FreeInode # name.key
<1> USE KvAssumption
<1>1. \A q \in KvProc : kvWriter[q].ino = 0
  BY DEF OneWriter
<1>2. PICK i \in Inode : i # name.key
  <2>1. CASE name.key = 0
    <3>1. KvGet.w = 0
      BY <2>1 DEF KvGet, Empty
    <3>2. Active(p)
      BY DEF Active
    <3>3. 0 < kvCount.writes /\ kvCount.writes \in 0..MaxKvWrites
      BY <3>1, <3>2 DEF OneWriter, KvRecords
    <3>4. 1 \in Inode
      BY <3>3 DEF Inode
    <3> QED BY <2>1, <3>4
  <2>2. CASE name.key # 0
    <3>1. KvGet.w \in 1..kvCount.writes /\ KvGet.w < kvCount.writes /\ kvCount.writes \in 0..MaxKvWrites
      BY <2>2 DEF OneWriter, Active, KvRecords, KvGet
    <3>2. 1 \in Inode /\ 2 \in Inode
      BY <3>1 DEF Inode
    <3> QED BY <3>2
  <2> QED BY <2>1, <2>2
<1>3. \E j \in Inode : j \notin {name.key, name.tmp} \cup {kvWriter[q].ino : q \in KvProc}
  BY <1>1, <1>2 DEF Inode
<1>4. FreeInode \in Inode /\ FreeInode \notin {name.key, name.tmp} \cup {kvWriter[q].ino : q \in KvProc}
  BY <1>3, Zenon DEF FreeInode
<1> QED BY <1>4

(* fs::write, its first half; what is read does not change.                *)
LEMMA OpenTmpInv ==
  ASSUME KvInv, NEW p \in KvProc, OpenTmp(p)
  PROVE  KvInv'
<1> USE KvAssumption
<1> SUFFICES ASSUME ~shared' PROVE KvRecords' /\ ~stale' /\ OneWriter' /\ RunSees'
  BY DEF KvInv
<1>0. ~shared /\ KvRecords /\ ~stale /\ OneWriter /\ RunSees
  BY DEF KvInv, OpenTmp
<1>1. PICK i : /\ i = (IF name.tmp = 0 THEN FreeInode ELSE name.tmp)
               /\ inode' = [inode EXCEPT ![i] = Empty]
               /\ name' = [name EXCEPT !.tmp = i]
               /\ kvWriter' = [kvWriter EXCEPT ![p].pc = "write", ![p].ino = i]
  BY DEF OpenTmp
<1>2. /\ kvWriter[p].pc = "open" /\ nonce' = nonce /\ kvRun' = kvRun /\ kvCount' = kvCount
      /\ shared' = shared /\ stale' = stale
  BY DEF OpenTmp
<1>3. Empty \in [n : Nat, w : Nat]
  BY DEF Empty
<1>5. OneWriter /\ RunSees /\ KvRecords
  BY <1>0
<1>6. i \in Inode /\ i # name.key /\ i # 0
  BY <1>1, <1>2, <1>5, TmpIsFree DEF OneWriter, Inode
<1>4. KvRecords'
  <2>1. i \in Nat
    BY <1>6 DEF Inode
  <2>2. kvWriter' \in [KvProc -> [pc : {"idle", "open", "write", "rename"},
                                  value : [n : Nat, w : Nat], ino : Nat]]
    <3>1. [kvWriter[p] EXCEPT !.pc = "write", !.ino = i]
            \in [pc : {"idle", "open", "write", "rename"}, value : [n : Nat, w : Nat], ino : Nat]
      BY <1>5, <2>1 DEF KvRecords
    <3>2. kvWriter' = [kvWriter EXCEPT ![p] = [kvWriter[p] EXCEPT !.pc = "write", !.ino = i]]
      BY <1>1, <1>5 DEF KvRecords
    <3> QED BY <1>5, <3>1, <3>2 DEF KvRecords
  <2>3. inode' \in [Inode -> [n : Nat, w : Nat]]
    BY <1>1, <1>3, <1>5 DEF KvRecords
  <2> QED BY <1>2, <1>5, <2>2, <2>3 DEF KvRecords
<1>7. /\ name'.key = name.key /\ name'.tmp = i
      /\ name' \in [key : 0..MaxKvWrites, tmp : 0..MaxKvWrites]
      /\ name.key # 0 => inode'[name.key] = inode[name.key]
  BY <1>1, <1>5, <1>6 DEF OneWriter, KvRecords, Inode
<1>8. KvGet' = KvGet
  BY <1>7 DEF KvGet
<1>9. /\ \A q \in KvProc \ {p} : kvWriter'[q] = kvWriter[q]
      /\ kvWriter'[p].pc = "write" /\ kvWriter'[p].ino = i /\ kvWriter'[p].value = kvWriter[p].value
  BY <1>1, <1>5 DEF KvRecords
<1>10. \A q \in KvProc : (Active(q)' <=> Active(q)) /\ (Active(q) => q = p)
  BY <1>2, <1>5, <1>9 DEF Active, OneWriter
<1>11. OneWriter'
  <2>1. ASSUME NEW q \in KvProc
        PROVE  /\ Active(q)' => kvWriter'[q].value.w = kvCount'.writes /\ KvGet'.w < kvCount'.writes
               /\ kvWriter'[q].ino = IF kvWriter'[q].pc = "write" THEN name'.tmp ELSE 0
               /\ kvWriter'[q].pc \in {"write", "rename"} => name'.tmp # 0
               /\ kvWriter'[q].pc = "rename" => inode'[name'.tmp] = kvWriter'[q].value
    <3>1. CASE q = p
      BY <1>2, <1>5, <1>6, <1>7, <1>8, <1>9, <1>10, <3>1 DEF OneWriter
    <3>2. CASE q # p
      BY <1>2, <1>5, <1>9, <1>10, <3>2 DEF OneWriter, Active
    <3> QED BY <3>1, <3>2
  <2>2. name'.key # 0 => inode'[name'.key].w \in 1..kvCount'.writes
    BY <1>2, <1>5, <1>7 DEF OneWriter
  <2> QED BY <1>6, <1>7, <1>10, <2>1, <2>2 DEF OneWriter
<1>12. RunSees'
  BY <1>2, <1>5, <1>8, <1>10 DEF RunSees
<1> QED BY <1>0, <1>2, <1>4, <1>11, <1>12

(* Its second half, into the file that was opened.                         *)
LEMMA WriteTmpInv ==
  ASSUME KvInv, NEW p \in KvProc, WriteTmp(p)
  PROVE  KvInv'
<1> USE KvAssumption
<1> SUFFICES ASSUME ~shared' PROVE KvRecords' /\ ~stale' /\ OneWriter' /\ RunSees'
  BY DEF KvInv
<1>0. ~shared /\ KvRecords /\ ~stale /\ OneWriter /\ RunSees
  BY DEF KvInv, WriteTmp
<1>1. /\ kvWriter[p].pc = "write"
      /\ inode' = [inode EXCEPT ![kvWriter[p].ino] = kvWriter[p].value]
      /\ kvWriter' = [kvWriter EXCEPT ![p].pc = "rename", ![p].ino = 0]
      /\ name' = name /\ nonce' = nonce /\ kvRun' = kvRun /\ kvCount' = kvCount
      /\ shared' = shared /\ stale' = stale
  BY DEF WriteTmp
<1>2. KvRecords'
  BY ZenonT(40), <1>0, <1>1 DEF KvRecords
<1>3. OneWriter /\ RunSees /\ KvRecords
  BY <1>0
<1>4. kvWriter[p].ino = name.tmp /\ name.tmp \in Inode /\ name.tmp # 0 /\ name.tmp # name.key
  BY <1>1, <1>3 DEF OneWriter, Inode
<1>5. /\ name.key # 0 => inode'[name.key] = inode[name.key]
      /\ inode'[name.tmp] = kvWriter[p].value
  BY <1>1, <1>3, <1>4 DEF OneWriter, KvRecords, Inode
<1>6. KvGet' = KvGet
  BY <1>1, <1>5 DEF KvGet
<1>7. /\ \A q \in KvProc \ {p} : kvWriter'[q] = kvWriter[q]
      /\ kvWriter'[p].pc = "rename" /\ kvWriter'[p].ino = 0 /\ kvWriter'[p].value = kvWriter[p].value
  BY <1>1, <1>3 DEF KvRecords
<1>8. \A q \in KvProc : (Active(q)' <=> Active(q)) /\ (Active(q) => q = p)
  BY <1>1, <1>3, <1>7 DEF Active, OneWriter
<1>9. OneWriter'
  <2>1. ASSUME NEW q \in KvProc
        PROVE  /\ Active(q)' => kvWriter'[q].value.w = kvCount'.writes /\ KvGet'.w < kvCount'.writes
               /\ kvWriter'[q].ino = IF kvWriter'[q].pc = "write" THEN name'.tmp ELSE 0
               /\ kvWriter'[q].pc \in {"write", "rename"} => name'.tmp # 0
               /\ kvWriter'[q].pc = "rename" => inode'[name'.tmp] = kvWriter'[q].value
    <3>1. CASE q = p
      BY <1>1, <1>3, <1>4, <1>5, <1>6, <1>7, <1>8, <3>1 DEF OneWriter
    <3>2. CASE q # p
      BY <1>1, <1>3, <1>7, <1>8, <3>2 DEF OneWriter, Active
    <3> QED BY <3>1, <3>2
  <2>2. name'.key # 0 => inode'[name'.key].w \in 1..kvCount'.writes
    BY <1>1, <1>3, <1>5 DEF OneWriter
  <2> QED BY <1>1, <1>3, <1>8, <2>1, <2>2 DEF OneWriter
<1>10. RunSees'
  BY <1>1, <1>3, <1>6, <1>8 DEF RunSees
<1> QED BY <1>0, <1>1, <1>2, <1>9, <1>10

(* The rename puts the newest value in place and ends the call.            *)
LEMMA RenameTmpInv ==
  ASSUME KvInv, NEW p \in KvProc, RenameTmp(p)
  PROVE  KvInv'
<1> USE KvAssumption
<1> SUFFICES ASSUME ~shared' PROVE KvRecords' /\ ~stale' /\ OneWriter' /\ RunSees'
  BY DEF KvInv
<1>0. ~shared /\ KvRecords /\ ~stale /\ OneWriter /\ RunSees
  BY DEF KvInv, RenameTmp
<1>1. /\ kvWriter[p].pc = "rename"
      /\ name' = (IF name.tmp = 0 THEN name ELSE [key |-> name.tmp, tmp |-> 0])
      /\ kvWriter' = [kvWriter EXCEPT ![p] = NotWriting]
      /\ inode' = inode /\ nonce' = nonce /\ kvRun' = kvRun /\ kvCount' = kvCount
      /\ shared' = shared /\ stale' = stale
  BY DEF RenameTmp
<1>2. NotWriting \in [pc : {"idle", "open", "write", "rename"}, value : [n : Nat, w : Nat], ino : Nat]
  BY DEF NotWriting, Empty
<1>3. KvRecords'
  BY <1>0, <1>1, <1>2 DEF KvRecords
<1>4. OneWriter /\ RunSees /\ KvRecords
  BY <1>0
<1>5. /\ name' = [key |-> name.tmp, tmp |-> 0] /\ name.tmp \in Inode /\ name.tmp # 0
      /\ inode[name.tmp] = kvWriter[p].value /\ kvWriter[p].value.w = kvCount.writes
      /\ KvGet.w < kvCount.writes
  BY <1>1, <1>4 DEF OneWriter, Active, Inode
<1>6. KvGet.w \in Nat /\ kvCount.writes \in Nat /\ kvCount.writes <= MaxKvWrites
  BY <1>4, KvGetTyped DEF OneWriter, KvRecords
<1>7. KvGet' = kvWriter[p].value
  BY <1>1, <1>5 DEF KvGet
<1>8. /\ \A q \in KvProc : ~Active(q)' /\ kvWriter'[q].ino = 0
      /\ \A q \in KvProc : kvWriter'[q].pc = "idle"
  BY <1>1, <1>4 DEF KvRecords, OneWriter, Active, NotWriting
<1>9. OneWriter'
  BY <1>1, <1>5, <1>6, <1>8 DEF OneWriter, Inode
<1>10. RunSees'
  BY <1>1, <1>4, <1>5, <1>7, <1>8 DEF RunSees, KvRecords, Active
<1> QED BY <1>0, <1>1, <1>3, <1>9, <1>10

LEMMA KvCrashInv ==
  ASSUME KvInv, NEW p \in KvProc, KvCrash(p)
  PROVE  KvInv'
<1> USE KvAssumption
<1> SUFFICES ASSUME ~shared' PROVE KvRecords' /\ ~stale' /\ OneWriter' /\ RunSees'
  BY DEF KvInv
<1>0. ~shared /\ KvRecords /\ ~stale /\ OneWriter /\ RunSees
  BY DEF KvInv, KvCrash
<1>1. /\ kvWriter' = [kvWriter EXCEPT ![p] = NotWriting]
      /\ inode' = inode /\ name' = name /\ nonce' = nonce /\ kvRun' = kvRun /\ kvCount' = kvCount
      /\ shared' = shared /\ stale' = stale /\ KvGet' = KvGet
  BY DEF KvCrash, KvGet
<1>2. NotWriting \in [pc : {"idle", "open", "write", "rename"}, value : [n : Nat, w : Nat], ino : Nat]
  BY DEF NotWriting, Empty
<1>3. KvRecords'
  BY <1>0, <1>1, <1>2 DEF KvRecords
<1>4. /\ \A q \in KvProc \ {p} : kvWriter'[q] = kvWriter[q]
      /\ kvWriter'[p].pc = "idle" /\ kvWriter'[p].ino = 0
  BY <1>0, <1>1 DEF KvRecords, NotWriting
<1>5. \A q \in KvProc : Active(q)' => Active(q) /\ q # p
  BY <1>4 DEF Active
<1>6. OneWriter'
  BY <1>0, <1>1, <1>4, <1>5 DEF OneWriter
<1>7. RunSees'
  BY <1>0, <1>1, <1>5 DEF RunSees
<1> QED BY <1>0, <1>1, <1>3, <1>6, <1>7

(* Steps of a run, and the clock.                                          *)
LEMMA RunStepInv ==
  ASSUME KvInv, RunStarts \/ RunReads \/ RunConsumes \/ Tick
  PROVE  KvInv'
<1> USE KvAssumption
<1> SUFFICES ASSUME ~shared' PROVE KvRecords' /\ ~stale' /\ OneWriter' /\ RunSees'
  BY DEF KvInv
<1>0. ~shared /\ KvRecords /\ ~stale /\ OneWriter /\ RunSees
  BY DEF KvInv, RunStarts, RunReads, RunConsumes, Tick
<1>1. inode' = inode /\ kvWriter' = kvWriter /\ shared' = shared
  BY DEF RunStarts, RunReads, RunConsumes, Tick
<1>2. \A q \in KvProc : Active(q)' <=> Active(q)
  BY <1>1 DEF Active
<1>3. KvRecords'
  <2>1. kvCount' \in [writes : 0..MaxKvWrites, runs : Nat]
    BY <1>0 DEF RunStarts, RunReads, RunConsumes, Tick, KvRecords
  <2>2. nonce' \in [clock : Nat, last : [KvProc -> Nat]]
    BY <1>0 DEF RunStarts, RunReads, RunConsumes, Tick, KvRecords
  <2> QED BY <1>0, <1>1, <2>1, <2>2 DEF KvRecords
<1>4. OneWriter /\ RunSees /\ KvRecords /\ ~stale /\ KvGet \in [n : Nat, w : Nat]
  BY <1>0, KvGetTyped DEF OneWriter
<1>5. kvCount'.writes = kvCount.writes /\ kvCount.writes \in Nat
  BY <1>4 DEF RunStarts, RunReads, RunConsumes, Tick, KvRecords
<1>6. KvGet.w <= kvCount.writes /\ \A q \in KvProc : Active(q) => KvGet.w < kvCount.writes
  BY <1>4, <1>5 DEF OneWriter, KvGet, Empty
<1>7. CASE RunConsumes
  <2>1. /\ name' = [name EXCEPT !.key = 0] /\ kvRun' = [kvRun EXCEPT !.pc = "idle"] /\ stale' = stale
        /\ KvGet' = Empty
    BY <1>4, <1>7 DEF RunConsumes, KvGet, OneWriter
  <2>2. \A q \in KvProc : Active(q) => 0 < kvCount.writes
    <3> SUFFICES ASSUME NEW q \in KvProc, Active(q) PROVE 0 < kvCount.writes
      OBVIOUS
    <3>1. KvGet.w < kvCount.writes /\ KvGet.w \in Nat
      BY <1>4, <1>6
    <3> QED BY <1>5, <3>1
  <2>3. OneWriter'
    BY <1>1, <1>2, <1>4, <1>5, <2>1, <2>2 DEF OneWriter, Empty
  <2>4. RunSees' /\ ~stale'
    BY <1>4, <2>1 DEF RunSees
  <2> QED BY <1>3, <2>3, <2>4
<1>8. CASE RunStarts \/ RunReads \/ Tick
  <2>1. name' = name /\ KvGet' = KvGet
    BY <1>1, <1>8 DEF RunStarts, RunReads, Tick, KvGet
  <2>2. OneWriter'
    BY <1>1, <1>2, <1>4, <1>5, <2>1 DEF OneWriter
  <2> SUFFICES ~stale' /\ RunSees'
    BY <1>3, <2>2
  <2>3. CASE RunStarts
    <3>1. /\ kvRun' = [pc |-> "running", before |-> KvGet.n, since |-> KvGet.w, took |-> Empty]
          /\ stale' = stale /\ Empty \in [n : Nat, w : Nat]
      BY <2>3 DEF RunStarts, Empty
    <3>2. KvGet = [n |-> KvGet.n, w |-> KvGet.w] /\ KvGet.n \in Nat /\ KvGet.w \in Nat
      BY <1>4
    <3> QED BY <1>2, <1>4, <1>5, <1>6, <2>1, <3>1, <3>2 DEF RunSees
  <2>4. CASE RunReads
    <3>1. ~(NewAction(KvGet, kvRun.before) /\ KvGet.w <= kvRun.since)
      BY <1>4, <2>4 DEF RunReads, RunSees, NewAction
    <3>2. kvRun' \in [pc : {"idle", "consuming"}, before : Nat, since : Nat, took : [n : Nat, w : Nat]]
      BY <1>4, <2>4 DEF RunReads, RunSees
    <3> QED BY <1>4, <2>4, <3>1, <3>2 DEF RunReads, RunSees
  <2>5. CASE Tick
    BY <1>2, <1>4, <1>5, <2>1, <2>5 DEF Tick, RunSees
  <2> QED BY <1>8, <2>3, <2>4, <2>5
<1> QED BY <1>7, <1>8

(* Unless two processes shared the .tmp name at a time, whatever processes *)
(* do and wherever they die, no reply has carried a stale action.          *)
THEOREM KvInvariant == KvSpec => []KvInv
<1>1. KvInv /\ UNCHANGED kvVars => KvInv'
  BY DEF kvVars, KvInv, KvRecords, OneWriter, RunSees, Active, KvGet
<1>2. KvInv /\ [KvNext]_kvVars => KvInv'
  BY <1>1, BrowserCallInv, OpenTmpInv, WriteTmpInv, RenameTmpInv, KvCrashInv, RunStepInv DEF KvNext
<1> QED BY <1>2, KvInvInit, PTL DEF KvSpec

(* store.rs with session.rs, stryke_run: while the processes that store    *)
(* actions do not overlap, whenever any of them dies, no reply of a run    *)
(* carries an action that was queued before the run began.                 *)
THEOREM RepliesAreFresh == KvSpec => []PiggybackIsFresh
<1>1. KvInv => PiggybackIsFresh
  BY DEF KvInv, PiggybackIsFresh
<1> QED BY <1>1, KvInvariant, PTL

(* store.rs:141-142, which two writers at once belie, is true of one at a  *)
(* time: wherever writers die, no reader finds a half-written value.       *)
THEOREM LoneWritersAreAtomic == KvSpec => [](~shared => NeverHalfWritten)
<1>1. KvInv /\ ~shared => NeverHalfWritten
  <2> SUFFICES ASSUME KvInv, ~shared, name.key # 0 PROVE inode[name.key].w # 0
    BY DEF NeverHalfWritten, KvTorn, Empty
  <2>1. inode[name.key].w \in 1..kvCount.writes
    BY DEF KvInv, OneWriter
  <2>2. kvCount.writes \in Nat
    BY DEF KvInv, KvRecords
  <2> QED BY <2>1, <2>2
<1> QED BY <1>1, KvInvariant, PTL

(* The inodes in use, and the writers about to open the temporary file.    *)
InUse == ({name.key, name.tmp} \cup {kvWriter[p].ino : p \in KvProc}) \ {0}
Opening == {p \in KvProc : kvWriter[p].pc = "open"}

(* Whoever writes beside whom, records keep their shape and there is an    *)
(* inode for every file that is yet to be created.                         *)
KvShape ==
  /\ kvWriter \in [KvProc -> [pc : {"idle", "open", "write", "rename"},
                              value : [n : Nat, w : Nat], ino : 0..MaxKvWrites]]
  /\ kvCount \in [writes : 0..MaxKvWrites, runs : Nat]
  /\ nonce \in [clock : 0..MaxClock, last : [KvProc -> Nat]]
  /\ inode \in [Inode -> [n : Nat, w : Nat]]
  /\ name \in [key : 0..MaxKvWrites, tmp : 0..MaxKvWrites]
  /\ kvRun \in [pc : {"idle", "running", "consuming"}, before : Nat, since : Nat,
                took : [n : Nat, w : Nat]]
  /\ shared \in BOOLEAN /\ stale \in BOOLEAN
  /\ Fits(InUse, Opening, kvCount.writes)

LEMMA KvShapeInit == KvInit => KvShape
<1> SUFFICES ASSUME KvInit PROVE KvShape
  OBVIOUS
<1> USE KvAssumption
<1>1. Empty \in [n : Nat, w : Nat]
  BY DEF Empty
<1>2. InUse = {} /\ Opening = {}
  BY DEF KvInit, InUse, Opening, NotWriting
<1>3. Fits(InUse, Opening, kvCount.writes)
  BY <1>2, FS_EmptySet DEF Fits, KvInit
<1>4. kvWriter \in [KvProc -> [pc : {"idle", "open", "write", "rename"},
                              value : [n : Nat, w : Nat], ino : 0..MaxKvWrites]]
  BY <1>1 DEF KvInit, NotWriting
<1>5. inode \in [Inode -> [n : Nat, w : Nat]] /\ kvRun \in [pc : {"idle", "running", "consuming"},
        before : Nat, since : Nat, took : [n : Nat, w : Nat]]
  BY <1>1 DEF KvInit
<1>6. /\ nonce \in [clock : 0..MaxClock, last : [KvProc -> Nat]]
      /\ kvCount \in [writes : 0..MaxKvWrites, runs : Nat]
      /\ name \in [key : 0..MaxKvWrites, tmp : 0..MaxKvWrites]
      /\ shared \in BOOLEAN /\ stale \in BOOLEAN
  <2>1. 0 \in 0..MaxClock /\ 0 \in 0..MaxKvWrites
    OBVIOUS
  <2>2. nonce \in [clock : 0..MaxClock, last : [KvProc -> Nat]]
    BY <2>1 DEF KvInit
  <2> QED BY <2>1, <2>2 DEF KvInit
<1> QED BY <1>3, <1>4, <1>5, <1>6 DEF KvShape

LEMMA KvShapeCall ==
  ASSUME KvShape, NEW p \in KvProc, BrowserCall(p)
  PROVE  KvShape'
<1> USE KvAssumption
<1>1. PICK new : /\ kvWriter' = [kvWriter EXCEPT ![p] = new]
                 /\ new = [pc |-> "open", ino |-> 0, value |-> [n |-> ActionNonce(p), w |-> kvCount.writes + 1]]
                 /\ kvCount.writes < MaxKvWrites /\ kvCount' = [kvCount EXCEPT !.writes = @ + 1]
                 /\ nonce' = [nonce EXCEPT !.last[p] = ActionNonce(p)]
                 /\ shared' \in BOOLEAN /\ UNCHANGED <<inode, name, kvRun, stale>>
  BY DEF BrowserCall
<1>2. ActionNonce(p) \in Nat
  BY DEF KvShape, ActionNonce, Larger
<1>3. new \in [pc : {"idle", "open", "write", "rename"}, value : [n : Nat, w : Nat], ino : 0..MaxKvWrites]
      /\ new.ino = 0
  BY <1>1, <1>2 DEF KvShape
<1>4. kvCount' \in [writes : 0..MaxKvWrites, runs : Nat] /\ kvCount'.writes = kvCount.writes + 1
  BY <1>1, SMTT(30) DEF KvShape
<1>5. nonce' \in [clock : 0..MaxClock, last : [KvProc -> Nat]]
  BY <1>1, <1>2 DEF KvShape
<1>6. \A q \in KvProc : kvWriter'[q] = IF q = p THEN new ELSE kvWriter[q]
  BY <1>1 DEF KvShape
<1>7. InUse' \subseteq InUse /\ Opening' \subseteq Opening \cup {p}
  BY <1>1, <1>3, <1>6 DEF InUse, Opening
<1>8. Fits(InUse', Opening', kvCount.writes + 1)
  <2>1. Fits(InUse, Opening, kvCount.writes) /\ kvCount.writes \in Nat
    BY DEF KvShape
  <2> QED BY <1>7, <2>1, FitsOneMore
<1>9. kvWriter' \in [KvProc -> [pc : {"idle", "open", "write", "rename"},
                                value : [n : Nat, w : Nat], ino : 0..MaxKvWrites]]
  BY <1>1, <1>3 DEF KvShape
<1> QED BY <1>1, <1>4, <1>5, <1>8, <1>9 DEF KvShape

(* The other steps of a writer: it may take an inode for the one it was to *)
(* open, and else gives up what it holds.                                  *)
LEMMA KvShapePut ==
  ASSUME KvShape, NEW p \in KvProc, NEW new, kvWriter' = [kvWriter EXCEPT ![p] = new],
         new \in [pc : {"idle", "open", "write", "rename"}, value : [n : Nat, w : Nat], ino : 0..MaxKvWrites],
         new.pc # "open", UNCHANGED <<nonce, kvRun, kvCount, shared, stale>>,
         inode' \in [Inode -> [n : Nat, w : Nat]], name' \in [key : 0..MaxKvWrites, tmp : 0..MaxKvWrites],
         \/ {name'.key, name'.tmp} \subseteq {name.key, name.tmp, 0} /\ new.ino = 0
         \/ kvWriter[p].pc = "open" /\ {name'.key, name'.tmp} \subseteq {name.key, new.ino}
  PROVE  KvShape'
<1> USE KvAssumption
<1>1. \A q \in KvProc : kvWriter'[q] = IF q = p THEN new ELSE kvWriter[q]
  BY DEF KvShape
<1>2. Opening' \subseteq Opening \ {p}
  BY <1>1 DEF Opening
<1>3. Fits(InUse', Opening', kvCount.writes)
  <2>0. kvCount.writes \in Nat /\ Fits(InUse, Opening, kvCount.writes)
    BY DEF KvShape
  <2>1. CASE {name'.key, name'.tmp} \subseteq {name.key, name.tmp, 0} /\ new.ino = 0
    <3>1. InUse' \subseteq InUse
      BY <1>1, <2>1 DEF InUse
    <3> QED BY <1>2, <2>0, <3>1, FitsLess DEF KvShape
  <2>2. CASE kvWriter[p].pc = "open" /\ {name'.key, name'.tmp} \subseteq {name.key, new.ino}
    <3>1. InUse' \subseteq InUse \cup {new.ino}
      BY <1>1, <2>2 DEF InUse
    <3>2. p \in Opening
      BY <2>2 DEF Opening
    <3>3. Opening' \in SUBSET (Opening \ {p}) /\ InUse' \in SUBSET (InUse \cup {new.ino})
      BY <1>2, <3>1
    <3> QED BY <2>0, <3>2, <3>3, FitsTaken
  <2> QED BY <2>1, <2>2
<1>4. kvWriter' \in [KvProc -> [pc : {"idle", "open", "write", "rename"},
                                value : [n : Nat, w : Nat], ino : 0..MaxKvWrites]]
  BY DEF KvShape
<1> QED BY <1>3, <1>4 DEF KvShape

LEMMA KvShapeWriter ==
  ASSUME KvShape, NEW p \in KvProc, OpenTmp(p) \/ WriteTmp(p) \/ RenameTmp(p) \/ KvCrash(p)
  PROVE  KvShape'
<1> USE KvAssumption
<1>0. /\ Empty \in [n : Nat, w : Nat]
      /\ NotWriting \in [pc : {"idle", "open", "write", "rename"}, value : [n : Nat, w : Nat], ino : 0..MaxKvWrites]
      /\ NotWriting.ino = 0 /\ NotWriting.pc = "idle"
  BY DEF Empty, NotWriting
<1>1. PICK r : r = kvWriter[p]
  OBVIOUS
<1>2. r \in [pc : {"idle", "open", "write", "rename"}, value : [n : Nat, w : Nat], ino : 0..MaxKvWrites]
  BY <1>1 DEF KvShape
<1>3. CASE OpenTmp(p)
  <2>1. PICK i : /\ i = (IF name.tmp = 0 THEN FreeInode ELSE name.tmp)
                 /\ inode' = [inode EXCEPT ![i] = Empty] /\ name' = [name EXCEPT !.tmp = i]
                 /\ kvWriter' = [kvWriter EXCEPT ![p].pc = "write", ![p].ino = i]
    BY <1>3 DEF OpenTmp
  <2>2. r.pc = "open" /\ UNCHANGED <<nonce, kvRun, kvCount, shared, stale>>
    BY <1>1, <1>3 DEF OpenTmp
  <2>3. i \in 0..MaxKvWrites
    <3>1. CASE name.tmp # 0
      BY <2>1, <3>1 DEF KvShape
    <3>2. CASE name.tmp = 0
      <4>1. p \in Opening /\ kvCount.writes \in Nat /\ kvCount.writes <= MaxKvWrites
        BY <1>1, <2>2 DEF Opening, KvShape
      <4>2. \E j \in 1..MaxKvWrites : j \notin InUse
        BY <4>1, FitsFree DEF KvShape
      <4>3. \E j \in Inode : j \notin {name.key, name.tmp} \cup {kvWriter[q].ino : q \in KvProc}
        BY <4>2 DEF InUse, Inode
      <4>4. FreeInode \in Inode
        BY <4>3, Zenon DEF FreeInode
      <4> QED BY <2>1, <3>2, <4>4 DEF Inode
    <3> QED BY <3>1, <3>2
  <2>4. inode' \in [Inode -> [n : Nat, w : Nat]]
    BY <1>0, <2>1 DEF KvShape
  <2>5. name' \in [key : 0..MaxKvWrites, tmp : 0..MaxKvWrites] /\ name'.key = name.key /\ name'.tmp = i
    BY <2>1, <2>3 DEF KvShape
  <2>6. PICK new : new = [r EXCEPT !.pc = "write", !.ino = i]
    OBVIOUS
  <2>7. new \in [pc : {"idle", "open", "write", "rename"}, value : [n : Nat, w : Nat], ino : 0..MaxKvWrites]
        /\ new.pc = "write" /\ new.ino = i
    BY <1>2, <2>3, <2>6
  <2>8. kvWriter' = [kvWriter EXCEPT ![p] = new]
    BY <1>1, <2>1, <2>6 DEF KvShape
  <2>9. {name'.key, name'.tmp} \subseteq {name.key, new.ino} /\ kvWriter[p].pc = "open"
    BY <1>1, <2>2, <2>5, <2>7
  <2> QED BY <2>2, <2>4, <2>5, <2>7, <2>8, <2>9, KvShapePut
<1>4. CASE WriteTmp(p)
  <2>1. PICK new : new = [r EXCEPT !.pc = "rename", !.ino = 0]
    OBVIOUS
  <2>2. new \in [pc : {"idle", "open", "write", "rename"}, value : [n : Nat, w : Nat], ino : 0..MaxKvWrites]
        /\ new.pc = "rename" /\ new.ino = 0
    <3>1. 0 \in 0..MaxKvWrites
      OBVIOUS
    <3> QED BY <1>2, <2>1, <3>1
  <2>3. kvWriter' = [kvWriter EXCEPT ![p] = new] /\ UNCHANGED <<name, nonce, kvRun, kvCount, shared, stale>>
    BY <1>1, <1>4, <2>1 DEF WriteTmp, KvShape
  <2>4. inode' \in [Inode -> [n : Nat, w : Nat]]
    <3>1. inode' = [inode EXCEPT ![r.ino] = r.value]
      BY <1>1, <1>4 DEF WriteTmp
    <3> QED BY <1>2, <3>1 DEF KvShape
  <2>5. name' \in [key : 0..MaxKvWrites, tmp : 0..MaxKvWrites] /\ {name'.key, name'.tmp} \subseteq {name.key, name.tmp, 0}
    BY <2>3 DEF KvShape
  <2>6. new.pc # "open"
    BY <2>2
  <2> QED BY <2>2, <2>3, <2>4, <2>5, <2>6, KvShapePut
<1>5. CASE RenameTmp(p)
  <2>1. kvWriter' = [kvWriter EXCEPT ![p] = NotWriting] /\ UNCHANGED <<inode, nonce, kvRun, kvCount, shared, stale>>
        /\ name' = IF name.tmp = 0 THEN name ELSE [key |-> name.tmp, tmp |-> 0]
    BY <1>5 DEF RenameTmp
  <2>2. name' \in [key : 0..MaxKvWrites, tmp : 0..MaxKvWrites] /\ {name'.key, name'.tmp} \subseteq {name.key, name.tmp, 0}
    BY <2>1 DEF KvShape
  <2>3. inode' \in [Inode -> [n : Nat, w : Nat]]
    BY <2>1 DEF KvShape
  <2> QED BY <1>0, <2>1, <2>2, <2>3, KvShapePut
<1>6. CASE KvCrash(p)
  <2>1. kvWriter' = [kvWriter EXCEPT ![p] = NotWriting] /\ UNCHANGED <<inode, name, nonce, kvRun, kvCount, shared, stale>>
    BY <1>6 DEF KvCrash
  <2>2. name' \in [key : 0..MaxKvWrites, tmp : 0..MaxKvWrites] /\ {name'.key, name'.tmp} \subseteq {name.key, name.tmp, 0}
    BY <2>1 DEF KvShape
  <2>3. inode' \in [Inode -> [n : Nat, w : Nat]]
    BY <2>1 DEF KvShape
  <2> QED BY <1>0, <2>1, <2>2, <2>3, KvShapePut
<1> QED BY <1>3, <1>4, <1>5, <1>6

(* store.rs: the slot's files, its writers and the run keep their shape,   *)
(* also while writers overlap or have died.                                *)
THEOREM KvTypes == KvSpec => []KvTypeOK
<1> USE KvAssumption
<1>1. KvShape /\ [KvNext]_kvVars => KvShape'
  <2> SUFFICES ASSUME KvShape, [KvNext]_kvVars PROVE KvShape'
    OBVIOUS
  <2>0. KvGet \in [n : Nat, w : Nat] /\ Empty \in [n : Nat, w : Nat]
    BY DEF KvShape, KvGet, Empty, Inode
  <2>1. CASE Tick
    <3>1. nonce' \in [clock : 0..MaxClock, last : [KvProc -> Nat]]
      BY <2>1 DEF Tick, KvShape
    <3>2. UNCHANGED <<InUse, Opening>>
      BY <2>1 DEF Tick, InUse, Opening
    <3> QED BY <2>1, <3>1, <3>2 DEF Tick, KvShape
  <2>2. CASE RunStarts
    <3>1. kvRun' \in [pc : {"idle", "running", "consuming"}, before : Nat, since : Nat, took : [n : Nat, w : Nat]]
      BY <2>0, <2>2 DEF RunStarts
    <3>2. kvCount' \in [writes : 0..MaxKvWrites, runs : Nat] /\ kvCount'.writes = kvCount.writes
      BY <2>2 DEF RunStarts, KvShape
    <3>3. UNCHANGED <<InUse, Opening>>
      BY <2>2 DEF RunStarts, InUse, Opening
    <3> QED BY <2>2, <3>1, <3>2, <3>3 DEF RunStarts, KvShape
  <2>3. CASE RunReads
    <3>1. kvRun' \in [pc : {"idle", "running", "consuming"}, before : Nat, since : Nat, took : [n : Nat, w : Nat]]
      BY <2>0, <2>3 DEF RunReads, KvShape
    <3>2. stale' \in BOOLEAN
      BY <2>3 DEF RunReads
    <3>3. UNCHANGED <<InUse, Opening>>
      BY <2>3 DEF RunReads, InUse, Opening
    <3> QED BY <2>3, <3>1, <3>2, <3>3 DEF RunReads, KvShape
  <2>4. CASE RunConsumes
    <3>1. kvRun' \in [pc : {"idle", "running", "consuming"}, before : Nat, since : Nat, took : [n : Nat, w : Nat]]
      BY <2>4 DEF RunConsumes, KvShape
    <3>2. name' \in [key : 0..MaxKvWrites, tmp : 0..MaxKvWrites] /\ name'.key = 0 /\ name'.tmp = name.tmp
      BY <2>4 DEF RunConsumes, KvShape
    <3>3. InUse' \subseteq InUse /\ Opening' \subseteq Opening
      BY <2>4, <3>2 DEF RunConsumes, InUse, Opening
    <3>4. Fits(InUse', Opening', kvCount.writes)
      BY <3>3, FitsLess DEF KvShape
    <3> QED BY <2>4, <3>1, <3>2, <3>4 DEF RunConsumes, KvShape
  <2>5. ASSUME NEW p \in KvProc, BrowserCall(p) \/ OpenTmp(p) \/ WriteTmp(p) \/ RenameTmp(p) \/ KvCrash(p)
        PROVE  KvShape'
    BY <2>5, KvShapeCall, KvShapeWriter
  <2>6. CASE UNCHANGED kvVars
    BY <2>6 DEF kvVars, KvShape, InUse, Opening
  <2> QED BY <2>1, <2>2, <2>3, <2>4, <2>5, <2>6 DEF KvNext
<1>2. KvShape => KvTypeOK
  BY DEF KvShape, KvTypeOK
<1> QED BY KvShapeInit, <1>1, <1>2, PTL DEF KvSpec

-----------------------------------------------------------------------------
(***************************************************************************)
(* The host log (HostLog).  A trim replaces the file by a tail it read     *)
(* earlier; while no append or other trim crosses it, that tail is still   *)
(* the newest there is when it is put in place.                            *)
(***************************************************************************)

(* An unbroken run of the newest of n entries.                             *)
IsNewest(s, n) ==
  /\ s \in Seq(Nat) /\ Len(s) <= n
  /\ \A i \in 1..Len(s) : s[i] = n - Len(s) + i

HasTail(p) == /\ IsNewest(recorder[p].tail, recorded)
              /\ Len(recorder[p].tail) = TrimKeep /\ recorded > 0

LogRecords ==
  /\ lines \in [LogInode -> Seq(Nat)]
  /\ logName \in [log : LogInode, tmp : LogInode \cup {0}] /\ logName.tmp # logName.log
  /\ recorded \in 0..MaxEntries
  /\ recorder = [p \in LogProc |-> [pc |-> recorder[p].pc, tail |-> recorder[p].tail,
                                    ino |-> recorder[p].ino]]

(* The file a trim has under its hands has the temporary name, and what it *)
(* will put in place is the newest entries.                                *)
OneTrim ==
  /\ \A p, q \in LogProc : Trimming(p) /\ Trimming(q) => p = q
  /\ \A p \in LogProc :
       /\ Trimming(p) => HasTail(p)
       /\ recorder[p].ino = IF RecorderAt(p, "write") THEN logName.tmp ELSE 0
       /\ recorder[p].pc \in {"write", "rename"} => logName.tmp # 0
       /\ RecorderAt(p, "write") => lines[logName.tmp] = <<>>
       /\ RecorderAt(p, "rename") => lines[logName.tmp] = recorder[p].tail

KeptNewest == IsNewest(Log, recorded) /\ (Len(Log) = recorded \/ Len(Log) >= TrimKeep)

LogInv == ~crossed => LogRecords /\ OneTrim /\ KeptNewest

LEMMA Stepped ==
  ASSUME NEW r, r = [pc |-> r.pc, tail |-> r.tail, ino |-> r.ino], NEW pc, NEW ino,
         NEW new, new = [r EXCEPT !.pc = pc, !.ino = ino]
  PROVE  new = [pc |-> pc, tail |-> r.tail, ino |-> ino]
<1>1. PICK was, kept, had : r = [pc |-> was, tail |-> kept, ino |-> had]
  OBVIOUS
<1>2. r.tail = kept
  BY <1>1
<1>3. new = [pc |-> pc, tail |-> kept, ino |-> ino]
  BY <1>1
<1> QED BY <1>2, <1>3

LEMMA LogConstants == MaxEntries \in Nat /\ TrimPast \in Nat /\ TrimKeep \in Nat
BY HostLogAssumption

LEMMA LogInvInit == HostLogInit => LogInv
<1> USE LogConstants
<1> SUFFICES ASSUME HostLogInit PROVE LogInv
  OBVIOUS
<1>1. 1 \in LogInode /\ <<>> \in Seq(Nat) /\ Len(<<>>) = 0 /\ 0 \notin LogInode
  BY DEF LogInode
<1>2. \A p \in LogProc : recorder[p] = Idle
  BY DEF HostLogInit
<1>3. LogRecords
  BY <1>1, <1>2 DEF HostLogInit, LogRecords, Idle
<1>4. OneTrim
  BY <1>2 DEF OneTrim, Trimming, RecorderAt, Idle
<1>5. KeptNewest
  BY <1>1 DEF HostLogInit, KeptNewest, IsNewest, Log
<1> QED BY <1>3, <1>4, <1>5 DEF LogInv

(* One more entry at the end of such a run makes one.                      *)
LEMMA AppendNewest ==
  ASSUME NEW s, NEW n \in Nat, IsNewest(s, n)
  PROVE  /\ IsNewest(Append(s, n + 1), n + 1) /\ Len(Append(s, n + 1)) = Len(s) + 1
         /\ Append(s, n + 1) \in Seq(Nat) /\ Len(s) \in Nat
<1>1. /\ Append(s, n + 1) \in Seq(Nat) /\ Len(Append(s, n + 1)) = Len(s) + 1 /\ Len(s) \in Nat
      /\ \A i \in 1..Len(s) : Append(s, n + 1)[i] = s[i]
      /\ Append(s, n + 1)[Len(s) + 1] = n + 1
  BY AppendProperties, LenProperties DEF IsNewest
<1>2. ASSUME NEW i \in 1..(Len(s) + 1)
      PROVE  Append(s, n + 1)[i] = (n + 1) - (Len(s) + 1) + i
  <2>1. CASE i = Len(s) + 1
    BY <1>1, <2>1
  <2>2. CASE i # Len(s) + 1
    <3>1. i \in 1..Len(s)
      BY <1>1, <2>2
    <3> QED BY <1>1, <3>1 DEF IsNewest
  <2> QED BY <2>1, <2>2
<1> QED BY <1>1, <1>2 DEF IsNewest

(* What a trim keeps is such a run.                                        *)
LEMMA TrimmedNewest ==
  ASSUME NEW s, NEW n \in Nat, IsNewest(s, n), Len(s) > TrimKeep
  PROVE  IsNewest(Newest(s), n) /\ Len(Newest(s)) = TrimKeep
<1>1. s \in Seq(Nat) /\ Len(s) \in Nat /\ Len(s) <= n
  BY LenProperties DEF IsNewest
<1>2. PICK k \in Nat : k = TrimKeep
  BY LogConstants
<1>3. PICK m \in Int : m = Len(s) - k + 1 /\ m >= 1 /\ m <= Len(s) + 1
  <2>1. Len(s) > k
    BY <1>2
  <2>2. /\ Len(s) - k + 1 \in Int /\ Len(s) - k + 1 >= 1
        /\ Len(s) - k + 1 <= Len(s) + 1
    BY <1>1, <2>1
  <2> QED BY <2>2, Zenon
<1>4. \A i \in m..Len(s) : s[i] \in Nat
  BY <1>1, <1>3, ElementOfSeq
<1>5. /\ SubSeq(s, m, Len(s)) \in Seq(Nat)
      /\ Len(SubSeq(s, m, Len(s))) = IF m <= Len(s) THEN Len(s) - m + 1 ELSE 0
      /\ \A i \in 1..(Len(s) - m + 1) : SubSeq(s, m, Len(s))[i] = s[m + i - 1]
  BY <1>1, <1>3, <1>4, SubSeqProperties
<1>6. Newest(s) = SubSeq(s, m, Len(s))
  BY <1>2, <1>3 DEF Newest
<1>7. Len(s) - m + 1 = k
  BY <1>1, <1>3
<1>8. Len(Newest(s)) = k
  BY <1>1, <1>3, <1>5, <1>6, <1>7
<1>9. ASSUME NEW i \in 1..k PROVE Newest(s)[i] = n - k + i
  <2>1. Newest(s)[i] = s[m + i - 1]
    BY <1>5, <1>6, <1>7
  <2>2. m + i - 1 \in 1..Len(s)
    BY <1>1, <1>3
  <2>3. s[m + i - 1] = n - Len(s) + (m + i - 1)
    BY <2>2 DEF IsNewest
  <2> QED BY <1>1, <1>3, <2>1, <2>3
<1>10. Newest(s) \in Seq(Nat)
  BY <1>5, <1>6
<1> QED BY <1>1, <1>2, <1>8, <1>9, <1>10 DEF IsNewest

LEMMA RecordInv ==
  ASSUME LogInv, NEW p \in LogProc, RecordReply(p)
  PROVE  LogInv'
<1> USE LogConstants
<1> SUFFICES ASSUME ~crossed' PROVE LogRecords' /\ OneTrim' /\ KeptNewest'
  BY DEF LogInv
<1>1. /\ recorder[p].pc = "idle" /\ recorded < MaxEntries /\ recorded' = recorded + 1
      /\ lines' = [lines EXCEPT ![logName.log] = Append(@, recorded + 1)]
      /\ recorder' = [recorder EXCEPT ![p].pc = "size"]
      /\ logName' = logName /\ ~crossed /\ \A q \in LogProc : ~Trimming(q)
  BY DEF RecordReply, RecorderAt
<1>2. LogRecords /\ OneTrim /\ KeptNewest
  BY <1>1 DEF LogInv
<1>3. logName.log \in LogInode /\ recorded \in Nat /\ IsNewest(Log, recorded)
      /\ Log = lines[logName.log] /\ lines[logName.log] \in Seq(Nat)
  BY <1>2 DEF LogRecords, KeptNewest, Log
<1>4. Log' = Append(Log, recorded + 1)
  BY <1>1, <1>2, <1>3 DEF Log, LogRecords
<1>5. /\ IsNewest(Log', recorded + 1) /\ Len(Log') = Len(Log) + 1 /\ Log' \in Seq(Nat) /\ Len(Log) \in Nat
  BY <1>3, <1>4, AppendNewest
<1>6. KeptNewest'
  BY <1>1, <1>2, <1>3, <1>5, SMTT(30) DEF KeptNewest
<1>7. /\ recorder' = [q \in LogProc |-> [pc |-> recorder'[q].pc, tail |-> recorder'[q].tail,
                                         ino |-> recorder'[q].ino]]
      /\ \A q \in LogProc : /\ recorder'[q].ino = recorder[q].ino
                            /\ recorder'[q].pc = IF q = p THEN "size" ELSE recorder[q].pc
  <2>1. recorder' = [q \in LogProc |-> recorder'[q]]
    BY <1>1, <1>2 DEF LogRecords
  <2>2. \A q \in LogProc : recorder'[q] =
          IF q = p THEN [pc |-> "size", tail |-> recorder[p].tail, ino |-> recorder[p].ino]
          ELSE recorder[q]
    BY SMTT(30), <1>1, <1>2 DEF LogRecords
  <2>3. \A q \in LogProc : recorder'[q] = [pc |-> recorder'[q].pc, tail |-> recorder'[q].tail,
                                           ino |-> recorder'[q].ino]
    BY <1>2, <2>2 DEF LogRecords
  <2>4. recorder' = [q \in LogProc |-> [pc |-> recorder'[q].pc, tail |-> recorder'[q].tail,
                                        ino |-> recorder'[q].ino]]
    BY <2>1, <2>3, Zenon
  <2> QED BY <2>2, <2>4
<1>8. LogRecords'
  <2>1. lines' \in [LogInode -> Seq(Nat)]
    BY <1>1, <1>2, <1>3, <1>4, <1>5 DEF LogRecords
  <2>2. recorded' \in 0..MaxEntries
    BY <1>1, <1>2 DEF LogRecords
  <2>3. logName' \in [log : LogInode, tmp : LogInode \cup {0}] /\ logName'.tmp # logName'.log
    BY <1>1, <1>2 DEF LogRecords
  <2> QED BY <1>7, <2>1, <2>2, <2>3, Zenon DEF LogRecords
<1>9. OneTrim'
  <2>1. \A q \in LogProc : ~Trimming(q)' /\ recorder'[q].ino = 0
    BY <1>1, <1>2, <1>7 DEF OneTrim, Trimming, RecorderAt
  <2> QED BY <2>1 DEF OneTrim, Trimming, RecorderAt
<1> QED BY <1>6, <1>8, <1>9

LEMMA TrimReadsInv ==
  ASSUME LogInv, NEW p \in LogProc, TrimReads(p)
  PROVE  LogInv'
<1> USE LogConstants
<1> SUFFICES ASSUME ~crossed' PROVE LogRecords' /\ OneTrim' /\ KeptNewest'
  BY DEF LogInv
<1>1. /\ recorder[p].pc = "size" /\ lines' = lines /\ logName' = logName /\ recorded' = recorded
      /\ ~crossed /\ \A q \in LogProc : ~Trimming(q)
  BY DEF TrimReads, RecorderAt
<1>2. LogRecords /\ OneTrim /\ KeptNewest
  BY <1>1 DEF LogInv
<1>3. PICK r : /\ recorder' = [recorder EXCEPT ![p] = r]
               /\ \/ r = Idle
                  \/ /\ r = [Idle EXCEPT !.pc = "tmp", !.tail = Newest(Log)]
                     /\ Len(Log) > TrimPast /\ Len(Log) > TrimKeep
  BY DEF TrimReads
<1>4. /\ r = [pc |-> r.pc, tail |-> r.tail, ino |-> 0] /\ r.ino = 0
      /\ r.pc = "idle" \/ (r.pc = "tmp" /\ IsNewest(r.tail, recorded)
                           /\ Len(r.tail) = TrimKeep /\ recorded > 0)
  <2>1. CASE r = Idle
    BY <2>1 DEF Idle
  <2>2. CASE r = [Idle EXCEPT !.pc = "tmp", !.tail = Newest(Log)] /\ Len(Log) > TrimPast /\ Len(Log) > TrimKeep
    <3>1. IsNewest(Newest(Log), recorded) /\ Len(Newest(Log)) = TrimKeep
      <4>1. IsNewest(Log, recorded) /\ recorded \in Nat /\ Len(Log) > TrimKeep
        BY <1>2, <2>2 DEF KeptNewest, LogRecords
      <4> QED BY <4>1, TrimmedNewest
    <3>2. Len(Log) \in Nat /\ Len(Log) <= recorded /\ recorded \in Nat
      BY <1>2, LenProperties DEF KeptNewest, IsNewest, LogRecords
    <3>3. recorded > 0
      BY <2>2, <3>2
    <3>4. r.pc = "tmp" /\ r.tail = Newest(Log) /\ r.ino = 0 /\ r = [pc |-> r.pc, tail |-> r.tail, ino |-> 0]
      BY <2>2 DEF Idle
    <3> QED BY <3>1, <3>3, <3>4
  <2> QED BY <1>3, <2>1, <2>2
<1>5. \A q \in LogProc : recorder'[q] = IF q = p THEN r ELSE recorder[q]
  BY <1>2, <1>3 DEF LogRecords
<1>6. LogRecords'
  <2>1. recorder' = [q \in LogProc |-> recorder'[q]]
    BY <1>2, <1>3 DEF LogRecords
  <2>2. \A q \in LogProc : recorder'[q] = [pc |-> recorder'[q].pc, tail |-> recorder'[q].tail,
                                           ino |-> recorder'[q].ino]
    BY <1>2, <1>4, <1>5 DEF LogRecords
  <2> QED BY <1>1, <1>2, <2>1, <2>2 DEF LogRecords
<1>7. \A q \in LogProc : Trimming(q)' => q = p
  BY <1>1, <1>5 DEF Trimming
<1>8. OneTrim'
  BY <1>1, <1>2, <1>4, <1>5, <1>7 DEF OneTrim, Trimming, RecorderAt, HasTail
<1> QED BY <1>1, <1>2, <1>6, <1>8 DEF KeptNewest, Log

(* There is a file to write to besides the log.                            *)
LEMMA TrimOpensInv ==
  ASSUME LogInv, NEW p \in LogProc, TrimOpens(p)
  PROVE  LogInv'
<1> USE LogConstants
<1> SUFFICES ASSUME ~crossed' PROVE LogRecords' /\ OneTrim' /\ KeptNewest'
  BY DEF LogInv
<1> DEFINE Free == LogInode \ ({logName.log} \cup {recorder[q].ino : q \in LogProc})
<1>1. PICK i : /\ i = (IF logName.tmp # 0 THEN logName.tmp ELSE Min(Free))
               /\ lines' = [lines EXCEPT ![i] = <<>>]
               /\ logName' = [logName EXCEPT !.tmp = i]
               /\ recorder' = [recorder EXCEPT ![p].pc = "write", ![p].ino = i]
  BY DEF TrimOpens
<1>2. recorder[p].pc = "tmp" /\ recorded' = recorded /\ ~crossed
  BY DEF TrimOpens, RecorderAt
<1>3. LogRecords /\ OneTrim /\ KeptNewest
  BY <1>2 DEF LogInv
<1>4. \A q \in LogProc : /\ recorder[q].ino = 0 /\ (q # p => ~Trimming(q))
  BY <1>2, <1>3 DEF OneTrim, Trimming, RecorderAt
<1>5. i \in LogInode /\ i # logName.log /\ i # 0
  <2>1. CASE logName.tmp # 0
    BY <1>1, <1>3, <2>1 DEF LogRecords
  <2>2. CASE logName.tmp = 0
    <3>1. HasTail(p)
      BY <1>2, <1>3 DEF OneTrim, Trimming
    <3>2. 1 \in LogInode /\ 2 \in LogInode
      BY <1>3, <3>1 DEF HasTail, LogRecords, LogInode
    <3>3. Free # {} /\ Free \in SUBSET Nat
      BY <1>4, <3>2 DEF LogInode
    <3>4. \E x \in Free : \A y \in Free : x <= y
      <4> HIDE DEF Free
      <4> QED BY <3>3, LeastOf
    <3>5. Min(Free) \in Free
      <4> HIDE DEF Free
      <4> QED BY <3>4, Zenon DEF Min
    <3> QED BY <1>1, <2>2, <3>5 DEF LogInode
  <2> QED BY <2>1, <2>2
<1> HIDE DEF Free
<1>6. Log' = Log /\ lines'[i] = <<>> /\ logName'.tmp = i /\ logName'.log = logName.log
  BY <1>1, <1>3, <1>5 DEF Log, LogRecords
<1>7. \A q \in LogProc :
        recorder'[q] = IF q = p THEN [pc |-> "write", tail |-> recorder[p].tail, ino |-> i] ELSE recorder[q]
  <2>1. recorder[p] = [pc |-> recorder[p].pc, tail |-> recorder[p].tail, ino |-> recorder[p].ino]
    BY <1>3 DEF LogRecords
  <2>2. PICK new : new = recorder'[p]
    OBVIOUS
  <2>3. new = [recorder[p] EXCEPT !.pc = "write", !.ino = i] /\ \A q \in LogProc \ {p} : recorder'[q] = recorder[q]
    BY <1>1, <1>3, <2>2 DEF LogRecords
  <2>4. new = [pc |-> "write", tail |-> recorder[p].tail, ino |-> i]
    BY <2>1, <2>3, Stepped
  <2> QED BY <2>2, <2>3, <2>4
<1>8. LogRecords'
  <2>1. recorder' = [q \in LogProc |-> recorder'[q]]
    BY <1>1, <1>3 DEF LogRecords
  <2>2. \A q \in LogProc : recorder'[q] = [pc |-> recorder'[q].pc, tail |-> recorder'[q].tail,
                                           ino |-> recorder'[q].ino]
    BY <1>3, <1>7 DEF LogRecords
  <2>3. <<>> \in Seq(Nat)
    OBVIOUS
  <2>4. lines' \in [LogInode -> Seq(Nat)]
    BY <1>1, <1>3, <2>3 DEF LogRecords
  <2>5. logName' \in [log : LogInode, tmp : LogInode \cup {0}] /\ logName'.tmp # logName'.log
    BY <1>1, <1>3, <1>5 DEF LogRecords
  <2> QED BY <1>2, <1>3, <2>1, <2>2, <2>4, <2>5 DEF LogRecords
<1>9. \A q \in LogProc : Trimming(q)' => q = p
  BY <1>4, <1>7 DEF Trimming
<1>10. HasTail(p)'
  BY <1>2, <1>3, <1>7 DEF OneTrim, Trimming, HasTail
<1>11. OneTrim'
  <2>1. \A q \in LogProc :
          /\ recorder'[q].ino = IF RecorderAt(q, "write")' THEN logName'.tmp ELSE 0
          /\ recorder'[q].pc \in {"write", "rename"} => q = p /\ logName'.tmp # 0
          /\ ~RecorderAt(p, "rename")'
    <3> SUFFICES ASSUME NEW q \in LogProc
                 PROVE  /\ recorder'[q].ino = IF recorder'[q].pc = "write" THEN logName'.tmp ELSE 0
                        /\ recorder'[q].pc \in {"write", "rename"} => q = p /\ logName'.tmp # 0
                        /\ recorder'[p].pc # "rename"
      BY DEF RecorderAt
    <3>1. recorder'[p].pc = "write" /\ recorder'[p].ino = i
      BY <1>7
    <3>2. CASE q = p
      BY <1>5, <1>6, <3>1, <3>2
    <3>3. CASE q # p
      BY <1>4, <1>7, <3>1, <3>3 DEF Trimming
    <3> QED BY <3>2, <3>3
  <2> QED BY <1>6, <1>9, <1>10, <2>1 DEF OneTrim, Trimming, RecorderAt
<1> QED BY <1>2, <1>3, <1>6, <1>8, <1>11 DEF KeptNewest

(* The newest entries replace what was nothing.                            *)
LEMMA TrimWritesInv ==
  ASSUME LogInv, NEW p \in LogProc, TrimWrites(p)
  PROVE  LogInv'
<1> USE LogConstants
<1> SUFFICES ASSUME ~crossed' PROVE LogRecords' /\ OneTrim' /\ KeptNewest'
  BY DEF LogInv
<1> DEFINE tail == recorder[p].tail
           i == recorder[p].ino
           rest == SubSeq(lines[i], Len(tail) + 1, Len(lines[i]))
<1>1. /\ recorder[p].pc = "write" /\ recorded' = recorded /\ logName' = logName /\ ~crossed
      /\ lines' = [lines EXCEPT ![i] = tail \o rest]
      /\ recorder' = [recorder EXCEPT ![p].pc = "rename", ![p].ino = 0]
  BY DEF TrimWrites, RecorderAt
<1>2. LogRecords /\ OneTrim /\ KeptNewest
  BY <1>1 DEF LogInv
<1>3. /\ i = logName.tmp /\ i \in LogInode /\ i # logName.log /\ i # 0 /\ lines[i] = <<>>
      /\ HasTail(p) /\ \A q \in LogProc : Trimming(q) => q = p
  BY <1>1, <1>2 DEF OneTrim, LogRecords, Trimming, RecorderAt
<1>4. tail \o rest = tail /\ tail \in Seq(Nat)
  <2>1. tail \in Seq(Nat) /\ Len(tail) \in Nat
    BY <1>3 DEF HasTail, IsNewest
  <2>2. rest = <<>>
    BY <1>3, <2>1, SubSeqEmpty
  <2> HIDE DEF tail, rest
  <2> QED BY <2>1, <2>2, ConcatEmptySeq
<1>5. lines' = [lines EXCEPT ![i] = tail]
  BY <1>1, <1>4
<1>6. \A q \in LogProc :
        recorder'[q] = IF q = p THEN [pc |-> "rename", tail |-> tail, ino |-> 0] ELSE recorder[q]
  <2>1. recorder[p] = [pc |-> recorder[p].pc, tail |-> recorder[p].tail, ino |-> recorder[p].ino]
    BY <1>2 DEF LogRecords
  <2>2. PICK new : new = recorder'[p]
    OBVIOUS
  <2>3. new = [recorder[p] EXCEPT !.pc = "rename", !.ino = 0] /\ \A q \in LogProc \ {p} : recorder'[q] = recorder[q]
    BY <1>1, <1>2, <2>2 DEF LogRecords
  <2>4. new = [pc |-> "rename", tail |-> recorder[p].tail, ino |-> 0]
    BY <2>1, <2>3, Stepped
  <2> QED BY <2>2, <2>3, <2>4
<1>7. lines'[i] = tail /\ Log' = Log
  BY <1>1, <1>2, <1>3, <1>5 DEF LogRecords, Log
<1> HIDE DEF tail, i, rest
<1>8. LogRecords'
  <2>1. recorder' = [q \in LogProc |-> recorder'[q]]
    BY <1>1, <1>2 DEF LogRecords
  <2>2. \A q \in LogProc : recorder'[q] = [pc |-> recorder'[q].pc, tail |-> recorder'[q].tail,
                                           ino |-> recorder'[q].ino]
    BY <1>2, <1>6 DEF LogRecords
  <2>3. lines' \in [LogInode -> Seq(Nat)]
    BY <1>2, <1>4, <1>5 DEF LogRecords
  <2> QED BY <1>1, <1>2, <2>1, <2>2, <2>3 DEF LogRecords
<1>9. OneTrim'
  <2>1. ASSUME NEW q \in LogProc
        PROVE  /\ Trimming(q)' => HasTail(q)' /\ q = p
               /\ recorder'[q].ino = IF RecorderAt(q, "write")' THEN logName'.tmp ELSE 0
               /\ recorder'[q].pc \in {"write", "rename"} => logName'.tmp # 0
               /\ ~RecorderAt(q, "write")'
               /\ RecorderAt(q, "rename")' => lines'[logName'.tmp] = recorder'[q].tail
    <3>1. CASE q = p
      <4>1. /\ recorder'[p].pc = "rename" /\ recorder'[p].ino = 0
            /\ recorder'[p].tail = recorder[p].tail
        BY <1>6 DEF tail
      <4>2. HasTail(p)' /\ lines'[logName'.tmp] = recorder'[p].tail /\ logName'.tmp # 0
        BY <1>1, <1>3, <1>7, <4>1 DEF HasTail, tail
      <4> QED BY <3>1, <4>1, <4>2 DEF RecorderAt
    <3>2. CASE q # p
      BY ZenonT(40), <1>1, <1>2, <1>3, <1>6, <3>2 DEF OneTrim, Trimming, RecorderAt
    <3> QED BY <3>1, <3>2
  <2> QED BY <2>1 DEF OneTrim
<1> QED BY <1>1, <1>2, <1>7, <1>8, <1>9 DEF KeptNewest

LEMMA TrimRenamesInv ==
  ASSUME LogInv, NEW p \in LogProc, TrimRenames(p)
  PROVE  LogInv'
<1> USE LogConstants
<1> SUFFICES ASSUME ~crossed' PROVE LogRecords' /\ OneTrim' /\ KeptNewest'
  BY DEF LogInv
<1>1. /\ recorder[p].pc = "rename" /\ recorded' = recorded /\ lines' = lines /\ ~crossed
      /\ logName' = (IF logName.tmp = 0 THEN logName ELSE [log |-> logName.tmp, tmp |-> 0])
      /\ recorder' = [recorder EXCEPT ![p] = Idle]
  BY DEF TrimRenames, RecorderAt
<1>2. LogRecords /\ OneTrim /\ KeptNewest
  BY <1>1 DEF LogInv
<1>3. /\ logName.tmp \in LogInode /\ logName.tmp # 0 /\ lines[logName.tmp] = recorder[p].tail
      /\ HasTail(p) /\ \A q \in LogProc : Trimming(q) => q = p
      /\ \A q \in LogProc : recorder[q].ino = 0
  BY <1>1, <1>2 DEF OneTrim, LogRecords, Trimming, RecorderAt
<1>4. logName' = [log |-> logName.tmp, tmp |-> 0] /\ Log' = recorder[p].tail /\ 0 \notin LogInode
  BY <1>1, <1>3 DEF Log, LogInode
<1>5. \A q \in LogProc : recorder'[q] = IF q = p THEN Idle ELSE recorder[q]
  BY <1>1, <1>2 DEF LogRecords
<1>6. \A q \in LogProc : ~Trimming(q)' /\ recorder'[q].ino = 0
  BY <1>3, <1>5 DEF Trimming, Idle
<1>7. OneTrim'
  BY <1>6 DEF OneTrim, Trimming, RecorderAt
<1>8. LogRecords'
  <2>1. recorder' = [q \in LogProc |-> recorder'[q]]
    BY <1>1, <1>2 DEF LogRecords
  <2>2. \A q \in LogProc : recorder'[q] = [pc |-> recorder'[q].pc, tail |-> recorder'[q].tail,
                                           ino |-> recorder'[q].ino]
    BY <1>2, <1>5 DEF LogRecords, Idle
  <2>3. logName' \in [log : LogInode, tmp : LogInode \cup {0}] /\ logName'.tmp # logName'.log
    BY <1>3, <1>4
  <2> QED BY <1>1, <1>2, <2>1, <2>2, <2>3 DEF LogRecords
<1>9. KeptNewest'
  BY <1>1, <1>3, <1>4 DEF KeptNewest, HasTail
<1> QED BY <1>7, <1>8, <1>9

LEMMA LogCrashInv ==
  ASSUME LogInv, NEW p \in LogProc, LogCrash(p)
  PROVE  LogInv'
<1> SUFFICES ASSUME ~crossed' PROVE LogRecords' /\ OneTrim' /\ KeptNewest'
  BY DEF LogInv
<1>1. /\ recorded' = recorded /\ lines' = lines /\ ~crossed /\ logName' = logName
      /\ recorder' = [recorder EXCEPT ![p] = Idle]
  BY DEF LogCrash
<1>2. LogRecords /\ OneTrim /\ KeptNewest
  BY <1>1 DEF LogInv
<1>3. \A q \in LogProc : recorder'[q] = IF q = p THEN Idle ELSE recorder[q]
  BY <1>1, <1>2 DEF LogRecords
<1>4. OneTrim'
  BY <1>1, <1>2, <1>3 DEF OneTrim, Trimming, RecorderAt, Idle, HasTail
<1>5. LogRecords'
  <2>1. recorder' = [q \in LogProc |-> recorder'[q]]
    BY <1>1, <1>2 DEF LogRecords
  <2>2. \A q \in LogProc : recorder'[q] = [pc |-> recorder'[q].pc, tail |-> recorder'[q].tail,
                                           ino |-> recorder'[q].ino]
    BY <1>2, <1>3 DEF LogRecords, Idle
  <2> QED BY <1>1, <1>2, <2>1, <2>2 DEF LogRecords
<1> QED BY <1>1, <1>2, <1>4, <1>5 DEF KeptNewest, Log

(* Unless a trim was crossed, the log is the newest entries at every step  *)
(* of an append or a trim, and wherever a process dies.                    *)
THEOREM LogInvariant == HostLogSpec => []LogInv
<1>1. LogInv /\ UNCHANGED logVars => LogInv'
  BY DEF logVars, LogInv, LogRecords, OneTrim, Trimming, RecorderAt, HasTail, KeptNewest, Log
<1>2. LogInv /\ [HostLogNext]_logVars => LogInv'
  BY <1>1, RecordInv, TrimReadsInv, TrimOpensInv, TrimWritesInv, TrimRenamesInv, LogCrashInv
     DEF HostLogNext
<1> QED BY <1>2, LogInvInit, PTL DEF HostLogSpec

(* hostlog.rs, record and trim: deaths in the middle of a trim included, a *)
(* log whose trims nothing crossed is an unbroken run of the newest        *)
(* entries, TRIM_KEEP of them unless there were fewer.                     *)
THEOREM LogIsNewest == HostLogSpec => []LogKeepsNewest
<1>1. LogInv => LogKeepsNewest
  <2> USE LogConstants
  <2> SUFFICES ASSUME LogInv, ~crossed
               PROVE  /\ \A i \in DOMAIN Log : Log[i] = recorded - Len(Log) + i
                      /\ Len(Log) >= Min({recorded, TrimKeep})
    BY DEF LogKeepsNewest
  <2>1. KeptNewest /\ recorded \in Nat /\ TrimKeep \in Nat
    BY DEF LogInv, LogRecords
  <2>2. DOMAIN Log = 1..Len(Log) /\ Len(Log) \in Nat
    BY <2>1, LenProperties DEF KeptNewest, IsNewest
  <2>3. Min({recorded, TrimKeep}) <= recorded /\ Min({recorded, TrimKeep}) <= TrimKeep
        /\ Min({recorded, TrimKeep}) \in Nat
    <3>1. \E x \in {recorded, TrimKeep} : \A y \in {recorded, TrimKeep} : x <= y
      BY <2>1
    <3>2. /\ Min({recorded, TrimKeep}) \in {recorded, TrimKeep}
          /\ \A y \in {recorded, TrimKeep} : Min({recorded, TrimKeep}) <= y
      BY <3>1, Zenon DEF Min
    <3> QED BY <2>1, <3>2
  <2>4. \A i \in DOMAIN Log : Log[i] = recorded - Len(Log) + i
    BY <2>1, <2>2 DEF KeptNewest, IsNewest
  <2>5. Len(Log) >= Min({recorded, TrimKeep})
    <3>1. Len(Log) = recorded \/ Len(Log) >= TrimKeep
      BY <2>1 DEF KeptNewest
    <3>2. PICK low \in Nat : low = Min({recorded, TrimKeep}) /\ low <= recorded /\ low <= TrimKeep
      BY <2>3
    <3>3. Len(Log) \in Nat
      BY <2>2
    <3>4. Len(Log) >= low
      BY <2>1, <3>1, <3>2, <3>3
    <3> QED BY <3>2, <3>4
  <2> QED BY <2>4, <2>5
<1> QED BY <1>1, LogInvariant, PTL

(* The inodes in use, and the processes that may yet open a temporary file.*)
InodesHeld == ({logName.log, logName.tmp} \cup {recorder[p].ino : p \in LogProc}) \ {0}
MayTrim == {p \in LogProc : recorder[p].pc \in {"size", "tmp"}}

RecorderFits(r) ==
  /\ r = [pc |-> r.pc, tail |-> r.tail, ino |-> r.ino]
  /\ r.pc \in {"idle", "size", "tmp", "write", "rename"}

(* However trims overlap, records keep their shape and there is an inode   *)
(* for every temporary file that is yet to be created.                     *)
LogShape ==
  /\ recorder = [p \in LogProc |-> recorder[p]]
  /\ \A p \in LogProc : RecorderFits(recorder[p])
  /\ logName \in [log : LogInode, tmp : LogInode \cup {0}]
  /\ recorded \in 0..MaxEntries /\ crossed \in BOOLEAN
  /\ Fits(InodesHeld, MayTrim, recorded + 1)

LEMMA LogShapeInit == HostLogInit => LogShape
<1> SUFFICES ASSUME HostLogInit PROVE LogShape
  OBVIOUS
<1> USE HostLogAssumption
<1>1. InodesHeld = {1} /\ MayTrim = {}
  BY DEF HostLogInit, InodesHeld, MayTrim, Idle
<1>2. Fits(InodesHeld, MayTrim, recorded + 1)
  <2>1. IsFiniteSet({1}) /\ Cardinality({1}) = 1 /\ IsFiniteSet({}) /\ Cardinality({}) = 0
    BY FS_EmptySet, FS_Singleton
  <2> QED BY <1>1, <2>1 DEF Fits, HostLogInit
<1>3. 1 \in LogInode
  BY DEF LogInode
<1>4. logName \in [log : LogInode, tmp : LogInode \cup {0}]
  BY <1>3 DEF HostLogInit
<1>5. recorder = [p \in LogProc |-> recorder[p]] /\ \A p \in LogProc : RecorderFits(recorder[p])
  BY DEF HostLogInit, RecorderFits, Idle
<1>6. recorded \in 0..MaxEntries
  BY DEF HostLogInit
<1>7. crossed \in BOOLEAN
  BY Zenon DEF HostLogInit
<1> QED BY <1>2, <1>4, <1>5, <1>6, <1>7, Zenon DEF LogShape

(* The steps of a process: it may be about to trim, for a new entry; take  *)
(* an inode for the file it was to create; or hold what it held at most.   *)
LEMMA LogShapePut ==
  ASSUME LogShape, NEW p \in LogProc, NEW new, recorder' = [recorder EXCEPT ![p] = new],
         RecorderFits(new), crossed' \in BOOLEAN, recorded' \in 0..MaxEntries,
         logName' \in [log : LogInode, tmp : LogInode \cup {0}],
         \/ recorded' = recorded + 1 /\ logName' = logName /\ new.ino = recorder[p].ino
         \/ /\ recorded' = recorded
            /\ new.pc \in {"size", "tmp"} => recorder[p].pc \in {"size", "tmp"}
            /\ {logName'.log, logName'.tmp} \subseteq {logName.log, logName.tmp, 0} /\ new.ino = 0
         \/ /\ recorded' = recorded /\ recorder[p].pc = "tmp" /\ new.pc = "write"
            /\ {logName'.log, logName'.tmp} \subseteq {logName.log, new.ino}
  PROVE  LogShape'
<1> USE HostLogAssumption
<1>1. \A q \in LogProc : recorder'[q] = IF q = p THEN new ELSE recorder[q]
  BY DEF LogShape
<1>2. Fits(InodesHeld, MayTrim, recorded + 1) /\ recorded + 1 \in Nat
  BY DEF LogShape
<1>3. Fits(InodesHeld', MayTrim', recorded' + 1)
  <2>1. CASE recorded' = recorded + 1 /\ logName' = logName /\ new.ino = recorder[p].ino
    <3>1. InodesHeld' \in SUBSET InodesHeld /\ MayTrim' \in SUBSET (MayTrim \cup {p})
      BY <1>1, <2>1 DEF InodesHeld, MayTrim
    <3> QED BY <1>2, <2>1, <3>1, FitsOneMore, ZenonT(30)
  <2>2. CASE /\ recorded' = recorded
             /\ new.pc \in {"size", "tmp"} => recorder[p].pc \in {"size", "tmp"}
             /\ {logName'.log, logName'.tmp} \subseteq {logName.log, logName.tmp, 0} /\ new.ino = 0
    <3>1. InodesHeld' \in SUBSET InodesHeld
      BY <1>1, <2>2 DEF InodesHeld
    <3>2. MayTrim' \in SUBSET MayTrim
      BY <1>1, <2>2 DEF MayTrim
    <3> QED BY <1>2, <2>2, <3>1, <3>2, FitsLess
  <2>3. CASE /\ recorded' = recorded /\ recorder[p].pc = "tmp" /\ new.pc = "write"
             /\ {logName'.log, logName'.tmp} \subseteq {logName.log, new.ino}
    <3>1. InodesHeld' \in SUBSET (InodesHeld \cup {new.ino})
      BY <1>1, <2>3 DEF InodesHeld
    <3>2. p \in MayTrim /\ MayTrim' \in SUBSET (MayTrim \ {p})
      BY <1>1, <2>3 DEF MayTrim
    <3> QED BY <1>2, <2>3, <3>1, <3>2, FitsTaken
  <2> QED BY <2>1, <2>2, <2>3
<1>4. recorder' = [q \in LogProc |-> recorder'[q]] /\ \A q \in LogProc : RecorderFits(recorder'[q])
  BY <1>1 DEF LogShape
<1> QED BY <1>3, <1>4 DEF LogShape

LEMMA LogShapeStep ==
  ASSUME LogShape, NEW p \in LogProc,
         RecordReply(p) \/ TrimReads(p) \/ TrimOpens(p) \/ TrimWrites(p) \/ TrimRenames(p) \/ LogCrash(p)
  PROVE  LogShape'
<1> USE HostLogAssumption
<1>0. /\ RecorderFits(Idle) /\ Idle.ino = 0 /\ Idle.pc = "idle" /\ crossed \in BOOLEAN
      /\ recorded \in 0..MaxEntries /\ logName \in [log : LogInode, tmp : LogInode \cup {0}]
  BY DEF Idle, RecorderFits, LogShape
<1>1. PICK r : r = recorder[p]
  OBVIOUS
<1>2. RecorderFits(r) /\ \A q \in LogProc : q \in DOMAIN recorder
  BY <1>1 DEF LogShape
<1>3. CASE RecordReply(p)
  <2>1. PICK new : new = [r EXCEPT !.pc = "size"]
    OBVIOUS
  <2>2. RecorderFits(new) /\ new.ino = r.ino
    BY <1>2, <2>1 DEF RecorderFits
  <2>3. recorder' = [recorder EXCEPT ![p] = new] /\ recorded' = recorded + 1 /\ recorded < MaxEntries
        /\ logName' = logName /\ crossed' \in BOOLEAN
    BY <1>1, <1>3, <2>1 DEF RecordReply
  <2>4. recorded' \in 0..MaxEntries /\ logName' \in [log : LogInode, tmp : LogInode \cup {0}]
    BY <1>0, <2>3
  <2> QED BY <1>1, <2>2, <2>3, <2>4, LogShapePut
<1>4. CASE TrimReads(p)
  <2>1. PICK new : recorder' = [recorder EXCEPT ![p] = new]
                   /\ \/ new = Idle
                      \/ \E tail : new = [Idle EXCEPT !.pc = "tmp", !.tail = tail]
    BY <1>4 DEF TrimReads
  <2>2. RecorderFits(new) /\ new.ino = 0
    BY <1>0, <2>1 DEF RecorderFits, Idle
  <2>3. recorder[p].pc = "size" /\ UNCHANGED <<logName, recorded>> /\ crossed' \in BOOLEAN
    BY <1>4 DEF TrimReads, RecorderAt
  <2> QED BY <1>0, <2>1, <2>2, <2>3, LogShapePut
<1>5. CASE TrimOpens(p)
  <2>0. PICK Taken : Taken = {logName.log} \cup {recorder[q].ino : q \in LogProc}
    OBVIOUS
  <2>1. PICK i : /\ i = (IF logName.tmp # 0 THEN logName.tmp ELSE Min(LogInode \ Taken))
                 /\ logName' = [logName EXCEPT !.tmp = i]
                 /\ recorder' = [recorder EXCEPT ![p].pc = "write", ![p].ino = i]
    BY <1>5, <2>0 DEF TrimOpens
  <2>2. r.pc = "tmp" /\ UNCHANGED <<recorded, crossed>>
    BY <1>1, <1>5 DEF TrimOpens, RecorderAt
  <2>3. i \in LogInode
    <3>1. CASE logName.tmp # 0
      BY <1>0, <2>1, <3>1
    <3>2. CASE logName.tmp = 0
      <4>1. p \in MayTrim /\ recorded + 1 \in Nat /\ MaxEntries + 1 \in Nat /\ recorded + 1 <= MaxEntries + 1
        BY <1>0, <1>1, <2>2 DEF MayTrim
      <4>2. \E j \in LogInode : j \notin InodesHeld
        BY <4>1, FitsFree DEF LogShape, LogInode
      <4>3. LogInode \ Taken # {} /\ LogInode \ Taken \in SUBSET Nat
        BY <2>0, <4>2 DEF InodesHeld, LogInode
      <4>4. PICK Free : Free = LogInode \ Taken
        OBVIOUS
      <4>5. \E x \in Free : \A y \in Free : x <= y
        BY <4>3, <4>4, LeastOf
      <4>6. Min(Free) \in Free
        BY <4>5, Zenon DEF Min
      <4> QED BY <2>1, <3>2, <4>4, <4>6
    <3> QED BY <3>1, <3>2
  <2>4. PICK new : new = [r EXCEPT !.pc = "write", !.ino = i]
    OBVIOUS
  <2>5. RecorderFits(new) /\ new.pc = "write" /\ new.ino = i
    BY <1>2, <2>4 DEF RecorderFits
  <2>6. recorder' = [recorder EXCEPT ![p] = new]
    BY <1>1, <1>2, <2>1, <2>4
  <2>7. logName' \in [log : LogInode, tmp : LogInode \cup {0}] /\ logName'.log = logName.log /\ logName'.tmp = i
    BY <1>0, <2>1, <2>3
  <2> QED BY <1>0, <1>1, <2>2, <2>5, <2>6, <2>7, LogShapePut
<1>6. CASE TrimWrites(p)
  <2>1. PICK new : new = [r EXCEPT !.pc = "rename", !.ino = 0]
    OBVIOUS
  <2>2. RecorderFits(new) /\ new.ino = 0 /\ new.pc = "rename"
    BY <1>2, <2>1 DEF RecorderFits
  <2>3. recorder' = [recorder EXCEPT ![p] = new] /\ UNCHANGED <<logName, recorded, crossed>>
    BY <1>1, <1>2, <1>6, <2>1 DEF TrimWrites
  <2> QED BY <1>0, <2>2, <2>3, LogShapePut
<1>7. CASE TrimRenames(p)
  <2>1. /\ logName' = IF logName.tmp = 0 THEN logName ELSE [log |-> logName.tmp, tmp |-> 0]
        /\ recorder' = [recorder EXCEPT ![p] = Idle] /\ UNCHANGED <<recorded, crossed>>
    BY <1>7 DEF TrimRenames
  <2>2. /\ logName' \in [log : LogInode, tmp : LogInode \cup {0}]
        /\ {logName'.log, logName'.tmp} \subseteq {logName.log, logName.tmp, 0}
    BY <1>0, <2>1
  <2> QED BY <1>0, <2>1, <2>2, LogShapePut
<1>8. CASE LogCrash(p)
  <2>1. recorder' = [recorder EXCEPT ![p] = Idle] /\ UNCHANGED <<logName, recorded, crossed>>
    BY <1>8 DEF LogCrash
  <2> QED BY <1>0, <2>1, LogShapePut
<1> QED BY <1>3, <1>4, <1>5, <1>6, <1>7, <1>8

(* hostlog.rs: the log has a file and every process a place, also while    *)
(* trims overlap or have died.                                             *)
THEOREM HostLogTypes == HostLogSpec => []HostLogTypeOK
<1>1. LogShape /\ [HostLogNext]_logVars => LogShape'
  <2> SUFFICES ASSUME LogShape, [HostLogNext]_logVars PROVE LogShape'
    OBVIOUS
  <2>1. CASE UNCHANGED logVars
    BY <2>1 DEF logVars, LogShape, InodesHeld, MayTrim
  <2> QED BY <2>1, LogShapeStep DEF HostLogNext
<1>2. LogShape => HostLogTypeOK
  BY DEF LogShape, RecorderFits, HostLogTypeOK
<1> QED BY LogShapeInit, <1>1, <1>2, PTL DEF HostLogSpec

-----------------------------------------------------------------------------
(***************************************************************************)
(* Lines a tail delivers (Tail).  Pieces are numbered as they are written, *)
(* so a file's text is a rising sequence; sent and carried together are    *)
(* the pieces up to the position that the tail has reached.                *)
(***************************************************************************)

Delivered == sent \o tailer.carry
Rising(s) == \A i, j \in DOMAIN s : i < j => s[i] < s[j]
Before(s, n) == \A i \in DOMAIN s : s[i] < n

(* The file the next read is from.                                         *)
Source == IF TailAt("open") THEN logged ELSE opened.file

TailRecords ==
  /\ pieces.n \in Nat /\ rotations \in Nat
  /\ {logged, opened.file, sent, tailer.carry} \subseteq Seq(Nat)
  /\ tailer.pos \in Nat /\ tailer.from \in Nat /\ tailer.len \in Nat
  /\ tailer.pc \in {"open", "read"} /\ opened.current \in BOOLEAN
  /\ TailAt("open") => ~opened.current
  /\ TailAt("read") => tailer.pos <= tailer.len
  /\ pieces = [n |-> pieces.n, ends |-> pieces.ends, splits |-> pieces.splits]
  /\ opened = [file |-> opened.file, current |-> opened.current]
  /\ tailer = [pc |-> tailer.pc, from |-> tailer.from, pos |-> tailer.pos,
               len |-> tailer.len, carry |-> tailer.carry]

(* Pieces are numbered as they are written.                                *)
Numbered ==
  /\ \A s \in {logged, opened.file, Delivered} : Rising(s) /\ Before(s, pieces.n + 1)
  /\ opened.current => opened.file = logged
  /\ ~opened.current /\ TailAt("read") =>
       \A i \in DOMAIN logged : Before(opened.file, logged[i]) /\ Before(Delivered, logged[i])

(* What lies past the position is newer than what was delivered, and so is *)
(* all of a file that has become shorter than that.                        *)
NewPastPos == \A i \in DOMAIN Source :
  i > tailer.pos \/ Len(Source) < tailer.pos => Before(Delivered, Source[i])

(* While nothing was rotated, the position is in the one file there is.    *)
Unrotated == rotations = 0 =>
  /\ Delivered = SubSeq(logged, tailer.from + 1, tailer.pos)
  /\ tailer.from <= tailer.pos /\ tailer.pos <= Len(logged)
  /\ TailAt("read") => opened.current /\ tailer.len <= Len(logged)

TailInv == TailRecords /\ Numbered /\ NewPastPos /\ Unrotated

LEMMA AppendRises ==
  ASSUME NEW s \in Seq(Nat), NEW n \in Nat, Rising(s), Before(s, n)
  PROVE  Append(s, n) \in Seq(Nat) /\ Rising(Append(s, n)) /\ Before(Append(s, n), n + 1)
<1>1. /\ Append(s, n) \in Seq(Nat) /\ Len(Append(s, n)) = Len(s) + 1
      /\ \A i \in 1..Len(s) : Append(s, n)[i] = s[i]
      /\ Append(s, n)[Len(s) + 1] = n
  BY AppendProperties
<1>2. DOMAIN s = 1..Len(s) /\ DOMAIN Append(s, n) = 1..(Len(s) + 1) /\ Len(s) \in Nat
  BY <1>1, LenProperties
<1>3. \A i \in DOMAIN s : s[i] \in Nat
  BY <1>2, ElementOfSeq
<1> QED BY <1>1, <1>2, <1>3 DEF Rising, Before

LEMMA ConcatRises ==
  ASSUME NEW s \in Seq(Nat), NEW t \in Seq(Nat), NEW n \in Nat,
         Rising(s), Rising(t), Before(s, n), Before(t, n),
         \A i \in DOMAIN t : Before(s, t[i])
  PROVE  Rising(s \o t) /\ Before(s \o t, n)
<1>1. /\ s \o t \in Seq(Nat) /\ Len(s \o t) = Len(s) + Len(t)
      /\ \A i \in 1 .. Len(s) + Len(t) : (s \o t)[i] = IF i <= Len(s) THEN s[i] ELSE t[i - Len(s)]
  BY ConcatProperties
<1>2. /\ Len(s) \in Nat /\ Len(t) \in Nat /\ DOMAIN s = 1..Len(s) /\ DOMAIN t = 1..Len(t)
      /\ DOMAIN (s \o t) = 1..(Len(s) + Len(t))
  BY <1>1, LenProperties
<1>3. ASSUME NEW i \in DOMAIN (s \o t), NEW j \in DOMAIN (s \o t), i < j
      PROVE  (s \o t)[i] < (s \o t)[j]
  <2>1. CASE j <= Len(s)
    BY <1>1, <1>2, <1>3, <2>1 DEF Rising
  <2>2. CASE i <= Len(s) /\ ~(j <= Len(s))
    <3>1. i \in DOMAIN s /\ j - Len(s) \in DOMAIN t
      BY <1>2, <1>3, <2>2
    <3> QED BY <1>1, <1>2, <2>2, <3>1 DEF Before
  <2>3. CASE ~(i <= Len(s))
    <3>1. i - Len(s) \in DOMAIN t /\ j - Len(s) \in DOMAIN t /\ i - Len(s) < j - Len(s)
      BY <1>2, <1>3, <2>3
    <3>2. ~(j <= Len(s))
      BY <1>2, <1>3, <2>3
    <3> QED BY <1>1, <1>2, <2>3, <3>1, <3>2 DEF Rising
  <2> QED BY <2>1, <2>2, <2>3
<1>4. ASSUME NEW i \in DOMAIN (s \o t)
      PROVE  (s \o t)[i] < n
  <2>1. i <= Len(s) => i \in DOMAIN s
    BY <1>2
  <2>2. ~(i <= Len(s)) => i - Len(s) \in DOMAIN t
    BY <1>2
  <2> QED BY <1>1, <1>2, <2>1, <2>2 DEF Before
<1> QED BY <1>3, <1>4 DEF Rising, Before

(* A read takes what lies between two places of a file.                    *)
LEMMA PartOf ==
  ASSUME NEW s \in Seq(Nat), NEW m \in Nat, NEW n \in 0..Len(s)
  PROVE  /\ SubSeq(s, m + 1, n) \in Seq(Nat)
         /\ Len(SubSeq(s, m + 1, n)) = IF m < n THEN n - m ELSE 0
         /\ DOMAIN SubSeq(s, m + 1, n) = 1..Len(SubSeq(s, m + 1, n))
         /\ \A i \in DOMAIN SubSeq(s, m + 1, n) :
              i + m \in DOMAIN s /\ SubSeq(s, m + 1, n)[i] = s[i + m]
<1>1. Len(s) \in Nat /\ DOMAIN s = 1..Len(s)
  BY LenProperties
<1>2. \A i \in (m + 1)..n : s[i] \in Nat
  BY <1>1, ElementOfSeq
<1>3. /\ SubSeq(s, m + 1, n) \in Seq(Nat)
      /\ Len(SubSeq(s, m + 1, n)) = IF m + 1 <= n THEN n - (m + 1) + 1 ELSE 0
      /\ \A i \in 1..(n - (m + 1) + 1) : SubSeq(s, m + 1, n)[i] = s[m + 1 + i - 1]
  BY SMTT(60), <1>1, <1>2, SubSeqProperties
<1>4. DOMAIN SubSeq(s, m + 1, n) = 1..Len(SubSeq(s, m + 1, n))
  BY <1>3, LenProperties
<1>5. Len(SubSeq(s, m + 1, n)) = IF m < n THEN n - m ELSE 0
  BY <1>3, <1>1
<1>6. ASSUME NEW i \in DOMAIN SubSeq(s, m + 1, n)
      PROVE  i + m \in DOMAIN s /\ SubSeq(s, m + 1, n)[i] = s[i + m]
  <2>1. i \in 1..(n - (m + 1) + 1) /\ i + m = m + 1 + i - 1 /\ i + m \in 1..Len(s)
    BY <1>1, <1>4, <1>5, <1>6
  <2> QED BY <2>1, <1>1, <1>3
<1> QED BY <1>3, <1>4, <1>5, <1>6

LEMMA PartOfAppend ==
  ASSUME NEW s \in Seq(Nat), NEW e \in Nat, NEW m \in Nat, NEW n \in 0..Len(s)
  PROVE  SubSeq(Append(s, e), m + 1, n) = SubSeq(s, m + 1, n)
<1> DEFINE t == Append(s, e)
           a == SubSeq(t, m + 1, n)
           b == SubSeq(s, m + 1, n)
<1>1. t \in Seq(Nat) /\ Len(t) = Len(s) + 1 /\ \A i \in 1..Len(s) : t[i] = s[i]
  BY AppendProperties
<1>2. Len(s) \in Nat /\ DOMAIN s = 1..Len(s) /\ n \in 0..Len(t)
  BY <1>1, LenProperties
<1> HIDE DEF t
<1>3. /\ b \in Seq(Nat) /\ Len(b) = IF m < n THEN n - m ELSE 0
      /\ \A i \in 1..Len(b) : i + m \in DOMAIN s /\ b[i] = s[i + m]
  BY PartOf
<1>4. /\ a \in Seq(Nat) /\ Len(a) = IF m < n THEN n - m ELSE 0
      /\ \A i \in 1..Len(a) : a[i] = t[i + m]
  BY <1>1, <1>2, PartOf
<1> HIDE DEF a, b
<1>5. Len(a) = Len(b) /\ \A i \in 1..Len(a) : a[i] = b[i]
  BY <1>1, <1>2, <1>3, <1>4
<1>6. a = b
  BY <1>3, <1>4, <1>5, SeqEqual
<1> QED BY <1>6 DEF a, b, t

(* flush_lines cuts somewhere in the text, and both pieces make it up.     *)
LEMMA FlushCuts ==
  ASSUME NEW text \in Seq(Nat)
  PROVE  Flushed(text) \in 0..Len(text)
<1> DEFINE ends == {i \in DOMAIN text : EndsLine(text[i])}
           last == IF ends = {} THEN 0 ELSE CHOOSE i \in ends : \A j \in ends : j <= i
<1>1. Len(text) \in Nat /\ ends \subseteq 1..Len(text)
  BY LenProperties
<1>2. last \in 0..Len(text)
  <2>1. CASE ends = {}
    BY <1>1, <2>1
  <2>2. CASE ends # {}
    <3> DEFINE S == {Len(text) - i : i \in ends}
    <3>1. S \in SUBSET Nat /\ S # {}
      BY <1>1, <2>2
    <3>2. PICK least \in S : \A d \in S : least <= d
      BY <3>1, LeastOf
    <3>3. PICK i \in ends : least = Len(text) - i
      BY <3>2
    <3>4. \A j \in ends : Len(text) - i <= Len(text) - j
      BY <3>2, <3>3
    <3>5. \A j \in ends : j <= i
      BY <1>1, <3>4
    <3>6. last \in ends
      BY <2>2, <3>5, Zenon
    <3> QED BY <1>1, <3>6
  <2> QED BY <2>1, <2>2
<1>3. Flushed(text) = IF Len(text) - last > MaxLine THEN Len(text) ELSE last
  BY DEF Flushed
<1> HIDE DEF last
<1> QED BY <1>1, <1>2, <1>3

LEMMA CutsMakeUp ==
  ASSUME NEW text \in Seq(Nat), NEW k \in 0..Len(text)
  PROVE  /\ SubSeq(text, 1, k) \in Seq(Nat) /\ SubSeq(text, k + 1, Len(text)) \in Seq(Nat)
         /\ SubSeq(text, 1, k) \o SubSeq(text, k + 1, Len(text)) = text
<1>1. Len(text) \in Nat
  BY LenProperties
<1>2. SubSeq(text, 0 + 1, k) \in Seq(Nat) /\ SubSeq(text, k + 1, Len(text)) \in Seq(Nat)
  BY <1>1, PartOf
<1>3. 1 \in 1..Len(text) + 1 /\ k \in 1 - 1..Len(text) /\ Len(text) \in k..Len(text)
  BY <1>1
<1>4. SubSeq(text, 1, k) \o SubSeq(text, k + 1, Len(text)) = SubSeq(text, 1, Len(text))
  BY <1>3, ConcatAdjacentSubSeq
<1>5. SubSeq(text, 1, Len(text)) = text
  BY SubSeqFull
<1>6. SubSeq(text, 1, k) = SubSeq(text, 0 + 1, k)
  OBVIOUS
<1> QED BY <1>2, <1>4, <1>5, <1>6

LEMMA DeliveredIsSeq ==
  ASSUME TailRecords
  PROVE  Delivered \in Seq(Nat)
BY ConcatProperties DEF TailRecords, Delivered

LEMMA BeforeMore ==
  ASSUME NEW s \in Seq(Nat), NEW n \in Nat, NEW m \in Nat, n <= m, Before(s, n)
  PROVE  Before(s, m)
<1>1. \A i \in DOMAIN s : s[i] \in Nat
  BY LenProperties, ElementOfSeq
<1> QED BY <1>1 DEF Before

LEMMA TailInvInit == TailInit => TailInv
<1> SUFFICES ASSUME TailInit PROVE TailInv
  OBVIOUS
<1>1. PICK from \in {0, 2} :
        tailer = [pc |-> "open", from |-> from, pos |-> from, len |-> 0, carry |-> <<>>]
  BY DEF TailInit
<1>2. <<>> \in Seq(Nat) /\ Len(<<>>) = 0 /\ DOMAIN <<>> = {}
  BY EmptySeq, LenProperties
<1>3. logged = <<1, 2>> /\ logged \in Seq(Nat) /\ Len(logged) = 2 /\ DOMAIN logged = 1..2
      /\ logged[1] = 1 /\ logged[2] = 2
  BY DEF TailInit
<1>4. TailRecords
  BY <1>1, <1>2, <1>3 DEF TailInit, TailRecords, TailAt
<1>5. Delivered = <<>>
  BY <1>1, <1>2, ConcatEmptySeq DEF Delivered, TailInit
<1>6. Numbered
  BY <1>1, <1>2, <1>3, <1>5 DEF Numbered, Rising, Before, TailInit, TailAt
<1>7. NewPastPos
  BY <1>2, <1>5 DEF NewPastPos, Before
<1>8. SubSeq(logged, tailer.from + 1, tailer.pos) = <<>>
  BY <1>1, SubSeqEmpty
<1>9. Unrotated
  BY <1>1, <1>3, <1>5, <1>8 DEF Unrotated, TailAt
<1> QED BY <1>4, <1>6, <1>7, <1>9 DEF TailInv

LEMMA WriteInv ==
  ASSUME TailInv, Write
  PROVE  TailInv'
<1> DEFINE new == pieces.n + 1
<1>1. PICK ends, splits \in SUBSET {pieces.n + 1} :
        pieces' = [n |-> new, ends |-> pieces.ends \cup ends, splits |-> pieces.splits \cup splits]
  BY DEF Write
<1>2. /\ pieces'.n = new /\ new \in Nat /\ pieces.n \in Nat
      /\ pieces' = [n |-> pieces'.n, ends |-> pieces'.ends, splits |-> pieces'.splits]
  BY <1>1 DEF TailInv, TailRecords
<1>3. /\ logged' = Append(logged, new) /\ tailer' = tailer /\ sent' = sent
      /\ rotations' = rotations /\ Delivered' = Delivered
  BY DEF Write, Delivered
<1>4. /\ opened' = [file |-> opened'.file, current |-> opened'.current]
      /\ opened'.current = opened.current
      /\ opened'.file = IF opened.current THEN Append(opened.file, new) ELSE opened.file
  BY DEF Write, TailInv, TailRecords
<1> HIDE DEF new
<1>5. Delivered \in Seq(Nat) /\ logged \in Seq(Nat) /\ opened.file \in Seq(Nat)
  BY DeliveredIsSeq DEF TailInv, TailRecords
<1>6. /\ Rising(logged) /\ Before(logged, new) /\ Rising(opened.file) /\ Before(opened.file, new)
      /\ Rising(Delivered) /\ Before(Delivered, new)
  BY DEF TailInv, Numbered, new
<1>7. /\ logged' \in Seq(Nat) /\ Rising(logged') /\ Before(logged', new + 1)
      /\ opened'.file \in Seq(Nat) /\ Rising(opened'.file) /\ Before(opened'.file, new + 1)
      /\ Before(Delivered, new + 1)
  <2>1. /\ Append(logged, new) \in Seq(Nat) /\ Rising(Append(logged, new))
        /\ Before(Append(logged, new), new + 1)
    BY <1>2, <1>5, <1>6, AppendRises
  <2>2. /\ Append(opened.file, new) \in Seq(Nat) /\ Rising(Append(opened.file, new))
        /\ Before(Append(opened.file, new), new + 1)
    BY <1>2, <1>5, <1>6, AppendRises
  <2>3. new <= new + 1 /\ new + 1 \in Nat
    BY <1>2
  <2>4. Before(opened.file, new + 1) /\ Before(Delivered, new + 1)
    BY <1>2, <1>5, <1>6, <2>3, BeforeMore
  <2> QED BY <1>3, <1>4, <1>5, <1>6, <2>1, <2>2, <2>4
<1>8. TailRecords'
  BY <1>2, <1>3, <1>4, <1>7 DEF TailInv, TailRecords, TailAt
<1>9. /\ Len(logged') = Len(logged) + 1 /\ DOMAIN logged' = 1..(Len(logged) + 1)
      /\ DOMAIN logged = 1..Len(logged) /\ Len(logged) \in Nat
      /\ \A i \in DOMAIN logged : logged'[i] = logged[i]
      /\ logged'[Len(logged) + 1] = new
  BY <1>2, <1>3, <1>5, <1>7, AppendProperties, LenProperties
<1>10. Numbered'
  <2>1. opened'.current => opened'.file = logged'
    BY <1>3, <1>4 DEF TailInv, Numbered
  <2>2. ASSUME ~opened'.current, TailAt("read")', NEW i \in DOMAIN logged'
        PROVE  Before(opened'.file, logged'[i]) /\ Before(Delivered', logged'[i])
    <3>1. ~opened.current /\ TailAt("read") /\ opened'.file = opened.file
      BY <1>3, <1>4, <2>2 DEF TailAt
    <3>2. CASE i \in DOMAIN logged
      BY <1>3, <1>9, <3>1, <3>2 DEF TailInv, Numbered
    <3>3. CASE i = Len(logged) + 1
      BY <1>3, <1>6, <1>9, <3>1, <3>3
    <3> QED BY <1>9, <3>2, <3>3
  <2> QED BY <1>2, <1>3, <1>6, <1>7, <2>1, <2>2 DEF Numbered
<1>11. NewPastPos'
  <2>1. Source' = Source \/ Source' = Append(Source, new)
    BY <1>3, <1>4 DEF Source, TailAt
  <2>2. /\ Source \in Seq(Nat) /\ Rising(Source) /\ tailer'.pos = tailer.pos
        /\ Len(Source) \in Nat /\ DOMAIN Source = 1..Len(Source) /\ tailer.pos \in Nat
    BY <1>3, <1>5, <1>6, LenProperties DEF Source, TailInv, TailRecords
  <2>3. CASE Source' = Source
    BY <1>3, <2>2, <2>3 DEF NewPastPos, TailInv
  <2>4. CASE Source' = Append(Source, new)
    <3>1. /\ Len(Source') = Len(Source) + 1 /\ DOMAIN Source' = 1..(Len(Source) + 1)
          /\ \A i \in DOMAIN Source : Source'[i] = Source[i]
          /\ Source'[Len(Source) + 1] = new
      BY <1>2, <2>2, <2>4, AppendProperties, LenProperties
    <3>2. ASSUME NEW i \in DOMAIN Source', i > tailer'.pos \/ Len(Source') < tailer'.pos
          PROVE  Before(Delivered', Source'[i])
      <4>1. CASE i = Len(Source) + 1
        BY <1>3, <1>6, <3>1, <4>1
      <4>2. CASE i \in DOMAIN Source
        <5>1. i > tailer.pos \/ Len(Source) < tailer.pos
          BY <2>2, <3>1, <3>2
        <5> QED BY <1>3, <3>1, <4>2, <5>1 DEF NewPastPos, TailInv
      <4> QED BY <2>2, <3>1, <3>2, <4>1, <4>2
    <3> QED BY <3>2 DEF NewPastPos
  <2> QED BY <2>1, <2>3, <2>4
<1>12. Unrotated'
  <2> SUFFICES ASSUME rotations = 0 PROVE /\ Delivered = SubSeq(logged', tailer.from + 1, tailer.pos)
                                          /\ tailer.from <= tailer.pos /\ tailer.pos <= Len(logged')
                                          /\ TailAt("read") => opened.current /\ tailer.len <= Len(logged')
    BY <1>3, <1>4 DEF Unrotated, TailAt
  <2>1. /\ Delivered = SubSeq(logged, tailer.from + 1, tailer.pos)
        /\ tailer.from <= tailer.pos /\ tailer.pos <= Len(logged)
        /\ TailAt("read") => opened.current /\ tailer.len <= Len(logged)
        /\ tailer.from \in Nat /\ tailer.pos \in Nat /\ tailer.len \in Nat
    BY DEF TailInv, Unrotated, TailRecords
  <2>2. SubSeq(logged', tailer.from + 1, tailer.pos) = SubSeq(logged, tailer.from + 1, tailer.pos)
    <3>1. tailer.pos \in 0..Len(logged)
      BY <1>9, <2>1
    <3>2. logged \in Seq(Nat) /\ new \in Nat /\ tailer.from \in Nat
      BY <1>2, <1>5, <2>1
    <3>3. SubSeq(Append(logged, new), tailer.from + 1, tailer.pos)
            = SubSeq(logged, tailer.from + 1, tailer.pos)
      BY <3>1, <3>2, PartOfAppend, Zenon
    <3> QED BY <1>3, <3>3
  <2>3. tailer.pos <= Len(logged') /\ (TailAt("read") => tailer.len <= Len(logged'))
    BY <1>9, <2>1
  <2> QED BY <2>1, <2>2, <2>3
<1> QED BY <1>8, <1>10, <1>11, <1>12 DEF TailInv

LEMMA RotateInv ==
  ASSUME TailInv, Rotate
  PROVE  TailInv'
<1>1. PICK inPlace \in BOOLEAN :
        opened' = CASE ~opened.current -> opened
                    [] inPlace         -> [opened EXCEPT !.file = <<>>]
                    [] OTHER           -> [opened EXCEPT !.current = FALSE]
  BY DEF Rotate
<1>2. /\ logged' = <<>> /\ tailer' = tailer /\ sent' = sent /\ pieces' = pieces
      /\ rotations' = rotations + 1 /\ Delivered' = Delivered
  BY DEF Rotate, Delivered
<1>3. /\ opened' = [file |-> opened'.file, current |-> opened'.current]
      /\ opened'.current \in BOOLEAN
      /\ opened'.current => opened.current /\ opened'.file = <<>>
      /\ opened'.file \in {<<>>, opened.file}
  BY <1>1 DEF TailInv, TailRecords
<1>4. <<>> \in Seq(Nat) /\ Len(<<>>) = 0 /\ DOMAIN <<>> = {}
  BY EmptySeq, LenProperties
<1>5. TailRecords'
  <2>1. {logged', opened'.file, sent', tailer'.carry} \subseteq Seq(Nat)
    BY <1>2, <1>3, <1>4 DEF TailInv, TailRecords
  <2>2. TailAt("open")' => ~opened'.current
    BY <1>2, <1>3 DEF TailInv, TailRecords, TailAt
  <2>3. rotations' \in Nat /\ pieces'.n \in Nat
    BY <1>2 DEF TailInv, TailRecords
  <2>4. /\ tailer'.pos \in Nat /\ tailer'.from \in Nat /\ tailer'.len \in Nat
        /\ tailer'.pc \in {"open", "read"}
        /\ TailAt("read")' => tailer'.pos <= tailer'.len
    BY <1>2 DEF TailInv, TailRecords, TailAt
  <2>5. /\ pieces' = [n |-> pieces'.n, ends |-> pieces'.ends, splits |-> pieces'.splits]
        /\ tailer' = [pc |-> tailer'.pc, from |-> tailer'.from, pos |-> tailer'.pos,
                      len |-> tailer'.len, carry |-> tailer'.carry]
    BY <1>2 DEF TailInv, TailRecords
  <2> QED BY <1>3, <2>1, <2>2, <2>3, <2>4, <2>5, Zenon DEF TailRecords
<1>6. Numbered'
  BY <1>2, <1>3, <1>4 DEF TailInv, Numbered, Rising, Before
<1>7. NewPastPos'
  <2>1. Source' \in {<<>>, Source}
    BY <1>2, <1>3 DEF Source, TailAt
  <2> QED BY <1>2, <1>4, <2>1 DEF TailInv, NewPastPos
<1>8. Unrotated'
  BY <1>2 DEF TailInv, TailRecords, Unrotated
<1> QED BY <1>5, <1>6, <1>7, <1>8 DEF TailInv

LEMMA TailOpensInv ==
  ASSUME TailInv, TailOpens
  PROVE  TailInv'
<1> DEFINE anew == Len(logged) < tailer.pos
<1>1. /\ TailAt("open") /\ logged' = logged /\ sent' = sent /\ pieces' = pieces
      /\ rotations' = rotations
      /\ opened' = [file |-> logged, current |-> TRUE]
  BY DEF TailOpens
<1>2. /\ tailer' = [pc |-> tailer'.pc, from |-> tailer'.from, pos |-> tailer'.pos,
                    len |-> tailer'.len, carry |-> tailer'.carry]
      /\ tailer'.pc = "read" /\ tailer'.from = tailer.from /\ tailer'.len = Len(logged)
      /\ tailer'.pos = IF anew THEN 0 ELSE tailer.pos
      /\ tailer'.carry = IF anew THEN <<>> ELSE tailer.carry
  BY DEF TailOpens, TailInv, TailRecords
<1>3. /\ logged \in Seq(Nat) /\ Len(logged) \in Nat /\ DOMAIN logged = 1..Len(logged)
      /\ <<>> \in Seq(Nat) /\ sent \in Seq(Nat) /\ tailer.carry \in Seq(Nat)
      /\ tailer.pos \in Nat
  BY LenProperties, EmptySeq DEF TailInv, TailRecords
<1>4. TailRecords'
  BY <1>1, <1>2, <1>3 DEF TailInv, TailRecords, TailAt
<1>5. Source' = Source /\ Source = logged
  BY <1>1, <1>2 DEF Source, TailAt
<1> HIDE DEF anew
<1>6. /\ Rising(Delivered') /\ Before(Delivered', pieces.n + 1)
      /\ \A n \in Nat : Before(Delivered, n) => Before(Delivered', n)
  <2>1. CASE ~anew
    BY <1>1, <1>2, <2>1 DEF Delivered, TailInv, Numbered
  <2>2. CASE anew
    <3>1. Delivered' = sent
      BY <1>1, <1>2, <1>3, <2>2, ConcatEmptySeq DEF Delivered
    <3>2. /\ Len(Delivered) = Len(sent) + Len(tailer.carry) /\ Delivered \in Seq(Nat)
          /\ \A i \in 1..Len(sent) + Len(tailer.carry) :
               Delivered[i] = IF i <= Len(sent) THEN sent[i] ELSE tailer.carry[i - Len(sent)]
          /\ Len(sent) \in Nat /\ Len(tailer.carry) \in Nat
      BY <1>3, ConcatProperties, LenProperties DEF Delivered
    <3>3. DOMAIN sent = 1..Len(sent) /\ DOMAIN Delivered = 1..Len(Delivered)
      BY <1>3, <3>2, LenProperties
    <3>4. \A i \in DOMAIN sent : i \in DOMAIN Delivered /\ sent[i] = Delivered[i]
      BY <3>2, <3>3
    <3> QED BY <3>1, <3>4 DEF TailInv, Numbered, Rising, Before
  <2> QED BY <2>1, <2>2
<1>7. Numbered'
  BY <1>1, <1>6 DEF TailInv, Numbered
<1>8. NewPastPos'
  <2>1. ASSUME NEW i \in DOMAIN logged, i > tailer'.pos \/ Len(logged) < tailer'.pos
        PROVE  Before(Delivered', logged[i])
    <3>1. i > tailer.pos \/ Len(logged) < tailer.pos
      BY <1>2, <1>3, <2>1 DEF anew
    <3>2. Before(Delivered, logged[i])
      BY <1>5, <3>1 DEF TailInv, NewPastPos
    <3> QED BY <1>3, <1>6, <3>2, ElementOfSeq
  <2> QED BY <1>5, <2>1 DEF NewPastPos
<1>9. Unrotated'
  <2>1. rotations = 0 => ~anew
    BY <1>3 DEF anew, TailInv, Unrotated
  <2>2. ASSUME rotations = 0
        PROVE  /\ Delivered' = Delivered /\ tailer'.pos = tailer.pos
               /\ Delivered = SubSeq(logged, tailer.from + 1, tailer.pos)
               /\ tailer.from <= tailer.pos /\ tailer.pos <= Len(logged)
    BY <1>1, <1>2, <2>1, <2>2 DEF TailInv, Unrotated, Delivered
  <2> QED BY <1>1, <1>2, <1>3, <2>2 DEF Unrotated, TailAt
<1> QED BY <1>4, <1>7, <1>8, <1>9 DEF TailInv

(* A poll reads on from the position, so what it takes is newer than what  *)
(* was delivered, and flush_lines only divides it.                         *)
LEMMA Joined ==
  \A s, t, u \in Seq(Nat) : (s \o t) \o u = s \o (t \o u)
<1> TAKE s, t, u \in Seq(Nat)
<1> QED BY SMTT(30), ConcatAssociative

LEMMA Regrouped ==
  \A s, f, l, c, b \in Seq(Nat) : f \o l = c \o b => (s \o f) \o l = (s \o c) \o b
<1> SUFFICES ASSUME NEW s \in Seq(Nat), NEW f \in Seq(Nat), NEW l \in Seq(Nat),
                    NEW c \in Seq(Nat), NEW b \in Seq(Nat), f \o l = c \o b
             PROVE  (s \o f) \o l = (s \o c) \o b
  OBVIOUS
<1>1. (s \o f) \o l = s \o (f \o l)
  BY ZenonT(40), Joined
<1>2. (s \o c) \o b = s \o (c \o b)
  BY ZenonT(40), Joined
<1> QED BY <1>1, <1>2

LEMMA TailReadsInv ==
  ASSUME TailInv, TailReads
  PROVE  TailInv'
<1>0. PICK end, buf, text, pos, now :
        /\ end = Shorter(tailer.len, Len(opened.file))
        /\ buf = SubSeq(opened.file, tailer.pos + 1, end)
        /\ text = tailer.carry \o buf
        /\ pos = tailer.pos /\ now = tailer'.pos
  OBVIOUS
<1>1. /\ TailAt("read") /\ logged' = logged /\ pieces' = pieces /\ rotations' = rotations
      /\ sent' = sent \o SubSeq(text, 1, Flushed(text))
      /\ opened' = [file |-> opened.file, current |-> FALSE]
  BY <1>0 DEF TailReads, TailInv, TailRecords
<1>2. /\ tailer' = [pc |-> tailer'.pc, from |-> tailer'.from, pos |-> tailer'.pos,
                    len |-> tailer'.len, carry |-> tailer'.carry]
      /\ tailer'.pc = "open" /\ tailer'.from = tailer.from /\ tailer'.len = tailer.len
      /\ now = pos + Len(buf)
      /\ tailer'.carry = SubSeq(text, Flushed(text) + 1, Len(text))
  BY <1>0 DEF TailReads, TailInv, TailRecords, Carried
<1>3. /\ logged \in Seq(Nat) /\ opened.file \in Seq(Nat) /\ tailer.carry \in Seq(Nat)
      /\ sent \in Seq(Nat) /\ pos \in Nat /\ tailer.len \in Nat /\ tailer.from \in Nat
      /\ pos <= tailer.len /\ pieces.n \in Nat
  BY <1>0, <1>1 DEF TailInv, TailRecords
<1>4. /\ Len(opened.file) \in Nat /\ DOMAIN opened.file = 1..Len(opened.file)
      /\ Len(logged) \in Nat /\ DOMAIN logged = 1..Len(logged)
  BY <1>3, LenProperties
<1>5. end \in 0..Len(opened.file) /\ end <= tailer.len /\ (end = tailer.len \/ end = Len(opened.file))
  BY SMTT(30), <1>0, <1>3, <1>4 DEF Shorter
<1>6. /\ buf \in Seq(Nat) /\ Len(buf) = IF pos < end THEN end - pos ELSE 0
      /\ DOMAIN buf = 1..Len(buf)
      /\ \A i \in DOMAIN buf : i + pos \in DOMAIN opened.file /\ buf[i] = opened.file[i + pos]
  <2>1. opened.file \in Seq(Nat) /\ pos \in Nat /\ end \in 0..Len(opened.file)
    BY <1>3, <1>5
  <2>2. buf = SubSeq(opened.file, pos + 1, end)
    BY <1>0
  <2> QED BY <2>1, <2>2, PartOf, Zenon
<1>7. text \in Seq(Nat)
  BY <1>0, <1>3, <1>6, ConcatProperties
<1>8. /\ Flushed(text) \in 0..Len(text)
      /\ sent' \in Seq(Nat) /\ tailer'.carry \in Seq(Nat)
      /\ Delivered' = Delivered \o buf
  <2>1. Flushed(text) \in 0..Len(text)
    BY <1>7, FlushCuts
  <2>0. PICK first, last : /\ first = SubSeq(text, 1, Flushed(text))
                           /\ last = SubSeq(text, Flushed(text) + 1, Len(text))
    OBVIOUS
  <2>2. first \in Seq(Nat) /\ last \in Seq(Nat) /\ first \o last = text
    BY <1>7, <2>0, <2>1, CutsMakeUp
  <2>3. sent' = sent \o first /\ tailer'.carry = last
    BY <1>1, <1>2, <2>0
  <2>4. Delivered' = (sent \o first) \o last
    BY <2>3 DEF Delivered
  <2>5. sent \in Seq(Nat) /\ tailer.carry \in Seq(Nat) /\ first \o last = tailer.carry \o buf
    BY <1>0, <1>3, <2>2
  <2>6. (sent \o first) \o last = (sent \o tailer.carry) \o buf
    <3> DEFINE Same(s, f, l, c, b) == f \o l = c \o b => (s \o f) \o l = (s \o c) \o b
               Text == Seq(Nat)
    <3>1. \A s, f, l, c, b \in Text : Same(s, f, l, c, b)
      BY Regrouped, Zenon
    <3>2. sent \in Text /\ tailer.carry \in Text /\ buf \in Text /\ first \in Text /\ last \in Text
      BY <1>6, <2>2, <2>5
    <3>3. Same(sent, first, last, tailer.carry, buf)
      <4> HIDE DEF Same, Text
      <4> QED BY <3>1, <3>2
    <3> QED BY <2>5, <3>3
  <2>7. sent' \in Seq(Nat)
    BY <1>3, <2>2, <2>3, ConcatProperties
  <2> QED BY <2>1, <2>2, <2>3, <2>4, <2>5, <2>6, <2>7 DEF Delivered
<1>9. /\ Delivered \in Seq(Nat) /\ Rising(Delivered) /\ Before(Delivered, pieces.n + 1)
      /\ Rising(opened.file) /\ Before(opened.file, pieces.n + 1)
      /\ Rising(logged) /\ Before(logged, pieces.n + 1)
  BY DeliveredIsSeq DEF TailInv, Numbered
<1>10. Rising(buf) /\ Before(buf, pieces.n + 1) /\ \A i \in DOMAIN buf : Before(Delivered, buf[i])
  <2>1. Rising(buf) /\ Before(buf, pieces.n + 1)
    <3>1. ASSUME NEW i \in DOMAIN buf, NEW j \in DOMAIN buf, i < j
          PROVE  buf[i] < buf[j]
      <4>1. i + pos \in DOMAIN opened.file /\ j + pos \in DOMAIN opened.file /\ i + pos < j + pos
        BY <1>3, <1>6, <3>1, LenProperties
      <4> QED BY <1>6, <1>9, <4>1 DEF Rising
    <3>2. \A i \in DOMAIN buf : buf[i] < pieces.n + 1
      BY <1>6, <1>9 DEF Before
    <3> QED BY <3>1, <3>2 DEF Rising, Before
  <2>2. ASSUME NEW i \in DOMAIN buf
        PROVE  Before(Delivered, buf[i])
    <3>1. i + pos \in DOMAIN Source /\ buf[i] = Source[i + pos] /\ i + pos > pos
        BY <1>1, <1>3, <1>6 DEF Source, TailAt
    <3> QED BY <1>0, <3>1 DEF TailInv, NewPastPos
  <2> QED BY <2>1, <2>2
<1>11. Rising(Delivered') /\ Before(Delivered', pieces.n + 1)
  <2>1. pieces.n + 1 \in Nat /\ buf \in Seq(Nat) /\ Delivered' = Delivered \o buf
    BY SMTT(30), <1>3, <1>6, <1>8
  <2>2. Rising(Delivered \o buf) /\ Before(Delivered \o buf, pieces.n + 1)
    BY <1>9, <1>10, <2>1, ConcatRises
  <2> QED BY <2>1, <2>2
<1>12. TailRecords'
  <2>1. now \in Nat
    BY <1>2, <1>3, <1>6, LenProperties
  <2> QED BY <1>0, <1>1, <1>2, <1>3, <1>8, <2>1 DEF TailInv, TailRecords, TailAt
<1>13. Numbered'
  BY <1>1, <1>2, <1>9, <1>11 DEF Numbered, TailAt
<1>14. ASSUME NEW n \in Nat, Before(Delivered, n), Before(buf, n)
       PROVE  Before(Delivered', n)
  <2>1. \A i \in DOMAIN (Delivered \o buf) :
          \/ i \in DOMAIN Delivered /\ (Delivered \o buf)[i] = Delivered[i]
          \/ i - Len(Delivered) \in DOMAIN buf /\ (Delivered \o buf)[i] = buf[i - Len(Delivered)]
    <3>1. /\ Len(Delivered) \in Nat /\ DOMAIN Delivered = 1..Len(Delivered) /\ Len(buf) \in Nat
          /\ Delivered \o buf \in Seq(Nat) /\ Len(Delivered \o buf) = Len(Delivered) + Len(buf)
          /\ \A i \in 1 .. Len(Delivered) + Len(buf) :
               (Delivered \o buf)[i] = IF i <= Len(Delivered) THEN Delivered[i] ELSE buf[i - Len(Delivered)]
      BY <1>6, <1>9, ConcatProperties, LenProperties
    <3>2. DOMAIN (Delivered \o buf) = 1 .. Len(Delivered) + Len(buf)
      BY <3>1, LenProperties
    <3> QED BY <1>6, <3>1, <3>2
  <2> QED BY <1>8, <1>14, <2>1 DEF Before
<1>15. NewPastPos'
  <2>1. Source' = logged
    BY <1>1, <1>2 DEF Source, TailAt
  <2>2. ASSUME NEW i \in DOMAIN logged, i > now \/ Len(logged) < now
        PROVE  Before(Delivered', logged[i])
    <3>1. logged[i] \in Nat
      BY <1>3, <1>4, ElementOfSeq
    <3>2. CASE ~opened.current
      <4>1. Before(opened.file, logged[i]) /\ Before(Delivered, logged[i])
        BY <1>1, <3>2 DEF TailInv, Numbered
      <4>2. Before(buf, logged[i])
        BY <1>6, <4>1 DEF Before
      <4> QED BY <1>14, <3>1, <4>1, <4>2
    <3>3. CASE opened.current
      <4>1. opened.file = logged /\ Source = logged
        BY <1>1, <3>3 DEF TailInv, Numbered, Source, TailAt
      <4>2. i > pos \/ Len(logged) < pos
        <5>1. now = pos \/ (now = end /\ pos < end)
          BY <1>2, <1>3, <1>4, <1>5, <1>6
        <5>2. i \in Nat /\ i <= Len(logged) /\ end <= Len(logged) /\ end \in Nat
          BY <1>4, <1>5, <2>2, <4>1
        <5> QED BY <1>3, <2>2, <5>1, <5>2
      <4>3. Before(Delivered, logged[i])
        BY <1>0, <4>1, <4>2 DEF TailInv, NewPastPos
      <4>4. ASSUME NEW k \in DOMAIN buf
            PROVE  buf[k] < logged[i]
        <5>1. k + pos \in DOMAIN logged /\ buf[k] = logged[k + pos] /\ k + pos < i
          <6>1. k + pos \in DOMAIN logged /\ buf[k] = logged[k + pos]
            BY <1>6, <4>1
          <6>2. k \in 1..Len(buf) /\ Len(buf) = end - pos /\ pos < end
            BY <1>3, <1>4, <1>5, <1>6
          <6>3. k + pos <= now /\ now = end /\ now <= Len(logged)
            BY <1>2, <1>3, <1>4, <1>5, <4>1, <6>2
          <6>4. i > now
            BY <1>4, <1>5, <2>2, <6>3
          <6> QED BY <1>3, <1>4, <1>5, <6>1, <6>2, <6>3, <6>4
        <5> QED BY <1>9, <5>1 DEF Rising
      <4> QED BY <1>14, <3>1, <4>3, <4>4 DEF Before
    <3> QED BY <3>2, <3>3
  <2> QED BY <1>0, <2>1, <2>2 DEF NewPastPos
<1>16. Unrotated'
  <2> SUFFICES ASSUME rotations = 0
               PROVE  /\ Delivered' = SubSeq(logged, tailer.from + 1, now)
                      /\ tailer.from <= now /\ now <= Len(logged)
    BY <1>0, <1>1, <1>2 DEF Unrotated, TailAt
  <2>1. /\ Delivered = SubSeq(logged, tailer.from + 1, pos)
        /\ tailer.from <= pos /\ pos <= Len(logged)
        /\ opened.file = logged /\ tailer.len <= Len(logged)
    BY <1>0, <1>1 DEF TailInv, Unrotated, Numbered
  <2>2. end = tailer.len /\ now = end
    BY SMTT(30), <1>2, <1>3, <1>4, <1>5, <1>6, <2>1
  <2>3. /\ tailer.from + 1 \in 1..Len(logged) + 1
        /\ pos \in (tailer.from + 1) - 1..Len(logged)
        /\ end \in pos..Len(logged)
    BY <1>3, <1>4, <2>1, <2>2
  <2>4. SubSeq(logged, tailer.from + 1, pos) \o SubSeq(logged, pos + 1, end)
          = SubSeq(logged, tailer.from + 1, end)
    BY <1>3, <2>3, ConcatAdjacentSubSeq
  <2>5. buf = SubSeq(logged, pos + 1, end)
    BY <1>0, <2>1
  <2>6. Delivered' = SubSeq(logged, tailer.from + 1, end)
    BY <1>8, <2>1, <2>4, <2>5
  <2>7. tailer.from <= end /\ end <= Len(logged)
    BY <1>3, <1>4, <2>1, <2>2
  <2> QED BY <2>2, <2>6, <2>7
<1> QED BY <1>12, <1>13, <1>15, <1>16 DEF TailInv

(* While nothing was rotated, a piece is where its number says, a split    *)
(* character at the position is one a poll ended inside, and only halves   *)
(* of those are garbled.                                                   *)
OnlyCut == rotations = 0 =>
  /\ Len(logged) = pieces.n /\ \A i \in DOMAIN logged : logged[i] = i
  /\ tailer.pos \in pieces.splits => tailer.pos \in cuts
  /\ \A p \in garbled : p \in cuts \/ p - 1 \in cuts

LEMMA OnlyCutInit == TailInit => OnlyCut
<1> SUFFICES ASSUME TailInit PROVE OnlyCut
  OBVIOUS
<1>1. /\ logged = <<1, 2>> /\ pieces = [n |-> 2, ends |-> {2}, splits |-> {}]
      /\ garbled = {} /\ cuts = {}
  BY DEF TailInit
<1>2. Len(logged) = 2 /\ DOMAIN logged = 1..2 /\ logged[1] = 1 /\ logged[2] = 2
  BY <1>1
<1> QED BY <1>1, <1>2 DEF OnlyCut

LEMMA OnlyCutWrite ==
  ASSUME TailInv, OnlyCut, Write
  PROVE  OnlyCut'
<1>1. PICK ends, splits \in SUBSET {pieces.n + 1} :
        pieces' = [n |-> pieces.n + 1, ends |-> pieces.ends \cup ends, splits |-> pieces.splits \cup splits]
  BY DEF Write
<1>2. /\ logged' = Append(logged, pieces.n + 1) /\ tailer' = tailer /\ rotations' = rotations
      /\ garbled' = garbled /\ cuts' = cuts
  BY DEF Write
<1>3. pieces.n \in Nat /\ logged \in Seq(Nat) /\ tailer.pos \in Nat
  BY DEF TailInv, TailRecords
<1> SUFFICES ASSUME rotations = 0
             PROVE  /\ Len(logged') = pieces'.n /\ \A i \in DOMAIN logged' : logged'[i] = i
                    /\ tailer.pos \in pieces'.splits => tailer.pos \in cuts
                    /\ \A p \in garbled : p \in cuts \/ p - 1 \in cuts
  BY <1>2 DEF OnlyCut
<1>4. /\ Len(logged) = pieces.n /\ \A i \in DOMAIN logged : logged[i] = i
      /\ tailer.pos \in pieces.splits => tailer.pos \in cuts
      /\ \A p \in garbled : p \in cuts \/ p - 1 \in cuts
  BY DEF OnlyCut
<1>5. /\ logged' \in Seq(Nat) /\ Len(logged') = Len(logged) + 1
      /\ \A i \in 1..Len(logged) : logged'[i] = logged[i]
      /\ logged'[Len(logged) + 1] = pieces.n + 1
  BY <1>2, <1>3, AppendProperties
<1>6. DOMAIN logged = 1..pieces.n /\ DOMAIN logged' = 1..(pieces.n + 1)
  BY <1>3, <1>4, <1>5, LenProperties
<1>7. tailer.pos <= pieces.n
  BY <1>4 DEF TailInv, Unrotated
<1>8. tailer.pos \in pieces'.splits => tailer.pos \in cuts
  BY <1>1, <1>3, <1>4, <1>7
<1>9. Len(logged') = pieces'.n /\ \A i \in DOMAIN logged' : logged'[i] = i
  BY <1>1, <1>3, <1>4, <1>5, <1>6
<1> QED BY <1>4, <1>8, <1>9

LEMMA OnlyCutReads ==
  ASSUME TailInv, OnlyCut, TailReads
  PROVE  OnlyCut'
<1>0. PICK buf, pos : /\ pos = tailer.pos
                      /\ buf = SubSeq(opened.file, pos + 1, Shorter(tailer.len, Len(opened.file)))
  OBVIOUS
<1>1. /\ TailAt("read") /\ logged' = logged /\ pieces' = pieces /\ rotations' = rotations
      /\ garbled' = garbled \cup Halved(buf)
      /\ cuts' = cuts \cup {p \in pieces.splits : buf # <<>> /\ p = buf[Len(buf)]}
      /\ tailer'.pos = pos + Len(buf)
  BY <1>0 DEF TailReads, TailInv, TailRecords
<1> SUFFICES ASSUME rotations = 0
             PROVE  /\ tailer'.pos \in pieces.splits => tailer'.pos \in cuts'
                    /\ \A p \in garbled' : p \in cuts' \/ p - 1 \in cuts'
  BY <1>1 DEF OnlyCut
<1>2. /\ Len(logged) = pieces.n /\ \A i \in DOMAIN logged : logged[i] = i
      /\ pos \in pieces.splits => pos \in cuts
      /\ \A p \in garbled : p \in cuts \/ p - 1 \in cuts
  BY <1>0 DEF OnlyCut
<1>3. /\ opened.file = logged /\ tailer.len <= Len(logged) /\ logged \in Seq(Nat)
      /\ pos \in Nat /\ tailer.len \in Nat /\ pos <= tailer.len
  BY <1>0, <1>1 DEF TailInv, Unrotated, Numbered, TailRecords
<1>4. Len(logged) \in Nat /\ tailer.len \in 0..Len(logged) /\ Shorter(tailer.len, Len(logged)) = tailer.len
  BY <1>3, LenProperties DEF Shorter
<1>5. buf = SubSeq(logged, pos + 1, tailer.len)
  BY <1>0, <1>3, <1>4
<1>6. /\ buf \in Seq(Nat) /\ DOMAIN buf = 1..Len(buf)
      /\ \A i \in DOMAIN buf : i + pos \in DOMAIN logged /\ buf[i] = logged[i + pos]
  <2>1. /\ SubSeq(logged, pos + 1, tailer.len) \in Seq(Nat)
        /\ DOMAIN SubSeq(logged, pos + 1, tailer.len) = 1..Len(SubSeq(logged, pos + 1, tailer.len))
        /\ \A i \in DOMAIN SubSeq(logged, pos + 1, tailer.len) :
             i + pos \in DOMAIN logged /\ SubSeq(logged, pos + 1, tailer.len)[i] = logged[i + pos]
    BY SMTT(60), <1>3, <1>4, PartOf
  <2> QED BY <1>5, <2>1
<1>7. Len(buf) \in Nat /\ \A i \in 1..Len(buf) : buf[i] = i + pos
  BY <1>2, <1>6, LenProperties
<1>8. ASSUME tailer'.pos \in pieces.splits
      PROVE  tailer'.pos \in cuts'
  <2>1. CASE Len(buf) = 0
    <3>1. tailer'.pos = pos
      BY <1>1, <1>3, <2>1
    <3> QED BY <1>1, <1>2, <1>8, <3>1
  <2>2. CASE Len(buf) # 0
    <3>1. Len(buf) \in 1..Len(buf) /\ buf # <<>>
      BY <1>6, <1>7, <2>2, EmptySeq
    <3>2. buf[Len(buf)] = tailer'.pos
      BY <1>1, <1>3, <1>7, <3>1
    <3> QED BY <1>1, <1>8, <3>1, <3>2
  <2> QED BY <2>1, <2>2
<1>9. ASSUME NEW p \in Halved(buf)
      PROVE  p \in cuts' \/ p - 1 \in cuts'
  <2>1. PICK j \in 1..Len(buf) :
          /\ p = buf[j]
          /\ \/ buf[j] \in pieces.splits /\ (j = Len(buf) \/ buf[j + 1] # buf[j] + 1)
             \/ buf[j] - 1 \in pieces.splits /\ (j = 1 \/ buf[j - 1] # buf[j] - 1)
    BY <1>6, <1>9 DEF Halved, Splits
  <2>2. p = j + pos
    BY <1>7, <2>1
  <2>3. CASE p \in pieces.splits /\ (j = Len(buf) \/ buf[j + 1] # p + 1)
    <3>1. j = Len(buf)
      <4>1. ASSUME j # Len(buf) PROVE buf[j + 1] = p + 1
        <5>1. j + 1 \in 1..Len(buf)
          BY <1>7, <4>1
        <5>2. buf[j + 1] = (j + 1) + pos
          BY <1>7, <5>1
        <5> QED BY <1>3, <2>2, <5>2
      <4> QED BY <2>3, <4>1
    <3>2. buf # <<>> /\ p = buf[Len(buf)]
      BY <1>6, <2>1, <3>1, EmptySeq
    <3> QED BY <1>1, <2>3, <3>2
  <2>4. CASE p - 1 \in pieces.splits /\ (j = 1 \/ buf[j - 1] # p - 1)
    <3>1. j = 1
      <4>1. ASSUME j # 1 PROVE buf[j - 1] = p - 1
        <5>1. j - 1 \in 1..Len(buf)
          BY <1>7, <4>1
        <5>2. buf[j - 1] = (j - 1) + pos
          BY <1>7, <5>1
        <5> QED BY <1>3, <2>2, <5>2
      <4> QED BY <2>4, <4>1
    <3>2. p - 1 = pos
      BY <1>3, <2>2, <3>1
    <3> QED BY <1>1, <1>2, <2>4, <3>2
  <2> QED BY <2>1, <2>3, <2>4
<1> QED BY <1>1, <1>2, <1>8, <1>9

LEMMA OnlyCutStep == TailInv /\ OnlyCut /\ [TailNext]_tailVars => OnlyCut'
<1> SUFFICES ASSUME TailInv, OnlyCut, [TailNext]_tailVars PROVE OnlyCut'
  OBVIOUS
<1>1. CASE Rotate
  <2>1. rotations' # 0
    BY <1>1 DEF Rotate, TailInv, TailRecords
  <2> QED BY <2>1 DEF OnlyCut
<1>2. CASE TailOpens
  <2>1. /\ logged' = logged /\ pieces' = pieces /\ garbled' = garbled /\ cuts' = cuts
        /\ rotations' = rotations /\ tailer'.pos \in {0, tailer.pos}
        /\ ~(Len(logged) < tailer.pos) => tailer'.pos = tailer.pos
    BY <1>2 DEF TailOpens, TailInv, TailRecords
  <2>2. rotations = 0 => ~(Len(logged) < tailer.pos)
    BY LenProperties DEF TailInv, Unrotated, TailRecords
  <2> QED BY <2>1, <2>2 DEF OnlyCut
<1>3. CASE UNCHANGED tailVars
  BY <1>3 DEF OnlyCut, tailVars
<1> QED BY <1>1, <1>2, <1>3, OnlyCutWrite, OnlyCutReads DEF TailNext

(* What was sent and what is carried are the pieces up to the position, in *)
(* order, whichever way the file grew or was replaced between two polls.   *)
THEOREM TailInvariant == TailSpec => []TailInv
<1>1. TailInv /\ UNCHANGED tailVars => TailInv'
  BY DEF TailInv, TailRecords, Numbered, NewPastPos, Unrotated, Delivered, Source, TailAt, tailVars
<1>2. TailInv /\ [TailNext]_tailVars => TailInv'
  BY <1>1, WriteInv, RotateInv, TailOpensInv, TailReadsInv DEF TailNext
<1> QED BY <1>2, TailInvInit, PTL DEF TailSpec

(* watch.rs, tail_loop: no piece is sent twice or out of order, whatever   *)
(* is appended or rotated between and during polls, and what a file that   *)
(* only grows holds up to the position is sent or carried, all of it; of   *)
(* that, each poll decodes as it was written all but the halves of a       *)
(* character inside which its read, or the one before, ended.              *)
THEOREM TailIsFaithful == TailSpec => []TailFaithful
<1>1. TailInv /\ OnlyCut => TailFaithful
  BY DEF TailInv, Numbered, Unrotated, Delivered, Rising, TailFaithful, OnlyCut
<1>2. TailInv /\ [TailNext]_tailVars => TailInv'
  <2>1. TailInv /\ UNCHANGED tailVars => TailInv'
    BY DEF TailInv, TailRecords, Numbered, NewPastPos, Unrotated, Delivered, Source, TailAt, tailVars
  <2> QED BY <2>1, WriteInv, RotateInv, TailOpensInv, TailReadsInv DEF TailNext
<1> QED BY <1>1, <1>2, TailInvInit, OnlyCutInit, OnlyCutStep, PTL DEF TailSpec

(* Nothing that is a place in a file is past the pieces written.           *)
TailBounds ==
  /\ pieces.n \in 2..MaxPieces /\ rotations \in 0..MaxRotations
  /\ tailer.pos <= pieces.n /\ tailer.len <= pieces.n
  /\ Len(logged) <= pieces.n /\ Len(opened.file) <= pieces.n

(* watch.rs: the position never passes what was written, whatever was      *)
(* rotated away under it.                                                  *)
THEOREM TailTypes == TailSpec => []TailTypeOK
<1> USE TailAssumption
<1>1. TailInit => TailBounds
  <2> SUFFICES ASSUME TailInit PROVE TailBounds
    OBVIOUS
  <2>1. Len(<<1, 2>>) = 2 /\ Len(<<>>) = 0
    OBVIOUS
  <2> QED BY <2>1 DEF TailInit, TailBounds
<1>2. TailInv /\ TailBounds /\ [TailNext]_tailVars => TailBounds'
  <2> SUFFICES ASSUME TailInv, TailBounds, [TailNext]_tailVars PROVE TailBounds'
    OBVIOUS
  <2>1. /\ logged \in Seq(Nat) /\ opened.file \in Seq(Nat) /\ tailer.carry \in Seq(Nat)
        /\ tailer.pos \in Nat /\ tailer.len \in Nat /\ opened.current \in BOOLEAN
        /\ pieces = [n |-> pieces.n, ends |-> pieces.ends, splits |-> pieces.splits]
        /\ opened = [file |-> opened.file, current |-> opened.current]
        /\ tailer = [pc |-> tailer.pc, from |-> tailer.from, pos |-> tailer.pos,
                     len |-> tailer.len, carry |-> tailer.carry]
    BY DEF TailInv, TailRecords
  <2>2. Len(logged) \in Nat /\ Len(opened.file) \in Nat
    BY <2>1, LenProperties
  <2>3. CASE Write
    <3>1. PICK ends, splits :
            /\ pieces.n < MaxPieces /\ pieces' = [n |-> pieces.n + 1, ends |-> ends, splits |-> splits]
            /\ logged' = Append(logged, pieces.n + 1)
            /\ opened' = IF opened.current
                         THEN [opened EXCEPT !.file = Append(@, pieces.n + 1)] ELSE opened
            /\ UNCHANGED <<tailer, rotations>>
      BY <2>3 DEF Write
    <3>2. pieces.n + 1 \in Nat
      BY DEF TailBounds
    <3>3. Len(logged') = Len(logged) + 1
      BY <2>1, <3>1, <3>2, AppendProperties
    <3>4. Len(opened'.file) <= Len(opened.file) + 1
      <4>1. CASE opened.current
        <5>1. opened'.file = Append(opened.file, pieces.n + 1)
          BY <2>1, <3>1, <4>1
        <5>2. Len(Append(opened.file, pieces.n + 1)) = Len(opened.file) + 1
          BY <2>1, <3>2, AppendProperties
        <5> QED BY <2>2, <5>1, <5>2
      <4>2. CASE ~opened.current
        BY <2>2, <3>1, <4>2
      <4> QED BY <4>1, <4>2
    <3>5. pieces'.n = pieces.n + 1 /\ Len(opened'.file) \in Nat
      <4>1. opened'.file \in Seq(Nat)
        <5>1. CASE opened.current
          BY <2>1, <3>1, <3>2, <5>1, AppendProperties
        <5>2. CASE ~opened.current
          BY <2>1, <3>1, <5>2
        <5> QED BY <5>1, <5>2
      <4> QED BY <3>1, <4>1, LenProperties
    <3> QED BY <2>1, <2>2, <3>1, <3>3, <3>4, <3>5, SMTT(30) DEF TailBounds
  <2>4. CASE Rotate
    <3>1. PICK inPlace \in BOOLEAN :
            /\ rotations < MaxRotations /\ rotations' = rotations + 1 /\ logged' = <<>>
            /\ opened' = CASE ~opened.current -> opened
                           [] inPlace         -> [opened EXCEPT !.file = <<>>]
                           [] OTHER           -> [opened EXCEPT !.current = FALSE]
            /\ UNCHANGED <<tailer, pieces>>
      BY <2>4 DEF Rotate
    <3>2. Len(<<>>) = 0
      OBVIOUS
    <3>3. opened'.file = opened.file \/ opened'.file = <<>>
      BY <2>1, <3>1
    <3>4. Len(opened'.file) <= pieces.n
      BY <3>2, <3>3, TailAssumption DEF TailBounds
    <3>5. UNCHANGED <<tailer, pieces>> /\ rotations < MaxRotations /\ rotations' = rotations + 1 /\ logged' = <<>>
      BY <3>1
    <3> QED BY <3>2, <3>4, <3>5 DEF TailBounds
  <2>5. CASE TailOpens
    <3>1. PICK pos, carry :
            /\ tailer' = [tailer EXCEPT !.len = Len(logged), !.pc = "read", !.pos = pos, !.carry = carry]
            /\ pos \in {0, tailer.pos}
            /\ opened' = [file |-> logged, current |-> TRUE] /\ UNCHANGED <<logged, pieces, rotations>>
      BY <2>5 DEF TailOpens
    <3>2. tailer'.pos = pos /\ tailer'.len = Len(logged) /\ opened'.file = logged
      BY <2>1, <3>1
    <3> QED BY <2>1, <2>2, <3>1, <3>2 DEF TailBounds
  <2>6. CASE TailReads
    <3>1. PICK m, carry :
            /\ m = Shorter(tailer.len, Len(opened.file))
            /\ tailer' = [tailer EXCEPT !.pc = "open", !.carry = carry,
                            !.pos = @ + Len(SubSeq(opened.file, tailer.pos + 1, m))]
            /\ opened' = [opened EXCEPT !.current = FALSE] /\ UNCHANGED <<logged, pieces, rotations>>
      BY <2>6 DEF TailReads
    <3>2. m \in Nat /\ m <= pieces.n
      BY <2>1, <2>2, <3>1 DEF Shorter, TailBounds
    <3>3. Len(SubSeq(opened.file, tailer.pos + 1, m)) = IF tailer.pos + 1 <= m THEN m - (tailer.pos + 1) + 1 ELSE 0
      <4>1. m <= Len(opened.file)
        BY <2>1, <2>2, <3>1 DEF Shorter
      <4>2. tailer.pos + 1 \in 1..(Len(opened.file) + 1) \/ ~(tailer.pos + 1 <= m)
        BY <2>1, <2>2, <3>2, <4>1, SMTT(30)
      <4> QED BY <2>1, <2>2, <3>2, <4>1, <4>2, SubSeqProperties
    <3>4. /\ tailer'.pos = tailer.pos + Len(SubSeq(opened.file, tailer.pos + 1, m))
          /\ tailer'.len = tailer.len /\ opened'.file = opened.file
      BY <2>1, <3>1
    <3>5. tailer'.pos <= pieces.n
      <4>1. PICK k : k = Len(SubSeq(opened.file, tailer.pos + 1, m))
        OBVIOUS
      <4>2. tailer'.pos = tailer.pos + k /\ k = IF tailer.pos + 1 <= m THEN m - (tailer.pos + 1) + 1 ELSE 0
        BY <3>3, <3>4, <4>1
      <4>3. tailer.pos \in Nat /\ tailer.pos <= pieces.n /\ pieces.n \in Nat
        BY <2>1 DEF TailBounds
      <4> QED BY <3>2, <4>2, <4>3
    <3>6. UNCHANGED <<logged, pieces, rotations>>
      BY <3>1
    <3> QED BY <3>4, <3>5, <3>6 DEF TailBounds
  <2>7. CASE UNCHANGED tailVars
    BY <2>7 DEF tailVars, TailBounds
  <2> QED BY <2>3, <2>4, <2>5, <2>6, <2>7 DEF TailNext
<1>3. TailInv /\ TailBounds => TailTypeOK
  BY DEF TailInv, TailRecords, TailBounds, TailTypeOK
<1> QED BY <1>1, <1>2, <1>3, TailInvariant, PTL DEF TailSpec

-----------------------------------------------------------------------------
(***************************************************************************)
(* Background jobs (Jobs).  Eviction keeps a bounded number of outcomes    *)
(* and drops only what has ended: a job is in the registry, was handed     *)
(* out, or was trimmed as one of the oldest.                               *)
(***************************************************************************)

(* What follows JobAccounting needs besides it: a job is running until its *)
(* thread files the outcome, and a trimmed job has left the registry.      *)
JobsInv ==
  /\ nextJob \in 0..MaxJobs
  /\ DOMAIN jobs \subseteq 1..nextJob
  /\ executing = DOMAIN jobs \ Finished(jobs)
  /\ notices \subseteq 1..nextJob
  /\ dropped \subseteq (1..nextJob) \ DOMAIN jobs
  /\ \A id \in DOMAIN jobs : jobs[id] \in Outcome \cup {"running"}
  /\ handed \in [JobId -> Nat]
  /\ JobAccounting


(* evict_overflow leaves MAX_FINISHED results at most: of the jobs that    *)
(* stay, the one of lowest id has fewer than that many above it.           *)
LEMMA FewStay ==
  ASSUME NEW S \in SUBSET Nat, IsFiniteSet(S), NEW M \in Nat
  PROVE  Cardinality({id \in S : ~(Cardinality({o \in S : o > id}) >= M)}) <= M
<1> DEFINE Above(id) == {o \in S : o > id}
           Stay == {id \in S : ~(Cardinality(Above(id)) >= M)}
<1> SUFFICES Cardinality(Stay) <= M
  OBVIOUS
<1>1. CASE Stay = {}
  <2> HIDE DEF Stay
  <2> QED BY <1>1, FS_EmptySet
<1>2. CASE Stay # {}
  <2>1. PICK least \in Stay : \A id \in Stay : least <= id
    BY <1>2, LeastOf
  <2>2. IsFiniteSet(Above(least)) /\ Cardinality(Above(least)) \in Nat
    BY FS_Subset, FS_CardinalityType
  <2>3. Cardinality(Above(least)) < M
    BY <2>2
  <2>4. least \notin Above(least)
    OBVIOUS
  <2>5. /\ IsFiniteSet(Above(least) \cup {least})
        /\ Cardinality(Above(least) \cup {least}) = Cardinality(Above(least)) + 1
    BY <2>2, <2>4, FS_AddElement
  <2>6. Stay \subseteq Above(least) \cup {least}
    <3>1. \A id \in Stay : id \in S /\ id \in Nat /\ least \in Nat
      OBVIOUS
    <3>2. \A id \in Stay : id = least \/ id > least
      <4> HIDE DEF Stay
      <4> QED BY <2>1, <3>1
    <3>3. \A id \in Stay : id = least \/ id \in Above(least)
      BY <3>1, <3>2
    <3> QED BY <3>3
  <2>7. Cardinality(Stay) <= Cardinality(Above(least) \cup {least}) /\ Cardinality(Stay) \in Nat
    BY <2>5, <2>6, FS_Subset, FS_CardinalityType
  <2> QED BY <2>2, <2>3, <2>5, <2>7
<1> QED BY <1>1, <1>2

LEMMA FinishedFinite ==
  ASSUME NEW n \in Nat, NEW reg, DOMAIN reg \subseteq 1..n
  PROVE  Finished(reg) \in SUBSET Nat /\ IsFiniteSet(Finished(reg))
<1>1. Finished(reg) \subseteq 1..n /\ IsFiniteSet(1..n)
  BY FS_Interval DEF Finished
<1> QED BY <1>1, FS_Subset

LEMMA JobsInvInit == JobsInit => JobsInv
<1> SUFFICES ASSUME JobsInit PROVE JobsInv
  OBVIOUS
<1>1. DOMAIN jobs = {} /\ Finished(jobs) = {}
  BY DEF JobsInit, Finished
<1>2. JobAccounting
  BY <1>1, FS_EmptySet, JobsAssumption DEF JobsInit, JobAccounting, JobId
<1> QED BY <1>1, <1>2, JobsAssumption DEF JobsInit, JobsInv, JobId

LEMMA JobStartInv ==
  ASSUME JobsInv, JobStart
  PROVE  JobsInv'
<1> USE JobsAssumption
<1>1. /\ DOMAIN jobs' = DOMAIN jobs \cup {nextJob + 1}
      /\ \A id \in DOMAIN jobs : jobs'[id] = jobs[id]
      /\ jobs'[nextJob + 1] = "running"
      /\ nextJob' = nextJob + 1 /\ nextJob + 1 \in JobId
      /\ nextJob + 1 \notin DOMAIN jobs /\ nextJob + 1 \notin dropped
  BY DEF JobsInv, JobStart, JobId
<1>2. Finished(jobs') = Finished(jobs)
  BY <1>1 DEF Finished
<1>3. JobAccounting'
  <2>1. Cardinality(Finished(jobs')) <= MaxFinished
    BY <1>2 DEF JobsInv, JobAccounting
  <2>2. ASSUME NEW id \in JobId
        PROVE  handed'[id] = IF id \in (1..nextJob') \ (DOMAIN jobs' \cup dropped') THEN 1 ELSE 0
    <3>1. id \in (1..nextJob') \ (DOMAIN jobs' \cup dropped')
            <=> id \in (1..nextJob) \ (DOMAIN jobs \cup dropped)
      BY <1>1 DEF JobsInv, JobStart, JobId
    <3> QED BY <3>1 DEF JobsInv, JobStart, JobAccounting
  <2> QED BY <2>1, <2>2 DEF JobAccounting
<1>4. executing' = DOMAIN jobs' \ Finished(jobs')
  BY <1>1, <1>2 DEF JobsInv, JobStart, Finished
<1>5. \A id \in DOMAIN jobs' : jobs'[id] \in Outcome \cup {"running"}
  BY <1>1 DEF JobsInv
<1>6. /\ nextJob' \in 0..MaxJobs /\ notices' \subseteq 1..nextJob'
      /\ DOMAIN jobs' \subseteq 1..nextJob'
      /\ dropped' \subseteq (1..nextJob') \ DOMAIN jobs'
      /\ handed' \in [JobId -> Nat]
  BY <1>1 DEF JobsInv, JobStart, JobId
<1> QED BY <1>3, <1>4, <1>5, <1>6 DEF JobsInv

LEMMA JobFinishesInv ==
  ASSUME JobsInv, NEW id \in JobId, JobFinishes(id)
  PROVE  JobsInv'
<1> USE JobsAssumption
<1>1. PICK outcome \in Outcome, notify \in BOOLEAN :
        LET filed == [jobs EXCEPT ![id] = outcome] IN
        /\ id \in executing
        /\ executing' = executing \ {id}
        /\ jobs' = Keep(filed, DOMAIN filed \ Overflow(filed))
        /\ dropped' = dropped \cup Overflow(filed)
        /\ notices' = IF notify THEN notices \cup {id} ELSE notices
        /\ UNCHANGED <<nextJob, handed>>
  BY DEF JobFinishes
<1> DEFINE filed == [jobs EXCEPT ![id] = outcome]
<1>2. /\ DOMAIN filed = DOMAIN jobs /\ id \in DOMAIN jobs /\ jobs[id] = "running"
      /\ filed[id] = outcome /\ \A other \in DOMAIN jobs \ {id} : filed[other] = jobs[other]
  BY <1>1 DEF JobsInv, Finished
<1>3. Finished(filed) = Finished(jobs) \cup {id} /\ Overflow(filed) \subseteq Finished(filed)
  BY <1>2 DEF Finished, Outcome, Overflow
<1> HIDE DEF filed
<1>4. /\ DOMAIN jobs' = DOMAIN jobs \ Overflow(filed)
      /\ \A other \in DOMAIN jobs' : jobs'[other] = filed[other]
  BY <1>1, <1>2 DEF Keep, filed
<1>5. Finished(jobs') = Finished(filed) \ Overflow(filed)
  BY <1>2, <1>3, <1>4 DEF Finished
<1>6. nextJob \in Nat /\ DOMAIN filed \subseteq 1..nextJob
  BY <1>2 DEF JobsInv
<1>7. Cardinality(Finished(jobs')) <= MaxFinished
  <2>1. Finished(filed) \ Overflow(filed)
          = {o \in Finished(filed) :
               ~(Cardinality({h \in Finished(filed) : h > o}) >= MaxFinished)}
    BY DEF Overflow
  <2> QED BY <1>5, <1>6, <2>1, FewStay, FinishedFinite
<1>8. JobAccounting'
  <2>1. ASSUME NEW other \in JobId
        PROVE  handed'[other] = IF other \in (1..nextJob') \ (DOMAIN jobs' \cup dropped') THEN 1 ELSE 0
    <3>1. DOMAIN jobs' \cup dropped' = DOMAIN jobs \cup dropped
      BY <1>1, <1>2, <1>3, <1>4 DEF filed, Finished
    <3> QED BY <1>1, <3>1 DEF JobsInv, JobAccounting
  <2> QED BY <1>7, <2>1 DEF JobAccounting
<1>9. executing' = DOMAIN jobs' \ Finished(jobs')
  BY <1>1, <1>2, <1>3, <1>4, <1>5 DEF JobsInv, Finished
<1>10. dropped' \subseteq (1..nextJob') \ DOMAIN jobs'
  BY <1>1, <1>3, <1>4, <1>6 DEF JobsInv, filed, Finished
<1>11. \A other \in DOMAIN jobs' : jobs'[other] \in Outcome \cup {"running"}
  BY <1>2, <1>4 DEF JobsInv
<1>12. notices' \subseteq 1..nextJob'
  BY <1>1, <1>2 DEF JobsInv
<1> QED BY <1>1, <1>4, <1>6, <1>8, <1>9, <1>10, <1>11, <1>12 DEF JobsInv

LEMMA HandInv ==
  ASSUME JobsInv, NEW taken \in SUBSET Finished(jobs), Hand(taken)
  PROVE  JobsInv'
<1> USE JobsAssumption
<1>1. /\ DOMAIN jobs' = DOMAIN jobs \ taken
      /\ \A id \in DOMAIN jobs' : jobs'[id] = jobs[id]
  BY DEF Hand, Keep, Left
<1>2. Finished(jobs') = Finished(jobs) \ taken
  BY <1>1 DEF Finished
<1>3. executing' = DOMAIN jobs' \ Finished(jobs')
  BY <1>1, <1>2 DEF JobsInv, Hand
<1>4. Cardinality(Finished(jobs')) <= MaxFinished
  <2>1. /\ Cardinality(Finished(jobs')) <= Cardinality(Finished(jobs))
        /\ Cardinality(Finished(jobs')) \in Nat /\ Cardinality(Finished(jobs)) \in Nat
    <3>1. nextJob \in Nat /\ DOMAIN jobs \subseteq 1..nextJob
      BY DEF JobsInv
    <3>2. IsFiniteSet(Finished(jobs))
      BY <3>1, FinishedFinite
    <3> QED BY <1>2, <3>2, FS_Subset, FS_CardinalityType
  <2> QED BY <2>1 DEF JobsInv, JobAccounting
<1>5. ASSUME NEW id \in JobId
      PROVE  handed'[id] = IF id \in (1..nextJob') \ (DOMAIN jobs' \cup dropped') THEN 1 ELSE 0
  <2>1. handed[id] = IF id \in (1..nextJob) \ (DOMAIN jobs \cup dropped) THEN 1 ELSE 0
    BY DEF JobsInv, JobAccounting
  <2>2. CASE id \in taken
    BY <1>1, <2>1, <2>2 DEF Hand, JobsInv, Finished
  <2>3. CASE id \notin taken
    BY <1>1, <2>1, <2>3 DEF Hand
  <2> QED BY <2>2, <2>3
<1>6. handed' \in [JobId -> Nat]
  BY DEF Hand, JobsInv
<1> QED BY <1>1, <1>3, <1>4, <1>5, <1>6 DEF JobsInv, JobAccounting, Hand

(* What is running is listed, what left the registry had ended, and what   *)
(* was trimmed was never handed out.                                       *)
THEOREM JobsInvariant == JobsSpec => []JobsInv
<1>1. JobsInv /\ [JobsNext]_jobVars => JobsInv'
  <2> SUFFICES ASSUME JobsInv, [JobsNext]_jobVars PROVE JobsInv'
    OBVIOUS
  <2>1. CASE JobStart
    BY <2>1, JobStartInv
  <2>2. CASE \E id \in JobId : JobFinishes(id)
    BY <2>2, JobFinishesInv
  <2>3. CASE \E id \in JobId : JobResult(id)
    BY <2>3, HandInv DEF JobResult
  <2>4. CASE JobPoll
    BY <2>4, HandInv DEF JobPoll
  <2>5. CASE UNCHANGED jobVars
    BY <2>5 DEF jobVars, JobsInv, JobAccounting, Finished
  <2> QED BY <2>1, <2>2, <2>3, <2>4, <2>5 DEF JobsNext
<1> QED BY <1>1, JobsInvInit, PTL DEF JobsSpec

(* jobs.rs: whatever clients poll or ask for, no result is returned twice  *)
(* or lost but by the eviction, and the registry stays within its limit.   *)
THEOREM JobsAccounted == JobsSpec => []JobAccounting
<1>1. JobsInv => JobAccounting
  BY DEF JobsInv
<1> QED BY <1>1, JobsInvariant, PTL

(* jobs.rs: what runs is in the registry, and an id in it was given out.   *)
THEOREM JobsTypes == JobsSpec => []JobsTypeOK
<1>1. JobsInv => JobsTypeOK
  BY DEF JobsInv, JobsTypeOK, Finished
<1> QED BY <1>1, JobsInvariant, PTL

-----------------------------------------------------------------------------
(***************************************************************************)
(* What hooks run (Hooks).  A buried hook has no script, and nobody is     *)
(* about to write it one; while commands that change hooks come one at a   *)
(* time, every hook that is listed has its script, at each file operation  *)
(* of the one under way and wherever it is torn down.                      *)
(***************************************************************************)

Entry == [id : HookId, on : BOOLEAN]
Unique(list) == \A i, j \in DOMAIN list : list[i].id = list[j].id => i = j

(* What a command that changes hooks has yet to do.                        *)
Remaining(op) ==
  CASE op = "save"   -> {<<"scaffold", "empty", "write">>, <<"empty", "write">>, <<"write">>}
    [] op = "enable" -> {<<"empty", "write">>, <<"write">>}
    [] op = "delete" -> {<<"empty", "write", "remove">>, <<"write", "remove">>, <<"remove">>}

TaskFits(t) ==
  /\ t = [op |-> t.op, id |-> t.id, list |-> t.list, todo |-> t.todo, ran |-> t.ran, clean |-> t.clean]
  /\ t.op \in {"none", "save", "delete", "enable", "fire"} /\ t.ran \in Seq(HookId)
  /\ t.clean \in BOOLEAN
  /\ Changes(t.op) =>
       /\ t.id \in HookId /\ t.todo \in Remaining(t.op)
       /\ t.list \in Seq(Entry) /\ Unique(t.list)

HookRecords ==
  /\ manifest \in Seq(Entry) /\ Unique(manifest)
  /\ scripts \subseteq HookId
  /\ task = [p \in HookProc |-> task[p]]
  /\ \A p \in HookProc : TaskFits(task[p])

(* A hook that is buried has no script, and nobody is about to give it     *)
(* one.                                                                    *)
BuriedStay ==
  /\ buried \cap scripts = {}
  /\ \A p \in HookProc : task[p].op = "save" => task[p].id \notin buried
  /\ \A p, q \in HookProc :
       task[p].op = "delete" /\ task[p].clean /\ task[q].op = "save" => task[p].id # task[q].id

(* While commands that change hooks come one at a time, whatever is listed *)
(* has a script, and so will be whatever the one command writes.           *)
Writes(t) ==
  /\ \A id : Listed(t.list, id) =>
       id \in scripts \/ (id = t.id /\ t.todo = <<"scaffold", "empty", "write">>)
  /\ t.op = "delete" => ~Listed(t.list, t.id)
  /\ t.todo = <<"remove">> => ~Listed(manifest, t.id)

OneChanger ==
  /\ \A p, q \in HookProc : Changing(p) /\ Changing(q) => p = q
  /\ \A id : Listed(manifest, id) => id \in scripts
  /\ \A p \in HookProc : Changing(p) => Writes(task[p])

HooksInv == HookRecords /\ BuriedStay /\ (~clashed => OneChanger)

LEMMA HooksInvInit == HooksInit => HooksInv
<1> SUFFICES ASSUME HooksInit PROVE HooksInv
  OBVIOUS
<1>1. <<>> \in Seq(Entry) /\ <<>> \in Seq(HookId) /\ DOMAIN <<>> = {}
  BY EmptySeq, LenProperties
<1>2. manifest \in Seq(Entry) /\ Unique(manifest) /\ \A id : ~Listed(manifest, id)
  BY <1>1 DEF HooksInit, Unique, Listed
<1>3. \A p \in HookProc : TaskFits(task[p]) /\ task[p].op = "none"
  BY <1>1 DEF HooksInit, NoTask, TaskFits, Changes
<1>4. HookRecords
  BY <1>2, <1>3 DEF HooksInit, HookRecords
<1>5. BuriedStay
  BY <1>3 DEF HooksInit, BuriedStay
<1>6. OneChanger
  BY <1>2, <1>3 DEF OneChanger, Changing, Changes
<1> QED BY <1>4, <1>5, <1>6 DEF HooksInv

(* A list without a hook: it is gone, the others are as they were.         *)
LEMMA RetainedIs ==
  ASSUME manifest \in Seq(Entry), Unique(manifest), NEW id
  PROVE  /\ Retained(id) \in Seq(Entry) /\ Unique(Retained(id))
         /\ ~Listed(Retained(id), id)
         /\ \A x : Listed(Retained(id), x) => Listed(manifest, x)
<1>1. /\ Len(manifest) \in Nat /\ DOMAIN manifest = 1..Len(manifest)
      /\ \A i \in 1..Len(manifest) : manifest[i] \in Entry
  BY LenProperties, ElementOfSeq
<1>2. CASE ~Listed(manifest, id)
  BY <1>2 DEF Retained
<1>3. CASE Listed(manifest, id)
  <2> DEFINE at == CHOOSE i \in DOMAIN manifest : manifest[i].id = id
             rest == [i \in 1..(Len(manifest) - 1) |-> IF i < at THEN manifest[i] ELSE manifest[i + 1]]
  <2>1. at \in 1..Len(manifest) /\ manifest[at].id = id
    BY <1>1, <1>3 DEF Listed
  <2>2. Retained(id) = rest
    BY <1>3 DEF Retained
  <2> HIDE DEF at
  <2>3. Len(manifest) - 1 \in Nat
    BY <1>1, <2>1
  <2>4. \A i \in 1..(Len(manifest) - 1) : rest[i] \in Entry
    BY <1>1, <2>1
  <2>5. rest \in Seq(Entry)
    <3>1. rest \in [1..(Len(manifest) - 1) -> Entry]
      BY <2>4
    <3> QED BY <2>3, <3>1, SeqDef
  <2>6. ASSUME NEW i \in 1..(Len(manifest) - 1)
        PROVE  LET j == IF i < at THEN i ELSE i + 1
               IN j \in DOMAIN manifest /\ j # at /\ rest[i] = manifest[j]
    BY <1>1, <2>1
  <2>7. DOMAIN rest = 1..(Len(manifest) - 1)
    OBVIOUS
  <2> HIDE DEF rest
  <2>8. \A i, j \in DOMAIN rest : rest[i].id = rest[j].id => i = j
    <3> SUFFICES ASSUME NEW i \in DOMAIN rest, NEW j \in DOMAIN rest, rest[i].id = rest[j].id
                 PROVE  i = j
      OBVIOUS
    <3> DEFINE m == IF i < at THEN i ELSE i + 1
               n == IF j < at THEN j ELSE j + 1
    <3>1. m \in DOMAIN manifest /\ n \in DOMAIN manifest /\ rest[i] = manifest[m] /\ rest[j] = manifest[n]
      BY <2>6, <2>7
    <3>2. m = n
      BY <3>1 DEF Unique
    <3> QED BY <3>2, <2>1, <2>7, <1>1
  <2>9. \A i \in DOMAIN rest : rest[i].id # id
    <3> SUFFICES ASSUME NEW i \in DOMAIN rest PROVE rest[i].id # id
      OBVIOUS
    <3> DEFINE j == IF i < at THEN i ELSE i + 1
    <3>1. j \in DOMAIN manifest /\ j # at /\ rest[i] = manifest[j]
      BY <2>6, <2>7
    <3> QED BY <1>1, <2>1, <3>1 DEF Unique
  <2>10. \A x : Listed(rest, x) => Listed(manifest, x)
    <3> SUFFICES ASSUME NEW i \in DOMAIN rest PROVE Listed(manifest, rest[i].id)
      BY DEF Listed
    <3> QED BY <2>6, <2>7 DEF Listed
  <2> QED BY <2>2, <2>5, <2>8, <2>9, <2>10 DEF Unique, Listed
<1> QED BY <1>2, <1>3

(* What a command is to write: ids stay unique, and only a save that does  *)
(* not know its hook lists another.                                        *)
LEMMA RevisedIs ==
  ASSUME manifest \in Seq(Entry), Unique(manifest),
         NEW op \in {"save", "delete", "enable"}, NEW id \in HookId, NEW on \in BOOLEAN
  PROVE  /\ Revised(op, id, on) \in Seq(Entry) /\ Unique(Revised(op, id, on))
         /\ \A x : Listed(Revised(op, id, on), x) =>
              Listed(manifest, x) \/ (x = id /\ op = "save" /\ ~Listed(manifest, id))
         /\ op = "delete" => ~Listed(Revised(op, id, on), id)
<1>0. Hook(id, on) \in Entry /\ Hook(id, on).id = id
  BY DEF Hook, Entry
<1>1. /\ Len(manifest) \in Nat /\ DOMAIN manifest = 1..Len(manifest)
      /\ \A i \in 1..Len(manifest) : manifest[i] \in Entry
  BY LenProperties, ElementOfSeq
<1>2. CASE op = "delete"
  BY <1>2, RetainedIs DEF Revised
<1>3. CASE op = "save" /\ ~Listed(manifest, id)
  <2> DEFINE more == Append(manifest, Hook(id, on))
  <2>1. /\ more \in Seq(Entry) /\ Len(more) = Len(manifest) + 1
        /\ \A i \in 1..Len(manifest) : more[i] = manifest[i]
        /\ more[Len(manifest) + 1] = Hook(id, on)
    BY <1>0, AppendProperties
  <2>2. DOMAIN more = 1..(Len(manifest) + 1)
    BY <2>1, LenProperties
  <2>3. Revised(op, id, on) = more
    BY <1>3 DEF Revised
  <2> HIDE DEF more
  <2>4. \A i \in DOMAIN more : IF i = Len(manifest) + 1 THEN more[i].id = id
                               ELSE i \in DOMAIN manifest /\ more[i] = manifest[i]
    BY <1>0, <1>1, <2>1, <2>2
  <2>5. \A i \in DOMAIN manifest : manifest[i].id # id
    BY <1>3 DEF Listed
  <2>6. Unique(more)
    BY <2>4, <2>5 DEF Unique
  <2>7. \A x : Listed(more, x) => Listed(manifest, x) \/ x = id
    BY <2>4 DEF Listed
  <2> QED BY <1>3, <2>1, <2>3, <2>6, <2>7
<1>4. CASE op # "delete" /\ ~(op = "save" /\ ~Listed(manifest, id))
  <2> DEFINE same == [i \in DOMAIN manifest |->
                        IF manifest[i].id = id THEN Hook(id, on) ELSE manifest[i]]
  <2>1. Revised(op, id, on) = same
    BY <1>4 DEF Revised
  <2>2. \A i \in DOMAIN manifest : same[i] \in Entry /\ same[i].id = manifest[i].id
    BY <1>0, <1>1
  <2>3. DOMAIN same = DOMAIN manifest
    OBVIOUS
  <2>4. same \in Seq(Entry)
    <3>1. same \in [1..Len(manifest) -> Entry]
      BY <1>1, <2>2
    <3> QED BY <1>1, <3>1, SeqDef
  <2> HIDE DEF same
  <2> QED BY <1>4, <2>1, <2>2, <2>3, <2>4 DEF Unique, Listed
<1> QED BY <1>2, <1>3, <1>4

(* What is left of a command after its next file operation.                *)
LEMMA FirstOfRemaining ==
  ASSUME NEW op \in {"save", "delete", "enable"}, NEW todo \in Remaining(op)
  PROVE  /\ Len(todo) = 1 => Head(todo) = IF op = "delete" THEN "remove" ELSE "write"
         /\ Len(todo) # 1 => /\ Tail(todo) \in Remaining(op)
                             /\ Tail(todo) # <<"scaffold", "empty", "write">>
                             /\ Head(todo) \in {"scaffold", "empty", "write"}
         /\ Head(todo) = "scaffold" <=> todo = <<"scaffold", "empty", "write">>
         /\ Head(todo) = "scaffold" => op = "save"
         /\ Head(todo) = "remove" => op = "delete" /\ todo = <<"remove">>
         /\ Len(todo) # 1 /\ Tail(todo) = <<"remove">> => Head(todo) = "write"
<1>1. /\ Len(<<"write">>) = 1 /\ Len(<<"remove">>) = 1
      /\ Head(<<"write">>) = "write" /\ Head(<<"remove">>) = "remove"
  OBVIOUS
<1>2. /\ Len(<<"empty", "write">>) = 2 /\ Len(<<"write", "remove">>) = 2
      /\ Head(<<"empty", "write">>) = "empty" /\ Head(<<"write", "remove">>) = "write"
      /\ Tail(<<"empty", "write">>) = <<"write">> /\ Tail(<<"write", "remove">>) = <<"remove">>
  OBVIOUS
<1>3. /\ Len(<<"scaffold", "empty", "write">>) = 3 /\ Len(<<"empty", "write", "remove">>) = 3
      /\ Head(<<"scaffold", "empty", "write">>) = "scaffold"
      /\ Head(<<"empty", "write", "remove">>) = "empty"
      /\ Tail(<<"scaffold", "empty", "write">>) = <<"empty", "write">>
      /\ Tail(<<"empty", "write", "remove">>) = <<"write", "remove">>
  OBVIOUS
<1>4. CASE op = "save"
  <2>1. Remaining(op) = {<<"scaffold", "empty", "write">>, <<"empty", "write">>, <<"write">>}
    BY <1>4 DEF Remaining
  <2>2. CASE todo = <<"scaffold", "empty", "write">>
    BY <1>1, <1>2, <1>3, <1>4, <2>1, <2>2
  <2>3. CASE todo = <<"empty", "write">>
    BY <1>1, <1>2, <1>3, <1>4, <2>1, <2>3
  <2>4. CASE todo = <<"write">>
    BY <1>1, <1>2, <1>3, <1>4, <2>1, <2>4
  <2> QED BY <2>1, <2>2, <2>3, <2>4
<1>5. CASE op = "enable"
  <2>1. Remaining(op) = {<<"empty", "write">>, <<"write">>}
    BY <1>5 DEF Remaining
  <2>2. CASE todo = <<"empty", "write">>
    BY <1>1, <1>2, <1>3, <1>5, <2>1, <2>2
  <2>3. CASE todo = <<"write">>
    BY <1>1, <1>2, <1>3, <1>5, <2>1, <2>3
  <2> QED BY <2>1, <2>2, <2>3
<1>6. CASE op = "delete"
  <2>1. Remaining(op) = {<<"empty", "write", "remove">>, <<"write", "remove">>, <<"remove">>}
    BY <1>6 DEF Remaining
  <2>2. CASE todo = <<"empty", "write", "remove">>
    BY <1>1, <1>2, <1>3, <1>6, <2>1, <2>2
  <2>3. CASE todo = <<"write", "remove">>
    BY <1>1, <1>2, <1>3, <1>6, <2>1, <2>3
  <2>4. CASE todo = <<"remove">>
    BY <1>1, <1>2, <1>3, <1>6, <2>1, <2>4
  <2> QED BY <2>1, <2>2, <2>3, <2>4
<1> QED BY <1>4, <1>5, <1>6

LEMMA Unlisted ==
  /\ \A id : ~Listed(<<>>, id)
  /\ <<>> \in Seq(Entry) /\ <<>> \in Seq(HookId) /\ Unique(<<>>) /\ Len(<<>>) = 0
<1>1. <<>> \in Seq(Entry) /\ <<>> \in Seq(HookId) /\ DOMAIN <<>> = {} /\ Len(<<>>) = 0
  BY EmptySeq, LenProperties
<1> QED BY <1>1 DEF Listed, Unique

(* A task with its fields, and the same with some of them changed.         *)
IsTask(t) ==
  t = [op |-> t.op, id |-> t.id, list |-> t.list, todo |-> t.todo, ran |-> t.ran, clean |-> t.clean]

LEMMA TaskExcept ==
  ASSUME NEW t, IsTask(t), NEW x, NEW y
  PROVE  /\ [t EXCEPT !.clean = x] =
              [op |-> t.op, id |-> t.id, list |-> t.list, todo |-> t.todo, ran |-> t.ran, clean |-> x]
         /\ [t EXCEPT !.todo = x] =
              [op |-> t.op, id |-> t.id, list |-> t.list, todo |-> x, ran |-> t.ran, clean |-> t.clean]
         /\ [t EXCEPT !.todo = x, !.ran = y] =
              [op |-> t.op, id |-> t.id, list |-> t.list, todo |-> x, ran |-> y, clean |-> t.clean]
<1> DEFINE s == [op |-> t.op, id |-> t.id, list |-> t.list, todo |-> t.todo,
                 ran |-> t.ran, clean |-> t.clean]
<1>1. [s EXCEPT !.clean = x] =
        [op |-> t.op, id |-> t.id, list |-> t.list, todo |-> t.todo, ran |-> t.ran, clean |-> x]
  OBVIOUS
<1>2. [s EXCEPT !.todo = x] =
        [op |-> t.op, id |-> t.id, list |-> t.list, todo |-> x, ran |-> t.ran, clean |-> t.clean]
  OBVIOUS
<1>3. [s EXCEPT !.todo = x, !.ran = y] =
        [op |-> t.op, id |-> t.id, list |-> t.list, todo |-> x, ran |-> y, clean |-> t.clean]
  <2> DEFINE u == [s EXCEPT !.todo = x, !.ran = y]
             w == [op |-> t.op, id |-> t.id, list |-> t.list, todo |-> x, ran |-> y, clean |-> t.clean]
  <2>1. /\ DOMAIN u = {"op", "id", "list", "todo", "ran", "clean"}
        /\ DOMAIN w = {"op", "id", "list", "todo", "ran", "clean"}
    OBVIOUS
  <2>2. /\ u.op = t.op /\ u.id = t.id /\ u.list = t.list
        /\ u.todo = x /\ u.ran = y /\ u.clean = t.clean
    OBVIOUS
  <2>3. /\ w.op = t.op /\ w.id = t.id /\ w.list = t.list
        /\ w.todo = x /\ w.ran = y /\ w.clean = t.clean
    OBVIOUS
  <2>4. u = [i \in DOMAIN u |-> u[i]] /\ w = [i \in DOMAIN w |-> w[i]]
    OBVIOUS
  <2> HIDE DEF u, w
  <2>5. \A i \in {"op", "id", "list", "todo", "ran", "clean"} : u[i] = w[i]
    BY <2>2, <2>3
  <2>6. u = w
    BY <2>1, <2>4, <2>5
  <2> QED BY <2>6 DEF u, w
<1> HIDE DEF s
<1>4. t = s
  BY DEF s, IsTask
<1> QED BY <1>1, <1>2, <1>3, <1>4

(* A task whose delete may have become pointless is otherwise the same.    *)
Recleaned(t, clean) ==
  [op |-> t.op, id |-> t.id, list |-> t.list, todo |-> t.todo, ran |-> t.ran, clean |-> clean]

LEMMA RecleanedFits ==
  ASSUME NEW t, TaskFits(t)
  PROVE  /\ \A clean \in BOOLEAN : TaskFits(Recleaned(t, clean))
         /\ \A clean : /\ Recleaned(t, clean).op = t.op /\ Recleaned(t, clean).id = t.id
                       /\ Recleaned(t, clean).list = t.list /\ Recleaned(t, clean).todo = t.todo
                       /\ Recleaned(t, clean).clean = clean
         /\ [t EXCEPT !.clean = FALSE] = Recleaned(t, FALSE)
         /\ t = Recleaned(t, t.clean) /\ t.clean \in BOOLEAN
<1>1. t = Recleaned(t, t.clean) /\ t.clean \in BOOLEAN
  BY DEF TaskFits, Recleaned
<1>2. \A clean : /\ Recleaned(t, clean).op = t.op /\ Recleaned(t, clean).id = t.id
                 /\ Recleaned(t, clean).list = t.list /\ Recleaned(t, clean).todo = t.todo
                 /\ Recleaned(t, clean).ran = t.ran /\ Recleaned(t, clean).clean = clean
  BY DEF Recleaned
<1>3. [t EXCEPT !.clean = FALSE] = Recleaned(t, FALSE)
  BY TaskExcept DEF TaskFits, IsTask, Recleaned
<1>4. ASSUME NEW clean \in BOOLEAN PROVE TaskFits(Recleaned(t, clean))
  <2> DEFINE u == Recleaned(t, clean)
  <2>1. u = [op |-> u.op, id |-> u.id, list |-> u.list, todo |-> u.todo, ran |-> u.ran, clean |-> u.clean]
    BY DEF Recleaned
  <2>2. /\ u.op = t.op /\ u.id = t.id /\ u.list = t.list /\ u.todo = t.todo
        /\ u.ran = t.ran /\ u.clean = clean
    BY <1>2
  <2> HIDE DEF u
  <2>3. TaskFits(u)
    BY <2>1, <2>2 DEF TaskFits
  <2> QED BY <2>3 DEF u
<1> QED BY <1>1, <1>2, <1>3, <1>4

LEMMA ConfigureInv ==
  ASSUME HooksInv, NEW p \in HookProc, NEW op \in {"save", "delete", "enable"},
         NEW id \in HookId, NEW on \in BOOLEAN, Configure(p, op, id, on)
  PROVE  HooksInv'
<1> DEFINE list == Revised(op, id, on)
           todo == FileSteps(op, Listed(manifest, id))
<1>0. HookRecords /\ BuriedStay
  BY DEF HooksInv
<1>1. /\ manifest' = manifest /\ scripts' = scripts /\ task[p].op = "none"
      /\ clashed' = (clashed \/ \E q \in HookProc : Changing(q))
      /\ buried' = IF op = "save" THEN buried \ {id} ELSE buried
  BY DEF Configure, Busy
<1>2. /\ list \in Seq(Entry) /\ Unique(list)
      /\ \A x : Listed(list, x) =>
           Listed(manifest, x) \/ (x = id /\ op = "save" /\ ~Listed(manifest, id))
      /\ op = "delete" => ~Listed(list, id)
  BY <1>0, RevisedIs DEF HookRecords
<1>3. /\ todo \in Remaining(op) /\ todo # <<"remove">>
      /\ op = "save" /\ ~Listed(manifest, id) => todo = <<"scaffold", "empty", "write">>
  <2>1. <<"remove">> \notin {<<"empty", "write">>, <<"scaffold", "empty", "write">>, <<"empty", "write", "remove">>}
    <3>1. /\ Len(<<"remove">>) = 1 /\ Len(<<"empty", "write">>) = 2
          /\ Len(<<"scaffold", "empty", "write">>) = 3 /\ Len(<<"empty", "write", "remove">>) = 3
      OBVIOUS
    <3> QED BY <3>1
  <2> QED BY <2>1 DEF FileSteps, Remaining
<1> HIDE DEF list, todo
<1>4. \E clean \in BOOLEAN :
        /\ task'[p] = [op |-> op, id |-> id, list |-> list, todo |-> todo, ran |-> <<>>, clean |-> clean]
        /\ clean => \A o \in HookProc : ~(task[o].op = "save" /\ task[o].id = id)
  BY DEF Configure, NoTask, list, todo
<1>5. ASSUME NEW q \in HookProc, q # p
      PROVE  \E clean \in BOOLEAN : /\ task'[q] = Recleaned(task[q], clean)
                                    /\ clean => task[q].clean
                                    /\ op = "save" /\ task[q].id = id => ~clean
  <2>1. task'[q] = IF op = "save" /\ task[q].id = id THEN [task[q] EXCEPT !.clean = FALSE] ELSE task[q]
    BY <1>5 DEF Configure
  <2>2. TaskFits(task[q])
    BY <1>0 DEF HookRecords
  <2>3. CASE op = "save" /\ task[q].id = id
    <3>1. task'[q] = Recleaned(task[q], FALSE)
      BY <2>1, <2>2, <2>3, RecleanedFits
    <3> QED BY <3>1
  <2>4. CASE ~(op = "save" /\ task[q].id = id)
    <3>1. task'[q] = Recleaned(task[q], task[q].clean) /\ task[q].clean \in BOOLEAN
      BY <2>1, <2>2, <2>4, RecleanedFits
    <3> QED BY <2>4, <3>1
  <2> QED BY <2>3, <2>4
<1>6. ASSUME NEW q \in HookProc PROVE TaskFits(task'[q])
  <2>1. CASE q = p
    BY <2>1, <1>2, <1>3, <1>4, Unlisted DEF TaskFits
  <2>2. CASE q # p
    <3>1. TaskFits(task[q])
      BY <1>0 DEF HookRecords
    <3>2. PICK clean \in BOOLEAN : task'[q] = Recleaned(task[q], clean)
      BY <2>2, <1>5
    <3> QED BY <3>1, <3>2, RecleanedFits
  <2> QED BY <2>1, <2>2
<1>7. HookRecords'
  <2>1. task' = [q \in HookProc |-> task'[q]]
    BY DEF Configure
  <2> QED BY <1>0, <1>1, <1>6, <2>1 DEF HookRecords
<1>8. /\ task'[p].op = op /\ task'[p].id = id /\ task'[p].list = list /\ task'[p].todo = todo
      /\ task'[p].clean => \A o \in HookProc : ~(task[o].op = "save" /\ task[o].id = id)
  BY <1>4
<1>9. \A q \in HookProc : q # p =>
        /\ task'[q].op = task[q].op /\ task'[q].id = task[q].id /\ task'[q].list = task[q].list
        /\ task'[q].todo = task[q].todo /\ (task'[q].clean => task[q].clean)
        /\ op = "save" /\ task[q].id = id => ~task'[q].clean
  <2> SUFFICES ASSUME NEW q \in HookProc, q # p
               PROVE  /\ task'[q].op = task[q].op /\ task'[q].id = task[q].id
                      /\ task'[q].list = task[q].list
                      /\ task'[q].todo = task[q].todo /\ (task'[q].clean => task[q].clean)
                      /\ op = "save" /\ task[q].id = id => ~task'[q].clean
    OBVIOUS
  <2>1. TaskFits(task[q])
    BY <1>0 DEF HookRecords
  <2>2. PICK clean \in BOOLEAN : /\ task'[q] = Recleaned(task[q], clean)
                                 /\ clean => task[q].clean
                                 /\ op = "save" /\ task[q].id = id => ~clean
    BY <1>5
  <2>3. /\ task'[q].op = task[q].op /\ task'[q].id = task[q].id
        /\ task'[q].list = task[q].list /\ task'[q].todo = task[q].todo
        /\ task'[q].clean = clean
    BY <2>2 DEF Recleaned
  <2> QED BY <2>2, <2>3
<1>10. BuriedStay'
  <2>1. buried' \cap scripts' = {}
    BY <1>0, <1>1 DEF BuriedStay
  <2>2. \A q \in HookProc : task'[q].op = "save" => task'[q].id \notin buried'
    BY <1>0, <1>1, <1>8, <1>9 DEF BuriedStay
  <2>3. ASSUME NEW q \in HookProc, NEW r \in HookProc,
               task'[q].op = "delete", task'[q].clean, task'[r].op = "save"
        PROVE  task'[q].id # task'[r].id
    <3>1. CASE q = p
      BY <2>3, <3>1, <1>8, <1>9
    <3>2. CASE q # p /\ r = p
      BY <2>3, <3>2, <1>8, <1>9
    <3>3. CASE q # p /\ r # p
      BY <2>3, <3>3, <1>0, <1>9 DEF BuriedStay
    <3> QED BY <3>1, <3>2, <3>3
  <2> QED BY <2>1, <2>2, <2>3 DEF BuriedStay
<1>11. ASSUME ~clashed' PROVE OneChanger'
  <2>1. OneChanger /\ \A q \in HookProc : ~Changing(q)
    BY <1>1, <1>11 DEF HooksInv
  <2>2. \A q \in HookProc : Changing(q)' => q = p
    BY <2>1, <1>9 DEF Changing
  <2>3. \A x : Listed(manifest', x) => x \in scripts'
    BY <2>1, <1>1 DEF OneChanger
  <2>4. Writes(task[p])'
    BY <2>3, <1>1, <1>2, <1>3, <1>8 DEF Writes
  <2> QED BY <2>2, <2>3, <2>4 DEF OneChanger
<1> QED BY <1>7, <1>10, <1>11 DEF HooksInv

LEMMA SetScriptInv ==
  ASSUME HooksInv, NEW id \in HookId, SetScript(id)
  PROVE  HooksInv'
<1>0. HookRecords /\ BuriedStay
  BY DEF HooksInv
<1>1. /\ manifest' = manifest /\ scripts' = scripts \cup {id} /\ buried' = buried \ {id}
      /\ clashed' = clashed
  BY DEF SetScript
<1>2. ASSUME NEW q \in HookProc
      PROVE  \E clean \in BOOLEAN : /\ task'[q] = Recleaned(task[q], clean)
                                    /\ clean => task[q].clean
  <2>1. task'[q] = IF task[q].id = id THEN [task[q] EXCEPT !.clean = FALSE] ELSE task[q]
    BY DEF SetScript
  <2>2. TaskFits(task[q])
    BY <1>0 DEF HookRecords
  <2>3. CASE task[q].id = id
    <3>1. task'[q] = Recleaned(task[q], FALSE)
      BY <2>1, <2>2, <2>3, RecleanedFits
    <3> QED BY <3>1
  <2>4. CASE task[q].id # id
    <3>1. task'[q] = Recleaned(task[q], task[q].clean) /\ task[q].clean \in BOOLEAN
      BY <2>1, <2>2, <2>4, RecleanedFits
    <3> QED BY <3>1
  <2> QED BY <2>3, <2>4
<1>3. \A q \in HookProc : TaskFits(task'[q])
  <2> SUFFICES ASSUME NEW q \in HookProc PROVE TaskFits(task'[q])
    OBVIOUS
  <2>1. TaskFits(task[q])
    BY <1>0 DEF HookRecords
  <2>2. PICK clean \in BOOLEAN : task'[q] = Recleaned(task[q], clean)
    BY <1>2
  <2> QED BY <2>1, <2>2, RecleanedFits
<1>4. HookRecords'
  <2>1. task' = [q \in HookProc |-> task'[q]]
    BY DEF SetScript
  <2> QED BY <1>0, <1>1, <1>3, <2>1 DEF HookRecords
<1>5. \A q \in HookProc :
        /\ task'[q].op = task[q].op /\ task'[q].id = task[q].id /\ task'[q].list = task[q].list
        /\ task'[q].todo = task[q].todo /\ (task'[q].clean => task[q].clean)
  <2> SUFFICES ASSUME NEW q \in HookProc
               PROVE  /\ task'[q].op = task[q].op /\ task'[q].id = task[q].id
                      /\ task'[q].list = task[q].list
                      /\ task'[q].todo = task[q].todo /\ (task'[q].clean => task[q].clean)
    OBVIOUS
  <2>1. TaskFits(task[q])
    BY <1>0 DEF HookRecords
  <2>2. PICK clean \in BOOLEAN : /\ task'[q] = Recleaned(task[q], clean)
                                 /\ clean => task[q].clean
    BY <1>2
  <2>3. /\ task'[q].op = task[q].op /\ task'[q].id = task[q].id
        /\ task'[q].list = task[q].list /\ task'[q].todo = task[q].todo
        /\ task'[q].clean = clean
    BY <2>2 DEF Recleaned
  <2> QED BY <2>2, <2>3
<1>6. BuriedStay'
  BY <1>0, <1>1, <1>5 DEF BuriedStay
<1>7. ASSUME ~clashed' PROVE OneChanger'
  <2>1. OneChanger
    BY <1>1, <1>7 DEF HooksInv
  <2>2. \A q \in HookProc : Changing(q)' <=> Changing(q)
    BY <1>5 DEF Changing
  <2>3. \A q \in HookProc : Writes(task[q]) => Writes(task[q])'
    BY <1>1, <1>5 DEF Writes
  <2> QED BY <2>1, <2>2, <2>3, <1>1 DEF OneChanger
<1> QED BY <1>4, <1>6, <1>7 DEF HooksInv

LEMMA FileStepInv ==
  ASSUME HooksInv, NEW p \in HookProc, FileStep(p)
  PROVE  HooksInv'
<1> DEFINE t == task[p]
           last == Len(t.todo) = 1
<1>0. HookRecords /\ BuriedStay /\ TaskFits(t) /\ Changing(p)
  BY DEF HooksInv, HookRecords, FileStep
<1>1. /\ t.op \in {"save", "delete", "enable"} /\ t.id \in HookId
      /\ t.todo \in Remaining(t.op) /\ t.list \in Seq(Entry) /\ Unique(t.list)
  BY <1>0 DEF Changing, Changes, TaskFits
<1>2. /\ manifest' = CASE Head(t.todo) = "empty" -> <<>> [] Head(t.todo) = "write" -> t.list
                       [] OTHER -> manifest
      /\ scripts' = CASE Head(t.todo) = "scaffold" -> scripts \cup {t.id}
                      [] Head(t.todo) = "remove"   -> scripts \ {t.id}
                      [] OTHER                     -> scripts
      /\ task' = [task EXCEPT ![p] = IF last THEN NoTask ELSE [t EXCEPT !.todo = Tail(t.todo)]]
      /\ buried' = IF last /\ t.op = "delete" /\ t.clean THEN buried \cup {t.id} ELSE buried
      /\ clashed' = clashed
  BY DEF FileStep
<1>3. /\ last => Head(t.todo) = IF t.op = "delete" THEN "remove" ELSE "write"
      /\ ~last => /\ Tail(t.todo) \in Remaining(t.op)
                  /\ Tail(t.todo) # <<"scaffold", "empty", "write">>
                  /\ Head(t.todo) \in {"scaffold", "empty", "write"}
      /\ Head(t.todo) = "scaffold" <=> t.todo = <<"scaffold", "empty", "write">>
      /\ Head(t.todo) = "scaffold" => t.op = "save"
      /\ Head(t.todo) = "remove" => t.op = "delete" /\ t.todo = <<"remove">>
      /\ ~last /\ Tail(t.todo) = <<"remove">> => Head(t.todo) = "write"
  BY <1>1, FirstOfRemaining
<1>4. task'[p] = (IF last THEN NoTask ELSE [t EXCEPT !.todo = Tail(t.todo)])
      /\ \A q \in HookProc : q # p => task'[q] = task[q]
  BY <1>0, <1>2 DEF HookRecords
<1>5. CASE last
  <2>1. task'[p] = NoTask
    BY <1>4, <1>5
  <2>2. NoTask.op = "none" /\ TaskFits(NoTask)
    BY Unlisted DEF NoTask, TaskFits, Changes
  <2>3. Head(t.todo) = IF t.op = "delete" THEN "remove" ELSE "write"
    BY <1>3, <1>5
  <2>4. /\ manifest' = IF t.op = "delete" THEN manifest ELSE t.list
        /\ scripts' = IF t.op = "delete" THEN scripts \ {t.id} ELSE scripts
    BY <1>2, <2>3
  <2>5. HookRecords'
    <3>1. task' = [q \in HookProc |-> task'[q]]
      BY <1>0, <1>2 DEF HookRecords
    <3>2. \A q \in HookProc : TaskFits(task'[q])
      BY <1>0, <1>4, <2>1, <2>2 DEF HookRecords
    <3> QED BY <1>0, <1>1, <2>4, <3>1, <3>2 DEF HookRecords
  <2>6. \A q \in HookProc : task'[q].op # "none" => q # p /\ task'[q] = task[q]
    BY <1>4, <2>1, <2>2
  <2>7. BuriedStay'
    <3>1. buried' \cap scripts' = {}
      BY <1>0, <1>2, <2>4 DEF BuriedStay
    <3>2. ASSUME NEW q \in HookProc, task'[q].op = "save" PROVE task'[q].id \notin buried'
      BY <1>0, <1>2, <2>6, <3>2 DEF BuriedStay
    <3>3. \A q, r \in HookProc : task'[q].op = "delete" /\ task'[q].clean /\ task'[r].op = "save"
                                   => task'[q].id # task'[r].id
      BY <1>0, <2>6 DEF BuriedStay
    <3> QED BY <3>1, <3>2, <3>3 DEF BuriedStay
  <2>8. ASSUME ~clashed' PROVE OneChanger'
    <3>1. OneChanger
      BY <1>2, <2>8 DEF HooksInv
    <3>2. \A q \in HookProc : ~Changing(q)'
      BY <1>0, <2>6, <3>1 DEF OneChanger, Changing, Changes
    <3>3. Writes(t)
      BY <1>0, <3>1 DEF OneChanger
    <3>4. t.todo # <<"scaffold", "empty", "write">>
      BY <1>3, <2>3
    <3>5. t.op = "delete" => ~Listed(manifest, t.id)
      BY <1>3, <2>3, <3>3 DEF Writes
    <3>6. \A x : Listed(manifest', x) => x \in scripts'
      BY <2>4, <3>1, <3>3, <3>4, <3>5 DEF Writes, OneChanger
    <3> QED BY <3>2, <3>6 DEF OneChanger
  <2> QED BY <2>5, <2>7, <2>8 DEF HooksInv
<1>6. CASE ~last
  <2> DEFINE u == [op |-> t.op, id |-> t.id, list |-> t.list, todo |-> Tail(t.todo),
                   ran |-> t.ran, clean |-> t.clean]
  <2>1. task'[p] = u
    <3>1. IsTask(t)
      BY <1>0 DEF TaskFits, IsTask
    <3>2. [t EXCEPT !.todo = Tail(t.todo)] = u
      BY <3>1, TaskExcept
    <3> QED BY <1>4, <1>6, <3>2
  <2>2. /\ u.op = t.op /\ u.id = t.id /\ u.list = t.list /\ u.todo = Tail(t.todo)
        /\ u.ran = t.ran /\ u.clean = t.clean
        /\ u = [op |-> u.op, id |-> u.id, list |-> u.list, todo |-> u.todo, ran |-> u.ran, clean |-> u.clean]
    OBVIOUS
  <2> HIDE DEF u
  <2>3. /\ Tail(t.todo) \in Remaining(t.op)
        /\ Tail(t.todo) # <<"scaffold", "empty", "write">>
        /\ Head(t.todo) \in {"scaffold", "empty", "write"}
    BY <1>3, <1>6
  <2>4. /\ manifest' = CASE Head(t.todo) = "empty" -> <<>> [] Head(t.todo) = "write" -> t.list
                         [] OTHER -> manifest
        /\ scripts' = IF Head(t.todo) = "scaffold" THEN scripts \cup {t.id} ELSE scripts
        /\ buried' = buried
    BY <1>2, <1>6, <2>3
  <2>5. TaskFits(u)
    BY <1>0, <1>1, <2>2, <2>3 DEF TaskFits
  <2>6. HookRecords'
    <3>1. task' = [q \in HookProc |-> task'[q]]
      BY <1>0, <1>2 DEF HookRecords
    <3>2. \A q \in HookProc : TaskFits(task'[q])
      BY <1>0, <1>4, <2>1, <2>5 DEF HookRecords
    <3>3. manifest' \in Seq(Entry) /\ Unique(manifest')
      BY <1>0, <1>1, <2>3, <2>4, Unlisted DEF HookRecords
    <3> QED BY <1>0, <1>1, <2>4, <3>1, <3>2, <3>3 DEF HookRecords
  <2>7. \A q \in HookProc : /\ task'[q].op = task[q].op /\ task'[q].id = task[q].id
                            /\ task'[q].clean = task[q].clean
    BY <1>4, <2>1, <2>2
  <2>8. BuriedStay'
    <3>1. Head(t.todo) = "scaffold" => t.id \notin buried
      BY <1>0, <1>3 DEF BuriedStay
    <3> QED BY <1>0, <2>4, <2>7, <3>1 DEF BuriedStay
  <2>9. ASSUME ~clashed' PROVE OneChanger'
    <3>1. OneChanger
      BY <1>2, <2>9 DEF HooksInv
    <3>2. \A q \in HookProc : Changing(q)' => q = p
      BY <1>0, <2>7, <3>1 DEF OneChanger, Changing
    <3>3. Writes(t)
      BY <1>0, <3>1 DEF OneChanger
    <3>4. \A x : Listed(t.list, x) => x \in scripts'
      BY <1>3, <2>4, <3>3 DEF Writes
    <3>5. \A x : Listed(manifest', x) => x \in scripts'
      <4>1. CASE Head(t.todo) = "empty"
        BY <2>4, <4>1, Unlisted
      <4>2. CASE Head(t.todo) = "write"
        BY <2>4, <3>4, <4>2
      <4>3. CASE Head(t.todo) = "scaffold"
        BY <2>4, <3>1, <4>3 DEF OneChanger
      <4> QED BY <2>3, <4>1, <4>2, <4>3
    <3>6. Tail(t.todo) = <<"remove">> => ~Listed(manifest', t.id)
      <4> SUFFICES ASSUME Tail(t.todo) = <<"remove">> PROVE ~Listed(manifest', t.id)
        OBVIOUS
      <4>1. Head(t.todo) = "write" /\ t.op = "delete"
        <5>1. Len(<<"remove">>) = 1 /\ Head(<<"remove">>) = "remove"
          OBVIOUS
        <5>2. t.op \in {"save", "delete", "enable"} /\ <<"remove">> \in Remaining(t.op)
          BY <1>1, <2>3
        <5> QED BY <1>3, <1>6, <5>1, <5>2, FirstOfRemaining
      <4> QED BY <2>4, <3>3, <4>1 DEF Writes
    <3>7. Writes(task[p])'
      BY <2>1, <2>2, <2>3, <3>3, <3>4, <3>6 DEF Writes
    <3> QED BY <3>2, <3>5, <3>7 DEF OneChanger
  <2> QED BY <2>6, <2>8, <2>9 DEF HooksInv
<1> QED BY <1>5, <1>6

(* Firing, testing and running hooks, and a teardown, touch no file and    *)
(* leave the process with no change to make.                               *)
LEMMA NoChangeInv ==
  ASSUME HooksInv, NEW p \in HookProc,
         manifest' = manifest, scripts' = scripts, buried' = buried, clashed' = clashed,
         NEW t, task' = [task EXCEPT ![p] = t], TaskFits(t), t.op \in {"none", "fire"}
  PROVE  HooksInv'
<1>0. HookRecords /\ BuriedStay
  BY DEF HooksInv
<1>1. task'[p] = t /\ \A q \in HookProc : q # p => task'[q] = task[q]
  BY <1>0 DEF HookRecords
<1>2. HookRecords'
  <2>1. task' = [q \in HookProc |-> task'[q]]
    BY <1>0 DEF HookRecords
  <2>2. \A q \in HookProc : TaskFits(task'[q])
    BY <1>0, <1>1 DEF HookRecords
  <2> QED BY <1>0, <2>1, <2>2 DEF HookRecords
<1>3. \A q \in HookProc : task'[q].op \notin {"none", "fire"} => task'[q] = task[q]
  BY <1>1
<1>4. BuriedStay'
  BY <1>0, <1>3 DEF BuriedStay
<1>5. ASSUME ~clashed' PROVE OneChanger'
  <2>1. OneChanger
    BY <1>5 DEF HooksInv
  <2>2. \A q \in HookProc : Changing(q)' => Changing(q) /\ task'[q] = task[q]
    BY <1>3 DEF Changing, Changes
  <2>3. \A q \in HookProc : Writes(task[q]) /\ task'[q] = task[q] => Writes(task[q])'
    BY DEF Writes
  <2> QED BY <2>1, <2>2, <2>3 DEF OneChanger
<1> QED BY <1>2, <1>4, <1>5 DEF HooksInv

(* A process that fires or tests hooks.                                    *)
LEMMA FiringFits ==
  ASSUME NEW todo, NEW t, t = [NoTask EXCEPT !.op = "fire", !.todo = todo]
  PROVE  TaskFits(t) /\ t.op = "fire" /\ t.ran = <<>>
<1>1. t = [op |-> "fire", id |-> "none", list |-> <<>>, todo |-> todo, ran |-> <<>>, clean |-> FALSE]
  BY DEF NoTask
<1>2. t = [op |-> t.op, id |-> t.id, list |-> t.list, todo |-> t.todo, ran |-> t.ran, clean |-> t.clean]
  BY ONLY <1>1
<1>3. t.op = "fire" /\ t.ran = <<>> /\ t.clean = FALSE
  BY ONLY <1>1
<1> QED BY <1>2, <1>3, Unlisted DEF TaskFits, Changes

(* What a process has run grows only by a hook that has a script.          *)
LEMMA RunHookIs ==
  ASSUME HooksInv, NEW p \in HookProc, RunHook(p)
  PROVE  /\ HooksInv'
         /\ Len(task'[p].ran) > Len(task[p].ran) => task'[p].ran[Len(task'[p].ran)] \in scripts
         /\ \A q \in HookProc : q # p => task'[q] = task[q]
<1> DEFINE t == task[p]
           id == Head(t.todo).id
           found == id \in scripts
           ran == IF found THEN Append(t.ran, id) ELSE t.ran
<1>0. HookRecords /\ TaskFits(t)
  BY DEF HooksInv, HookRecords
<1>1. PICK panics \in BOOLEAN :
        /\ t.op = "fire"
        /\ task' = [task EXCEPT ![p] =
             IF panics \/ Len(t.todo) = 1 THEN [NoTask EXCEPT !.ran = ran]
             ELSE [t EXCEPT !.todo = Tail(t.todo), !.ran = ran]]
        /\ manifest' = manifest /\ scripts' = scripts /\ clashed' = clashed /\ buried' = buried
  BY DEF RunHook
<1>2. /\ t.ran \in Seq(HookId) /\ ran \in Seq(HookId)
      /\ found => Len(ran) = Len(t.ran) + 1 /\ ran[Len(ran)] = id
      /\ Len(t.ran) \in Nat
  <2>1. t.ran \in Seq(HookId) /\ (found => id \in HookId)
    BY <1>0 DEF TaskFits, HookRecords
  <2>2. Len(t.ran) \in Nat
    BY <2>1, LenProperties
  <2>3. CASE found
    <3>1. id \in HookId /\ ran = Append(t.ran, id)
      BY <2>1, <2>3
    <3>2. ran \in Seq(HookId) /\ Len(ran) = Len(t.ran) + 1 /\ ran[Len(t.ran) + 1] = id
      BY <2>1, <3>1, AppendProperties
    <3> QED BY <2>1, <2>2, <3>2
  <2>4. CASE ~found
    BY <2>1, <2>2, <2>4
  <2> QED BY <2>3, <2>4
<1>4. ~found => ran = t.ran
  OBVIOUS
<1> HIDE DEF ran
<1>5. PICK new : /\ new = IF panics \/ Len(t.todo) = 1 THEN [NoTask EXCEPT !.ran = ran]
                          ELSE [t EXCEPT !.todo = Tail(t.todo), !.ran = ran]
                 /\ task' = [task EXCEPT ![p] = new]
  BY <1>1
<1>6. TaskFits(new) /\ new.op \in {"none", "fire"} /\ new.ran = ran
  <2>1. CASE panics \/ Len(t.todo) = 1
    <3>1. new = [op |-> "none", id |-> "none", list |-> <<>>, todo |-> <<>>, ran |-> ran, clean |-> FALSE]
      BY <1>5, <2>1 DEF NoTask
    <3> QED BY <1>2, <3>1 DEF TaskFits, Changes
  <2>2. CASE ~(panics \/ Len(t.todo) = 1)
    <3>1. IsTask(t)
      BY <1>0 DEF TaskFits, IsTask
    <3>3. new = [op |-> t.op, id |-> t.id, list |-> t.list, todo |-> Tail(t.todo), ran |-> ran, clean |-> t.clean]
      BY <1>5, <2>2, <3>1, TaskExcept
    <3>4. t.op = "fire" /\ t.clean \in BOOLEAN
      BY <1>0, <1>1 DEF TaskFits
    <3> HIDE DEF t
    <3> QED BY <1>2, <3>3, <3>4 DEF TaskFits, Changes
  <2> QED BY <2>1, <2>2
<1>7. task'[p] = new /\ \A q \in HookProc : q # p => task'[q] = task[q]
  BY <1>0, <1>5 DEF HookRecords
<1>8. HooksInv'
  BY <1>1, <1>5, <1>6, NoChangeInv
<1>9. Len(ran) > Len(t.ran) => ran[Len(ran)] \in scripts
  BY <1>2, <1>4
<1> QED BY <1>6, <1>7, <1>8, <1>9

(* What a step does to the invariant, and to what a process has run.       *)
RunsGrow(p) ==
  Len(task'[p].ran) > Len(task[p].ran) => task'[p].ran[Len(task'[p].ran)] \in scripts

LEMMA Quiet ==
  ASSUME NEW ran \in Seq(HookId), NEW new, new = ran \/ new = <<>>
  PROVE  ~(Len(new) > Len(ran))
<1>1. Len(ran) \in Nat
  BY LenProperties
<1> QED BY <1>1, Unlisted

LEMMA HooksStep ==
  ASSUME HooksInv, HooksNext
  PROVE  HooksInv' /\ \A p \in HookProc : RunsGrow(p)
<1>0. \A p \in HookProc : TaskFits(task[p]) /\ task[p].ran \in Seq(HookId)
  BY DEF HooksInv, HookRecords, TaskFits
<1>f. task = [p \in HookProc |-> task[p]]
  BY DEF HooksInv, HookRecords
<1>q. ASSUME NEW q \in HookProc, task'[q].ran = task[q].ran \/ task'[q].ran = <<>>
      PROVE  RunsGrow(q)
  <2>1. task[q].ran \in Seq(HookId)
    BY <1>0
  <2> QED BY <1>q, <2>1, Quiet DEF RunsGrow
<1>1. ASSUME NEW p \in HookProc, NEW op \in {"save", "delete", "enable"},
             NEW id \in HookId, NEW on \in BOOLEAN, Configure(p, op, id, on)
      PROVE  HooksInv' /\ \A q \in HookProc : RunsGrow(q)
  <2>1. HooksInv'
    BY <1>1, ConfigureInv
  <2>2. ASSUME NEW q \in HookProc PROVE RunsGrow(q)
    <3>1. CASE q = p
      <4>1. task'[p].ran = <<>>
        BY <1>1 DEF Configure, NoTask
      <4> QED BY <3>1, <4>1, <1>q
    <3>2. CASE q # p
      <4>1. task'[q] = (IF op = "save" /\ task[q].id = id THEN [task[q] EXCEPT !.clean = FALSE]
                        ELSE task[q])
        BY <1>1, <3>2 DEF Configure
      <4>2. task'[q].ran = task[q].ran
        BY <1>0, <4>1, RecleanedFits DEF Recleaned
      <4> QED BY <4>2, <1>q
    <3> QED BY <3>1, <3>2
  <2> QED BY <2>1, <2>2
<1>2. ASSUME NEW p \in HookProc, SaveHook(p) \/ DeleteHook(p) \/ SetEnabled(p)
      PROVE  HooksInv' /\ \A q \in HookProc : RunsGrow(q)
  BY <1>1, <1>2 DEF SaveHook, DeleteHook, SetEnabled
<1>3. ASSUME NEW p \in HookProc, FileStep(p)
      PROVE  HooksInv' /\ \A q \in HookProc : RunsGrow(q)
  <2>1. HooksInv'
    BY <1>3, FileStepInv
  <2>2. PICK new : /\ task' = [task EXCEPT ![p] = new]
                   /\ new = IF Len(task[p].todo) = 1 THEN NoTask
                            ELSE [task[p] EXCEPT !.todo = Tail(task[p].todo)]
    BY <1>3 DEF FileStep
  <2>3. new.ran = task[p].ran \/ new.ran = <<>>
    <3>1. NoTask.ran = <<>>
      BY DEF NoTask
    <3>2. TaskFits(task[p])
      BY <1>0
    <3>3. [task[p] EXCEPT !.todo = Tail(task[p].todo)].ran = task[p].ran
      BY <3>2 DEF TaskFits
    <3> QED BY <2>2, <3>1, <3>3
  <2>4. task'[p] = new /\ \A r \in HookProc : r # p => task'[r] = task[r]
    BY <1>f, <2>2
  <2>5. ASSUME NEW q \in HookProc PROVE RunsGrow(q)
    <3>1. task'[q].ran = task[q].ran \/ task'[q].ran = <<>>
      BY <2>3, <2>4
    <3> QED BY <3>1, <1>q
  <2> QED BY <2>1, <2>5
<1>4. ASSUME NEW p \in HookProc, Fire(p) \/ TestRun(p)
      PROVE  HooksInv' /\ \A q \in HookProc : RunsGrow(q)
  <2>1. PICK todo : task' = [task EXCEPT ![p] = [NoTask EXCEPT !.op = "fire", !.todo = todo]]
    BY <1>4 DEF Fire, TestRun
  <2>2. PICK new : new = [NoTask EXCEPT !.op = "fire", !.todo = todo] /\ task' = [task EXCEPT ![p] = new]
    BY <2>1
  <2>3. TaskFits(new) /\ new.op = "fire" /\ new.ran = <<>>
    BY <2>2, FiringFits
  <2>4. HooksInv'
    BY <1>4, <2>2, <2>3, NoChangeInv DEF Fire, TestRun
  <2>5. task'[p] = new /\ \A r \in HookProc : r # p => task'[r] = task[r]
    BY <1>f, <2>2
  <2> QED BY <2>3, <2>4, <2>5, <1>q
<1>5. ASSUME NEW p \in HookProc, RunHook(p)
      PROVE  HooksInv' /\ \A q \in HookProc : RunsGrow(q)
  <2>1. /\ HooksInv' /\ RunsGrow(p)
        /\ \A q \in HookProc : q # p => task'[q] = task[q]
    BY <1>5, RunHookIs DEF RunsGrow
  <2> QED BY <2>1, <1>q
<1>6. ASSUME NEW p \in HookProc, TornDown(p)
      PROVE  HooksInv' /\ \A q \in HookProc : RunsGrow(q)
  <2>1. TaskFits(NoTask) /\ NoTask.op = "none" /\ NoTask.ran = <<>>
    BY Unlisted DEF NoTask, TaskFits, Changes
  <2>2. task' = [task EXCEPT ![p] = NoTask]
    BY <1>6 DEF TornDown
  <2>3. HooksInv'
    BY <1>6, <2>1, NoChangeInv DEF TornDown
  <2>4. task'[p] = NoTask /\ \A r \in HookProc : r # p => task'[r] = task[r]
    BY <1>f, <2>2
  <2> QED BY <2>1, <2>3, <2>4, <1>q
<1>7. ASSUME NEW id \in HookId, SetScript(id)
      PROVE  HooksInv' /\ \A q \in HookProc : RunsGrow(q)
  <2>1. HooksInv'
    BY <1>7, SetScriptInv
  <2>2. ASSUME NEW q \in HookProc PROVE RunsGrow(q)
    <3>1. task'[q] = IF task[q].id = id THEN [task[q] EXCEPT !.clean = FALSE] ELSE task[q]
      BY <1>7 DEF SetScript
    <3>2. task'[q].ran = task[q].ran
      BY <1>0, <3>1, RecleanedFits DEF Recleaned
    <3> QED BY <3>2, <1>q
  <2> QED BY <2>1, <2>2
<1> QED BY <1>2, <1>3, <1>4, <1>5, <1>6, <1>7 DEF HooksNext

LEMMA HooksInvStep == HooksInv /\ [HooksNext]_hookVars => HooksInv'
<1> SUFFICES ASSUME HooksInv, [HooksNext]_hookVars PROVE HooksInv'
  OBVIOUS
<1>1. CASE HooksNext
  BY <1>1, HooksStep
<1>2. CASE UNCHANGED hookVars
  BY <1>2 DEF hookVars, HooksInv, HookRecords, BuriedStay, OneChanger, Changing, Writes
<1> QED BY <1>1, <1>2

(* The files of hooks agree at every step of a command, and wherever a     *)
(* process is torn down, unless two commands change them at once; whatever *)
(* happens, a hook that was deleted and left alone has no script.          *)
THEOREM HooksInvariant == HooksSpec => []HooksInv
BY HooksInvInit, HooksInvStep, PTL DEF HooksSpec

(* hooks.rs: however many processes fire, test, change or lose hooks, one  *)
(* that was deleted and not touched since never runs again, and one that   *)
(* is listed is skipped for want of a script only if two writers clashed.  *)
THEOREM HooksRunAsConfigured == HooksSpec => RunsAsConfigured
<1>1. ASSUME HooksInv, [HooksNext]_hookVars
      PROVE  [\A p \in HookProc :
               LET t == task[p]  ran == task'[p].ran IN
               /\ Len(ran) > Len(t.ran) => ran[Len(ran)] \notin buried
               /\ t.op = "fire" /\ task'[p] # t /\ ran = t.ran
                    => clashed \/ Head(t.todo).id \in scripts \/ ~Listed(manifest, Head(t.todo).id)]_hookVars
  <2> SUFFICES ASSUME HooksNext, NEW p \in HookProc
               PROVE  /\ Len(task'[p].ran) > Len(task[p].ran)
                           => task'[p].ran[Len(task'[p].ran)] \notin buried
                      /\ clashed \/ Head(task[p].todo).id \in scripts
                                 \/ ~Listed(manifest, Head(task[p].todo).id)
    BY <1>1
  <2>1. RunsGrow(p) /\ buried \cap scripts = {}
    BY <1>1, HooksStep DEF HooksInv, BuriedStay
  <2>2. clashed \/ \A x : Listed(manifest, x) => x \in scripts
    BY <1>1 DEF HooksInv, OneChanger
  <2> QED BY <2>1, <2>2 DEF RunsGrow
<1> QED BY <1>1, HooksInvariant, PTL DEF RunsAsConfigured, HooksSpec

(* hooks.rs: the manifest is one, and only known hooks have scripts or are *)
(* buried.                                                                 *)
THEOREM HooksTypes == HooksSpec => []HooksTypeOK
<1> DEFINE Flags == buried \subseteq HookId /\ clashed \in BOOLEAN
<1>1. HooksInit => Flags
  BY DEF HooksInit
<1>2. HooksInv /\ Flags /\ [HooksNext]_hookVars => Flags'
  <2> SUFFICES ASSUME HooksInv, Flags, [HooksNext]_hookVars PROVE Flags'
    OBVIOUS
  <2>1. ASSUME NEW p \in HookProc, NEW op, NEW id \in HookId, NEW on, Configure(p, op, id, on)
        PROVE  Flags'
    BY <2>1 DEF Configure
  <2>2. ASSUME NEW p \in HookProc, SaveHook(p) \/ DeleteHook(p) \/ SetEnabled(p) PROVE Flags'
    BY <2>1, <2>2 DEF SaveHook, DeleteHook, SetEnabled
  <2>3. ASSUME NEW p \in HookProc, FileStep(p) PROVE Flags'
    <3>1. task[p].id \in HookId
      BY <2>3 DEF FileStep, Changing, HooksInv, HookRecords, TaskFits
    <3>2. buried' \subseteq buried \cup {task[p].id} /\ clashed' = clashed
      BY <2>3 DEF FileStep
    <3> QED BY <3>1, <3>2
  <2>4. ASSUME NEW p \in HookProc, Fire(p) \/ TestRun(p) \/ RunHook(p) \/ TornDown(p) PROVE Flags'
    BY <2>4 DEF Fire, TestRun, RunHook, TornDown
  <2>5. ASSUME NEW id \in HookId, SetScript(id) PROVE Flags'
    BY <2>5 DEF SetScript
  <2>6. CASE UNCHANGED hookVars
    BY <2>6 DEF hookVars
  <2> QED BY <2>2, <2>3, <2>4, <2>5, <2>6 DEF HooksNext
<1>3. HooksInv /\ Flags => HooksTypeOK
  BY DEF HooksInv, HookRecords, TaskFits, Entry, HooksTypeOK
<1> QED BY <1>1, <1>2, <1>3, HooksInvariant, PTL DEF HooksSpec

=============================================================================
