------------------------------- MODULE FileOps ------------------------------
(***************************************************************************)
(* The file browser's operations that change the disk, src/src/fsx.rs and  *)
(* fsops.rs.  Each looks first (does the path exist, is it a directory, a  *)
(* link?) and acts afterwards, by path again, and a copy, a shred and a    *)
(* link change take several steps, while other clients do the same.        *)
(*                                                                         *)
(* The disk is a partial function from paths to nodes: directories, files  *)
(* with a content, and symbolic links, which lead to a path.  An archive   *)
(* is a file like any other.  Paths are resolved but for their last name:  *)
(* there is nothing below a link, and a link to a link counts as a loop.   *)
(***************************************************************************)
EXTENDS Naturals, Sequences, SequencesExt, FiniteSets

CONSTANTS
  FileClient,  \* connections
  FileName,    \* names in a directory
  MaxDepth,    \* longest path, in names (the system's PATH_MAX)
  MaxFileOps,  \* bound of the model: operations over the run
  Disks        \* what the disk may hold at first

Path == UNION {[1..n -> FileName] : n \in 1..MaxDepth}
Dir == [kind |-> "dir", data |-> ""]
File(content) == [kind |-> "file", data |-> content]
LinkTo(p) == [kind |-> "link", data |-> p]
Node == {Dir} \cup {File(content) : content \in {"old", "new", "zeros", "", "archive"}} \cup {LinkTo(p) : p \in Path}

Within(p, top) == IsPrefix(top, p)
(* What is above a node is a directory.                                    *)
IsDisk(d) ==
  /\ DOMAIN d \subseteq Path
  /\ \A p \in DOMAIN d : /\ d[p] \in Node
                        /\ \A q \in Path : Within(p, q) /\ q # p => q \in DOMAIN d /\ d[q] = Dir

ASSUME FileOpsAssumption ==
  {MaxDepth, MaxFileOps} \subseteq Nat /\ IsFiniteSet(FileName) /\ \A d \in Disks : IsDisk(d)

VARIABLES
  disk,        \* path -> node
  job,         \* what each client's operation is doing
  fileOps,     \* operations so far
  intertwined  \* history: two operations were under way at once

fileVars == <<disk, job, fileOps, intertwined>>

NoOp == [op |-> "none", src |-> <<>>, dst |-> <<>>, step |-> "idle", todo |-> <<>>, was |-> <<>>]

(* Where a path below one directory would be below another.                *)
Rebased(p, from, to) == to \o SubSeq(p, Len(from) + 1, Len(p))
Below(d) == {p \in DOMAIN disk : Within(p, d) /\ p # d}
Entries(dsk, d) == {p \in DOMAIN dsk : Within(p, d) /\ Len(p) = Len(d) + 1}
There(p) == p \in DOMAIN disk
IsLink(p) == There(p) /\ disk[p].kind = "link"
(* What a call that follows links reaches, and the calls that do.          *)
Reached(p) == IF IsLink(p) THEN disk[p].data ELSE p
Exists(p) == There(Reached(p)) /\ ~IsLink(Reached(p))
IsDir(p) == Exists(p) /\ disk[Reached(p)].kind = "dir"
HasParent(p) == Len(p) = 1 \/ (There(Front(p)) /\ disk[Front(p)].kind = "dir")

Put(p, node) == [q \in DOMAIN disk \cup {p} |-> IF q = p THEN node ELSE disk[q]]
Without(p) == [q \in {r \in DOMAIN disk : ~Within(r, p)} |-> disk[q]]

Underway(c) == job[c].op # "none"
Done(c) == job' = [job EXCEPT ![c] = NoOp]
ToStep(c, step) == job' = [job EXCEPT ![c].step = step]

-----------------------------------------------------------------------------
FileInit ==
  /\ disk \in Disks
  /\ job = [c \in FileClient |-> NoOp] /\ fileOps = 0 /\ intertwined = FALSE

Paired == {"rename", "copy", "compress", "extract"}
Single == {"create_dir", "create_file", "touch", "write", "mkdir", "delete", "trash", "rm", "rmdir",
           "shred", "retarget", "duplicate"}

(* free_sibling: the first free name beside the source.                    *)
FreeSibling(p) == {q \in Path : Len(q) = Len(p) /\ Front(q) = Front(p) /\ ~Exists(q)}

(* Mutant: what the check reports of a link is what it leads to. *)
SeenThrough(p) == FALSE
SeenAsLink(p) == IsLink(p)

(* The checks of each operation, before it acts.                           *)
Allowed(op, src, dst) ==
  CASE op \in {"create_dir", "create_file"} -> ~Exists(src)
    [] op \in {"delete", "trash", "duplicate"} -> Exists(src)
    [] op = "shred"    -> There(src) /\ (SeenAsLink(src) \/ ~IsDir(src))
    [] op = "retarget" -> IsLink(src)
    [] op = "copy"     -> Exists(src) /\ ~Exists(dst)
    [] op = "compress" -> ~Exists(dst)
    [] op = "extract"  -> Exists(src) /\ ~Exists(dst)
    [] OTHER           -> TRUE

FirstStep(op, src) ==
  CASE op \in {"copy", "duplicate"} -> IF IsDir(src) THEN "tree" ELSE "copyfile"
    [] op = "shred" -> IF SeenAsLink(src) THEN "unlink" ELSE "overwrite"
    [] op = "retarget" -> "unlink"
    [] op \in {"compress", "extract"} -> op
    [] OTHER -> "act"

(* An operation begins with its checks; one that fails them only replies.  *)
BeginOp(c) == \E op \in Paired \cup Single, src \in Path, dst \in Path :
  /\ ~Underway(c) /\ fileOps < MaxFileOps
  /\ op \in Single /\ op # "duplicate" => dst = src
  /\ op = "duplicate" => dst \in FreeSibling(src)
  /\ Allowed(op, src, dst)
  /\ job' = [job EXCEPT ![c] = [op |-> op, src |-> src, dst |-> dst,
               step |-> FirstStep(op, src), todo |-> <<<<src, dst>>>>, was |-> IF FirstStep(op, src) = "tree" THEN disk ELSE <<>>]]
  /\ fileOps' = fileOps + 1
  /\ intertwined' = (intertwined \/ \E d \in FileClient : Underway(d))
  /\ UNCHANGED disk

(* What fs::copy and a plain write leave at p, following a link there.     *)
Overwritten(p, content) ==
  IF HasParent(Reached(p)) /\ ~IsDir(p) /\ ~IsLink(Reached(p)) THEN Put(Reached(p), File(content)) ELSE disk
Unlinked(p) == IF There(p) /\ disk[p].kind # "dir" THEN Without(p) ELSE disk
(* create_dir_all: the missing ancestors too, unless one is no directory.  *)
Ancestors(p) == {SubSeq(p, 1, n) : n \in 1..Len(p)}
MadeDirs(p) ==
  IF \E q \in Ancestors(p) : There(q) /\ disk[q].kind # "dir" THEN disk
  ELSE [q \in DOMAIN disk \cup Ancestors(p) |-> IF There(q) THEN disk[q] ELSE Dir]

(* write makes the missing directories above its file, and then the file.  *)
Written(p) ==
  LET dirs == MadeDirs(p) IN
  IF There(p) THEN Overwritten(p, "new")
  ELSE [q \in DOMAIN dirs |-> IF q = p THEN File("new") ELSE dirs[q]]

(* rename(2): a directory takes the place of nothing or of an empty one,   *)
(* anything else that of nothing or of what is no directory.               *)
MayMove(src, dst) ==
  LET dir(p) == disk[p].kind = "dir"
      fits(p) == Len(dst) + Len(p) - Len(src) <= MaxDepth \* bound of the model
  IN
  /\ There(src) /\ HasParent(dst) /\ ~(dir(src) /\ Within(dst, src))
  /\ There(dst) => dir(src) = dir(dst) /\ Below(dst) = {}
  /\ \A p \in Below(src) : fits(p)
Moved(src, dst) ==
  LET moved == {Rebased(p, src, dst) : p \in Below(src) \cup {src}}
      stays == {p \in DOMAIN disk : ~Within(p, src) /\ ~Within(p, dst)}
  IN [p \in stays \cup moved |-> IF p \in moved THEN disk[Rebased(p, dst, src)] ELSE disk[p]]

(* The operations that act in one call.  create_new and mkdir refuse a     *)
(* path that has come to exist; the others do not look again.              *)
Acted(op, src, dst) ==
  CASE op = "create_dir"  -> IF There(src) \/ ~HasParent(src) THEN disk ELSE Put(src, Dir)
    [] op = "create_file" -> IF There(src) \/ ~HasParent(src) THEN disk ELSE Put(src, File(""))
    [] op = "touch"   -> IF Exists(src) THEN disk ELSE Overwritten(src, "")
    [] op = "write"   -> Written(src)
    [] op = "mkdir"   -> MadeDirs(src)
    [] op \in {"delete", "trash"} -> Without(src)
    [] op = "rm"      -> IF Exists(src) THEN Without(src) ELSE disk
    [] op = "rmdir"   -> IF Exists(src) /\ (IsDir(src) => ~IsLink(src) /\ Below(src) = {})
                         THEN Without(src) ELSE disk
    [] op = "rename"  -> IF MayMove(src, dst) THEN Moved(src, dst) ELSE disk

Act(c) ==
  /\ Underway(c) /\ job[c].step = "act"
  /\ disk' = Acted(job[c].op, job[c].src, job[c].dst)
  /\ Done(c) /\ UNCHANGED <<fileOps, intertwined>>

(* compress creates the archive before it looks at what it is to hold, and *)
(* leaves the beginning of one when a source is not there or not readable. *)
Compress(c) == \E readable \in BOOLEAN :
  LET j == job[c] IN
  /\ Underway(c) /\ j.step = "compress"
  /\ disk' = Overwritten(j.dst, IF Exists(j.src) /\ readable THEN "archive" ELSE "")
  /\ Done(c) /\ UNCHANGED <<fileOps, intertwined>>

(* extract makes the destination, and then the entries it could read; what *)
(* it made stays when it fails, and stands in the way of a second attempt. *)
Unpacked(d, read) ==
  LET fresh(p) == p \in Path /\ (There(p) => disk[p].kind = "file")
      made == {p \in {Append(d, n) : n \in read} : fresh(p)}
      dirs == MadeDirs(d)
  IN IF d \in DOMAIN dirs /\ dirs[d].kind = "dir"
     THEN [p \in DOMAIN dirs \cup made |-> IF p \in made THEN File("new") ELSE dirs[p]]
     ELSE disk

Extract(c) == \E read \in SUBSET FileName :
  /\ Underway(c) /\ job[c].step = "extract"
  /\ disk' = Unpacked(job[c].dst, read)
  /\ Done(c) /\ UNCHANGED <<fileOps, intertwined>>

(* secure_delete of a file: zeros over what the path leads to by now, then *)
(* the path is unlinked, as it is at once when it was seen to be a link.   *)
Overwrite(c) ==
  LET p == job[c].src IN
  /\ Underway(c) /\ job[c].step = "overwrite"
  /\ IF Exists(p) /\ ~IsDir(p)
     THEN disk' = Put(Reached(p), File("zeros")) /\ ToStep(c, "unlink")
     ELSE UNCHANGED disk /\ Done(c)
  /\ UNCHANGED <<fileOps, intertwined>>

Unlink(c) ==
  /\ Underway(c) /\ job[c].step = "unlink"
  /\ disk' = Unlinked(job[c].src)
  /\ IF job[c].op = "retarget" /\ There(job[c].src) THEN ToStep(c, "link") ELSE Done(c)
  /\ UNCHANGED <<fileOps, intertwined>>

(* symlink_retarget, second half: refused if something has the name again. *)
Link(c) == \E target \in Path :
  LET p == job[c].src IN
  /\ Underway(c) /\ job[c].step = "link"
  /\ disk' = IF There(p) \/ ~HasParent(p) THEN disk ELSE Put(p, LinkTo(target))
  /\ Done(c) /\ UNCHANGED <<fileOps, intertwined>>

CopyFile(c) ==
  LET j == job[c] IN
  /\ Underway(c) /\ j.step = "copyfile"
  /\ disk' = IF Exists(j.src) /\ ~IsDir(j.src)
             THEN Overwritten(j.dst, disk[Reached(j.src)].data) ELSE disk
  /\ Done(c) /\ UNCHANGED <<fileOps, intertwined>>

(* Mutant: links are left out of a copy. *)
NoLinks(dsk, d) == {p \in Entries(dsk, d) : dsk[p].kind # "link"}
Copied(dsk, d) == Entries(dsk, d)

(* copy_dir_recursive, one entry: a directory must be new and is then read *)
(* in turn, anything else is copied as a file.  An error ends the copy and *)
(* leaves what there is; only a copy that ran through is "copied".         *)
CopyTree(c) ==
  LET j == job[c]  from == Head(j.todo)[1]  to == Head(j.todo)[2]
      dir == IsDir(from) /\ (from = j.src \/ ~IsLink(from))
      works == /\ to \in Path /\ HasParent(to) /\ Exists(from)
               /\ IF dir THEN ~There(to) ELSE ~IsDir(from) /\ ~IsDir(to)
      read == {<<p, Append(to, Last(p))>> : p \in Copied(disk', Reached(from))}
      todo == (IF dir THEN SetToSeq(read) ELSE <<>>) \o Tail(j.todo)
  IN
  /\ Underway(c) /\ j.step = "tree"
  /\ disk' = CASE ~works -> disk
               [] works /\ dir -> Put(to, Dir)
               [] OTHER -> Overwritten(to, disk[Reached(from)].data)
  /\ job' = [job EXCEPT ![c] = CASE ~works -> NoOp
                                 [] works /\ todo = <<>> -> [NoOp EXCEPT !.step = "copied"]
                                 [] OTHER -> [j EXCEPT !.todo = todo]]
  /\ UNCHANGED <<fileOps, intertwined>>

FileNext == \E c \in FileClient :
  \/ BeginOp(c) \/ Act(c) \/ Compress(c) \/ Extract(c)
  \/ Overwrite(c) \/ Unlink(c) \/ Link(c) \/ CopyFile(c) \/ CopyTree(c)
FileSpec == FileInit /\ [][FileNext]_fileVars

-----------------------------------------------------------------------------
FileTypeOK ==
  /\ IsDisk(disk)
  /\ fileOps \in 0..MaxFileOps /\ intertwined \in BOOLEAN

(* The nodes an operation may change: those it was told to.                *)
Footprint(j) ==
  CASE j.op \in {"delete", "trash", "rm", "rmdir", "rename"} ->
         {p \in Path : Within(p, j.src) \/ (j.op = "rename" /\ p = j.dst)}
    [] j.op \in {"shred", "retarget"} -> {j.src}
    [] j.op = "write" -> {Reached(j.src)}
    [] OTHER -> {}

(* As long as operations do not overlap, one changes or removes nothing it *)
(* was not told to: a shred of a link spares what the link leads to        *)
(* (fsx.rs:673), and what creates, copies, packs or unpacks leaves         *)
(* everything that was there as it was.                                    *)
StaysInFootprint == [][disk' # disk /\ ~intertwined => \E c \in FileClient :
  /\ Underway(c)
  /\ \A p \in DOMAIN disk \ Footprint(job[c]) : p \in DOMAIN disk' /\ disk'[p] = disk[p]]_fileVars

(* A tree copy that succeeds, with no other operation beside it, has made  *)
(* of every node of the source its image under the destination, a link's   *)
(* being a file with what it leads to, and nothing else; unless the        *)
(* destination lies inside the source, when the copy runs into the end of  *)
(* what a path may be.                                                     *)
CopyIsFaithful == [][\A c \in FileClient :
  LET j == job[c]
      image(p) == Rebased(p, j.src, j.dst)
      source == {p \in DOMAIN j.was : Within(p, j.src)}
      content(p) == IF j.was[p].kind = "link" THEN disk'[j.was[p].data] ELSE disk'[p]
  IN
  j.step = "tree" /\ job'[c].step = "copied" /\ ~intertwined /\ ~IsLink(j.src) =>
    /\ {p \in DOMAIN disk' : Within(p, j.dst)} = {image(p) : p \in source}
    /\ \A p \in source : disk'[image(p)] = content(p)]_fileVars
=============================================================================
