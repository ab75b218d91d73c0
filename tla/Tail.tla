-------------------------------- MODULE Tail --------------------------------
(***************************************************************************)
(* fs_tail, src/src/watch.rs: a thread that polls a file, remembers how    *)
(* far it has read, and sends each line once it is complete.  Meanwhile    *)
(* the file is appended to, a piece of a line at a time, and rotated:      *)
(* emptied in place, or renamed away and begun anew.                       *)
(*                                                                         *)
(* A file is a sequence of pieces numbered in the order they were written. *)
(* Some end a line, and some end inside a character of several bytes: the  *)
(* rest of that character begins the next piece.  Each poll decodes what   *)
(* it read by itself, so that half a character, at the end or at the start *)
(* of what it read, comes out as U+FFFD.                                   *)
(***************************************************************************)
EXTENDS Naturals, Sequences

CONSTANTS
  MaxPieces,    \* bound of the model: pieces written, with the two there are at first
  MaxRotations, \* bound of the model: rotations over the run
  MaxLine       \* MAX_LINE: a longer partial line is sent as it is

ASSUME TailAssumption ==
  {MaxPieces, MaxRotations, MaxLine} \subseteq Nat /\ MaxPieces >= 2

VARIABLES
  logged,    \* the file at the path
  opened,    \* the file the tailer has open, and whether it is that one
  tailer,    \* pos, the length it saw, the carried partial line, where it is
  sent,      \* pieces sent, in order
  pieces,    \* pieces written so far: how many, where lines end and characters are split
  garbled,   \* pieces whose text was decoded to something else
  cuts,      \* history: pieces after which a poll's read ended inside a character
  rotations  \* rotations so far

tailVars == <<logged, opened, tailer, sent, pieces, garbled, cuts, rotations>>

EndsLine(piece) == piece \in pieces.ends
Splits(piece) == piece \in pieces.splits
TailAt(pc) == tailer.pc = pc
Shorter(a, b) == IF a < b THEN a ELSE b

-----------------------------------------------------------------------------
(* From the start of the file, or from its end as it is now.               *)
TailInit ==
  /\ pieces = [n |-> 2, ends |-> {2}, splits |-> {}] /\ logged = <<1, 2>>
  /\ \E from \in {0, 2} : tailer = [pc |-> "open", from |-> from, pos |-> from, len |-> 0, carry |-> <<>>]
  /\ opened = [file |-> <<>>, current |-> FALSE]
  /\ sent = <<>> /\ garbled = {} /\ cuts = {} /\ rotations = 0

(* The new piece ends a line, or inside a character, or neither.           *)
Write == \E ends, splits \in SUBSET {pieces.n + 1} :
  LET new == pieces.n + 1 IN
  /\ pieces.n < MaxPieces /\ ends \cap splits = {}
  /\ pieces' = [n |-> new, ends |-> pieces.ends \cup ends, splits |-> pieces.splits \cup splits]
  /\ logged' = Append(logged, new)
  /\ opened' = IF opened.current THEN [opened EXCEPT !.file = Append(@, new)] ELSE opened
  /\ UNCHANGED <<tailer, sent, garbled, cuts, rotations>>

Rotate == \E inPlace \in BOOLEAN :
  /\ rotations < MaxRotations /\ rotations' = rotations + 1
  /\ logged' = <<>>
  /\ opened' = CASE ~opened.current -> opened
                 [] inPlace         -> [opened EXCEPT !.file = <<>>]
                 [] OTHER           -> [opened EXCEPT !.current = FALSE]
  /\ UNCHANGED <<tailer, sent, pieces, garbled, cuts>>

(* A poll opens the file and compares its length with the position: a      *)
(* shorter file was truncated or rotated, and is read from the top.        *)
TailOpens ==
  LET len == Len(logged)  anew == len < tailer.pos IN
  /\ TailAt("open")
  /\ opened' = [file |-> logged, current |-> TRUE]
  /\ tailer' = [tailer EXCEPT !.len = len, !.pc = "read",
                  !.pos = IF anew THEN 0 ELSE @, !.carry = IF anew THEN <<>> ELSE @]
  /\ UNCHANGED <<logged, sent, pieces, garbled, cuts, rotations>>

(* String::from_utf8_lossy of what one poll read: the pieces of it that    *)
(* hold half a character whose other half is not beside it.                *)
Halved(buf) == {buf[i] : i \in {j \in DOMAIN buf :
  \/ Splits(buf[j]) /\ (j = Len(buf) \/ buf[j + 1] # buf[j] + 1)
  \/ Splits(buf[j] - 1) /\ (j = 1 \/ buf[j - 1] # buf[j] - 1)}}

(* Mutant: what follows the last line end is not carried over. *)
Dropped(text) == Len(text)

(* flush_lines: up to the last line end; all of it when it grew too long.  *)
Flushed(text) ==
  LET ends == {i \in DOMAIN text : EndsLine(text[i])}
      last == IF ends = {} THEN 0 ELSE CHOOSE i \in ends : \A j \in ends : j <= i
  IN IF Len(text) - last > MaxLine THEN Len(text) ELSE last

(* What stays in the carry when the first so many pieces were sent.        *)
Carried(text) == Flushed(text)

(* Then it reads up to that length, as much as is still there, and decodes *)
(* that before it is put to what is carried.                               *)
TailReads ==
  LET buf == SubSeq(opened.file, tailer.pos + 1, Shorter(tailer.len, Len(opened.file)))
      text == tailer.carry \o buf
  IN
  /\ TailAt("read")
  /\ sent' = sent \o SubSeq(text, 1, Flushed(text))
  /\ tailer' = [tailer EXCEPT !.pc = "open", !.pos = @ + Len(buf),
                  !.carry = SubSeq(text, Carried(text) + 1, Len(text))]
  /\ garbled' = garbled \cup Halved(buf)
  /\ cuts' = cuts \cup {p \in pieces.splits : buf # <<>> /\ p = buf[Len(buf)]}
  /\ opened' = [opened EXCEPT !.current = FALSE]
  /\ UNCHANGED <<logged, pieces, rotations>>

TailNext == Write \/ Rotate \/ TailOpens \/ TailReads
TailSpec == TailInit /\ [][TailNext]_tailVars

-----------------------------------------------------------------------------
TailTypeOK ==
  /\ tailer.pos \in 0..MaxPieces /\ tailer.pc \in {"open", "read"}
  /\ pieces.n \in 0..MaxPieces /\ rotations \in 0..MaxRotations

(* However writes and polls interleave, nothing is sent twice or out of    *)
(* order, rotations included; and in a file that is only appended to, what *)
(* was sent and what is carried are together every piece up to the         *)
(* position, so no line is lost or cut in two by a poll between its        *)
(* pieces.  The text of a piece is what was written, but for a character   *)
(* inside which a poll's read ended: neither half of that one is decoded   *)
(* as what it is, and only those two are garbled.                          *)
TailFaithful ==
  LET delivered == sent \o tailer.carry IN
  /\ \A i, j \in DOMAIN delivered : i < j => delivered[i] < delivered[j]
  /\ rotations = 0 =>
       /\ delivered = SubSeq(logged, tailer.from + 1, tailer.pos)
       /\ \A p \in garbled : p \in cuts \/ p - 1 \in cuts
=============================================================================
