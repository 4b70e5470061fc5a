-------------------------------- MODULE Xxd --------------------------------
(***************************************************************************)
(* The hex dump of commands/xxd.c, _xxd_print, one turn of its loop per    *)
(* step.  What is in the buffer does not matter to it, so that a byte is   *)
(* its index: a cell of the dump says which byte of the buffer was read    *)
(* for it.  Handlers runs it.                                              *)
(***************************************************************************)
EXTENDS Integers, Sequences

CONSTANTS MAX_WIDTH

ASSUME WidthAssumption == MAX_WIDTH \in Nat \ {0}

VARIABLES
  size,     \* how many bytes are dumped
  i,        \* the loop variable; fold is always equal to it
  lines,    \* rows begun
  rows      \* what is printed: the row of column numbers, then those of bytes

dumpVars == <<size, i, lines, rows>>

\* A row that begins with the offset of its first byte.
Row(offset) == [offset |-> offset, bytes |-> <<offset>>, gutter |-> <<>>]
\* The column numbers, which no offset begins.
ColumnNumbers == [offset |-> 0, bytes |-> <<>>, gutter |-> <<>>]

\* _xxd_printable_print(&buffer[from]), at the end of the last row.
Printable(from) ==
  [rows EXCEPT ![Len(rows)].gutter = [j \in 1 .. MAX_WIDTH |-> from + j - 1]]

NoDump == /\ size = 0 /\ i = 0 /\ lines = 0
          /\ rows = <<>>

\* _xxd_print(buffer, n), up to the loop.
DumpBegin(n) == /\ size' = n /\ i' = 0 /\ lines' = 0
                /\ rows' = IF n = 0 THEN <<>> ELSE <<ColumnNumbers>>

eol == i % MAX_WIDTH = 0
last_byte == i + 1 = size

DumpNewRow_NoLines ==
  /\ i < size /\ eol /\ ~last_byte
  /\ rows' = Append(IF i > 0 THEN Printable(MAX_WIDTH * lines) ELSE rows, Row(i))
  /\ i' = i + 1
  /\ lines' = lines + 1
  /\ UNCHANGED size
\* A row is full: its gutter is printed, and the byte begins another one.
DumpNewRow ==
  /\ i < size /\ eol /\ ~last_byte
  /\ rows' = Append(IF i > 0 THEN Printable(MAX_WIDTH * (lines - 1)) ELSE rows, Row(i))
  /\ i' = i + 1
  /\ lines' = lines + 1
  /\ UNCHANGED size

\* The byte goes on with its row; the last one brings the gutter.
DumpByte ==
  /\ i < size /\ (~eol \/ last_byte)
  /\ rows' = [IF last_byte THEN Printable(MAX_WIDTH * lines) ELSE rows
                EXCEPT ![Len(rows)].bytes = Append(@, i)]
  /\ i' = i + 1
  /\ UNCHANGED <<size, lines>>

Dumped == i = size

----------------------------------------------------------------------------
(* What must hold.                                                         *)

\* The hex column shows every byte once, in its order and inside the buffer:
\* row k begins with the offset of its first byte and holds MAX_WIDTH of them,
\* but for the last one, which may hold one more, and the row of a dump of one
\* byte, which is that of the column numbers.  The gutter of every row but the
\* last shows the bytes of that row.
DumpShowsMemory ==
  LET n == Len(rows) IN
  n > 0 =>
    /\ \A k \in 2 .. n :
         /\ rows[k].offset = MAX_WIDTH * (k - 2)
         /\ \A j \in 1 .. Len(rows[k].bytes) : rows[k].bytes[j] = rows[k].offset + j - 1
         /\ k < n => Len(rows[k].bytes) = MAX_WIDTH /\ rows[k].gutter = rows[k].bytes
    /\ IF n = 1 THEN i <= 1 /\ rows[1].bytes = (IF i = 1 THEN <<0>> ELSE <<>>)
                ELSE rows[1] = ColumnNumbers /\ rows[n].offset + Len(rows[n].bytes) = i
    /\ Len(rows[n].bytes) <= MAX_WIDTH + 1
    /\ Len(rows[n].bytes) = MAX_WIDTH + 1 => Dumped /\ size % MAX_WIDTH = 1 % MAX_WIDTH

\* What xxd.c:117 says, "Creates a hex dump of address and size": the gutter of
\* a row shows the bytes of that row.
GutterShowsItsRow ==
  Len(rows) > 0 /\ Dumped =>
    \A j \in 1 .. Len(rows[Len(rows)].bytes) :
      j \in DOMAIN rows[Len(rows)].gutter
        /\ rows[Len(rows)].gutter[j] = rows[Len(rows)].bytes[j]
=============================================================================
