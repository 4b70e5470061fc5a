-------------------------- MODULE HandlersProofs --------------------------
(***************************************************************************)
(* The dispatch, the handlers and the life of libssusb for any number and  *)
(* any types of arguments.  What the handlers that ask for nothing do is   *)
(* the same for all of them; the others take a lemma each.                 *)
(***************************************************************************)
EXTENDS Handlers, SequenceTheorems, TLAPS

----------------------------------------------------------------------------
(* Rows and columns.                                                       *)

\* Multiples of the width that are less than a width apart are the same.
LEMMA Apart ==
  ASSUME NEW a \in Int, NEW b \in Int, MAX_WIDTH * a - MAX_WIDTH * b < MAX_WIDTH
  PROVE  a <= b
<1>1. CASE a >= b + 1
  <2>1. MAX_WIDTH * (b + 1) = MAX_WIDTH * b + MAX_WIDTH
    BY WidthAssumption
  <2>2. MAX_WIDTH * a >= MAX_WIDTH * (b + 1)
    BY <1>1, WidthAssumption
  <2>3. QED
    BY <2>1, <2>2, WidthAssumption
<1>2. QED
  BY <1>1

\* The column of a byte.
LEMMA Column ==
  ASSUME NEW a \in Nat, NEW b \in 0 .. MAX_WIDTH - 1
  PROVE  (MAX_WIDTH * a + b) % MAX_WIDTH = b
<1> DEFINE x == MAX_WIDTH * a + b
           q == x \div MAX_WIDTH
           r == x % MAX_WIDTH
<1>1. x \in Nat /\ MAX_WIDTH * a \in Int
  BY WidthAssumption
<1>2. q \in Int /\ r \in 0 .. MAX_WIDTH - 1 /\ x = MAX_WIDTH * q + r /\ MAX_WIDTH * q \in Int
  BY <1>1, WidthAssumption
<1> HIDE DEF q, r
<1>3. a <= q /\ q <= a
  BY <1>1, <1>2, Apart, WidthAssumption
<1>4. q = a
  BY <1>2, <1>3
<1>5. r = b
  BY <1>1, <1>2, <1>4, WidthAssumption
<1>6. QED
  BY <1>5 DEF r

\* A row is full when the next byte would be in the first column.
LEMMA FullRow ==
  ASSUME NEW a \in Nat, NEW b \in 1 .. MAX_WIDTH
  PROVE  (MAX_WIDTH * a + b) % MAX_WIDTH = 0 <=> b = MAX_WIDTH
<1>1. CASE b = MAX_WIDTH
  <2>1. MAX_WIDTH * a + b = MAX_WIDTH * (a + 1) + 0
    BY <1>1, WidthAssumption
  <2>2. (MAX_WIDTH * (a + 1) + 0) % MAX_WIDTH = 0
    BY Column, WidthAssumption
  <2>3. QED
    BY <1>1, <2>1, <2>2
<1>2. CASE b # MAX_WIDTH
  <2>1. b \in 0 .. MAX_WIDTH - 1 /\ b # 0
    BY <1>2, WidthAssumption
  <2>2. QED
    BY <1>2, <2>1, Column
<1>3. QED
  BY <1>1, <1>2

\* The column of the last byte of a row that is one byte too long.
LEMMA FirstColumn ==
  ASSUME NEW a \in Nat
  PROVE  (MAX_WIDTH * a + 1) % MAX_WIDTH = 1 % MAX_WIDTH
<1>1. CASE MAX_WIDTH = 1
  <2>1. MAX_WIDTH * a + 1 = MAX_WIDTH * (a + 1) + 0 /\ 1 = MAX_WIDTH * 1 + 0
    BY <1>1
  <2>2. (MAX_WIDTH * (a + 1) + 0) % MAX_WIDTH = 0 /\ (MAX_WIDTH * 1 + 0) % MAX_WIDTH = 0
    BY Column, WidthAssumption
  <2>3. QED
    BY <2>1, <2>2
<1>2. CASE MAX_WIDTH # 1
  <2>1. 1 \in 0 .. MAX_WIDTH - 1 /\ 1 = MAX_WIDTH * 0 + 1
    BY <1>2, WidthAssumption
  <2>2. QED
    BY <2>1, Column
<1>3. QED
  BY <1>1, <1>2

----------------------------------------------------------------------------
(* The dump.                                                               *)

RowsOfBytes == [offset : Nat, bytes : Seq(Nat), gutter : Seq(Nat)]

\* Row k of r shows memory from its offset on; it is full, and its gutter too.
Shows(r, k) ==
  /\ r[k].offset = MAX_WIDTH * (k - 2)
  /\ \A j \in 1 .. Len(r[k].bytes) : r[k].bytes[j] = r[k].offset + j - 1
Full(r, k) == Len(r[k].bytes) = MAX_WIDTH /\ r[k].gutter = r[k].bytes

DumpType == /\ size \in Nat /\ i \in 0 .. size /\ lines \in Nat
            /\ rows \in Seq(RowsOfBytes)

\* There is a row of column numbers if there is a dump, and then the rows begun.
Counted == IF rows = <<>> THEN size = 0 ELSE size > 0 /\ Len(rows) = lines + 1

\* Before the first row: nothing, or the only byte, has been shown.
InNumbers == Len(rows) = 1 => \/ i = 0 /\ rows[1] = ColumnNumbers
                              \/ i = 1 /\ size = 1 /\ rows[1].bytes = <<0>>

\* In the last row, which only the last byte makes longer than the width.
InRow == Len(rows) > 1 =>
           LET len == Len(rows[Len(rows)].bytes) IN
           /\ rows[1] = ColumnNumbers
           /\ len \in 1 .. MAX_WIDTH + 1
           /\ i = MAX_WIDTH * (lines - 1) + len
           /\ len = MAX_WIDTH + 1 => i = size

RowsShow == /\ \A k \in 2 .. Len(rows) : Shows(rows, k)
            /\ \A k \in 2 .. Len(rows) - 1 : Full(rows, k)

DumpInv == DumpType /\ Counted /\ InNumbers /\ InRow /\ RowsShow

LEMMA InvShows == DumpInv => DumpShowsMemory
<1> SUFFICES ASSUME DumpInv, Len(rows) > 0 PROVE DumpShowsMemory
  BY DEF DumpShowsMemory
<1> DEFINE len == Len(rows[Len(rows)].bytes)
<1>1. PICK n \in Nat : n = Len(rows) /\ n = lines + 1
  BY DEF DumpInv, DumpType, Counted
<1>2. lines \in Nat /\ i \in Nat
  BY DEF DumpInv, DumpType
<1>3. \A k \in 2 .. n :
        /\ rows[k].offset = MAX_WIDTH * (k - 2)
        /\ \A j \in 1 .. Len(rows[k].bytes) : rows[k].bytes[j] = rows[k].offset + j - 1
        /\ k < n => Len(rows[k].bytes) = MAX_WIDTH /\ rows[k].gutter = rows[k].bytes
  <2>1. TAKE k \in 2 .. n
  <2>2. Shows(rows, k)
    BY <1>1 DEF DumpInv, RowsShow
  <2>3. k < n => Full(rows, k)
    BY <1>1 DEF DumpInv, RowsShow
  <2>4. QED
    BY <2>2, <2>3 DEF Shows, Full
<1>4. CASE n = 1
  <2>1. /\ i <= 1
        /\ rows[1].bytes = IF i = 1 THEN <<0>> ELSE <<>>
    BY <1>1, <1>4 DEF DumpInv, InNumbers, ColumnNumbers
  <2>2. len <= 1
    <3>1. rows[1].bytes = <<0>> \/ rows[1].bytes = <<>>
      BY <2>1
    <3>2. len = Len(rows[1].bytes)
      BY <1>1, <1>4
    <3> HIDE DEF len
    <3>3. CASE rows[1].bytes = <<0>>
      BY <3>2, <3>3
    <3>4. CASE rows[1].bytes = <<>>
      BY <3>2, <3>4
    <3>5. QED
      BY <3>1, <3>3, <3>4
  <2>3. len <= MAX_WIDTH + 1 /\ len # MAX_WIDTH + 1
    BY <1>1, <1>4, <2>1, <2>2, WidthAssumption
  <2> HIDE DEF len
  <2>4. QED
    BY <1>1, <1>4, <2>1, <2>3 DEF DumpShowsMemory, len
<1>5. CASE n > 1
  <2>1. /\ rows[1] = ColumnNumbers /\ len \in 1 .. MAX_WIDTH + 1
        /\ i = MAX_WIDTH * (lines - 1) + len
        /\ len = MAX_WIDTH + 1 => i = size
    BY <1>1, <1>5 DEF DumpInv, InRow
  <2>2. rows[n].offset = MAX_WIDTH * (n - 2) /\ n - 2 = lines - 1
    BY <1>1, <1>2, <1>3, <1>5
  <2>3. rows[n].offset + len = i
    BY <1>1, <2>1, <2>2, WidthAssumption
  <2>4. ASSUME len = MAX_WIDTH + 1 PROVE Dumped /\ size % MAX_WIDTH = 1 % MAX_WIDTH
    <3>1. i = MAX_WIDTH * lines + 1
      BY <1>2, <2>1, <2>4, WidthAssumption
    <3>2. QED
      BY <1>2, <2>1, <2>4, <3>1, FirstColumn DEF Dumped
  <2>5. len <= MAX_WIDTH + 1
    BY <2>1, WidthAssumption
  <2>6. \A k \in 2 .. Len(rows) :
          /\ rows[k].offset = MAX_WIDTH * (k - 2)
          /\ \A j \in 1 .. Len(rows[k].bytes) : rows[k].bytes[j] = rows[k].offset + j - 1
          /\ k < Len(rows) => Len(rows[k].bytes) = MAX_WIDTH /\ rows[k].gutter = rows[k].bytes
    BY <1>1, <1>3, Zenon
  <2>7. Len(rows) # 1 /\ rows[Len(rows)].offset + len = i
    BY <1>1, <1>5, <2>3
  <2>8. QED
    BY <2>1, <2>4, <2>5, <2>6, <2>7, Zenon DEF DumpShowsMemory
<1>6. QED
  BY <1>1, <1>2, <1>4, <1>5

LEMMA NoDumpInv == NoDump => DumpInv
BY DEF NoDump, DumpInv, DumpType, Counted, InNumbers, InRow, RowsShow

LEMMA DumpBeginInv == ASSUME NEW n \in Nat, DumpBegin(n) PROVE DumpInv'
<1> USE DEF DumpInv, DumpType, Counted, InNumbers, InRow, RowsShow
<1>1. ColumnNumbers \in RowsOfBytes
  BY DEF ColumnNumbers, RowsOfBytes
<1>2. CASE n = 0
  BY <1>2 DEF DumpBegin
<1>3. CASE n # 0
  <2>1. rows' = <<ColumnNumbers>>
    BY <1>3 DEF DumpBegin
  <2>2. /\ rows' \in Seq(RowsOfBytes) /\ Len(rows') = 1 /\ rows'[1] = ColumnNumbers
        /\ rows' # <<>>
    BY <1>1, <2>1
  <2>3. QED
    BY <1>3, <2>2 DEF DumpBegin
<1>4. QED
  BY <1>2, <1>3

\* The gutter is printed in the last row.
LEMMA PrintableType ==
  ASSUME rows \in Seq(RowsOfBytes), NEW n \in Nat \ {0}, n = Len(rows), NEW from \in Nat
  PROVE  /\ Printable(from) \in Seq(RowsOfBytes)
         /\ Len(Printable(from)) = n
         /\ \A k \in 1 .. n - 1 : Printable(from)[k] = rows[k]
         /\ Printable(from)[n].offset = rows[n].offset
         /\ Printable(from)[n].bytes = rows[n].bytes
         /\ Printable(from)[n].gutter = [j \in 1 .. MAX_WIDTH |-> from + j - 1]
<1> DEFINE g == [j \in 1 .. MAX_WIDTH |-> from + j - 1]
           r == [rows[n] EXCEPT !.gutter = g]
<1>1. n \in 1 .. Len(rows) /\ rows[n] \in RowsOfBytes
  OBVIOUS
<1>2. g \in Seq(Nat)
  BY WidthAssumption
<1>3. Printable(from) = [rows EXCEPT ![n] = r]
  BY DEF Printable
<1> HIDE DEF g
<1>4. /\ r \in RowsOfBytes /\ r.offset = rows[n].offset /\ r.bytes = rows[n].bytes
      /\ r.gutter = g
  BY <1>1, <1>2 DEF RowsOfBytes
<1> HIDE DEF r
<1>5. /\ Printable(from) \in Seq(RowsOfBytes) /\ Len(Printable(from)) = n
      /\ \A k \in 1 .. n - 1 : Printable(from)[k] = rows[k]
      /\ Printable(from)[n] = r
  BY <1>1, <1>3, <1>4
<1>6. QED
  BY <1>4, <1>5 DEF g

\* A full row gets the gutter of its own bytes, and a row begins where it ends.
LEMMA NewRowInv == DumpInv /\ DumpNewRow => DumpInv'
<1> SUFFICES ASSUME DumpInv, DumpNewRow PROVE DumpInv'
  OBVIOUS
<1>1. /\ i < size /\ i % MAX_WIDTH = 0 /\ i + 1 # size
      /\ rows' = Append(IF i > 0 THEN Printable(MAX_WIDTH * (lines - 1)) ELSE rows, Row(i))
      /\ i' = i + 1 /\ lines' = lines + 1 /\ size' = size
  BY DEF DumpNewRow, eol, last_byte
<1>2. /\ size \in Nat /\ i \in Nat /\ lines \in Nat
      /\ rows \in Seq(RowsOfBytes)
  BY DEF DumpInv, DumpType
<1>3. PICK n \in Nat \ {0} : n = Len(rows) /\ n = lines + 1
  BY <1>1, <1>2 DEF DumpInv, Counted
<1>4. Row(i) \in RowsOfBytes /\ Row(i).offset = i /\ Row(i).bytes = <<i>>
  BY <1>2 DEF Row, RowsOfBytes
<1>5. rows[n] \in RowsOfBytes
  <2>1. n \in 1 .. Len(rows) /\ rows \in Seq(RowsOfBytes)
    BY <1>2, <1>3
  <2>2. QED
    BY <2>1, ElementOfSeq
<1>6. CASE n = 1
  <2>1. i = 0 /\ rows[1] = ColumnNumbers /\ lines = 0
    <3>1. lines = 0 /\ Len(rows) = 1
      BY <1>2, <1>3, <1>6
    <3>2. ~(i = 1 /\ size = 1)
      BY <1>1
    <3>3. QED
      BY <3>1, <3>2 DEF DumpInv, InNumbers
  <2>2. /\ rows' \in Seq(RowsOfBytes) /\ Len(rows') = 2 /\ rows' # <<>>
        /\ rows'[1] = ColumnNumbers /\ rows'[2] = Row(i)
    <3>1. rows' = Append(rows, Row(i)) /\ Len(rows) = 1
      BY <1>1, <1>3, <1>6, <2>1
    <3>2. QED
      BY <1>2, <1>4, <2>1, <3>1, AppendProperties
  <2>3. Len(rows'[2].bytes) = 1 /\ rows'[2].bytes[1] = 0 /\ rows'[2].offset = 0
    <3>1. rows'[2].bytes = <<0>> /\ rows'[2].offset = 0
      BY <1>4, <2>1, <2>2
    <3>2. QED
      BY <3>1
  <2>4. MAX_WIDTH * 0 = 0
    BY WidthAssumption
  <2>5. Shows(rows', 2)
    BY <2>3, <2>4 DEF Shows
  <2>6. RowsShow'
    BY <2>2, <2>5 DEF RowsShow
  <2>7. InRow' /\ InNumbers'
    <3>1. i' = 1 /\ lines' - 1 = 0 /\ 1 \in 1 .. MAX_WIDTH + 1 /\ 1 # MAX_WIDTH + 1
      BY <1>1, <2>1, WidthAssumption
    <3>2. i' = MAX_WIDTH * (lines' - 1) + 1
      BY <2>4, <3>1
    <3>3. QED
      BY <2>2, <2>3, <3>1, <3>2 DEF InRow, InNumbers
  <2>8. DumpType' /\ Counted'
    BY <1>1, <1>2, <2>1, <2>2 DEF DumpType, Counted
  <2>9. QED
    BY <2>6, <2>7, <2>8 DEF DumpInv
<1>7. CASE n > 1
  <2>1. PICK len \in 1 .. MAX_WIDTH :
          len = Len(rows[n].bytes) /\ i = MAX_WIDTH * (lines - 1) + len
    <3> DEFINE l == Len(rows[n].bytes)
    <3>1. /\ l \in 1 .. MAX_WIDTH + 1 /\ i = MAX_WIDTH * (lines - 1) + l
          /\ l = MAX_WIDTH + 1 => i = size
      BY <1>3, <1>7 DEF DumpInv, InRow
    <3> HIDE DEF l
    <3>2. l \in 1 .. MAX_WIDTH
      BY <1>1, <1>2, <3>1, WidthAssumption
    <3>3. QED
      BY <3>1, <3>2 DEF l
  <2>2. /\ rows[1] = ColumnNumbers
        /\ \A k \in 2 .. n : Shows(rows, k)
        /\ \A k \in 2 .. n - 1 : Full(rows, k)
    BY <1>3, <1>7 DEF DumpInv, InRow, RowsShow
  <2>3. len = MAX_WIDTH
    <3>1. lines - 1 \in Nat
      BY <1>2, <1>3, <1>7
    <3>2. QED
      BY <1>1, <2>1, <3>1, FullRow
  <2>4. MAX_WIDTH * (lines - 1) \in Nat /\ i = MAX_WIDTH * lines /\ i > 0
    BY <1>2, <1>3, <1>7, <2>1, <2>3, WidthAssumption
  <2> DEFINE p == Printable(MAX_WIDTH * (lines - 1))
  <2>5. /\ rows' = Append(p, Row(i))
        /\ p \in Seq(RowsOfBytes) /\ Len(p) = n
        /\ \A k \in 1 .. n - 1 : p[k] = rows[k]
        /\ p[n].offset = rows[n].offset /\ p[n].bytes = rows[n].bytes
        /\ p[n].gutter = [j \in 1 .. MAX_WIDTH |-> MAX_WIDTH * (lines - 1) + j - 1]
    <3>1. rows' = Append(p, Row(i))
      BY <1>1, <2>4
    <3>2. QED
      BY <1>2, <1>3, <2>4, <3>1, PrintableType
  <2> HIDE DEF p
  <2>6. p[n].gutter = p[n].bytes
    <3>1. /\ rows[n].offset = MAX_WIDTH * (lines - 1)
          /\ \A j \in 1 .. len : rows[n].bytes[j] = rows[n].offset + j - 1
      <4>1. Shows(rows, n) /\ n - 2 = lines - 1
        BY <1>2, <1>3, <1>7, <2>2
      <4>2. QED
        BY <2>1, <4>1 DEF Shows
    <3>2. rows[n].bytes \in Seq(Nat)
      BY <1>5 DEF RowsOfBytes
    <3>3. /\ p[n].gutter \in Seq(Nat) /\ Len(p[n].gutter) = MAX_WIDTH
          /\ \A j \in 1 .. MAX_WIDTH : p[n].gutter[j] = MAX_WIDTH * (lines - 1) + j - 1
      BY <2>4, <2>5, WidthAssumption
    <3>4. \A j \in 1 .. MAX_WIDTH : p[n].gutter[j] = rows[n].bytes[j]
      BY <2>3, <3>1, <3>3
    <3>5. p[n].gutter = rows[n].bytes
      BY <2>1, <2>3, <3>2, <3>3, <3>4, SeqEqual
    <3>6. QED
      BY <2>5, <3>5
  <2>7. /\ rows' \in Seq(RowsOfBytes) /\ Len(rows') = n + 1
        /\ rows'[n + 1] = Row(i)
        /\ \A k \in 1 .. n : rows'[k] = p[k]
    BY <1>4, <2>5
  <2>8. Len(rows'[n + 1].bytes) = 1 /\ rows'[n + 1].bytes[1] = i /\ rows'[n + 1].offset = i
    <3>1. rows'[n + 1].bytes = <<i>> /\ rows'[n + 1].offset = i
      BY <1>4, <2>7
    <3>2. QED
      BY <3>1
  <2>9. \A k \in 2 .. n + 1 : Shows(rows', k)
    <3>1. ASSUME NEW k \in 2 .. n PROVE Shows(rows', k)
      <4>1. rows'[k].offset = rows[k].offset /\ rows'[k].bytes = rows[k].bytes
        BY <1>7, <2>5, <2>7
      <4>2. Shows(rows, k)
        BY <2>2
      <4>3. QED
        BY <4>1, <4>2 DEF Shows
    <3>2. Shows(rows', n + 1)
      <4>1. (n + 1) - 2 = lines
        BY <1>2, <1>3
      <4>2. QED
        BY <1>2, <2>4, <2>8, <4>1 DEF Shows
    <3>3. QED
      BY <3>1, <3>2
  <2>10. \A k \in 2 .. n : Full(rows', k)
    <3>1. ASSUME NEW k \in 2 .. n - 1 PROVE Full(rows', k)
      <4>1. rows'[k] = rows[k] /\ Full(rows, k)
        BY <2>2, <2>5, <2>7
      <4>2. QED
        BY <4>1 DEF Full
    <3>2. Full(rows', n)
      <4>1. rows'[n] = p[n]
        BY <2>7
      <4>2. QED
        BY <2>1, <2>3, <2>5, <2>6, <4>1 DEF Full
    <3>3. QED
      BY <3>1, <3>2
  <2>11. RowsShow'
    BY <2>7, <2>9, <2>10 DEF RowsShow
  <2>12. rows'[1] = ColumnNumbers
    BY <1>7, <2>2, <2>5, <2>7
  <2>13. i' = MAX_WIDTH * (lines' - 1) + 1
    BY <1>1, <1>2, <2>4
  <2>14. InRow' /\ InNumbers'
    BY <1>7, <2>7, <2>8, <2>12, <2>13, WidthAssumption DEF InRow, InNumbers
  <2>15. DumpType' /\ Counted'
    BY <1>1, <1>2, <1>3, <2>7 DEF DumpType, Counted
  <2>16. QED
    BY <2>11, <2>14, <2>15 DEF DumpInv
<1>8. QED
  BY <1>3, <1>6, <1>7

\* A byte goes on with its row, the last one also if the row is full.
LEMMA ByteInv == DumpInv /\ DumpByte => DumpInv'
<1> SUFFICES ASSUME DumpInv, DumpByte PROVE DumpInv'
  OBVIOUS
<1> DEFINE before == IF last_byte THEN Printable(MAX_WIDTH * lines) ELSE rows
<1>1. /\ i < size /\ (i % MAX_WIDTH # 0 \/ i + 1 = size)
      /\ rows' = [before EXCEPT ![Len(rows)].bytes = Append(@, i)]
      /\ i' = i + 1 /\ lines' = lines /\ size' = size
  BY DEF DumpByte, eol, last_byte
<1>2. /\ size \in Nat /\ i \in Nat /\ lines \in Nat
      /\ rows \in Seq(RowsOfBytes)
  BY DEF DumpInv, DumpType
<1>3. PICK n \in Nat \ {0} : n = Len(rows) /\ n = lines + 1
  BY <1>1, <1>2 DEF DumpInv, Counted
<1>4. rows[n] \in RowsOfBytes /\ n \in 1 .. n
  <2>1. n \in 1 .. Len(rows) /\ rows \in Seq(RowsOfBytes)
    BY <1>2, <1>3
  <2>2. QED
    BY <1>3, <2>1, ElementOfSeq
<1>5. /\ before \in Seq(RowsOfBytes) /\ Len(before) = n
      /\ \A k \in 1 .. n - 1 : before[k] = rows[k]
      /\ before[n].offset = rows[n].offset /\ before[n].bytes = rows[n].bytes
  <2>1. MAX_WIDTH * lines \in Nat
    BY <1>2, WidthAssumption
  <2>2. CASE last_byte
    BY <1>2, <1>3, <2>1, <2>2, PrintableType
  <2>3. CASE ~last_byte
    BY <1>2, <1>3, <2>3
  <2>4. QED
    BY <2>2, <2>3
<1> HIDE DEF before
<1> DEFINE b == Append(rows[n].bytes, i)
           r == [before[n] EXCEPT !.bytes = b]
<1>6. /\ rows[n].bytes \in Seq(Nat) /\ b \in Seq(Nat)
      /\ Len(b) = Len(rows[n].bytes) + 1 /\ b[Len(rows[n].bytes) + 1] = i
      /\ \A j \in 1 .. Len(rows[n].bytes) : b[j] = rows[n].bytes[j]
  <2>1. rows[n].bytes \in Seq(Nat)
    BY <1>4 DEF RowsOfBytes
  <2>2. QED
    BY <1>2, <2>1, AppendProperties
<1>7. rows' = [before EXCEPT ![n] = r]
  BY <1>1, <1>3, <1>5
<1> HIDE DEF b
<1>8. r \in RowsOfBytes /\ r.offset = rows[n].offset /\ r.bytes = b
  <2>1. before[n] \in RowsOfBytes
    BY <1>4, <1>5, ElementOfSeq
  <2>2. QED
    BY <1>5, <1>6, <2>1 DEF RowsOfBytes
<1> HIDE DEF r
<1>9. /\ rows' \in Seq(RowsOfBytes) /\ Len(rows') = n
      /\ \A k \in 1 .. n - 1 : rows'[k] = rows[k]
      /\ rows'[n].offset = rows[n].offset /\ rows'[n].bytes = b
  BY <1>4, <1>5, <1>7, <1>8
<1>10. DumpType' /\ Counted'
  BY <1>1, <1>2, <1>3, <1>9 DEF DumpType, Counted
<1>11. CASE n = 1
  <2>1. i = 0 /\ rows[1].bytes = <<>> /\ Len(rows) = 1
    <3>1. Len(rows) = 1 /\ ~(i = 1 /\ size = 1)
      BY <1>1, <1>3, <1>11
    <3>2. QED
      BY <3>1 DEF DumpInv, InNumbers, ColumnNumbers
  <2>2. 0 % MAX_WIDTH = 0
    <3>1. MAX_WIDTH * 0 + 0 = 0
      BY WidthAssumption
    <3>2. QED
      BY <3>1, Column, WidthAssumption
  <2>3. size = 1
    BY <1>1, <2>1, <2>2
  <2>4. b = <<0>>
    BY <1>11, <2>1 DEF b
  <2>5. InNumbers' /\ InRow' /\ RowsShow'
    BY <1>1, <1>9, <1>11, <2>1, <2>3, <2>4 DEF InNumbers, InRow, RowsShow
  <2>6. QED
    BY <1>10, <2>5 DEF DumpInv
<1>12. CASE n > 1
  <2>1. PICK len \in 1 .. MAX_WIDTH :
          len = Len(rows[n].bytes) /\ i = MAX_WIDTH * (lines - 1) + len
    <3> DEFINE l == Len(rows[n].bytes)
    <3>1. /\ l \in 1 .. MAX_WIDTH + 1 /\ i = MAX_WIDTH * (lines - 1) + l
          /\ l = MAX_WIDTH + 1 => i = size
      BY <1>3, <1>12 DEF DumpInv, InRow
    <3> HIDE DEF l
    <3>2. l # MAX_WIDTH + 1
      BY <1>1, <1>2, <3>1
    <3>3. l \in 1 .. MAX_WIDTH
      BY <3>1, <3>2, WidthAssumption
    <3>4. QED
      BY <3>1, <3>3 DEF l
  <2>2. /\ rows[1] = ColumnNumbers
        /\ \A k \in 2 .. n : Shows(rows, k)
        /\ \A k \in 2 .. n - 1 : Full(rows, k)
    BY <1>3, <1>12 DEF DumpInv, InRow, RowsShow
  <2>3. len = MAX_WIDTH => i + 1 = size
    <3>1. lines - 1 \in Nat
      BY <1>2, <1>3, <1>12
    <3>2. QED
      BY <1>1, <2>1, <3>1, FullRow
  <2>4. Shows(rows', n)
    <3>1. /\ rows[n].offset = MAX_WIDTH * (lines - 1)
          /\ \A j \in 1 .. len : rows[n].bytes[j] = rows[n].offset + j - 1
      <4>1. Shows(rows, n) /\ n - 2 = lines - 1
        BY <1>2, <1>3, <1>12, <2>2
      <4>2. QED
        BY <2>1, <4>1 DEF Shows
    <3>2. i = rows[n].offset + (len + 1) - 1
      BY <1>2, <2>1, <3>1, WidthAssumption
    <3>3. \A j \in 1 .. len + 1 : b[j] = rows[n].offset + j - 1
      <4>1. b[len + 1] = rows[n].offset + (len + 1) - 1
        BY <1>6, <2>1, <3>2
      <4>2. \A j \in 1 .. len : b[j] = rows[n].offset + j - 1
        BY <1>6, <2>1, <3>1
      <4>3. QED
        BY <4>1, <4>2
    <3>4. rows[n].offset = MAX_WIDTH * (n - 2)
      BY <1>12, <2>2 DEF Shows
    <3>5. QED
      BY <1>6, <1>9, <2>1, <3>3, <3>4 DEF Shows
  <2>5. \A k \in 2 .. n - 1 : Shows(rows', k) /\ Full(rows', k)
    <3>1. TAKE k \in 2 .. n - 1
    <3>2. rows'[k] = rows[k] /\ Shows(rows, k) /\ Full(rows, k)
      BY <1>9, <2>2
    <3>3. QED
      BY <3>2 DEF Shows, Full
  <2>6. RowsShow'
    BY <1>9, <2>4, <2>5 DEF RowsShow
  <2>7. rows'[1] = ColumnNumbers
    BY <1>9, <1>12, <2>2
  <2>8. Len(b) = len + 1 /\ len + 1 \in 1 .. MAX_WIDTH + 1
    BY <1>6, <2>1, WidthAssumption
  <2>9. i' = MAX_WIDTH * (lines' - 1) + (len + 1)
    BY <1>1, <1>2, <2>1, WidthAssumption
  <2>10. len + 1 = MAX_WIDTH + 1 => i' = size'
    BY <1>1, <2>1, <2>3, WidthAssumption
  <2>11. InRow'
    BY <1>9, <2>7, <2>8, <2>9, <2>10 DEF InRow
  <2>12. InNumbers'
    BY <1>9, <1>12 DEF InNumbers
  <2>13. QED
    BY <1>10, <2>6, <2>11, <2>12 DEF DumpInv
<1>13. QED
  BY <1>3, <1>11, <1>12
----------------------------------------------------------------------------
(* The device.                                                             *)

\* The device is open while there are lines, and a request is forgotten before
\* the next one.
DeviceInv ==
  /\ pc \in {"START", "READY", "CALL", "DUMP", "DONE", "CRASHED", "ENDED"}
  /\ pc \notin {"START", "ENDED"} => device = "open" /\ exit_code = 0
  /\ pc \in {"START", "READY", "CALL"} => asked = NULL
  /\ pc = "START" => exit_code = 0 /\ ~running
  /\ DeviceReleased

LEMMA InitDevice == Init => DeviceInv
BY DEF Init, DeviceInv, DeviceReleased

LEMMA StepDevice == DeviceInv /\ [Next]_vars => DeviceInv'
<1> SUFFICES ASSUME DeviceInv, [Next]_vars PROVE DeviceInv'
  OBVIOUS
<1> USE DEF DeviceInv, DeviceReleased, rest
<1>1. CASE Start
  BY <1>1 DEF Start, lineVars
<1>2. CASE NextLine \/ Exit
  BY <1>2 DEF NextLine, Exit, lineVars
<1>3. ASSUME NEW c, NEW a, Dispatch(c, a) PROVE DeviceInv'
  BY <1>3 DEF Dispatch, Finish
<1>4. ASSUME NEW c, NEW types, NEW call, FileHandler(c, types, call) PROVE DeviceInv'
  BY <1>4 DEF FileHandler, Calls, Refuse, Ask, Finish
<1>5. CASE Upload \/ Exec \/ Download
  BY <1>4, <1>5 DEF Upload, Exec, Download
<1>6. CASE Dseld
  BY <1>6 DEF Dseld, Calls, Ask, Finish
<1>7. CASE Xxd
  BY <1>7 DEF Xxd, Calls, Refuse, Finish
<1>8. CASE XxdDump \/ XxdEnd
  BY <1>8 DEF XxdDump, XxdEnd, Finish
<1>9. CASE EchoArg
  BY <1>9 DEF EchoArg, Calls, Finish
<1>10. CASE Help \/ Env \/ Clear \/ Quit
  BY <1>10 DEF Help, Env, Clear, Draws, Quit, Calls, Finish
<1>11. CASE UNCHANGED vars
  BY <1>11 DEF vars, lineVars
<1>12. QED
  BY <1>1, <1>2, <1>3, <1>5, <1>6, <1>7, <1>8, <1>9, <1>10, <1>11 DEF Next, Program, Handler

\* The device is asked while it is open, and given back on both returns of
\* main().
THEOREM DeviceGivenBack == Spec => []DeviceReleased
<1>1. DeviceInv => DeviceReleased
  BY DEF DeviceInv
<1>2. QED
  BY <1>1, InitDevice, StepDevice, PTL DEF Spec

----------------------------------------------------------------------------
(* The arguments.                                                          *)

\* The arguments are a vector of objects, as the parser leaves it.
ArgsOk ==
  /\ args \in Arguments \cup {<<>>}
  /\ argc \in Nat
  /\ \A k \in 1 .. argc : /\ Tag(k) = args[k].type /\ Tag(k) \in Types
                          /\ Tag(k) = "INTEGER" => args[k].value \in Nat

LEMMA ArgsTyped == args \in Arguments \cup {<<>>} => ArgsOk
<1> SUFFICES ASSUME args \in Arguments \cup {<<>>} PROVE ArgsOk
  OBVIOUS
<1>1. CASE args = <<>>
  BY <1>1 DEF ArgsOk, argc
<1>2. CASE args \in Arguments
  <2>1. Len(args) \in Nat
    BY <1>2, ArgumentsAssumption
  <2>2. \A k \in 1 .. Len(args) :
          args[k].type \in Types /\ (args[k].type = "INTEGER" => args[k].value \in Nat)
    BY <1>2, ArgumentsAssumption
  <2>3. \A k \in 1 .. Len(args) : Tag(k) = args[k].type
    BY <2>1 DEF Tag, argc
  <2>4. QED
    BY <1>2, <2>1, <2>2, <2>3 DEF ArgsOk, argc
<1>3. QED
  BY <1>1, <1>2

\* What the commands of the device document, command by command.
LEMMA WellCalledMeans ==
  /\ command \in {"upload", "exec"} =>
       (WellCalled <=> argc = 2 /\ args[1].type = "INTEGER" /\ args[2].type = "STRING")
  /\ command = "download" =>
       (WellCalled <=> /\ argc = 3 /\ args[1].type = "INTEGER" /\ args[2].type = "STRING"
                       /\ args[3].type = "INTEGER")
  /\ command = "xxd" =>
       (WellCalled <=> argc = 2 /\ args[1].type = "INTEGER" /\ args[2].type = "INTEGER")
  /\ command = "dseld" => (WellCalled <=> argc = 0)
<1>1. ASSUME command \in {"upload", "exec"} PROVE
       (WellCalled <=> argc = 2 /\ args[1].type = "INTEGER" /\ args[2].type = "STRING")
  <2>1. /\ Len(Documented[command].params) = 2
        /\ Documented[command].params[1].type = "INTEGER"
        /\ Documented[command].params[2].type = "STRING"
    BY <1>1 DEF Documented, Param
  <2>2. QED
    BY <2>1 DEF WellCalled
<1>2. ASSUME command = "download" PROVE
       (WellCalled <=> /\ argc = 3 /\ args[1].type = "INTEGER" /\ args[2].type = "STRING"
                       /\ args[3].type = "INTEGER")
  <2>1. /\ Len(Documented[command].params) = 3
        /\ Documented[command].params[1].type = "INTEGER"
        /\ Documented[command].params[2].type = "STRING"
        /\ Documented[command].params[3].type = "INTEGER"
    BY <1>2 DEF Documented, Param
  <2>2. QED
    BY <2>1 DEF WellCalled
<1>3. ASSUME command = "xxd" PROVE
       (WellCalled <=> argc = 2 /\ args[1].type = "INTEGER" /\ args[2].type = "INTEGER")
  <2>1. /\ Len(Documented[command].params) = 2
        /\ Documented[command].params[1].type = "INTEGER"
        /\ Documented[command].params[2].type = "INTEGER"
    BY <1>3 DEF Documented, Param
  <2>2. QED
    BY <2>1 DEF WellCalled
<1>4. ASSUME command = "dseld" PROVE (WellCalled <=> argc = 0)
  BY <1>4 DEF WellCalled, Documented
<1>5. QED
  BY <1>1, <1>2, <1>3, <1>4

\* The types of the arguments of a command of the device.
TypeLists == {<<"INTEGER", "STRING">>, <<"INTEGER", "INTEGER">>, <<"INTEGER", "STRING", "INTEGER">>}

LEMMA FitsMeans ==
  /\ Fits(<<"INTEGER", "STRING">>) <=> Tag(1) = "INTEGER" /\ Tag(2) = "STRING"
  /\ Fits(<<"INTEGER", "INTEGER">>) <=> Tag(1) = "INTEGER" /\ Tag(2) = "INTEGER"
  /\ Fits(<<"INTEGER", "STRING", "INTEGER">>) <=>
       Tag(1) = "INTEGER" /\ Tag(2) = "STRING" /\ Tag(3) = "INTEGER"
<1>1. Fits(<<"INTEGER", "STRING">>) <=> Tag(1) = "INTEGER" /\ Tag(2) = "STRING"
  BY DEF Fits
<1>2. Fits(<<"INTEGER", "INTEGER">>) <=> Tag(1) = "INTEGER" /\ Tag(2) = "INTEGER"
  BY DEF Fits
<1>3. Fits(<<"INTEGER", "STRING", "INTEGER">>) <=>
        Tag(1) = "INTEGER" /\ Tag(2) = "STRING" /\ Tag(3) = "INTEGER"
  BY DEF Fits
<1>4. QED
  BY <1>1, <1>2, <1>3

\* With as many arguments as there are types, the argument that is refused is
\* there, and what is reported is not success.
LEMMA Refused ==
  ASSUME ArgsOk, NEW types \in TypeLists, argc = Len(types), ~Fits(types), Refuse(types)
  PROVE  /\ pc' = "DONE" /\ status' # "NONE"
         /\ UNCHANGED <<rest, asked, printed, dumpVars>>
<1> DEFINE First(k) == Tag(k) # types[k] /\ \A l \in 1 .. k - 1 : Tag(l) = types[l]
           k == CHOOSE m \in 1 .. Len(types) : First(m)
<1>1. Len(types) \in {2, 3} /\ \A m \in 1 .. Len(types) : types[m] \in {"INTEGER", "STRING"}
  BY DEF TypeLists
<1>2. \E m \in 1 .. Len(types) : First(m)
  <2>1. CASE Tag(1) # types[1]
    BY <1>1, <2>1
  <2>2. CASE Tag(1) = types[1] /\ Tag(2) # types[2]
    BY <1>1, <2>2
  <2>3. CASE Tag(1) = types[1] /\ Tag(2) = types[2]
    <3>1. Len(types) = 3 /\ Tag(3) # types[3]
      BY <1>1, <2>3 DEF Fits
    <3>2. QED
      BY <2>3, <3>1
  <2>4. QED
    BY <2>1, <2>2, <2>3
<1>3. k \in 1 .. Len(types)
  BY <1>2
<1>4. Tag(k) # "none" /\ Expected[types[k]] # "NONE"
  BY <1>1, <1>3 DEF ArgsOk, Types, Expected
<1>5. /\ IF Tag(k) = "none" THEN pc' = "CRASHED" /\ UNCHANGED status
                            ELSE Finish(Expected[types[k]])
      /\ UNCHANGED <<rest, asked, printed, dumpVars>>
  BY DEF Refuse
<1>6. QED
  BY <1>4, <1>5 DEF Finish

\* A command of the device is called with as many arguments as it has types.
LEMMA CountMeans ==
  /\ arg_count.upload = 2 /\ arg_count.exec = 2 /\ arg_count.xxd = 2
  /\ arg_count.download = 3 /\ arg_count.dseld = 0 /\ arg_count.echo = -1
BY DEF arg_count

\* The value of an argument that is there may be passed on.
LEMMA ValuesOfArgs ==
  ASSUME args \in Arguments \cup {<<>>}, NEW k \in 1 .. argc
  PROVE  args[k].value \in Values
<1>1. args \in Arguments /\ k \in 1 .. Len(args)
  BY DEF argc
<1>2. args[k].value \in {args[l].value : l \in 1 .. Len(args)}
  BY <1>1
<1>3. QED
  BY <1>1, <1>2 DEF Values

----------------------------------------------------------------------------
(* What is asked and what is read.                                         *)

\* A line's command has the number of arguments main() wants of it, nothing has
\* been asked when it is called, and what echo has printed is the beginning of
\* its arguments, which it has not come to the end of.
CallInv ==
  /\ args \in Arguments \cup {<<>>}
  /\ pc \in {"START", "READY", "CALL"} => asked = NULL /\ status = "NONE"
  /\ pc \in {"START", "READY"} => printed = <<>>
  /\ pc = "CALL" => /\ command \in DOMAIN arg_count
                    /\ arg_count[command] >= 0 => argc = arg_count[command]
                    /\ printed \in Seq({args[k] : k \in 1 .. argc})
                    /\ Len(printed) < argc \/ Len(printed) = 0
                    /\ \A k \in 1 .. Len(printed) : printed[k] = args[k]
  /\ pc = "DUMP" => asked # NULL
  /\ CallsAsDocumented
  /\ ArgumentsReadExist

LEMMA InitCall == Init => CallInv
BY DEF Init, CallInv, CallsAsDocumented, ArgumentsReadExist

\* A handler that reports without asking, and rightly so.
LEMMA Reported ==
  ASSUME CallInv, pc = "CALL", pc' = "DONE", UNCHANGED <<rest, asked, printed>>,
         command # "echo",
         command \in DOMAIN Documented =>
           status' # "NONE" /\ (WellCalled => /\ command = "xxd"
                                             /\ status' \in {"INVALID_SIZE", "INSUFFICIENT_MEMORY"})
  PROVE  CallInv'
BY DEF CallInv, CallsAsDocumented, ArgumentsReadExist, WellCalled, argc, rest

\* A handler that asks for what is documented.
LEMMA Asked ==
  ASSUME CallInv, pc = "CALL", pc' \in {"DONE", "DUMP"}, UNCHANGED <<rest, printed>>,
         command \in DOMAIN Documented, command # "echo", WellCalled,
         asked' \in Requests,
         asked'.fn = Documented[command].fn,
         \A k \in 1 .. argc : asked'[Documented[command].params[k].role] = args[k].value
  PROVE  CallInv'
BY NullAssumption DEF CallInv, CallsAsDocumented, ArgumentsReadExist, WellCalled, argc, rest

\* upload, exec and download: their own test of the number never fails.
LEMMA FileHandlerCall ==
  ASSUME CallInv,
         NEW c \in {"upload", "exec", "download"}, NEW call,
         NEW types \in TypeLists, FileHandler(c, types, call),
         Len(types) = arg_count[c],
         command = c => (WellCalled <=> argc = Len(types) /\ Fits(types)),
         command = c /\ WellCalled =>
           /\ call \in Requests
           /\ call.fn = Documented[c].fn
           /\ \A k \in 1 .. argc : call[Documented[c].params[k].role] = args[k].value
  PROVE  CallInv'
<1>1. /\ pc = "CALL" /\ command = c /\ argc = Len(types)
      /\ command \in DOMAIN Documented /\ command # "echo"
  <2>1. pc = "CALL" /\ command = c
    BY DEF FileHandler, Calls
  <2>2. arg_count[c] >= 0 /\ c \in DOMAIN arg_count
    BY DEF arg_count
  <2>3. c \in DOMAIN Documented
    BY DEF Documented
  <2>4. QED
    BY <2>1, <2>2, <2>3 DEF CallInv
<1>2. CASE Fits(types)
  <2>1. Ask(call)
    BY <1>1, <1>2 DEF FileHandler
  <2>2. asked' = call /\ pc' = "DONE" /\ UNCHANGED <<rest, printed>>
    BY <2>1 DEF Ask, Finish
  <2>3. QED
    BY <1>1, <1>2, <2>2, Asked
<1>3. CASE ~Fits(types)
  <2>1. ArgsOk
    BY ArgsTyped DEF CallInv
  <2>2. Refuse(types)
    BY <1>1, <1>3 DEF FileHandler
  <2>3. pc' = "DONE" /\ status' # "NONE" /\ UNCHANGED <<rest, asked, printed>>
    BY <1>1, <1>3, <2>1, <2>2, Refused
  <2>4. QED
    BY <1>1, <1>3, <2>3, Reported
<1>4. QED
  BY <1>2, <1>3

LEMMA UploadExecCall == CallInv /\ (Upload \/ Exec) => CallInv'
<1> SUFFICES ASSUME CallInv, NEW c \in {"upload", "exec"}, NEW f,
                    f = Documented[c].fn,
                    FileHandler(c, <<"INTEGER", "STRING">>,
                                [fn |-> f, path |-> args[2].value, address |-> args[1].value])
             PROVE CallInv'
  BY DEF Upload, Exec, Documented
<1> DEFINE types == <<"INTEGER", "STRING">>
           call == [fn |-> f, path |-> args[2].value, address |-> args[1].value]
<1>1. types \in TypeLists /\ Len(types) = arg_count[c]
  BY CountMeans DEF TypeLists
<1>2. command = c => (WellCalled <=> argc = Len(types) /\ Fits(types))
  <2>1. argc = 2 => Tag(1) = args[1].type /\ Tag(2) = args[2].type
    BY DEF Tag
  <2>2. QED
    BY <2>1, WellCalledMeans, FitsMeans
<1>3. ASSUME command = c, WellCalled
      PROVE  /\ call \in Requests
             /\ call.fn = Documented[c].fn
             /\ \A k \in 1 .. argc : call[Documented[c].params[k].role] = args[k].value
  <2>1. argc = 2
    BY <1>3, WellCalledMeans
  <2>2. args[1].value \in Values /\ args[2].value \in Values
    BY <2>1, ValuesOfArgs DEF CallInv
  <2>3. f \in {"ssusb_file_upload", "ssusb_file_execute"}
    BY DEF Documented
  <2>4. call \in Requests
    BY <2>2, <2>3 DEF Requests
  <2>5. Documented[c].params[1].role = "address" /\ Documented[c].params[2].role = "path"
    BY DEF Documented, Param
  <2>6. QED
    BY <2>1, <2>4, <2>5
<1>4. FileHandler(c, types, call)
  OBVIOUS
<1> HIDE DEF types, call
<1>5. QED
  BY <1>1, <1>2, <1>3, <1>4, FileHandlerCall

LEMMA DownloadCall == CallInv /\ Download => CallInv'
<1> SUFFICES ASSUME CallInv, Download PROVE CallInv'
  OBVIOUS
<1> DEFINE types == <<"INTEGER", "STRING", "INTEGER">>
           call == [fn |-> "ssusb_file_download", path |-> args[2].value,
                    address |-> args[1].value, size |-> args[3].value]
<1>1. types \in TypeLists /\ Len(types) = arg_count["download"]
  BY CountMeans DEF TypeLists
<1>2. command = "download" => (WellCalled <=> argc = Len(types) /\ Fits(types))
  <2>1. argc = 3 => Tag(1) = args[1].type /\ Tag(2) = args[2].type /\ Tag(3) = args[3].type
    BY DEF Tag
  <2>2. QED
    BY <2>1, WellCalledMeans, FitsMeans
<1>3. ASSUME command = "download", WellCalled
      PROVE  /\ call \in Requests
             /\ call.fn = Documented["download"].fn
             /\ \A k \in 1 .. argc :
                  call[Documented["download"].params[k].role] = args[k].value
  <2>1. argc = 3
    BY <1>3, WellCalledMeans
  <2>2. args[1].value \in Values /\ args[2].value \in Values /\ args[3].value \in Values
    BY <2>1, ValuesOfArgs DEF CallInv
  <2>3. call \in Requests
    BY <2>2 DEF Requests
  <2>4. /\ Documented["download"].params[1].role = "address"
        /\ Documented["download"].params[2].role = "path"
        /\ Documented["download"].params[3].role = "size"
        /\ Documented["download"].fn = "ssusb_file_download"
    BY DEF Documented, Param
  <2>5. QED
    BY <2>1, <2>3, <2>4
<1>4. FileHandler("download", types, call)
  BY DEF Download
<1> HIDE DEF types, call
<1>5. QED
  BY <1>1, <1>2, <1>3, <1>4, FileHandlerCall

LEMMA DseldCall == CallInv /\ Dseld => CallInv'
<1> SUFFICES ASSUME CallInv, Dseld PROVE CallInv'
  OBVIOUS
<1>1. pc = "CALL" /\ command = "dseld" /\ argc = 0
  BY CountMeans DEF Dseld, Calls, CallInv
<1>2. /\ asked' = [fn |-> "ssusb_drivers_detect_select"]
      /\ pc' = "DONE" /\ UNCHANGED <<rest, printed>>
  BY DEF Dseld, Ask, Finish
<1>3. asked' \in Requests
  BY <1>2 DEF Requests
<1>4. "dseld" \in DOMAIN Documented /\ Documented["dseld"].fn = "ssusb_drivers_detect_select"
  BY DEF Documented
<1>5. QED
  BY <1>1, <1>2, <1>3, <1>4, WellCalledMeans, Asked

\* xxd: main() has tested the number of its arguments.
LEMMA XxdCall == CallInv /\ Xxd => CallInv'
<1> SUFFICES ASSUME CallInv, Xxd PROVE CallInv'
  OBVIOUS
<1> DEFINE types == <<"INTEGER", "INTEGER">>
<1>1. /\ pc = "CALL" /\ command = "xxd" /\ argc = 2
      /\ Tag(1) = args[1].type /\ Tag(2) = args[2].type
  <2>1. pc = "CALL" /\ command = "xxd"
    BY DEF Xxd, Calls
  <2>2. argc = 2
    BY <2>1, CountMeans DEF CallInv
  <2>3. QED
    BY <2>1, <2>2 DEF Tag
<1>2. WellCalled <=> Fits(types)
  BY <1>1, WellCalledMeans, FitsMeans
<1>3. "xxd" \in DOMAIN Documented /\ Documented["xxd"].fn = "ssusb_download"
  BY DEF Documented
<1>4. CASE ~Fits(types)
  <2>1. types \in TypeLists /\ Len(types) = 2
    BY DEF TypeLists
  <2>2. ArgsOk
    BY ArgsTyped DEF CallInv
  <2>3. Refuse(types)
    BY <1>4 DEF Xxd
  <2>4. pc' = "DONE" /\ status' # "NONE" /\ UNCHANGED <<rest, asked, printed>>
    BY <1>1, <1>4, <2>1, <2>2, <2>3, Refused
  <2>5. QED
    BY <1>1, <1>2, <1>4, <2>4, Reported
<1>5. CASE /\ UNCHANGED <<rest, asked, printed>>
           /\ pc' = "DONE" /\ status' \in {"INVALID_SIZE", "INSUFFICIENT_MEMORY"}
  BY <1>1, <1>5, Reported
<1>6. CASE /\ Fits(types) /\ UNCHANGED <<rest, printed>>
           /\ pc' \in {"DONE", "DUMP"}
           /\ asked' = [fn |-> "ssusb_download", address |-> args[1].value,
                       size |-> args[2].value]
  <2>1. args[1].value \in Values /\ args[2].value \in Values
    BY <1>1, ValuesOfArgs DEF CallInv
  <2>2. asked' \in Requests
    BY <1>6, <2>1 DEF Requests
  <2>3. /\ Documented["xxd"].params[1].role = "address"
        /\ Documented["xxd"].params[2].role = "size"
    BY DEF Documented, Param
  <2>4. \A k \in 1 .. argc : asked'[Documented[command].params[k].role] = args[k].value
    BY <1>1, <1>6, <2>3
  <2>5. QED
    BY <1>1, <1>2, <1>3, <1>6, <2>2, <2>4, Asked
<1>7. QED
  BY <1>4, <1>5, <1>6 DEF Xxd, Finish

\* A turn of echo's loop.
LEMMA EchoCall == CallInv /\ EchoArg => CallInv'
<1> SUFFICES ASSUME CallInv, EchoArg PROVE CallInv'
  OBVIOUS
<1> DEFINE n == Len(printed) + 1
           Objs == {args[k] : k \in 1 .. argc}
<1>1. /\ pc = "CALL" /\ command = "echo" /\ asked = NULL
      /\ UNCHANGED <<rest, asked>>
      /\ command \notin DOMAIN Documented
  BY DEF EchoArg, Calls, CallInv, Documented
<1>2. /\ ArgsOk /\ args \in Seq(Objs) /\ printed \in Seq(Objs)
      /\ n \in Nat \ {0}
  <2>1. ArgsOk
    BY ArgsTyped DEF CallInv
  <2>2. args \in Seq(Objs)
    <3>1. CASE args = <<>>
      BY <3>1
    <3>2. CASE args \in Arguments
      BY <3>2, ArgumentsAssumption DEF argc
    <3>3. QED
      BY <3>1, <3>2 DEF CallInv
  <2>3. printed \in Seq(Objs)
    BY <1>1 DEF CallInv
  <2>4. QED
    BY <2>1, <2>2, <2>3
<1>3. CASE Tag(n) = "none"
  <2>1. ~(n <= argc)
    BY <1>2, <1>3 DEF ArgsOk, Types
  <2>2. argc = 0
    BY <1>1, <1>2, <2>1 DEF CallInv, ArgsOk
  <2>3. pc' = "CRASHED"
    BY <1>3 DEF EchoArg
  <2>4. QED
    BY <1>1, <2>2, <2>3 DEF CallInv, CallsAsDocumented, ArgumentsReadExist, argc, rest
<1>4. CASE Tag(n) # "none"
  <2>1. n \in 1 .. argc
    BY <1>2, <1>4 DEF ArgsOk, Tag
  <2>2. printed' = Append(printed, args[n])
    BY <1>4 DEF EchoArg
  <2>3. /\ printed' \in Seq(Objs) /\ Len(printed') = n
        /\ \A k \in 1 .. n : printed'[k] = args[k]
    BY <1>1, <1>2, <2>1, <2>2 DEF CallInv
  <2>4. args' = args /\ argc' = argc /\ command' = command
    BY <1>1 DEF rest, argc
  <2>5. CASE n = argc
    <3>1. pc' = "DONE"
      BY <1>4, <2>3, <2>4, <2>5 DEF EchoArg, Finish
    <3>2. printed' = args
      <4>1. Len(args) = n
        BY <2>5 DEF argc
      <4> HIDE DEF Objs, n
      <4>2. QED
        BY <1>2, <2>3, <4>1, SeqEqual
    <3>3. QED
      BY <1>1, <2>4, <3>1, <3>2 DEF CallInv, CallsAsDocumented, ArgumentsReadExist
  <2>6. CASE n # argc
    <3>1. pc' = "CALL" /\ status' = status
      BY <1>1, <1>4, <2>3, <2>4, <2>6 DEF EchoArg
    <3>2. Len(printed') < argc
      BY <1>2, <2>1, <2>3, <2>6 DEF ArgsOk
    <3>3. QED
      BY <1>1, <2>3, <2>4, <3>1, <3>2 DEF CallInv, CallsAsDocumented, ArgumentsReadExist
  <2>7. QED
    BY <2>5, <2>6
<1>5. QED
  BY <1>3, <1>4

\* The commands that ask for nothing.
LEMMA OtherCall == CallInv /\ (Help \/ Env \/ Clear \/ Quit) => CallInv'
<1> SUFFICES ASSUME CallInv, Help \/ Env \/ Clear \/ Quit PROVE CallInv'
  OBVIOUS
<1>1. /\ pc = "CALL" /\ command \in {"help", "env", "clear", "quit"}
      /\ pc' = "DONE" /\ UNCHANGED <<command, args, asked, printed>>
  BY DEF Help, Env, Clear, Draws, Quit, Calls, Finish, rest
<1>2. command \notin DOMAIN Documented /\ command # "echo"
  BY <1>1 DEF Documented
<1>3. QED
  BY <1>1, <1>2 DEF CallInv, CallsAsDocumented, ArgumentsReadExist, argc

\* main() refuses a wrong number of arguments, which is none that is documented.
LEMMA DispatchCall ==
  ASSUME CallInv, NEW c \in DOMAIN arg_count, NEW a \in Arguments, Dispatch(c, a)
  PROVE  CallInv'
<1>1. /\ pc = "READY" /\ asked = NULL /\ status = "NONE" /\ printed = <<>>
      /\ command' = c /\ args' = a /\ UNCHANGED <<asked, printed>>
  BY DEF Dispatch, CallInv
<1>2. Len(a) \in Nat /\ argc' = Len(a)
  BY <1>1, ArgumentsAssumption DEF argc
<1>3. CASE arg_count[c] >= 0 /\ arg_count[c] # Len(a)
  <2>1. pc' = "DONE" /\ status' = "MISMATCH"
    BY <1>3 DEF Dispatch, Finish
  <2>2. c # "echo"
    BY <1>3, CountMeans
  <2>3. c \in DOMAIN Documented => Len(Documented[c].params) = arg_count[c]
    <3>1. /\ Len(Documented["upload"].params) = 2 /\ Len(Documented["exec"].params) = 2
          /\ Len(Documented["xxd"].params) = 2 /\ Len(Documented["download"].params) = 3
          /\ Len(Documented["dseld"].params) = 0
      BY DEF Documented
    <3>2. DOMAIN Documented = {"upload", "exec", "xxd", "download", "dseld"}
      BY DEF Documented
    <3>3. QED
      BY <3>1, <3>2, CountMeans
  <2>4. c \in DOMAIN Documented => ~WellCalled'
    BY <1>1, <1>2, <1>3, <2>3 DEF WellCalled
  <2>5. QED
    BY <1>1, <2>1, <2>2, <2>4 DEF CallInv, CallsAsDocumented, ArgumentsReadExist
<1>4. CASE ~(arg_count[c] >= 0 /\ arg_count[c] # Len(a))
  <2>1. pc' = "CALL" /\ status' = status
    BY <1>4 DEF Dispatch
  <2>2. QED
    BY <1>1, <1>2, <1>4, <2>1 DEF CallInv, CallsAsDocumented, ArgumentsReadExist
<1>5. QED
  BY <1>3, <1>4

\* The dump, the end of a line and of the program.
LEMMA RestCall ==
  CallInv /\ (XxdDump \/ XxdEnd \/ Start \/ NextLine \/ Exit \/ UNCHANGED vars) => CallInv'
<1> SUFFICES ASSUME CallInv, XxdDump \/ XxdEnd \/ Start \/ NextLine \/ Exit \/ UNCHANGED vars
             PROVE  CallInv'
  OBVIOUS
<1> USE DEF CallInv, CallsAsDocumented, ArgumentsReadExist, WellCalled, argc, rest, lineVars
<1>1. CASE XxdDump
  BY <1>1 DEF XxdDump
<1>2. CASE XxdEnd
  <2>1. "echo" \notin DOMAIN Documented
    BY DEF Documented
  <2>2. QED
    BY <1>2, <2>1 DEF XxdEnd, Finish
<1>3. CASE Start
  BY <1>3 DEF Start
<1>4. CASE NextLine
  BY <1>4 DEF NextLine
<1>5. CASE Exit
  BY <1>5 DEF Exit
<1>6. CASE UNCHANGED vars
  BY <1>6 DEF vars
<1>7. QED
  BY <1>1, <1>2, <1>3, <1>4, <1>5, <1>6

LEMMA StepCall == CallInv /\ [Next]_vars => CallInv'
<1> SUFFICES ASSUME CallInv, [Next]_vars PROVE CallInv'
  OBVIOUS
<1>1. CASE Handler
  BY <1>1, UploadExecCall, DownloadCall, DseldCall, XxdCall, EchoCall, OtherCall, RestCall
     DEF Handler
<1>2. CASE Start \/ NextLine \/ Exit \/ UNCHANGED vars
  BY <1>2, RestCall
<1>3. CASE \E c \in DOMAIN arg_count, a \in Arguments : Dispatch(c, a)
  BY <1>3, DispatchCall
<1>4. QED
  BY <1>1, <1>2, <1>3 DEF Next, Program

\* Whatever is typed, libssusb is asked what help documents and nothing else,
\* and a line that is not a documented call is refused with a report.
THEOREM AsksWhatIsDocumented == Spec => []CallsAsDocumented
<1>1. CallInv => CallsAsDocumented
  BY DEF CallInv
<1>2. QED
  BY <1>1, InitCall, StepCall, PTL DEF Spec

\* No command but echo without arguments reads an argument that is not there.
THEOREM ReadsWhatExists == Spec => []ArgumentsReadExist
<1>1. CallInv => ArgumentsReadExist
  BY DEF CallInv
<1>2. QED
  BY <1>1, InitCall, StepCall, PTL DEF Spec
----------------------------------------------------------------------------
(* The dump.                                                               *)

LEMMA StepDump == CallInv /\ DumpInv /\ [Next]_vars => DumpInv'
<1> SUFFICES ASSUME CallInv, DumpInv, [Next]_vars PROVE DumpInv'
  OBVIOUS
<1>1. ASSUME UNCHANGED dumpVars PROVE DumpInv'
  BY <1>1 DEF dumpVars, DumpInv, DumpType, Counted, InNumbers, InRow, RowsShow
<1>2. CASE XxdDump
  BY <1>2, NewRowInv, ByteInv DEF XxdDump
<1>3. CASE Xxd
  <2>1. pc = "CALL" /\ command = "xxd" /\ argc = 2
    BY <1>3, CountMeans DEF Xxd, Calls, CallInv
  <2>2. CASE Fits(<<"INTEGER", "INTEGER">>)
    <3>1. args[2].value \in Nat
      BY <2>1, <2>2, FitsMeans, ArgsTyped DEF CallInv, ArgsOk
    <3>2. UNCHANGED dumpVars \/ DumpBegin(args[2].value)
      BY <1>3, <2>2 DEF Xxd
    <3>3. QED
      BY <1>1, <3>1, <3>2, DumpBeginInv
  <2>3. CASE ~Fits(<<"INTEGER", "INTEGER">>)
    BY <1>1, <1>3, <2>3 DEF Xxd, Refuse
  <2>4. QED
    BY <2>2, <2>3
<1>4. CASE NextLine
  BY <1>4, DumpBeginInv DEF NextLine
<1>5. CASE Upload \/ Exec \/ Download \/ Dseld \/ XxdEnd \/ EchoArg \/ Help \/ Env \/ Clear \/ Quit
  BY <1>1, <1>5 DEF Upload, Exec, Download, Dseld, XxdEnd, EchoArg, Help, Env, Clear, Draws, Quit,
     FileHandler, Ask, Refuse
<1>6. CASE Start \/ Exit \/ UNCHANGED vars
  BY <1>1, <1>6 DEF Start, Exit, vars
<1>7. CASE \E c \in DOMAIN arg_count, a \in Arguments : Dispatch(c, a)
  BY <1>1, <1>7 DEF Dispatch
<1>8. QED
  BY <1>2, <1>3, <1>4, <1>5, <1>6, <1>7 DEF Next, Program, Handler

\* Every dump of xxd shows each byte once and in its place, whatever the width of
\* a row and however many bytes were asked for.
THEOREM DumpIsFaithful == Spec => []DumpShowsMemory
<1>1. Init => CallInv /\ DumpInv
  BY InitCall, NoDumpInv DEF Init
<1>2. CallInv /\ DumpInv /\ [Next]_vars => CallInv' /\ DumpInv'
  BY StepCall, StepDump
<1>3. QED
  BY <1>1, <1>2, InvShows, PTL DEF Spec

----------------------------------------------------------------------------
(* A command ends.                                                         *)

Busy == pc \in {"CALL", "DUMP"}

\* What is left to echo, and what is left to dump.
Left == IF pc = "CALL" THEN argc - Len(printed) ELSE size - i

\* A command that goes on has come to its dump, or has less left of its loop.
Nearer == \/ pc = "CALL" /\ pc' = "DUMP"
          \/ pc' = pc /\ Left' \in 0 .. Left - 1

LEMMA EchoIsNearer == CallInv /\ EchoArg /\ pc' = "CALL" => Nearer
<1> SUFFICES ASSUME CallInv, EchoArg, pc' = "CALL" PROVE Nearer
  OBVIOUS
<1> DEFINE n == Len(printed) + 1
<1>1. /\ pc = "CALL" /\ command = "echo" /\ args' = args /\ argc' = argc
      /\ printed' = Append(printed, args[n])
  BY DEF EchoArg, Calls, rest, argc
<1>2. /\ printed \in Seq({args[k] : k \in 1 .. argc}) /\ argc \in Nat
      /\ ArgsOk
  BY <1>1, ArgsTyped DEF CallInv, ArgsOk
<1>3. CallInv'
  BY EchoCall
<1>4. Len(printed) \in Nat
  BY <1>2
<1>5. Len(printed') = Len(printed) + 1
  BY <1>1, <1>2
<1>6. Len(printed') < argc
  BY <1>1, <1>3, <1>4, <1>5 DEF CallInv
<1>7. Left' = argc - Len(printed') /\ Left = argc - Len(printed)
  BY <1>1 DEF Left
<1>8. QED
  BY <1>1, <1>2, <1>4, <1>5, <1>6, <1>7 DEF Nearer

LEMMA DumpIsNearer == DumpInv /\ XxdDump => Nearer
<1> SUFFICES ASSUME DumpInv, XxdDump PROVE Nearer
  OBVIOUS
<1>1. pc = "DUMP" /\ pc' = "DUMP" /\ i < size /\ i' = i + 1 /\ size' = size
  BY DEF XxdDump, DumpNewRow, DumpByte
<1>2. i \in Nat /\ size \in Nat
  BY DEF DumpInv, DumpType
<1>3. QED
  BY <1>1, <1>2 DEF Nearer, Left

\* Every command ends: a turn of echo's loop leaves fewer arguments to print and
\* a turn of xxd's loop fewer bytes to dump, and nothing else goes on.
THEOREM CommandEnds == Spec => [][Busy /\ Busy' => Nearer]_vars
<1>1. CallInv /\ DumpInv /\ [Next]_vars => [Busy /\ Busy' => Nearer]_vars
  <2> SUFFICES ASSUME CallInv, DumpInv, Next, Busy, Busy' PROVE Nearer
    OBVIOUS
  <2>1. CASE EchoArg
    <3>1. pc' = "CALL"
      BY <2>1 DEF EchoArg, Finish, Calls, Busy
    <3>2. QED
      BY <2>1, <3>1, EchoIsNearer
  <2>2. CASE Xxd
    BY <2>2 DEF Xxd, Refuse, Finish, Calls, Busy, Nearer
  <2>3. CASE Upload \/ Exec \/ Download \/ Dseld
    BY <2>3 DEF Upload, Exec, Download, Dseld, FileHandler, Refuse, Ask, Finish, Calls, Busy
  <2>4. CASE Help \/ Env \/ Clear \/ Quit \/ XxdEnd
    BY <2>4 DEF Help, Env, Clear, Draws, Quit, XxdEnd, Finish, Calls, Busy
  <2>5. ~Start /\ ~NextLine /\ ~Exit
    BY DEF Start, NextLine, Exit, Busy
  <2>6. \A c \in DOMAIN arg_count, a \in Arguments : ~Dispatch(c, a)
    BY DEF Dispatch, Busy
  <2>7. QED
    BY <2>1, <2>2, <2>3, <2>4, <2>5, <2>6, DumpIsNearer DEF Next, Program, Handler
<1>2. Init => CallInv /\ DumpInv
  BY InitCall, NoDumpInv DEF Init
<1>3. CallInv /\ DumpInv /\ [Next]_vars => CallInv' /\ DumpInv'
  BY StepCall, StepDump
<1>4. QED
  BY <1>1, <1>2, <1>3, PTL DEF Spec
=============================================================================
