-------------------------------- MODULE Csv --------------------------------
(***************************************************************************)
(* tocsv and fromcsv (src/internal/encoding.go) and the reader they use    *)
(* for tables and iterator functions.                                      *)
(*                                                                         *)
(* A string is a natural number and 0 is the empty one; the order of the   *)
(* numbers is the order of the strings.  A row is a Lua table: a function  *)
(* from its keys to strings, where a key up to Columns is an index and a   *)
(* greater one a name.  A line of CSV is the sequence of its fields.       *)
(***************************************************************************)
EXTENDS Naturals, Sequences, SequencesExt, FiniteSets

CONSTANT Columns    \* bound: the indexes of a row are at most this

ASSUME ColumnsAssumption == Columns \in Nat

Empty == 0
Less(a, b) == a < b

Indexes(row) == {k \in DOMAIN row : k <= Columns}

\* ipairs: the values of a table from index 1 on.
ArrayPart(row) ==
  LET n == CHOOSE i \in 0..Columns : 1..i \subseteq DOMAIN row /\ i + 1 \notin Indexes(row)
  IN [i \in 1..n |-> row[i]]

\* Mutant: the place is looked at before the name.
CellByPlace(row, header, i) ==
  IF i \in Indexes(row) THEN row[i]
  ELSE IF header[i] > Columns /\ header[i] \in DOMAIN row THEN row[header[i]] ELSE Empty

\* A cell of a column: by the name, or else by the column's place.
Cell(row, header, i) ==
  IF header[i] > Columns /\ header[i] \in DOMAIN row THEN row[header[i]]
  ELSE IF i \in Indexes(row) THEN row[i] ELSE Empty

Cells(row, header) == [i \in DOMAIN header |-> Cell(row, header, i)]

\* The first row that has a key gives the header: its keys are sorted, and
\* so are, on their own, the values that become the next line.
AutoHeader(row) == SetToSortSeq(DOMAIN row, Less)

Keep(row) ==
  SortSeq([i \in 1..Cardinality(DOMAIN row) |-> row[AutoHeader(row)[i]]], Less)

\* The lines of tocsv: `given' is a header (with which the first line is
\* itself), <<>> when there is none, and `noheader' is header=false.
ToCSV(rows, given, noheader) ==
  IF noheader THEN [i \in DOMAIN rows |-> ArrayPart(rows[i])]
  ELSE IF given # <<>> THEN <<given>> \o [i \in DOMAIN rows |-> Cells(rows[i], given)]
  ELSE LET first == SelectInSeq(rows, LAMBDA row : DOMAIN row # {})
           header == AutoHeader(rows[first])
           before == IF first = 0 THEN Len(rows) ELSE first - 1
       IN [i \in 1..before |-> <<>>] \o
          (IF first = 0 THEN <<>>
           ELSE <<header, Keep(rows[first])>> \o
                [i \in 1..Len(rows) - first |-> Cells(rows[first + i], header)])

----------------------------------------------------------------------------
(* A name of a column is the sequence of the string and the suffixes "_%d".*)

\* Mutant: the candidate is not looked up.
RenameOnce(x, used) == IF Contains(used, x) THEN Append(x, 1) ELSE x

\* rename, in uniqueHeader.
Rename(x, used) ==
  IF ~Contains(used, x) THEN x
  ELSE Append(x, CHOOSE i \in 1..Len(used) :
                   /\ ~Contains(used, Append(x, i))
                   /\ \A k \in 1..i - 1 : Contains(used, Append(x, k)))

UniqueHeader(xs) == FoldLeft(LAMBDA rs, x : Append(rs, Rename(x, rs)), <<>>, xs)

\* The elements of a sequence but those of a set.
Outside(s, S) == FoldLeft(LAMBDA t, e : IF e \in S THEN t ELSE Append(t, e), <<>>, s)

\* What the reader of encoding/csv makes of the lines: a line that is blank
\* is skipped, and one with another number of fields than the first fails.
Blank == {<<>>, <<Empty>>}
CsvLines(lines) == Outside(lines, Blank)
Ragged(lines) == \E i \in DOMAIN CsvLines(lines) :
                   Len(CsvLines(lines)[i]) # Len(CsvLines(lines)[1])

Name(x) == <<x>>

\* fromcsv, with a header: the columns and the rows.
FromCSV(lines) ==
  LET read == CsvLines(lines)
      header == UniqueHeader([i \in DOMAIN read[1] |-> Name(read[1][i])])
  IN [header |-> header,
      rows |-> [r \in 1..Len(read) - 1 |->
                 [c \in ToSet(header) |->
                   read[r + 1][CHOOSE i \in DOMAIN header : header[i] = c]]]]

----------------------------------------------------------------------------
(* iterReader: the lines that an iterator yields, as a stream of bytes.    *)

NewLine == 0

ReaderOf(lines) == [buf |-> <<>>, rest |-> lines, done |-> FALSE, out |-> <<>>, eof |-> FALSE]

\* The iterator is asked for lines until the buffer fills p, or it ends.
Fill(r, n) ==
  LET upto(k) == r.buf \o FlattenSeq([i \in 1..k |-> Append(r.rest[i], NewLine)])
      k == CHOOSE i \in 0..Len(r.rest) :
             /\ i = Len(r.rest) \/ Len(upto(i)) >= n
             /\ \A j \in 0..i - 1 : Len(upto(j)) < n
  IN [buf |-> upto(k), rest |-> SubSeq(r.rest, k + 1, Len(r.rest))]

\* Mutant: what does not fill p at the end is dropped.
ReadFull(r, n) ==
  LET f == Fill(r, n) IN
  IF r.done \/ Len(f.buf) < n THEN [r EXCEPT !.done = TRUE, !.eof = TRUE]
  ELSE [r EXCEPT !.buf = SubSeq(f.buf, n + 1, Len(f.buf)), !.rest = f.rest,
                 !.out = @ \o SubSeq(f.buf, 1, n)]

\* Read with len(p) = n.
ReadBytes(r, n) ==
  IF r.done THEN [r EXCEPT !.eof = TRUE]
  ELSE LET f == Fill(r, n) IN
       IF Len(f.buf) >= n
         THEN [r EXCEPT !.buf = SubSeq(f.buf, n + 1, Len(f.buf)), !.rest = f.rest,
                        !.out = @ \o SubSeq(f.buf, 1, n)]
         ELSE [r EXCEPT !.buf = <<>>, !.rest = <<>>, !.done = TRUE, !.out = @ \o f.buf,
                        !.eof = r.out \o f.buf = <<>>]
============================================================================
