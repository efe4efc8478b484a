------------------------------ MODULE FileLike ------------------------------
(***************************************************************************)
(* The methods of a file-like object (src/internal/filelike.go): read and  *)
(* lines, on a buffered reader of the body of a response.  A stream is the *)
(* sequence of its characters, in which 0 is a new line and 9 a NUL byte.  *)
(* The format "n", which scans a number, is not modelled.                  *)
(***************************************************************************)
EXTENDS Naturals, Sequences, SequencesExt

CONSTANT BufferSize    \* of a bufio.Reader (4096 bytes)

ASSUME BufferAssumption == BufferSize \in Nat \ {0}

EOL == 0
NUL == 9

Least(a, b) == IF a < b THEN a ELSE b

\* A reader: what it has not given yet, of which the first part is in its
\* buffer.  The source is a body in memory, so a buffer is filled at once.
Reader(s) == [rest |-> s, buffered |-> 0]
Filled(r) == Least(BufferSize, Len(r.rest))

Skip(r, n, inBuffer) == [rest |-> SubSeq(r.rest, n + 1, Len(r.rest)),
                         buffered |-> IF n < inBuffer THEN inBuffer - n ELSE 0]

\* The place of the first new line, or the place after the end.
LineEnd(s) == IF Contains(s, EOL) THEN SelectInSeq(s, LAMBDA c : c = EOL)
              ELSE Len(s) + 1

\* bufio's ReadLine: up to a new line, which is dropped, or a full buffer.
\* The code ignores isPrefix, which tells these two apart.
ReadLine(r) ==
  LET n == LineEnd(r.rest)
      filled == IF n <= r.buffered THEN r.buffered ELSE Filled(r)
  IN IF n > filled /\ filled = BufferSize
       THEN [value |-> SubSeq(r.rest, 1, filled), reader |-> Skip(r, filled, filled)]
       ELSE [value |-> SubSeq(r.rest, 1, n - 1), reader |-> Skip(r, n, filled)]

\* file:read(n) makes n bytes and reads into them once, what the buffer has.
ReadCount(r, n) ==
  LET filled == CASE r.buffered > 0 -> r.buffered
                  [] r.buffered = 0 /\ n < BufferSize -> Filled(r)
                  [] OTHER -> Len(r.rest)
      got == Least(n, filled)
  IN [value |-> SubSeq(r.rest, 1, got) \o [i \in 1..n - got |-> NUL],
      reader |-> IF n < BufferSize \/ r.buffered > 0 THEN Skip(r, got, filled)
                 ELSE Skip(r, got, 0)]

\* One format of file:read.
ReadFormat(r, format) ==
  CASE format = <<"a">> -> [value |-> r.rest, reader |-> Reader(<<>>)]
    [] format = <<"l">> -> ReadLine(r)
    [] format = <<"L">> -> [ReadLine(r) EXCEPT !.value = Append(@, EOL)]
    [] OTHER -> ReadCount(r, format[2])

Count(n) == <<"count", n>>

\* file:read(format, ...) ends with the first format that finds no more;
\* "a" always finds something.
Read(reader, formats) ==
  FoldLeft(LAMBDA all, format :
             IF all.ended \/ (all.reader.rest = <<>> /\ format # <<"a">>)
               THEN [all EXCEPT !.ended = TRUE]
               ELSE LET one == ReadFormat(all.reader, format) IN
                    [all EXCEPT !.values = Append(@, one.value), !.reader = one.reader],
           [values |-> <<>>, reader |-> reader, ended |-> FALSE], formats)

\* All that the iterator of file:lines() yields.
Lines(s) == Read(Reader(s), [i \in 1..Len(s) |-> <<"l">>]).values
============================================================================
