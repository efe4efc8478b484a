------------------------------- MODULE MCData -------------------------------
(***************************************************************************)
(* The data that the program converts, over small inputs.                  *)
(***************************************************************************)
EXTENDS TLC, Conversions

SeqsUpTo(S, n) == UNION {[1..k -> S] : k \in 0..n}
Partial(K, V) == UNION {[D -> V] : D \in SUBSET K}

\* CSV: two indexes, two names, and two strings besides the empty one.
Rows == SeqsUpTo(Partial({3, 4}, 0..2), 2) \cup SeqsUpTo(UNION {[1..k -> 1..2] : k \in 0..2}, 2)
        \cup SeqsUpTo({[k \in {1, 3} |-> k], [k \in {1, 2, 4} |-> 0], [k \in {2, 3} |-> 1]}, 2)
Arrays == SeqsUpTo(UNION {[1..k -> 0..2] : k \in 0..2}, 2)
Headers == {<<3>>, <<3, 4>>, <<4, 3>>}
CsvInputs == {<<rows, given, FALSE>> : rows \in Rows, given \in Headers \cup {<<>>}}
             \cup {<<rows, <<>>, TRUE>> : rows \in Arrays}

HeaderInputs == SeqsUpTo({<<1>>, <<2>>, <<1, 1>>, <<1, 2>>}, 4)

ReaderInputs == {<<lines, sizes>> : lines \in SeqsUpTo({<<>>, <<1>>, <<1, 2>>}, 3),
                                    sizes \in [1..5 -> {1, 2, 4, 20}]}

\* Values: tables of atoms, and tables of these.
Atoms == {Num(1), Str(1), Str(3), Bool(4)}
Flat == {Table(f) : f \in Partial({Num(1), Num(2), Str(1), Str(3)}, {Num(1), Str(3)})}
        \cup {Table(f) : f \in Partial({Bool(4), Str(4)}, {Bool(4)})}
Deep == {Table(f) : f \in Partial({Num(1), Str(3)},
           {Table(g) : g \in Partial({Num(1), Num(2), Str(3)}, {Num(1)})} \cup {Str(3)})}
ValueInputs == (Atoms \cup Flat) \X (Atoms \cup Flat) \cup {<<v, v>> : v \in Deep}
MCLuaValues == Atoms \cup Flat \cup Deep

Texts == {Text(s) : s \in {<<>>, <<0>>, <<1>>, <<0, 1>>, <<1, 0, 2>>}}
Leaves == {Elem(2, attrs, cs) : attrs \in {<<>>, <<3>>}, cs \in SeqsUpTo(Texts, 1)}
XmlInputs == {Elem(1, <<>>, cs) : cs \in SeqsUpTo(Texts \cup Leaves, 2) \cup SeqsUpTo(Texts, 3)}
MCNodes == Texts \cup Leaves \cup XmlInputs

MCDepth == [x \in MCLuaValues \cup MCNodes |->
              IF x \in Atoms \cup Texts THEN 0
              ELSE IF x \in Flat \cup Leaves THEN 1 ELSE 2]

FileFormats == {<<"l">>, <<"L">>, <<"a">>} \cup {Count(n) : n \in {1, 2, 4}}
FileInputs == {<<s, fs>> : s \in SeqsUpTo({EOL, 1}, 5), fs \in SeqsUpTo(FileFormats, 2)}

Images == [1..4 -> [1..2 -> 1..2]] \cup [1..3 -> [1..1 -> 1..3]] \cup [1..1 -> [1..2 -> 1..2]]

Windows == {<<length, line, height>> : length \in 1..12, line \in 0..12,
                                       height \in {0, 19, 20, 39, 40, 59, 60, 100, 200}}

Chunks == SeqsUpTo(SeqsUpTo({EndOfLine, 1, 2}, 2) \ {<<>>}, 3)

MCInputs == [csv |-> CsvInputs, header |-> HeaderInputs, reader |-> ReaderInputs,
             file |-> FileInputs, gif |-> Images, window |-> Windows, source |-> Chunks,
             value |-> ValueInputs, xml |-> XmlInputs]
============================================================================
