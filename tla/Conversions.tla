---------------------------- MODULE Conversions -----------------------------
(***************************************************************************)
(* The conversions of data that the program does, in Csv, FileLike, Frames *)
(* and Values.  Each behaviour chooses one conversion and one input, and   *)
(* converts it.                                                            *)
(***************************************************************************)
EXTENDS Csv, FileLike, Frames, Values

CONSTANT Inputs    \* what is converted: a set for each kind of conversion

VARIABLES kind,     \* the conversion
          input,
          output    \* the result in a sequence, which is empty before

\* A table, and a header that is given (not with header=false): no longer than
\* the indexes reach, of names that differ.
IsRow(row) == DOMAIN row \subseteq Nat /\ row = [k \in DOMAIN row |-> row[k]]

IsHeader(names) ==
  /\ names \in Seq(Nat \ 0..Columns) /\ Len(names) <= Columns
  /\ \A i, j \in DOMAIN names : names[i] = names[j] => i = j

IsTables(rows) == rows \in Seq(ToSet(rows)) /\ \A i \in DOMAIN rows : IsRow(rows[i])

\* What is a recording: images of the same pixels, in which none of them is
\* transparent.
IsRecording(images) ==
  /\ images \in Seq(ToSet(images)) /\ images # <<>>
  /\ \A i \in DOMAIN images : images[i] \in [DOMAIN images[1] -> Nat \ {Transparent}]

InputsTyped ==
  /\ DOMAIN Inputs = {"csv", "header", "reader", "file", "gif", "window", "source", "value", "xml"}
  /\ \A x \in Inputs["csv"] : IsTables(x[1]) /\ IsHeader(x[2]) /\ (x[3] => x[2] = <<>>)
  /\ Inputs["header"] \subseteq Seq(Seq(Nat))
  /\ \A x \in Inputs["reader"] : x[1] \in Seq(Seq(Nat)) /\ x[2] \in Seq(Nat)
  /\ \A x \in Inputs["file"] :
       x[1] \in Seq(Nat \ {NUL}) /\ x[2] \in Seq({<<"l">>, <<"L">>, <<"a">>} \cup {"count"} \X Nat)
  /\ \A x \in Inputs["gif"] : IsRecording(x)
  /\ Inputs["window"] \subseteq Nat \X Nat \X Nat
  /\ Inputs["source"] \subseteq Seq(Seq(Nat))
  /\ Inputs["value"] \subseteq LuaValues \X LuaValues
  /\ Inputs["xml"] \subseteq {x \in Nodes : ~IsText(x)}

ASSUME InputsAssumption == InputsTyped

Init == /\ kind \in DOMAIN Inputs
        /\ input \in Inputs[kind]
        /\ output = <<>>

Result ==
  CASE kind = "csv" -> ToCSV(input[1], input[2], input[3])
    [] kind = "header" -> UniqueHeader(input)
    [] kind = "reader" -> FoldLeft(ReadBytes, ReaderOf(input[1]), input[2])
    [] kind = "file" -> Read(Reader(input[1]), input[2])
    [] kind = "gif" -> CompressGif(input)
    [] kind = "window" -> Window(input[1], input[2], input[3])
    [] kind = "source" -> ReadSource(input)
    [] kind = "value" -> AssertEq(input[1], input[2])
    [] kind = "xml" -> Document(EncodeXML[input])

Convert == /\ kind \in DOMAIN Inputs
           /\ output = <<>>
           /\ output' = <<Result>>
           /\ UNCHANGED <<kind, input>>

Spec == Init /\ [][Convert]_<<kind, input, output>>

Converted(k) == kind = k /\ output # <<>>

----------------------------------------------------------------------------
\* fromcsv reads back what tocsv wrote with a given header: each row has
\* the header's names and what the table had for each name or else place,
\* except that a row whose only field is empty is a blank line.
CsvRoundTrips ==
  Converted("csv") /\ input[2] # <<>> =>
    LET rows == input[1]
        names == input[2]
        Field(row, i) == IF names[i] \in DOMAIN row THEN row[names[i]]
                         ELSE IF i \in DOMAIN row THEN row[i] ELSE Empty
        kept == Outside(rows, {row \in ToSet(rows) : Len(names) = 1 /\ Field(row, 1) = Empty})
        read == FromCSV(output[1])
    IN /\ ~Ragged(output[1])
       /\ read.header = [i \in DOMAIN names |-> Name(names[i])]
       /\ Len(read.rows) = Len(kept)
       /\ \A r \in DOMAIN kept, i \in DOMAIN names :
            read.rows[r][Name(names[i])] = Field(kept[r], i)

\* The columns of fromcsv have different names, whatever the header says, and
\* each is the name in the header or that name with a suffix.
HeadersDiffer ==
  Converted("header") =>
    /\ \A i, j \in DOMAIN input : output[1][i] = output[1][j] => i = j
    /\ \A i \in DOMAIN input : IsPrefix(input[i], output[1][i])

\* The iterator of lines() yields the lines of a body none of which fills the
\* buffer of the reader, and read(n, ...) gives the body in order, with NUL
\* bytes where the buffer had no more.
ReadsAreInOrder ==
  Converted("file") =>
    LET s == input[1]
        lines == Lines(s)
        text == FlattenSeq([i \in DOMAIN lines |-> Append(lines[i], EOL)])
        counts == \A i \in DOMAIN input[2] : input[2][i][1] = "count"
        short == \A i \in 1..Len(s) - BufferSize + 1 : \E j \in i..i + BufferSize - 1 : s[j] = EOL
        ended == s = <<>> \/ Last(s) = EOL
    IN /\ short => /\ \A i \in DOMAIN lines : ~Contains(lines[i], EOL)
                  /\ text = IF ended THEN s ELSE Append(s, EOL)
       /\ counts => IsPrefix(Outside(FlattenSeq(output[1].values), {NUL}), s)

\* However the reader of an iterator is read, it gives the lines in order
\* and nothing else, and all of them before it says that it is at its end.
ReaderGivesLines ==
  Converted("reader") =>
    LET all == FlattenSeq([i \in DOMAIN input[1] |-> Append(input[1][i], NewLine)])
    IN IsPrefix(output[1].out, all) /\ (output[1].eof => output[1].out = all)

\* Both kinds of readers keep the order and the content of what they read.
ReadersKeepLines == ReaderGivesLines /\ ReadsAreInOrder

\* A viewer of a compressed recording sees the images that were recorded, and
\* to compress it again (when a tab is saved twice) changes nothing.
GifShowsImages ==
  Converted("gif") => Show(output[1]) = input /\ CompressGif(output[1]) = output[1]

\* In an image of at least 60 pixels the marked line is drawn, in full; no
\* part of a source with that line is out of reach in one of at least 40.
LineIsVisible ==
  Converted("window") =>
    LET length == input[1]
        line == input[2]
        height == input[3]
    IN line <= length =>
         /\ height >= 60 /\ line > 0 => line \in output[1] /\ BottomOf(line, line, height) <= height
         /\ height >= 40 => ~WindowPanics(length, line, height)

\* The recorded source has the lines of the script in order, whatever the
\* chunks in which it came; a script that comes in one chunk keeps its line
\* numbers, by which a recording marks the current line.
SourceIsRecorded ==
  Converted("source") =>
    LET script == Split(FlattenSeq(input))
    IN /\ Outside(output[1], {<<>>}) = Outside(script, {<<>>})
       /\ Len(input) = 1 => IsPrefix(script, Append(output[1], <<>>))

\* A value is the same after tojson and fromjson, or an event and back,
\* exactly if each of its tables is a list or has only strings as keys.
\* assert.eq tells apart any two such values that are not the same.
Faithful[v \in LuaValues] ==
  Kind(v) = "table" => /\ IsArray(v) \/ \A k \in Keys(v) : Kind(k) = "string"
                       /\ \A k \in Keys(v) : Faithful[Content(v)[k]]

ValuesRoundTrip ==
  Converted("value") =>
    /\ \A i \in 1..2 : PackLValue[UnpackLValue[input[i]]] = input[i] <=> Faithful[input[i]]
    /\ Faithful[input[1]] /\ Faithful[input[2]] => (output[1] <=> input[1] = input[2])

\* fromxml reads back what toxml wrote, but for texts that are blank, that
\* begin or end with blanks, or that meet.
Tidy[x \in Nodes] ==
  IF IsText(x) THEN Text(Trim(x[2]))
  ELSE Elem(x[2], x[3], Outside([i \in DOMAIN x[4] |-> Tidy[x[4][i]]], {Text(<<>>)}))

TextsMeet(tokens) == \E i \in 1..Len(tokens) - 1 : IsText(tokens[i]) /\ IsText(tokens[i + 1])

XmlRoundTrips ==
  Converted("xml") /\ ~TextsMeet(EncodeXML[input]) => DecodeXML(output[1]) = Tidy[input]

\* Tables survive the conversions to Go and to XML and back.
TablesRoundTrip == ValuesRoundTrip /\ XmlRoundTrips

\* The first line after the header that tocsv makes has the values of the
\* first row under their names.
FirstRowIsInOrder ==
  Converted("csv") /\ input[2] = <<>> /\ ~input[3] =>
    \A i \in DOMAIN output[1] :
      output[1][i] # <<>> /\ (\A k \in 1..i - 1 : output[1][k] = <<>>) =>
        output[1][i + 1] = Cells(input[1][i], output[1][i])

\* file:read(n) gives no more characters than the body has.
ReadsAreShort ==
  Converted("file") /\ (\A i \in DOMAIN input[2] : input[2][i][1] = "count") =>
    Len(FlattenSeq(output[1].values)) <= Len(input[1])
============================================================================
