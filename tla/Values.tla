------------------------------- MODULE Values -------------------------------
(***************************************************************************)
(* The conversion between the values of Lua and of Go                      *)
(* (src/internal/convert.go), on which tojson, fromjson, assert.eq, the    *)
(* events and the extra values of a record depend, and the encoding of     *)
(* tables as XML (src/internal/encoding.go).                               *)
(*                                                                         *)
(* A value is a pair of its kind and its content.  The content of a table  *)
(* is a function from keys to values.  Strings are numbers here: Str(1) is *)
(* the string "1", other strings have no numeral, and a boolean has the    *)
(* number of its name.                                                     *)
(*                                                                         *)
(* What the code does with a tree it does recursively, and so do these     *)
(* functions, whose domain is all trees that there are.                    *)
(***************************************************************************)
EXTENDS Naturals, Sequences, SequencesExt, FiniteSets

CONSTANTS LuaValues,   \* the values of Lua
          Nodes,       \* the nodes of XML
          Depth        \* how deep each of them is

Num(n) == <<"number", n>>
Str(s) == <<"string", s>>
Bool(b) == <<"boolean", b>>
Table(f) == <<"table", f>>
Slice(s) == <<"slice", s>>
Map(f) == <<"map", f>>

Kind(v) == v[1]
Content(v) == v[2]
Keys(t) == DOMAIN Content(t)

\* Mutant: strings that are numerals count as indexes.
IsNumericArray(t) == {Content(k) : k \in Keys(t)} = 1..Cardinality(Keys(t))

\* asArray: the keys are the numbers 1, 2, ... and no other.
IsArray(t) == Keys(t) = {Num(i) : i \in 1..Cardinality(Keys(t))}

\* k.String(): the number 1 and the string "1" give the same name.
KeyString(k) == Str(Content(k))

Named(t, i) == Content(t)[CHOOSE k \in Keys(t) : Content(k) = i]

UnpackLValue[v \in LuaValues] ==
  IF Kind(v) # "table" THEN v
  ELSE IF IsArray(v)
    THEN Slice([i \in 1..Cardinality(Keys(v)) |-> UnpackLValue[Named(v, i)]])
    ELSE Map([s \in {KeyString(k) : k \in Keys(v)} |-> UnpackLValue[Named(v, Content(s))]])

GoValues == {UnpackLValue[v] : v \in LuaValues}

PackLValue[x \in GoValues] ==
  CASE Kind(x) = "slice" ->
         Table([k \in {Num(i) : i \in DOMAIN Content(x)} |-> PackLValue[Content(x)[Content(k)]]])
    [] Kind(x) = "map" -> Table([k \in Keys(x) |-> PackLValue[Content(x)[k]]])
    [] OTHER -> x

\* assert.eq and assert.ne compare what the values become in Go.
AssertEq(a, b) == UnpackLValue[a] = UnpackLValue[b]

\* A key is a number, a string or a boolean, a value these or a table of values.  No table
\* has itself in it: the code would not end.
IsAtom(v) == Kind(v) \in {"number", "string", "boolean"} /\ v = <<Kind(v), Content(v)>>

IsTable(v) ==
  /\ v = Table(Content(v))
  /\ Content(v) = [k \in Keys(v) |-> Content(v)[k]]
  /\ IsFiniteSet(Keys(v)) /\ \A k \in Keys(v) : IsAtom(k)
  /\ \A k \in Keys(v) : Content(v)[k] \in LuaValues /\ Depth[Content(v)[k]] < Depth[v]

----------------------------------------------------------------------------
(* toxml and fromxml.  An element is a node of its name, its attributes    *)
(* and its children, a text a sequence of characters, in which 0 is blank. *)

Elem(name, attrs, children) == <<"element", name, attrs, children>>
Text(s) == <<"text", s>>
Start(name, attrs) == <<"start", name, attrs>>
End == <<"end">>

IsText(x) == x[1] = "text"

\* encodeXML: the tokens of a node.
EncodeXML[x \in Nodes] ==
  IF IsText(x) THEN <<x>>
  ELSE <<Start(x[2], x[3])>>
       \o FlattenSeq([i \in DOMAIN x[4] |-> EncodeXML[x[4][i]]])
       \o <<End>>

\* In a document texts that meet are one, and an empty one is not there.
AddToken(doc, t) ==
  IF t = Text(<<>>) THEN doc
  ELSE IF doc # <<>> /\ IsText(t) /\ IsText(Last(doc))
    THEN Append(Front(doc), Text(Last(doc)[2] \o t[2]))
    ELSE Append(doc, t)

Document(tokens) == FoldLeft(AddToken, <<>>, tokens)

\* strings.TrimSpace.
Trim(s) == LET ink == {i \in DOMAIN s : s[i] # 0} IN
           IF ink = {} THEN <<>>
           ELSE SubSeq(s, CHOOSE i \in ink : \A j \in ink : i <= j,
                          CHOOSE i \in ink : \A j \in ink : j <= i)

\* Appends x to the children of the element that is open.
AddChild(open, x) ==
  [open EXCEPT ![Len(open)] = Elem(@[2], @[3], Append(@[4], x))]

TakeText(open, s) == IF Trim(s) = <<>> THEN open ELSE AddChild(open, Text(Trim(s)))

\* decodeXML: the calls that are open are a stack, below which the result
\* is the only child.
TakeToken(open, t) ==
  CASE t[1] = "start" -> Append(open, Elem(t[2], t[3], <<>>))
    [] t[1] = "end" -> AddChild(Front(open), Last(open))
    [] OTHER -> TakeText(open, t[2])

DecodeXML(doc) == FoldLeft(TakeToken, <<Elem(0, 0, <<>>)>>, doc)[1][4][1]

IsElement(x) ==
  /\ x = Elem(x[2], x[3], x[4])
  /\ x[4] \in Seq(Nodes) /\ \A i \in DOMAIN x[4] : Depth[x[4][i]] < Depth[x]

----------------------------------------------------------------------------
ASSUME TreesAssumption ==
  /\ \A x \in LuaValues \cup Nodes : Depth[x] \in Nat
  /\ \A v \in LuaValues : IsAtom(v) \/ IsTable(v)
  /\ \A x \in Nodes : (x = Text(x[2]) /\ x[2] \in Seq(Nat)) \/ IsElement(x)
============================================================================
