-------------------------- MODULE ConversionProofs --------------------------
(***************************************************************************)
(* Proofs about the conversions of data: what tocsv and fromcsv, the two   *)
(* kinds of readers, the compression of a recording, the window of source  *)
(* lines, the recorded source and the conversions of trees do, for every   *)
(* input.                                                                  *)
(*                                                                         *)
(* The results are folds.  FoldLeft is defined by recursion on the sets of *)
(* indexes, so that what a fold does is proved in two steps: there is a    *)
(* function that satisfies the recursion (FoldExists), and hence there are *)
(* the steps of each fold (the lemmas ...Steps), on which a property goes  *)
(* by induction on the number of steps (InductionTo, SequenceInduction).   *)
(*                                                                         *)
(* The functions on trees are recursive in the same way: that one which    *)
(* satisfies the recursion exists is shown for trees of each depth         *)
(* (UnpackRecursion, EncodeRecursion, ...), and what it does by induction  *)
(* on the depth.                                                           *)
(***************************************************************************)
EXTENDS Conversions, SequenceTheorems, FiniteSetTheorems, TLAPS

vars == <<kind, input, output>>

\* The input is one of its kind, and the output is nothing or its conversion.
Invariant == /\ kind \in DOMAIN Inputs
             /\ input \in Inputs[kind]
             /\ output = <<>> \/ output = <<Result>>

\* The input stays what it was, and the output is its conversion or nothing.
THEOREM Invariance == Spec => []Invariant
<1>1. Init => Invariant
  BY DEF Init, Invariant
<1>2. Invariant /\ [Convert]_vars => Invariant'
  <2> SUFFICES ASSUME Invariant, [Convert]_vars PROVE Invariant'
    OBVIOUS
  <2>1. CASE Convert
    <3>1. Result' = Result
      BY <2>1 DEF Convert, Result
    <3> QED BY <2>1, <3>1 DEF Convert, Invariant
  <2>2. CASE UNCHANGED vars
    <3>1. Result' = Result
      BY <2>2 DEF vars, Result
    <3> QED BY <2>2, <3>1 DEF vars, Invariant
  <2> QED BY <2>1, <2>2
<1> QED BY <1>1, <1>2, PTL DEF Spec, vars

\* What has been converted is an input, and the output is its conversion.
LEMMA ConvertedResult ==
  ASSUME Invariant, NEW k, Converted(k)
  PROVE  /\ k = kind /\ k \in DOMAIN Inputs
         /\ input \in Inputs[k] /\ output[1] = Result
  BY DEF Invariant, Converted

----------------------------------------------------------------------------
(* Numbers, induction and folds.                                           *)

\* A set of numbers that is not empty has a least one.
LEMMA LeastNumber ==
  ASSUME NEW T, T \subseteq Nat, T # {}
  PROVE  \E n \in T : \A m \in T : n <= m
<1> DEFINE R == StrictSubsetOrdering(Nat)
           I == {0..n : n \in T}
<1>1. IsWellFoundedOn(R, FiniteSubsetsOf(Nat))
  BY FS_StrictSubsetOrderingWellFounded
<1>2. I \subseteq FiniteSubsetsOf(Nat) /\ I # {}
  <2>1. \A n \in T : IsFiniteSet(0..n) /\ 0..n \subseteq Nat
    BY FS_Interval
  <2>2. ASSUME NEW x \in I PROVE x \in FiniteSubsetsOf(Nat)
    BY <2>1 DEF FiniteSubsetsOf
  <2> QED BY <2>2
<1>3. \E x \in I : \A y \in I : ~ (<<y, x>> \in R)
  <2> HIDE DEF R, I
  <2> QED BY <1>1, <1>2, WFMin
<1>4. PICK n \in T : \A y \in I : ~ (<<y, 0..n>> \in R)
  BY <1>3
<1>5. ASSUME NEW m \in T, m < n PROVE FALSE
  <2>1. 0..m \subseteq 0..n /\ 0..m # 0..n
    <3>1. n \in 0..n /\ n \notin 0..m
      BY <1>5
    <3> QED BY <1>5, <3>1
  <2>2. <<0..m, 0..n>> \in R
    BY <2>1 DEF StrictSubsetOrdering
  <2> QED BY <1>4, <2>2
<1> QED BY <1>5

\* Induction on the natural numbers, over a set of them.
LEMMA Induction ==
  ASSUME NEW T, 0 \in T, \A n \in Nat : n \in T => n + 1 \in T
  PROVE  Nat \subseteq T
<1> DEFINE U == {n \in Nat : n \notin T}
<1> SUFFICES ASSUME U # {} PROVE FALSE
  OBVIOUS
<1>1. PICK n \in U : \A m \in U : n <= m
  <2>1. U \subseteq Nat
    OBVIOUS
  <2> HIDE DEF U
  <2> QED BY <2>1, LeastNumber
<1>2. n # 0 /\ n - 1 \in T
  BY <1>1
<1> QED BY <1>1, <1>2

\* A set of numbers up to a bound has a greatest one.
LEMMA GreatestNumber ==
  ASSUME NEW N \in Nat, NEW s \in SUBSET (1..N), s # {}
  PROVE  Max(s) \in s /\ \A y \in s : y <= Max(s)
<1> DEFINE T == {N - x : x \in s}
<1>0. \A x \in s : x \in 1..N
  OBVIOUS
<1>1. T \subseteq Nat /\ T # {}
  <2>1. \A x \in s : N - x \in Nat
    BY <1>0
  <2> QED BY <2>1
<1>2. PICK n \in T : \A m \in T : n <= m
  <2> HIDE DEF T
  <2> QED BY <1>1, LeastNumber
<1>3. PICK x \in s : n = N - x
  BY <1>2
<1>4. ASSUME NEW y \in s PROVE x >= y
  <2>1. N - y \in T /\ n <= N - y
    BY <1>2
  <2>2. x \in 1..N /\ y \in 1..N
    BY <1>0
  <2> QED BY <1>3, <2>1, <2>2
<1>5. Max(s) \in s /\ \A y \in s : Max(s) >= y
  BY <1>4 DEF Max
<1> QED BY <1>0, <1>5

\* The numbers of a fold with k elements are those with k - 1, and k.
LEMMA LastNumber ==
  ASSUME NEW k \in Nat \ {0}
  PROVE  Max(1..k) = k /\ (1..k) \ {k} = 1..k - 1 /\ 1..k # {}
<1>1. 1..k # {} /\ (1..k) \ {k} = 1..k - 1
  OBVIOUS
<1>2. Max(1..k) \in 1..k /\ \A y \in 1..k : y <= Max(1..k)
  BY <1>1, GreatestNumber
<1> QED BY <1>1, <1>2

\* FoldLeft is defined by recursion on the sets of indexes: for a step that
\* stays in a set there is such a function.
Steps(N, E) == [E \X (1..N) -> E]

\* The functions that satisfy the recursion by which FoldLeft is defined.
FoldsOf(N, E, e, step) ==
  {g \in [SUBSET (1..N) -> E] :
     /\ g[{}] = e
     /\ \A s \in SUBSET (1..N) : s # {} => g[s] = step[<<g[s \ {Max(s)}], Max(s)>>]}

\* There is a function that satisfies the recursion.
LEMMA FoldExists ==
  ASSUME NEW N \in Nat, NEW E, NEW e \in E, NEW step \in Steps(N, E)
  PROVE  FoldsOf(N, E, e, step) # {}
<1>0. step \in [E \X (1..N) -> E]
  BY DEF Steps
<1> DEFINE Is(g, k) == g = [s \in SUBSET (1..k) |-> IF s = {} THEN e
                                        ELSE step[<<g[s \ {Max(s)}], Max(s)>>]]
           G(k) == {g \in [SUBSET (1..k) -> E] : Is(g, k)}
           T == {k \in Nat : k <= N => G(k) # {}}
<1>1. 0 \in T
  <2> DEFINE g == [s \in SUBSET (1..0) |-> e]
  <2>1. g \in [SUBSET (1..0) -> E] /\ \A s \in SUBSET (1..0) : s = {}
    OBVIOUS
  <2>2. Is(g, 0)
    BY <2>1
  <2> QED BY <2>1, <2>2
<1>2. ASSUME NEW k \in Nat, k \in T PROVE k + 1 \in T
  <2> SUFFICES ASSUME k + 1 <= N PROVE G(k + 1) # {}
    <3> HIDE DEF G
    <3> QED OBVIOUS
  <2>1. PICK h \in [SUBSET (1..k) -> E] : Is(h, k)
    <3>1. G(k) # {}
      <4> HIDE DEF G
      <4> QED BY <1>2
    <3> HIDE DEF Is
    <3> QED BY <3>1
  <2> DEFINE g == [s \in SUBSET (1..k + 1) |-> IF k + 1 \in s THEN step[<<h[s \ {k + 1}], k + 1>>]
                                               ELSE h[s]]
  <2>2. \A s \in SUBSET (1..k + 1) :
          /\ s \ {k + 1} \in SUBSET (1..k)
          /\ k + 1 \notin s => s \in SUBSET (1..k)
    OBVIOUS
  <2>3. g \in [SUBSET (1..k + 1) -> E]
    <3>1. ASSUME NEW s \in SUBSET (1..k + 1) PROVE g[s] \in E
      <4>1. k + 1 \in s => step[<<h[s \ {k + 1}], k + 1>>] \in E
        <5>1. k + 1 \in s => h[s \ {k + 1}] \in E
          BY <2>2
        <5>2. k + 1 \in 1..N
          OBVIOUS
        <5> QED BY <1>0, <5>1, <5>2
      <4>2. k + 1 \notin s => h[s] \in E
        BY <2>2
      <4> QED BY <4>1, <4>2
    <3> QED BY <3>1
  <2>4. ASSUME NEW s \in SUBSET (1..k + 1)
        PROVE  g[s] = IF s = {} THEN e ELSE step[<<g[s \ {Max(s)}], Max(s)>>]
    <3>1. CASE k + 1 \in s
      <4>1. Max(s) = k + 1
        <5>1. Max(s) \in s /\ \A y \in s : y <= Max(s)
          <6>1. k + 1 \in Nat /\ s # {}
            BY <3>1
          <6> QED BY <6>1, GreatestNumber
        <5>2. Max(s) \in 1..k + 1
          BY <5>1
        <5> QED BY <5>1, <5>2, <3>1
      <4>2. g[s \ {k + 1}] = h[s \ {k + 1}]
        <5>1. s \ {k + 1} \in SUBSET (1..k + 1) /\ k + 1 \notin s \ {k + 1}
          BY <2>2
        <5> QED BY <5>1
      <4> QED BY <3>1, <4>1, <4>2
    <3>2. CASE k + 1 \notin s /\ s # {}
      <4>1. s \in SUBSET (1..k)
        BY <2>2, <3>2
      <4>2. Max(s) \in s
        BY <3>2, <4>1, GreatestNumber
      <4>3. h[s] = step[<<h[s \ {Max(s)}], Max(s)>>]
        BY <2>1, <3>2, <4>1
      <4>4. s \ {Max(s)} \in SUBSET (1..k + 1) /\ k + 1 \notin s \ {Max(s)}
        BY <3>2
      <4> QED BY <3>2, <4>3, <4>4
    <3>3. CASE s = {}
      <4>1. s \in SUBSET (1..k) /\ k + 1 \notin s
        BY <3>3
      <4>2. h[s] = e
        BY <2>1, <3>3, <4>1
      <4> QED BY <3>3, <4>1, <4>2
    <3> QED BY <3>1, <3>2, <3>3
  <2>5. Is(g, k + 1)
    <3> HIDE DEF g
    <3> QED BY <2>3, <2>4
  <2> HIDE DEF Is, g
  <2> QED BY <2>3, <2>5
<1>3. N \in T
  <2> HIDE DEF T
  <2> QED BY <1>1, <1>2, Induction
<1>4. PICK g \in [SUBSET (1..N) -> E] : Is(g, N)
  <2>1. G(N) # {}
    <3> HIDE DEF G
    <3> QED BY <1>3
  <2> HIDE DEF Is
  <2> QED BY <2>1
<1>5. g[{}] = e
  <2>1. {} \in SUBSET (1..N)
    OBVIOUS
  <2> QED BY <1>4, <2>1
<1>6. ASSUME NEW s \in SUBSET (1..N), s # {} PROVE g[s] = step[<<g[s \ {Max(s)}], Max(s)>>]
  BY <1>4, <1>6
<1> HIDE DEF Is
<1> QED BY <1>5, <1>6 DEF FoldsOf

\* Induction up to a number.
LEMMA InductionTo ==
  ASSUME NEW N \in Nat, NEW T, 0 \in T, \A k \in 1..N : k - 1 \in T => k \in T
  PROVE  0..N \subseteq T
<1> DEFINE U == {k \in Nat : k <= N => k \in T}
<1>1. 0 \in U
  OBVIOUS
<1>2. \A k \in Nat : k \in U => k + 1 \in U
  OBVIOUS
<1>3. Nat \subseteq U
  <2> HIDE DEF U
  <2> QED BY <1>1, <1>2, Induction
<1> QED BY <1>3

\* An element is appended to a sequence.
LEMMA Appended ==
  ASSUME NEW S, NEW s \in Seq(S), NEW e \in S, NEW k \in Nat \ {0}, Len(s) = k - 1
  PROVE  /\ Append(s, e) \in Seq(S) /\ Len(Append(s, e)) = k /\ Append(s, e)[k] = e
         /\ \A i \in 1..k - 1 : Append(s, e)[i] = s[i]
  BY AppendProperties

\* Induction on sequences, over a set of them.
LEMMA SequenceInduction ==
  ASSUME NEW S, NEW G, <<>> \in G,
         \A s \in Seq(S), a \in S : s \in G => Append(s, a) \in G
  PROVE  Seq(S) \subseteq G
<1> SUFFICES ASSUME NEW s \in Seq(S) PROVE s \in G
  OBVIOUS
<1> DEFINE N == Len(s)
           T == {k \in 0..N : SubSeq(s, 1, k) \in G}
<1>1. N \in Nat
  OBVIOUS
<1>2. SubSeq(s, 1, 0) = <<>> /\ SubSeq(s, 1, N) = s
  OBVIOUS
<1>3. \A k \in 1..N : k - 1 \in T => k \in T
  <2> SUFFICES ASSUME NEW k \in 1..N, SubSeq(s, 1, k - 1) \in G PROVE SubSeq(s, 1, k) \in G
    OBVIOUS
  <2> DEFINE u == SubSeq(s, 1, k - 1)
  <2>1. u \in Seq(S) /\ s[k] \in S /\ Len(u) = k - 1 /\ \A i \in 1..k - 1 : u[i] = s[i]
    OBVIOUS
  <2>2. SubSeq(s, 1, k) \in Seq(S) /\ Len(SubSeq(s, 1, k)) = k /\ \A i \in 1..k : SubSeq(s, 1, k)[i] = s[i]
    OBVIOUS
  <2> HIDE DEF u
  <2>3. /\ Append(u, s[k]) \in Seq(S) /\ Len(Append(u, s[k])) = k /\ Append(u, s[k])[k] = s[k]
        /\ \A i \in 1..k - 1 : Append(u, s[k])[i] = u[i]
    BY <1>1, <2>1, Appended
  <2>4. \A i \in 1..k : i = k \/ i \in 1..k - 1
    OBVIOUS
  <2>5. SubSeq(s, 1, k) = Append(u, s[k])
    BY <2>1, <2>2, <2>3, <2>4, SeqEqual
  <2> QED BY <2>1, <2>5 DEF u
<1>4. 0..N \subseteq T
  <2>1. SubSeq(s, 1, 0) \in G
    <3> HIDE DEF N
    <3> QED BY <1>2, Zenon
  <2>2. 0 \in T
    BY <1>1, <2>1
  <2> HIDE DEF T, N
  <2> QED BY <1>1, <1>3, <2>2, InductionTo
<1>5. N \in 0..N
  BY <1>1
<1>6. SubSeq(s, 1, N) \in G
  BY <1>4, <1>5
<1> HIDE DEF N
<1> QED BY <1>2, <1>6

\* Two folds that do the same steps give the same.
LEMMA SameSteps ==
  ASSUME NEW n \in Nat, NEW r, NEW q, r[0] = q[0],
         \A k \in 1..n : r[k - 1] = q[k - 1] => r[k] = q[k]
  PROVE  r[n] = q[n]
<1> DEFINE T == {k \in 0..n : r[k] = q[k]}
<1>1. 0 \in T /\ \A k \in 1..n : k - 1 \in T => k \in T
  OBVIOUS
<1>2. 0..n \subseteq T
  <2> HIDE DEF T
  <2> QED BY <1>1, InductionTo
<1> QED BY <1>2

----------------------------------------------------------------------------
(* The window of source lines (LoadAsImage).                               *)

\* LoadAsImage draws the marked line in full, and reaches the lines of the
\* source, in an image that is high enough.
THEOREM MarkedLine == Spec => []LineIsVisible
<1>1. Invariant => LineIsVisible
  <2> SUFFICES ASSUME Invariant, Converted("window"),
                      NEW length, NEW line, NEW height,
                      length = input[1], line = input[2], height = input[3],
                      line <= length
               PROVE  /\ height >= 60 /\ line > 0 =>
                           line \in output[1] /\ BottomOf(line, line, height) <= height
                      /\ height >= 40 => ~WindowPanics(length, line, height)
    BY DEF LineIsVisible
  <2>1. kind = "window" /\ output[1] = Result /\ input \in Inputs["window"]
    BY ConvertedResult
  <2>2. length \in Nat /\ line \in Nat /\ height \in Nat
    <3>1. input \in Nat \X Nat \X Nat
      BY <2>1, InputsAssumption DEF InputsTyped
    <3> QED BY <3>1
  <2>3. output[1] = Window(length, line, height)
    BY <2>1 DEF Result
  <2> DEFINE d == height \div 20
             o == Offset(line, height)
  <2>4. d \in Nat /\ 20 * d <= height /\ height < 20 * d + 20
    BY <2>2
  <2>5. o = IF line + 3 - d < 1 THEN 1 ELSE line + 3 - d
    BY DEF Offset, LineHeight
  <2> HIDE DEF d, o
  <2>6. o \in Int
    BY <2>2, <2>4, <2>5
  <2>7. ASSUME height >= 60, line > 0
        PROVE  line \in output[1] /\ BottomOf(line, line, height) <= height
    <3>1. d >= 3
      BY <2>2, <2>4, <2>7
    <3>2. o <= line /\ line - o <= d
      BY <2>2, <2>4, <2>5, <2>7, <3>1
    <3>3. Window(length, line, height) = {i \in o..length : i - o <= d}
      BY DEF Window, o, d, LineHeight
    <3>4. line \in Window(length, line, height)
      BY <2>2, <2>6, <3>2, <3>3
    <3>5. BottomOf(line, line, height) = 20 + (line - o) * 20
      BY DEF BottomOf, o, LineHeight
    <3>6. line - o <= d - 1
      BY <2>2, <2>4, <2>5, <2>7, <3>1
    <3>7. 20 + (line - o) * 20 <= height
      BY <2>2, <2>4, <2>6, <3>6
    <3> QED BY <2>3, <3>4, <3>5, <3>7
  <2>8. ASSUME height >= 40 PROVE ~WindowPanics(length, line, height)
    <3>1. d >= 2
      BY <2>2, <2>4, <2>8
    <3>2. o - 1 <= length
      BY <2>2, <2>4, <2>5, <3>1
    <3>3. WindowPanics(length, line, height) <=> o - 1 > length
      BY DEF WindowPanics, o
    <3> QED BY <2>2, <2>6, <3>2, <3>3
  <2> QED BY <2>7, <2>8
<1> QED BY <1>1, Invariance, PTL

----------------------------------------------------------------------------
(* The compression of a recording (compressGif).                           *)

\* The steps of compressGif.
LEMMA CompressSteps ==
  ASSUME NEW n \in Nat \ {0}, NEW P, NEW images \in [1..n -> [P -> Nat]]
  PROVE  \E r : /\ r[0] = images
                /\ \A k \in 1..n - 1 : r[k] = Compress(r[k - 1], Order(Len(images))[k])
                /\ CompressGif(images) = r[n - 1]
<1> DEFINE N == n - 1
           E == [1..n -> [P -> Nat]]
           F(v, k) == Compress(v, Order(Len(images))[k])
           Is(g) == g = [d \in SUBSET (1..N) |-> IF d = {} THEN images ELSE F(g[d \ {Max(d)}], Max(d))]
           step == [p \in E \X (1..N) |-> F(p[1], p[2])]
<1>1. CompressGif(images) = (CHOOSE g : Is(g))[1..N]
  <2>1. 1..N = DOMAIN Order(Len(images))
    BY DEF Order
  <2> QED BY <2>1 DEF CompressGif, FoldLeft, MapThenFoldSet
<1>2. ASSUME NEW v \in E, NEW k \in 1..N PROVE F(v, k) \in E
  <2>1. n + 1 - k \in 1..n /\ n + 1 - k - 1 \in 1..n /\ Order(Len(images))[k] = n + 1 - k
    BY DEF Order
  <2>2. \A i \in 1..n : v[i] \in [P -> Nat]
    OBVIOUS
  <2> DEFINE i == n + 1 - k
             d == [p \in DOMAIN v[i] |-> IF v[i][p] = v[i - 1][p] THEN Transparent ELSE v[i][p]]
  <2>3. d \in [P -> Nat]
    BY <2>1, <2>2 DEF Transparent
  <2> HIDE DEF i, d
  <2> QED BY <2>1, <2>3 DEF Compress, i, d
<1>3. N \in Nat /\ images \in E
  OBVIOUS
<1> HIDE DEF N, E, F
<1>4. \E g : Is(g)
  <2>1. step \in Steps(N, E)
    BY <1>2 DEF Steps
  <2> HIDE DEF step
  <2>2. PICK g : g \in FoldsOf(N, E, images, step)
    BY <1>3, <2>1, FoldExists
  <2>3. ASSUME NEW d \in SUBSET (1..N), d # {}
        PROVE  step[<<g[d \ {Max(d)}], Max(d)>>] = F(g[d \ {Max(d)}], Max(d))
    <3>1. Max(d) \in d
      BY <1>3, <2>3, GreatestNumber
    <3>2. g \in [SUBSET (1..N) -> E]
      BY <2>2 DEF FoldsOf
    <3> QED BY <3>1, <3>2 DEF step
  <2>4. Is(g)
    BY <2>2, <2>3 DEF FoldsOf
  <2> HIDE DEF Is
  <2> QED BY <2>4
<1>5. PICK g : Is(g) /\ CompressGif(images) = g[1..N]
  <2> HIDE DEF Is
  <2> QED BY <1>1, <1>4
<1> DEFINE r == [k \in 0..N |-> g[1..k]]
<1>6. r[0] = images /\ r[N] = g[1..N]
  <2>1. 1..0 = {} /\ {} \in SUBSET (1..N) /\ 0 \in 0..N /\ N \in 0..N
    BY <1>3
  <2> QED BY <1>5, <2>1
<1>7. ASSUME NEW k \in 1..N PROVE r[k] = F(r[k - 1], k)
  <2>1. Max(1..k) = k /\ (1..k) \ {k} = 1..k - 1 /\ 1..k # {}
    <3>1. k \in Nat \ {0}
      BY <1>3
    <3> QED BY <3>1, LastNumber
  <2>2. 1..k \in SUBSET (1..N)
    BY <1>3
  <2>3. r[k] = g[1..k] /\ r[k - 1] = g[1..k - 1]
    BY <1>3
  <2> HIDE DEF r
  <2> QED BY <1>5, <2>1, <2>2, <2>3
<1> HIDE DEF r
<1> QED BY <1>5, <1>6, <1>7 DEF N, F, E

\* The steps of a viewer.
LEMMA ShowSteps ==
  ASSUME NEW n \in Nat, NEW P, NEW c \in [1..n -> [P -> Nat]]
  PROVE  \E r : /\ r[0] = <<>>
                /\ \A k \in 1..n : r[k] = Append(r[k - 1],
                     IF r[k - 1] = <<>> THEN c[k]
                     ELSE [p \in DOMAIN c[k] |->
                             IF c[k][p] = Transparent THEN Last(r[k - 1])[p] ELSE c[k][p]])
                /\ Show(c) = r[n]
<1> DEFINE N == n
           E == Seq([P -> Nat])
           F(v, k) == Append(v,
                     IF v = <<>> THEN c[k]
                     ELSE [p \in DOMAIN c[k] |->
                             IF c[k][p] = Transparent THEN Last(v)[p] ELSE c[k][p]])
           Is(g) == g = [d \in SUBSET (1..N) |-> IF d = {} THEN <<>> ELSE F(g[d \ {Max(d)}], Max(d))]
           step == [p \in E \X (1..N) |-> F(p[1], p[2])]
<1>1. Show(c) = (CHOOSE g : Is(g))[1..N]
  <2>1. 1..N = DOMAIN c
    OBVIOUS
  <2> QED BY <2>1 DEF Show, FoldLeft, MapThenFoldSet
<1>2. ASSUME NEW v \in E, NEW k \in 1..N PROVE F(v, k) \in E
  <2>1. c[k] \in [P -> Nat] /\ DOMAIN c[k] = P
    OBVIOUS
  <2>2. v # <<>> => Last(v) \in [P -> Nat]
    BY DEF Last
  <2> DEFINE d == [p \in DOMAIN c[k] |-> IF c[k][p] = Transparent THEN Last(v)[p] ELSE c[k][p]]
  <2>3. v # <<>> => d \in [P -> Nat]
    BY <2>1, <2>2 DEF Transparent
  <2> HIDE DEF d
  <2>4. F(v, k) = Append(v, IF v = <<>> THEN c[k] ELSE d)
    BY DEF d
  <2> QED BY <2>1, <2>3, <2>4
<1>3. N \in Nat /\ <<>> \in E
  OBVIOUS
<1> HIDE DEF N, E, F
<1>4. \E g : Is(g)
  <2>1. step \in Steps(N, E)
    BY <1>2 DEF Steps
  <2> HIDE DEF step
  <2>2. PICK g : g \in FoldsOf(N, E, <<>>, step)
    BY <1>3, <2>1, FoldExists
  <2>3. ASSUME NEW d \in SUBSET (1..N), d # {}
        PROVE  step[<<g[d \ {Max(d)}], Max(d)>>] = F(g[d \ {Max(d)}], Max(d))
    <3>1. Max(d) \in d
      BY <1>3, <2>3, GreatestNumber
    <3>2. g \in [SUBSET (1..N) -> E]
      BY <2>2 DEF FoldsOf
    <3> QED BY <3>1, <3>2 DEF step
  <2>4. Is(g)
    BY <2>2, <2>3 DEF FoldsOf
  <2> HIDE DEF Is
  <2> QED BY <2>4
<1>5. PICK g : Is(g) /\ Show(c) = g[1..N]
  <2> HIDE DEF Is
  <2> QED BY <1>1, <1>4
<1> DEFINE r == [k \in 0..N |-> g[1..k]]
<1>6. r[0] = <<>> /\ r[N] = g[1..N]
  <2>1. 1..0 = {} /\ {} \in SUBSET (1..N) /\ 0 \in 0..N /\ N \in 0..N
    BY <1>3
  <2> QED BY <1>5, <2>1
<1>7. ASSUME NEW k \in 1..N PROVE r[k] = F(r[k - 1], k)
  <2>1. Max(1..k) = k /\ (1..k) \ {k} = 1..k - 1 /\ 1..k # {}
    <3>1. k \in Nat \ {0}
      BY <1>3
    <3> QED BY <3>1, LastNumber
  <2>2. 1..k \in SUBSET (1..N)
    BY <1>3
  <2>3. r[k] = g[1..k] /\ r[k - 1] = g[1..k - 1]
    BY <1>3
  <2> HIDE DEF r
  <2> QED BY <1>5, <2>1, <2>2, <2>3
<1> HIDE DEF r
<1> QED BY <1>5, <1>6, <1>7 DEF N, F, E

\* Recordings of n images with the pixels P.
Images(n, P) == [1..n -> [P -> Nat]]

\* The compressed recording: each image after the first has the pixels that
\* differ from those of the image before.
LEMMA Compressed ==
  ASSUME NEW n \in Nat \ {0}, NEW P, NEW images \in Images(n, P)
  PROVE  /\ CompressGif(images) \in Images(n, P)
         /\ CompressGif(images)[1] = images[1]
         /\ \A i \in 2..n, p \in P :
              CompressGif(images)[i][p] =
                IF images[i][p] = images[i - 1][p] THEN Transparent ELSE images[i][p]
<1>0. images \in [1..n -> [P -> Nat]]
  BY DEF Images
<1> DEFINE Difference(i) ==
             [p \in P |-> IF images[i][p] = images[i - 1][p] THEN Transparent ELSE images[i][p]]
<1>1. PICK r : /\ r[0] = images
               /\ \A k \in 1..n - 1 : r[k] = Compress(r[k - 1], Order(Len(images))[k])
               /\ CompressGif(images) = r[n - 1]
  BY <1>0, CompressSteps
<1> DEFINE Good(k) == /\ r[k] \in [1..n -> [P -> Nat]]
                      /\ \A i \in 1..n : i <= n - k => r[k][i] = images[i]
                      /\ \A i \in 1..n : i > n - k => r[k][i] = Difference(i)
           T == {k \in 0..n - 1 : Good(k)}
<1>2. Good(0)
  <2>1. \A i \in 1..n : ~ (i > n - 0)
    OBVIOUS
  <2> HIDE DEF Difference
  <2> QED BY <1>0, <1>1, <2>1
<1>3. ASSUME NEW k \in 1..n - 1, Good(k - 1) PROVE Good(k)
  <2> DEFINE v == r[k - 1]
             j == n + 1 - k
  <2>1. j \in 2..n /\ Order(Len(images))[k] = j
    BY <1>0 DEF Order
  <2>2. r[k] = Compress(v, j)
    BY <1>1, <2>1
  <2>3. /\ v \in [1..n -> [P -> Nat]]
        /\ \A i \in 1..n : i <= j => v[i] = images[i]
        /\ \A i \in 1..n : i > j => v[i] = Difference(i)
    <3> HIDE DEF Difference
    <3>1. n - (k - 1) = j
      OBVIOUS
    <3> QED BY <1>3, <3>1
  <2> HIDE DEF j, v
  <2>4. v[j] = images[j] /\ v[j - 1] = images[j - 1] /\ DOMAIN v[j] = P /\ j - 1 \in 1..n /\ j \in 1..n
    BY <2>1, <2>3
  <2>5. Compress(v, j) = [v EXCEPT ![j] = Difference(j)]
    BY <2>4 DEF Compress
  <2>6. Difference(j) \in [P -> Nat]
    BY <1>0, <2>1, <2>4 DEF Transparent
  <2> HIDE DEF Difference
  <2>7. \A i \in 1..n : i <= n - k <=> i < j
    BY DEF j
  <2>8. r[k] \in [1..n -> [P -> Nat]]
    BY <2>2, <2>3, <2>5, <2>6
  <2>9. \A i \in 1..n : r[k][i] = IF i = j THEN Difference(j) ELSE v[i]
    BY <2>2, <2>3, <2>5
  <2>10. \A i \in 1..n : i < j => r[k][i] = images[i]
    BY <2>1, <2>3, <2>9
  <2>11. ASSUME NEW i \in 1..n, ~ (i < j) PROVE r[k][i] = Difference(i)
    <3>1. CASE i = j
      BY <2>9, <3>1
    <3>2. CASE i # j
      <4>1. i > j
        BY <2>1, <2>11, <3>2
      <4> QED BY <2>3, <2>9, <3>2, <4>1
    <3> QED BY <3>1, <3>2
  <2>12. \A i \in 1..n : i > n - k <=> ~ (i <= n - k)
    OBVIOUS
  <2> QED BY <2>7, <2>8, <2>10, <2>11, <2>12
<1>4. Good(n - 1)
  <2>1. n - 1 \in Nat /\ 0 \in T
    BY <1>2
  <2>2. \A k \in 1..n - 1 : k - 1 \in T => k \in T
    <3> HIDE DEF Good
    <3> QED BY <1>3
  <2>3. 0..n - 1 \subseteq T
    <3> HIDE DEF T
    <3> QED BY <2>1, <2>2, InductionTo
  <2> HIDE DEF Good
  <2> QED BY <2>1, <2>3
<1>5. \A i \in 1..n : i <= n - (n - 1) <=> i = 1
  OBVIOUS
<1>6. CompressGif(images)[1] = images[1]
  <2>1. 1 \in 1..n
    OBVIOUS
  <2> QED BY <1>1, <1>4, <1>5, <2>1
<1>7. ASSUME NEW i \in 2..n PROVE CompressGif(images)[i] = Difference(i)
  <2>1. i \in 1..n /\ i > n - (n - 1)
    OBVIOUS
  <2> HIDE DEF Difference
  <2> QED BY <1>1, <1>4, <2>1
<1>8. CompressGif(images) \in Images(n, P)
  BY <1>1, <1>4 DEF Images
<1>9. ASSUME NEW i \in 2..n, NEW p \in P
      PROVE  CompressGif(images)[i][p] =
               IF images[i][p] = images[i - 1][p] THEN Transparent ELSE images[i][p]
  BY <1>7
<1> QED BY <1>6, <1>8, <1>9

\* A viewer shows what the pixels of an image are, and those of the image
\* before where they are transparent.
LEMMA Shown ==
  ASSUME NEW n \in Nat, NEW P, NEW images \in Images(n, P),
         NEW c \in Images(n, P),
         n > 0 => c[1] = images[1],
         \A i \in 2..n, p \in P :
           images[i][p] = IF c[i][p] = Transparent THEN images[i - 1][p] ELSE c[i][p]
  PROVE  Show(c) = images
<1>0. images \in [1..n -> [P -> Nat]] /\ c \in [1..n -> [P -> Nat]]
  BY DEF Images
<1> DEFINE Seen(v, k) == [p \in DOMAIN c[k] |-> IF c[k][p] = Transparent THEN Last(v)[p] ELSE c[k][p]]
<1>1. PICK r : /\ r[0] = <<>>
               /\ \A k \in 1..n : r[k] = Append(r[k - 1], IF r[k - 1] = <<>> THEN c[k]
                                                          ELSE Seen(r[k - 1], k))
               /\ Show(c) = r[n]
  BY <1>0, ShowSteps
<1> DEFINE Good(k) == /\ r[k] \in Seq([P -> Nat]) /\ Len(r[k]) = k
                      /\ \A i \in 1..k : r[k][i] = images[i]
           T == {k \in 0..n : Good(k)}
<1>2. Good(0)
  <2>1. r[0] \in Seq([P -> Nat]) /\ Len(r[0]) = 0 /\ 1..0 = {}
    BY <1>1
  <2> QED BY <2>1
<1>3. ASSUME NEW k \in 1..n, Good(k - 1) PROVE Good(k)
  <2> DEFINE v == r[k - 1]
             d == IF v = <<>> THEN c[k] ELSE Seen(v, k)
  <2>1. r[k] = Append(v, d)
    <3> HIDE DEF Seen
    <3> QED BY <1>1
  <2>2. v \in Seq([P -> Nat]) /\ Len(v) = k - 1 /\ \A i \in 1..k - 1 : v[i] = images[i]
    <3> HIDE DEF Seen
    <3> QED BY <1>3
  <2> HIDE DEF v
  <2>3. d = images[k]
    <3>1. CASE k = 1
      <4>1. v = <<>>
        BY <2>2, <3>1
      <4> QED BY <3>1, <4>1
    <3>2. CASE k # 1
      <4>1. v # <<>> /\ k - 1 \in 1..n /\ k \in 2..n
        BY <2>2, <3>2
      <4>2. Last(v) = images[k - 1]
        BY <2>2, <4>1 DEF Last
      <4>3. Seen(v, k) = images[k]
        <5>1. DOMAIN c[k] = P /\ images[k] \in [P -> Nat]
          BY <1>0
        <5>2. \A p \in P : Seen(v, k)[p] = images[k][p]
          BY <4>1, <4>2, <5>1
        <5>3. Seen(v, k) = [p \in P |-> Seen(v, k)[p]]
          BY <5>1
        <5>4. images[k] = [p \in P |-> images[k][p]]
          BY <5>1
        <5> HIDE DEF Seen
        <5> QED BY <5>2, <5>3, <5>4
      <4> HIDE DEF Seen
      <4> QED BY <4>1, <4>3
    <3> QED BY <3>1, <3>2
  <2> HIDE DEF d
  <2>4. images[k] \in [P -> Nat] /\ k \in Nat \ {0}
    BY <1>0
  <2>5. /\ r[k] \in Seq([P -> Nat]) /\ Len(r[k]) = k /\ r[k][k] = images[k]
        /\ \A i \in 1..k - 1 : r[k][i] = v[i]
    BY <2>1, <2>2, <2>3, <2>4, Appended
  <2>6. \A i \in 1..k : i \in 1..k - 1 \/ i = k
    OBVIOUS
  <2> QED BY <2>2, <2>5, <2>6
<1> HIDE DEF Seen
<1>4. Good(n)
  <2>1. 0 \in T
    BY <1>2
  <2>2. \A k \in 1..n : k - 1 \in T => k \in T
    <3> HIDE DEF Good
    <3> QED BY <1>3
  <2>3. 0..n \subseteq T
    <3> HIDE DEF T
    <3> QED BY <2>1, <2>2, InductionTo
  <2> HIDE DEF Good
  <2> QED BY <2>3
<1>5. images \in Seq([P -> Nat]) /\ Len(images) = n
  BY <1>0
<1> HIDE DEF T
<1> QED BY <1>1, <1>4, <1>5, SeqEqual

\* compressGif keeps what a viewer sees, and is idempotent: a tab that is saved
\* twice has the same recording.
THEOREM GifsShowImages == Spec => []GifShowsImages
<1>1. Invariant => GifShowsImages
  <2> SUFFICES ASSUME Invariant, Converted("gif")
               PROVE  Show(output[1]) = input /\ CompressGif(output[1]) = output[1]
    BY DEF GifShowsImages
  <2>1. kind = "gif" /\ output[1] = Result /\ input \in Inputs["gif"]
    BY ConvertedResult
  <2> DEFINE n == Len(input)
             P == DOMAIN input[1]
             C == CompressGif(input)
  <2>2. output[1] = C
    BY <2>1 DEF Result
  <2>3. /\ input \in Seq(ToSet(input)) /\ input # <<>>
        /\ \A i \in DOMAIN input : input[i] \in [P -> Nat \ {Transparent}]
    BY <2>1, InputsAssumption DEF InputsTyped, IsRecording
  <2>4. n \in Nat \ {0} /\ DOMAIN input = 1..n /\ input = [i \in 1..n |-> input[i]]
    BY <2>3
  <2> HIDE DEF n, P
  <2>5. \A i \in 1..n : input[i] \in [P -> Nat] /\ \A p \in P : input[i][p] # Transparent
    BY <2>3, <2>4
  <2>6. input \in Images(n, P)
    BY <2>4, <2>5 DEF Images
  <2>7. /\ C \in Images(n, P) /\ C[1] = input[1]
        /\ \A i \in 2..n, p \in P :
             C[i][p] = IF input[i][p] = input[i - 1][p] THEN Transparent ELSE input[i][p]
    BY <2>4, <2>6, Compressed, SMTT(60)
  <2> HIDE DEF C
  <2>8. \A i \in 2..n : i \in 1..n /\ i - 1 \in 1..n /\ (i = 2 => i - 1 = 1) /\ (i # 2 => i - 1 \in 2..n)
    BY <2>4
  <2>9. Show(C) = input
    <3>1. \A i \in 2..n, p \in P :
            input[i][p] = IF C[i][p] = Transparent THEN input[i - 1][p] ELSE C[i][p]
      BY <2>5, <2>7, <2>8
    <3>2. n > 0 => C[1] = input[1]
      BY <2>7
    <3>3. n \in Nat
      BY <2>4
    <3> QED BY <2>6, <2>7, <3>1, <3>2, <3>3, Shown
  <2>10. CompressGif(C) = C
    <3> DEFINE D == CompressGif(C)
    <3>1. /\ D \in Images(n, P) /\ D[1] = C[1]
          /\ \A i \in 2..n, p \in P :
               D[i][p] = IF C[i][p] = C[i - 1][p] THEN Transparent ELSE C[i][p]
      BY <2>4, <2>7, Compressed
    <3> HIDE DEF D
    <3>2. ASSUME NEW i \in 2..n, NEW p \in P PROVE D[i][p] = C[i][p]
      <4>1. C[i - 1][p] = Transparent \/ C[i - 1][p] = input[i - 1][p]
        <5>1. CASE i = 2
          BY <2>7, <2>8, <5>1
        <5>2. CASE i # 2
          BY <2>7, <2>8, <5>2
        <5> QED BY <5>1, <5>2
      <4>2. C[i][p] = Transparent \/ (C[i][p] = input[i][p] /\ input[i][p] # input[i - 1][p] /\ input[i][p] # Transparent)
        BY <2>5, <2>7, <2>8
      <4> QED BY <3>1, <4>1, <4>2
    <3>3. ASSUME NEW i \in 1..n PROVE D[i] = C[i]
      <4>1. i = 1 \/ i \in 2..n
        BY <2>4
      <4>2. D[i] \in [P -> Nat] /\ C[i] \in [P -> Nat]
        BY <2>7, <3>1 DEF Images
      <4>3. \A p \in P : D[i][p] = C[i][p]
        BY <3>1, <3>2, <4>1
      <4> QED BY <4>2, <4>3
    <3>4. D = [i \in 1..n |-> D[i]] /\ C = [i \in 1..n |-> C[i]]
      BY <2>7, <3>1 DEF Images
    <3> QED BY <3>3, <3>4 DEF D
  <2> QED BY <2>2, <2>9, <2>10
<1> QED BY <1>1, Invariance, PTL

----------------------------------------------------------------------------
(* The columns of fromcsv (uniqueHeader).                                  *)

\* A name that rename gives is new, and has the name as a prefix.
LEMMA Renamed ==
  ASSUME NEW x \in Seq(Nat), NEW used \in Seq(Seq(Nat))
  PROVE  /\ Rename(x, used) \in Seq(Nat)
         /\ ~Contains(used, Rename(x, used))
         /\ IsPrefix(x, Rename(x, used))
<1>1. CASE ~Contains(used, x)
  BY <1>1 DEF Rename, IsPrefix
<1>2. CASE Contains(used, x)
  <2> DEFINE n == Len(used)
             C == {i \in 1..n : ~Contains(used, Append(x, i))}
             Tried(i) == IF i = 0 THEN x ELSE Append(x, i)
             f == [i \in 0..n |-> CHOOSE j \in 1..n : used[j] = Tried(i)]
  <2>1. C # {}
    <3> SUFFICES ASSUME C = {} PROVE FALSE
      OBVIOUS
    <3>0. \A i \in 1..n : Contains(used, Append(x, i))
      OBVIOUS
    <3>1. ASSUME NEW i \in 0..n PROVE f[i] \in 1..n /\ used[f[i]] = Tried(i)
      <4>1. \E j \in 1..n : used[j] = Tried(i)
        <5>1. i # 0 => Contains(used, Append(x, i))
          BY <3>0
        <5> QED BY <1>2, <5>1 DEF Contains
      <4> HIDE DEF Tried
      <4> QED BY <4>1
    <3>2. ASSUME NEW i \in 0..n, NEW j \in 0..n, Tried(i) = Tried(j) PROVE i = j
      <4>1. Len(Tried(i)) = (IF i = 0 THEN Len(x) ELSE Len(x) + 1)
        BY AppendProperties
      <4>2. Len(Tried(j)) = (IF j = 0 THEN Len(x) ELSE Len(x) + 1)
        BY AppendProperties
      <4>3. i # 0 => Tried(i)[Len(x) + 1] = i
        BY AppendProperties
      <4>4. j # 0 => Tried(j)[Len(x) + 1] = j
        BY AppendProperties
      <4>5. Len(x) \in Nat
        OBVIOUS
      <4> HIDE DEF Tried
      <4> QED BY <3>2, <4>1, <4>2, <4>3, <4>4, <4>5
    <3>3. n \in Nat
      OBVIOUS
    <3> HIDE DEF f, Tried, n
    <3>4. f \in [0..n -> 1..n]
      BY <3>1 DEF f
    <3>5. /\ IsFiniteSet(0..n) /\ Cardinality(0..n) = n + 1
          /\ IsFiniteSet(1..n) /\ Cardinality(1..n) = n
      BY <3>3, FS_Interval
    <3>6. \E i, j \in 0..n : i # j /\ f[i] = f[j]
      <4> DEFINE A == 0..n
                 B == 1..n
      <4>1. f \in [A -> B] /\ IsFiniteSet(A) /\ IsFiniteSet(B) /\ Cardinality(B) < Cardinality(A)
        BY <3>3, <3>4, <3>5
      <4> HIDE DEF A, B
      <4>2. \E i, j \in A : i # j /\ f[i] = f[j]
        BY <4>1, FS_PigeonHole
      <4> QED BY <4>2 DEF A
    <3> QED BY <3>1, <3>2, <3>6
  <2>2. PICK i \in C : \A m \in C : i <= m
    <3>1. C \subseteq Nat
      OBVIOUS
    <3> HIDE DEF C
    <3> QED BY <2>1, <3>1, LeastNumber
  <2>3. /\ ~Contains(used, Append(x, i))
        /\ \A k \in 1..i - 1 : Contains(used, Append(x, k))
    <3>1. ASSUME NEW k \in 1..i - 1 PROVE Contains(used, Append(x, k))
      <4>1. k \in 1..n /\ k < i
        OBVIOUS
      <4>2. k \notin C
        BY <2>2, <4>1
      <4> QED BY <4>1, <4>2
    <3> QED BY <3>1
  <2> DEFINE c == CHOOSE j \in 1..n : /\ ~Contains(used, Append(x, j))
                                      /\ \A k \in 1..j - 1 : Contains(used, Append(x, k))
  <2>4. c \in 1..n /\ ~Contains(used, Append(x, c))
    <3>1. i \in 1..n
      OBVIOUS
    <3> HIDE DEF C, n
    <3> QED BY <2>3, <3>1
  <2>5. Rename(x, used) = Append(x, c)
    BY <1>2 DEF Rename
  <2> HIDE DEF c
  <2>6. c \in Nat
    BY <2>4
  <2>7. Append(x, c) \in Seq(Nat) /\ IsPrefix(x, Append(x, c))
    <3>1. Len(Append(x, c)) = Len(x) + 1 /\ Append(x, c) \in Seq(Nat)
      BY <2>6
    <3>2. SubSeq(x, 1, Len(x)) = SubSeq(Append(x, c), 1, Len(x))
      BY <2>6, <3>1
    <3> QED BY <3>1, <3>2 DEF IsPrefix
  <2> QED BY <2>4, <2>5, <2>7
<1> QED BY <1>1, <1>2

\* The steps of uniqueHeader.
LEMMA HeaderSteps ==
  ASSUME NEW xs \in Seq(Seq(Nat))
  PROVE  \E r : /\ r[0] = <<>>
                /\ \A k \in 1..Len(xs) : r[k] = Append(r[k - 1], Rename(xs[k], r[k - 1]))
                /\ UniqueHeader(xs) = r[Len(xs)]
<1> DEFINE N == Len(xs)
           E == Seq(Seq(Nat))
           F(rs, x) == Append(rs, Rename(x, rs))
           Is(g) == g = [s \in SUBSET (1..N) |-> IF s = {} THEN <<>>
                                                 ELSE F(g[s \ {Max(s)}], xs[Max(s)])]
           step == [p \in E \X (1..N) |-> F(p[1], xs[p[2]])]
<1>1. UniqueHeader(xs) = (CHOOSE g : Is(g))[1..N]
  <2>1. 1..N = DOMAIN xs
    OBVIOUS
  <2> QED BY <2>1 DEF UniqueHeader, FoldLeft, MapThenFoldSet
<1>2. \E g : Is(g)
  <2>1. step \in Steps(N, E)
    <3>1. ASSUME NEW p \in E \X (1..N) PROVE F(p[1], xs[p[2]]) \in E
      <4>1. xs[p[2]] \in Seq(Nat) /\ p[1] \in E
        OBVIOUS
      <4>2. Rename(xs[p[2]], p[1]) \in Seq(Nat)
        BY <4>1, Renamed
      <4> QED BY <4>1, <4>2
    <3> HIDE DEF F
    <3> QED BY <3>1 DEF Steps
  <2>2. N \in Nat /\ <<>> \in E
    OBVIOUS
  <2> HIDE DEF step, N, E
  <2>3. PICK g : g \in FoldsOf(N, E, <<>>, step)
    BY <2>1, <2>2, FoldExists
  <2>4. ASSUME NEW s \in SUBSET (1..N), s # {}
        PROVE  step[<<g[s \ {Max(s)}], Max(s)>>] = F(g[s \ {Max(s)}], xs[Max(s)])
    <3>1. Max(s) \in 1..N /\ g[s \ {Max(s)}] \in E
      <4>1. Max(s) \in s
        BY <2>2, <2>4, GreatestNumber
      <4>2. g \in [SUBSET (1..N) -> E]
        BY <2>3 DEF FoldsOf
      <4> QED BY <4>1, <4>2
    <3> HIDE DEF F
    <3> QED BY <3>1 DEF step
  <2>5. Is(g)
    <3> HIDE DEF F
    <3> QED BY <2>3, <2>4 DEF FoldsOf
  <2> HIDE DEF Is
  <2> QED BY <2>5
<1>3. PICK g : Is(g) /\ UniqueHeader(xs) = g[1..N]
  <2> HIDE DEF Is
  <2> QED BY <1>1, <1>2
<1> DEFINE r == [k \in 0..N |-> g[1..k]]
<1>4. r[0] = <<>> /\ r[N] = g[1..N]
  BY <1>3
<1>5. ASSUME NEW k \in 1..N PROVE r[k] = F(r[k - 1], xs[k])
  <2>1. Max(1..k) = k /\ (1..k) \ {k} = 1..k - 1 /\ 1..k # {} /\ 1..k \in SUBSET (1..N)
    BY LastNumber
  <2>2. r[k] = g[1..k] /\ r[k - 1] = g[1..k - 1]
    OBVIOUS
  <2> HIDE DEF r, F
  <2> QED BY <1>3, <2>1, <2>2
<1> HIDE DEF r
<1> QED BY <1>3, <1>4, <1>5

\* The names of the columns differ, and begin with those of the header.
LEMMA HeaderCorrect ==
  ASSUME NEW xs \in Seq(Seq(Nat))
  PROVE  /\ UniqueHeader(xs) \in Seq(Seq(Nat))
         /\ Len(UniqueHeader(xs)) = Len(xs)
         /\ \A i, j \in 1..Len(xs) : UniqueHeader(xs)[i] = UniqueHeader(xs)[j] => i = j
         /\ \A i \in 1..Len(xs) : IsPrefix(xs[i], UniqueHeader(xs)[i])
<1>1. PICK r : /\ r[0] = <<>>
               /\ \A k \in 1..Len(xs) : r[k] = Append(r[k - 1], Rename(xs[k], r[k - 1]))
               /\ UniqueHeader(xs) = r[Len(xs)]
  BY HeaderSteps
<1> DEFINE N == Len(xs)
           Good(k) == /\ r[k] \in Seq(Seq(Nat)) /\ Len(r[k]) = k
                      /\ \A i, j \in 1..k : r[k][i] = r[k][j] => i = j
                      /\ \A i \in 1..k : IsPrefix(xs[i], r[k][i])
           T == {k \in 0..N : Good(k)}
<1>2. Good(0)
  <2>1. r[0] \in Seq(Seq(Nat)) /\ Len(r[0]) = 0 /\ 1..0 = {}
    BY <1>1
  <2> QED BY <2>1
<1>3. ASSUME NEW k \in 1..N, Good(k - 1) PROVE Good(k)
  <2> DEFINE h == r[k - 1]
             x == xs[k]
             y == Rename(x, h)
             t == r[k]
  <2>1. x \in Seq(Nat) /\ k \in Nat \ {0}
    OBVIOUS
  <2>2. h \in Seq(Seq(Nat)) /\ Len(h) = k - 1
    BY <1>3
  <2>3. t = Append(h, y)
    BY <1>1
  <2>4. y \in Seq(Nat) /\ ~Contains(h, y) /\ IsPrefix(x, y)
    <3> HIDE DEF h, x
    <3> QED BY <2>1, <2>2, Renamed
  <2> HIDE DEF y
  <2>5. /\ t \in Seq(Seq(Nat)) /\ Len(t) = k /\ t[k] = y
        /\ \A i \in 1..k - 1 : t[i] = h[i]
    <3> HIDE DEF h, t
    <3> QED BY <2>1, <2>2, <2>3, <2>4, Appended
  <2>6. \A i \in 1..k - 1 : h[i] # y
    <3> HIDE DEF h
    <3> QED BY <2>2, <2>4 DEF Contains
  <2>7. \A i, j \in 1..k - 1 : h[i] = h[j] => i = j
    BY <1>3
  <2>8. \A i \in 1..k - 1 : IsPrefix(xs[i], h[i])
    BY <1>3
  <2>9. \A i \in 1..k : i \in 1..k - 1 \/ i = k
    OBVIOUS
  <2> HIDE DEF h, t
  <2>10. \A i, j \in 1..k : t[i] = t[j] => i = j
    BY <2>5, <2>6, <2>7, <2>9
  <2>11. \A i \in 1..k : IsPrefix(xs[i], t[i])
    BY <2>4, <2>5, <2>8, <2>9 DEF x
  <2> QED BY <2>5, <2>10, <2>11 DEF t
<1>4. N \in T
  <2>1. N \in Nat /\ 0 \in T
    BY <1>2
  <2>2. \A k \in 1..N : k - 1 \in T => k \in T
    <3> HIDE DEF Good
    <3> QED BY <1>3
  <2> HIDE DEF T, N
  <2>3. 0..N \subseteq T
    BY <2>1, <2>2, InductionTo
  <2> QED BY <2>1, <2>3
<1> QED BY <1>1, <1>4

\* Names that differ are the columns as they are.
LEMMA HeaderOfNames ==
  ASSUME NEW xs \in Seq(Seq(Nat)), \A i, j \in 1..Len(xs) : xs[i] = xs[j] => i = j
  PROVE  UniqueHeader(xs) = xs
<1>1. PICK r : /\ r[0] = <<>>
               /\ \A k \in 1..Len(xs) : r[k] = Append(r[k - 1], Rename(xs[k], r[k - 1]))
               /\ UniqueHeader(xs) = r[Len(xs)]
  BY HeaderSteps
<1> DEFINE N == Len(xs)
           Good(k) == /\ r[k] \in Seq(Seq(Nat)) /\ Len(r[k]) = k
                      /\ \A i \in 1..k : r[k][i] = xs[i]
           T == {k \in 0..N : Good(k)}
<1>2. Good(0)
  <2>1. r[0] \in Seq(Seq(Nat)) /\ Len(r[0]) = 0 /\ 1..0 = {}
    BY <1>1
  <2> QED BY <2>1
<1>3. ASSUME NEW k \in 1..N, Good(k - 1) PROVE Good(k)
  <2> DEFINE h == r[k - 1]
             x == xs[k]
             t == r[k]
  <2>1. x \in Seq(Nat) /\ k \in Nat \ {0}
    OBVIOUS
  <2>2. h \in Seq(Seq(Nat)) /\ Len(h) = k - 1
    BY <1>3
  <2>3. ~Contains(h, x)
    <3>1. \A i \in 1..k - 1 : h[i] # x
      BY <1>3
    <3> HIDE DEF h, x
    <3> QED BY <2>2, <3>1 DEF Contains
  <2>4. t = Append(h, x)
    <3>1. t = Append(h, Rename(x, h))
      BY <1>1
    <3> HIDE DEF h, x, t
    <3> QED BY <2>3, <3>1 DEF Rename
  <2>5. /\ t \in Seq(Seq(Nat)) /\ Len(t) = k /\ t[k] = x
        /\ \A i \in 1..k - 1 : t[i] = h[i]
    <3> HIDE DEF h, t, x
    <3> QED BY <2>1, <2>2, <2>4, Appended
  <2>6. \A i \in 1..k - 1 : h[i] = xs[i]
    BY <1>3
  <2>7. \A i \in 1..k : i \in 1..k - 1 \/ i = k
    OBVIOUS
  <2> HIDE DEF h, t
  <2>8. \A i \in 1..k : t[i] = xs[i]
    BY <2>5, <2>6, <2>7 DEF x
  <2> QED BY <2>5, <2>8 DEF t
<1>4. N \in T
  <2>1. N \in Nat /\ 0 \in T
    BY <1>2
  <2>2. \A k \in 1..N : k - 1 \in T => k \in T
    <3> HIDE DEF Good
    <3> QED BY <1>3
  <2> HIDE DEF T, N
  <2>3. 0..N \subseteq T
    BY <2>1, <2>2, InductionTo
  <2> QED BY <2>1, <2>3
<1> QED BY <1>1, <1>4, SeqEqual

\* uniqueHeader gives columns of different names, each with the name in the
\* header as a prefix.
THEOREM ColumnsDiffer == Spec => []HeadersDiffer
<1>1. Invariant => HeadersDiffer
  <2> SUFFICES ASSUME Invariant, Converted("header")
               PROVE  /\ \A i, j \in DOMAIN input : output[1][i] = output[1][j] => i = j
                      /\ \A i \in DOMAIN input : IsPrefix(input[i], output[1][i])
    BY DEF HeadersDiffer
  <2>1. kind = "header" /\ output[1] = Result /\ input \in Inputs["header"]
    BY ConvertedResult
  <2>2. output[1] = UniqueHeader(input)
    BY <2>1 DEF Result
  <2>3. input \in Seq(Seq(Nat))
    BY <2>1, InputsAssumption DEF InputsTyped
  <2>4. DOMAIN input = 1..Len(input)
    BY <2>3
  <2> QED BY <2>2, <2>3, <2>4, HeaderCorrect
<1> QED BY <1>1, Invariance, PTL

----------------------------------------------------------------------------
(* Sequences: Outside, FlattenSeq, and parts of a sequence.                *)

\* The steps of Outside.
LEMMA OutsideSteps ==
  ASSUME NEW S, NEW B, NEW s \in Seq(S)
  PROVE  \E r : /\ r[0] = <<>>
                /\ \A k \in 1..Len(s) : r[k] = IF s[k] \in B THEN r[k - 1] ELSE Append(r[k - 1], s[k])
                /\ \A k \in 0..Len(s) : r[k] \in Seq(S)
                /\ Outside(s, B) = r[Len(s)]
<1> DEFINE N == Len(s)
           E == Seq(S)
           F(v, k) == IF s[k] \in B THEN v ELSE Append(v, s[k])
           Is(g) == g = [d \in SUBSET (1..N) |-> IF d = {} THEN <<>> ELSE F(g[d \ {Max(d)}], Max(d))]
           step == [p \in E \X (1..N) |-> F(p[1], p[2])]
<1>1. Outside(s, B) = (CHOOSE g : Is(g))[1..N]
  <2>1. 1..N = DOMAIN s
    OBVIOUS
  <2> QED BY <2>1 DEF Outside, FoldLeft, MapThenFoldSet
<1>2. ASSUME NEW v \in E, NEW k \in 1..N PROVE F(v, k) \in E
  <2>1. s[k] \in S
    OBVIOUS
  <2> QED BY <2>1, AppendProperties
<1>3. N \in Nat /\ <<>> \in E
  OBVIOUS
<1> HIDE DEF N, E, F
<1>4. \E g : Is(g)
  <2>1. step \in Steps(N, E)
    BY <1>2 DEF Steps
  <2> HIDE DEF step
  <2>2. PICK g : g \in FoldsOf(N, E, <<>>, step)
    BY <1>3, <2>1, FoldExists
  <2>3. ASSUME NEW d \in SUBSET (1..N), d # {}
        PROVE  step[<<g[d \ {Max(d)}], Max(d)>>] = F(g[d \ {Max(d)}], Max(d))
    <3>1. Max(d) \in d
      BY <1>3, <2>3, GreatestNumber
    <3>2. g \in [SUBSET (1..N) -> E]
      BY <2>2 DEF FoldsOf
    <3> QED BY <3>1, <3>2 DEF step
  <2>4. Is(g)
    BY <2>2, <2>3 DEF FoldsOf
  <2> HIDE DEF Is
  <2> QED BY <2>4
<1>5. PICK g : Is(g) /\ Outside(s, B) = g[1..N]
  <2> HIDE DEF Is
  <2> QED BY <1>1, <1>4
<1> DEFINE r == [k \in 0..N |-> g[1..k]]
<1>6. r[0] = <<>> /\ r[N] = g[1..N]
  <2>1. 1..0 = {} /\ {} \in SUBSET (1..N) /\ 0 \in 0..N /\ N \in 0..N
    BY <1>3
  <2> QED BY <1>5, <2>1
<1>7. ASSUME NEW k \in 1..N PROVE r[k] = F(r[k - 1], k)
  <2>1. Max(1..k) = k /\ (1..k) \ {k} = 1..k - 1 /\ 1..k # {}
    <3>1. k \in Nat \ {0}
      BY <1>3
    <3> QED BY <3>1, LastNumber
  <2>2. 1..k \in SUBSET (1..N)
    BY <1>3
  <2>3. r[k] = g[1..k] /\ r[k - 1] = g[1..k - 1]
    BY <1>3
  <2> HIDE DEF r
  <2> QED BY <1>5, <2>1, <2>2, <2>3
<1> HIDE DEF r
<1>8. \A k \in 0..N : r[k] \in E
  <2> DEFINE T == {k \in 0..N : r[k] \in E}
  <2>1. 0 \in T
    BY <1>3, <1>6
  <2>2. ASSUME NEW k \in 1..N, k - 1 \in T PROVE k \in T
    <3>1. r[k] \in E
      BY <1>2, <1>7, <2>2
    <3>2. k \in 0..N
      BY <1>3
    <3> QED BY <3>1, <3>2
  <2>3. 0..N \subseteq T
    <3> HIDE DEF T
    <3> QED BY <1>3, <2>1, <2>2, InductionTo
  <2> QED BY <2>3
<1> QED BY <1>5, <1>6, <1>7, <1>8 DEF N, F, E

\* What is outside of a set, of nothing and of a longer sequence.
LEMMA OutsideTyped ==
  ASSUME NEW S, NEW B, NEW s \in Seq(S)
  PROVE  Outside(s, B) \in Seq(S) /\ (s = <<>> => Outside(s, B) = <<>>)
<1>1. PICK r : /\ r[0] = <<>>
               /\ \A k \in 1..Len(s) : r[k] = IF s[k] \in B THEN r[k - 1] ELSE Append(r[k - 1], s[k])
               /\ \A k \in 0..Len(s) : r[k] \in Seq(S)
               /\ Outside(s, B) = r[Len(s)]
  BY OutsideSteps
<1>2. Len(s) \in 0..Len(s) /\ (s = <<>> => Len(s) = 0)
  OBVIOUS
<1> QED BY <1>1, <1>2

\* Nothing is outside in an empty sequence.
LEMMA OutsideEmpty ==
  ASSUME NEW B
  PROVE  Outside(<<>>, B) = <<>>
<1>1. \A s \in Seq(Nat) : s = <<>> => Outside(s, B) = <<>>
  BY OutsideTyped
<1>2. <<>> \in Seq(Nat)
  OBVIOUS
<1> QED BY <1>1, <1>2

\* One more element is dropped or appended.
LEMMA OutsideAppend ==
  ASSUME NEW S, NEW B, NEW s \in Seq(S), NEW e \in S
  PROVE  Outside(Append(s, e), B) = IF e \in B THEN Outside(s, B) ELSE Append(Outside(s, B), e)
<1> DEFINE n == Len(s)
           t == Append(s, e)
<1>1. /\ t \in Seq(S) /\ Len(t) = n + 1 /\ t[n + 1] = e /\ n \in Nat
      /\ \A k \in 1..n : t[k] = s[k]
  OBVIOUS
<1> HIDE DEF t
<1>2. PICK r : /\ r[0] = <<>>
               /\ \A k \in 1..Len(s) : r[k] = IF s[k] \in B THEN r[k - 1] ELSE Append(r[k - 1], s[k])
               /\ \A k \in 0..Len(s) : r[k] \in Seq(S)
               /\ Outside(s, B) = r[Len(s)]
  BY OutsideSteps
<1>3. PICK q : /\ q[0] = <<>>
               /\ \A k \in 1..Len(t) : q[k] = IF t[k] \in B THEN q[k - 1] ELSE Append(q[k - 1], t[k])
               /\ \A k \in 0..Len(t) : q[k] \in Seq(S)
               /\ Outside(t, B) = q[Len(t)]
  BY <1>1, OutsideSteps
<1>4. Len(s) = n /\ Len(t) = n + 1
  BY <1>1
<1> HIDE DEF n
<1>5. r[n] = q[n]
  <2>1. \A k \in 1..n : k \in 1..n + 1
    BY <1>1
  <2>2. \A k \in 1..n : r[k - 1] = q[k - 1] => r[k] = q[k]
    BY <1>1, <1>2, <1>3, <1>4, <2>1
  <2>3. r[0] = q[0] /\ n \in Nat
    BY <1>1, <1>2, <1>3
  <2> QED BY <2>2, <2>3, SameSteps
<1>6. q[n + 1] = IF e \in B THEN q[n] ELSE Append(q[n], e)
  <2>1. PICK k \in 1..n + 1 : k = n + 1 /\ k - 1 = n
    BY <1>1
  <2>2. q[k] = IF t[k] \in B THEN q[k - 1] ELSE Append(q[k - 1], t[k])
    BY <1>3, <1>4
  <2> QED BY <1>1, <2>1, <2>2
<1> QED BY <1>2, <1>3, <1>4, <1>5, <1>6 DEF t

\* A sequence with one more element after another sequence.
LEMMA AppendConcat ==
  ASSUME NEW S, NEW s \in Seq(S), NEW t \in Seq(S), NEW e \in S
  PROVE  s \o Append(t, e) = Append(s \o t, e)
<1>1. Append(t, e) = t \o <<e>> /\ <<e>> \in Seq(S) /\ s \o t \in Seq(S)
  BY AppendIsConcat, ConcatProperties
<1>2. Append(s \o t, e) = (s \o t) \o <<e>>
  BY <1>1, AppendIsConcat
<1> QED BY <1>1, <1>2, ConcatAssociative

\* Outside of a set in two sequences together.
LEMMA OutsideConcat ==
  ASSUME NEW S, NEW B, NEW s \in Seq(S), NEW t \in Seq(S)
  PROVE  Outside(s \o t, B) = Outside(s, B) \o Outside(t, B)
<1> DEFINE G == {u \in Seq(S) : Outside(s \o u, B) = Outside(s, B) \o Outside(u, B)}
<1>1. <<>> \in G
  <2>1. Outside(<<>>, B) = <<>> /\ Outside(s, B) \in Seq(S)
    BY OutsideEmpty, OutsideTyped
  <2>2. s \o <<>> = s /\ Outside(s, B) \o <<>> = Outside(s, B)
    BY <2>1, ConcatEmptySeq
  <2> QED BY <2>1, <2>2
<1>2. ASSUME NEW u \in Seq(S), NEW e \in S, u \in G PROVE Append(u, e) \in G
  <2>1. s \o Append(u, e) = Append(s \o u, e) /\ s \o u \in Seq(S) /\ Append(u, e) \in Seq(S)
    BY AppendConcat, ConcatProperties, AppendProperties
  <2>2. Outside(Append(s \o u, e), B) = IF e \in B THEN Outside(s \o u, B) ELSE Append(Outside(s \o u, B), e)
    <3> DEFINE w == s \o u
    <3>1. w \in Seq(S)
      BY <2>1
    <3> HIDE DEF w
    <3>2. Outside(Append(w, e), B) = IF e \in B THEN Outside(w, B) ELSE Append(Outside(w, B), e)
      BY <3>1, OutsideAppend
    <3> QED BY <3>2 DEF w
  <2>3. Outside(Append(u, e), B) = IF e \in B THEN Outside(u, B) ELSE Append(Outside(u, B), e)
    BY OutsideAppend
  <2>4. Outside(s, B) \in Seq(S) /\ Outside(u, B) \in Seq(S)
    BY OutsideTyped
  <2>5. Outside(s, B) \o Append(Outside(u, B), e) = Append(Outside(s, B) \o Outside(u, B), e)
    BY <2>4, AppendConcat
  <2>6. Outside(s \o u, B) = Outside(s, B) \o Outside(u, B)
    BY <1>2
  <2>7. Outside(s \o Append(u, e), B) = Outside(s, B) \o Outside(Append(u, e), B)
    BY <2>1, <2>2, <2>3, <2>5, <2>6
  <2> QED BY <2>1, <2>7
<1>3. Seq(S) \subseteq G
  <2> HIDE DEF G
  <2> QED BY <1>1, <1>2, SequenceInduction
<1> QED BY <1>3

\* Nothing is dropped when nothing is in the set, and all when all is.
LEMMA OutsideAllOrNone ==
  ASSUME NEW S, NEW B, NEW s \in Seq(S)
  PROVE  /\ (\A i \in 1..Len(s) : s[i] \notin B) => Outside(s, B) = s
         /\ (\A i \in 1..Len(s) : s[i] \in B) => Outside(s, B) = <<>>
<1> DEFINE G == {u \in Seq(S) : /\ (\A i \in 1..Len(u) : u[i] \notin B) => Outside(u, B) = u
                                /\ (\A i \in 1..Len(u) : u[i] \in B) => Outside(u, B) = <<>>}
<1>1. <<>> \in G
  <2>1. Outside(<<>>, B) = <<>> /\ <<>> \in Seq(S)
    BY OutsideEmpty
  <2> QED BY <2>1
<1>2. ASSUME NEW u \in Seq(S), NEW e \in S, u \in G PROVE Append(u, e) \in G
  <2> DEFINE w == Append(u, e)
             n == Len(u)
  <2>1. /\ w \in Seq(S) /\ Len(w) = n + 1 /\ w[n + 1] = e /\ n \in Nat
        /\ \A i \in 1..n : w[i] = u[i]
    BY AppendProperties
  <2>2. Outside(w, B) = IF e \in B THEN Outside(u, B) ELSE Append(Outside(u, B), e)
    BY OutsideAppend
  <2>3. /\ (\A i \in 1..n : u[i] \notin B) => Outside(u, B) = u
        /\ (\A i \in 1..n : u[i] \in B) => Outside(u, B) = <<>>
    BY <1>2
  <2>4. w = Append(u, e)
    OBVIOUS
  <2> HIDE DEF w, n
  <2>5. \A i \in 1..n : i \in 1..n + 1
    BY <2>1
  <2>6. n + 1 \in 1..n + 1
    BY <2>1
  <2>7. (\A i \in 1..n + 1 : w[i] \notin B) => Outside(w, B) = w
    BY <2>1, <2>2, <2>3, <2>4, <2>5, <2>6
  <2>8. (\A i \in 1..n + 1 : w[i] \in B) => Outside(w, B) = <<>>
    BY <2>1, <2>2, <2>3, <2>5, <2>6
  <2> QED BY <2>1, <2>7, <2>8 DEF w
<1>3. Seq(S) \subseteq G
  <2> HIDE DEF G
  <2> QED BY <1>1, <1>2, SequenceInduction
<1> QED BY <1>3

\* The steps of FlattenSeq.
LEMMA FlattenSteps ==
  ASSUME NEW S, NEW xs \in Seq(Seq(S))
  PROVE  \E r : /\ r[0] = <<>>
                /\ \A k \in 1..Len(xs) : r[k] \in Seq(S) /\ r[k] = r[k - 1] \o xs[k]
                /\ FlattenSeq(xs) = r[Len(xs)]
<1> DEFINE N == Len(xs)
           E == Seq(S)
           step == [p \in E \X (1..N) |-> p[1] \o xs[p[2]]]
           Is(f) == f = [i \in 1..N |-> IF i = 1 THEN xs[i] ELSE f[i - 1] \o xs[i]]
<1>1. N \in Nat /\ \A k \in 1..N : xs[k] \in E
  OBVIOUS
<1> HIDE DEF N
<1>2. step \in Steps(N, E)
  <2>1. \A v \in E, k \in 1..N : v \o xs[k] \in E
    BY <1>1, ConcatProperties
  <2> QED BY <2>1 DEF Steps
<1>3. PICK g : g \in FoldsOf(N, E, <<>>, step)
  <2>1. <<>> \in E
    OBVIOUS
  <2> HIDE DEF step, E
  <2> QED BY <1>1, <1>2, <2>1, FoldExists
<1>4. g \in [SUBSET (1..N) -> E] /\ g[{}] = <<>>
  BY <1>3 DEF FoldsOf
<1> DEFINE q == [k \in 0..N |-> g[1..k]]
<1>5. q[0] = <<>>
  BY <1>1, <1>4
<1>6. ASSUME NEW k \in 1..N
      PROVE  q[k] \in E /\ q[k - 1] \in E /\ q[k] = q[k - 1] \o xs[k]
  <2>1. Max(1..k) = k /\ (1..k) \ {k} = 1..k - 1 /\ 1..k # {}
    <3>1. k \in Nat \ {0}
      BY <1>1
    <3> QED BY <3>1, LastNumber
  <2>2. 1..k \in SUBSET (1..N) /\ 1..k - 1 \in SUBSET (1..N)
    BY <1>1
  <2>3. q[k] = g[1..k] /\ q[k - 1] = g[1..k - 1]
    BY <1>1
  <2>4. g[1..k] = step[<<g[1..k - 1], k>>]
    BY <1>3, <2>1, <2>2 DEF FoldsOf
  <2>5. g[1..k] \in E /\ g[1..k - 1] \in E
    BY <1>4, <2>2
  <2> QED BY <2>3, <2>4, <2>5
<1> DEFINE f == [i \in 1..N |-> q[i]]
<1>7. Is(f)
  <2>1. ASSUME NEW i \in 1..N PROVE q[i] = IF i = 1 THEN xs[i] ELSE f[i - 1] \o xs[i]
    <3>1. CASE i = 1
      <4>1. q[i] = <<>> \o xs[i]
        <5> HIDE DEF q
        <5>1. q[i] = q[i - 1] \o xs[i]
          BY <1>6
        <5>2. i - 1 = 0
          BY <3>1
        <5> QED BY <1>5, <5>1, <5>2
      <4>2. xs[i] \in Seq(S)
        BY <1>1
      <4> QED BY <3>1, <4>1, <4>2, ConcatEmptySeq
    <3>2. CASE i # 1
      <4>1. i - 1 \in 1..N
        BY <1>1, <3>2
      <4> HIDE DEF q
      <4> QED BY <1>6, <3>2, <4>1
    <3> QED BY <3>1, <3>2
  <2> HIDE DEF q
  <2> QED BY <2>1
<1>8. CASE N = 0
  <2>1. FlattenSeq(xs) = <<>>
    BY <1>8 DEF FlattenSeq, N
  <2> HIDE DEF q
  <2>2. \A k \in 1..N : FALSE
    BY <1>8
  <2> QED BY <1>5, <1>8, <2>1, <2>2 DEF N
<1>9. CASE N # 0
  <2>1. FlattenSeq(xs) = (CHOOSE h : Is(h))[N]
    BY <1>9 DEF FlattenSeq, N
  <2>2. PICK h : Is(h) /\ FlattenSeq(xs) = h[N]
    <3> HIDE DEF Is, f
    <3> QED BY <1>7, <2>1
  <2> DEFINE r == [k \in 0..N |-> IF k = 0 THEN <<>> ELSE h[k]]
  <2>3. r[0] = <<>> /\ r[N] = h[N]
    BY <1>1, <1>9
  <2> HIDE DEF q
  <2>4. ASSUME NEW k \in 1..N, r[k - 1] = q[k - 1] PROVE r[k] = r[k - 1] \o xs[k] /\ r[k] = q[k]
    <3>0. k \in 0..N /\ k # 0 /\ k - 1 \in 0..N
      BY <1>1
    <3>1. r[k] = h[k] /\ h[k] = IF k = 1 THEN xs[k] ELSE h[k - 1] \o xs[k]
      <4>1. r[k] = h[k]
        BY <3>0
      <4> HIDE DEF r
      <4> QED BY <2>2, <4>1
    <3>2. k = 1 => r[k] = <<>> \o xs[k]
      <4>1. xs[k] \in Seq(S)
        BY <1>1
      <4> QED BY <3>1, <4>1, ConcatEmptySeq
    <3>3. k # 1 => r[k - 1] = h[k - 1]
      BY <1>1
    <3>4. k = 1 => r[k - 1] = <<>>
      BY <1>1, <2>3
    <3> HIDE DEF r
    <3> QED BY <1>6, <2>4, <3>1, <3>2, <3>3, <3>4
  <2> HIDE DEF r
  <2> DEFINE T == {k \in 0..N : r[k] = q[k]}
  <2>5. 0..N \subseteq T
    <3>1. 0 \in T
      BY <1>1, <1>5, <2>3
    <3>2. ASSUME NEW k \in 1..N, k - 1 \in T PROVE k \in T
      <4>1. r[k - 1] = q[k - 1]
        BY <3>2
      <4>2. r[k] = q[k]
        BY <2>4, <4>1
      <4>3. k \in 0..N
        BY <1>1
      <4> QED BY <4>2, <4>3
    <3> HIDE DEF T
    <3> QED BY <1>1, <3>1, <3>2, InductionTo
  <2>6. \A k \in 1..N : r[k] \in Seq(S) /\ r[k] = r[k - 1] \o xs[k]
    <3>1. \A k \in 1..N : r[k] = q[k] /\ r[k - 1] = q[k - 1]
      BY <1>1, <2>5
    <3> QED BY <1>6, <2>4, <3>1
  <2> QED BY <2>2, <2>3, <2>6 DEF N
<1> QED BY <1>8, <1>9

\* What is flattened of a longer sequence.
LEMMA Flattened ==
  ASSUME NEW S
  PROVE  /\ FlattenSeq(<<>>) = <<>>
         /\ \A xs \in Seq(Seq(S)), x \in Seq(S) :
              /\ FlattenSeq(xs) \in Seq(S)
              /\ FlattenSeq(Append(xs, x)) = FlattenSeq(xs) \o x
<1>1. FlattenSeq(<<>>) = <<>>
  BY DEF FlattenSeq
<1>2. ASSUME NEW xs \in Seq(Seq(S)) PROVE FlattenSeq(xs) \in Seq(S)
  <2>1. Len(xs) \in Nat
    OBVIOUS
  <2>2. Len(xs) = 0 \/ Len(xs) \in 1..Len(xs)
    BY <2>1
  <2>3. PICK r : /\ r[0] = <<>> /\ \A k \in 1..Len(xs) : r[k] \in Seq(S)
                 /\ FlattenSeq(xs) = r[Len(xs)]
    BY FlattenSteps
  <2>4. r[0] \in Seq(S)
    BY <2>3
  <2> QED BY <2>2, <2>3, <2>4
<1>3. ASSUME NEW xs \in Seq(Seq(S)), NEW x \in Seq(S)
      PROVE  FlattenSeq(Append(xs, x)) = FlattenSeq(xs) \o x
  <2> DEFINE n == Len(xs)
             ys == Append(xs, x)
  <2>1. /\ ys \in Seq(Seq(S)) /\ Len(ys) = n + 1 /\ ys[n + 1] = x /\ n \in Nat
        /\ \A k \in 1..n : ys[k] = xs[k]
    OBVIOUS
  <2> HIDE DEF ys
  <2>2. PICK r : /\ r[0] = <<>> /\ \A k \in 1..n : r[k] = r[k - 1] \o xs[k]
                 /\ FlattenSeq(xs) = r[n]
    BY FlattenSteps
  <2>3. PICK q : /\ q[0] = <<>> /\ \A k \in 1..n + 1 : q[k] = q[k - 1] \o ys[k]
                 /\ FlattenSeq(ys) = q[n + 1]
    <3>1. PICK q : /\ q[0] = <<>> /\ \A k \in 1..Len(ys) : q[k] = q[k - 1] \o ys[k]
                   /\ FlattenSeq(ys) = q[Len(ys)]
      BY <2>1, FlattenSteps
    <3> HIDE DEF n
    <3>2. Len(ys) = n + 1
      BY <2>1
    <3> QED BY <3>1, <3>2
  <2> HIDE DEF n
  <2>4. r[n] = q[n]
    <3>1. \A k \in 1..n : k \in 1..n + 1
      BY <2>1
    <3>2. \A k \in 1..n : r[k - 1] = q[k - 1] => r[k] = q[k]
      BY <2>1, <2>2, <2>3, <3>1
    <3>3. r[0] = q[0] /\ n \in Nat
      BY <2>1, <2>2, <2>3
    <3> QED BY <3>2, <3>3, SameSteps
  <2>5. q[n + 1] = q[n] \o ys[n + 1]
    <3>1. PICK k \in 1..n + 1 : k = n + 1 /\ k - 1 = n
      BY <2>1
    <3>2. q[k] = q[k - 1] \o ys[k]
      BY <2>3
    <3> QED BY <3>1, <3>2
  <2> QED BY <2>1, <2>2, <2>3, <2>4, <2>5 DEF ys
<1> QED BY <1>1, <1>2, <1>3

\* Two sequences are flattened one after the other.
LEMMA FlattenConcat ==
  ASSUME NEW S, NEW xs \in Seq(Seq(S)), NEW ys \in Seq(Seq(S))
  PROVE  FlattenSeq(xs \o ys) = FlattenSeq(xs) \o FlattenSeq(ys)
<1> DEFINE G == {u \in Seq(Seq(S)) : FlattenSeq(xs \o u) = FlattenSeq(xs) \o FlattenSeq(u)}
<1>1. <<>> \in G
  <2>1. FlattenSeq(<<>>) = <<>> /\ FlattenSeq(xs) \in Seq(S) /\ <<>> \in Seq(Seq(S))
    BY Flattened
  <2>2. xs \o <<>> = xs /\ FlattenSeq(xs) \o <<>> = FlattenSeq(xs)
    BY <2>1, ConcatEmptySeq
  <2> QED BY <2>1, <2>2
<1>2. ASSUME NEW u \in Seq(Seq(S)), NEW x \in Seq(S), u \in G PROVE Append(u, x) \in G
  <2>1. /\ xs \o Append(u, x) = Append(xs \o u, x) /\ xs \o u \in Seq(Seq(S))
        /\ Append(u, x) \in Seq(Seq(S))
    BY AppendConcat, ConcatProperties, AppendProperties
  <2>2. FlattenSeq(Append(xs \o u, x)) = FlattenSeq(xs \o u) \o x
    BY <2>1, Flattened
  <2>3. FlattenSeq(Append(u, x)) = FlattenSeq(u) \o x
    BY Flattened
  <2>4. FlattenSeq(xs) \in Seq(S) /\ FlattenSeq(u) \in Seq(S)
    BY Flattened
  <2>5. FlattenSeq(xs \o u) = FlattenSeq(xs) \o FlattenSeq(u)
    BY <1>2
  <2>6. (FlattenSeq(xs) \o FlattenSeq(u)) \o x = FlattenSeq(xs) \o (FlattenSeq(u) \o x)
    BY <2>4, ConcatAssociative
  <2>7. FlattenSeq(xs \o Append(u, x)) = FlattenSeq(xs) \o FlattenSeq(Append(u, x))
    BY <2>1, <2>2, <2>3, <2>5, <2>6
  <2> QED BY <2>1, <2>7
<1>3. Seq(Seq(S)) \subseteq G
  <2> HIDE DEF G
  <2> QED BY <1>1, <1>2, SequenceInduction
<1> QED BY <1>3

----------------------------------------------------------------------------
(* The reader of an iterator (iterReader).                                 *)

\* The lines of an iterator, each with the new line that the reader puts after it.
Ended(lines) == [i \in DOMAIN lines |-> Append(lines[i], NewLine)]

\* The readers that have given a part of what there is to give, and will give
\* the rest.
Readers(all) ==
  {r \in [buf : Seq(Nat), rest : Seq(Seq(Nat)), done : BOOLEAN, out : Seq(Nat), eof : BOOLEAN] :
     /\ r.out \o (r.buf \o FlattenSeq(Ended(r.rest))) = all
     /\ r.done \/ r.eof => r.out = all}

\* The lines with their new lines are sequences of characters.
LEMMA EndedTyped ==
  ASSUME NEW lines \in Seq(Seq(Nat))
  PROVE  /\ Ended(lines) \in Seq(Seq(Nat)) /\ Len(Ended(lines)) = Len(lines)
         /\ \A i \in 1..Len(lines) : Ended(lines)[i] = Append(lines[i], NewLine)
         /\ FlattenSeq(Ended(lines)) \in Seq(Nat)
<1>1. \A i \in 1..Len(lines) : Append(lines[i], NewLine) \in Seq(Nat)
  BY AppendProperties DEF NewLine
<1>2. Ended(lines) = [i \in 1..Len(lines) |-> Append(lines[i], NewLine)]
  BY DEF Ended
<1>3. Ended(lines) \in Seq(Seq(Nat)) /\ Len(Ended(lines)) = Len(lines)
  BY <1>1, <1>2
<1>4. FlattenSeq(Ended(lines)) \in Seq(Nat)
  BY <1>3, Flattened
<1> QED BY <1>2, <1>3, <1>4

\* What is filled is what was in the buffer and the next lines. It is short
\* only at the end.
LEMMA Filling ==
  ASSUME NEW r, r.buf \in Seq(Nat), r.rest \in Seq(Seq(Nat)), NEW n \in Nat
  PROVE  LET f == Fill(r, n) IN
         /\ f.buf \in Seq(Nat) /\ f.rest \in Seq(Seq(Nat))
         /\ f.buf \o FlattenSeq(Ended(f.rest)) = r.buf \o FlattenSeq(Ended(r.rest))
         /\ Len(f.buf) < n => f.rest = <<>>
<1> DEFINE N == Len(r.rest)
           first(j) == [i \in 1..j |-> Append(r.rest[i], NewLine)]
           upto(j) == r.buf \o FlattenSeq(first(j))
           C == {i \in 0..N : i = N \/ Len(upto(i)) >= n}
           k == CHOOSE i \in 0..N : /\ i = N \/ Len(upto(i)) >= n
                                    /\ \A j \in 0..i - 1 : Len(upto(j)) < n
           last(j) == SubSeq(r.rest, j + 1, N)
<1>1. Fill(r, n) = [buf |-> upto(k), rest |-> last(k)]
  BY DEF Fill
<1>2. N \in Nat /\ \A i \in 1..N : r.rest[i] \in Seq(Nat) /\ Append(r.rest[i], NewLine) \in Seq(Nat)
  BY AppendProperties DEF NewLine
<1>3. ASSUME NEW j \in 0..N
      PROVE  /\ upto(j) \in Seq(Nat) /\ last(j) \in Seq(Seq(Nat))
             /\ upto(j) \o FlattenSeq(Ended(last(j))) = r.buf \o FlattenSeq(Ended(r.rest))
  <2>1. first(j) \in Seq(Seq(Nat)) /\ Len(first(j)) = j
    BY <1>2
  <2>2. /\ last(j) \in Seq(Seq(Nat)) /\ Len(last(j)) = N - j
        /\ \A i \in 1..N - j : last(j)[i] = r.rest[j + i]
    BY <1>2
  <2>3. \A i \in 1..j : first(j)[i] = Append(r.rest[i], NewLine)
    OBVIOUS
  <2> HIDE DEF first, last
  <2>4. first(j) \o Ended(last(j)) = Ended(r.rest)
    <3> DEFINE a == first(j)
               b == Ended(last(j))
               c == Ended(r.rest)
    <3>1. /\ b \in Seq(Seq(Nat)) /\ Len(b) = N - j
          /\ \A i \in 1..N - j : b[i] = Append(r.rest[j + i], NewLine)
      <4> DEFINE l == last(j)
      <4>1. l \in Seq(Seq(Nat)) /\ Len(l) = N - j /\ \A i \in 1..N - j : l[i] = r.rest[j + i]
        BY <2>2
      <4> HIDE DEF l, N
      <4>2. /\ Ended(l) \in Seq(Seq(Nat)) /\ Len(Ended(l)) = N - j
            /\ \A i \in 1..N - j : Ended(l)[i] = Append(l[i], NewLine)
        BY <4>1, EndedTyped
      <4> QED BY <4>1, <4>2 DEF l
    <3>2. /\ c \in Seq(Seq(Nat)) /\ Len(c) = N
          /\ \A i \in 1..N : c[i] = Append(r.rest[i], NewLine)
      BY EndedTyped
    <3>3. a \in Seq(Seq(Nat)) /\ Len(a) = j /\ \A i \in 1..j : a[i] = Append(r.rest[i], NewLine)
      BY <2>1, <2>3
    <3> HIDE DEF a, b, c, N
    <3>4. /\ a \o b \in Seq(Seq(Nat)) /\ Len(a \o b) = N
          /\ \A i \in 1..N : (a \o b)[i] = IF i <= j THEN a[i] ELSE b[i - j]
      BY <1>2, <3>1, <3>3, ConcatProperties
    <3>5. ASSUME NEW i \in 1..N PROVE (a \o b)[i] = c[i]
      <4>1. CASE i <= j
        <5>1. i \in 1..j
          BY <1>2, <4>1
        <5> QED BY <3>2, <3>3, <3>4, <4>1, <5>1
      <4>2. CASE ~ (i <= j)
        <5>1. i - j \in 1..N - j /\ j + (i - j) = i
          BY <1>2, <4>2
        <5>2. b[i - j] = Append(r.rest[i], NewLine)
          BY <3>1, <5>1
        <5> QED BY <3>2, <3>4, <4>2, <5>2
      <4> QED BY <4>1, <4>2
    <3>6. a \o b = c
      BY <3>2, <3>4, <3>5, SeqEqual
    <3> QED BY <3>6 DEF a, b, c
  <2>5. Ended(last(j)) \in Seq(Seq(Nat))
    BY <2>2, EndedTyped
  <2>6. FlattenSeq(Ended(r.rest)) = FlattenSeq(first(j)) \o FlattenSeq(Ended(last(j)))
    BY <2>1, <2>4, <2>5, FlattenConcat
  <2>7. FlattenSeq(first(j)) \in Seq(Nat) /\ FlattenSeq(Ended(last(j))) \in Seq(Nat)
    BY <2>1, <2>5, Flattened
  <2>8. upto(j) \in Seq(Nat)
    BY <2>7, ConcatProperties
  <2>9. upto(j) \o FlattenSeq(Ended(last(j))) = r.buf \o (FlattenSeq(first(j)) \o FlattenSeq(Ended(last(j))))
    <3> DEFINE a == FlattenSeq(first(j))
               b == FlattenSeq(Ended(last(j)))
               c == r.buf
    <3>1. a \in Seq(Nat) /\ b \in Seq(Nat) /\ c \in Seq(Nat)
      BY <2>7
    <3> HIDE DEF a, b, c
    <3>2. (c \o a) \o b = c \o (a \o b)
      BY ONLY <3>1, ConcatAssociative
    <3> QED BY <3>2 DEF a, b, c, upto
  <2> QED BY <2>2, <2>6, <2>8, <2>9
<1> HIDE DEF first, upto, last
<1>4. k \in 0..N /\ (k = N \/ Len(upto(k)) >= n)
  <2>1. C \subseteq Nat /\ N \in C
    BY <1>2
  <2>2. PICK i \in C : \A j \in C : i <= j
    <3> HIDE DEF C
    <3> QED BY <2>1, LeastNumber
  <2>3. ASSUME NEW j \in 0..i - 1 PROVE Len(upto(j)) < n
    <3>1. j \in 0..N /\ j < i
      BY <1>2
    <3>2. j \notin C
      BY <2>2, <3>1
    <3>3. upto(j) \in Seq(Nat)
      BY <1>3, <3>1
    <3> QED BY <3>1, <3>2, <3>3
  <2>4. i \in 0..N /\ (i = N \/ Len(upto(i)) >= n)
    OBVIOUS
  <2> HIDE DEF C, N
  <2> QED BY <2>3, <2>4
<1> HIDE DEF k
<1>5. k = N => last(k) = <<>>
  BY <1>2 DEF last
<1>6. upto(k) \in Seq(Nat)
  BY <1>3, <1>4
<1>7. Len(upto(k)) < n => last(k) = <<>>
  BY <1>4, <1>5, <1>6
<1> HIDE DEF N
<1> DEFINE f == Fill(r, n)
<1>8. f.buf = upto(k) /\ f.rest = last(k)
  BY <1>1
<1> HIDE DEF f
<1>9. /\ f.buf \in Seq(Nat) /\ f.rest \in Seq(Seq(Nat))
      /\ f.buf \o FlattenSeq(Ended(f.rest)) = r.buf \o FlattenSeq(Ended(r.rest))
      /\ Len(f.buf) < n => f.rest = <<>>
  <2>1. /\ upto(k) \in Seq(Nat) /\ last(k) \in Seq(Seq(Nat))
        /\ upto(k) \o FlattenSeq(Ended(last(k))) = r.buf \o FlattenSeq(Ended(r.rest))
    BY <1>3, <1>4
  <2> QED BY <1>7, <1>8, <2>1
<1> QED BY <1>9 DEF f

\* To read keeps what has been given and will be given.
LEMMA ReadKeeps ==
  ASSUME NEW all \in Seq(Nat), NEW r \in Readers(all), NEW n \in Nat
  PROVE  ReadBytes(r, n) \in Readers(all)
<1> DEFINE f == Fill(r, n)
           given == SubSeq(f.buf, 1, n)
           kept == SubSeq(f.buf, n + 1, Len(f.buf))
<1>1. /\ r \in [buf : Seq(Nat), rest : Seq(Seq(Nat)), done : BOOLEAN, out : Seq(Nat), eof : BOOLEAN]
      /\ r.out \o (r.buf \o FlattenSeq(Ended(r.rest))) = all
      /\ r.done \/ r.eof => r.out = all
  BY DEF Readers
<1>2. CASE r.done
  <2>1. ReadBytes(r, n) = [r EXCEPT !.eof = TRUE]
    BY <1>2 DEF ReadBytes
  <2> QED BY <1>1, <1>2, <2>1 DEF Readers
<1>3. CASE ~r.done
  <2>1. /\ f.buf \in Seq(Nat) /\ f.rest \in Seq(Seq(Nat))
        /\ f.buf \o FlattenSeq(Ended(f.rest)) = r.buf \o FlattenSeq(Ended(r.rest))
        /\ Len(f.buf) < n => f.rest = <<>>
    BY <1>1, Filling
  <2>2. FlattenSeq(Ended(f.rest)) \in Seq(Nat)
    BY <2>1, EndedTyped
  <2> HIDE DEF f
  <2>3. CASE Len(f.buf) >= n
    <3>1. ReadBytes(r, n) = [r EXCEPT !.buf = kept, !.rest = f.rest, !.out = r.out \o given]
      BY <1>3, <2>3 DEF ReadBytes, f
    <3>2. given \in Seq(Nat) /\ kept \in Seq(Nat) /\ given \o kept = f.buf
      <4>1. n \in 0..Len(f.buf) /\ Len(f.buf) \in Nat
        BY <2>1, <2>3
      <4>2. given \o kept = SubSeq(f.buf, 1, Len(f.buf))
        <5> DEFINE b == f.buf
        <5>1. b \in Seq(Nat) /\ 1 \in 1..Len(b) + 1 /\ n \in 1 - 1..Len(b) /\ Len(b) \in n..Len(b)
          BY <2>1, <4>1
        <5> HIDE DEF b
        <5>2. SubSeq(b, 1, n) \o SubSeq(b, n + 1, Len(b)) = SubSeq(b, 1, Len(b))
          BY <5>1, ConcatAdjacentSubSeq
        <5> QED BY <5>2 DEF b
      <4>3. SubSeq(f.buf, 1, Len(f.buf)) = f.buf
        BY <2>1, SubSeqFull
      <4>4. given \in Seq(Nat) /\ kept \in Seq(Nat)
        BY <2>1, <4>1
      <4> QED BY <4>2, <4>3, <4>4
    <3> DEFINE later == FlattenSeq(Ended(f.rest))
    <3> HIDE DEF given, kept, later
    <3>3. r.out \o given \in Seq(Nat)
      BY <1>1, <3>2, ConcatProperties
    <3>4. (r.out \o given) \o (kept \o later) = all
      <4>1. later \in Seq(Nat) /\ kept \o later \in Seq(Nat)
        BY <2>2, <3>2, ConcatProperties DEF later
      <4>2. (r.out \o given) \o (kept \o later) = r.out \o ((given \o kept) \o later)
        <5> DEFINE o == r.out
        <5>1. o \in Seq(Nat) /\ given \in Seq(Nat) /\ kept \in Seq(Nat) /\ later \in Seq(Nat)
          BY <1>1, <3>2, <4>1
        <5> HIDE DEF o
        <5>2. (o \o given) \o (kept \o later) = o \o ((given \o kept) \o later)
          <6> DEFINE u == kept \o later
          <6>1. u \in Seq(Nat) /\ o \in Seq(Nat) /\ given \in Seq(Nat)
            BY <4>1, <5>1
          <6> HIDE DEF u
          <6>2. (o \o given) \o u = o \o (given \o u)
            BY ONLY <6>1, ConcatAssociative
          <6>3. (given \o kept) \o later = given \o u
            BY ONLY <5>1, ConcatAssociative DEF u
          <6> QED BY <6>2, <6>3 DEF u
        <5> QED BY <5>2 DEF o
      <4> QED BY <1>1, <2>1, <3>2, <4>2 DEF later
    <3>5. ~r.eof \/ r.out = all
      BY <1>1
    <3>6. r.eof => r.out \o given = all
      <4> SUFFICES ASSUME r.out = all PROVE r.out \o given = all
        BY <3>5
      <4>1. r.buf \o FlattenSeq(Ended(r.rest)) \in Seq(Nat)
        BY <2>1, <2>2, ConcatProperties
      <4>2. f.buf \o later = <<>>
        BY <1>1, <2>1, <4>1, ConcatEqualIffEmpty DEF later
      <4>3. f.buf = <<>>
        BY <2>1, <2>2, <4>2, ConcatEqualIffEmpty DEF later
      <4>4. given = <<>>
        BY <3>2, <4>3, ConcatEqualIffEmpty
      <4> QED BY <1>1, <4>4, ConcatEmptySeq
    <3> QED BY <1>1, <1>3, <2>1, <3>1, <3>2, <3>3, <3>4, <3>6 DEF Readers, later
  <2>4. CASE ~ (Len(f.buf) >= n)
    <3>1. ReadBytes(r, n) = [r EXCEPT !.buf = <<>>, !.rest = <<>>, !.done = TRUE,
                                      !.out = r.out \o f.buf, !.eof = r.out \o f.buf = <<>>]
      BY <1>3, <2>4 DEF ReadBytes, f
    <3>2. f.rest = <<>> /\ FlattenSeq(Ended(<<>>)) = <<>>
      <4>1. f.rest = <<>>
        BY <2>1, <2>4
      <4>2. Ended(<<>>) = <<>>
        BY DEF Ended
      <4>3. FlattenSeq(<<>>) = <<>>
        BY DEF FlattenSeq
      <4> QED BY <4>1, <4>2, <4>3
    <3>3. f.buf \o <<>> = f.buf /\ r.out \o f.buf \in Seq(Nat)
      BY <1>1, <2>1, ConcatEmptySeq, ConcatProperties
    <3>4. r.out \o f.buf = all
      BY <1>1, <2>1, <3>2, <3>3
    <3>5. all \o (<<>> \o <<>>) = all
      <4>1. <<>> \in Seq(Nat)
        OBVIOUS
      <4>2. <<>> \o <<>> = <<>>
        BY <4>1, ConcatEmptySeq
      <4> QED BY <4>2, ConcatEmptySeq
    <3>6. <<>> \in Seq(Nat) /\ <<>> \in Seq(Seq(Nat)) /\ (r.out \o f.buf = <<>>) \in BOOLEAN
      OBVIOUS
    <3> QED BY <1>1, <3>1, <3>2, <3>3, <3>4, <3>5, <3>6 DEF Readers
  <2> QED BY <2>3, <2>4
<1> QED BY <1>2, <1>3

\* A reader that has given nothing will give all.
LEMMA ReaderStarts ==
  ASSUME NEW lines \in Seq(Seq(Nat)), NEW sizes \in Seq(Nat)
  PROVE  Len(sizes) \in Nat /\ ReaderOf(lines) \in Readers(FlattenSeq(Ended(lines)))
<1>1. FlattenSeq(Ended(lines)) \in Seq(Nat) /\ <<>> \in Seq(Nat)
  BY EndedTyped
<1>2. <<>> \o (<<>> \o FlattenSeq(Ended(lines))) = FlattenSeq(Ended(lines))
  BY <1>1, ConcatEmptySeq
<1>3. Len(sizes) \in Nat
  OBVIOUS
<1> QED BY <1>1, <1>2, <1>3 DEF ReaderOf, Readers

\* The reads of an iterator: each keeps what is to be given.
LEMMA ReaderSteps ==
  ASSUME NEW lines \in Seq(Seq(Nat)), NEW sizes \in Seq(Nat)
  PROVE  \E r : /\ r[0] = ReaderOf(lines)
                /\ \A k \in 1..Len(sizes) : r[k] = ReadBytes(r[k - 1], sizes[k])
                /\ \A k \in 0..Len(sizes) : r[k] \in Readers(FlattenSeq(Ended(lines)))
                /\ FoldLeft(ReadBytes, ReaderOf(lines), sizes) = r[Len(sizes)]
<1> DEFINE N == Len(sizes)
           E == Readers(FlattenSeq(Ended(lines)))
           F(v, k) == ReadBytes(v, sizes[k])
           Is(g) == g = [d \in SUBSET (1..N) |-> IF d = {} THEN ReaderOf(lines) ELSE F(g[d \ {Max(d)}], Max(d))]
           step == [p \in E \X (1..N) |-> F(p[1], p[2])]
<1>1. FoldLeft(ReadBytes, ReaderOf(lines), sizes) = (CHOOSE g : Is(g))[1..N]
  <2>1. 1..N = DOMAIN sizes
    OBVIOUS
  <2> QED BY <2>1 DEF ReaderOf, FoldLeft, MapThenFoldSet
<1>2. ASSUME NEW v \in E, NEW k \in 1..N PROVE F(v, k) \in E
  <2>1. sizes[k] \in Nat /\ FlattenSeq(Ended(lines)) \in Seq(Nat)
    BY EndedTyped
  <2> QED BY <2>1, ReadKeeps
<1>3. N \in Nat /\ ReaderOf(lines) \in E
  BY ReaderStarts
<1> HIDE DEF N, E, F
<1>4. \E g : Is(g)
  <2>1. step \in Steps(N, E)
    BY <1>2 DEF Steps
  <2> HIDE DEF step
  <2>2. PICK g : g \in FoldsOf(N, E, ReaderOf(lines), step)
    BY <1>3, <2>1, FoldExists
  <2>3. ASSUME NEW d \in SUBSET (1..N), d # {}
        PROVE  step[<<g[d \ {Max(d)}], Max(d)>>] = F(g[d \ {Max(d)}], Max(d))
    <3>1. Max(d) \in d
      BY <1>3, <2>3, GreatestNumber
    <3>2. g \in [SUBSET (1..N) -> E]
      BY <2>2 DEF FoldsOf
    <3> QED BY <3>1, <3>2 DEF step
  <2>4. Is(g)
    BY <2>2, <2>3 DEF FoldsOf
  <2> HIDE DEF Is
  <2> QED BY <2>4
<1>5. PICK g : Is(g) /\ FoldLeft(ReadBytes, ReaderOf(lines), sizes) = g[1..N]
  <2> HIDE DEF Is
  <2> QED BY <1>1, <1>4
<1> DEFINE r == [k \in 0..N |-> g[1..k]]
<1>6. r[0] = ReaderOf(lines) /\ r[N] = g[1..N]
  <2>1. 1..0 = {} /\ {} \in SUBSET (1..N) /\ 0 \in 0..N /\ N \in 0..N
    BY <1>3
  <2> QED BY <1>5, <2>1
<1>7. ASSUME NEW k \in 1..N PROVE r[k] = F(r[k - 1], k)
  <2>1. Max(1..k) = k /\ (1..k) \ {k} = 1..k - 1 /\ 1..k # {}
    <3>1. k \in Nat \ {0}
      BY <1>3
    <3> QED BY <3>1, LastNumber
  <2>2. 1..k \in SUBSET (1..N)
    BY <1>3
  <2>3. r[k] = g[1..k] /\ r[k - 1] = g[1..k - 1]
    BY <1>3
  <2> HIDE DEF r
  <2> QED BY <1>5, <2>1, <2>2, <2>3
<1> HIDE DEF r
<1>8. \A k \in 0..N : r[k] \in E
  <2> DEFINE T == {k \in 0..N : r[k] \in E}
  <2>1. 0 \in T
    BY <1>3, <1>6
  <2>2. ASSUME NEW k \in 1..N, k - 1 \in T PROVE k \in T
    <3>1. r[k] \in E
      BY <1>2, <1>7, <2>2
    <3>2. k \in 0..N
      BY <1>3
    <3> QED BY <3>1, <3>2
  <2>3. 0..N \subseteq T
    <3> HIDE DEF T
    <3> QED BY <1>3, <2>1, <2>2, InductionTo
  <2> QED BY <2>3
<1> QED BY <1>5, <1>6, <1>7, <1>8 DEF N, F, E

----------------------------------------------------------------------------
(* The reader of a file-like object.                                       *)

\* The place of the first new line, or the place after the end.
LEMMA LineEnds ==
  ASSUME NEW s \in Seq(Nat)
  PROVE  /\ LineEnd(s) \in 1..Len(s) + 1
         /\ \A i \in 1..LineEnd(s) - 1 : s[i] # EOL
         /\ LineEnd(s) <= Len(s) => s[LineEnd(s)] = EOL
<1> DEFINE I == {i \in 1..Len(s) : s[i] = EOL}
<1>1. Len(s) \in Nat
  OBVIOUS
<1>2. CASE I = {}
  <2>1. ~Contains(s, EOL)
    BY <1>2 DEF Contains
  <2>2. LineEnd(s) = Len(s) + 1
    BY <2>1 DEF LineEnd
  <2> QED BY <1>1, <1>2, <2>2
<1>3. CASE I # {}
  <2>1. Contains(s, EOL)
    BY <1>3 DEF Contains
  <2>2. LineEnd(s) = Min(I)
    BY <1>3, <2>1 DEF LineEnd, SelectInSeq
  <2>3. PICK n \in I : \A m \in I : n <= m
    <3>1. I \subseteq Nat
      OBVIOUS
    <3> HIDE DEF I
    <3> QED BY <1>3, <3>1, LeastNumber
  <2>4. Min(I) \in I /\ \A m \in I : Min(I) <= m
    <3> HIDE DEF I
    <3> QED BY <2>3 DEF Min
  <2> DEFINE m == Min(I)
  <2>5. m \in 1..Len(s) /\ s[m] = EOL
    <3>1. m \in I
      BY <2>4
    <3> HIDE DEF m
    <3> QED BY <3>1
  <2>6. \A i \in 1..m - 1 : s[i] # EOL
    <3>1. \A j \in I : m <= j
      BY <2>4
    <3> HIDE DEF m
    <3>2. ASSUME NEW i \in 1..m - 1 PROVE i \in 1..Len(s) /\ ~(m <= i)
      BY <1>1, <2>5
    <3> QED BY <3>1, <3>2
  <2>7. LineEnd(s) = m
    BY <2>2
  <2> HIDE DEF m, I
  <2> QED BY <1>1, <2>5, <2>6, <2>7
<1> QED BY <1>2, <1>3

\* A text in which no line fills the buffer.
IsShort(s) ==
  \A i \in 1..Len(s) - BufferSize + 1 : \E j \in i..i + BufferSize - 1 : s[j] = EOL

\* What has been read by lines, of a text: the lines, and what is left. When
\* the text does not end with a new line, the last line is as if it did.
LinesText(a) == FlattenSeq(Ended(a.values))

LineReads(s) ==
  {a \in [values : Seq(Seq(Nat)), reader : [rest : Seq(Nat), buffered : Nat], ended : BOOLEAN] :
     /\ a.ended => a.reader.rest = <<>>
     /\ \A i \in 1..Len(a.values) : ~Contains(a.values[i], EOL)
     /\ LinesText(a) # <<>> => LinesText(a)[Len(LinesText(a))] = EOL
     /\ \/ LinesText(a) \o a.reader.rest = s
        \/ a.reader.rest = <<>> /\ s # <<>> /\ s[Len(s)] # EOL /\ LinesText(a) = Append(s, EOL)}

\* One more line is read: its characters and a new line come after the others.
LEMMA EndedAppend ==
  ASSUME NEW vs \in Seq(Seq(Nat)), NEW v \in Seq(Nat)
  PROVE  FlattenSeq(Ended(Append(vs, v))) = FlattenSeq(Ended(vs)) \o Append(v, EOL)
<1> DEFINE ws == Append(vs, v)
           a == Ended(ws)
           e == Ended(vs)
           n == Len(vs)
           x == Append(v, EOL)
           b == Append(e, x)
<1>1. /\ ws \in Seq(Seq(Nat)) /\ Len(ws) = n + 1 /\ ws[n + 1] = v /\ n \in Nat
      /\ \A i \in 1..n : ws[i] = vs[i]
  OBVIOUS
<1>2. x \in Seq(Nat) /\ x = Append(v, NewLine)
  BY AppendProperties DEF EOL, NewLine
<1>3. /\ e \in Seq(Seq(Nat)) /\ Len(e) = n
      /\ \A i \in 1..n : e[i] = Append(vs[i], NewLine)
  BY EndedTyped
<1> HIDE DEF ws, n, x
<1>4. /\ a \in Seq(Seq(Nat)) /\ Len(a) = n + 1
      /\ \A i \in 1..n + 1 : a[i] = Append(ws[i], NewLine)
  <2>1. /\ a \in Seq(Seq(Nat)) /\ Len(a) = Len(ws)
        /\ \A i \in 1..Len(ws) : a[i] = Append(ws[i], NewLine)
    BY <1>1, EndedTyped
  <2> HIDE DEF a
  <2> QED BY <1>1, <2>1
<1> HIDE DEF a, e
<1>5. /\ b \in Seq(Seq(Nat)) /\ Len(b) = n + 1 /\ b[n + 1] = x
      /\ \A i \in 1..n : b[i] = e[i]
  BY <1>2, <1>3, AppendProperties
<1> HIDE DEF b
<1>6. \A i \in 1..n + 1 : i \in 1..n \/ i = n + 1
  BY <1>1
<1>7. \A i \in 1..n + 1 : a[i] = b[i]
  BY <1>1, <1>2, <1>3, <1>4, <1>5, <1>6
<1>8. a = b
  BY <1>4, <1>5, <1>7, SeqEqual
<1>9. FlattenSeq(b) = FlattenSeq(e) \o x
  BY <1>2, <1>3, Flattened DEF b
<1> QED BY <1>8, <1>9 DEF a, e, x, ws

\* A sequence is the part before a place and the part after it.
LEMMA Cut ==
  ASSUME NEW S, NEW s \in Seq(S), NEW n \in 0..Len(s)
  PROVE  /\ SubSeq(s, 1, n) \in Seq(S) /\ SubSeq(s, n + 1, Len(s)) \in Seq(S)
         /\ Len(SubSeq(s, 1, n)) = n /\ Len(SubSeq(s, n + 1, Len(s))) = Len(s) - n
         /\ \A i \in 1..n : SubSeq(s, 1, n)[i] = s[i]
         /\ \A i \in 1..Len(s) - n : SubSeq(s, n + 1, Len(s))[i] = s[n + i]
         /\ SubSeq(s, 1, n) \o SubSeq(s, n + 1, Len(s)) = s
<1>1. /\ SubSeq(s, 1, n) \in Seq(S) /\ SubSeq(s, n + 1, Len(s)) \in Seq(S)
      /\ Len(SubSeq(s, 1, n)) = n /\ Len(SubSeq(s, n + 1, Len(s))) = Len(s) - n
  OBVIOUS
<1>2. /\ \A i \in 1..n : SubSeq(s, 1, n)[i] = s[i]
      /\ \A i \in 1..Len(s) - n : SubSeq(s, n + 1, Len(s))[i] = s[n + i]
  OBVIOUS
<1>3. Len(s) \in Nat /\ 1 \in 1..Len(s) + 1 /\ n \in 1 - 1..Len(s) /\ Len(s) \in n..Len(s)
  OBVIOUS
<1>4. SubSeq(s, 1, n) \o SubSeq(s, n + 1, Len(s)) = SubSeq(s, 1, Len(s))
  BY <1>3, ConcatAdjacentSubSeq
<1>5. SubSeq(s, 1, Len(s)) = s
  BY SubSeqFull
<1> QED BY <1>1, <1>2, <1>4, <1>5

\* To read a line gives what is before the first new line, if that is in the
\* buffer, or else all that is left.
LEMMA LineRead ==
  ASSUME NEW r, r.rest \in Seq(Nat), r.buffered \in Nat, r.rest # <<>>,
         Len(r.rest) >= BufferSize => \E j \in 1..BufferSize : r.rest[j] = EOL
  PROVE  LET one == ReadLine(r) IN
         /\ one.value \in Seq(Nat) /\ ~Contains(one.value, EOL)
         /\ one.reader \in [rest : Seq(Nat), buffered : Nat]
         /\ \/ Append(one.value, EOL) \o one.reader.rest = r.rest
            \/ one.reader.rest = <<>> /\ one.value = r.rest /\ r.rest[Len(r.rest)] # EOL
<1> DEFINE s == r.rest
           n == LineEnd(s)
           filled == IF n <= r.buffered THEN r.buffered ELSE Filled(r)
           v == SubSeq(s, 1, n - 1)
           t == SubSeq(s, n + 1, Len(s))
           one == ReadLine(r)
<1>1. s \in Seq(Nat) /\ s # <<>> /\ BufferSize \in Nat \ {0}
  BY BufferAssumption
<1>2. /\ n \in 1..Len(s) + 1
      /\ \A i \in 1..n - 1 : s[i] # EOL
      /\ n <= Len(s) => s[n] = EOL
  <2> HIDE DEF s
  <2> QED BY <1>1, LineEnds
<1>3. filled \in Nat /\ (n <= r.buffered => n <= filled)
  BY <1>1, <1>2 DEF Filled, Least
<1>4. ~(n > filled /\ filled = BufferSize)
  <2> SUFFICES ASSUME n > filled, filled = BufferSize PROVE FALSE
    OBVIOUS
  <2>1. filled = Filled(r)
    BY <1>2, <1>3
  <2>2. Len(s) >= BufferSize
    BY <1>1, <2>1 DEF Filled, Least
  <2>3. PICK j \in 1..BufferSize : s[j] = EOL
    BY <2>2
  <2> HIDE DEF s, n, filled
  <2>4. j \in 1..n - 1
    BY <1>1, <1>2
  <2> QED BY <1>2, <2>3, <2>4
<1>5. /\ one.value = v
      /\ one.reader = [rest |-> t, buffered |-> IF n < filled THEN filled - n ELSE 0]
  <2>1. one = [value |-> v, reader |-> Skip(r, n, filled)]
    BY <1>4 DEF ReadLine
  <2> HIDE DEF one, v, n, filled
  <2> QED BY <2>1 DEF Skip
<1> HIDE DEF one
<1>6. n - 1 \in 0..Len(s) /\ Len(s) \in Nat \ {0} /\ (n - 1) + 1 = n
  BY <1>1, <1>2
<1> HIDE DEF n, filled
<1>7. /\ v \in Seq(Nat) /\ Len(v) = n - 1
      /\ \A i \in 1..n - 1 : v[i] = s[i]
  <2> HIDE DEF s
  <2>1. /\ SubSeq(s, 1, n - 1) \in Seq(Nat) /\ Len(SubSeq(s, 1, n - 1)) = n - 1
        /\ \A i \in 1..n - 1 : SubSeq(s, 1, n - 1)[i] = s[i]
    BY <1>1, <1>6, Cut
  <2> QED BY <2>1
<1>8. ~Contains(v, EOL)
  <2> HIDE DEF v
  <2> QED BY <1>2, <1>7 DEF Contains
<1>9. t \in Seq(Nat)
  <2> HIDE DEF s
  <2> QED BY <1>1, <1>2
<1>10. one.reader \in [rest : Seq(Nat), buffered : Nat] /\ one.reader.rest = t
  <2> HIDE DEF t
  <2> QED BY <1>2, <1>3, <1>5, <1>9
<1>11. ASSUME n <= Len(s)
       PROVE  /\ one.value \in Seq(Nat) /\ ~Contains(one.value, EOL)
              /\ one.reader \in [rest : Seq(Nat), buffered : Nat]
              /\ \/ Append(one.value, EOL) \o one.reader.rest = s
                 \/ one.reader.rest = <<>> /\ one.value = s /\ s[Len(s)] # EOL
  <2> DEFINE u == SubSeq(s, 1, n)
             w == Append(v, EOL)
  <2>1. /\ u \in Seq(Nat) /\ Len(u) = n /\ \A i \in 1..n : u[i] = s[i]
        /\ u \o t = s
    <3>1. n \in 0..Len(s)
      BY <1>2, <1>11
    <3> HIDE DEF s
    <3>2. /\ SubSeq(s, 1, n) \in Seq(Nat) /\ SubSeq(s, n + 1, Len(s)) \in Seq(Nat)
          /\ Len(SubSeq(s, 1, n)) = n
          /\ \A i \in 1..n : SubSeq(s, 1, n)[i] = s[i]
          /\ SubSeq(s, 1, n) \o SubSeq(s, n + 1, Len(s)) = s
      BY <1>1, <3>1, Cut
    <3> QED BY <3>2
  <2>2. /\ w \in Seq(Nat) /\ Len(w) = n /\ w[n] = EOL
        /\ \A i \in 1..n - 1 : w[i] = v[i]
    <3>1. EOL \in Nat
      BY DEF EOL
    <3> HIDE DEF v
    <3> QED BY <1>2, <1>7, <3>1, AppendProperties
  <2> HIDE DEF u, w, s, v
  <2>3. \A i \in 1..n : i \in 1..n - 1 \/ i = n
    BY <1>2
  <2>4. \A i \in 1..n : w[i] = u[i]
    BY <1>2, <1>7, <1>11, <2>1, <2>2, <2>3
  <2>5. w = u
    BY <2>1, <2>2, <2>4, SeqEqual
  <2>6. Append(one.value, EOL) \o one.reader.rest = s
    BY <1>5, <1>10, <2>1, <2>5 DEF w
  <2> QED BY <1>5, <1>7, <1>8, <1>10, <2>6
<1>12. ASSUME ~(n <= Len(s))
       PROVE  /\ one.value \in Seq(Nat) /\ ~Contains(one.value, EOL)
              /\ one.reader \in [rest : Seq(Nat), buffered : Nat]
              /\ \/ Append(one.value, EOL) \o one.reader.rest = s
                 \/ one.reader.rest = <<>> /\ one.value = s /\ s[Len(s)] # EOL
  <2>1. n = Len(s) + 1
    BY <1>2, <1>6, <1>12
  <2>2. t = <<>>
    <3> HIDE DEF s
    <3> QED BY <1>1, <2>1
  <2>3. v = s
    <3> HIDE DEF v, s
    <3> QED BY <1>1, <1>6, <1>7, <2>1, SeqEqual
  <2>4. s[Len(s)] # EOL
    <3>1. Len(s) \in 1..n - 1
      BY <1>6, <2>1
    <3> HIDE DEF s
    <3> QED BY <1>2, <3>1
  <2> HIDE DEF v, t
  <2> QED BY <1>5, <1>7, <1>8, <1>10, <2>2, <2>3, <2>4
<1>13. /\ one.value \in Seq(Nat) /\ ~Contains(one.value, EOL)
       /\ one.reader \in [rest : Seq(Nat), buffered : Nat]
       /\ \/ Append(one.value, EOL) \o one.reader.rest = s
          \/ one.reader.rest = <<>> /\ one.value = s /\ s[Len(s)] # EOL
  BY <1>11, <1>12
<1> QED BY <1>13 DEF one

\* Nothing has been read yet.
Unread(s) == [values |-> <<>>, reader |-> Reader(s), ended |-> FALSE]

\* One more format of file:read.
OneRead(all, format) ==
  IF all.ended \/ (all.reader.rest = <<>> /\ format # <<"a">>)
    THEN [all EXCEPT !.ended = TRUE]
    ELSE [all EXCEPT !.values = Append(@, ReadFormat(all.reader, format).value),
                     !.reader = ReadFormat(all.reader, format).reader]

\* To read another line of a text keeps what is read by lines, and leaves less.
LEMMA LineKeeps ==
  ASSUME NEW s \in Seq(Nat), IsShort(s), NEW a \in LineReads(s)
  PROVE  LET b == OneRead(a, <<"l">>) IN
         /\ b \in LineReads(s)
         /\ b.reader.rest = <<>> \/ Len(b.reader.rest) + 1 <= Len(a.reader.rest)
<1> DEFINE Reads == [values : Seq(Seq(Nat)), reader : [rest : Seq(Nat), buffered : Nat], ended : BOOLEAN]
           x == a.reader.rest
           b == OneRead(a, <<"l">>)
<1>1. /\ a \in Reads
      /\ a.ended => x = <<>>
      /\ \A i \in 1..Len(a.values) : ~Contains(a.values[i], EOL)
      /\ LinesText(a) # <<>> => LinesText(a)[Len(LinesText(a))] = EOL
      /\ \/ LinesText(a) \o x = s
         \/ x = <<>> /\ s # <<>> /\ s[Len(s)] # EOL /\ LinesText(a) = Append(s, EOL)
  BY DEF LineReads
<1>2. ASSUME x = <<>>
      PROVE  b \in LineReads(s) /\ b.reader.rest = <<>>
  <2>1. b = [a EXCEPT !.ended = TRUE]
    BY <1>2 DEF OneRead
  <2> HIDE DEF b
  <2>2. b \in Reads /\ b.values = a.values /\ b.reader = a.reader
    BY <1>1, <2>1
  <2>3. LinesText(b) = LinesText(a)
    BY <2>2 DEF LinesText
  <2> QED BY <1>1, <1>2, <2>2, <2>3 DEF LineReads
<1>3. ASSUME x # <<>>
      PROVE  /\ b \in LineReads(s)
             /\ b.reader.rest = <<>> \/ Len(b.reader.rest) + 1 <= Len(x)
  <2> DEFINE r == a.reader
             one == ReadLine(r)
             v == one.value
             y == one.reader.rest
             t == LinesText(a)
             u == LinesText(b)
             e == Append(v, EOL)
  <2>1. /\ r.rest \in Seq(Nat) /\ r.buffered \in Nat /\ r.rest # <<>>
        /\ x \in Seq(Nat) /\ a.values \in Seq(Seq(Nat))
    BY <1>1, <1>3
  <2>2. t \in Seq(Nat) /\ t \o x = s
    <3>1. t \in Seq(Nat)
      BY <2>1, EndedTyped DEF LinesText
    <3> QED BY <1>1, <1>3, <3>1
  <2>3. Len(r.rest) >= BufferSize => \E j \in 1..BufferSize : r.rest[j] = EOL
    <3> SUFFICES ASSUME Len(x) >= BufferSize PROVE \E j \in 1..BufferSize : x[j] = EOL
      OBVIOUS
    <3> HIDE DEF t, x
    <3>1. /\ Len(s) = Len(t) + Len(x) /\ Len(t) \in Nat /\ Len(x) \in Nat
          /\ BufferSize \in Nat \ {0}
          /\ \A i \in 1..Len(t) + Len(x) : s[i] = IF i <= Len(t) THEN t[i] ELSE x[i - Len(t)]
      <4>1. x \in Seq(Nat) /\ t \in Seq(Nat) /\ s = t \o x
        BY <2>1, <2>2
      <4>2. /\ Len(s) = Len(t) + Len(x)
            /\ \A i \in 1..Len(t) + Len(x) : s[i] = IF i <= Len(t) THEN t[i] ELSE x[i - Len(t)]
        BY ONLY <4>1, ConcatProperties
      <4>3. Len(t) \in Nat /\ Len(x) \in Nat
        BY <4>1
      <4> QED BY <4>2, <4>3, BufferAssumption
    <3>2. Len(t) + 1 \in 1..Len(s) - BufferSize + 1
      BY <3>1
    <3>3. PICK j \in Len(t) + 1..Len(t) + 1 + BufferSize - 1 : s[j] = EOL
      BY <3>2 DEF IsShort
    <3>4. /\ j - Len(t) \in 1..BufferSize /\ j \in 1..Len(t) + Len(x) /\ ~(j <= Len(t))
      BY <3>1
    <3> QED BY <3>1, <3>3, <3>4
  <2>4. /\ v \in Seq(Nat) /\ ~Contains(v, EOL)
        /\ one.reader \in [rest : Seq(Nat), buffered : Nat]
        /\ e \o y = x \/ (y = <<>> /\ v = x /\ x[Len(x)] # EOL)
    <3> HIDE DEF r
    <3>1. /\ ReadLine(r).value \in Seq(Nat) /\ ~Contains(ReadLine(r).value, EOL)
          /\ ReadLine(r).reader \in [rest : Seq(Nat), buffered : Nat]
          /\ \/ Append(ReadLine(r).value, EOL) \o ReadLine(r).reader.rest = r.rest
             \/ ReadLine(r).reader.rest = <<>> /\ ReadLine(r).value = r.rest /\ r.rest[Len(r.rest)] # EOL
      BY <2>1, <2>3, LineRead
    <3>2. x = r.rest
      BY DEF r
    <3> QED BY <3>1, <3>2
  <2>5. b = [a EXCEPT !.values = Append(@, v), !.reader = one.reader]
    <3>1. ~a.ended
      BY <1>1, <1>3
    <3>2. <<"l">> # <<"a">>
      OBVIOUS
    <3>3. ReadFormat(a.reader, <<"l">>) = one
      BY <3>2 DEF ReadFormat
    <3> HIDE DEF one
    <3> QED BY <1>3, <3>1, <3>3 DEF OneRead
  <2> HIDE DEF one, v, b
  <2>6. b.values = Append(a.values, v) /\ b.reader = one.reader /\ b.ended = a.ended /\ b \in Reads
    <3>1. Append(a.values, v) \in Seq(Seq(Nat))
      BY <2>1, <2>4, AppendProperties
    <3> QED BY <1>1, <2>4, <2>5, <3>1
  <2>7. u = t \o e
    <3> DEFINE vs == a.values
    <3>1. vs \in Seq(Seq(Nat))
      BY <2>1
    <3> HIDE DEF vs
    <3>2. FlattenSeq(Ended(Append(vs, v))) = FlattenSeq(Ended(vs)) \o Append(v, EOL)
      BY <2>4, <3>1, EndedAppend
    <3> QED BY <2>6, <3>2 DEF LinesText, vs
  <2>8. \A i \in 1..Len(b.values) : ~Contains(b.values[i], EOL)
    <3> DEFINE vs == a.values
               ws == b.values
    <3>1. vs \in Seq(Seq(Nat)) /\ ws = Append(vs, v)
      BY <2>1, <2>6
    <3>2. \A i \in 1..Len(vs) : ~Contains(vs[i], EOL)
      BY <1>1
    <3> HIDE DEF vs, ws
    <3>3. /\ Len(ws) = Len(vs) + 1 /\ ws[Len(vs) + 1] = v /\ Len(vs) \in Nat
          /\ \A i \in 1..Len(vs) : ws[i] = vs[i]
      BY <2>4, <3>1, AppendProperties
    <3>4. \A i \in 1..Len(ws) : i \in 1..Len(vs) \/ i = Len(vs) + 1
      BY <3>3
    <3>5. \A i \in 1..Len(ws) : ~Contains(ws[i], EOL)
      BY <2>4, <3>2, <3>3, <3>4
    <3> QED BY <3>5 DEF ws
  <2>9. /\ e \in Seq(Nat) /\ Len(e) \in Nat \ {0} /\ e[Len(e)] = EOL /\ y \in Seq(Nat)
    <3>1. EOL \in Nat
      BY DEF EOL
    <3> QED BY <2>4, <3>1, AppendProperties
  <2> HIDE DEF t, u, e, x, y
  <2>10. u \in Seq(Nat) /\ u # <<>> /\ u[Len(u)] = EOL
    <3>1. /\ u \in Seq(Nat) /\ Len(u) = Len(t) + Len(e) /\ Len(t) \in Nat
          /\ \A i \in 1..Len(t) + Len(e) : u[i] = IF i <= Len(t) THEN t[i] ELSE e[i - Len(t)]
      BY <2>2, <2>7, <2>9, ConcatProperties
    <3>2. Len(u) \in 1..Len(t) + Len(e) /\ ~(Len(u) <= Len(t)) /\ Len(u) - Len(t) = Len(e)
      BY <2>9, <3>1
    <3>3. u # <<>>
      BY <3>2
    <3> QED BY <2>9, <3>1, <3>2, <3>3
  <2>11. \/ u \o y = s
         \/ y = <<>> /\ s # <<>> /\ s[Len(s)] # EOL /\ u = Append(s, EOL)
    <3>1. CASE e \o y = x
      <4>1. t \in Seq(Nat) /\ e \in Seq(Nat) /\ y \in Seq(Nat)
        BY <2>2, <2>9
      <4>2. (t \o e) \o y = t \o (e \o y)
        BY ONLY <4>1, ConcatAssociative
      <4> QED BY <2>2, <2>7, <3>1, <4>2
    <3>2. CASE y = <<>> /\ v = x /\ x[Len(x)] # EOL
      <4>1. EOL \in Nat /\ e = Append(x, EOL)
        BY <3>2 DEF EOL, e
      <4>2. u = Append(s, EOL)
        <5>1. t \in Seq(Nat) /\ x \in Seq(Nat) /\ EOL \in Nat
          BY <2>1, <2>2, <4>1
        <5>2. t \o Append(x, EOL) = Append(t \o x, EOL)
          BY ONLY <5>1, AppendConcat
        <5> QED BY <2>2, <2>7, <4>1, <5>2
      <4>3. /\ Len(s) = Len(t) + Len(x) /\ Len(t) \in Nat /\ Len(x) \in Nat \ {0}
            /\ \A i \in 1..Len(t) + Len(x) : s[i] = IF i <= Len(t) THEN t[i] ELSE x[i - Len(t)]
        <5>1. x \in Seq(Nat) /\ t \in Seq(Nat) /\ s = t \o x /\ x # <<>>
          BY <1>3, <2>1, <2>2
        <5>2. /\ Len(s) = Len(t) + Len(x)
              /\ \A i \in 1..Len(t) + Len(x) : s[i] = IF i <= Len(t) THEN t[i] ELSE x[i - Len(t)]
          BY ONLY <5>1, ConcatProperties
        <5>3. Len(t) \in Nat /\ Len(x) \in Nat \ {0}
          BY <5>1
        <5> QED BY <5>2, <5>3
      <4>4. Len(s) \in 1..Len(t) + Len(x) /\ ~(Len(s) <= Len(t)) /\ Len(s) - Len(t) = Len(x)
        BY <4>3
      <4>5. s # <<>> /\ s[Len(s)] # EOL
        BY <3>2, <4>3, <4>4
      <4> QED BY <3>2, <4>2, <4>5
    <3> QED BY <2>4, <3>1, <3>2
  <2>12. b.reader.rest = y /\ ~b.ended
    <3>1. ~a.ended
      BY <1>1, <1>3
    <3> QED BY <2>6, <3>1 DEF y
  <2>13. y = <<>> \/ Len(y) + 1 <= Len(x)
    <3>1. CASE e \o y = x
      <4>1. Len(x) = Len(e) + Len(y) /\ Len(y) \in Nat
        BY <2>9, <3>1, ConcatProperties
      <4> QED BY <2>9, <4>1
    <3> QED BY <2>4, <3>1
  <2>14. b \in LineReads(s)
    BY <2>6, <2>8, <2>10, <2>11, <2>12 DEF LineReads, u
  <2> QED BY <2>12, <2>13, <2>14
<1>4. /\ b \in LineReads(s)
      /\ b.reader.rest = <<>> \/ Len(b.reader.rest) + 1 <= Len(x)
  BY <1>2, <1>3
<1> QED BY <1>4 DEF b

\* Before the first line all is left.
LEMMA LineStarts ==
  ASSUME NEW s \in Seq(Nat)
  PROVE  Unread(s) \in LineReads(s)
<1> DEFINE a == Unread(s)
<1>1. /\ a \in [values : Seq(Seq(Nat)), reader : [rest : Seq(Nat), buffered : Nat], ended : BOOLEAN]
      /\ a.values = <<>> /\ a.reader.rest = s /\ ~a.ended
  BY DEF Reader, Unread
<1> HIDE DEF a
<1>2. LinesText(a) = <<>>
  <2>1. Ended(<<>>) = <<>>
    BY DEF Ended
  <2>2. FlattenSeq(<<>>) = <<>>
    BY Flattened
  <2> QED BY <1>1, <2>1, <2>2 DEF LinesText
<1>3. LinesText(a) \o a.reader.rest = s
  BY <1>1, <1>2, ConcatEmptySeq
<1>4. Len(a.values) = 0
  BY <1>1
<1>5. \A i \in 1..Len(a.values) : ~Contains(a.values[i], EOL)
  BY <1>4
<1>6. a \in LineReads(s)
  BY <1>1, <1>2, <1>3, <1>5 DEF LineReads
<1> QED BY <1>6 DEF a

\* What has been read by counts, of a text without NUL bytes.
CountReads(s) ==
  {a \in [values : Seq(Seq(Nat)), reader : [rest : Seq(Nat \ {NUL}), buffered : Nat], ended : BOOLEAN] :
     /\ a.reader.buffered <= Len(a.reader.rest)
     /\ Outside(FlattenSeq(a.values), {NUL}) \o a.reader.rest = s}

\* To read a number of characters gives some of the next ones, and NUL bytes.
LEMMA CountRead ==
  ASSUME NEW r, r.rest \in Seq(Nat \ {NUL}), r.buffered \in 0..Len(r.rest), NEW n \in Nat
  PROVE  LET one == ReadCount(r, n) IN
         /\ one.value \in Seq(Nat)
         /\ one.reader \in [rest : Seq(Nat \ {NUL}), buffered : Nat]
         /\ one.reader.buffered <= Len(one.reader.rest)
         /\ Outside(one.value, {NUL}) \o one.reader.rest = r.rest
<1> DEFINE s == r.rest
           filled == CASE r.buffered > 0 -> r.buffered
                       [] r.buffered = 0 /\ n < BufferSize -> Filled(r)
                       [] OTHER -> Len(s)
           got == Least(n, filled)
           u == SubSeq(s, 1, got)
           t == SubSeq(s, got + 1, Len(s))
           z == [i \in 1..n - got |-> NUL]
           one == ReadCount(r, n)
<1>1. s \in Seq(Nat \ {NUL}) /\ Len(s) \in Nat /\ r.buffered \in 0..Len(s)
  OBVIOUS
<1>2. filled \in 0..Len(s)
  <2>1. Filled(r) \in 0..Len(s)
    BY <1>1, BufferAssumption DEF Filled, Least
  <2> QED BY <1>1, <2>1
<1>3. got \in 0..Len(s) /\ n - got \in Nat /\ got <= filled
  <2> HIDE DEF filled
  <2> QED BY <1>1, <1>2 DEF Least
<1>4. one.value = u \o z /\ one.reader \in {Skip(r, got, filled), Skip(r, got, 0)}
  <2>1. one = [value |-> u \o z,
               reader |-> IF n < BufferSize \/ r.buffered > 0 THEN Skip(r, got, filled)
                          ELSE Skip(r, got, 0)]
    BY DEF ReadCount
  <2> HIDE DEF one, u, z, filled, got
  <2> QED BY <2>1
<1> HIDE DEF one, filled, got
<1>5. /\ u \in Seq(Nat \ {NUL}) /\ t \in Seq(Nat \ {NUL})
      /\ Len(t) = Len(s) - got /\ u \o t = s
  <2> HIDE DEF s
  <2> QED BY <1>1, <1>3, Cut
<1>6. one.reader.rest = t /\ one.reader.buffered \in {IF got < filled THEN filled - got ELSE 0, 0}
  <2>1. got \in Nat
    BY <1>3
  <2>2. one.reader \in {[rest |-> t, buffered |-> IF got < filled THEN filled - got ELSE 0],
                        [rest |-> t, buffered |-> IF got < 0 THEN 0 - got ELSE 0]}
    BY <1>4 DEF Skip
  <2> HIDE DEF t
  <2> QED BY <2>1, <2>2
<1>7. one.reader \in [rest : Seq(Nat \ {NUL}), buffered : Nat]
  <2>1. one.reader \in {[rest |-> t, buffered |-> IF got < filled THEN filled - got ELSE 0],
                        [rest |-> t, buffered |-> IF got < 0 THEN 0 - got ELSE 0]}
    BY <1>4 DEF Skip
  <2> HIDE DEF t
  <2> QED BY <1>2, <1>3, <1>5, <2>1
<1>8. one.reader.buffered <= Len(one.reader.rest)
  <2> HIDE DEF t
  <2> QED BY <1>2, <1>3, <1>5, <1>6
<1>9. u \in Seq(Nat) /\ z \in Seq(Nat) /\ NUL \in Nat
  <2>1. NUL \in Nat
    BY DEF NUL
  <2> HIDE DEF u
  <2> QED BY <1>3, <1>5, <2>1
<1>10. Outside(u, {NUL}) = u
  <2> HIDE DEF u
  <2>1. \A i \in 1..Len(u) : u[i] \notin {NUL}
    BY <1>5
  <2> QED BY <1>9, <2>1, OutsideAllOrNone
<1>11. Outside(z, {NUL}) = <<>>
  <2>1. \A i \in 1..Len(z) : z[i] \in {NUL}
    BY <1>3
  <2> HIDE DEF z
  <2> QED BY <1>9, <2>1, OutsideAllOrNone
<1> HIDE DEF u, z, t
<1>12. u \o z \in Seq(Nat) /\ Outside(u \o z, {NUL}) = u
  <2>1. Outside(u \o z, {NUL}) = Outside(u, {NUL}) \o Outside(z, {NUL})
    BY <1>9, OutsideConcat
  <2>2. u \o <<>> = u
    BY <1>9, ConcatEmptySeq
  <2> QED BY <1>9, <1>10, <1>11, <2>1, <2>2, ConcatProperties
<1>13. /\ one.value \in Seq(Nat)
       /\ Outside(one.value, {NUL}) \o one.reader.rest = s
  BY <1>4, <1>5, <1>6, <1>12
<1> QED BY <1>7, <1>8, <1>13 DEF one

\* To read another count keeps what is read by counts.
LEMMA CountKeeps ==
  ASSUME NEW s \in Seq(Nat \ {NUL}), NEW a \in CountReads(s), NEW format \in {"count"} \X Nat
  PROVE  OneRead(a, format) \in CountReads(s)
<1> DEFINE Reads == [values : Seq(Seq(Nat)), reader : [rest : Seq(Nat \ {NUL}), buffered : Nat], ended : BOOLEAN]
           r == a.reader
           x == r.rest
           b == OneRead(a, format)
<1>1. /\ a \in Reads
      /\ r.buffered <= Len(x)
      /\ Outside(FlattenSeq(a.values), {NUL}) \o x = s
  BY DEF CountReads
<1>2. PICK n \in Nat : format = <<"count", n>>
  OBVIOUS
<1>3. format \notin {<<"a">>, <<"l">>, <<"L">>} /\ format[2] = n
  <2>1. \A c \in {<<"a">>, <<"l">>, <<"L">>} : c[1] # "count"
    OBVIOUS
  <2>2. format[1] = "count" /\ format[2] = n
    BY <1>2
  <2> QED BY <2>1, <2>2
<1>4. ASSUME a.ended \/ x = <<>> PROVE b \in CountReads(s)
  <2>1. b = [a EXCEPT !.ended = TRUE]
    BY <1>3, <1>4 DEF OneRead
  <2> HIDE DEF b
  <2>2. b \in Reads /\ b.values = a.values /\ b.reader = a.reader
    BY <1>1, <2>1
  <2> QED BY <1>1, <2>2 DEF CountReads
<1>5. ASSUME ~a.ended, x # <<>> PROVE b \in CountReads(s)
  <2> DEFINE one == ReadCount(r, n)
             v == one.value
             y == one.reader.rest
             vs == a.values
             f == FlattenSeq(vs)
             g == FlattenSeq(b.values)
  <2>1. /\ r.rest \in Seq(Nat \ {NUL}) /\ r.buffered \in 0..Len(r.rest) /\ vs \in Seq(Seq(Nat))
        /\ x \in Seq(Nat)
    BY <1>1
  <2>2. /\ v \in Seq(Nat)
        /\ one.reader \in [rest : Seq(Nat \ {NUL}), buffered : Nat]
        /\ one.reader.buffered <= Len(y)
        /\ Outside(v, {NUL}) \o y = x
    <3> HIDE DEF r
    <3>1. /\ ReadCount(r, n).value \in Seq(Nat)
          /\ ReadCount(r, n).reader \in [rest : Seq(Nat \ {NUL}), buffered : Nat]
          /\ ReadCount(r, n).reader.buffered <= Len(ReadCount(r, n).reader.rest)
          /\ Outside(ReadCount(r, n).value, {NUL}) \o ReadCount(r, n).reader.rest = r.rest
      BY <2>1, CountRead
    <3> QED BY <3>1
  <2>3. b = [a EXCEPT !.values = Append(@, v), !.reader = one.reader]
    <3>1. ReadFormat(a.reader, format) = one
      BY <1>3 DEF ReadFormat
    <3> HIDE DEF one
    <3> QED BY <1>3, <1>5, <3>1 DEF OneRead
  <2> HIDE DEF one, v, b
  <2>4. b.values = Append(vs, v) /\ b.reader = one.reader /\ b \in Reads
    <3>1. Append(a.values, v) \in Seq(Seq(Nat))
      BY <2>1, <2>2, AppendProperties
    <3> QED BY <1>1, <2>2, <2>3, <3>1
  <2>5. y \in Seq(Nat)
    BY <2>2
  <2> HIDE DEF vs, x, y
  <2>6. f \in Seq(Nat) /\ g = f \o v
    BY <2>1, <2>2, <2>4, Flattened
  <2> HIDE DEF f, g
  <2>7. Outside(g, {NUL}) = Outside(f, {NUL}) \o Outside(v, {NUL})
    BY <2>2, <2>6, OutsideConcat
  <2>8. Outside(g, {NUL}) \o y = s
    <3> DEFINE o == Outside(f, {NUL})
               p == Outside(v, {NUL})
    <3>1. o \in Seq(Nat) /\ p \in Seq(Nat) /\ y \in Seq(Nat)
      BY <2>2, <2>5, <2>6, OutsideTyped
    <3>2. o \o x = s
      BY <1>1 DEF f, vs
    <3> HIDE DEF o, p
    <3>3. (o \o p) \o y = o \o (p \o y)
      BY ONLY <3>1, ConcatAssociative
    <3> QED BY <2>2, <2>7, <3>2, <3>3 DEF o, p
  <2>9. b.reader.rest = y
    BY <2>4 DEF y
  <2> QED BY <2>2, <2>4, <2>8, <2>9 DEF CountReads, g
<1> QED BY <1>4, <1>5

\* Before the first count all is left.
LEMMA CountStarts ==
  ASSUME NEW s \in Seq(Nat \ {NUL})
  PROVE  Unread(s) \in CountReads(s)
<1> DEFINE a == Unread(s)
<1>1. /\ a \in [values : Seq(Seq(Nat)), reader : [rest : Seq(Nat \ {NUL}), buffered : Nat], ended : BOOLEAN]
      /\ a.values = <<>> /\ a.reader.rest = s /\ a.reader.buffered = 0
  BY DEF Reader, Unread
<1>2. Outside(FlattenSeq(<<>>), {NUL}) = <<>> /\ <<>> \o s = s
  BY Flattened, OutsideEmpty, ConcatEmptySeq
<1>3. Len(s) \in Nat
  OBVIOUS
<1> HIDE DEF a
<1>4. a \in CountReads(s)
  <2>1. a.reader.buffered <= Len(a.reader.rest)
    BY <1>1, <1>3
  <2>2. Outside(FlattenSeq(a.values), {NUL}) \o a.reader.rest = s
    BY <1>1, <1>2
  <2> QED BY <1>1, <2>1, <2>2 DEF CountReads
<1> QED BY <1>4 DEF a

\* The steps of file:read(n, ...).
LEMMA CountSteps ==
  ASSUME NEW s \in Seq(Nat \ {NUL}), NEW formats \in Seq({"count"} \X Nat)
  PROVE  \E r : /\ r[0] = Unread(s)
                /\ \A k \in 1..Len(formats) : r[k] = OneRead(r[k - 1], formats[k])
                /\ \A k \in 0..Len(formats) : r[k] \in CountReads(s)
                /\ Read(Reader(s), formats) = r[Len(formats)]
<1> DEFINE N == Len(formats)
           E == CountReads(s)
           F(v, k) == OneRead(v, formats[k])
           Is(g) == g = [d \in SUBSET (1..N) |-> IF d = {} THEN Unread(s) ELSE F(g[d \ {Max(d)}], Max(d))]
           step == [p \in E \X (1..N) |-> F(p[1], p[2])]
<1>1. Read(Reader(s), formats) = (CHOOSE g : Is(g))[1..N]
  <2>1. 1..N = DOMAIN formats
    OBVIOUS
  <2> QED BY <2>1 DEF OneRead, Unread, Read, FoldLeft, MapThenFoldSet
<1>2. ASSUME NEW v \in E, NEW k \in 1..N PROVE F(v, k) \in E
  <2>1. formats[k] \in {"count"} \X Nat
    OBVIOUS
  <2> QED BY <2>1, CountKeeps
<1>3. N \in Nat /\ Unread(s) \in E
  BY CountStarts
<1> HIDE DEF N, E, F
<1>4. \E g : Is(g)
  <2>1. step \in Steps(N, E)
    BY <1>2 DEF Steps
  <2> HIDE DEF step
  <2>2. PICK g : g \in FoldsOf(N, E, Unread(s), step)
    BY <1>3, <2>1, FoldExists
  <2>3. ASSUME NEW d \in SUBSET (1..N), d # {}
        PROVE  step[<<g[d \ {Max(d)}], Max(d)>>] = F(g[d \ {Max(d)}], Max(d))
    <3>1. Max(d) \in d
      BY <1>3, <2>3, GreatestNumber
    <3>2. g \in [SUBSET (1..N) -> E]
      BY <2>2 DEF FoldsOf
    <3> QED BY <3>1, <3>2 DEF step
  <2>4. Is(g)
    BY <2>2, <2>3 DEF FoldsOf
  <2> HIDE DEF Is
  <2> QED BY <2>4
<1>5. PICK g : Is(g) /\ Read(Reader(s), formats) = g[1..N]
  <2> HIDE DEF Is
  <2> QED BY <1>1, <1>4
<1> DEFINE r == [k \in 0..N |-> g[1..k]]
<1>6. r[0] = Unread(s) /\ r[N] = g[1..N]
  <2>1. 1..0 = {} /\ {} \in SUBSET (1..N) /\ 0 \in 0..N /\ N \in 0..N
    BY <1>3
  <2> QED BY <1>5, <2>1
<1>7. ASSUME NEW k \in 1..N PROVE r[k] = F(r[k - 1], k)
  <2>1. Max(1..k) = k /\ (1..k) \ {k} = 1..k - 1 /\ 1..k # {}
    <3>1. k \in Nat \ {0}
      BY <1>3
    <3> QED BY <3>1, LastNumber
  <2>2. 1..k \in SUBSET (1..N)
    BY <1>3
  <2>3. r[k] = g[1..k] /\ r[k - 1] = g[1..k - 1]
    BY <1>3
  <2> HIDE DEF r
  <2> QED BY <1>5, <2>1, <2>2, <2>3
<1> HIDE DEF r
<1>8. \A k \in 0..N : r[k] \in E
  <2> DEFINE T == {k \in 0..N : r[k] \in E}
  <2>1. 0 \in T
    BY <1>3, <1>6
  <2>2. ASSUME NEW k \in 1..N, k - 1 \in T PROVE k \in T
    <3>1. r[k] \in E
      BY <1>2, <1>7, <2>2
    <3>2. k \in 0..N
      BY <1>3
    <3> QED BY <3>1, <3>2
  <2>3. 0..N \subseteq T
    <3> HIDE DEF T
    <3> QED BY <1>3, <2>1, <2>2, InductionTo
  <2> QED BY <2>3
<1> QED BY <1>5, <1>6, <1>7, <1>8 DEF N, F, E

\* The steps of the iterator of file:lines().
LEMMA LineSteps ==
  ASSUME NEW s \in Seq(Nat), IsShort(s), NEW formats, formats = [i \in 1..Len(s) |-> <<"l">>]
  PROVE  \E r : /\ r[0] = Unread(s)
                /\ \A k \in 1..Len(s) : r[k] = OneRead(r[k - 1], formats[k])
                /\ \A k \in 0..Len(s) : r[k] \in LineReads(s)
                /\ Read(Reader(s), formats) = r[Len(s)]
<1> DEFINE N == Len(s)
           E == LineReads(s)
           F(v, k) == OneRead(v, formats[k])
           Is(g) == g = [d \in SUBSET (1..N) |-> IF d = {} THEN Unread(s) ELSE F(g[d \ {Max(d)}], Max(d))]
           step == [p \in E \X (1..N) |-> F(p[1], p[2])]
<1>1. Read(Reader(s), formats) = (CHOOSE g : Is(g))[1..N]
  <2>1. 1..N = DOMAIN formats
    OBVIOUS
  <2> QED BY <2>1 DEF OneRead, Unread, Read, FoldLeft, MapThenFoldSet
<1>2. ASSUME NEW v \in E, NEW k \in 1..N PROVE F(v, k) \in E
  <2>1. formats[k] = <<"l">>
    OBVIOUS
  <2> QED BY <2>1, LineKeeps
<1>3. N \in Nat /\ Unread(s) \in E
  BY LineStarts
<1> HIDE DEF N, E, F
<1>4. \E g : Is(g)
  <2>1. step \in Steps(N, E)
    BY <1>2 DEF Steps
  <2> HIDE DEF step
  <2>2. PICK g : g \in FoldsOf(N, E, Unread(s), step)
    BY <1>3, <2>1, FoldExists
  <2>3. ASSUME NEW d \in SUBSET (1..N), d # {}
        PROVE  step[<<g[d \ {Max(d)}], Max(d)>>] = F(g[d \ {Max(d)}], Max(d))
    <3>1. Max(d) \in d
      BY <1>3, <2>3, GreatestNumber
    <3>2. g \in [SUBSET (1..N) -> E]
      BY <2>2 DEF FoldsOf
    <3> QED BY <3>1, <3>2 DEF step
  <2>4. Is(g)
    BY <2>2, <2>3 DEF FoldsOf
  <2> HIDE DEF Is
  <2> QED BY <2>4
<1>5. PICK g : Is(g) /\ Read(Reader(s), formats) = g[1..N]
  <2> HIDE DEF Is
  <2> QED BY <1>1, <1>4
<1> DEFINE r == [k \in 0..N |-> g[1..k]]
<1>6. r[0] = Unread(s) /\ r[N] = g[1..N]
  <2>1. 1..0 = {} /\ {} \in SUBSET (1..N) /\ 0 \in 0..N /\ N \in 0..N
    BY <1>3
  <2> QED BY <1>5, <2>1
<1>7. ASSUME NEW k \in 1..N PROVE r[k] = F(r[k - 1], k)
  <2>1. Max(1..k) = k /\ (1..k) \ {k} = 1..k - 1 /\ 1..k # {}
    <3>1. k \in Nat \ {0}
      BY <1>3
    <3> QED BY <3>1, LastNumber
  <2>2. 1..k \in SUBSET (1..N)
    BY <1>3
  <2>3. r[k] = g[1..k] /\ r[k - 1] = g[1..k - 1]
    BY <1>3
  <2> HIDE DEF r
  <2> QED BY <1>5, <2>1, <2>2, <2>3
<1> HIDE DEF r
<1>8. \A k \in 0..N : r[k] \in E
  <2> DEFINE T == {k \in 0..N : r[k] \in E}
  <2>1. 0 \in T
    BY <1>3, <1>6
  <2>2. ASSUME NEW k \in 1..N, k - 1 \in T PROVE k \in T
    <3>1. r[k] \in E
      BY <1>2, <1>7, <2>2
    <3>2. k \in 0..N
      BY <1>3
    <3> QED BY <3>1, <3>2
  <2>3. 0..N \subseteq T
    <3> HIDE DEF T
    <3> QED BY <1>3, <2>1, <2>2, InductionTo
  <2> QED BY <2>3
<1> QED BY <1>5, <1>6, <1>7, <1>8 DEF N, F, E

\* What is before another sequence is a prefix.
LEMMA FirstPart ==
  ASSUME NEW S, NEW s \in Seq(S), NEW t \in Seq(S)
  PROVE  IsPrefix(s, s \o t)
<1> DEFINE u == s \o t
<1>1. /\ u \in Seq(S) /\ Len(u) = Len(s) + Len(t) /\ Len(s) \in Nat /\ Len(t) \in Nat
      /\ \A i \in 1..Len(s) + Len(t) : u[i] = IF i <= Len(s) THEN s[i] ELSE t[i - Len(s)]
  BY ConcatProperties
<1> HIDE DEF u
<1>2. \A i \in 1..Len(s) : u[i] = s[i]
  BY <1>1
<1>3. /\ SubSeq(u, 1, Len(s)) \in Seq(S) /\ Len(SubSeq(u, 1, Len(s))) = Len(s)
      /\ \A i \in 1..Len(s) : SubSeq(u, 1, Len(s))[i] = u[i]
  <2>1. Len(s) \in 0..Len(u)
    BY <1>1
  <2> QED BY <1>1, <2>1, Cut
<1>4. SubSeq(u, 1, Len(s)) = s
  BY <1>2, <1>3, SeqEqual
<1>5. SubSeq(s, 1, Len(s)) = s
  BY SubSeqFull
<1>6. Len(s) <= Len(u)
  BY <1>1
<1> QED BY <1>4, <1>5, <1>6 DEF IsPrefix, u

\* What the reader of an iterator gives is a part of the lines, and all of
\* them at the end.
LEMMA ReaderGives ==
  ASSUME NEW lines \in Seq(Seq(Nat)), NEW sizes \in Seq(Nat)
  PROVE  LET r == FoldLeft(ReadBytes, ReaderOf(lines), sizes)
             all == FlattenSeq(Ended(lines))
         IN IsPrefix(r.out, all) /\ (r.eof => r.out = all)
<1> DEFINE r == FoldLeft(ReadBytes, ReaderOf(lines), sizes)
           all == FlattenSeq(Ended(lines))
           t == r.buf \o FlattenSeq(Ended(r.rest))
<1>1. r \in Readers(all)
  <2>1. PICK q : /\ q[0] = ReaderOf(lines)
                 /\ \A k \in 1..Len(sizes) : q[k] = ReadBytes(q[k - 1], sizes[k])
                 /\ \A k \in 0..Len(sizes) : q[k] \in Readers(FlattenSeq(Ended(lines)))
                 /\ FoldLeft(ReadBytes, ReaderOf(lines), sizes) = q[Len(sizes)]
    BY ReaderSteps
  <2>2. Len(sizes) \in 0..Len(sizes)
    OBVIOUS
  <2> HIDE DEF r, all
  <2>3. q[Len(sizes)] \in Readers(all)
    BY <2>1, <2>2 DEF all
  <2> QED BY <2>1, <2>3 DEF r
<1> HIDE DEF r, all
<1>2. /\ r.out \in Seq(Nat) /\ r.buf \in Seq(Nat) /\ r.rest \in Seq(Seq(Nat))
      /\ r.out \o t = all /\ (r.eof => r.out = all)
  BY <1>1 DEF Readers
<1>3. t \in Seq(Nat)
  <2> DEFINE b == r.buf
             f == r.rest
  <2>1. b \in Seq(Nat) /\ f \in Seq(Seq(Nat))
    BY <1>2
  <2> HIDE DEF b, f
  <2>2. FlattenSeq(Ended(f)) \in Seq(Nat)
    BY <2>1, EndedTyped
  <2>3. b \o FlattenSeq(Ended(f)) \in Seq(Nat)
    BY <2>1, <2>2, ConcatProperties
  <2> QED BY <2>3 DEF b, f
<1> DEFINE o == r.out
<1>4. o \in Seq(Nat) /\ o \o t = all /\ (r.eof => o = all)
  BY <1>2
<1> HIDE DEF t, o
<1>5. IsPrefix(o, o \o t)
  BY <1>3, <1>4, FirstPart
<1>6. IsPrefix(o, all) /\ (r.eof => o = all)
  BY <1>4, <1>5
<1> QED BY <1>6 DEF o, r, all

\* The iterator of lines() yields the lines of a text, in none of which is a
\* new line and which together are the text.
LEMMA LinesRead ==
  ASSUME NEW s \in Seq(Nat), IsShort(s)
  PROVE  /\ \A i \in DOMAIN Lines(s) : ~Contains(Lines(s)[i], EOL)
         /\ FlattenSeq(Ended(Lines(s))) = IF s = <<>> \/ s[Len(s)] = EOL THEN s ELSE Append(s, EOL)
<1> DEFINE formats == [i \in 1..Len(s) |-> <<"l">>]
           a == Read(Reader(s), formats)
           n == Len(s)
<1>1. n \in Nat
  OBVIOUS
<1>2. PICK r : /\ r[0] = Unread(s)
               /\ \A k \in 1..Len(s) : r[k] = OneRead(r[k - 1], formats[k])
               /\ \A k \in 0..Len(s) : r[k] \in LineReads(s)
               /\ Read(Reader(s), formats) = r[Len(s)]
  BY LineSteps
<1>3. \A k \in 1..n : formats[k] = <<"l">>
  OBVIOUS
<1> DEFINE T == {k \in 0..n : r[k].reader.rest = <<>> \/ Len(r[k].reader.rest) + k <= n}
<1> HIDE DEF formats, n
<1>4. 0 \in T
  <2>1. r[0].reader.rest = s
    BY <1>2 DEF Unread, Reader
  <2>2. Len(r[0].reader.rest) + 0 <= n
    BY <1>1, <2>1 DEF n
  <2> QED BY <1>1, <2>2
<1>5. ASSUME NEW k \in 1..n, k - 1 \in T PROVE k \in T
  <2> DEFINE b == r[k - 1]
             c == r[k]
             x == b.reader.rest
             y == c.reader.rest
  <2>1. b \in LineReads(s) /\ c = OneRead(b, <<"l">>) /\ c \in LineReads(s)
    <3>1. k \in 1..Len(s) /\ k \in 0..Len(s) /\ k - 1 \in 0..Len(s)
      BY <1>1 DEF n
    <3> QED BY <1>2, <1>3, <3>1
  <2>2. x = <<>> \/ Len(x) + (k - 1) <= n
    BY <1>5
  <2> HIDE DEF b, c
  <2>3. y = <<>> \/ Len(y) + 1 <= Len(x)
    <3>1. /\ OneRead(b, <<"l">>) \in LineReads(s)
          /\ OneRead(b, <<"l">>).reader.rest = <<>> \/ Len(OneRead(b, <<"l">>).reader.rest) + 1 <= Len(b.reader.rest)
      BY <2>1, LineKeeps
    <3> QED BY <2>1, <3>1
  <2>4. x \in Seq(Nat) /\ y \in Seq(Nat)
    BY <2>1 DEF LineReads
  <2> HIDE DEF x, y
  <2>5. y = <<>> \/ Len(y) + k <= n
    <3>1. Len(y) \in Nat /\ Len(x) \in Nat /\ (x = <<>> => Len(x) = 0)
      BY <2>4
    <3> QED BY <1>1, <2>2, <2>3, <3>1
  <2>6. k \in 0..n
    BY <1>1
  <2> QED BY <2>5, <2>6 DEF y, c
<1>6. 0..n \subseteq T
  <2> HIDE DEF T
  <2> QED BY <1>1, <1>4, <1>5, InductionTo
<1>7. a = r[n] /\ a \in LineReads(s)
  <2>1. n \in 0..n
    BY <1>1
  <2> QED BY <1>2, <2>1 DEF n
<1>8. a.reader.rest = <<>> \/ Len(a.reader.rest) + n <= n
  <2>1. n \in T
    BY <1>1, <1>6
  <2>2. r[n].reader.rest = <<>> \/ Len(r[n].reader.rest) + n <= n
    BY <2>1
  <2> HIDE DEF a
  <2> QED BY <1>7, <2>2
<1> HIDE DEF a, T
<1>9. /\ a.reader.rest \in Seq(Nat) /\ a.values \in Seq(Seq(Nat))
      /\ \A i \in 1..Len(a.values) : ~Contains(a.values[i], EOL)
      /\ LinesText(a) # <<>> => LinesText(a)[Len(LinesText(a))] = EOL
      /\ \/ LinesText(a) \o a.reader.rest = s
         \/ s # <<>> /\ s[Len(s)] # EOL /\ LinesText(a) = Append(s, EOL)
  BY <1>7 DEF LineReads
<1>10. a.reader.rest = <<>>
  <2> DEFINE x == a.reader.rest
  <2>1. x \in Seq(Nat) /\ (x = <<>> \/ Len(x) + n <= n)
    BY <1>8, <1>9
  <2> HIDE DEF x
  <2>2. x = <<>>
    BY <1>1, <2>1
  <2> QED BY <2>2 DEF x
<1>11. LinesText(a) \in Seq(Nat)
  <2> DEFINE vs == a.values
  <2>1. vs \in Seq(Seq(Nat))
    BY <1>9
  <2> HIDE DEF vs
  <2>2. FlattenSeq(Ended(vs)) \in Seq(Nat)
    BY <2>1, EndedTyped
  <2> QED BY <2>2 DEF LinesText, vs
<1>12. LinesText(a) \o <<>> = LinesText(a)
  BY <1>11, ConcatEmptySeq
<1>13. LinesText(a) = IF s = <<>> \/ s[Len(s)] = EOL THEN s ELSE Append(s, EOL)
  BY <1>9, <1>10, <1>12
<1>14. Lines(s) = a.values
  BY DEF Lines, a, formats
<1>15. DOMAIN a.values = 1..Len(a.values)
  BY <1>9
<1> QED BY <1>9, <1>13, <1>14, <1>15 DEF LinesText

\* What read(n, ...) gives, but for the NUL bytes, is the first part of a text.
LEMMA CountsRead ==
  ASSUME NEW s \in Seq(Nat \ {NUL}), NEW formats \in Seq({"count"} \X Nat)
  PROVE  IsPrefix(Outside(FlattenSeq(Read(Reader(s), formats).values), {NUL}), s)
<1> DEFINE a == Read(Reader(s), formats)
           o == Outside(FlattenSeq(a.values), {NUL})
           x == a.reader.rest
<1>1. a \in CountReads(s)
  <2>1. PICK r : /\ r[0] = Unread(s)
                 /\ \A k \in 1..Len(formats) : r[k] = OneRead(r[k - 1], formats[k])
                 /\ \A k \in 0..Len(formats) : r[k] \in CountReads(s)
                 /\ Read(Reader(s), formats) = r[Len(formats)]
    BY CountSteps
  <2>2. Len(formats) \in 0..Len(formats)
    OBVIOUS
  <2>3. r[Len(formats)] \in CountReads(s)
    BY <2>1, <2>2
  <2> QED BY <2>1, <2>3
<1> HIDE DEF a
<1>2. a.values \in Seq(Seq(Nat)) /\ x \in Seq(Nat) /\ o \o x = s
  <2>1. a.values \in Seq(Seq(Nat)) /\ x \in Seq(Nat \ {NUL}) /\ o \o x = s
    BY <1>1 DEF CountReads
  <2> HIDE DEF x, o
  <2>2. x \in Seq(Nat)
    BY <2>1
  <2> QED BY <2>1, <2>2
<1>3. o \in Seq(Nat)
  <2> DEFINE vs == a.values
  <2>1. vs \in Seq(Seq(Nat))
    BY <1>2
  <2> HIDE DEF vs
  <2>2. FlattenSeq(vs) \in Seq(Nat)
    BY <2>1, Flattened
  <2>3. Outside(FlattenSeq(vs), {NUL}) \in Seq(Nat)
    BY <2>2, OutsideTyped
  <2> QED BY <2>3 DEF vs
<1> HIDE DEF o, x
<1>4. IsPrefix(o, o \o x)
  BY <1>2, <1>3, FirstPart
<1> QED BY <1>2, <1>4 DEF o, a

\* Both kinds of readers keep the order and the content of what they read:
\* iterReader gives the lines of an iterator, file:lines() the lines of a body,
\* and file:read(n, ...) the characters of a body.
THEOREM ReadersGiveAll == Spec => []ReadersKeepLines
<1>1. Invariant => ReaderGivesLines
  <2> SUFFICES ASSUME Invariant, Converted("reader")
               PROVE  LET all == FlattenSeq([i \in DOMAIN input[1] |-> Append(input[1][i], NewLine)])
                      IN IsPrefix(output[1].out, all) /\ (output[1].eof => output[1].out = all)
    BY DEF ReaderGivesLines
  <2> DEFINE lines == input[1]
             sizes == input[2]
  <2>1. kind = "reader" /\ output[1] = Result /\ input \in Inputs["reader"]
    BY ConvertedResult
  <2>2. lines \in Seq(Seq(Nat)) /\ sizes \in Seq(Nat)
    BY <2>1, InputsAssumption DEF InputsTyped
  <2>3. output[1] = FoldLeft(ReadBytes, ReaderOf(lines), sizes)
    BY <2>1 DEF Result
  <2>4. [i \in DOMAIN lines |-> Append(lines[i], NewLine)] = Ended(lines)
    BY DEF Ended
  <2> HIDE DEF lines, sizes
  <2>5. /\ IsPrefix(FoldLeft(ReadBytes, ReaderOf(lines), sizes).out, FlattenSeq(Ended(lines)))
        /\ FoldLeft(ReadBytes, ReaderOf(lines), sizes).eof =>
             FoldLeft(ReadBytes, ReaderOf(lines), sizes).out = FlattenSeq(Ended(lines))
    BY <2>2, ReaderGives
  <2>6. /\ IsPrefix(output[1].out, FlattenSeq(Ended(lines)))
        /\ output[1].eof => output[1].out = FlattenSeq(Ended(lines))
    BY <2>3, <2>5
  <2> QED BY <2>4, <2>6 DEF lines
<1>2. Invariant => ReadsAreInOrder
  <2> SUFFICES ASSUME Invariant, Converted("file") PROVE ReadsAreInOrder
    BY DEF ReadsAreInOrder
  <2> DEFINE s == input[1]
             formats == input[2]
  <2>1. kind = "file" /\ output[1] = Result /\ input \in Inputs["file"]
    BY ConvertedResult
  <2>2. /\ s \in Seq(Nat \ {NUL})
        /\ formats \in Seq({<<"l">>, <<"L">>, <<"a">>} \cup {"count"} \X Nat)
    BY <2>1, InputsAssumption DEF InputsTyped
  <2>3. output[1] = Read(Reader(s), formats)
    BY <2>1 DEF Result
  <2> HIDE DEF s, formats
  <2>4. s \in Seq(Nat)
    BY <2>2
  <2>5. ASSUME \A i \in 1..Len(s) - BufferSize + 1 : \E j \in i..i + BufferSize - 1 : s[j] = EOL
        PROVE  /\ \A i \in DOMAIN Lines(s) : ~Contains(Lines(s)[i], EOL)
               /\ FlattenSeq([i \in DOMAIN Lines(s) |-> Append(Lines(s)[i], EOL)])
                    = IF s = <<>> \/ Last(s) = EOL THEN s ELSE Append(s, EOL)
    <3>1. IsShort(s)
      BY <2>5 DEF IsShort
    <3>2. /\ \A i \in DOMAIN Lines(s) : ~Contains(Lines(s)[i], EOL)
          /\ FlattenSeq(Ended(Lines(s))) = IF s = <<>> \/ s[Len(s)] = EOL THEN s ELSE Append(s, EOL)
      BY <2>4, <3>1, LinesRead
    <3>3. [i \in DOMAIN Lines(s) |-> Append(Lines(s)[i], EOL)] = Ended(Lines(s))
      BY DEF Ended, NewLine, EOL
    <3> QED BY <3>2, <3>3 DEF Last
  <2>6. ASSUME \A i \in DOMAIN formats : formats[i][1] = "count"
        PROVE  IsPrefix(Outside(FlattenSeq(output[1].values), {NUL}), s)
    <3>1. ASSUME NEW i \in 1..Len(formats) PROVE formats[i] \in {"count"} \X Nat
      <4>1. formats[i] \in {<<"l">>, <<"L">>, <<"a">>} \cup {"count"} \X Nat
        BY <2>2
      <4>2. formats[i][1] = "count"
        BY <2>2, <2>6
      <4>3. \A c \in {<<"l">>, <<"L">>, <<"a">>} : c[1] # "count"
        OBVIOUS
      <4> QED BY <4>1, <4>2, <4>3
    <3>2. formats \in Seq({"count"} \X Nat)
      <4>1. formats = [i \in 1..Len(formats) |-> formats[i]] /\ Len(formats) \in Nat
        BY <2>2
      <4> QED BY <3>1, <4>1
    <3>3. IsPrefix(Outside(FlattenSeq(Read(Reader(s), formats).values), {NUL}), s)
      BY <2>2, <3>2, CountsRead
    <3> QED BY <2>3, <3>3
  <2> QED BY <2>5, <2>6 DEF ReadsAreInOrder, s, formats
<1>3. Invariant => ReadersKeepLines
  BY <1>1, <1>2 DEF ReadersKeepLines
<1> QED BY <1>3, Invariance, PTL

----------------------------------------------------------------------------
(* The source from the standard input (SourceRecordReader).                *)

\* A sequence that is not empty is a first part and a last element.
LEMMA LastOfAppend ==
  ASSUME NEW S, NEW f \in Seq(S), NEW l \in S
  PROVE  Front(Append(f, l)) = f /\ Last(Append(f, l)) = l /\ Append(f, l) # <<>>
<1> DEFINE a == Append(f, l)
           n == Len(f)
<1>1. /\ a \in Seq(S) /\ Len(a) = n + 1 /\ a[n + 1] = l /\ n \in Nat
      /\ \A i \in 1..n : a[i] = f[i]
  BY AppendProperties
<1> HIDE DEF a
<1>2. /\ SubSeq(a, 1, n) \in Seq(S) /\ Len(SubSeq(a, 1, n)) = n
      /\ \A i \in 1..n : SubSeq(a, 1, n)[i] = a[i]
  <2>1. n \in 0..Len(a)
    BY <1>1
  <2> QED BY <1>1, <2>1, Cut
<1>3. SubSeq(a, 1, n) = f
  BY <1>1, <1>2, SeqEqual
<1>4. Len(a) - 1 = n
  BY <1>1
<1>5. Front(a) = f
  BY <1>3, <1>4 DEF Front
<1>6. Last(a) = l
  BY <1>1 DEF Last
<1>7. a # <<>>
  BY <1>1
<1> QED BY <1>5, <1>6, <1>7 DEF a

\* A sequence that is not empty ends with an element.
LEMMA FrontAndLast ==
  ASSUME NEW S, NEW a \in Seq(S), a # <<>>
  PROVE  \E f \in Seq(S), l \in S : a = Append(f, l)
<1> DEFINE G == {u \in Seq(S) : u = <<>> \/ \E f \in Seq(S), l \in S : u = Append(f, l)}
<1>1. <<>> \in G
  OBVIOUS
<1>2. ASSUME NEW u \in Seq(S), NEW e \in S, u \in G PROVE Append(u, e) \in G
  <2>1. Append(u, e) \in Seq(S)
    BY AppendProperties
  <2> QED BY <2>1
<1>3. Seq(S) \subseteq G
  <2> HIDE DEF G
  <2> QED BY <1>1, <1>2, SequenceInduction
<1> QED BY <1>3

\* The parts of a text, of which there is at least one.
Parts == Seq(Seq(Nat)) \ {<<>>}
\* The parts of the empty text.
EmptyLine == <<<<>>>>

\* One more character of a text that is split.
Put(parts, c) ==
  IF c = EndOfLine THEN Append(parts, <<>>)
  ELSE [parts EXCEPT ![Len(parts)] = Append(@, c)]

\* One more character ends the last part, or is appended to it.
LEMMA PutAppend ==
  ASSUME NEW f \in Seq(Seq(Nat)), NEW l \in Seq(Nat), NEW c \in Nat
  PROVE  Put(Append(f, l), c) = IF c = EndOfLine THEN Append(Append(f, l), <<>>)
                                ELSE Append(f, Append(l, c))
<1> DEFINE a == Append(f, l)
           m == Append(l, c)
           b == Append(f, m)
           d == [a EXCEPT ![Len(a)] = m]
           n == Len(f)
<1>1. /\ a \in Seq(Seq(Nat)) /\ Len(a) = n + 1 /\ a[n + 1] = l /\ n \in Nat
      /\ \A i \in 1..n : a[i] = f[i]
  BY AppendProperties
<1>2. m \in Seq(Nat)
  BY AppendProperties
<1> HIDE DEF a, m
<1>3. /\ b \in Seq(Seq(Nat)) /\ Len(b) = n + 1 /\ b[n + 1] = m
      /\ \A i \in 1..n : b[i] = f[i]
  BY <1>2, AppendProperties
<1> HIDE DEF b
<1>4. Len(a) \in 1..Len(a)
  BY <1>1
<1>5. /\ d \in Seq(Seq(Nat)) /\ Len(d) = n + 1
      /\ \A i \in 1..n + 1 : d[i] = IF i = n + 1 THEN m ELSE a[i]
  <2> HIDE DEF n
  <2>1. d \in Seq(Seq(Nat)) /\ Len(d) = Len(a) /\ \A i \in 1..Len(a) : d[i] = IF i = Len(a) THEN m ELSE a[i]
    BY <1>1, <1>2, <1>4, ExceptSeq
  <2> HIDE DEF d
  <2> QED BY <1>1, <2>1
<1> HIDE DEF d, n
<1>6. \A i \in 1..n + 1 : i \in 1..n \/ i = n + 1
  BY <1>1
<1>7. n + 1 \notin 1..n
  BY <1>1
<1>8. \A i \in 1..n + 1 : d[i] = b[i]
  BY <1>1, <1>3, <1>5, <1>6, <1>7
<1>9. d = b
  BY <1>3, <1>5, <1>8, SeqEqual
<1>10. a[Len(a)] = l
  BY <1>1
<1>11. [a EXCEPT ![Len(a)] = Append(@, c)] = d
  BY <1>10 DEF d, m
<1> QED BY <1>9, <1>11 DEF Put, a, b, m

\* The steps of Split.
LEMMA SplitSteps ==
  ASSUME NEW t \in Seq(Nat)
  PROVE  \E r : /\ r[0] = EmptyLine
                /\ \A k \in 1..Len(t) : r[k] = Put(r[k - 1], t[k])
                /\ \A k \in 0..Len(t) : r[k] \in Parts
                /\ Split(t) = r[Len(t)]
<1> DEFINE N == Len(t)
           E == Parts
           F(v, k) == Put(v, t[k])
           Is(g) == g = [d \in SUBSET (1..N) |-> IF d = {} THEN EmptyLine ELSE F(g[d \ {Max(d)}], Max(d))]
           step == [p \in E \X (1..N) |-> F(p[1], p[2])]
<1>1. Split(t) = (CHOOSE g : Is(g))[1..N]
  <2>1. 1..N = DOMAIN t
    OBVIOUS
  <2> QED BY <2>1 DEF Put, EmptyLine, Split, FoldLeft, MapThenFoldSet
<1>2. ASSUME NEW v \in E, NEW k \in 1..N PROVE F(v, k) \in E
  <2>1. t[k] \in Nat /\ v \in Seq(Seq(Nat)) /\ v # <<>>
    BY DEF Parts
  <2>2. PICK f \in Seq(Seq(Nat)), l \in Seq(Nat) : v = Append(f, l)
    BY <2>1, FrontAndLast
  <2>3. F(v, k) = IF t[k] = EndOfLine THEN Append(Append(f, l), <<>>)
                  ELSE Append(f, Append(l, t[k]))
    BY <2>1, <2>2, PutAppend
  <2>4. /\ Append(f, l) \in Seq(Seq(Nat)) /\ Append(l, t[k]) \in Seq(Nat) /\ <<>> \in Seq(Nat)
    BY <2>1, AppendProperties
  <2> DEFINE a == Append(f, l)
             b == Append(l, t[k])
  <2> HIDE DEF a, b
  <2>5. a \in Seq(Seq(Nat)) /\ b \in Seq(Nat) /\ <<>> \in Seq(Nat)
    BY <2>4 DEF a, b
  <2>6. /\ Append(a, <<>>) \in Seq(Seq(Nat)) /\ Append(f, b) \in Seq(Seq(Nat))
    BY <2>5, AppendProperties
  <2>7. Append(a, <<>>) # <<>>
    BY <2>5, LastOfAppend
  <2>8. Append(f, b) # <<>>
    BY <2>5, LastOfAppend
  <2> QED BY <2>3, <2>6, <2>7, <2>8 DEF a, b, Parts
<1>3. N \in Nat /\ EmptyLine \in E
  BY DEF Parts, EmptyLine
<1> HIDE DEF N, E, F
<1>4. \E g : Is(g)
  <2>1. step \in Steps(N, E)
    BY <1>2 DEF Steps
  <2> HIDE DEF step
  <2>2. PICK g : g \in FoldsOf(N, E, EmptyLine, step)
    BY <1>3, <2>1, FoldExists
  <2>3. ASSUME NEW d \in SUBSET (1..N), d # {}
        PROVE  step[<<g[d \ {Max(d)}], Max(d)>>] = F(g[d \ {Max(d)}], Max(d))
    <3>1. Max(d) \in d
      BY <1>3, <2>3, GreatestNumber
    <3>2. g \in [SUBSET (1..N) -> E]
      BY <2>2 DEF FoldsOf
    <3> QED BY <3>1, <3>2 DEF step
  <2>4. Is(g)
    BY <2>2, <2>3 DEF FoldsOf
  <2> HIDE DEF Is
  <2> QED BY <2>4
<1>5. PICK g : Is(g) /\ Split(t) = g[1..N]
  <2> HIDE DEF Is
  <2> QED BY <1>1, <1>4
<1> DEFINE r == [k \in 0..N |-> g[1..k]]
<1>6. r[0] = EmptyLine /\ r[N] = g[1..N]
  <2>1. 1..0 = {} /\ {} \in SUBSET (1..N) /\ 0 \in 0..N /\ N \in 0..N
    BY <1>3
  <2> QED BY <1>5, <2>1
<1>7. ASSUME NEW k \in 1..N PROVE r[k] = F(r[k - 1], k)
  <2>1. Max(1..k) = k /\ (1..k) \ {k} = 1..k - 1 /\ 1..k # {}
    <3>1. k \in Nat \ {0}
      BY <1>3
    <3> QED BY <3>1, LastNumber
  <2>2. 1..k \in SUBSET (1..N)
    BY <1>3
  <2>3. r[k] = g[1..k] /\ r[k - 1] = g[1..k - 1]
    BY <1>3
  <2> HIDE DEF r
  <2> QED BY <1>5, <2>1, <2>2, <2>3
<1> HIDE DEF r
<1>8. \A k \in 0..N : r[k] \in E
  <2> DEFINE T == {k \in 0..N : r[k] \in E}
  <2>1. 0 \in T
    BY <1>3, <1>6
  <2>2. ASSUME NEW k \in 1..N, k - 1 \in T PROVE k \in T
    <3>1. r[k] \in E
      BY <1>2, <1>7, <2>2
    <3>2. k \in 0..N
      BY <1>3
    <3> QED BY <3>1, <3>2
  <2>3. 0..N \subseteq T
    <3> HIDE DEF T
    <3> QED BY <1>3, <2>1, <2>2, InductionTo
  <2> QED BY <2>3
<1> QED BY <1>5, <1>6, <1>7, <1>8 DEF N, F, E

\* What is split of a longer text.
LEMMA SplitAppend ==
  ASSUME NEW t \in Seq(Nat), NEW c \in Nat
  PROVE  Split(<<>>) = EmptyLine /\ Split(t) \in Parts /\ Split(Append(t, c)) = Put(Split(t), c)
<1> DEFINE n == Len(t)
           u == Append(t, c)
<1>1. /\ u \in Seq(Nat) /\ Len(u) = n + 1 /\ u[n + 1] = c /\ n \in Nat
      /\ \A k \in 1..n : u[k] = t[k]
  BY AppendProperties
<1> HIDE DEF u
<1>2. PICK r : /\ r[0] = EmptyLine
               /\ \A k \in 1..Len(t) : r[k] = Put(r[k - 1], t[k])
               /\ \A k \in 0..Len(t) : r[k] \in Parts
               /\ Split(t) = r[Len(t)]
  BY SplitSteps
<1>3. PICK q : /\ q[0] = EmptyLine
               /\ \A k \in 1..Len(u) : q[k] = Put(q[k - 1], u[k])
               /\ \A k \in 0..Len(u) : q[k] \in Parts
               /\ Split(u) = q[Len(u)]
  BY <1>1, SplitSteps
<1>4. Len(t) = n /\ Len(u) = n + 1
  BY <1>1
<1> HIDE DEF n
<1>5. r[n] = q[n]
  <2>1. \A k \in 1..n : k \in 1..n + 1
    BY <1>1
  <2>2. \A k \in 1..n : r[k - 1] = q[k - 1] => r[k] = q[k]
    BY <1>1, <1>2, <1>3, <1>4, <2>1
  <2>3. r[0] = q[0] /\ n \in Nat
    BY <1>1, <1>2, <1>3
  <2> QED BY <2>2, <2>3, SameSteps
<1>6. q[n + 1] = Put(q[n], c)
  <2>1. PICK k \in 1..n + 1 : k = n + 1 /\ k - 1 = n
    BY <1>1
  <2>2. q[k] = Put(q[k - 1], u[k])
    BY <1>3, <1>4
  <2> QED BY <1>1, <2>1, <2>2
<1>7. Split(t) \in Parts
  <2>1. n \in 0..n
    BY <1>1
  <2> QED BY <1>2, <1>4, <2>1
<1>8. Split(<<>>) = EmptyLine
  <2>1. \A s \in Seq(Nat) : s = <<>> => Split(s) = EmptyLine
    <3> SUFFICES ASSUME NEW s \in Seq(Nat), s = <<>> PROVE Split(s) = EmptyLine
      OBVIOUS
    <3>1. PICK p : /\ p[0] = EmptyLine
                   /\ \A k \in 1..Len(s) : p[k] = Put(p[k - 1], s[k])
                   /\ \A k \in 0..Len(s) : p[k] \in Parts
                   /\ Split(s) = p[Len(s)]
      BY SplitSteps
    <3>2. Len(s) = 0
      OBVIOUS
    <3> QED BY <3>1, <3>2
  <2>2. <<>> \in Seq(Nat)
    OBVIOUS
  <2> QED BY <2>1, <2>2
<1> QED BY <1>2, <1>3, <1>4, <1>5, <1>6, <1>7, <1>8 DEF u

\* The last part of what is split has no end of a line, and a text without an
\* end of a line is one part.
LEMMA SplitParts ==
  ASSUME NEW t \in Seq(Nat)
  PROVE  \E f \in Seq(Seq(Nat)), l \in Seq(Nat) : Split(t) = Append(f, l) /\ ~Contains(l, EndOfLine)
<1> DEFINE Good(u) == \E f \in Seq(Seq(Nat)), l \in Seq(Nat) :
                        Split(u) = Append(f, l) /\ ~Contains(l, EndOfLine)
           G == {u \in Seq(Nat) : Good(u)}
           e == <<>>
<1>1. e \in Seq(Nat) /\ e \in Seq(Seq(Nat)) /\ ~Contains(e, EndOfLine)
  BY DEF Contains
<1>2. EmptyLine = Append(<<>>, e)
  BY DEF EmptyLine
<1>3. <<>> \in G
  <2>1. Split(<<>>) = EmptyLine
    BY <1>1, SplitAppend, 0 \in Nat
  <2>2. Split(<<>>) = Append(e, e)
    BY <1>2, <2>1
  <2> HIDE DEF e
  <2>3. Good(<<>>)
    BY <1>1, <2>2
  <2> HIDE DEF Good
  <2> QED BY <2>3
<1>4. ASSUME NEW u \in Seq(Nat), NEW c \in Nat, u \in G PROVE Append(u, c) \in G
  <2>1. PICK f \in Seq(Seq(Nat)), l \in Seq(Nat) : Split(u) = Append(f, l) /\ ~Contains(l, EndOfLine)
    BY <1>4
  <2>2. Split(Append(u, c)) = IF c = EndOfLine THEN Append(Append(f, l), <<>>)
                              ELSE Append(f, Append(l, c))
    <3>1. Split(Append(u, c)) = Put(Split(u), c)
      BY SplitAppend
    <3>2. Put(Append(f, l), c) = IF c = EndOfLine THEN Append(Append(f, l), <<>>)
                                 ELSE Append(f, Append(l, c))
      BY PutAppend
    <3> QED BY <2>1, <3>1, <3>2
  <2> DEFINE a == Append(f, l)
             m == Append(l, c)
  <2>3. a \in Seq(Seq(Nat)) /\ m \in Seq(Nat) /\ Append(u, c) \in Seq(Nat)
    BY AppendProperties
  <2>4. c # EndOfLine => ~Contains(m, EndOfLine)
    <3>1. /\ Len(m) = Len(l) + 1 /\ m[Len(l) + 1] = c /\ Len(l) \in Nat
          /\ \A i \in 1..Len(l) : m[i] = l[i]
      BY AppendProperties
    <3> HIDE DEF m
    <3>2. \A i \in 1..Len(m) : i \in 1..Len(l) \/ i = Len(l) + 1
      BY <3>1
    <3> QED BY <2>1, <3>1, <3>2 DEF Contains
  <2> DEFINE w == Append(u, c)
  <2> HIDE DEF a, m, w, e
  <2>5. Good(w)
    <3>1. CASE c = EndOfLine
      <4>1. Split(w) = Append(a, e)
        BY <2>2, <3>1 DEF a, w, e
      <4> QED BY <1>1, <2>3, <4>1
    <3>2. CASE c # EndOfLine
      <4>1. Split(w) = Append(f, m)
        BY <2>2, <3>2 DEF m, w
      <4> QED BY <2>3, <2>4, <3>2, <4>1
    <3> QED BY <3>1, <3>2
  <2> HIDE DEF Good
  <2> QED BY <2>3, <2>5 DEF w
<1>5. Seq(Nat) \subseteq G
  <2> HIDE DEF G
  <2> QED BY <1>3, <1>4, SequenceInduction
<1> QED BY <1>5

\* A text without an end of a line is one part.
LEMMA SplitLine ==
  ASSUME NEW l \in Seq(Nat), ~Contains(l, EndOfLine)
  PROVE  Split(l) = Append(<<>>, l)
<1> DEFINE G == {u \in Seq(Nat) : ~Contains(u, EndOfLine) => Split(u) = Append(<<>>, u)}
<1>1. <<>> \in G
  <2>1. Split(<<>>) = EmptyLine
    BY SplitAppend, 0 \in Nat
  <2>2. EmptyLine = Append(<<>>, <<>>)
    BY DEF EmptyLine
  <2> QED BY <2>1, <2>2
<1>2. ASSUME NEW u \in Seq(Nat), NEW c \in Nat, u \in G PROVE Append(u, c) \in G
  <2> DEFINE m == Append(u, c)
             e == <<>>
  <2>1. /\ m \in Seq(Nat) /\ Len(m) = Len(u) + 1 /\ m[Len(u) + 1] = c /\ Len(u) \in Nat
        /\ \A i \in 1..Len(u) : m[i] = u[i]
    BY AppendProperties
  <2>2. e \in Seq(Seq(Nat))
    OBVIOUS
  <2>3. m = Append(u, c)
    OBVIOUS
  <2>4. ~Contains(u, EndOfLine) => Split(u) = Append(e, u)
    BY <1>2
  <2> HIDE DEF m, e
  <2>5. ASSUME ~Contains(m, EndOfLine) PROVE Split(m) = Append(e, m)
    <3>1. Len(u) + 1 \in 1..Len(m) /\ \A i \in 1..Len(u) : i \in 1..Len(m)
      BY <2>1
    <3>2. c # EndOfLine /\ ~Contains(u, EndOfLine)
      BY <2>1, <2>5, <3>1 DEF Contains
    <3>3. Split(m) = Put(Append(e, u), c)
      BY <2>3, <2>4, <3>2, SplitAppend
    <3> QED BY <2>2, <2>3, <3>2, <3>3, PutAppend
  <2> QED BY <2>1, <2>5 DEF m, e
<1>3. Seq(Nat) \subseteq G
  <2> HIDE DEF G
  <2> QED BY <1>1, <1>2, SequenceInduction
<1> QED BY <1>3

\* What is split of a text and another one is what is split of the last part
\* and the other one, after the first parts.
LEMMA SplitConcat ==
  ASSUME NEW a \in Seq(Nat), NEW f \in Seq(Seq(Nat)), NEW l \in Seq(Nat),
         Split(a) = Append(f, l), ~Contains(l, EndOfLine),
         NEW b \in Seq(Nat)
  PROVE  \E g \in Seq(Seq(Nat)), m \in Seq(Nat) :
           /\ Split(l \o b) = Append(g, m) /\ ~Contains(m, EndOfLine)
           /\ Split(a \o b) = Append(f \o g, m)
<1> DEFINE Good(u) == \E g \in Seq(Seq(Nat)), m \in Seq(Nat) :
                        Split(l \o u) = Append(g, m) /\ Split(a \o u) = Append(f \o g, m)
           G == {u \in Seq(Nat) : Good(u)}
           e == <<>>
<1>1. e \in Seq(Nat) /\ e \in Seq(Seq(Nat)) /\ f \o e = f /\ a \o e = a /\ l \o e = l
  BY ConcatEmptySeq
<1>2. Split(l) = Append(e, l)
  BY SplitLine
<1>3. <<>> \in G
  <2> HIDE DEF e
  <2>1. Good(e)
    BY <1>1, <1>2
  <2> HIDE DEF Good
  <2> QED BY <1>1, <2>1 DEF e
<1>4. ASSUME NEW u \in Seq(Nat), NEW c \in Nat, u \in G PROVE Append(u, c) \in G
  <2>1. PICK g \in Seq(Seq(Nat)), m \in Seq(Nat) :
               Split(l \o u) = Append(g, m) /\ Split(a \o u) = Append(f \o g, m)
    BY <1>4
  <2> DEFINE w == Append(u, c)
             h == f \o g
             k == Append(g, m)
             n == Append(m, c)
             x == l \o u
             y == a \o u
  <2>2. /\ w \in Seq(Nat) /\ h \in Seq(Seq(Nat)) /\ k \in Seq(Seq(Nat)) /\ n \in Seq(Nat)
        /\ x \in Seq(Nat) /\ y \in Seq(Nat)
    BY AppendProperties, ConcatProperties
  <2>3. l \o w = Append(x, c) /\ a \o w = Append(y, c)
    <3>1. l \in Seq(Nat) /\ u \in Seq(Nat) /\ c \in Nat /\ a \in Seq(Nat)
      OBVIOUS
    <3>2. l \o Append(u, c) = Append(l \o u, c)
      BY ONLY <3>1, AppendConcat
    <3>3. a \o Append(u, c) = Append(a \o u, c)
      BY ONLY <3>1, AppendConcat
    <3> QED BY <3>2, <3>3
  <2>4. f \o k = Append(h, m)
    <3>1. f \in Seq(Seq(Nat)) /\ g \in Seq(Seq(Nat)) /\ m \in Seq(Nat)
      OBVIOUS
    <3>2. f \o Append(g, m) = Append(f \o g, m)
      BY ONLY <3>1, AppendConcat
    <3> QED BY <3>2
  <2>5. Split(x) = Append(g, m) /\ Split(y) = Append(h, m)
    BY <2>1
  <2> HIDE DEF x, y, h, w
  <2>6. /\ Split(Append(x, c)) = IF c = EndOfLine THEN Append(Append(g, m), <<>>) ELSE Append(g, Append(m, c))
        /\ Split(Append(y, c)) = IF c = EndOfLine THEN Append(Append(h, m), <<>>) ELSE Append(h, Append(m, c))
    <3>1. Split(Append(x, c)) = Put(Split(x), c) /\ Split(Append(y, c)) = Put(Split(y), c)
      BY <2>2, SplitAppend
    <3>2. Put(Append(g, m), c) = IF c = EndOfLine THEN Append(Append(g, m), <<>>) ELSE Append(g, Append(m, c))
      BY PutAppend
    <3>3. Put(Append(h, m), c) = IF c = EndOfLine THEN Append(Append(h, m), <<>>) ELSE Append(h, Append(m, c))
      BY <2>2, PutAppend
    <3> QED BY <2>5, <3>1, <3>2, <3>3
  <2>7. Good(w)
    <3>1. CASE c = EndOfLine
      <4>1. Split(l \o w) = Append(k, e) /\ Split(a \o w) = Append(f \o k, e)
        BY <2>3, <2>4, <2>6, <3>1
      <4> HIDE DEF k, e
      <4> QED BY <1>1, <2>2, <4>1
    <3>2. CASE c # EndOfLine
      <4>1. Split(l \o w) = Append(g, n) /\ Split(a \o w) = Append(f \o g, n)
        BY <2>3, <2>6, <3>2 DEF h
      <4> HIDE DEF n
      <4> QED BY <2>2, <4>1
    <3> QED BY <3>1, <3>2
  <2> HIDE DEF Good
  <2> QED BY <2>2, <2>7 DEF w
<1>5. Seq(Nat) \subseteq G
  <2> HIDE DEF G
  <2> QED BY <1>3, <1>4, SequenceInduction
<1>6. PICK g \in Seq(Seq(Nat)), m \in Seq(Nat) :
             Split(l \o b) = Append(g, m) /\ Split(a \o b) = Append(f \o g, m)
  BY <1>5
<1>7. ~Contains(m, EndOfLine)
  <2> DEFINE x == l \o b
  <2>1. x \in Seq(Nat) /\ Split(x) = Append(g, m)
    BY <1>6, ConcatProperties
  <2> HIDE DEF x
  <2>2. PICK h \in Seq(Seq(Nat)), n \in Seq(Nat) : Split(x) = Append(h, n) /\ ~Contains(n, EndOfLine)
    BY <2>1, SplitParts
  <2>3. Last(Append(g, m)) = m /\ Last(Append(h, n)) = n
    BY LastOfAppend
  <2> QED BY <2>1, <2>2, <2>3
<1> QED BY <1>6, <1>7

\* The states of the reader of a source, and its first state.
Sources == [buf : Seq(Nat), src : [known : BOOLEAN, lines : Seq(Seq(Nat))]]
Opened == [buf |-> <<>>, src |-> [known |-> FALSE, lines |-> <<>>]]

\* A chunk gives the lines that it ends, and then an empty line unless it is
\* the first.
LEMMA ChunkRead ==
  ASSUME NEW r, NEW chunk, NEW g \in Seq(Seq(Nat)), NEW m \in Seq(Nat),
         Split(r.buf \o chunk) = Append(g, m)
  PROVE  /\ ReadChunk(r, chunk).buf = m
         /\ ReadChunk(r, chunk).src = RecordStdin(r.src, g)
<1>1. Front(Append(g, m)) = g /\ Last(Append(g, m)) = m
  BY LastOfAppend
<1>2. ReadChunk(r, chunk) = [buf |-> m, src |-> RecordStdin(r.src, g)]
  BY <1>1 DEF ReadChunk, Pending
<1> QED BY <1>2

\* What is recorded: the lines after the ones from before, and an empty line.
LEMMA RecordedLines ==
  ASSUME NEW src, src \in [known : BOOLEAN, lines : Seq(Seq(Nat))], src.known \/ src.lines = <<>>,
         NEW g \in Seq(Seq(Nat))
  PROVE  LET new == RecordStdin(src, g) IN
         /\ new \in [known : BOOLEAN, lines : Seq(Seq(Nat))]
         /\ new.known
         /\ Outside(new.lines, {<<>>}) = Outside(src.lines, {<<>>}) \o Outside(g, {<<>>})
<1> DEFINE l == src.lines
           x == l \o g
           y == x \o EmptyLine
           new == RecordStdin(src, g)
           O(s) == Outside(s, {<<>>})
<1>1. l \in Seq(Seq(Nat)) /\ EmptyLine \in Seq(Seq(Nat))
  BY DEF EmptyLine
<1>2. new = [known |-> TRUE, lines |-> IF src.known THEN y ELSE g]
  BY DEF RecordStdin, EmptyLine
<1> HIDE DEF l, new
<1>3. x \in Seq(Seq(Nat)) /\ y \in Seq(Seq(Nat))
  <2>1. x \in Seq(Seq(Nat))
    BY <1>1, ConcatProperties
  <2> HIDE DEF x
  <2>2. x \o EmptyLine \in Seq(Seq(Nat))
    BY <1>1, <2>1, ConcatProperties
  <2> QED BY <2>1, <2>2
<1>4. O(EmptyLine) = <<>>
  <2>1. \A i \in 1..Len(EmptyLine) : EmptyLine[i] \in {<<>>}
    BY DEF EmptyLine
  <2> QED BY <1>1, <2>1, OutsideAllOrNone
<1>5. O(l) \in Seq(Seq(Nat)) /\ O(g) \in Seq(Seq(Nat))
  BY <1>1, OutsideTyped
<1>6. O(x) = O(l) \o O(g) /\ O(x) \in Seq(Seq(Nat))
  <2>1. Outside(l \o g, {<<>>}) = Outside(l, {<<>>}) \o Outside(g, {<<>>})
    BY <1>1, OutsideConcat
  <2> HIDE DEF x
  <2>2. Outside(x, {<<>>}) \in Seq(Seq(Nat))
    BY <1>3, OutsideTyped
  <2> QED BY <2>1, <2>2 DEF x
<1>7. O(y) = O(x)
  <2> HIDE DEF x
  <2>1. Outside(x \o EmptyLine, {<<>>}) = Outside(x, {<<>>}) \o Outside(EmptyLine, {<<>>})
    BY <1>1, <1>3, OutsideConcat
  <2> DEFINE o == O(x)
  <2>2. o \in Seq(Seq(Nat))
    BY <1>6
  <2> HIDE DEF o
  <2>3. o \o <<>> = o
    BY <2>2, ConcatEmptySeq
  <2> QED BY <1>4, <2>1, <2>3 DEF o
<1>8. ~src.known => O(g) = O(l) \o O(g)
  <2>1. ~src.known => O(l) = <<>>
    BY OutsideEmpty DEF l
  <2> DEFINE o == O(g)
  <2>2. o \in Seq(Seq(Nat))
    BY <1>5
  <2> HIDE DEF o
  <2>3. <<>> \o o = o
    BY <2>2, ConcatEmptySeq
  <2> QED BY <2>1, <2>3 DEF o
<1> HIDE DEF y, x
<1>9. new \in [known : BOOLEAN, lines : Seq(Seq(Nat))] /\ new.known
  BY <1>2, <1>3
<1>10. O(new.lines) = O(l) \o O(g)
  BY <1>2, <1>6, <1>7, <1>8
<1> QED BY <1>9, <1>10 DEF new, l

\* The reader of a source stays one.
LEMMA ChunkTyped ==
  ASSUME NEW r \in Sources, NEW chunk \in Seq(Nat)
  PROVE  ReadChunk(r, chunk) \in Sources
<1> DEFINE t == r.buf \o chunk
           new == ReadChunk(r, chunk)
           s == r.src
           l == s.lines
<1>1. r.buf \in Seq(Nat) /\ s \in [known : BOOLEAN, lines : Seq(Seq(Nat))]
  BY DEF Sources
<1>2. t \in Seq(Nat)
  BY <1>1, ConcatProperties
<1> HIDE DEF t
<1>3. PICK g \in Seq(Seq(Nat)), m \in Seq(Nat) : Split(t) = Append(g, m)
  BY <1>2, SplitParts
<1>4. new.buf = m /\ new.src = RecordStdin(s, g)
  BY <1>3, ChunkRead DEF t
<1>5. RecordStdin(s, g) \in [known : BOOLEAN, lines : Seq(Seq(Nat))]
  <2> DEFINE x == l \o g
             y == x \o EmptyLine
  <2>1. l \in Seq(Seq(Nat)) /\ EmptyLine \in Seq(Seq(Nat))
    BY <1>1 DEF EmptyLine
  <2>2. RecordStdin(s, g) = [known |-> TRUE, lines |-> IF s.known THEN y ELSE g]
    BY DEF RecordStdin, EmptyLine
  <2> HIDE DEF s, l
  <2>3. x \in Seq(Seq(Nat))
    BY <2>1, ConcatProperties
  <2> HIDE DEF x
  <2>4. y \in Seq(Seq(Nat))
    BY <2>1, <2>3, ConcatProperties
  <2> HIDE DEF y
  <2> QED BY <2>2, <2>4
<1>6. new = [buf |-> new.buf, src |-> new.src]
  BY DEF ReadChunk
<1> HIDE DEF new, s
<1> QED BY <1>4, <1>5, <1>6 DEF Sources, new

\* The steps of ReadSource.
LEMMA SourceSteps ==
  ASSUME NEW chunks \in Seq(Seq(Nat))
  PROVE  \E r : /\ r[0] = Opened
                /\ \A k \in 1..Len(chunks) : r[k] = ReadChunk(r[k - 1], chunks[k])
                /\ \A k \in 0..Len(chunks) : r[k] \in Sources
                /\ FoldLeft(ReadChunk, Opened, chunks) = r[Len(chunks)]
<1> DEFINE N == Len(chunks)
           E == Sources
           F(v, k) == ReadChunk(v, chunks[k])
           Is(g) == g = [d \in SUBSET (1..N) |-> IF d = {} THEN Opened ELSE F(g[d \ {Max(d)}], Max(d))]
           step == [p \in E \X (1..N) |-> F(p[1], p[2])]
<1>1. FoldLeft(ReadChunk, Opened, chunks) = (CHOOSE g : Is(g))[1..N]
  <2>1. 1..N = DOMAIN chunks
    OBVIOUS
  <2> QED BY <2>1 DEF Sources, FoldLeft, MapThenFoldSet
<1>2. ASSUME NEW v \in E, NEW k \in 1..N PROVE F(v, k) \in E
  <2>1. chunks[k] \in Seq(Nat)
    OBVIOUS
  <2> QED BY <2>1, ChunkTyped
<1>3. N \in Nat /\ Opened \in E
  BY DEF Opened, Sources
<1> HIDE DEF N, E, F
<1>4. \E g : Is(g)
  <2>1. step \in Steps(N, E)
    BY <1>2 DEF Steps
  <2> HIDE DEF step
  <2>2. PICK g : g \in FoldsOf(N, E, Opened, step)
    BY <1>3, <2>1, FoldExists
  <2>3. ASSUME NEW d \in SUBSET (1..N), d # {}
        PROVE  step[<<g[d \ {Max(d)}], Max(d)>>] = F(g[d \ {Max(d)}], Max(d))
    <3>1. Max(d) \in d
      BY <1>3, <2>3, GreatestNumber
    <3>2. g \in [SUBSET (1..N) -> E]
      BY <2>2 DEF FoldsOf
    <3> QED BY <3>1, <3>2 DEF step
  <2>4. Is(g)
    BY <2>2, <2>3 DEF FoldsOf
  <2> HIDE DEF Is
  <2> QED BY <2>4
<1>5. PICK g : Is(g) /\ FoldLeft(ReadChunk, Opened, chunks) = g[1..N]
  <2> HIDE DEF Is
  <2> QED BY <1>1, <1>4
<1> DEFINE r == [k \in 0..N |-> g[1..k]]
<1>6. r[0] = Opened /\ r[N] = g[1..N]
  <2>1. 1..0 = {} /\ {} \in SUBSET (1..N) /\ 0 \in 0..N /\ N \in 0..N
    BY <1>3
  <2> QED BY <1>5, <2>1
<1>7. ASSUME NEW k \in 1..N PROVE r[k] = F(r[k - 1], k)
  <2>1. Max(1..k) = k /\ (1..k) \ {k} = 1..k - 1 /\ 1..k # {}
    <3>1. k \in Nat \ {0}
      BY <1>3
    <3> QED BY <3>1, LastNumber
  <2>2. 1..k \in SUBSET (1..N)
    BY <1>3
  <2>3. r[k] = g[1..k] /\ r[k - 1] = g[1..k - 1]
    BY <1>3
  <2> HIDE DEF r
  <2> QED BY <1>5, <2>1, <2>2, <2>3
<1> HIDE DEF r
<1>8. \A k \in 0..N : r[k] \in E
  <2> DEFINE T == {k \in 0..N : r[k] \in E}
  <2>1. 0 \in T
    BY <1>3, <1>6
  <2>2. ASSUME NEW k \in 1..N, k - 1 \in T PROVE k \in T
    <3>1. r[k] \in E
      BY <1>2, <1>7, <2>2
    <3>2. k \in 0..N
      BY <1>3
    <3> QED BY <3>1, <3>2
  <2>3. 0..N \subseteq T
    <3> HIDE DEF T
    <3> QED BY <1>3, <2>1, <2>2, InductionTo
  <2> QED BY <2>3
<1> QED BY <1>5, <1>6, <1>7, <1>8 DEF N, F, E

\* What has been recorded of a text: all the lines that it ends, but for the
\* empty ones, and what comes after them is in the buffer.
Recorded(r, text) ==
  /\ r \in Sources
  /\ r.src.known \/ r.src.lines = <<>>
  /\ ~Contains(r.buf, EndOfLine)
  /\ \E L \in Seq(Seq(Nat)) :
       Split(text) = Append(L, r.buf) /\ Outside(r.src.lines, {<<>>}) = Outside(L, {<<>>})

\* To read another chunk keeps what is recorded.
LEMMA ChunkRecorded ==
  ASSUME NEW r, NEW text \in Seq(Nat), Recorded(r, text), NEW chunk \in Seq(Nat)
  PROVE  Recorded(ReadChunk(r, chunk), text \o chunk)
<1> DEFINE new == ReadChunk(r, chunk)
           b == r.buf
           s == r.src
           t == b \o chunk
           u == text \o chunk
           O(x) == Outside(x, {<<>>})
<1>1. /\ r \in Sources /\ b \in Seq(Nat) /\ ~Contains(b, EndOfLine)
      /\ s \in [known : BOOLEAN, lines : Seq(Seq(Nat))] /\ (s.known \/ s.lines = <<>>)
  BY DEF Recorded, Sources
<1>2. PICK L \in Seq(Seq(Nat)) : Split(text) = Append(L, b) /\ O(s.lines) = O(L)
  BY DEF Recorded
<1> HIDE DEF b, s
<1>3. PICK g \in Seq(Seq(Nat)), m \in Seq(Nat) :
             /\ Split(t) = Append(g, m) /\ ~Contains(m, EndOfLine)
             /\ Split(u) = Append(L \o g, m)
  <2>1. \E g \in Seq(Seq(Nat)), m \in Seq(Nat) :
           /\ Split(b \o chunk) = Append(g, m) /\ ~Contains(m, EndOfLine)
           /\ Split(text \o chunk) = Append(L \o g, m)
    BY <1>1, <1>2, SplitConcat
  <2> QED BY <2>1
<1>4. new.buf = m /\ new.src = RecordStdin(s, g)
  BY <1>3, ChunkRead DEF b, s
<1>5. /\ new.src.known
      /\ O(new.src.lines) = O(s.lines) \o O(g)
  <2>1. /\ RecordStdin(s, g).known
        /\ Outside(RecordStdin(s, g).lines, {<<>>}) = Outside(s.lines, {<<>>}) \o Outside(g, {<<>>})
    BY <1>1, RecordedLines
  <2> HIDE DEF new
  <2> QED BY <1>4, <2>1
<1>6. new \in Sources
  BY <1>1, ChunkTyped
<1>7. O(L \o g) = O(L) \o O(g) /\ L \o g \in Seq(Seq(Nat))
  <2>1. Outside(L \o g, {<<>>}) = Outside(L, {<<>>}) \o Outside(g, {<<>>})
    BY OutsideConcat
  <2> QED BY <2>1, ConcatProperties
<1> HIDE DEF new, u, O
<1>8. Split(u) = Append(L \o g, new.buf) /\ O(new.src.lines) = O(L \o g)
  BY <1>2, <1>3, <1>4, <1>5, <1>7
<1>9. Recorded(new, u)
  BY <1>3, <1>4, <1>5, <1>6, <1>7, <1>8 DEF Recorded, O
<1> QED BY <1>9 DEF new, u

\* What has been read of a sequence of chunks.
ReadAll(chunks) == FoldLeft(ReadChunk, Opened, chunks)

\* One more chunk is read after the others.
LEMMA ReadAllAppend ==
  ASSUME NEW cs \in Seq(Seq(Nat)), NEW c \in Seq(Nat)
  PROVE  ReadAll(<<>>) = Opened /\ ReadAll(Append(cs, c)) = ReadChunk(ReadAll(cs), c)
<1> DEFINE n == Len(cs)
           ds == Append(cs, c)
<1>1. /\ ds \in Seq(Seq(Nat)) /\ Len(ds) = n + 1 /\ ds[n + 1] = c /\ n \in Nat
      /\ \A k \in 1..n : ds[k] = cs[k]
  BY AppendProperties
<1> HIDE DEF ds
<1>2. PICK r : /\ r[0] = Opened
               /\ \A k \in 1..Len(cs) : r[k] = ReadChunk(r[k - 1], cs[k])
               /\ \A k \in 0..Len(cs) : r[k] \in Sources
               /\ FoldLeft(ReadChunk, Opened, cs) = r[Len(cs)]
  BY SourceSteps
<1>3. PICK q : /\ q[0] = Opened
               /\ \A k \in 1..Len(ds) : q[k] = ReadChunk(q[k - 1], ds[k])
               /\ \A k \in 0..Len(ds) : q[k] \in Sources
               /\ FoldLeft(ReadChunk, Opened, ds) = q[Len(ds)]
  BY <1>1, SourceSteps
<1>4. Len(cs) = n /\ Len(ds) = n + 1
  BY <1>1
<1> HIDE DEF n
<1>5. r[n] = q[n]
  <2>1. \A k \in 1..n : k \in 1..n + 1
    BY <1>1
  <2>2. \A k \in 1..n : r[k - 1] = q[k - 1] => r[k] = q[k]
    BY <1>1, <1>2, <1>3, <1>4, <2>1
  <2>3. r[0] = q[0] /\ n \in Nat
    BY <1>1, <1>2, <1>3
  <2> QED BY <2>2, <2>3, SameSteps
<1>6. q[n + 1] = ReadChunk(q[n], c)
  <2>1. PICK k \in 1..n + 1 : k = n + 1 /\ k - 1 = n
    BY <1>1
  <2>2. q[k] = ReadChunk(q[k - 1], ds[k])
    BY <1>3, <1>4
  <2> QED BY <1>1, <2>1, <2>2
<1>7. ReadAll(<<>>) = Opened
  <2>1. \A s \in Seq(Seq(Nat)) : s = <<>> => ReadAll(s) = Opened
    <3> SUFFICES ASSUME NEW s \in Seq(Seq(Nat)), s = <<>> PROVE ReadAll(s) = Opened
      OBVIOUS
    <3>1. PICK p : /\ p[0] = Opened
                   /\ \A k \in 1..Len(s) : p[k] = ReadChunk(p[k - 1], s[k])
                   /\ \A k \in 0..Len(s) : p[k] \in Sources
                   /\ FoldLeft(ReadChunk, Opened, s) = p[Len(s)]
      BY SourceSteps
    <3>2. Len(s) = 0
      OBVIOUS
    <3> QED BY <3>1, <3>2 DEF ReadAll
  <2>2. <<>> \in Seq(Seq(Nat))
    OBVIOUS
  <2> QED BY <2>1, <2>2
<1> QED BY <1>2, <1>3, <1>4, <1>5, <1>6, <1>7 DEF ds, ReadAll

\* Of all chunks the lines that they end are recorded.
LEMMA AllRecorded ==
  ASSUME NEW chunks \in Seq(Seq(Nat))
  PROVE  Recorded(ReadAll(chunks), FlattenSeq(chunks))
<1> DEFINE G == {cs \in Seq(Seq(Nat)) : Recorded(ReadAll(cs), FlattenSeq(cs))}
           e == <<>>
<1>1. e \in Seq(Seq(Nat)) /\ e \in Seq(Nat)
  OBVIOUS
<1>2. <<>> \in G
  <2>1. ReadAll(<<>>) = Opened /\ FlattenSeq(<<>>) = <<>>
    BY <1>1, ReadAllAppend, Flattened
  <2>2. /\ Opened \in Sources /\ Opened.buf = e /\ Opened.src.lines = e
    BY DEF Opened, Sources
  <2>3. ~Contains(e, EndOfLine)
    BY DEF Contains
  <2>4. Split(<<>>) = Append(e, e)
    BY <1>1, <2>3, SplitLine
  <2>5. Recorded(Opened, <<>>)
    <3> HIDE DEF e
    <3> QED BY <1>1, <2>2, <2>3, <2>4 DEF Recorded, e
  <2>6. Recorded(ReadAll(<<>>), FlattenSeq(<<>>))
    BY <2>1, <2>5
  <2> QED BY <1>1, <2>6
<1>3. ASSUME NEW cs \in Seq(Seq(Nat)), NEW c \in Seq(Nat), cs \in G PROVE Append(cs, c) \in G
  <2>1. Recorded(ReadAll(cs), FlattenSeq(cs)) /\ FlattenSeq(cs) \in Seq(Nat)
    BY <1>3, Flattened
  <2>2. Recorded(ReadChunk(ReadAll(cs), c), FlattenSeq(cs) \o c)
    <3> DEFINE r == ReadAll(cs)
               t == FlattenSeq(cs)
    <3>1. Recorded(r, t) /\ t \in Seq(Nat)
      BY <2>1
    <3> HIDE DEF r, t
    <3>2. Recorded(ReadChunk(r, c), t \o c)
      BY <3>1, ChunkRecorded
    <3> QED BY <3>2 DEF r, t
  <2>3. ReadAll(Append(cs, c)) = ReadChunk(ReadAll(cs), c) /\ FlattenSeq(Append(cs, c)) = FlattenSeq(cs) \o c
    BY ReadAllAppend, Flattened
  <2>4. Append(cs, c) \in Seq(Seq(Nat))
    BY AppendProperties
  <2> QED BY <2>2, <2>3, <2>4
<1>4. Seq(Seq(Nat)) \subseteq G
  <2> HIDE DEF G
  <2> QED BY <1>2, <1>3, SequenceInduction
<1> QED BY <1>4

\* The end of the stream records what is left.
LEMMA SourceRead ==
  ASSUME NEW chunks \in Seq(Seq(Nat))
  PROVE  /\ Outside(ReadSource(chunks), {<<>>}) = Outside(Split(FlattenSeq(chunks)), {<<>>})
         /\ Len(chunks) = 1 => IsPrefix(Split(FlattenSeq(chunks)), Append(ReadSource(chunks), <<>>))
<1> DEFINE r == ReadAll(chunks)
           text == FlattenSeq(chunks)
           b == r.buf
           s == r.src
           tail == IF b = <<>> THEN <<>> ELSE <<b>>
           all == ReadSource(chunks)
           O(x) == Outside(x, {<<>>})
           e == <<>>
<1>1. Recorded(r, text) /\ text \in Seq(Nat)
  BY AllRecorded, Flattened
<1>2. all = RecordStdin(s, tail).lines
  BY DEF ReadSource, ReadAll, Opened
<1> HIDE DEF r, text, all
<1>3. /\ b \in Seq(Nat)
      /\ s \in [known : BOOLEAN, lines : Seq(Seq(Nat))] /\ (s.known \/ s.lines = <<>>)
  BY <1>1 DEF Recorded, Sources
<1>4. PICK L \in Seq(Seq(Nat)) : Split(text) = Append(L, b) /\ O(s.lines) = O(L)
  BY <1>1 DEF Recorded
<1> HIDE DEF b, s
<1>5. e \in Seq(Seq(Nat)) /\ e \in Seq(Nat) /\ O(e) = e
  BY OutsideEmpty
<1>6. tail \in Seq(Seq(Nat)) /\ (b # e => tail = Append(e, b)) /\ (b = e => tail = e)
  BY <1>3
<1> HIDE DEF tail, e
<1>7. O(tail) = IF b = e THEN e ELSE Append(e, b)
  <2>1. Outside(Append(e, b), {<<>>}) = IF b \in {<<>>} THEN Outside(e, {<<>>}) ELSE Append(Outside(e, {<<>>}), b)
    BY <1>3, <1>5, OutsideAppend
  <2> QED BY <1>5, <1>6, <2>1 DEF e
<1>8. O(Append(L, b)) = IF b = e THEN O(L) ELSE Append(O(L), b)
  <2>1. Outside(Append(L, b), {<<>>}) = IF b \in {<<>>} THEN Outside(L, {<<>>}) ELSE Append(Outside(L, {<<>>}), b)
    BY <1>3, OutsideAppend
  <2> QED BY <2>1 DEF e
<1>9. O(all) = O(s.lines) \o O(tail)
  <2>1. Outside(RecordStdin(s, tail).lines, {<<>>}) = Outside(s.lines, {<<>>}) \o Outside(tail, {<<>>})
    BY <1>3, <1>6, RecordedLines
  <2> QED BY <1>2, <2>1
<1>10. O(L) \in Seq(Seq(Nat))
  BY OutsideTyped
<1> HIDE DEF O
<1>11. O(all) = O(Append(L, b))
  <2>1. O(L) \o e = O(L)
    BY <1>10, ConcatEmptySeq DEF e
  <2>2. O(L) \o Append(e, b) = Append(O(L) \o e, b)
    <3> DEFINE o == O(L)
    <3>1. o \in Seq(Seq(Nat)) /\ e \in Seq(Seq(Nat)) /\ b \in Seq(Nat)
      BY <1>3, <1>5, <1>10
    <3> HIDE DEF o
    <3>2. o \o Append(e, b) = Append(o \o e, b)
      BY ONLY <3>1, AppendConcat
    <3> QED BY <3>2 DEF o
  <2> QED BY <1>4, <1>7, <1>8, <1>9, <2>1, <2>2
<1>12. ASSUME Len(chunks) = 1
       PROVE  IsPrefix(Append(L, b), Append(all, e))
  <2> DEFINE c == chunks[1]
  <2>1. c \in Seq(Nat) /\ chunks = Append(e, c)
    BY <1>12 DEF e
  <2> HIDE DEF c
  <2>2. text = e \o c
    BY <1>5, <2>1, Flattened DEF text, e
  <2>3. r = ReadChunk(Opened, c)
    BY <1>5, <2>1, ReadAllAppend DEF r, e
  <2>4. Split(Opened.buf \o c) = Append(L, b)
    BY <1>4, <2>2 DEF Opened, e
  <2>5. s = RecordStdin(Opened.src, L)
    BY <1>3, <2>3, <2>4, ChunkRead DEF s
  <2>6. s = [known |-> TRUE, lines |-> L]
    BY <2>5 DEF RecordStdin, Opened
  <2> DEFINE k == L \o tail
             z == EmptyLine
             m == Append(L, b)
  <2>7. all = k \o z
    BY <1>2, <2>6 DEF RecordStdin, EmptyLine
  <2>8. /\ k \in Seq(Seq(Nat)) /\ z \in Seq(Seq(Nat)) /\ m \in Seq(Seq(Nat))
        /\ z = Append(e, e)
    <3>1. z \in Seq(Seq(Nat)) /\ z = Append(e, e)
      BY DEF EmptyLine, e
    <3> QED BY <1>3, <1>6, <3>1, ConcatProperties, AppendProperties
  <2> HIDE DEF z
  <2>9. k \o z = Append(k, e) /\ k \o e = k
    <3> HIDE DEF k
    <3>1. k \o e = k
      BY <2>8, ConcatEmptySeq DEF e
    <3>2. k \o Append(e, e) = Append(k \o e, e)
      BY <1>5, <2>8, AppendConcat
    <3> QED BY <2>8, <3>1, <3>2
  <2>10. CASE b = e
    <3>1. k = L
      BY <1>6, <2>10, ConcatEmptySeq DEF e
    <3>2. all = m
      BY <2>7, <2>9, <2>10, <3>1
    <3> DEFINE d == Append(e, e)
    <3>3. Append(m, e) = m \o z
      <4> HIDE DEF m
      <4>1. m \o e = m
        BY <2>8, ConcatEmptySeq DEF e
      <4>2. m \o Append(e, e) = Append(m \o e, e)
        BY <1>5, <2>8, AppendConcat
      <4> QED BY <2>8, <4>1, <4>2
    <3> HIDE DEF m
    <3>4. IsPrefix(m, m \o z)
      BY <2>8, FirstPart
    <3> QED BY <3>2, <3>3, <3>4 DEF m
  <2>11. CASE b # e
    <3>1. k = m
      <4>1. L \o Append(e, b) = Append(L \o e, b)
        <5>1. L \in Seq(Seq(Nat)) /\ e \in Seq(Seq(Nat)) /\ b \in Seq(Nat)
          BY <1>3, <1>5
        <5> QED BY ONLY <5>1, AppendConcat
      <4>2. L \o e = L
        BY ConcatEmptySeq DEF e
      <4> QED BY <1>6, <2>11, <4>1, <4>2
    <3> DEFINE y == Append(z, e)
    <3>2. y \in Seq(Seq(Nat))
      BY <1>5, <2>8, AppendProperties
    <3> HIDE DEF m, k
    <3>3. Append(all, e) = m \o y
      <4>1. m \o Append(z, e) = Append(m \o z, e)
        BY <1>5, <2>8, AppendConcat
      <4> QED BY <2>7, <3>1, <4>1
    <3> HIDE DEF y
    <3>4. IsPrefix(m, m \o y)
      BY <2>8, <3>2, FirstPart
    <3> QED BY <3>3, <3>4 DEF m
  <2> QED BY <2>10, <2>11
<1>13. O(all) = O(Split(text)) /\ (Len(chunks) = 1 => IsPrefix(Split(text), Append(all, e)))
  BY <1>4, <1>11, <1>12
<1> QED BY <1>13 DEF O, all, text, e

\* The recorded source has the lines of the script in order, whatever the
\* chunks of the standard input, and a script that comes in one chunk keeps its
\* line numbers (SourceRecordReader.Read and SourceImager.RecordStdin).
THEOREM SourceKeepsLines == Spec => []SourceIsRecorded
<1>1. Invariant => SourceIsRecorded
  <2> SUFFICES ASSUME Invariant, Converted("source") PROVE SourceIsRecorded
    BY DEF SourceIsRecorded
  <2>1. kind = "source" /\ output[1] = Result /\ input \in Inputs["source"]
    BY ConvertedResult
  <2>2. input \in Seq(Seq(Nat))
    BY <2>1, InputsAssumption DEF InputsTyped
  <2>3. output[1] = ReadSource(input)
    BY <2>1 DEF Result
  <2>4. /\ Outside(ReadSource(input), {<<>>}) = Outside(Split(FlattenSeq(input)), {<<>>})
        /\ Len(input) = 1 => IsPrefix(Split(FlattenSeq(input)), Append(ReadSource(input), <<>>))
    BY <2>2, SourceRead
  <2> QED BY <2>3, <2>4 DEF SourceIsRecorded
<1> QED BY <1>1, Invariance, PTL

----------------------------------------------------------------------------
(* tocsv and fromcsv with a header.                                        *)

\* Every element of a sequence is converted.
Converts(f, S, T) == \A x \in S : f[x] \in T
Mapped(f, s) == [i \in DOMAIN s |-> f[s[i]]]

\* The conversion of every element has the length, and goes on with the next.
LEMMA MappedAppend ==
  ASSUME NEW S, NEW T, NEW f, Converts(f, S, T), NEW s \in Seq(S), NEW e \in S
  PROVE  /\ Mapped(f, s) \in Seq(T) /\ Len(Mapped(f, s)) = Len(s)
         /\ \A i \in 1..Len(s) : Mapped(f, s)[i] = f[s[i]]
         /\ Mapped(f, Append(s, e)) = Append(Mapped(f, s), f[e])
<1> DEFINE t == Append(s, e)
           m == Mapped(f, s)
           k == Mapped(f, t)
           n == Len(s)
           b == Append(m, f[e])
<1>1. \A u \in Seq(S) : /\ Mapped(f, u) \in Seq(T) /\ Len(Mapped(f, u)) = Len(u)
                        /\ \A i \in 1..Len(u) : Mapped(f, u)[i] = f[u[i]]
  <2> SUFFICES ASSUME NEW u \in Seq(S)
               PROVE  /\ Mapped(f, u) \in Seq(T) /\ Len(Mapped(f, u)) = Len(u)
                      /\ \A i \in 1..Len(u) : Mapped(f, u)[i] = f[u[i]]
    OBVIOUS
  <2>1. Mapped(f, u) = [i \in 1..Len(u) |-> f[u[i]]] /\ Len(u) \in Nat
    BY DEF Mapped
  <2>2. \A i \in 1..Len(u) : f[u[i]] \in T
    BY DEF Converts
  <2> QED BY <2>1, <2>2
<1>2. /\ t \in Seq(S) /\ Len(t) = n + 1 /\ t[n + 1] = e /\ n \in Nat
      /\ \A i \in 1..n : t[i] = s[i]
  BY AppendProperties
<1> HIDE DEF t
<1>3. /\ m \in Seq(T) /\ Len(m) = n /\ \A i \in 1..n : m[i] = f[s[i]]
  BY <1>1
<1>4. /\ k \in Seq(T) /\ Len(k) = n + 1 /\ \A i \in 1..n + 1 : k[i] = f[t[i]]
  BY <1>1, <1>2
<1> HIDE DEF m, k, n
<1>5. /\ b \in Seq(T) /\ Len(b) = n + 1 /\ b[n + 1] = f[e]
      /\ \A i \in 1..n : b[i] = m[i]
  <2>1. f[e] \in T
    BY DEF Converts
  <2> QED BY <1>3, <2>1, AppendProperties
<1> HIDE DEF b
<1>6. \A i \in 1..n + 1 : i \in 1..n \/ i = n + 1
  BY <1>2
<1>7. n + 1 \in 1..n + 1 /\ \A i \in 1..n : i \in 1..n + 1
  BY <1>2
<1>8. \A i \in 1..n + 1 : k[i] = b[i]
  BY <1>2, <1>3, <1>4, <1>5, <1>6, <1>7
<1>9. k = b
  BY <1>4, <1>5, <1>8, SeqEqual
<1> QED BY <1>3, <1>9 DEF m, k, n, b, t

\* What is converted is in a set exactly if what it comes from is.
Matches(f, S, T, B, C) == \A x \in S : f[x] \in T /\ (x \in B <=> f[x] \in C)

\* To drop elements and then convert the others is to convert all and then
\* drop the images of the former.
LEMMA OutsideMapped ==
  ASSUME NEW S, NEW T, NEW B, NEW C, NEW f, Matches(f, S, T, B, C), NEW s \in Seq(S)
  PROVE  Outside(Mapped(f, s), C) = Mapped(f, Outside(s, B))
<1> DEFINE G == {u \in Seq(S) : Outside(Mapped(f, u), C) = Mapped(f, Outside(u, B))}
<1>1. <<>> \in G
  <2>1. Mapped(f, <<>>) = <<>>
    BY DEF Mapped
  <2>2. Outside(<<>>, B) = <<>> /\ Outside(<<>>, C) = <<>>
    BY OutsideEmpty
  <2> QED BY <2>1, <2>2
<1>2. ASSUME NEW u \in Seq(S), NEW e \in S, u \in G PROVE Append(u, e) \in G
  <2> DEFINE m == Mapped(f, u)
             o == Outside(u, B)
  <2>1. f[e] \in T /\ (e \in B <=> f[e] \in C)
    BY DEF Matches
  <2>10. Converts(f, S, T)
    BY DEF Converts, Matches
  <2>2. m \in Seq(T) /\ Mapped(f, Append(u, e)) = Append(m, f[e])
    BY ONLY <2>10, u \in Seq(S), e \in S, MappedAppend
  <2>3. o \in Seq(S)
    BY OutsideTyped
  <2>4. Outside(m, C) = Mapped(f, o)
    BY <1>2
  <2> HIDE DEF m
  <2>5. Outside(Append(m, f[e]), C) = IF f[e] \in C THEN Outside(m, C) ELSE Append(Outside(m, C), f[e])
    <3> DEFINE d == f[e]
    <3>1. d \in T /\ m \in Seq(T)
      BY <2>1, <2>2
    <3> HIDE DEF d
    <3>2. Outside(Append(m, d), C) = IF d \in C THEN Outside(m, C) ELSE Append(Outside(m, C), d)
      BY <3>1, OutsideAppend
    <3> QED BY <3>2 DEF d
  <2>6. Outside(Append(u, e), B) = IF e \in B THEN o ELSE Append(o, e)
    BY OutsideAppend
  <2> HIDE DEF o
  <2>7. Mapped(f, Append(o, e)) = Append(Mapped(f, o), f[e])
    BY ONLY <2>10, <2>3, e \in S, MappedAppend
  <2>8. Append(u, e) \in Seq(S)
    BY AppendProperties
  <2>9. Outside(Mapped(f, Append(u, e)), C) = Mapped(f, Outside(Append(u, e), B))
    BY <2>1, <2>2, <2>4, <2>5, <2>6, <2>7
  <2> QED BY <2>8, <2>9
<1>3. Seq(S) \subseteq G
  <2> HIDE DEF G
  <2> QED BY <1>1, <1>2, SequenceInduction
<1> QED BY <1>3

\* A cell has what the table has for the name, or else for the place.
Field(row, names, i) ==
  IF names[i] \in DOMAIN row THEN row[names[i]]
  ELSE IF i \in DOMAIN row THEN row[i] ELSE Empty

\* All cells of a row.
Fields(row, names) == [i \in 1..Len(names) |-> Field(row, names, i)]

\* The rows that are not blank lines.
Kept(rows, names) ==
  Outside(rows, {row \in ToSet(rows) : Len(names) = 1 /\ Field(row, names, 1) = Empty})

\* The cells of a row are its fields.
LEMMA CellsOfRow ==
  ASSUME NEW row, IsRow(row), NEW names, IsHeader(names)
  PROVE  Cells(row, names) = [i \in 1..Len(names) |-> Field(row, names, i)]
<1>1. names \in Seq(Nat \ 0..Columns) /\ Len(names) <= Columns
  BY DEF IsHeader
<1>2. DOMAIN names = 1..Len(names) /\ Len(names) \in Nat
  BY <1>1
<1>3. ASSUME NEW i \in 1..Len(names) PROVE Cell(row, names, i) = Field(row, names, i)
  <2>1. names[i] \in Nat \ 0..Columns
    BY <1>1
  <2>2. names[i] > Columns
    BY <2>1, ColumnsAssumption
  <2>3. i <= Columns
    BY <1>1, <1>2, ColumnsAssumption
  <2>4. i \in Indexes(row) <=> i \in DOMAIN row
    BY <2>3 DEF Indexes
  <2> QED BY <2>2, <2>4 DEF Cell, Field
<1>4. Cells(row, names) = [i \in 1..Len(names) |-> Cell(row, names, i)]
  BY <1>2 DEF Cells
<1> QED BY <1>3, <1>4

\* The names, and the cells of each row that is not a blank line.
AreLines(read, rows, names) ==
  /\ Kept(rows, names) \in Seq(ToSet(rows))
  /\ Len(read) = Len(Kept(rows, names)) + 1 /\ DOMAIN read = 1..Len(Kept(rows, names)) + 1
  /\ read[1] = names
  /\ \A r \in 1..Len(Kept(rows, names)) : read[r + 1] = Fields(Kept(rows, names)[r], names)

\* With a header tocsv writes the names, and for each row its cells; the lines
\* that fromcsv gets are these but for the blank ones.
LEMMA LinesWritten ==
  ASSUME NEW rows, IsTables(rows), NEW names, IsHeader(names), names # <<>>
  PROVE  AreLines(CsvLines(ToCSV(rows, names, FALSE)), rows, names)
<1> DEFINE S == ToSet(rows)
           n == Len(names)
           f == [row \in S |-> Cells(row, names)]
           T == {Cells(row, names) : row \in S}
           V == T \cup {names}
           first == <<names>>
           body == Mapped(f, rows)
           B == {row \in S : Len(names) = 1 /\ Field(row, names, 1) = Empty}
           kept == Outside(rows, B)
           tail == Mapped(f, kept)
           read == CsvLines(ToCSV(rows, names, FALSE))
<1>1. rows \in Seq(S) /\ \A row \in S : IsRow(row)
  <2>1. \A row \in S : \E i \in DOMAIN rows : row = rows[i]
    BY DEF ToSet
  <2> QED BY <2>1 DEF IsTables
<1>2. names \in Seq(Nat \ 0..Columns) /\ n \in Nat \ {0} /\ DOMAIN names = 1..n
  BY DEF IsHeader
<1>3. \A row \in S : Cells(row, names) = [i \in 1..n |-> Field(row, names, i)]
  BY <1>1, CellsOfRow
<1>4. ToCSV(rows, names, FALSE) = first \o body
  <2>1. body = [i \in DOMAIN rows |-> Cells(rows[i], names)]
    <3>1. \A i \in DOMAIN rows : rows[i] \in S
      BY <1>1
    <3> QED BY <3>1 DEF Mapped
  <2> HIDE DEF body
  <2> QED BY <2>1 DEF ToCSV
<1>5. \A row \in S : f[row] \in T /\ (row \in B <=> f[row] \in Blank)
  <2> SUFFICES ASSUME NEW row \in S PROVE f[row] \in T /\ (row \in B <=> f[row] \in Blank)
    OBVIOUS
  <2> DEFINE c == f[row]
             v == Field(row, names, 1)
  <2>1. c \in T /\ c = [i \in 1..n |-> Field(row, names, i)]
    BY <1>3
  <2>2. row \in B <=> n = 1 /\ v = Empty
    OBVIOUS
  <2> HIDE DEF n
  <2>3. Len(c) = n /\ c[1] = v
    BY <1>2, <2>1
  <2>4. c # <<>>
    BY <1>2, <2>3
  <2>5. c = <<Empty>> <=> n = 1 /\ v = Empty
    <3>1. CASE n = 1
      <4>1. c = [i \in 1..1 |-> Field(row, names, i)]
        BY <2>1, <3>1
      <4> HIDE DEF v
      <4>2. \A i \in 1..1 : c[i] = v
        BY <2>3
      <4> HIDE DEF c
      <4>3. c = [i \in 1..1 |-> v]
        BY <4>1, <4>2
      <4>4. <<Empty>> = [i \in 1..1 |-> Empty]
        OBVIOUS
      <4> QED BY <2>3, <3>1, <4>3, <4>4
    <3>2. CASE n # 1
      <4> HIDE DEF c
      <4>1. Len(<<Empty>>) = 1
        OBVIOUS
      <4> QED BY <2>3, <3>2, <4>1
    <3> QED BY <3>1, <3>2
  <2> HIDE DEF c, B, T
  <2>6. c \in Blank <=> n = 1 /\ v = Empty
    BY <2>4, <2>5 DEF Blank
  <2> HIDE DEF v
  <2>7. c \in T /\ (row \in B <=> c \in Blank)
    BY <2>1, <2>2, <2>6
  <2> QED BY <2>7 DEF c
<1>6. Converts(f, S, T) /\ Matches(f, S, T, B, Blank)
  <2> HIDE DEF S, f, T, B
  <2> QED BY <1>5 DEF Converts, Matches
<1> HIDE DEF S, f, T, B, n
<1>7. Outside(body, Blank) = tail
  BY <1>1, <1>6, OutsideMapped
<1>8. kept \in Seq(S)
  BY <1>1, OutsideTyped
<1> HIDE DEF kept
<1>9. \A s \in Seq(S) : /\ Mapped(f, s) \in Seq(T) /\ Len(Mapped(f, s)) = Len(s)
                        /\ \A i \in 1..Len(s) : Mapped(f, s)[i] = f[s[i]]
  <2> SUFFICES ASSUME NEW s \in Seq(S)
               PROVE  /\ Mapped(f, s) \in Seq(T) /\ Len(Mapped(f, s)) = Len(s)
                      /\ \A i \in 1..Len(s) : Mapped(f, s)[i] = f[s[i]]
    OBVIOUS
  <2>1. CASE s = <<>>
    BY <2>1 DEF Mapped
  <2>2. CASE s # <<>>
    <3>1. s[1] \in S
      BY <2>2
    <3> QED BY <1>6, <3>1, MappedAppend
  <2> QED BY <2>1, <2>2
<1>10. /\ body \in Seq(T) /\ tail \in Seq(T) /\ Len(tail) = Len(kept)
       /\ \A i \in 1..Len(kept) : tail[i] = f[kept[i]]
  BY <1>1, <1>8, <1>9
<1> HIDE DEF body, tail
<1>11. first \in Seq(V) /\ body \in Seq(V) /\ tail \in Seq(V) /\ names \in V
  BY <1>10
<1>12. Outside(first, Blank) = first
  <2>1. names \notin Blank
    <3>1. names[1] \in Nat \ 0..Columns
      BY <1>2
    <3>2. names[1] # 0
      BY <3>1, ColumnsAssumption
    <3>3. \A x : x = <<Empty>> => x[1] = 0
      BY DEF Empty
    <3> QED BY <3>2, <3>3 DEF Blank
  <2>2. \A i \in 1..Len(first) : first[i] \notin Blank
    BY <2>1
  <2> HIDE DEF first
  <2> QED BY <1>11, <2>2, OutsideAllOrNone
<1>13. read = first \o tail
  <2>1. read = Outside(first \o body, Blank)
    BY <1>4 DEF CsvLines
  <2> HIDE DEF read, first
  <2>2. Outside(first \o body, Blank) = Outside(first, Blank) \o Outside(body, Blank)
    BY <1>11, OutsideConcat
  <2> QED BY <1>7, <1>12, <2>1, <2>2
<1> HIDE DEF read
<1>14. Len(first) = 1 /\ first[1] = names
  OBVIOUS
<1> HIDE DEF first, V
<1>15. /\ read \in Seq(V) /\ Len(read) = 1 + Len(tail) /\ Len(tail) \in Nat
       /\ \A i \in 1..1 + Len(tail) : read[i] = IF i <= 1 THEN first[i] ELSE tail[i - 1]
  <2>1. first \in Seq(V) /\ tail \in Seq(V)
    BY <1>11
  <2>2. /\ first \o tail \in Seq(V) /\ Len(first \o tail) = Len(first) + Len(tail)
        /\ \A i \in 1..Len(first) + Len(tail) :
             (first \o tail)[i] = IF i <= Len(first) THEN first[i] ELSE tail[i - Len(first)]
    BY ONLY <2>1, ConcatProperties
  <2>3. Len(tail) \in Nat
    BY <2>1
  <2> QED BY <1>13, <1>14, <2>2, <2>3
<1>16. Len(read) = Len(kept) + 1 /\ DOMAIN read = 1..Len(kept) + 1 /\ read[1] = names
  BY <1>10, <1>14, <1>15
<1>17. ASSUME NEW r \in 1..Len(kept)
       PROVE  read[r + 1] = Fields(kept[r], names)
  <2>1. r + 1 \in 1..1 + Len(tail) /\ ~(r + 1 <= 1) /\ (r + 1) - 1 = r
    BY <1>10, <1>15
  <2>2. read[r + 1] = tail[r]
    BY <1>15, <2>1
  <2>3. kept[r] \in S
    BY <1>8
  <2>4. f[kept[r]] = Cells(kept[r], names)
    BY <2>3 DEF f
  <2>5. Cells(kept[r], names) = Fields(kept[r], names)
    BY <1>3, <2>3 DEF Fields, n
  <2> QED BY <1>10, <2>2, <2>4, <2>5
<1>18. /\ kept \in Seq(S)
       /\ Len(read) = Len(kept) + 1 /\ DOMAIN read = 1..Len(kept) + 1
       /\ read[1] = names
       /\ \A r \in 1..Len(kept) : read[r + 1] = Fields(kept[r], names)
  BY <1>8, <1>16, <1>17
<1>19. kept = Kept(rows, names)
  BY DEF kept, B, S, n, Kept
<1> HIDE DEF kept
<1> QED BY <1>18, <1>19 DEF AreLines, read, S, n

\* Different names make a header that is not renamed.
LEMMA HeaderRead ==
  ASSUME NEW names, IsHeader(names)
  PROVE  LET xs == [i \in DOMAIN names |-> Name(names[i])] IN
         /\ UniqueHeader(xs) = xs
         /\ DOMAIN xs = DOMAIN names
         /\ ToSet(xs) = {Name(names[i]) : i \in DOMAIN names}
         /\ \A i, j \in DOMAIN names : xs[i] = xs[j] => i = j
<1> DEFINE xs == [i \in DOMAIN names |-> Name(names[i])]
<1>1. names \in Seq(Nat \ 0..Columns) /\ DOMAIN names = 1..Len(names) /\ Len(names) \in Nat
  BY DEF IsHeader
<1>2. \A i \in DOMAIN names : xs[i] = Name(names[i]) /\ xs[i] \in Seq(Nat) /\ xs[i][1] = names[i]
  BY <1>1 DEF Name
<1>3. DOMAIN xs = DOMAIN names /\ xs \in Seq(Seq(Nat)) /\ Len(xs) = Len(names)
  <2>1. xs = [i \in 1..Len(names) |-> Name(names[i])]
    BY <1>1
  <2>2. \A i \in 1..Len(names) : Name(names[i]) \in Seq(Nat)
    BY <1>1 DEF Name
  <2> HIDE DEF xs
  <2> QED BY <1>1, <2>1, <2>2
<1>4. ToSet(xs) = {Name(names[i]) : i \in DOMAIN names}
  BY DEF ToSet
<1> HIDE DEF xs
<1>5. \A i, j \in DOMAIN names : xs[i] = xs[j] => i = j
  BY <1>2 DEF IsHeader
<1>6. \A i, j \in 1..Len(xs) : xs[i] = xs[j] => i = j
  BY <1>1, <1>3, <1>5
<1>7. UniqueHeader(xs) = xs
  BY <1>3, <1>6, HeaderOfNames
<1>8. /\ UniqueHeader(xs) = xs
      /\ DOMAIN xs = DOMAIN names
      /\ ToSet(xs) = {Name(names[i]) : i \in DOMAIN names}
      /\ \A i, j \in DOMAIN names : xs[i] = xs[j] => i = j
  BY <1>3, <1>4, <1>5, <1>7
<1> QED BY <1>8 DEF xs

\* fromcsv reads back what tocsv wrote with a header.
THEOREM TablesReadBack == Spec => []CsvRoundTrips
<1>1. Invariant => CsvRoundTrips
  <2> SUFFICES ASSUME Invariant, Converted("csv"), input[2] # <<>> PROVE CsvRoundTrips
    BY DEF CsvRoundTrips
  <2> DEFINE rows == input[1]
             names == input[2]
             xs == [i \in DOMAIN names |-> Name(names[i])]
             all == output[1]
             read == CsvLines(all)
             kept == Kept(rows, names)
             got == FromCSV(all)
             n == Len(names)
  <2>1. kind = "csv" /\ output[1] = Result /\ input \in Inputs["csv"]
    BY ConvertedResult
  <2>2. IsTables(rows) /\ IsHeader(names) /\ names # <<>> /\ ~input[3]
    BY <2>1, InputsAssumption DEF InputsTyped
  <2>3. all = ToCSV(rows, names, FALSE)
    <3>1. all = ToCSV(rows, names, input[3])
      BY <2>1 DEF Result
    <3> QED BY <2>2, <3>1 DEF ToCSV
  <2> HIDE DEF rows, names, all
  <2>4. DOMAIN names = 1..n /\ n \in Nat
    BY <2>2 DEF IsHeader
  <2>5. /\ kept \in Seq(ToSet(rows))
        /\ Len(read) = Len(kept) + 1 /\ DOMAIN read = 1..Len(kept) + 1
        /\ read[1] = names
        /\ \A r \in 1..Len(kept) : read[r + 1] = Fields(kept[r], names)
    <3>1. AreLines(CsvLines(ToCSV(rows, names, FALSE)), rows, names)
      BY <2>2, LinesWritten
    <3>2. AreLines(read, rows, names)
      BY <2>3, <3>1
    <3> HIDE DEF read
    <3> QED BY <3>2 DEF AreLines
  <2>6. /\ UniqueHeader(xs) = xs
        /\ DOMAIN xs = DOMAIN names
        /\ ToSet(xs) = {Name(names[i]) : i \in DOMAIN names}
        /\ \A i, j \in DOMAIN names : xs[i] = xs[j] => i = j
    BY <2>2, HeaderRead
  <2>7. Len(kept) \in Nat /\ DOMAIN kept = 1..Len(kept)
    BY <2>5
  <2> HIDE DEF kept, n
  <2>8. ~Ragged(all)
    <3>1. ASSUME NEW i \in DOMAIN read PROVE Len(read[i]) = n
      <4>1. i = 1 \/ (i - 1 \in 1..Len(kept) /\ (i - 1) + 1 = i)
        BY <2>5, <2>7
      <4>2. CASE i = 1
        BY <2>5, <4>2 DEF n
      <4>3. CASE i - 1 \in 1..Len(kept) /\ (i - 1) + 1 = i
        <5> DEFINE c == [j \in 1..n |-> Field(kept[i - 1], names, j)]
        <5>1. read[i] = c
          BY <2>5, <4>3 DEF Fields, n
        <5>2. Len(c) = n
          BY <2>4
        <5> QED BY <5>1, <5>2
      <4> QED BY <4>1, <4>2, <4>3
    <3>2. Len(read[1]) = n
      BY <2>5 DEF n
    <3> QED BY <3>1, <3>2 DEF Ragged
  <2>9. /\ got.header = xs
        /\ got.rows = [r \in 1..Len(kept) |->
                        [c \in ToSet(xs) |-> read[r + 1][CHOOSE i \in DOMAIN xs : xs[i] = c]]]
    <3> DEFINE h == UniqueHeader([i \in DOMAIN read[1] |-> Name(read[1][i])])
    <3>1. got = [header |-> h,
                 rows |-> [r \in 1..Len(read) - 1 |->
                            [c \in ToSet(h) |-> read[r + 1][CHOOSE i \in DOMAIN h : h[i] = c]]]]
      BY DEF FromCSV
    <3>2. [i \in DOMAIN read[1] |-> Name(read[1][i])] = xs
      BY <2>5
    <3>3. h = xs
      <4> HIDE DEF xs
      <4> QED BY <2>6, <3>2
    <3>4. Len(read) - 1 = Len(kept)
      BY <2>5, <2>7
    <3> HIDE DEF xs, h, got, read
    <3> QED BY <3>1, <3>3, <3>4
  <2> HIDE DEF got, read
  <2>10. Len(got.rows) = Len(kept)
    BY <2>7, <2>9
  <2>11. ASSUME NEW r \in DOMAIN kept, NEW i \in DOMAIN names
         PROVE  got.rows[r][Name(names[i])] = Field(kept[r], names, i)
    <3> DEFINE c == Name(names[i])
               place(d) == CHOOSE j \in DOMAIN xs : xs[j] = d
    <3>1. c \in ToSet(xs) /\ xs[i] = c /\ i \in DOMAIN xs
      BY <2>6
    <3>2. place(c) = i
      <4> HIDE DEF xs, c
      <4> QED BY <2>6, <3>1
    <3>3. got.rows[r] = [d \in ToSet(xs) |-> read[r + 1][place(d)]]
      BY <2>7, <2>9
    <3> HIDE DEF xs, c, place
    <3>4. got.rows[r][c] = read[r + 1][i]
      BY <3>1, <3>2, <3>3
    <3>5. read[r + 1][i] = Field(kept[r], names, i)
      <4>1. read[r + 1] = [j \in 1..n |-> Field(kept[r], names, j)]
        BY <2>5, <2>7 DEF Fields, n
      <4> QED BY <2>4, <4>1
    <3> QED BY <3>4, <3>5 DEF c
  <2> QED BY <2>8, <2>9, <2>10, <2>11 DEF CsvRoundTrips, Field, Kept, rows, names, all, got, kept
<1> QED BY <1>1, Invariance, PTL

----------------------------------------------------------------------------
(* The trees: values of Lua, and nodes of XML.                             *)

\* The parts of a table are values, and less deep.
LEMMA ItemNamed ==
  \A v \in LuaValues : Kind(v) = "table" /\ IsArray(v) =>
    \A i \in 1..Cardinality(Keys(v)) :
      /\ Named(v, i) = Content(v)[Num(i)] /\ Num(i) \in Keys(v)
      /\ Named(v, i) \in LuaValues /\ Depth[Named(v, i)] < Depth[v]
<1> SUFFICES ASSUME NEW v \in LuaValues, Kind(v) = "table", IsArray(v),
                    NEW i \in 1..Cardinality(Keys(v))
             PROVE  /\ Named(v, i) = Content(v)[Num(i)] /\ Num(i) \in Keys(v)
                    /\ Named(v, i) \in LuaValues /\ Depth[Named(v, i)] < Depth[v]
  OBVIOUS
<1>1. IsTable(v)
  BY TreesAssumption DEF IsAtom
<1>2. Keys(v) = {Num(j) : j \in 1..Cardinality(Keys(v))}
  BY DEF IsArray
<1>3. Num(i) \in Keys(v) /\ Content(Num(i)) = i
  BY <1>2 DEF Num, Content
<1>4. \A k \in Keys(v) : Content(k) = i => k = Num(i)
  BY <1>2 DEF Num, Content
<1>5. Named(v, i) = Content(v)[Num(i)]
  BY <1>3, <1>4 DEF Named
<1> QED BY <1>1, <1>3, <1>5 DEF IsTable

\* The field of a name is a value of the table that has this name, and less deep.
LEMMA FieldNamed ==
  \A v \in LuaValues : Kind(v) = "table" =>
    \A s \in {KeyString(k) : k \in Keys(v)} :
      Named(v, Content(s)) \in LuaValues /\ Depth[Named(v, Content(s))] < Depth[v]
<1> SUFFICES ASSUME NEW v \in LuaValues, Kind(v) = "table", NEW k \in Keys(v)
             PROVE  /\ Named(v, Content(KeyString(k))) \in LuaValues
                    /\ Depth[Named(v, Content(KeyString(k)))] < Depth[v]
  OBVIOUS
<1>1. IsTable(v)
  BY TreesAssumption DEF IsAtom
<1>2. Content(KeyString(k)) = Content(k)
  BY DEF KeyString, Str, Content
<1>3. PICK j \in Keys(v) : Named(v, Content(k)) = Content(v)[j]
  BY DEF Named
<1> QED BY <1>1, <1>2, <1>3 DEF IsTable

\* What a value becomes in Go is made of what its parts become.
LEMMA UnpackRecursion ==
  \A v \in LuaValues : UnpackLValue[v] =
    IF Kind(v) # "table" THEN v
    ELSE IF IsArray(v)
      THEN Slice([i \in 1..Cardinality(Keys(v)) |-> UnpackLValue[Named(v, i)]])
      ELSE Map([s \in {KeyString(k) : k \in Keys(v)} |-> UnpackLValue[Named(v, Content(s))]])
<1> DEFINE D == LuaValues
           d(v) == Depth[v]
           B(g, v) == IF Kind(v) # "table" THEN v
                      ELSE IF IsArray(v)
                        THEN Slice([i \in 1..Cardinality(Keys(v)) |-> g[Named(v, i)]])
                        ELSE Map([s \in {KeyString(k) : k \in Keys(v)} |-> g[Named(v, Content(s))]])
           On(n, g) == \A v \in D : d(v) < n => g[v] = B(g, v)
<1>1. \A v \in D : d(v) \in Nat
  BY TreesAssumption
<1>2. ASSUME NEW g, NEW h, NEW v \in D, \A c \in D : d(c) < d(v) => g[c] = h[c]
      PROVE  B(g, v) = B(h, v)
  <2>1. CASE Kind(v) = "table" /\ IsArray(v)
    <3>1. \A i \in 1..Cardinality(Keys(v)) : g[Named(v, i)] = h[Named(v, i)]
      BY <1>2, <2>1, ItemNamed
    <3> QED BY <2>1, <3>1
  <2>2. CASE Kind(v) = "table" /\ ~IsArray(v)
    <3> DEFINE S == {KeyString(k) : k \in Keys(v)}
    <3>1. \A s \in S : g[Named(v, Content(s))] = h[Named(v, Content(s))]
      BY <1>2, <2>2, FieldNamed
    <3> HIDE DEF S
    <3> QED BY <2>2, <3>1 DEF S
  <2> QED BY <2>1, <2>2
<1> HIDE DEF D, d, B
<1>3. ASSUME NEW n \in Nat, NEW g, NEW h, On(n, g), On(n, h), NEW v \in D, d(v) < n
      PROVE  g[v] = h[v]
  <2> DEFINE T == {k \in Nat : \A c \in D : d(c) < k /\ k <= n => g[c] = h[c]}
  <2>1. 0 \in T
    BY <1>1
  <2>2. ASSUME NEW k \in Nat, k \in T PROVE k + 1 \in T
    <3>1. ASSUME NEW c \in D, d(c) < k + 1, k + 1 <= n PROVE g[c] = h[c]
      <4>1. \A x \in D : d(x) < d(c) => g[x] = h[x]
        BY <1>1, <2>2, <3>1
      <4>2. B(g, c) = B(h, c)
        BY <1>2, <4>1
      <4>3. d(c) < n
        BY <1>1, <3>1
      <4> QED BY <1>3, <4>2, <4>3
    <3> QED BY <3>1
  <2>3. n \in T
    <3> HIDE DEF T
    <3> QED BY <2>1, <2>2, Induction
  <2> QED BY <1>3, <2>3
<1>4. ASSUME NEW n \in Nat PROVE \E g : On(n, g)
  <2> DEFINE T == {k \in Nat : \E g : On(k, g)}
  <2>1. 0 \in T
    <3>1. \A g : On(0, g)
      BY <1>1
    <3> HIDE DEF On
    <3> QED BY <3>1
  <2>2. ASSUME NEW k \in Nat, k \in T PROVE k + 1 \in T
    <3>1. PICK g : On(k, g)
      BY <2>2
    <3> DEFINE h == [v \in D |-> IF d(v) < k THEN g[v] ELSE B(g, v)]
    <3>2. ASSUME NEW v \in D, d(v) < k + 1 PROVE h[v] = B(h, v)
      <4>1. h[v] = B(g, v)
        BY <3>1
      <4>2. \A c \in D : d(c) < d(v) => g[c] = h[c]
        BY <1>1, <3>2
      <4> HIDE DEF h
      <4> QED BY <1>2, <4>1, <4>2
    <3>3. On(k + 1, h)
      <4> HIDE DEF h
      <4> QED BY <3>2
    <3> HIDE DEF On, h
    <3> QED BY <3>3
  <2>3. n \in T
    <3> HIDE DEF T
    <3> QED BY <2>1, <2>2, Induction
  <2> QED BY <2>3
<1> DEFINE A(n) == CHOOSE g : On(n, g)
           G == [v \in D |-> A(d(v) + 1)[v]]
<1>5. ASSUME NEW n \in Nat PROVE On(n, A(n))
  <2> HIDE DEF On
  <2> QED BY <1>4
<1> HIDE DEF A
<1>6. ASSUME NEW v \in D PROVE G[v] = B(G, v)
  <2> DEFINE n == d(v) + 1
  <2>1. n \in Nat /\ d(v) \in Nat
    BY <1>1
  <2>2. On(n, A(n))
    <3> HIDE DEF On, n
    <3> QED BY <1>5, <2>1
  <2>3. A(n)[v] = B(A(n), v)
    BY <2>1, <2>2
  <2>4. ASSUME NEW c \in D, d(c) < d(v) PROVE A(n)[c] = G[c]
    <3> DEFINE m == d(c) + 1
    <3>1. m \in Nat /\ m < n /\ d(c) \in Nat
      BY <1>1, <2>1, <2>4
    <3>2. On(m, A(m))
      <4> HIDE DEF On, m
      <4> QED BY <1>5, <3>1
    <3>3. On(m, A(n))
      <4> HIDE DEF m
      <4>1. \A x \in D : d(x) < m => d(x) < n
        BY <1>1, <2>1, <3>1
      <4> HIDE DEF n
      <4> QED BY <2>2, <4>1
    <3>4. d(c) < m
      BY <3>1
    <3>5. A(n)[c] = A(m)[c]
      <4> HIDE DEF On, m, n
      <4> QED BY <1>3, <3>1, <3>2, <3>3, <3>4
    <3> QED BY <3>5
  <2>5. B(A(n), v) = B(G, v)
    <3> HIDE DEF G, n
    <3> QED BY <1>2, <2>4
  <2>6. G[v] = A(n)[v]
    OBVIOUS
  <2> QED BY <2>3, <2>5, <2>6
<1>7. G = [v \in D |-> B(G, v)]
  <2>1. G = [v \in D |-> G[v]]
    OBVIOUS
  <2> HIDE DEF G
  <2> QED BY <1>6, <2>1
<1> HIDE DEF G
<1>8. UnpackLValue = [v \in D |-> B(UnpackLValue, v)]
  <2>1. UnpackLValue = CHOOSE g : g = [v \in D |-> B(g, v)]
    BY DEF UnpackLValue, B, D
  <2> QED BY <1>7, <2>1
<1>9. ASSUME NEW v \in D PROVE UnpackLValue[v] = B(UnpackLValue, v)
  BY <1>8
<1> QED BY <1>9 DEF B, D

\* How deep a value of Go is: as deep as the value of Lua that it comes from.
GoDepth(x) == CHOOSE n \in Nat : /\ \E v \in LuaValues : UnpackLValue[v] = x /\ Depth[v] = n
                                 /\ \A v \in LuaValues : UnpackLValue[v] = x => n <= Depth[v]

\* A value of Go comes from a value of Lua that is as deep.
LEMMA GoDepths ==
  \A x \in GoValues :
    /\ GoDepth(x) \in Nat
    /\ \E v \in LuaValues : UnpackLValue[v] = x /\ Depth[v] = GoDepth(x)
    /\ \A v \in LuaValues : UnpackLValue[v] = x => GoDepth(x) <= Depth[v]
<1> SUFFICES ASSUME NEW x \in GoValues
             PROVE  \E n \in Nat : /\ \E v \in LuaValues : UnpackLValue[v] = x /\ Depth[v] = n
                                   /\ \A v \in LuaValues : UnpackLValue[v] = x => n <= Depth[v]
  BY DEF GoDepth
<1> DEFINE T == {n \in Nat : \E v \in LuaValues : UnpackLValue[v] = x /\ Depth[v] = n}
<1>1. PICK n \in T : \A m \in T : n <= m
  <2>1. PICK v \in LuaValues : UnpackLValue[v] = x
    BY DEF GoValues
  <2>2. Depth[v] \in T
    BY <2>1, TreesAssumption
  <2>3. T \subseteq Nat
    OBVIOUS
  <2> HIDE DEF T
  <2> QED BY <2>2, <2>3, LeastNumber
<1>2. \A v \in LuaValues : UnpackLValue[v] = x => Depth[v] \in T
  BY TreesAssumption
<1> QED BY <1>1, <1>2

\* The parts of a value of Go are values, and less deep.
LEMMA GoParts ==
  \A x \in GoValues :
    /\ Kind(x) = "slice" => \A i \in DOMAIN Content(x) :
         Content(x)[i] \in GoValues /\ GoDepth(Content(x)[i]) < GoDepth(x)
    /\ Kind(x) = "map" => \A s \in Keys(x) :
         Content(x)[s] \in GoValues /\ GoDepth(Content(x)[s]) < GoDepth(x)
<1> SUFFICES ASSUME NEW x \in GoValues
             PROVE  /\ Kind(x) = "slice" => \A i \in DOMAIN Content(x) :
                         Content(x)[i] \in GoValues /\ GoDepth(Content(x)[i]) < GoDepth(x)
                    /\ Kind(x) = "map" => \A s \in Keys(x) :
                         Content(x)[s] \in GoValues /\ GoDepth(Content(x)[s]) < GoDepth(x)
  OBVIOUS
<1>1. PICK v \in LuaValues : UnpackLValue[v] = x /\ Depth[v] = GoDepth(x)
  BY GoDepths
<1>2. ASSUME NEW c \in LuaValues, Depth[c] < Depth[v]
      PROVE  UnpackLValue[c] \in GoValues /\ GoDepth(UnpackLValue[c]) < GoDepth(x)
  <2>1. UnpackLValue[c] \in GoValues
    BY DEF GoValues
  <2>2. GoDepth(UnpackLValue[c]) <= Depth[c] /\ GoDepth(UnpackLValue[c]) \in Nat
    BY <2>1, GoDepths
  <2> QED BY <1>1, <1>2, <2>1, <2>2, TreesAssumption
<1>3. CASE Kind(v) # "table"
  <2>1. x = v
    BY <1>1, <1>3, UnpackRecursion
  <2>2. IsTable(v) => Kind(v) = "table"
    BY DEF IsTable, Kind, Table
  <2>3. Kind(v) \in {"number", "string", "boolean"}
    BY <1>3, <2>2, TreesAssumption DEF IsAtom
  <2> QED BY <2>1, <2>3
<1>4. CASE Kind(v) = "table" /\ IsArray(v)
  <2> DEFINE f == [i \in 1..Cardinality(Keys(v)) |-> UnpackLValue[Named(v, i)]]
  <2>1. x = Slice(f)
    BY <1>1, <1>4, UnpackRecursion
  <2>2. Kind(x) = "slice" /\ Content(x) = f
    BY <2>1 DEF Slice, Kind, Content
  <2>3. \A i \in DOMAIN f : f[i] \in GoValues /\ GoDepth(f[i]) < GoDepth(x)
    BY <1>2, <1>4, ItemNamed
  <2> HIDE DEF f
  <2> QED BY <2>2, <2>3
<1>5. CASE Kind(v) = "table" /\ ~IsArray(v)
  <2> DEFINE f == [s \in {KeyString(k) : k \in Keys(v)} |-> UnpackLValue[Named(v, Content(s))]]
  <2>1. x = Map(f)
    BY <1>1, <1>5, UnpackRecursion
  <2>2. Kind(x) = "map" /\ Content(x) = f
    BY <2>1 DEF Map, Kind, Content
  <2>3. \A s \in DOMAIN f : f[s] \in GoValues /\ GoDepth(f[s]) < GoDepth(x)
    BY <1>2, <1>5, FieldNamed
  <2> HIDE DEF f
  <2> QED BY <2>2, <2>3 DEF Keys
<1> QED BY <1>3, <1>4, <1>5

\* What a value becomes in Lua is made of what its parts become.
LEMMA PackRecursion ==
  \A x \in GoValues : PackLValue[x] =
    CASE Kind(x) = "slice" ->
           Table([k \in {Num(i) : i \in DOMAIN Content(x)} |-> PackLValue[Content(x)[Content(k)]]])
      [] Kind(x) = "map" -> Table([k \in Keys(x) |-> PackLValue[Content(x)[k]]])
      [] OTHER -> x
<1> DEFINE D == GoValues
           d(v) == GoDepth(v)
           B(g, v) == CASE Kind(v) = "slice" ->
                             Table([k \in {Num(i) : i \in DOMAIN Content(v)} |-> g[Content(v)[Content(k)]]])
                        [] Kind(v) = "map" -> Table([k \in Keys(v) |-> g[Content(v)[k]]])
                        [] OTHER -> v
           On(n, g) == \A v \in D : d(v) < n => g[v] = B(g, v)
<1>1. \A v \in D : d(v) \in Nat
  BY GoDepths
<1>2. ASSUME NEW g, NEW h, NEW v \in D, \A c \in D : d(c) < d(v) => g[c] = h[c]
      PROVE  B(g, v) = B(h, v)
  <2>1. CASE Kind(v) = "slice"
    <3> DEFINE S == {Num(i) : i \in DOMAIN Content(v)}
    <3>1. \A k \in S : Content(k) \in DOMAIN Content(v)
      BY DEF Num, Content
    <3>2. \A k \in S : g[Content(v)[Content(k)]] = h[Content(v)[Content(k)]]
      <4> HIDE DEF S
      <4> QED BY <1>2, <2>1, <3>1, GoParts
    <3> HIDE DEF S
    <3> QED BY <2>1, <3>2 DEF S
  <2>2. CASE Kind(v) = "map"
    <3>1. \A k \in Keys(v) : g[Content(v)[k]] = h[Content(v)[k]]
      BY <1>2, <2>2, GoParts
    <3> QED BY <2>2, <3>1
  <2> QED BY <2>1, <2>2
<1> HIDE DEF D, d, B
<1>3. ASSUME NEW n \in Nat, NEW g, NEW h, On(n, g), On(n, h), NEW v \in D, d(v) < n
      PROVE  g[v] = h[v]
  <2> DEFINE T == {k \in Nat : \A c \in D : d(c) < k /\ k <= n => g[c] = h[c]}
  <2>1. 0 \in T
    BY <1>1
  <2>2. ASSUME NEW k \in Nat, k \in T PROVE k + 1 \in T
    <3>1. ASSUME NEW c \in D, d(c) < k + 1, k + 1 <= n PROVE g[c] = h[c]
      <4>1. \A x \in D : d(x) < d(c) => g[x] = h[x]
        BY <1>1, <2>2, <3>1
      <4>2. B(g, c) = B(h, c)
        BY <1>2, <4>1
      <4>3. d(c) < n
        BY <1>1, <3>1
      <4> QED BY <1>3, <4>2, <4>3
    <3> QED BY <3>1
  <2>3. n \in T
    <3> HIDE DEF T
    <3> QED BY <2>1, <2>2, Induction
  <2> QED BY <1>3, <2>3
<1>4. ASSUME NEW n \in Nat PROVE \E g : On(n, g)
  <2> DEFINE T == {k \in Nat : \E g : On(k, g)}
  <2>1. 0 \in T
    <3>1. \A g : On(0, g)
      BY <1>1
    <3> HIDE DEF On
    <3> QED BY <3>1
  <2>2. ASSUME NEW k \in Nat, k \in T PROVE k + 1 \in T
    <3>1. PICK g : On(k, g)
      BY <2>2
    <3> DEFINE h == [v \in D |-> IF d(v) < k THEN g[v] ELSE B(g, v)]
    <3>2. ASSUME NEW v \in D, d(v) < k + 1 PROVE h[v] = B(h, v)
      <4>1. h[v] = B(g, v)
        BY <3>1
      <4>2. \A c \in D : d(c) < d(v) => g[c] = h[c]
        BY <1>1, <3>2
      <4> HIDE DEF h
      <4> QED BY <1>2, <4>1, <4>2
    <3>3. On(k + 1, h)
      <4> HIDE DEF h
      <4> QED BY <3>2
    <3> HIDE DEF On, h
    <3> QED BY <3>3
  <2>3. n \in T
    <3> HIDE DEF T
    <3> QED BY <2>1, <2>2, Induction
  <2> QED BY <2>3
<1> DEFINE A(n) == CHOOSE g : On(n, g)
           G == [v \in D |-> A(d(v) + 1)[v]]
<1>5. ASSUME NEW n \in Nat PROVE On(n, A(n))
  <2> HIDE DEF On
  <2> QED BY <1>4
<1> HIDE DEF A
<1>6. ASSUME NEW v \in D PROVE G[v] = B(G, v)
  <2> DEFINE n == d(v) + 1
  <2>1. n \in Nat /\ d(v) \in Nat
    BY <1>1
  <2>2. On(n, A(n))
    <3> HIDE DEF On, n
    <3> QED BY <1>5, <2>1
  <2>3. A(n)[v] = B(A(n), v)
    BY <2>1, <2>2
  <2>4. ASSUME NEW c \in D, d(c) < d(v) PROVE A(n)[c] = G[c]
    <3> DEFINE m == d(c) + 1
    <3>1. m \in Nat /\ m < n /\ d(c) \in Nat
      BY <1>1, <2>1, <2>4
    <3>2. On(m, A(m))
      <4> HIDE DEF On, m
      <4> QED BY <1>5, <3>1
    <3>3. On(m, A(n))
      <4> HIDE DEF m
      <4>1. \A x \in D : d(x) < m => d(x) < n
        BY <1>1, <2>1, <3>1
      <4> HIDE DEF n
      <4> QED BY <2>2, <4>1
    <3>4. d(c) < m
      BY <3>1
    <3>5. A(n)[c] = A(m)[c]
      <4> HIDE DEF On, m, n
      <4> QED BY <1>3, <3>1, <3>2, <3>3, <3>4
    <3> QED BY <3>5
  <2>5. B(A(n), v) = B(G, v)
    <3> HIDE DEF G, n
    <3> QED BY <1>2, <2>4
  <2>6. G[v] = A(n)[v]
    OBVIOUS
  <2> QED BY <2>3, <2>5, <2>6
<1>7. G = [v \in D |-> B(G, v)]
  <2>1. G = [v \in D |-> G[v]]
    OBVIOUS
  <2> HIDE DEF G
  <2> QED BY <1>6, <2>1
<1> HIDE DEF G
<1>8. PackLValue = [v \in D |-> B(PackLValue, v)]
  <2>1. PackLValue = CHOOSE g : g = [v \in D |-> B(g, v)]
    BY DEF PackLValue, B, D
  <2> QED BY <1>7, <2>1
<1>9. ASSUME NEW v \in D PROVE PackLValue[v] = B(PackLValue, v)
  BY <1>8
<1> QED BY <1>9 DEF B, D

\* Whether a value is faithful depends on its parts.
LEMMA FaithfulRecursion ==
  \A v \in LuaValues : Faithful[v] =
    (Kind(v) = "table" => /\ IsArray(v) \/ \A k \in Keys(v) : Kind(k) = "string"
                          /\ \A k \in Keys(v) : Faithful[Content(v)[k]])
<1> DEFINE D == LuaValues
           d(v) == Depth[v]
           B(g, v) == Kind(v) = "table" => /\ IsArray(v) \/ \A k \in Keys(v) : Kind(k) = "string"
                                           /\ \A k \in Keys(v) : g[Content(v)[k]]
           On(n, g) == \A v \in D : d(v) < n => g[v] = B(g, v)
<1>1. \A v \in D : d(v) \in Nat
  BY TreesAssumption
<1>2. ASSUME NEW g, NEW h, NEW v \in D, \A c \in D : d(c) < d(v) => g[c] = h[c]
      PROVE  B(g, v) = B(h, v)
  <2>1. Kind(v) = "table" => \A k \in Keys(v) : g[Content(v)[k]] = h[Content(v)[k]]
    BY <1>2, TreesAssumption DEF IsTable, IsAtom
  <2> QED BY <2>1
<1> HIDE DEF D, d, B
<1>3. ASSUME NEW n \in Nat, NEW g, NEW h, On(n, g), On(n, h), NEW v \in D, d(v) < n
      PROVE  g[v] = h[v]
  <2> DEFINE T == {k \in Nat : \A c \in D : d(c) < k /\ k <= n => g[c] = h[c]}
  <2>1. 0 \in T
    BY <1>1
  <2>2. ASSUME NEW k \in Nat, k \in T PROVE k + 1 \in T
    <3>1. ASSUME NEW c \in D, d(c) < k + 1, k + 1 <= n PROVE g[c] = h[c]
      <4>1. \A x \in D : d(x) < d(c) => g[x] = h[x]
        BY <1>1, <2>2, <3>1
      <4>2. B(g, c) = B(h, c)
        BY <1>2, <4>1
      <4>3. d(c) < n
        BY <1>1, <3>1
      <4> QED BY <1>3, <4>2, <4>3
    <3> QED BY <3>1
  <2>3. n \in T
    <3> HIDE DEF T
    <3> QED BY <2>1, <2>2, Induction
  <2> QED BY <1>3, <2>3
<1>4. ASSUME NEW n \in Nat PROVE \E g : On(n, g)
  <2> DEFINE T == {k \in Nat : \E g : On(k, g)}
  <2>1. 0 \in T
    <3>1. \A g : On(0, g)
      BY <1>1
    <3> HIDE DEF On
    <3> QED BY <3>1
  <2>2. ASSUME NEW k \in Nat, k \in T PROVE k + 1 \in T
    <3>1. PICK g : On(k, g)
      BY <2>2
    <3> DEFINE h == [v \in D |-> IF d(v) < k THEN g[v] ELSE B(g, v)]
    <3>2. ASSUME NEW v \in D, d(v) < k + 1 PROVE h[v] = B(h, v)
      <4>1. h[v] = B(g, v)
        BY <3>1
      <4>2. \A c \in D : d(c) < d(v) => g[c] = h[c]
        BY <1>1, <3>2
      <4> HIDE DEF h
      <4> QED BY <1>2, <4>1, <4>2
    <3>3. On(k + 1, h)
      <4> HIDE DEF h
      <4> QED BY <3>2
    <3> HIDE DEF On, h
    <3> QED BY <3>3
  <2>3. n \in T
    <3> HIDE DEF T
    <3> QED BY <2>1, <2>2, Induction
  <2> QED BY <2>3
<1> DEFINE A(n) == CHOOSE g : On(n, g)
           G == [v \in D |-> A(d(v) + 1)[v]]
<1>5. ASSUME NEW n \in Nat PROVE On(n, A(n))
  <2> HIDE DEF On
  <2> QED BY <1>4
<1> HIDE DEF A
<1>6. ASSUME NEW v \in D PROVE G[v] = B(G, v)
  <2> DEFINE n == d(v) + 1
  <2>1. n \in Nat /\ d(v) \in Nat
    BY <1>1
  <2>2. On(n, A(n))
    <3> HIDE DEF On, n
    <3> QED BY <1>5, <2>1
  <2>3. A(n)[v] = B(A(n), v)
    BY <2>1, <2>2
  <2>4. ASSUME NEW c \in D, d(c) < d(v) PROVE A(n)[c] = G[c]
    <3> DEFINE m == d(c) + 1
    <3>1. m \in Nat /\ m < n /\ d(c) \in Nat
      BY <1>1, <2>1, <2>4
    <3>2. On(m, A(m))
      <4> HIDE DEF On, m
      <4> QED BY <1>5, <3>1
    <3>3. On(m, A(n))
      <4> HIDE DEF m
      <4>1. \A x \in D : d(x) < m => d(x) < n
        BY <1>1, <2>1, <3>1
      <4> HIDE DEF n
      <4> QED BY <2>2, <4>1
    <3>4. d(c) < m
      BY <3>1
    <3>5. A(n)[c] = A(m)[c]
      <4> HIDE DEF On, m, n
      <4> QED BY <1>3, <3>1, <3>2, <3>3, <3>4
    <3> QED BY <3>5
  <2>5. B(A(n), v) = B(G, v)
    <3> HIDE DEF G, n
    <3> QED BY <1>2, <2>4
  <2>6. G[v] = A(n)[v]
    OBVIOUS
  <2> QED BY <2>3, <2>5, <2>6
<1>7. G = [v \in D |-> B(G, v)]
  <2>1. G = [v \in D |-> G[v]]
    OBVIOUS
  <2> HIDE DEF G
  <2> QED BY <1>6, <2>1
<1> HIDE DEF G
<1>8. Faithful = [v \in D |-> B(Faithful, v)]
  <2>1. Faithful = CHOOSE g : g = [v \in D |-> B(g, v)]
    BY DEF Faithful, B, D
  <2> QED BY <1>7, <2>1
<1>9. ASSUME NEW v \in D PROVE Faithful[v] = B(Faithful, v)
  BY <1>8
<1> QED BY <1>9 DEF B, D

\* The children of an element are nodes, and less deep.
LEMMA ChildNodes ==
  \A x \in Nodes : ~IsText(x) =>
    /\ x = Elem(x[2], x[3], x[4]) /\ x[4] \in Seq(Nodes)
    /\ \A i \in DOMAIN x[4] : x[4][i] \in Nodes /\ Depth[x[4][i]] < Depth[x]
BY TreesAssumption DEF IsElement, IsText, Text

\* The tokens of a node have those of its children.
LEMMA EncodeRecursion ==
  \A x \in Nodes : EncodeXML[x] =
    IF IsText(x) THEN <<x>>
    ELSE <<Start(x[2], x[3])>>
         \o FlattenSeq([i \in DOMAIN x[4] |-> EncodeXML[x[4][i]]])
         \o <<End>>
<1> DEFINE D == Nodes
           d(v) == Depth[v]
           B(g, v) == IF IsText(v) THEN <<v>>
                      ELSE <<Start(v[2], v[3])>>
                           \o FlattenSeq([i \in DOMAIN v[4] |-> g[v[4][i]]])
                           \o <<End>>
           On(n, g) == \A v \in D : d(v) < n => g[v] = B(g, v)
<1>1. \A v \in D : d(v) \in Nat
  BY TreesAssumption
<1>2. ASSUME NEW g, NEW h, NEW v \in D, \A c \in D : d(c) < d(v) => g[c] = h[c]
      PROVE  B(g, v) = B(h, v)
  <2>1. ~IsText(v) => \A i \in DOMAIN v[4] : g[v[4][i]] = h[v[4][i]]
    BY <1>2, ChildNodes
  <2> DEFINE s == [i \in DOMAIN v[4] |-> g[v[4][i]]]
             t == [i \in DOMAIN v[4] |-> h[v[4][i]]]
  <2>2. ~IsText(v) => s = t
    BY <2>1
  <2> HIDE DEF s, t
  <2> QED BY <2>2 DEF s, t
<1> HIDE DEF D, d, B
<1>3. ASSUME NEW n \in Nat, NEW g, NEW h, On(n, g), On(n, h), NEW v \in D, d(v) < n
      PROVE  g[v] = h[v]
  <2> DEFINE T == {k \in Nat : \A c \in D : d(c) < k /\ k <= n => g[c] = h[c]}
  <2>1. 0 \in T
    BY <1>1
  <2>2. ASSUME NEW k \in Nat, k \in T PROVE k + 1 \in T
    <3>1. ASSUME NEW c \in D, d(c) < k + 1, k + 1 <= n PROVE g[c] = h[c]
      <4>1. \A x \in D : d(x) < d(c) => g[x] = h[x]
        BY <1>1, <2>2, <3>1
      <4>2. B(g, c) = B(h, c)
        BY <1>2, <4>1
      <4>3. d(c) < n
        BY <1>1, <3>1
      <4> QED BY <1>3, <4>2, <4>3
    <3> QED BY <3>1
  <2>3. n \in T
    <3> HIDE DEF T
    <3> QED BY <2>1, <2>2, Induction
  <2> QED BY <1>3, <2>3
<1>4. ASSUME NEW n \in Nat PROVE \E g : On(n, g)
  <2> DEFINE T == {k \in Nat : \E g : On(k, g)}
  <2>1. 0 \in T
    <3>1. \A g : On(0, g)
      BY <1>1
    <3> HIDE DEF On
    <3> QED BY <3>1
  <2>2. ASSUME NEW k \in Nat, k \in T PROVE k + 1 \in T
    <3>1. PICK g : On(k, g)
      BY <2>2
    <3> DEFINE h == [v \in D |-> IF d(v) < k THEN g[v] ELSE B(g, v)]
    <3>2. ASSUME NEW v \in D, d(v) < k + 1 PROVE h[v] = B(h, v)
      <4>1. h[v] = B(g, v)
        BY <3>1
      <4>2. \A c \in D : d(c) < d(v) => g[c] = h[c]
        BY <1>1, <3>2
      <4> HIDE DEF h
      <4> QED BY <1>2, <4>1, <4>2
    <3>3. On(k + 1, h)
      <4> HIDE DEF h
      <4> QED BY <3>2
    <3> HIDE DEF On, h
    <3> QED BY <3>3
  <2>3. n \in T
    <3> HIDE DEF T
    <3> QED BY <2>1, <2>2, Induction
  <2> QED BY <2>3
<1> DEFINE A(n) == CHOOSE g : On(n, g)
           G == [v \in D |-> A(d(v) + 1)[v]]
<1>5. ASSUME NEW n \in Nat PROVE On(n, A(n))
  <2> HIDE DEF On
  <2> QED BY <1>4
<1> HIDE DEF A
<1>6. ASSUME NEW v \in D PROVE G[v] = B(G, v)
  <2> DEFINE n == d(v) + 1
  <2>1. n \in Nat /\ d(v) \in Nat
    BY <1>1
  <2>2. On(n, A(n))
    <3> HIDE DEF On, n
    <3> QED BY <1>5, <2>1
  <2>3. A(n)[v] = B(A(n), v)
    BY <2>1, <2>2
  <2>4. ASSUME NEW c \in D, d(c) < d(v) PROVE A(n)[c] = G[c]
    <3> DEFINE m == d(c) + 1
    <3>1. m \in Nat /\ m < n /\ d(c) \in Nat
      BY <1>1, <2>1, <2>4
    <3>2. On(m, A(m))
      <4> HIDE DEF On, m
      <4> QED BY <1>5, <3>1
    <3>3. On(m, A(n))
      <4> HIDE DEF m
      <4>1. \A x \in D : d(x) < m => d(x) < n
        BY <1>1, <2>1, <3>1
      <4> HIDE DEF n
      <4> QED BY <2>2, <4>1
    <3>4. d(c) < m
      BY <3>1
    <3>5. A(n)[c] = A(m)[c]
      <4> HIDE DEF On, m, n
      <4> QED BY <1>3, <3>1, <3>2, <3>3, <3>4
    <3> QED BY <3>5
  <2>5. B(A(n), v) = B(G, v)
    <3> HIDE DEF G, n
    <3> QED BY <1>2, <2>4
  <2>6. G[v] = A(n)[v]
    OBVIOUS
  <2> QED BY <2>3, <2>5, <2>6
<1>7. G = [v \in D |-> B(G, v)]
  <2>1. G = [v \in D |-> G[v]]
    OBVIOUS
  <2> HIDE DEF G
  <2> QED BY <1>6, <2>1
<1> HIDE DEF G
<1>8. EncodeXML = [v \in D |-> B(EncodeXML, v)]
  <2>1. EncodeXML = CHOOSE g : g = [v \in D |-> B(g, v)]
    BY DEF EncodeXML, B, D
  <2> QED BY <1>7, <2>1
<1>9. ASSUME NEW v \in D PROVE EncodeXML[v] = B(EncodeXML, v)
  BY <1>8
<1> QED BY <1>9 DEF B, D

\* A node is tidy when its children are.
LEMMA TidyRecursion ==
  \A x \in Nodes : Tidy[x] =
    IF IsText(x) THEN Text(Trim(x[2]))
    ELSE Elem(x[2], x[3], Outside([i \in DOMAIN x[4] |-> Tidy[x[4][i]]], {Text(<<>>)}))
<1> DEFINE D == Nodes
           d(v) == Depth[v]
           B(g, v) == IF IsText(v) THEN Text(Trim(v[2]))
                      ELSE Elem(v[2], v[3], Outside([i \in DOMAIN v[4] |-> g[v[4][i]]], {Text(<<>>)}))
           On(n, g) == \A v \in D : d(v) < n => g[v] = B(g, v)
<1>1. \A v \in D : d(v) \in Nat
  BY TreesAssumption
<1>2. ASSUME NEW g, NEW h, NEW v \in D, \A c \in D : d(c) < d(v) => g[c] = h[c]
      PROVE  B(g, v) = B(h, v)
  <2>1. ~IsText(v) => \A i \in DOMAIN v[4] : g[v[4][i]] = h[v[4][i]]
    BY <1>2, ChildNodes
  <2> DEFINE s == [i \in DOMAIN v[4] |-> g[v[4][i]]]
             t == [i \in DOMAIN v[4] |-> h[v[4][i]]]
  <2>2. ~IsText(v) => s = t
    BY <2>1
  <2> HIDE DEF s, t
  <2> QED BY <2>2 DEF s, t
<1> HIDE DEF D, d, B
<1>3. ASSUME NEW n \in Nat, NEW g, NEW h, On(n, g), On(n, h), NEW v \in D, d(v) < n
      PROVE  g[v] = h[v]
  <2> DEFINE T == {k \in Nat : \A c \in D : d(c) < k /\ k <= n => g[c] = h[c]}
  <2>1. 0 \in T
    BY <1>1
  <2>2. ASSUME NEW k \in Nat, k \in T PROVE k + 1 \in T
    <3>1. ASSUME NEW c \in D, d(c) < k + 1, k + 1 <= n PROVE g[c] = h[c]
      <4>1. \A x \in D : d(x) < d(c) => g[x] = h[x]
        BY <1>1, <2>2, <3>1
      <4>2. B(g, c) = B(h, c)
        BY <1>2, <4>1
      <4>3. d(c) < n
        BY <1>1, <3>1
      <4> QED BY <1>3, <4>2, <4>3
    <3> QED BY <3>1
  <2>3. n \in T
    <3> HIDE DEF T
    <3> QED BY <2>1, <2>2, Induction
  <2> QED BY <1>3, <2>3
<1>4. ASSUME NEW n \in Nat PROVE \E g : On(n, g)
  <2> DEFINE T == {k \in Nat : \E g : On(k, g)}
  <2>1. 0 \in T
    <3>1. \A g : On(0, g)
      BY <1>1
    <3> HIDE DEF On
    <3> QED BY <3>1
  <2>2. ASSUME NEW k \in Nat, k \in T PROVE k + 1 \in T
    <3>1. PICK g : On(k, g)
      BY <2>2
    <3> DEFINE h == [v \in D |-> IF d(v) < k THEN g[v] ELSE B(g, v)]
    <3>2. ASSUME NEW v \in D, d(v) < k + 1 PROVE h[v] = B(h, v)
      <4>1. h[v] = B(g, v)
        BY <3>1
      <4>2. \A c \in D : d(c) < d(v) => g[c] = h[c]
        BY <1>1, <3>2
      <4> HIDE DEF h
      <4> QED BY <1>2, <4>1, <4>2
    <3>3. On(k + 1, h)
      <4> HIDE DEF h
      <4> QED BY <3>2
    <3> HIDE DEF On, h
    <3> QED BY <3>3
  <2>3. n \in T
    <3> HIDE DEF T
    <3> QED BY <2>1, <2>2, Induction
  <2> QED BY <2>3
<1> DEFINE A(n) == CHOOSE g : On(n, g)
           G == [v \in D |-> A(d(v) + 1)[v]]
<1>5. ASSUME NEW n \in Nat PROVE On(n, A(n))
  <2> HIDE DEF On
  <2> QED BY <1>4
<1> HIDE DEF A
<1>6. ASSUME NEW v \in D PROVE G[v] = B(G, v)
  <2> DEFINE n == d(v) + 1
  <2>1. n \in Nat /\ d(v) \in Nat
    BY <1>1
  <2>2. On(n, A(n))
    <3> HIDE DEF On, n
    <3> QED BY <1>5, <2>1
  <2>3. A(n)[v] = B(A(n), v)
    BY <2>1, <2>2
  <2>4. ASSUME NEW c \in D, d(c) < d(v) PROVE A(n)[c] = G[c]
    <3> DEFINE m == d(c) + 1
    <3>1. m \in Nat /\ m < n /\ d(c) \in Nat
      BY <1>1, <2>1, <2>4
    <3>2. On(m, A(m))
      <4> HIDE DEF On, m
      <4> QED BY <1>5, <3>1
    <3>3. On(m, A(n))
      <4> HIDE DEF m
      <4>1. \A x \in D : d(x) < m => d(x) < n
        BY <1>1, <2>1, <3>1
      <4> HIDE DEF n
      <4> QED BY <2>2, <4>1
    <3>4. d(c) < m
      BY <3>1
    <3>5. A(n)[c] = A(m)[c]
      <4> HIDE DEF On, m, n
      <4> QED BY <1>3, <3>1, <3>2, <3>3, <3>4
    <3> QED BY <3>5
  <2>5. B(A(n), v) = B(G, v)
    <3> HIDE DEF G, n
    <3> QED BY <1>2, <2>4
  <2>6. G[v] = A(n)[v]
    OBVIOUS
  <2> QED BY <2>3, <2>5, <2>6
<1>7. G = [v \in D |-> B(G, v)]
  <2>1. G = [v \in D |-> G[v]]
    OBVIOUS
  <2> HIDE DEF G
  <2> QED BY <1>6, <2>1
<1> HIDE DEF G
<1>8. Tidy = [v \in D |-> B(Tidy, v)]
  <2>1. Tidy = CHOOSE g : g = [v \in D |-> B(g, v)]
    BY DEF Tidy, B, D
  <2> QED BY <1>7, <2>1
<1>9. ASSUME NEW v \in D PROVE Tidy[v] = B(Tidy, v)
  BY <1>8
<1> QED BY <1>9 DEF B, D

\* The steps of decodeXML.
LEMMA TokensTaken ==
  ASSUME NEW E, NEW doc \in Seq(E), NEW base
  PROVE  \E r : /\ r[0] = base
                /\ \A k \in 1..Len(doc) : r[k] = TakeToken(r[k - 1], doc[k])
                /\ FoldLeft(TakeToken, base, doc) = r[Len(doc)]
<1> DEFINE D == SUBSET (1..Len(doc))
           d(v) == Cardinality(v)
           B(g, v) == IF v = {} THEN base ELSE TakeToken(g[v \ {Max(v)}], doc[Max(v)])
           On(n, g) == \A v \in D : d(v) < n => g[v] = B(g, v)
<1>1. \A v \in D : d(v) \in Nat
  <2>1. ASSUME NEW v \in D PROVE Cardinality(v) \in Nat
    <3>1. IsFiniteSet(1..Len(doc)) /\ v \subseteq 1..Len(doc)
      BY FS_Interval
    <3> QED BY <3>1, FS_Subset, FS_CardinalityType
  <2> QED BY <2>1
<1>2. ASSUME NEW g, NEW h, NEW v \in D, \A c \in D : d(c) < d(v) => g[c] = h[c]
      PROVE  B(g, v) = B(h, v)
  <2>1. ASSUME v # {} PROVE v \ {Max(v)} \in D /\ d(v \ {Max(v)}) < d(v)
    <3>1. IsFiniteSet(v)
      <4>1. IsFiniteSet(1..Len(doc)) /\ v \subseteq 1..Len(doc)
        BY FS_Interval
      <4> QED BY <4>1, FS_Subset
    <3>2. Max(v) \in v
      <4>1. Len(doc) \in Nat /\ v \in SUBSET (1..Len(doc))
        OBVIOUS
      <4> QED BY <2>1, <4>1, GreatestNumber
    <3>3. Cardinality(v \ {Max(v)}) = Cardinality(v) - 1 /\ Cardinality(v) \in Nat
      BY <3>1, <3>2, FS_RemoveElement, FS_CardinalityType
    <3>4. v \ {Max(v)} \in D
      OBVIOUS
    <3>5. Cardinality(v \ {Max(v)}) < Cardinality(v)
      BY <3>3
    <3> QED BY <3>4, <3>5
  <2> QED BY <1>2, <2>1
<1> HIDE DEF D, d, B
<1>3. ASSUME NEW n \in Nat, NEW g, NEW h, On(n, g), On(n, h), NEW v \in D, d(v) < n
      PROVE  g[v] = h[v]
  <2> DEFINE T == {k \in Nat : \A c \in D : d(c) < k /\ k <= n => g[c] = h[c]}
  <2>1. 0 \in T
    BY <1>1
  <2>2. ASSUME NEW k \in Nat, k \in T PROVE k + 1 \in T
    <3>1. ASSUME NEW c \in D, d(c) < k + 1, k + 1 <= n PROVE g[c] = h[c]
      <4>1. \A x \in D : d(x) < d(c) => g[x] = h[x]
        BY <1>1, <2>2, <3>1
      <4>2. B(g, c) = B(h, c)
        BY <1>2, <4>1
      <4>3. d(c) < n
        BY <1>1, <3>1
      <4> QED BY <1>3, <4>2, <4>3
    <3> QED BY <3>1
  <2>3. n \in T
    <3> HIDE DEF T
    <3> QED BY <2>1, <2>2, Induction
  <2> QED BY <1>3, <2>3
<1>4. ASSUME NEW n \in Nat PROVE \E g : On(n, g)
  <2> DEFINE T == {k \in Nat : \E g : On(k, g)}
  <2>1. 0 \in T
    <3>1. \A g : On(0, g)
      BY <1>1
    <3> HIDE DEF On
    <3> QED BY <3>1
  <2>2. ASSUME NEW k \in Nat, k \in T PROVE k + 1 \in T
    <3>1. PICK g : On(k, g)
      BY <2>2
    <3> DEFINE h == [v \in D |-> IF d(v) < k THEN g[v] ELSE B(g, v)]
    <3>2. ASSUME NEW v \in D, d(v) < k + 1 PROVE h[v] = B(h, v)
      <4>1. h[v] = B(g, v)
        BY <3>1
      <4>2. \A c \in D : d(c) < d(v) => g[c] = h[c]
        BY <1>1, <3>2
      <4> HIDE DEF h
      <4> QED BY <1>2, <4>1, <4>2
    <3>3. On(k + 1, h)
      <4> HIDE DEF h
      <4> QED BY <3>2
    <3> HIDE DEF On, h
    <3> QED BY <3>3
  <2>3. n \in T
    <3> HIDE DEF T
    <3> QED BY <2>1, <2>2, Induction
  <2> QED BY <2>3
<1> DEFINE A(n) == CHOOSE g : On(n, g)
           G == [v \in D |-> A(d(v) + 1)[v]]
<1>5. ASSUME NEW n \in Nat PROVE On(n, A(n))
  <2> HIDE DEF On
  <2> QED BY <1>4
<1> HIDE DEF A
<1>6. ASSUME NEW v \in D PROVE G[v] = B(G, v)
  <2> DEFINE n == d(v) + 1
  <2>1. n \in Nat /\ d(v) \in Nat
    BY <1>1
  <2>2. On(n, A(n))
    <3> HIDE DEF On, n
    <3> QED BY <1>5, <2>1
  <2>3. A(n)[v] = B(A(n), v)
    BY <2>1, <2>2
  <2>4. ASSUME NEW c \in D, d(c) < d(v) PROVE A(n)[c] = G[c]
    <3> DEFINE m == d(c) + 1
    <3>1. m \in Nat /\ m < n /\ d(c) \in Nat
      BY <1>1, <2>1, <2>4
    <3>2. On(m, A(m))
      <4> HIDE DEF On, m
      <4> QED BY <1>5, <3>1
    <3>3. On(m, A(n))
      <4> HIDE DEF m
      <4>1. \A x \in D : d(x) < m => d(x) < n
        BY <1>1, <2>1, <3>1
      <4> HIDE DEF n
      <4> QED BY <2>2, <4>1
    <3>4. d(c) < m
      BY <3>1
    <3>5. A(n)[c] = A(m)[c]
      <4> HIDE DEF On, m, n
      <4> QED BY <1>3, <3>1, <3>2, <3>3, <3>4
    <3> QED BY <3>5
  <2>5. B(A(n), v) = B(G, v)
    <3> HIDE DEF G, n
    <3> QED BY <1>2, <2>4
  <2>6. G[v] = A(n)[v]
    OBVIOUS
  <2> QED BY <2>3, <2>5, <2>6
<1>7. G = [v \in D |-> B(G, v)]
  <2>1. G = [v \in D |-> G[v]]
    OBVIOUS
  <2> HIDE DEF G
  <2> QED BY <1>6, <2>1
<1> HIDE DEF G
<1> DEFINE N == Len(doc)
           f == CHOOSE g : g = [v \in D |-> B(g, v)]
           r == [k \in 0..N |-> f[1..k]]
<1>8. FoldLeft(TakeToken, base, doc) = f[1..N]
  <2>1. 1..N = DOMAIN doc
    OBVIOUS
  <2> QED BY <2>1 DEF FoldLeft, MapThenFoldSet, B, D
<1>9. f = [v \in D |-> B(f, v)]
  BY <1>7
<1> HIDE DEF f
<1>10. N \in Nat /\ \A k \in 0..N : 1..k \in D
  BY DEF D
<1>11. r[0] = base /\ r[N] = f[1..N]
  <2>1. 1..0 = {} /\ 0 \in 0..N /\ N \in 0..N
    BY <1>10
  <2> QED BY <1>9, <1>10, <2>1 DEF B
<1>12. ASSUME NEW k \in 1..N PROVE r[k] = TakeToken(r[k - 1], doc[k])
  <2>1. Max(1..k) = k /\ (1..k) \ {k} = 1..k - 1 /\ 1..k # {}
    <3>1. k \in Nat \ {0}
      BY <1>10
    <3> QED BY <3>1, LastNumber
  <2>2. 1..k \in D /\ r[k] = f[1..k] /\ r[k - 1] = f[1..k - 1]
    BY <1>10
  <2>3. f[1..k] = B(f, 1..k)
    BY <1>9, <2>2
  <2> HIDE DEF r
  <2> QED BY <2>1, <2>2, <2>3 DEF B
<1> HIDE DEF r
<1> QED BY <1>8, <1>11, <1>12

\* A table is the same if its contents are.
LEMMA SameContents ==
  ASSUME NEW v, IsTable(v)
  PROVE  Table([k \in Keys(v) |-> PackLValue[UnpackLValue[Content(v)[k]]]]) = v
           <=> \A k \in Keys(v) : PackLValue[UnpackLValue[Content(v)[k]]] = Content(v)[k]
<1> DEFINE f == [k \in Keys(v) |-> PackLValue[UnpackLValue[Content(v)[k]]]]
           c == Content(v)
<1>1. v = Table(c) /\ c = [k \in Keys(v) |-> c[k]]
  BY DEF IsTable
<1>2. \A k \in Keys(v) : f[k] = PackLValue[UnpackLValue[c[k]]]
  OBVIOUS
<1>3. f = [k \in Keys(v) |-> f[k]]
  OBVIOUS
<1> HIDE DEF f
<1>4. Table(f) = Table(c) <=> f = c
  BY DEF Table
<1>5. f = c <=> \A k \in Keys(v) : f[k] = c[k]
  BY <1>1, <1>3
<1>6. Table(f) = v <=> \A k \in Keys(v) : f[k] = c[k]
  BY <1>1, <1>4, <1>5
<1> QED BY <1>2, <1>6 DEF f

\* A list becomes a slice, and again a table with the same keys.
LEMMA ListPacked ==
  ASSUME NEW v \in LuaValues, Kind(v) = "table", IsArray(v)
  PROVE  PackLValue[UnpackLValue[v]] =
           Table([k \in Keys(v) |-> PackLValue[UnpackLValue[Content(v)[k]]]])
<1> DEFINE n == Cardinality(Keys(v))
           f == [i \in 1..n |-> UnpackLValue[Named(v, i)]]
           x == Slice(f)
<1>1. UnpackLValue[v] = x /\ x \in GoValues
  BY UnpackRecursion DEF GoValues
<1>2. Kind(x) = "slice" /\ Content(x) = f
  BY DEF Slice, Kind, Content
<1>3. Keys(v) = {Num(i) : i \in DOMAIN f}
  BY DEF IsArray
<1>4. ASSUME NEW k \in Keys(v) PROVE f[Content(k)] = UnpackLValue[Content(v)[k]]
  <2>1. PICK i \in 1..n : k = Num(i)
    BY <1>3
  <2>2. Content(k) = i
    BY <2>1 DEF Num, Content
  <2> QED BY <2>1, <2>2, ItemNamed
<1> HIDE DEF n, x, f
<1>5. PackLValue[x] = Table([k \in Keys(v) |-> PackLValue[f[Content(k)]]])
  BY <1>1, <1>2, <1>3, PackRecursion
<1> DEFINE a == [k \in Keys(v) |-> PackLValue[f[Content(k)]]]
           b == [k \in Keys(v) |-> PackLValue[UnpackLValue[Content(v)[k]]]]
<1>6. a = b
  BY <1>4
<1> HIDE DEF a, b
<1> QED BY <1>1, <1>5, <1>6 DEF a, b

\* Any other table becomes a map, and again a table whose keys are strings.
LEMMA MapPacked ==
  ASSUME NEW v \in LuaValues, Kind(v) = "table", ~IsArray(v)
  PROVE  PackLValue[UnpackLValue[v]] =
           Table([s \in {KeyString(k) : k \in Keys(v)} |-> PackLValue[UnpackLValue[Named(v, Content(s))]]])
<1> DEFINE S == {KeyString(k) : k \in Keys(v)}
           f == [s \in S |-> UnpackLValue[Named(v, Content(s))]]
           x == Map(f)
<1>1. UnpackLValue[v] = x /\ x \in GoValues
  BY UnpackRecursion DEF GoValues
<1>2. Kind(x) = "map" /\ Content(x) = f /\ Keys(x) = S
  BY DEF Map, Kind, Content, Keys
<1>3. \A s \in S : f[s] = UnpackLValue[Named(v, Content(s))]
  OBVIOUS
<1> HIDE DEF x, f
<1>4. PackLValue[x] = Table([s \in S |-> PackLValue[f[s]]])
  BY <1>1, <1>2, PackRecursion
<1> DEFINE a == [s \in S |-> PackLValue[f[s]]]
           b == [s \in S |-> PackLValue[UnpackLValue[Named(v, Content(s))]]]
<1>5. a = b
  <2> HIDE DEF S
  <2> QED BY <1>3
<1> HIDE DEF a, b
<1> QED BY <1>1, <1>4, <1>5 DEF a, b

\* A value is the same in Lua after it was in Go exactly if it is faithful.
LEMMA PackUnpack ==
  \A v \in LuaValues : PackLValue[UnpackLValue[v]] = v <=> Faithful[v]
<1> DEFINE Same(v) == PackLValue[UnpackLValue[v]] = v
           T == {n \in Nat : \A v \in LuaValues : Depth[v] < n => (Same(v) <=> Faithful[v])}
<1> HIDE DEF Same
<1>1. 0 \in T
  BY TreesAssumption
<1>2. ASSUME NEW n \in Nat, n \in T PROVE n + 1 \in T
  <2> SUFFICES ASSUME NEW v \in LuaValues, Depth[v] < n + 1 PROVE Same(v) <=> Faithful[v]
    OBVIOUS
  <2>1. ASSUME Kind(v) = "table", NEW k \in Keys(v)
        PROVE  Same(Content(v)[k]) <=> Faithful[Content(v)[k]]
    <3>1. IsTable(v)
      BY <2>1, TreesAssumption DEF IsAtom
    <3>2. Content(v)[k] \in LuaValues /\ Depth[Content(v)[k]] < Depth[v]
      BY <3>1 DEF IsTable
    <3>3. Depth[Content(v)[k]] < n
      BY <3>2, TreesAssumption
    <3> QED BY <1>2, <3>2, <3>3
  <2>2. CASE Kind(v) # "table"
    <3>1. UnpackLValue[v] = v /\ v \in GoValues
      BY <2>2, UnpackRecursion DEF GoValues
    <3>2. IsTable(v) => Kind(v) = "table"
      BY DEF IsTable, Kind, Table
    <3>3. Kind(v) \in {"number", "string", "boolean"}
      BY <2>2, <3>2, TreesAssumption DEF IsAtom
    <3>4. PackLValue[v] = v
      BY <3>1, <3>3, PackRecursion
    <3>5. Faithful[v]
      BY <2>2, FaithfulRecursion
    <3> QED BY <3>1, <3>4, <3>5 DEF Same
  <2>3. CASE Kind(v) = "table" /\ IsArray(v)
    <3>1. IsTable(v)
      BY <2>3, TreesAssumption DEF IsAtom
    <3>2. Same(v) <=> \A k \in Keys(v) : Same(Content(v)[k])
      BY <2>3, <3>1, ListPacked, SameContents DEF Same
    <3>3. Faithful[v] <=> \A k \in Keys(v) : Faithful[Content(v)[k]]
      BY <2>3, FaithfulRecursion
    <3> QED BY <2>1, <2>3, <3>2, <3>3
  <2>4. CASE Kind(v) = "table" /\ ~IsArray(v)
    <3> DEFINE S == {KeyString(k) : k \in Keys(v)}
               f == [s \in S |-> PackLValue[UnpackLValue[Named(v, Content(s))]]]
    <3>1. IsTable(v)
      BY <2>4, TreesAssumption DEF IsAtom
    <3>2. PackLValue[UnpackLValue[v]] = Table(f)
      BY <2>4, MapPacked
    <3>3. CASE \A k \in Keys(v) : Kind(k) = "string"
      <4>1. \A k \in Keys(v) : KeyString(k) = k
        BY <3>1, <3>3 DEF IsTable, IsAtom, KeyString, Str
      <4>2. S = Keys(v)
        BY <4>1
      <4>3. \A k, j \in Keys(v) : Content(k) = Content(j) => k = j
        BY <4>1 DEF KeyString
      <4>4. \A k \in Keys(v) : Named(v, Content(k)) = Content(v)[k]
        BY <4>3 DEF Named
      <4> DEFINE a == [k \in Keys(v) |-> PackLValue[UnpackLValue[Content(v)[k]]]]
      <4>5. f = a
        BY <4>2, <4>4
      <4> HIDE DEF f, a
      <4>6. Same(v) <=> Table(a) = v
        BY <3>2, <4>5 DEF Same
      <4>7. Same(v) <=> \A k \in Keys(v) : Same(Content(v)[k])
        BY <3>1, <4>6, SameContents DEF Same, a
      <4>8. Faithful[v] <=> \A k \in Keys(v) : Faithful[Content(v)[k]]
        BY <2>4, <3>3, FaithfulRecursion
      <4> QED BY <2>1, <2>4, <4>7, <4>8
    <3>4. CASE ~ \A k \in Keys(v) : Kind(k) = "string"
      <4>1. ~Faithful[v]
        BY <2>4, <3>4, FaithfulRecursion
      <4>2. \A s \in S : Kind(s) = "string"
        BY DEF KeyString, Str, Kind
      <4>3. DOMAIN f # Keys(v)
        <5>1. DOMAIN f = S
          OBVIOUS
        <5> HIDE DEF S
        <5> QED BY <3>4, <4>2, <5>1
      <4> HIDE DEF f
      <4>4. Table(f) # v
        BY <4>3 DEF Table, Content, Keys
      <4> QED BY <3>2, <4>1, <4>4 DEF Same
    <3> QED BY <3>3, <3>4
  <2> QED BY <2>2, <2>3, <2>4
<1>3. Nat \subseteq T
  <2> HIDE DEF T
  <2> QED BY <1>1, <1>2, Induction
<1>4. ASSUME NEW v \in LuaValues PROVE Same(v) <=> Faithful[v]
  <2>1. Depth[v] \in Nat /\ Depth[v] < Depth[v] + 1 /\ Depth[v] + 1 \in Nat
    BY TreesAssumption
  <2> QED BY <1>3, <2>1
<1> QED BY <1>4 DEF Same

\* Values are the same after a conversion to Go and back exactly if they are
\* faithful, and assert.eq tells such values apart.
THEOREM ValuesPackedBack == Spec => []ValuesRoundTrip
<1>1. Invariant => ValuesRoundTrip
  <2> SUFFICES ASSUME Invariant, Converted("value") PROVE ValuesRoundTrip
    BY DEF ValuesRoundTrip
  <2>1. input \in Inputs["value"] /\ output[1] = Result /\ kind = "value"
    BY ConvertedResult
  <2>2. input[1] \in LuaValues /\ input[2] \in LuaValues
    BY <2>1, InputsAssumption DEF InputsTyped
  <2>3. output[1] <=> UnpackLValue[input[1]] = UnpackLValue[input[2]]
    BY <2>1 DEF Result, AssertEq
  <2>4. \A i \in 1..2 : PackLValue[UnpackLValue[input[i]]] = input[i] <=> Faithful[input[i]]
    BY <2>2, PackUnpack
  <2>5. Faithful[input[1]] /\ Faithful[input[2]] => (output[1] <=> input[1] = input[2])
    BY <2>2, <2>3, PackUnpack
  <2> QED BY <2>4, <2>5 DEF ValuesRoundTrip
<1> QED BY <1>1, Invariance, PTL

\* The tokens of a document.
Tokens == {Text(s) : s \in Seq(Nat)} \cup {Start(x[2], x[3]) : x \in Nodes} \cup {End}
\* The tokens that a document leaves out.
Blanks == {Text(<<>>)}

\* A node is written as tokens.
LEMMA EncodeTyped ==
  \A x \in Nodes : EncodeXML[x] \in Seq(Tokens)
<1> DEFINE T == {n \in Nat : \A x \in Nodes : Depth[x] < n => EncodeXML[x] \in Seq(Tokens)}
<1>1. 0 \in T
  BY TreesAssumption
<1>2. ASSUME NEW n \in Nat, n \in T PROVE n + 1 \in T
  <2> SUFFICES ASSUME NEW x \in Nodes, Depth[x] < n + 1 PROVE EncodeXML[x] \in Seq(Tokens)
    OBVIOUS
  <2>1. CASE IsText(x)
    <3>1. x = Text(x[2]) /\ x[2] \in Seq(Nat)
      BY <2>1, TreesAssumption DEF IsElement, IsText, Elem
    <3>2. x \in Tokens
      BY <3>1 DEF Tokens
    <3>3. EncodeXML[x] = <<x>>
      BY <2>1, EncodeRecursion
    <3>4. <<x>> \in Seq(Tokens)
      BY <3>2
    <3> QED BY <3>3, <3>4
  <2>2. CASE ~IsText(x)
    <3> DEFINE ts == [i \in DOMAIN x[4] |-> EncodeXML[x[4][i]]]
    <3>1. \A i \in DOMAIN x[4] : EncodeXML[x[4][i]] \in Seq(Tokens)
      BY <1>2, <2>2, ChildNodes, TreesAssumption
    <3>2. ts \in Seq(Seq(Tokens))
      <4>1. x[4] \in Seq(Nodes)
        BY <2>2, ChildNodes
      <4> QED BY <3>1, <4>1
    <3> HIDE DEF ts
    <3>3. FlattenSeq(ts) \in Seq(Tokens)
      BY <3>2, Flattened
    <3>4. Start(x[2], x[3]) \in Tokens /\ End \in Tokens
      BY DEF Tokens
    <3> DEFINE a == <<Start(x[2], x[3])>>
               b == FlattenSeq(ts)
               c == <<End>>
    <3>5. a \in Seq(Tokens) /\ b \in Seq(Tokens) /\ c \in Seq(Tokens)
      BY <3>3, <3>4
    <3>6. EncodeXML[x] = a \o b \o c
      BY <2>2, EncodeRecursion DEF ts
    <3> HIDE DEF a, b, c
    <3>7. a \o b \in Seq(Tokens)
      BY <3>5, ConcatProperties
    <3>8. (a \o b) \o c \in Seq(Tokens)
      BY <3>5, <3>7, ConcatProperties
    <3> QED BY <3>6, <3>8
  <2> QED BY <2>1, <2>2
<1>3. Nat \subseteq T
  <2> HIDE DEF T
  <2> QED BY <1>1, <1>2, Induction
<1>4. ASSUME NEW x \in Nodes PROVE EncodeXML[x] \in Seq(Tokens)
  <2>1. Depth[x] \in Nat /\ Depth[x] < Depth[x] + 1 /\ Depth[x] + 1 \in Nat
    BY TreesAssumption
  <2> QED BY <1>3, <2>1
<1> QED BY <1>4

\* The steps of Document.
LEMMA TokensAdded ==
  ASSUME NEW E, NEW doc \in Seq(E), NEW base
  PROVE  \E r : /\ r[0] = base
                /\ \A k \in 1..Len(doc) : r[k] = AddToken(r[k - 1], doc[k])
                /\ FoldLeft(AddToken, base, doc) = r[Len(doc)]
<1> DEFINE D == SUBSET (1..Len(doc))
           d(v) == Cardinality(v)
           B(g, v) == IF v = {} THEN base ELSE AddToken(g[v \ {Max(v)}], doc[Max(v)])
           On(n, g) == \A v \in D : d(v) < n => g[v] = B(g, v)
<1>1. \A v \in D : d(v) \in Nat
  <2>1. ASSUME NEW v \in D PROVE Cardinality(v) \in Nat
    <3>1. IsFiniteSet(1..Len(doc)) /\ v \subseteq 1..Len(doc)
      BY FS_Interval
    <3> QED BY <3>1, FS_Subset, FS_CardinalityType
  <2> QED BY <2>1
<1>2. ASSUME NEW g, NEW h, NEW v \in D, \A c \in D : d(c) < d(v) => g[c] = h[c]
      PROVE  B(g, v) = B(h, v)
  <2>1. ASSUME v # {} PROVE v \ {Max(v)} \in D /\ d(v \ {Max(v)}) < d(v)
    <3>1. IsFiniteSet(v)
      <4>1. IsFiniteSet(1..Len(doc)) /\ v \subseteq 1..Len(doc)
        BY FS_Interval
      <4> QED BY <4>1, FS_Subset
    <3>2. Max(v) \in v
      <4>1. Len(doc) \in Nat /\ v \in SUBSET (1..Len(doc))
        OBVIOUS
      <4> QED BY <2>1, <4>1, GreatestNumber
    <3>3. Cardinality(v \ {Max(v)}) = Cardinality(v) - 1 /\ Cardinality(v) \in Nat
      BY <3>1, <3>2, FS_RemoveElement, FS_CardinalityType
    <3>4. v \ {Max(v)} \in D
      OBVIOUS
    <3>5. Cardinality(v \ {Max(v)}) < Cardinality(v)
      BY <3>3
    <3> QED BY <3>4, <3>5
  <2> QED BY <1>2, <2>1
<1> HIDE DEF D, d, B
<1>3. ASSUME NEW n \in Nat, NEW g, NEW h, On(n, g), On(n, h), NEW v \in D, d(v) < n
      PROVE  g[v] = h[v]
  <2> DEFINE T == {k \in Nat : \A c \in D : d(c) < k /\ k <= n => g[c] = h[c]}
  <2>1. 0 \in T
    BY <1>1
  <2>2. ASSUME NEW k \in Nat, k \in T PROVE k + 1 \in T
    <3>1. ASSUME NEW c \in D, d(c) < k + 1, k + 1 <= n PROVE g[c] = h[c]
      <4>1. \A x \in D : d(x) < d(c) => g[x] = h[x]
        BY <1>1, <2>2, <3>1
      <4>2. B(g, c) = B(h, c)
        BY <1>2, <4>1
      <4>3. d(c) < n
        BY <1>1, <3>1
      <4> QED BY <1>3, <4>2, <4>3
    <3> QED BY <3>1
  <2>3. n \in T
    <3> HIDE DEF T
    <3> QED BY <2>1, <2>2, Induction
  <2> QED BY <1>3, <2>3
<1>4. ASSUME NEW n \in Nat PROVE \E g : On(n, g)
  <2> DEFINE T == {k \in Nat : \E g : On(k, g)}
  <2>1. 0 \in T
    <3>1. \A g : On(0, g)
      BY <1>1
    <3> HIDE DEF On
    <3> QED BY <3>1
  <2>2. ASSUME NEW k \in Nat, k \in T PROVE k + 1 \in T
    <3>1. PICK g : On(k, g)
      BY <2>2
    <3> DEFINE h == [v \in D |-> IF d(v) < k THEN g[v] ELSE B(g, v)]
    <3>2. ASSUME NEW v \in D, d(v) < k + 1 PROVE h[v] = B(h, v)
      <4>1. h[v] = B(g, v)
        BY <3>1
      <4>2. \A c \in D : d(c) < d(v) => g[c] = h[c]
        BY <1>1, <3>2
      <4> HIDE DEF h
      <4> QED BY <1>2, <4>1, <4>2
    <3>3. On(k + 1, h)
      <4> HIDE DEF h
      <4> QED BY <3>2
    <3> HIDE DEF On, h
    <3> QED BY <3>3
  <2>3. n \in T
    <3> HIDE DEF T
    <3> QED BY <2>1, <2>2, Induction
  <2> QED BY <2>3
<1> DEFINE A(n) == CHOOSE g : On(n, g)
           G == [v \in D |-> A(d(v) + 1)[v]]
<1>5. ASSUME NEW n \in Nat PROVE On(n, A(n))
  <2> HIDE DEF On
  <2> QED BY <1>4
<1> HIDE DEF A
<1>6. ASSUME NEW v \in D PROVE G[v] = B(G, v)
  <2> DEFINE n == d(v) + 1
  <2>1. n \in Nat /\ d(v) \in Nat
    BY <1>1
  <2>2. On(n, A(n))
    <3> HIDE DEF On, n
    <3> QED BY <1>5, <2>1
  <2>3. A(n)[v] = B(A(n), v)
    BY <2>1, <2>2
  <2>4. ASSUME NEW c \in D, d(c) < d(v) PROVE A(n)[c] = G[c]
    <3> DEFINE m == d(c) + 1
    <3>1. m \in Nat /\ m < n /\ d(c) \in Nat
      BY <1>1, <2>1, <2>4
    <3>2. On(m, A(m))
      <4> HIDE DEF On, m
      <4> QED BY <1>5, <3>1
    <3>3. On(m, A(n))
      <4> HIDE DEF m
      <4>1. \A x \in D : d(x) < m => d(x) < n
        BY <1>1, <2>1, <3>1
      <4> HIDE DEF n
      <4> QED BY <2>2, <4>1
    <3>4. d(c) < m
      BY <3>1
    <3>5. A(n)[c] = A(m)[c]
      <4> HIDE DEF On, m, n
      <4> QED BY <1>3, <3>1, <3>2, <3>3, <3>4
    <3> QED BY <3>5
  <2>5. B(A(n), v) = B(G, v)
    <3> HIDE DEF G, n
    <3> QED BY <1>2, <2>4
  <2>6. G[v] = A(n)[v]
    OBVIOUS
  <2> QED BY <2>3, <2>5, <2>6
<1>7. G = [v \in D |-> B(G, v)]
  <2>1. G = [v \in D |-> G[v]]
    OBVIOUS
  <2> HIDE DEF G
  <2> QED BY <1>6, <2>1
<1> HIDE DEF G
<1> DEFINE N == Len(doc)
           f == CHOOSE g : g = [v \in D |-> B(g, v)]
           r == [k \in 0..N |-> f[1..k]]
<1>8. FoldLeft(AddToken, base, doc) = f[1..N]
  <2>1. 1..N = DOMAIN doc
    OBVIOUS
  <2> QED BY <2>1 DEF FoldLeft, MapThenFoldSet, B, D
<1>9. f = [v \in D |-> B(f, v)]
  BY <1>7
<1> HIDE DEF f
<1>10. N \in Nat /\ \A k \in 0..N : 1..k \in D
  BY DEF D
<1>11. r[0] = base /\ r[N] = f[1..N]
  <2>1. 1..0 = {} /\ 0 \in 0..N /\ N \in 0..N
    BY <1>10
  <2> QED BY <1>9, <1>10, <2>1 DEF B
<1>12. ASSUME NEW k \in 1..N PROVE r[k] = AddToken(r[k - 1], doc[k])
  <2>1. Max(1..k) = k /\ (1..k) \ {k} = 1..k - 1 /\ 1..k # {}
    <3>1. k \in Nat \ {0}
      BY <1>10
    <3> QED BY <3>1, LastNumber
  <2>2. 1..k \in D /\ r[k] = f[1..k] /\ r[k - 1] = f[1..k - 1]
    BY <1>10
  <2>3. f[1..k] = B(f, 1..k)
    BY <1>9, <2>2
  <2> HIDE DEF r
  <2> QED BY <2>1, <2>2, <2>3 DEF B
<1> HIDE DEF r
<1> QED BY <1>8, <1>11, <1>12

\* One more token is written.
LEMMA DocumentAppend ==
  ASSUME NEW doc \in Seq(Tokens), NEW t \in Tokens
  PROVE  Document(<<>>) = <<>> /\ Document(Append(doc, t)) = AddToken(Document(doc), t)
<1> DEFINE n == Len(doc)
           e == Append(doc, t)
<1>1. /\ e \in Seq(Tokens) /\ Len(e) = n + 1 /\ e[n + 1] = t /\ n \in Nat
      /\ \A k \in 1..n : e[k] = doc[k]
  BY AppendProperties
<1> HIDE DEF e
<1>2. PICK r : /\ r[0] = <<>>
               /\ \A k \in 1..Len(doc) : r[k] = AddToken(r[k - 1], doc[k])
               /\ FoldLeft(AddToken, <<>>, doc) = r[Len(doc)]
  BY TokensAdded
<1>3. PICK q : /\ q[0] = <<>>
               /\ \A k \in 1..Len(e) : q[k] = AddToken(q[k - 1], e[k])
               /\ FoldLeft(AddToken, <<>>, e) = q[Len(e)]
  BY <1>1, TokensAdded
<1>4. Len(doc) = n /\ Len(e) = n + 1
  BY <1>1
<1> HIDE DEF n
<1>5. r[n] = q[n]
  <2>1. \A k \in 1..n : k \in 1..n + 1
    BY <1>1
  <2>2. \A k \in 1..n : r[k - 1] = q[k - 1] => r[k] = q[k]
    BY <1>1, <1>2, <1>3, <1>4, <2>1
  <2>3. r[0] = q[0] /\ n \in Nat
    BY <1>1, <1>2, <1>3
  <2> QED BY <2>2, <2>3, SameSteps
<1>6. q[n + 1] = AddToken(q[n], t)
  <2>1. PICK k \in 1..n + 1 : k = n + 1 /\ k - 1 = n
    BY <1>1
  <2>2. q[k] = AddToken(q[k - 1], e[k])
    BY <1>3, <1>4
  <2> QED BY <1>1, <2>1, <2>2
<1>7. Document(<<>>) = <<>>
  <2>1. \A s \in Seq(Tokens) : s = <<>> => Document(s) = <<>>
    <3> SUFFICES ASSUME NEW s \in Seq(Tokens) PROVE s = <<>> => Document(s) = <<>>
      OBVIOUS
    <3>1. PICK p : /\ p[0] = <<>>
                   /\ \A k \in 1..Len(s) : p[k] = AddToken(p[k - 1], s[k])
                   /\ FoldLeft(AddToken, <<>>, s) = p[Len(s)]
      BY TokensAdded
    <3>2. s = <<>> => Len(s) = 0
      OBVIOUS
    <3> QED BY <3>1, <3>2 DEF Document
  <2>2. <<>> \in Seq(Tokens)
    OBVIOUS
  <2> QED BY <2>1, <2>2
<1> QED BY <1>2, <1>3, <1>4, <1>5, <1>6, <1>7 DEF e, Document

\* What is open before anything is read.
Root == <<Elem(0, 0, <<>>)>>
\* The elements that are open once a document is read.
Taken(doc) == FoldLeft(TakeToken, Root, doc)

\* One more token is read.
LEMMA TakenAppend ==
  ASSUME NEW doc \in Seq(Tokens), NEW t \in Tokens
  PROVE  Taken(<<>>) = Root /\ Taken(Append(doc, t)) = TakeToken(Taken(doc), t)
<1> DEFINE n == Len(doc)
           e == Append(doc, t)
<1>1. /\ e \in Seq(Tokens) /\ Len(e) = n + 1 /\ e[n + 1] = t /\ n \in Nat
      /\ \A k \in 1..n : e[k] = doc[k]
  BY AppendProperties
<1> HIDE DEF e
<1>2. PICK r : /\ r[0] = Root
               /\ \A k \in 1..Len(doc) : r[k] = TakeToken(r[k - 1], doc[k])
               /\ FoldLeft(TakeToken, Root, doc) = r[Len(doc)]
  BY TokensTaken
<1>3. PICK q : /\ q[0] = Root
               /\ \A k \in 1..Len(e) : q[k] = TakeToken(q[k - 1], e[k])
               /\ FoldLeft(TakeToken, Root, e) = q[Len(e)]
  BY <1>1, TokensTaken
<1>4. Len(doc) = n /\ Len(e) = n + 1
  BY <1>1
<1> HIDE DEF n
<1>5. r[n] = q[n]
  <2>1. \A k \in 1..n : k \in 1..n + 1
    BY <1>1
  <2>2. \A k \in 1..n : r[k - 1] = q[k - 1] => r[k] = q[k]
    BY <1>1, <1>2, <1>3, <1>4, <2>1
  <2>3. r[0] = q[0] /\ n \in Nat
    BY <1>1, <1>2, <1>3
  <2> QED BY <2>2, <2>3, SameSteps
<1>6. q[n + 1] = TakeToken(q[n], t)
  <2>1. PICK k \in 1..n + 1 : k = n + 1 /\ k - 1 = n
    BY <1>1
  <2>2. q[k] = TakeToken(q[k - 1], e[k])
    BY <1>3, <1>4
  <2> QED BY <1>1, <2>1, <2>2
<1>7. Taken(<<>>) = Root
  <2>1. \A s \in Seq(Tokens) : s = <<>> => Taken(s) = Root
    <3> SUFFICES ASSUME NEW s \in Seq(Tokens) PROVE s = <<>> => Taken(s) = Root
      OBVIOUS
    <3>1. PICK p : /\ p[0] = Root
                   /\ \A k \in 1..Len(s) : p[k] = TakeToken(p[k - 1], s[k])
                   /\ FoldLeft(TakeToken, Root, s) = p[Len(s)]
      BY TokensTaken
    <3>2. s = <<>> => Len(s) = 0
      OBVIOUS
    <3> QED BY <3>1, <3>2 DEF Taken
  <2>2. <<>> \in Seq(Tokens)
    OBVIOUS
  <2> QED BY <2>1, <2>2
<1> QED BY <1>2, <1>3, <1>4, <1>5, <1>6, <1>7 DEF e, Taken

\* Where no texts meet a document has the tokens that are not blank.
LEMMA DocumentIsClean ==
  \A s \in Seq(Tokens) : ~TextsMeet(s) => Document(s) = Outside(s, Blanks)
<1> DEFINE G == {s \in Seq(Tokens) : ~TextsMeet(s) => Document(s) = Outside(s, Blanks)}
<1>1. <<>> \in G
  <2>1. Document(<<>>) = <<>>
    <3>1. End \in Tokens /\ <<>> \in Seq(Tokens)
      BY DEF Tokens
    <3> QED BY <3>1, DocumentAppend
  <2> QED BY <2>1, OutsideEmpty
<1>2. ASSUME NEW s \in Seq(Tokens), NEW t \in Tokens, s \in G PROVE Append(s, t) \in G
  <2> DEFINE n == Len(s)
             e == Append(s, t)
             doc == Outside(s, Blanks)
  <2>1. /\ e \in Seq(Tokens) /\ Len(e) = n + 1 /\ e[n + 1] = t /\ n \in Nat
        /\ \A k \in 1..n : e[k] = s[k]
    BY AppendProperties
  <2> HIDE DEF e
  <2> SUFFICES ASSUME ~TextsMeet(e) PROVE Document(e) = Outside(e, Blanks)
    BY <2>1 DEF e
  <2>2. ~TextsMeet(s)
    <3>1. ASSUME NEW i \in 1..Len(s) - 1, IsText(s[i]), IsText(s[i + 1]) PROVE FALSE
      <4>1. i \in 1..Len(e) - 1 /\ e[i] = s[i] /\ e[i + 1] = s[i + 1]
        BY <2>1
      <4> QED BY <3>1, <4>1 DEF TextsMeet
    <3> QED BY <3>1 DEF TextsMeet
  <2>3. Document(s) = doc
    BY <1>2, <2>2
  <2>4. Document(e) = AddToken(doc, t)
    BY <2>3, DocumentAppend DEF e
  <2>5. Outside(e, Blanks) = IF t \in Blanks THEN doc ELSE Append(doc, t)
    BY OutsideAppend DEF e
  <2>6. CASE t = Text(<<>>)
    BY <2>4, <2>5, <2>6 DEF AddToken, Blanks
  <2>7. CASE t # Text(<<>>)
    <3>1. ~ (doc # <<>> /\ IsText(t) /\ IsText(Last(doc)))
      <4> SUFFICES ASSUME doc # <<>>, IsText(t) PROVE ~IsText(Last(doc))
        OBVIOUS
      <4>1. s # <<>>
        BY OutsideEmpty
      <4>2. PICK f \in Seq(Tokens), l \in Tokens : s = Append(f, l)
        BY <4>1, FrontAndLast
      <4>3. n \in 1..Len(e) - 1 /\ s[n] = l /\ e[n] = l
        <5>1. Len(s) = Len(f) + 1 /\ s[Len(f) + 1] = l /\ Len(f) \in Nat
          BY <4>2
        <5>2. n \in 1..n
          BY <5>1
        <5> QED BY <2>1, <5>1, <5>2
      <4>4. ~IsText(l)
        BY <2>1, <4>3 DEF TextsMeet
      <4>5. l \notin Blanks
        BY <4>4 DEF Blanks, IsText, Text
      <4>6. doc = Append(Outside(f, Blanks), l) /\ Outside(f, Blanks) \in Seq(Tokens)
        BY <4>2, <4>5, OutsideAppend, OutsideTyped
      <4>7. Last(doc) = l
        BY <4>6, LastOfAppend
      <4> QED BY <4>4, <4>7
    <3> HIDE DEF doc
    <3> QED BY <2>4, <2>5, <2>7, <3>1 DEF AddToken, Blanks
  <2> QED BY <2>6, <2>7
<1>3. Seq(Tokens) \subseteq G
  <2> HIDE DEF G
  <2> QED BY <1>1, <1>2, SequenceInduction
<1> QED BY <1>3

\* The nodes as they are read back.
Tidies == {Tidy[x] : x \in Nodes}
\* The names and the attributes that an open element has.
OpenNames == {x[2] : x \in Nodes} \cup {0}
OpenAttrs == {x[3] : x \in Nodes} \cup {0}
\* The elements that are open, whose children are tidy.
Opens == {Elem(m[1], m[2], m[3]) : m \in OpenNames \X OpenAttrs \X Seq(Tidies)}

\* One more child, unless it is blank.
Added(cs, y) == IF y = Text(<<>>) THEN cs ELSE Append(cs, y)

\* The element that is open last has one more child.
LEMMA ChildAdded ==
  ASSUME NEW S, NEW f \in Seq(S), NEW n, NEW a, NEW cs, Elem(n, a, cs) \in S, NEW y
  PROVE  AddChild(Append(f, Elem(n, a, cs)), y) = Append(f, Elem(n, a, Append(cs, y)))
<1> DEFINE l == Elem(n, a, cs)
           m == Elem(n, a, Append(cs, y))
           s == Append(f, l)
           N == Len(f) + 1
<1>1. s \in Seq(S) /\ Len(s) = N /\ s[N] = l /\ N \in Nat /\ \A i \in 1..Len(f) : s[i] = f[i]
  BY AppendProperties
<1>2. Elem(l[2], l[3], Append(l[4], y)) = m
  BY DEF Elem
<1>3. AddChild(s, y) = [s EXCEPT ![N] = Elem(s[N][2], s[N][3], Append(s[N][4], y))]
  BY <1>1 DEF AddChild
<1>4. AddChild(s, y) = [s EXCEPT ![N] = m]
  BY <1>1, <1>2, <1>3
<1> HIDE DEF l, m, s
<1>5. [s EXCEPT ![N] = m] = Append(f, m)
  <2> DEFINE S2 == S \cup {m}
             u == [s EXCEPT ![N] = m]
             v == Append(f, m)
  <2>1. f \in Seq(S2) /\ m \in S2 /\ s \in Seq(S2)
    BY <1>1
  <2> HIDE DEF S2
  <2>2. v \in Seq(S2) /\ Len(v) = N /\ v[N] = m /\ \A i \in 1..Len(f) : v[i] = f[i]
    BY <2>1, AppendProperties
  <2>3. u \in Seq(S2) /\ Len(u) = N /\ u[N] = m /\ \A i \in 1..Len(f) : u[i] = f[i]
    BY <1>1, <2>1
  <2> HIDE DEF u, v
  <2>4. \A i \in 1..N : u[i] = v[i]
    BY <2>2, <2>3
  <2>5. u = v
    BY <2>2, <2>3, <2>4, SeqEqual
  <2> QED BY <2>5 DEF u, v
<1> QED BY <1>4, <1>5 DEF s, l, m

\* What is read of a node when an element is open: it becomes a child.
Reads(x) ==
  \A doc \in Seq(Tokens), f \in Seq(Opens), n \in OpenNames, a \in OpenAttrs, cs \in Seq(Tidies) :
    Taken(doc) = Append(f, Elem(n, a, cs)) =>
      Taken(doc \o Outside(EncodeXML[x], Blanks)) = Append(f, Elem(n, a, Added(cs, Tidy[x])))

\* A text is read without the blanks around it, unless it is blank.
LEMMA TextRead ==
  ASSUME NEW x \in Nodes, IsText(x)
  PROVE  Reads(x)
<1> SUFFICES ASSUME NEW doc \in Seq(Tokens), NEW f \in Seq(Opens), NEW n \in OpenNames,
                    NEW a \in OpenAttrs, NEW cs \in Seq(Tidies),
                    Taken(doc) = Append(f, Elem(n, a, cs))
             PROVE  Taken(doc \o Outside(EncodeXML[x], Blanks)) = Append(f, Elem(n, a, Added(cs, Tidy[x])))
  BY DEF Reads
<1>1. x = Text(x[2]) /\ x[2] \in Seq(Nat)
  BY TreesAssumption DEF IsElement, IsText, Elem
<1>2. x \in Tokens
  BY <1>1 DEF Tokens
<1>3. EncodeXML[x] = <<x>> /\ Tidy[x] = Text(Trim(x[2]))
  BY EncodeRecursion, TidyRecursion
<1>4. Outside(<<x>>, Blanks) = IF x \in Blanks THEN <<>> ELSE <<x>>
  <2>1. ASSUME NEW s \in Seq(Tokens)
        PROVE  Outside(Append(s, x), Blanks) =
                 IF x \in Blanks THEN Outside(s, Blanks) ELSE Append(Outside(s, Blanks), x)
    BY <1>2, OutsideAppend
  <2>2. \A s \in Seq(Tokens) : s = <<>> => Outside(s, Blanks) = s
    BY OutsideTyped
  <2>3. \A s \in Seq(Tokens) : s = <<>> => Outside(Append(s, x), Blanks) =
                                  IF x \in Blanks THEN s ELSE Append(s, x)
    BY <2>1, <2>2
  <2>4. PICK s \in Seq(Tokens) : s = <<>>
    <3>1. <<>> \in Seq(Tokens)
      OBVIOUS
    <3> QED BY <3>1, Zenon
  <2>5. Append(s, x) = <<x>>
    BY <2>4
  <2>6. Outside(Append(s, x), Blanks) = IF x \in Blanks THEN s ELSE Append(s, x)
    BY <2>3, <2>4
  <2> QED BY <2>4, <2>5, <2>6
<1>5. CASE x \in Blanks
  <2>1. x[2] = <<>>
    BY <1>5 DEF Blanks, Text
  <2>2. Trim(<<>>) = <<>>
    BY DEF Trim
  <2>3. doc \o <<>> = doc
    OBVIOUS
  <2> QED BY <1>3, <1>4, <1>5, <2>1, <2>2, <2>3 DEF Added
<1>6. CASE x \notin Blanks
  <2>1. doc \o <<x>> = Append(doc, x)
    BY <1>2, AppendIsConcat
  <2>2. Taken(Append(doc, x)) = TakeToken(Append(f, Elem(n, a, cs)), x)
    BY <1>2, TakenAppend
  <2>3. x[1] = "text"
    BY DEF IsText
  <2>4. TakeToken(Append(f, Elem(n, a, cs)), x) = TakeText(Append(f, Elem(n, a, cs)), x[2])
    BY <2>3 DEF TakeToken
  <2>5. Text(Trim(x[2])) = Text(<<>>) <=> Trim(x[2]) = <<>>
    BY DEF Text
  <2>6. Elem(n, a, cs) \in Opens
    <3>1. <<n, a, cs>> \in OpenNames \X OpenAttrs \X Seq(Tidies)
      OBVIOUS
    <3> QED BY <3>1 DEF Opens
  <2>7. AddChild(Append(f, Elem(n, a, cs)), Tidy[x]) = Append(f, Elem(n, a, Append(cs, Tidy[x])))
    BY <2>6, ChildAdded
  <2> QED BY <1>3, <1>4, <1>6, <2>1, <2>2, <2>4, <2>5, <2>7 DEF TakeText, Added
<1> QED BY <1>5, <1>6

\* Documents are put together in any order.
LEMMA TokensAssociative ==
  \A p, q, r \in Seq(Tokens) : p \o (q \o r) = (p \o q) \o r
BY ConcatAssociative

\* A child that is not blank comes after the others.
LEMMA ChildAppended ==
  ASSUME NEW z \in Seq(Tidies), NEW t \in Tidies
  PROVE  Outside(Append(z, t), Blanks) = Added(Outside(z, Blanks), t)
<1>1. Outside(Append(z, t), Blanks) =
        IF t \in Blanks THEN Outside(z, Blanks) ELSE Append(Outside(z, Blanks), t)
  BY OutsideAppend
<1>2. t \in Blanks <=> t = Text(<<>>)
  BY DEF Blanks
<1> QED BY <1>1, <1>2 DEF Added

\* All of the nodes are read.
AllRead(K) == K \subseteq Nodes /\ \A y \in K : Reads(y)

\* What is read of nodes in an element that has just been opened: they are its
\* children.
ReadsAll(us) ==
  \A doc \in Seq(Tokens), f \in Seq(Opens), n \in OpenNames, a \in OpenAttrs :
    Taken(doc) = Append(f, Elem(n, a, <<>>)) =>
      Taken(doc \o Outside(FlattenSeq(Mapped(EncodeXML, us)), Blanks)) =
        Append(f, Elem(n, a, Outside(Mapped(Tidy, us), Blanks)))

\* The children of an element that is open are read one after the other.
LEMMA ChildrenRead ==
  \A K : AllRead(K) => \A us \in Seq(K) : ReadsAll(us)
<1> SUFFICES ASSUME NEW K, AllRead(K), NEW us \in Seq(K),
                    NEW doc \in Seq(Tokens), NEW f \in Seq(Opens), NEW n \in OpenNames,
                    NEW a \in OpenAttrs, Taken(doc) = Append(f, Elem(n, a, <<>>))
             PROVE  Taken(doc \o Outside(FlattenSeq(Mapped(EncodeXML, us)), Blanks)) =
                      Append(f, Elem(n, a, Outside(Mapped(Tidy, us), Blanks)))
  BY DEF ReadsAll
<1> DEFINE E(u) == Outside(FlattenSeq(Mapped(EncodeXML, u)), Blanks)
           C(u) == Outside(Mapped(Tidy, u), Blanks)
           G == {u \in Seq(K) : Taken(doc \o E(u)) = Append(f, Elem(n, a, C(u)))}
<1>1. Converts(EncodeXML, K, Seq(Tokens)) /\ Converts(Tidy, K, Tidies)
  BY EncodeTyped DEF Converts, Tidies, AllRead
<1>2. \A u \in Seq(K) : /\ Mapped(EncodeXML, u) \in Seq(Seq(Tokens))
                        /\ Mapped(Tidy, u) \in Seq(Tidies)
  <2> SUFFICES ASSUME NEW u \in Seq(K)
               PROVE  Mapped(EncodeXML, u) \in Seq(Seq(Tokens)) /\ Mapped(Tidy, u) \in Seq(Tidies)
    OBVIOUS
  <2>1. \A i \in 1..Len(u) : EncodeXML[u[i]] \in Seq(Tokens) /\ Tidy[u[i]] \in Tidies
    BY <1>1 DEF Converts
  <2>2. DOMAIN u = 1..Len(u) /\ Len(u) \in Nat
    OBVIOUS
  <2> QED BY <2>1, <2>2 DEF Mapped
<1>3. \A u \in Seq(K) : E(u) \in Seq(Tokens) /\ C(u) \in Seq(Tidies)
  <2> SUFFICES ASSUME NEW u \in Seq(K) PROVE E(u) \in Seq(Tokens) /\ C(u) \in Seq(Tidies)
    OBVIOUS
  <2> DEFINE x == Mapped(EncodeXML, u)
             y == Mapped(Tidy, u)
  <2>1. x \in Seq(Seq(Tokens)) /\ y \in Seq(Tidies)
    BY <1>2
  <2> HIDE DEF x, y
  <2>2. FlattenSeq(x) \in Seq(Tokens)
    BY <2>1, Flattened
  <2>3. Outside(FlattenSeq(x), Blanks) \in Seq(Tokens) /\ Outside(y, Blanks) \in Seq(Tidies)
    BY <2>1, <2>2, OutsideTyped
  <2> QED BY <2>3 DEF x, y
<1>4. ASSUME NEW u \in Seq(K), NEW y \in K
      PROVE  /\ E(Append(u, y)) = E(u) \o Outside(EncodeXML[y], Blanks)
             /\ C(Append(u, y)) = Added(C(u), Tidy[y])
  <2>1. /\ Mapped(EncodeXML, Append(u, y)) = Append(Mapped(EncodeXML, u), EncodeXML[y])
        /\ Mapped(Tidy, Append(u, y)) = Append(Mapped(Tidy, u), Tidy[y])
    BY <1>1, MappedAppend
  <2> DEFINE x == Mapped(EncodeXML, u)
             z == Mapped(Tidy, u)
             w == FlattenSeq(x)
  <2>2. x \in Seq(Seq(Tokens)) /\ z \in Seq(Tidies) /\ EncodeXML[y] \in Seq(Tokens) /\ Tidy[y] \in Tidies
    BY <1>1, <1>2 DEF Converts
  <2> HIDE DEF x, z, w
  <2>3. FlattenSeq(Append(x, EncodeXML[y])) = w \o EncodeXML[y] /\ w \in Seq(Tokens)
    BY <2>2, Flattened DEF w
  <2>4. Outside(w \o EncodeXML[y], Blanks) = Outside(w, Blanks) \o Outside(EncodeXML[y], Blanks)
    BY <2>2, <2>3, OutsideConcat
  <2>5. Outside(Append(z, Tidy[y]), Blanks) = Added(Outside(z, Blanks), Tidy[y])
    BY <2>2, ChildAppended
  <2> QED BY <2>1, <2>3, <2>4, <2>5 DEF x, z, w
<1>5. <<>> \in G
  <2>1. Mapped(EncodeXML, <<>>) = <<>> /\ Mapped(Tidy, <<>>) = <<>>
    BY DEF Mapped
  <2>2. FlattenSeq(<<>>) = <<>> /\ Outside(<<>>, Blanks) = <<>> /\ doc \o <<>> = doc
    BY Flattened, OutsideEmpty
  <2>3. E(<<>>) = <<>> /\ C(<<>>) = <<>>
    BY <2>1, <2>2
  <2>4. <<>> \in Seq(K)
    OBVIOUS
  <2> HIDE DEF E, C
  <2> QED BY <2>2, <2>3, <2>4
<1>6. ASSUME NEW u \in Seq(K), NEW y \in K, u \in G PROVE Append(u, y) \in G
  <2>1. Append(u, y) \in Seq(K)
    OBVIOUS
  <2> DEFINE p == E(u)
             q == Outside(EncodeXML[y], Blanks)
             cs == C(u)
  <2>2. p \in Seq(Tokens) /\ q \in Seq(Tokens) /\ cs \in Seq(Tidies)
    <3>1. EncodeXML[y] \in Seq(Tokens)
      BY <1>1 DEF Converts
    <3> HIDE DEF E, C
    <3> QED BY <1>3, <3>1, OutsideTyped
  <2>3. Taken(doc \o p) = Append(f, Elem(n, a, cs))
    BY <1>6
  <2>4. E(Append(u, y)) = p \o q /\ C(Append(u, y)) = Added(cs, Tidy[y])
    <3> HIDE DEF E, C
    <3> QED BY <1>4
  <2> HIDE DEF E, C, p, cs
  <2>5. doc \o p \in Seq(Tokens)
    BY <2>2, ConcatProperties
  <2>6. Taken((doc \o p) \o q) = Append(f, Elem(n, a, Added(cs, Tidy[y])))
    BY <2>2, <2>3, <2>5 DEF Reads, AllRead
  <2> HIDE DEF q
  <2>7. doc \o (p \o q) = (doc \o p) \o q
    BY <2>2, TokensAssociative
  <2> QED BY <2>1, <2>4, <2>6, <2>7
<1>7. Seq(K) \subseteq G
  <2> HIDE DEF G
  <2> QED BY <1>5, <1>6, SequenceInduction
<1> QED BY <1>7

\* An element is read when its children are.
LEMMA ElementRead ==
  ASSUME NEW x \in Nodes, ~IsText(x), \A y \in Nodes : Depth[y] < Depth[x] => Reads(y)
  PROVE  Reads(x)
<1> SUFFICES ASSUME NEW doc \in Seq(Tokens), NEW f \in Seq(Opens), NEW n \in OpenNames,
                    NEW a \in OpenAttrs, NEW cs \in Seq(Tidies),
                    Taken(doc) = Append(f, Elem(n, a, cs))
             PROVE  Taken(doc \o Outside(EncodeXML[x], Blanks)) = Append(f, Elem(n, a, Added(cs, Tidy[x])))
  BY DEF Reads
<1> DEFINE K == {y \in Nodes : Depth[y] < Depth[x]}
           us == x[4]
           s == Start(x[2], x[3])
           e == Elem(n, a, cs)
           g == Append(f, e)
           b == FlattenSeq(Mapped(EncodeXML, us))
           p == Outside(b, Blanks)
           ys == Outside(Mapped(Tidy, us), Blanks)
<1>1. us \in Seq(K) /\ us \in Seq(Nodes) /\ K \subseteq Nodes /\ \A y \in K : Reads(y)
  <2>1. us \in Seq(Nodes) /\ \A i \in DOMAIN us : us[i] \in K
    BY ChildNodes
  <2>2. K \subseteq Nodes /\ \A y \in K : Reads(y)
    OBVIOUS
  <2> HIDE DEF us, K
  <2>3. us \in Seq(K)
    BY <2>1
  <2> QED BY <2>1, <2>2, <2>3
<1>2. s \in Tokens /\ End \in Tokens /\ s \notin Blanks /\ End \notin Blanks
  BY DEF Tokens, Blanks, Start, End, Text
<1>3. EncodeXML[x] = (<<s>> \o b) \o <<End>> /\ Tidy[x] = Elem(x[2], x[3], ys)
  BY EncodeRecursion, TidyRecursion DEF Mapped, Blanks
<1>4. x[2] \in OpenNames /\ x[3] \in OpenAttrs
  BY DEF OpenNames, OpenAttrs
<1>5. e \in Opens /\ g \in Seq(Opens)
  <2>1. <<n, a, cs>> \in OpenNames \X OpenAttrs \X Seq(Tidies)
    OBVIOUS
  <2>2. e \in Opens
    BY <2>1 DEF Opens
  <2> HIDE DEF e
  <2> QED BY <2>2
<1>6. b \in Seq(Tokens) /\ p \in Seq(Tokens) /\ ys \in Seq(Tidies)
  <2> DEFINE u == Mapped(EncodeXML, us)
             v == Mapped(Tidy, us)
  <2>1. u \in Seq(Seq(Tokens)) /\ v \in Seq(Tidies)
    <3>1. \A i \in 1..Len(us) : EncodeXML[us[i]] \in Seq(Tokens) /\ Tidy[us[i]] \in Tidies
      BY <1>1, EncodeTyped DEF Tidies
    <3>2. DOMAIN us = 1..Len(us) /\ Len(us) \in Nat
      BY <1>1
    <3> HIDE DEF us
    <3> QED BY <3>1, <3>2 DEF Mapped
  <2> HIDE DEF u, v
  <2>2. FlattenSeq(u) \in Seq(Tokens)
    BY <2>1, Flattened
  <2>3. Outside(FlattenSeq(u), Blanks) \in Seq(Tokens) /\ Outside(v, Blanks) \in Seq(Tidies)
    BY <2>1, <2>2, OutsideTyped
  <2> QED BY <2>2, <2>3 DEF u, v
<1> HIDE DEF K, us, s, b
<1>7. Outside((<<s>> \o b) \o <<End>>, Blanks) = (<<s>> \o p) \o <<End>>
  <2>1. <<s>> \in Seq(Tokens) /\ <<End>> \in Seq(Tokens)
    BY <1>2
  <2>2. \A t \in Tokens : t \notin Blanks => Outside(<<t>>, Blanks) = <<t>>
    <3> SUFFICES ASSUME NEW t \in Tokens, t \notin Blanks PROVE Outside(<<t>>, Blanks) = <<t>>
      OBVIOUS
    <3>1. <<t>> \in Seq(Tokens) /\ \A i \in 1..Len(<<t>>) : <<t>>[i] \notin Blanks
      OBVIOUS
    <3> QED BY <3>1, OutsideAllOrNone
  <2>3. <<s>> \o b \in Seq(Tokens)
    BY <1>6, <2>1, ConcatProperties
  <2>4. Outside((<<s>> \o b) \o <<End>>, Blanks) = Outside(<<s>> \o b, Blanks) \o Outside(<<End>>, Blanks)
    BY ONLY <2>1, <2>3, OutsideConcat
  <2>5. Outside(<<s>> \o b, Blanks) = Outside(<<s>>, Blanks) \o Outside(b, Blanks)
    BY ONLY <2>1, <1>6, OutsideConcat
  <2> QED BY <1>2, <2>2, <2>4, <2>5
<1> HIDE DEF p, ys, e, g
<1> DEFINE d1 == Append(doc, s)
           d2 == d1 \o p
           d3 == Append(d2, End)
<1>8. Taken(d1) = Append(g, Elem(x[2], x[3], <<>>)) /\ d1 \in Seq(Tokens)
  <2>1. Taken(d1) = TakeToken(g, s) /\ d1 \in Seq(Tokens)
    BY <1>2, TakenAppend, AppendProperties DEF e, g
  <2>2. TakeToken(g, s) = Append(g, Elem(x[2], x[3], <<>>))
    BY DEF TakeToken, Start, s
  <2> QED BY <2>1, <2>2
<1> HIDE DEF d1
<1>9. Taken(d2) = Append(g, Elem(x[2], x[3], ys))
  <2> DEFINE h == x[2]
             k == x[3]
  <2>1. h \in OpenNames /\ k \in OpenAttrs /\ Taken(d1) = Append(g, Elem(h, k, <<>>))
    BY <1>4, <1>8
  <2> HIDE DEF h, k
  <2>2. ReadsAll(us)
    <3>1. AllRead(K) /\ us \in Seq(K)
      BY <1>1 DEF AllRead
    <3> QED BY ONLY <3>1, ChildrenRead
  <2>3. Taken(d1 \o Outside(FlattenSeq(Mapped(EncodeXML, us)), Blanks)) =
          Append(g, Elem(h, k, Outside(Mapped(Tidy, us), Blanks)))
    <3>1. /\ d1 \in Seq(Tokens) /\ g \in Seq(Opens)
          /\ h \in OpenNames /\ k \in OpenAttrs /\ Taken(d1) = Append(g, Elem(h, k, <<>>))
      BY <1>5, <1>8, <2>1
    <3> QED BY ONLY <2>2, <3>1 DEF ReadsAll
  <2> QED BY <2>3 DEF d2, ys, p, b, h, k
<1>10. d2 \in Seq(Tokens)
  BY <1>6, <1>8, ConcatProperties
<1> HIDE DEF d2
<1>11. Taken(d3) = Append(f, Elem(n, a, Append(cs, Tidy[x])))
  <2>1. Taken(d3) = TakeToken(Append(g, Tidy[x]), End)
    BY <1>2, <1>3, <1>9, <1>10, TakenAppend
  <2>2. TakeToken(Append(g, Tidy[x]), End) = AddChild(Front(Append(g, Tidy[x])), Last(Append(g, Tidy[x])))
    BY DEF TakeToken, End
  <2>3. Front(Append(g, Tidy[x])) = g /\ Last(Append(g, Tidy[x])) = Tidy[x]
    <3> DEFINE S == Opens \cup {Tidy[x]}
    <3>1. g \in Seq(S) /\ Tidy[x] \in S
      BY <1>5
    <3> HIDE DEF S
    <3> QED BY <3>1, LastOfAppend
  <2>4. AddChild(g, Tidy[x]) = Append(f, Elem(n, a, Append(cs, Tidy[x])))
    BY <1>5, ChildAdded DEF g, e
  <2> QED BY <2>1, <2>2, <2>3, <2>4
<1>12. d3 = doc \o ((<<s>> \o p) \o <<End>>)
  <2> DEFINE u == <<s>>
             v == <<End>>
  <2>1. doc \in Seq(Tokens) /\ u \in Seq(Tokens) /\ v \in Seq(Tokens) /\ p \in Seq(Tokens)
    BY <1>2, <1>6
  <2>2. d1 = doc \o u
    BY <1>2, AppendIsConcat DEF d1
  <2>3. d3 = d2 \o v
    BY <1>2, <1>10, AppendIsConcat
  <2>4. d2 = (doc \o u) \o p
    BY <2>2 DEF d2
  <2> HIDE DEF u, v
  <2>5. u \o p \in Seq(Tokens)
    BY <2>1, ConcatProperties
  <2>6. (doc \o u) \o p = doc \o (u \o p)
    <3>1. doc \in Seq(Tokens) /\ u \in Seq(Tokens) /\ p \in Seq(Tokens)
      BY <2>1
    <3> QED BY ONLY <3>1, ConcatAssociative
  <2>7. (doc \o (u \o p)) \o v = doc \o ((u \o p) \o v)
    <3> DEFINE w == u \o p
    <3>1. doc \in Seq(Tokens) /\ w \in Seq(Tokens) /\ v \in Seq(Tokens)
      BY <2>1, <2>5
    <3> HIDE DEF w
    <3>2. (doc \o w) \o v = doc \o (w \o v)
      BY ONLY <3>1, ConcatAssociative
    <3> QED BY <3>2 DEF w
  <2> QED BY <2>3, <2>4, <2>6, <2>7 DEF u, v
<1>13. Added(cs, Tidy[x]) = Append(cs, Tidy[x])
  BY <1>3 DEF Added, Elem, Text
<1> QED BY <1>3, <1>7, <1>11, <1>12, <1>13

\* Every node is read as it was written, but tidy.
LEMMA NodeRead ==
  \A x \in Nodes : Reads(x)
<1> DEFINE T == {k \in Nat : \A x \in Nodes : Depth[x] < k => Reads(x)}
<1>1. 0 \in T
  BY TreesAssumption
<1>2. ASSUME NEW k \in Nat, k \in T PROVE k + 1 \in T
  <2> SUFFICES ASSUME NEW x \in Nodes, Depth[x] < k + 1 PROVE Reads(x)
    OBVIOUS
  <2>1. \A y \in Nodes : Depth[y] < Depth[x] => Reads(y)
    BY <1>2, TreesAssumption
  <2> QED BY <2>1, TextRead, ElementRead
<1>3. Nat \subseteq T
  <2> HIDE DEF T
  <2> QED BY <1>1, <1>2, Induction
<1>4. ASSUME NEW x \in Nodes PROVE Reads(x)
  <2>1. Depth[x] \in Nat /\ Depth[x] < Depth[x] + 1 /\ Depth[x] + 1 \in Nat
    BY TreesAssumption
  <2> QED BY <1>3, <2>1
<1> QED BY <1>4

\* fromxml gives the element that toxml wrote, but tidy.
LEMMA ElementsReadBack ==
  ASSUME NEW x \in Nodes, ~IsText(x), ~TextsMeet(EncodeXML[x])
  PROVE  DecodeXML(Document(EncodeXML[x])) = Tidy[x]
<1> DEFINE p == Outside(EncodeXML[x], Blanks)
           none == Elem(0, 0, <<>>)
<1>1. EncodeXML[x] \in Seq(Tokens) /\ Document(EncodeXML[x]) = p
  BY EncodeTyped, DocumentIsClean
<1>2. p \in Seq(Tokens)
  BY <1>1, OutsideTyped
<1> HIDE DEF p
<1>3. Taken(<<>>) = <<none>>
  <2>1. <<>> \in Seq(Tokens) /\ End \in Tokens
    BY DEF Tokens
  <2> QED BY <2>1, TakenAppend DEF Root
<1>4. Taken(<<>>) = Append(<<>>, none)
  BY <1>3
<1>5. Added(<<>>, Tidy[x]) = <<Tidy[x]>>
  <2>1. Tidy[x] # Text(<<>>)
    <3> DEFINE y == Tidy[x]
    <3>1. y[1] = "element"
      <4>1. Tidy[x] = Elem(x[2], x[3], Outside([i \in DOMAIN x[4] |-> Tidy[x[4][i]]], {Text(<<>>)}))
        BY TidyRecursion
      <4>2. \A a, b, c : Elem(a, b, c)[1] = "element"
        BY DEF Elem
      <4> QED BY ONLY <4>1, <4>2
    <3>2. Text(<<>>)[1] = "text"
      BY DEF Text
    <3> HIDE DEF y
    <3>3. y # Text(<<>>)
      BY <3>1, <3>2
    <3> QED BY <3>3 DEF y
  <2> QED BY <2>1 DEF Added
<1>6. Taken(<<>> \o p) = Append(<<>>, Elem(0, 0, <<Tidy[x]>>))
  <2>1. /\ <<>> \in Seq(Tokens) /\ <<>> \in Seq(Opens) /\ <<>> \in Seq(Tidies)
        /\ 0 \in OpenNames /\ 0 \in OpenAttrs /\ Taken(<<>>) = Append(<<>>, Elem(0, 0, <<>>))
    BY <1>4 DEF OpenNames, OpenAttrs
  <2>2. Reads(x)
    BY NodeRead
  <2>3. Taken(<<>> \o Outside(EncodeXML[x], Blanks)) = Append(<<>>, Elem(0, 0, Added(<<>>, Tidy[x])))
    BY ONLY <2>1, <2>2 DEF Reads
  <2> QED BY <1>5, <2>3 DEF p
<1>7. <<>> \o p = p
  BY <1>2
<1>8. Taken(p) = <<Elem(0, 0, <<Tidy[x]>>)>>
  BY <1>6, <1>7
<1>9. Taken(p)[1][4][1] = Tidy[x]
  BY <1>8 DEF Elem
<1> QED BY <1>1, <1>9 DEF DecodeXML, Taken, Root

\* Tables survive the conversions: a value to Go and back (UnpackLValue and
\* PackLValue), and an element to XML and back (encodeXML and decodeXML).
THEOREM TreesReadBack == Spec => []TablesRoundTrip
<1>1. Invariant => XmlRoundTrips
  <2> SUFFICES ASSUME Invariant, Converted("xml"), ~TextsMeet(EncodeXML[input])
               PROVE  DecodeXML(output[1]) = Tidy[input]
    BY DEF XmlRoundTrips
  <2>1. kind = "xml" /\ output[1] = Result /\ input \in Inputs["xml"]
    BY ConvertedResult
  <2>2. input \in Nodes /\ ~IsText(input)
    BY <2>1, InputsAssumption DEF InputsTyped
  <2>3. output[1] = Document(EncodeXML[input])
    BY <2>1 DEF Result
  <2> QED BY <2>2, <2>3, ElementsReadBack
<1>2. Spec => []XmlRoundTrips
  BY <1>1, Invariance, PTL
<1>3. ValuesRoundTrip /\ XmlRoundTrips => TablesRoundTrip
  BY DEF TablesRoundTrip
<1> QED BY <1>2, <1>3, ValuesPackedBack, PTL
=============================================================================
