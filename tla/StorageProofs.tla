--------------------------- MODULE StorageProofs ----------------------------
(***************************************************************************)
(* The list of artifacts is true (Storage!ListIsTrue) whatever the         *)
(* goroutines that use a storage do, in whatever order: each operation of  *)
(* Storage keeps StorageInv below, and tells which paths it leaves alone.  *)
(* RecorderProofs combines these lemmas into a theorem about the           *)
(* recordings of a run.                                                    *)
(*                                                                         *)
(* The argument is about one path at a time. As long as a path is not      *)
(* dirty, one goroutine or one download at a time uses it; its entry in    *)
(* the list and its file then differ only in the middle of that use, in a  *)
(* way that the use tells. An operation on one path leaves every other as  *)
(* it was (SameAt).                                                        *)
(***************************************************************************)
EXTENDS Storage, SequenceTheorems, FiniteSetTheorems, TLAPS

-----------------------------------------------------------------------------
(* Sequences in which an element occurs once.                              *)

\* A set of numbers has a least element. (The prefixes 0..n of its numbers
\* are finite sets, and those are well-founded under inclusion.)
LEMMA LeastNumber ==
  ASSUME NEW T, T \subseteq Nat, T # {}
  PROVE  \E n \in T : \A m \in T : n <= m
<1> DEFINE R == StrictSubsetOrdering(Nat)
           I == {0..n : n \in T}
<1>1. IsWellFoundedOn(R, FiniteSubsetsOf(Nat))
  BY FS_StrictSubsetOrderingWellFounded
<1>2. I \subseteq FiniteSubsetsOf(Nat) /\ I # {}
  <2>1. \A n \in T : IsFiniteSet(0..n) /\ 0..n \subseteq Nat
    BY FS_Interval
  <2>2. ASSUME NEW x \in I PROVE x \in FiniteSubsetsOf(Nat)
    BY <2>1 DEF FiniteSubsetsOf
  <2> QED BY <2>2
<1>3. \E x \in I : \A y \in I : ~ (<<y, x>> \in R)
  <2> HIDE DEF R, I
  <2> QED BY <1>1, <1>2, WFMin
<1>4. PICK n \in T : \A y \in I : ~ (<<y, 0..n>> \in R)
  BY <1>3
<1>5. ASSUME NEW m \in T, m < n PROVE FALSE
  <2>1. 0..m \subseteq 0..n /\ 0..m # 0..n
    <3>1. n \in 0..n /\ n \notin 0..m
      BY <1>5
    <3> QED BY <1>5, <3>1
  <2>2. <<0..m, 0..n>> \in R
    BY <2>1 DEF StrictSubsetOrdering
  <2> QED BY <1>4, <2>2
<1> QED BY <1>5

\* The elements of a sequence without its i-th.
LEMMA Removal ==
  ASSUME NEW S, NEW s \in Seq(S), NEW i \in 1..Len(s)
  PROVE  /\ RemoveAt(s, i) \in Seq(S)
         /\ Len(RemoveAt(s, i)) = Len(s) - 1
         /\ \A j \in 1..(Len(s) - 1) : RemoveAt(s, i)[j] = IF j < i THEN s[j] ELSE s[j + 1]
<1> DEFINE a == SubSeq(s, 1, i - 1)
           b == SubSeq(s, i + 1, Len(s))
<1>1. /\ a \in Seq(S) /\ Len(a) = i - 1
      /\ \A j \in 1..(i - 1) : a[j] = s[j]
  BY SubSeqProperties
<1>2. /\ b \in Seq(S) /\ Len(b) = Len(s) - i
      /\ \A j \in 1..(Len(s) - i) : b[j] = s[i + j]
  BY SubSeqProperties
<1>3. RemoveAt(s, i) = a \o b
  BY DEF RemoveAt
<1> HIDE DEF a, b
<1>4. /\ a \o b \in Seq(S) /\ Len(a \o b) = Len(a) + Len(b)
      /\ \A j \in 1..Len(a) + Len(b) :
           (a \o b)[j] = IF j <= Len(a) THEN a[j] ELSE b[j - Len(a)]
  BY <1>1, <1>2, ConcatProperties
<1>5. ASSUME NEW j \in 1..(Len(s) - 1)
      PROVE  RemoveAt(s, i)[j] = IF j < i THEN s[j] ELSE s[j + 1]
  <2>1. CASE j < i
    BY <1>1, <1>2, <1>3, <1>4, <2>1
  <2>2. CASE j >= i
    <3>1. RemoveAt(s, i)[j] = b[j - (i - 1)]
      BY <1>1, <1>2, <1>3, <1>4, <2>2
    <3>2. b[j - (i - 1)] = s[i + (j - (i - 1))] /\ i + (j - (i - 1)) = j + 1
      BY <1>2, <2>2
    <3> QED BY <2>2, <3>1, <3>2
  <2> QED BY <2>1, <2>2
<1> QED BY <1>1, <1>2, <1>3, <1>4, <1>5

\* Storage.Remove finds the first entry of a listed path.
LEMMA FirstEntryFound ==
  ASSUME artifacts \in Seq(Paths), NEW p, Listed(p)
  PROVE  FirstEntry(p) \in 1..Len(artifacts) /\ artifacts[FirstEntry(p)] = p
<1> DEFINE T == {i \in 1..Len(artifacts) : artifacts[i] = p}
<1>1. T \subseteq Nat /\ T # {}
  BY DEF Listed, Contains
<1>2. PICK n \in T : \A m \in T : n <= m
  <2> HIDE DEF T
  <2> QED BY <1>1, LeastNumber
<1>3. /\ n \in DOMAIN artifacts /\ artifacts[n] = p
      /\ \A k \in 1..n - 1 : artifacts[k] # p
  BY <1>2
<1> QED BY <1>3 DEF FirstEntry

\* p occurs at most once in s.
Once(s, p) == \A i, j \in DOMAIN s : s[i] = p /\ s[j] = p => i = j

\* An element that a sequence does not have yet is once in the longer one.
LEMMA Added ==
  ASSUME NEW S, NEW s \in Seq(S), NEW e \in S
  PROVE  /\ Append(s, e) \in Seq(S)
         /\ \A q : Contains(Append(s, e), q) <=> Contains(s, q) \/ q = e
         /\ \A q : q # e \/ ~Contains(s, q) => (Once(s, q) => Once(Append(s, e), q))
<1> DEFINE a == Append(s, e)
<1>1. /\ a \in Seq(S) /\ Len(a) = Len(s) + 1
      /\ \A i \in 1..Len(s) : a[i] = s[i]
      /\ a[Len(s) + 1] = e
  BY AppendProperties
<1> HIDE DEF a
<1>2. \A q : Contains(a, q) <=> Contains(s, q) \/ q = e
  BY <1>1 DEF Contains
<1>3. ASSUME NEW q, q # e \/ ~Contains(s, q), Once(s, q)
      PROVE  Once(a, q)
  <2> SUFFICES ASSUME NEW i \in DOMAIN a, NEW j \in DOMAIN a, a[i] = q, a[j] = q
               PROVE  i = j
    BY DEF Once
  <2>1. i \in 1..Len(s) + 1 /\ j \in 1..Len(s) + 1
    BY <1>1
  <2>2. CASE q # e
    BY <1>1, <1>3, <2>1, <2>2 DEF Once
  <2>3. CASE q = e
    <3>1. \A k \in 1..Len(s) : s[k] # q
      BY <1>3, <2>3 DEF Contains
    <3> QED BY <1>1, <2>1, <3>1
  <2> QED BY <2>2, <2>3
<1> QED BY <1>1, <1>2, <1>3 DEF a

\* Without the i-th element, the others stay and none becomes a repeated one.
LEMMA Removed ==
  ASSUME NEW S, NEW s \in Seq(S), NEW i \in 1..Len(s)
  PROVE  /\ RemoveAt(s, i) \in Seq(S)
         /\ \A q : q # s[i] => (Contains(RemoveAt(s, i), q) <=> Contains(s, q))
         /\ Once(s, s[i]) => ~Contains(RemoveAt(s, i), s[i])
         /\ \A q : Once(s, q) => Once(RemoveAt(s, i), q)
<1> DEFINE r == RemoveAt(s, i)
           old(j) == IF j < i THEN j ELSE j + 1
<1>1. /\ r \in Seq(S) /\ Len(r) = Len(s) - 1
      /\ \A j \in 1..(Len(s) - 1) : r[j] = IF j < i THEN s[j] ELSE s[j + 1]
  BY Removal
<1> HIDE DEF r
<1>2. DOMAIN r = 1..(Len(s) - 1) /\ DOMAIN s = 1..Len(s)
  BY <1>1
<1>3. \A j \in DOMAIN r : old(j) \in DOMAIN s /\ old(j) # i /\ r[j] = s[old(j)]
  BY <1>1, <1>2
<1>4. \A j, k \in DOMAIN r : old(j) = old(k) => j = k
  BY <1>2
<1>5. \A k \in DOMAIN s \ {i} : \E j \in DOMAIN r : old(j) = k
  <2> TAKE k \in DOMAIN s \ {i}
  <2>1. CASE k < i
    BY <1>2, <2>1
  <2>2. CASE k > i
    <3>1. k - 1 \in DOMAIN r /\ old(k - 1) = k
      BY <1>2, <2>2
    <3> QED BY <3>1
  <2> QED BY <1>2, <2>1, <2>2
<1> HIDE DEF old
<1>6. ASSUME NEW q, q # s[i] PROVE Contains(r, q) <=> Contains(s, q)
  <2>1. Contains(r, q) <=> \E j \in DOMAIN r : r[j] = q
    BY <1>1 DEF Contains
  <2>2. Contains(s, q) <=> \E j \in DOMAIN s : s[j] = q
    BY <1>2 DEF Contains
  <2> QED BY <1>3, <1>5, <1>6, <2>1, <2>2
<1>7. ASSUME Once(s, s[i]), Contains(r, s[i]) PROVE FALSE
  <2>1. PICK j \in DOMAIN r : r[j] = s[i]
    BY <1>1, <1>7 DEF Contains
  <2> QED BY <1>2, <1>3, <1>7, <2>1 DEF Once
<1>8. ASSUME NEW q, Once(s, q) PROVE Once(r, q)
  BY <1>3, <1>4, <1>8 DEF Once
<1> QED BY <1>1, <1>6, <1>7, <1>8 DEF r

-----------------------------------------------------------------------------
(* The inductive invariant.                                                *)

\* The browser is writing, or has written, the file of download g.
Loading(g) == download[g].state \in {"begun", "finished"}

Loads(g, p) == Loading(g) /\ download[g].name = p

\* The map of the storage has the downloads under way whose beginning was
\* heard, and the event of a finished one has their path.
GuidsOK ==
  \A g \in Guids :
    /\ guids[g] = IF Loading(g) /\ download[g].heard THEN download[g].name ELSE None
    /\ download[g].state = "reported" =>
         download[g].path = IF download[g].heard THEN download[g].name ELSE None

\* At most one goroutine or download uses p.
OneUser(p) ==
  /\ \A u, v \in Users : job[u].path = p /\ job[v].path = p => u = v
  /\ \A g, h \in Guids : Loads(g, p) /\ Loads(h, p) => g = h
  /\ \A u \in Users, g \in Guids : ~(job[u].path = p /\ Loads(g, p))

\* The entry of p and its file: they agree while nobody uses p; a writer has
\* listed it and a remover has not; a download lists its file at its end.
Tidy(p) ==
  /\ ~InUse(p) => (Listed(p) <=> p \in disk)
  /\ \A u \in Users : job[u].path = p => (job[u].op = "write" <=> Listed(p))
  /\ \A g \in Guids : Loads(g, p) => /\ download[g].heard /\ ~Listed(p)
                                     /\ download[g].state = "finished" <=> p \in disk

\* What holds of a path that is not dirty.
PathOK(p) == p \notin dirty => Once(artifacts, p) /\ OneUser(p) /\ Tidy(p)

\* An automatic name is listed once, and those to come are unused.
AutoOK == \A p \in 1..MaxAuto :
  /\ Once(artifacts, p)
  /\ p > autoid => ~Listed(p) /\ ~InUse(p) /\ p \notin disk /\ p \notin dirty

\* The inductive invariant of the storage.
StorageInv == StorageTypeOK /\ GuidsOK /\ AutoOK /\ \A p \in Paths : PathOK(p)

-----------------------------------------------------------------------------
(* What an operation does to the other paths.                              *)

\* The goroutines that use q go on as they were.
SameJobs(q) == \A u \in Users : job[u].path = q \/ job'[u].path = q => job'[u] = job[u]

\* The downloads named q go on as they were.
SameLoads(q) ==
  \A g \in Guids : Loads(g, q) \/ Loads(g, q)' => download'[g] = download[g]

\* Nothing that concerns q changes.
SameAt(q) ==
  /\ Listed(q)' <=> Listed(q)
  /\ q \in disk' <=> q \in disk
  /\ q \in dirty' <=> q \in dirty
  /\ Once(artifacts, q) => Once(artifacts', q)
  /\ SameJobs(q)
  /\ SameLoads(q)

\* A path that is left alone is in use as before.
LEMMA SameUse ==
  ASSUME NEW q, SameAt(q)
  PROVE  /\ \A u \in Users : job'[u].path = q <=> job[u].path = q
         /\ \A g \in Guids : Loads(g, q)' <=> Loads(g, q)
         /\ InUse(q)' <=> InUse(q)
<1>1. \A u \in Users : job'[u].path = q <=> job[u].path = q
  BY DEF SameAt, SameJobs
<1>2. \A g \in Guids : Loads(g, q)' <=> Loads(g, q)
  BY DEF SameAt, SameLoads, Loads, Loading
<1>3. InUse(q)' <=> InUse(q)
  BY <1>1, <1>2 DEF InUse, Loads, Loading
<1> QED BY <1>1, <1>2, <1>3

\* What holds of a path goes on to hold when it is left alone.
LEMMA SamePath ==
  ASSUME NEW q, SameAt(q), PathOK(q)
  PROVE  PathOK(q)'
<1> SUFFICES ASSUME q \notin dirty'
             PROVE  (Once(artifacts, q) /\ OneUser(q) /\ Tidy(q))'
  BY DEF PathOK
<1>1. q \notin dirty /\ Once(artifacts, q) /\ OneUser(q) /\ Tidy(q)
  BY DEF SameAt, PathOK
<1>2. Once(artifacts, q)'
  BY <1>1 DEF SameAt
<1>3. OneUser(q)'
  BY <1>1, SameUse DEF OneUser
<1>4. (~InUse(q) => (Listed(q) <=> q \in disk))'
  BY <1>1, SameUse DEF Tidy, SameAt
<1>5. (\A u \in Users : job[u].path = q => (job[u].op = "write" <=> Listed(q)))'
  BY <1>1 DEF Tidy, SameAt, SameJobs
<1>6. ASSUME NEW g \in Guids, Loads(g, q)'
      PROVE  (/\ download[g].heard /\ ~Listed(q)
              /\ download[g].state = "finished" <=> q \in disk)'
  <2>1. Loads(g, q) /\ download'[g] = download[g]
    BY <1>6, SameUse DEF SameAt, SameLoads
  <2> QED BY <1>1, <2>1 DEF Tidy, SameAt
<1> QED BY <1>2, <1>3, <1>4, <1>5, <1>6 DEF Tidy

\* An operation on p keeps the invariant if it keeps it at p.
LEMMA StorageStep ==
  ASSUME StorageInv, StorageTypeOK', GuidsOK', NEW p \in Paths,
         \A q \in Paths \ {p} : SameAt(q), PathOK(p)', autoid <= autoid',
         p \in 1..MaxAuto => p <= autoid' /\ Once(artifacts', p)
  PROVE  StorageInv'
<1>1. \A q \in Paths : PathOK(q)'
  BY SamePath DEF StorageInv
<1>2. ASSUME NEW q \in 1..MaxAuto, q # p
      PROVE  (/\ Once(artifacts, q)
              /\ q > autoid => ~Listed(q) /\ ~InUse(q) /\ q \notin disk /\ q \notin dirty)'
  <2>1. SameAt(q)
    BY <1>2 DEF Paths
  <2>2. Once(artifacts', q)
    BY <2>1 DEF StorageInv, AutoOK, SameAt
  <2>3. ASSUME q > autoid'
        PROVE  (~Listed(q) /\ ~InUse(q) /\ q \notin disk /\ q \notin dirty)'
    <3>1. q > autoid
      BY <2>3 DEF StorageInv, StorageTypeOK
    <3>2. ~Listed(q) /\ ~InUse(q) /\ q \notin disk /\ q \notin dirty
      BY <3>1 DEF StorageInv, AutoOK
    <3> QED BY <2>1, <3>2, SameUse DEF SameAt
  <2> QED BY <2>2, <2>3
<1>3. ~(p \in 1..MaxAuto /\ p > autoid')
  BY DEF StorageTypeOK
<1>4. AutoOK'
  BY <1>2, <1>3 DEF AutoOK
<1> QED BY <1>1, <1>4 DEF StorageInv

-----------------------------------------------------------------------------
(* The operations of the storage.                                          *)

\* A goroutine that starts to use p leaves every other path alone.
LEMMA ContinueSame ==
  ASSUME StorageTypeOK, NEW u \in Users, NEW p \in Paths, NEW op \in {"write", "unlink"},
         NEW again, Continue(u, op, p, again), NEW q \in Paths \ {p}
  PROVE  /\ SameJobs(q) /\ SameLoads(q)
         /\ q \in disk' <=> q \in disk
         /\ q \in dirty' <=> q \in dirty
<1>1. q # None
  BY StorageAssumption DEF Paths
<1>2. SameJobs(q)
  <2>1. job[u].path = None /\ job'[u].path = p
    BY DEF Continue, NoJob, StorageTypeOK
  <2>2. \A v \in Users \ {u} : job'[v] = job[v]
    BY DEF Continue, StorageTypeOK
  <2> QED BY <1>1, <2>1, <2>2 DEF SameJobs
<1>3. SameLoads(q)
  BY DEF Continue, SameLoads, Loads, Loading
<1>4. q \in dirty' <=> q \in dirty
  BY DEF Continue
<1> QED BY <1>2, <1>3, <1>4 DEF Continue

\* The types, when a goroutine starts to use p.
LEMMA ContinueType ==
  ASSUME StorageInv, NEW u \in Users, NEW p \in Paths, NEW op \in {"write", "unlink"},
         NEW again, Continue(u, op, p, again),
         artifacts' \in Seq(Paths), autoid' \in 0..MaxAuto
  PROVE  StorageTypeOK' /\ GuidsOK'
<1>1. job' \in [Users -> {NoJob} \cup [op : {"write", "unlink"}, path : Paths]]
  BY DEF Continue, StorageInv, StorageTypeOK
<1>2. dirty' \subseteq Paths
  BY DEF Continue, StorageInv, StorageTypeOK
<1>3. StorageTypeOK'
  BY <1>1, <1>2 DEF Continue, StorageInv, StorageTypeOK
<1>4. GuidsOK'
  BY DEF Continue, StorageInv, GuidsOK, Loading
<1> QED BY <1>3, <1>4

\* A goroutine that starts to use p, alone, leaves it tidy.
LEMMA ContinueTidy ==
  ASSUME StorageTypeOK, NEW u \in Users, NEW p \in Paths, NEW op \in {"write", "unlink"},
         NEW again \in BOOLEAN, Continue(u, op, p, again), PathOK(p),
         op = "write" <=> Listed(p)', ~again => (Once(artifacts, p) => Once(artifacts, p)')
  PROVE  PathOK(p)'
<1> SUFFICES ASSUME p \notin dirty' PROVE (Once(artifacts, p) /\ OneUser(p) /\ Tidy(p))'
  BY DEF PathOK
<1>1. ~InUse(p) /\ ~again /\ p \notin dirty
  BY DEF Continue
<1>2. Once(artifacts, p)'
  BY <1>1 DEF PathOK
<1>3. \A v \in Users : job'[v].path = p <=> v = u
  BY <1>1 DEF Continue, InUse, StorageTypeOK
<1>4. \A g \in Guids : ~Loads(g, p)'
  BY <1>1 DEF Continue, InUse, Loads, Loading
<1>5. job'[u].op = op
  BY DEF Continue, StorageTypeOK
<1>6. OneUser(p)'
  BY <1>3, <1>4 DEF OneUser
<1>7. InUse(p)'
  BY <1>3 DEF InUse
<1>8. Tidy(p)'
  BY <1>3, <1>4, <1>5, <1>7 DEF Tidy
<1> QED BY <1>2, <1>6, <1>8

\* Storage.Save and Storage.Open.
LEMMA SaveNext ==
  ASSUME StorageInv, NEW u \in Users, NEW p \in Paths, SaveName(u, p),
         autoid' \in 0..MaxAuto, autoid <= autoid',
         p \in 1..MaxAuto => autoid < p /\ p <= autoid'
  PROVE  StorageInv' /\ \A q \in Paths \ {p} : SameAt(q)
<1>1. /\ artifacts' = Append(artifacts, p)
      /\ Continue(u, "write", p, Listed(p))
  BY DEF SaveName
<1>2. /\ artifacts' \in Seq(Paths)
      /\ \A q : Listed(q)' <=> Listed(q) \/ q = p
      /\ \A q : q # p \/ ~Listed(q) => (Once(artifacts, q) => Once(artifacts', q))
  BY <1>1, Added DEF StorageInv, StorageTypeOK, Listed
<1>3. \A q \in Paths \ {p} : SameAt(q)
  BY <1>1, <1>2, ContinueSame DEF StorageInv, SameAt
<1>4. StorageTypeOK' /\ GuidsOK'
  BY <1>1, <1>2, ContinueType
<1>5. PathOK(p)'
  <2>1. Listed(p) \in BOOLEAN
    BY DEF Listed, Contains
  <2> QED BY <1>1, <1>2, <2>1, ContinueTidy DEF StorageInv
<1>6. p \in 1..MaxAuto => Once(artifacts', p)
  BY <1>2 DEF StorageInv, AutoOK
<1> QED BY <1>3, <1>4, <1>5, <1>6, StorageStep

\* artifact.open for writing.
LEMMA LuaOpenNext ==
  ASSUME StorageInv, NEW u \in Users, NEW p \in Names, LuaOpen(u, p)
  PROVE  StorageInv' /\ \A q \in Paths \ {p} : SameAt(q)
<1>1. /\ artifacts' = IF Listed(p) THEN artifacts ELSE Append(artifacts, p)
      /\ Continue(u, "write", p, FALSE)
      /\ autoid' = autoid
      /\ p \in Paths /\ p \notin 1..MaxAuto
  BY StorageAssumption DEF LuaOpen, AppendArtifact, Paths
<1>2. /\ artifacts' \in Seq(Paths)
      /\ \A q : Listed(q)' <=> Listed(q) \/ q = p
      /\ \A q : Once(artifacts, q) => Once(artifacts', q)
  <2>1. CASE Listed(p)
    BY <1>1, <2>1 DEF StorageInv, StorageTypeOK, Listed
  <2>2. CASE ~Listed(p)
    BY <1>1, <2>2, Added DEF StorageInv, StorageTypeOK, Listed
  <2> QED BY <2>1, <2>2
<1>3. \A q \in Paths \ {p} : SameAt(q)
  BY <1>1, <1>2, ContinueSame DEF StorageInv, SameAt
<1>4. StorageTypeOK' /\ GuidsOK'
  BY <1>1, <1>2, ContinueType DEF StorageInv, StorageTypeOK
<1>5. PathOK(p)'
  BY <1>1, <1>2, ContinueTidy DEF StorageInv
<1>6. autoid <= autoid'
  BY <1>1 DEF StorageInv, StorageTypeOK
<1> QED BY <1>1, <1>3, <1>4, <1>5, <1>6, StorageStep

\* Storage.Remove: a path that was listed once is no more in the list.
LEMMA RemoveNext ==
  ASSUME StorageInv, NEW u \in Users, NEW p \in Names, RemoveArtifact(u, p)
  PROVE  /\ StorageInv' /\ \A q \in Paths \ {p} : SameAt(q)
         /\ Once(artifacts, p) => ~Listed(p)'
<1>1. /\ Listed(p) /\ artifacts' = RemoveAt(artifacts, FirstEntry(p))
      /\ Continue(u, "unlink", p, FALSE)
      /\ autoid' = autoid
      /\ p \in Paths /\ p \notin 1..MaxAuto
  BY StorageAssumption DEF RemoveArtifact, Paths
<1>2. /\ artifacts \in Seq(Paths)
      /\ FirstEntry(p) \in 1..Len(artifacts) /\ artifacts[FirstEntry(p)] = p
  BY <1>1, FirstEntryFound DEF StorageInv, StorageTypeOK
<1>3. /\ artifacts' \in Seq(Paths)
      /\ \A q : q # p => (Listed(q)' <=> Listed(q))
      /\ Once(artifacts, p) => ~Listed(p)'
      /\ \A q : Once(artifacts, q) => Once(artifacts', q)
  BY <1>1, <1>2, Removed DEF Listed
<1>4. \A q \in Paths \ {p} : SameAt(q)
  BY <1>1, <1>3, ContinueSame DEF StorageInv, SameAt
<1>5. StorageTypeOK' /\ GuidsOK'
  BY <1>1, <1>3, ContinueType DEF StorageInv, StorageTypeOK
<1>6. PathOK(p)'
  <2>1. CASE Once(artifacts, p)
    BY <1>1, <1>3, <2>1, ContinueTidy DEF StorageInv
  <2>2. CASE ~Once(artifacts, p)
    BY <1>1, <2>2 DEF StorageInv, PathOK, Continue
  <2> QED BY <2>1, <2>2
<1>7. autoid <= autoid'
  BY <1>1 DEF StorageInv, StorageTypeOK
<1> QED BY <1>1, <1>3, <1>4, <1>5, <1>6, <1>7, StorageStep

\* A goroutine has written or removed its file, or could not.
LEMMA EndJobNext ==
  ASSUME StorageInv, NEW u \in Users, NEW ok \in BOOLEAN, EndJob(u, ok)
  PROVE  /\ StorageInv' /\ job[u].path \in Paths
         /\ \A q \in Paths \ {job[u].path} : SameAt(q)
<1>1. PICK p \in Paths : job[u].path = p
  BY DEF EndJob, StorageInv, StorageTypeOK
<1>2. /\ job[u] \in [op : {"write", "unlink"}, path : Paths]
      /\ job' = [job EXCEPT ![u] = NoJob]
      /\ artifacts' = artifacts /\ guids' = guids /\ autoid' = autoid /\ download' = download
  BY DEF EndJob, StorageInv, StorageTypeOK
<1>3. /\ disk' = CASE ~ok -> disk
                   [] job[u].op = "write" -> disk \cup {p}
                   [] OTHER -> disk \ {p}
      /\ dirty' = IF ok THEN dirty ELSE dirty \cup {p}
  BY <1>1 DEF EndJob
<1>4. /\ disk' \subseteq Paths /\ dirty' \subseteq Paths
      /\ \A q : q # p => (q \in disk' <=> q \in disk) /\ (q \in dirty' <=> q \in dirty)
      /\ p \notin dirty' => ok /\ p \notin dirty
      /\ ok => (p \in disk' <=> job[u].op = "write")
  <2>1. CASE ~ok
    BY <1>2, <1>3, <2>1 DEF StorageInv, StorageTypeOK
  <2>2. CASE ok /\ job[u].op = "write"
    BY <1>2, <1>3, <2>2 DEF StorageInv, StorageTypeOK
  <2>3. CASE ok /\ job[u].op # "write"
    BY <1>2, <1>3, <2>3 DEF StorageInv, StorageTypeOK
  <2> QED BY <2>1, <2>2, <2>3
<1>5. ASSUME NEW v \in Users
      PROVE  job'[v] = IF v = u THEN NoJob ELSE job[v]
  BY <1>2 DEF StorageInv, StorageTypeOK
<1>6. None \notin Paths
  BY StorageAssumption DEF Paths
<1>7. ASSUME NEW q \in Paths \ {p} PROVE SameAt(q)
  <2>1. SameJobs(q)
    BY <1>5, <1>1, <1>6 DEF SameJobs, NoJob
  <2>2. SameLoads(q)
    BY <1>2 DEF SameLoads
  <2> QED BY <1>2, <1>4, <2>1, <2>2 DEF SameAt, Listed
<1>8. StorageTypeOK'
  BY <1>2, <1>4 DEF StorageInv, StorageTypeOK
<1>9. GuidsOK'
  BY <1>2 DEF StorageInv, GuidsOK, Loading
<1>10. PathOK(p)'
  <2> SUFFICES ASSUME p \notin dirty' PROVE (Once(artifacts, p) /\ OneUser(p) /\ Tidy(p))'
    BY DEF PathOK
  <2>1. ok /\ Once(artifacts, p) /\ OneUser(p) /\ Tidy(p)
    BY <1>2, <1>4 DEF StorageInv, PathOK
  <2>2. \A v \in Users : job'[v].path # p
    BY <1>2, <1>5, <1>1, <1>6, <2>1 DEF OneUser, NoJob
  <2>3. \A g \in Guids : ~Loads(g, p)'
    BY <1>2, <1>1, <2>1 DEF OneUser, Loads, Loading
  <2>4. Listed(p)' <=> p \in disk'
    BY <1>2, <1>4, <1>1, <2>1 DEF Tidy, Listed
  <2> QED BY <1>2, <2>1, <2>2, <2>3, <2>4 DEF OneUser, Tidy
<1>11. p \in 1..MaxAuto => p <= autoid' /\ Once(artifacts', p)
  <2>1. InUse(p)
    BY <1>1 DEF InUse
  <2> QED BY <1>2, <2>1 DEF StorageInv, AutoOK, StorageTypeOK
<1>12. autoid <= autoid'
  BY <1>2 DEF StorageInv, StorageTypeOK
<1> QED BY <1>2, <1>1, <1>7, <1>8, <1>9, <1>10, <1>11, <1>12, StorageStep

\* Storage.StartDownload.
LEMMA StartNext ==
  ASSUME StorageInv, NEW g \in Guids, NEW p \in Names, NEW heard \in BOOLEAN,
         StartDownload(g, p, heard)
  PROVE  StorageInv' /\ \A q \in Paths \ {p} : SameAt(q)
<1> DEFINE d == [state |-> "begun", name |-> p, heard |-> heard, path |-> None]
<1>1. /\ download[g].state = "none"
      /\ download' = [download EXCEPT ![g] = d]
      /\ guids' = IF heard THEN [guids EXCEPT ![g] = p] ELSE guids
      /\ dirty' = IF InUse(p) \/ Listed(p) \/ ~heard THEN dirty \cup {p} ELSE dirty
      /\ artifacts' = artifacts /\ autoid' = autoid /\ disk' = disk /\ job' = job
      /\ p \in Paths /\ p \notin 1..MaxAuto
  BY StorageAssumption DEF StartDownload, Paths
<1>2. \A h \in Guids : download'[h] = IF h = g THEN d ELSE download[h]
  BY <1>1 DEF StorageInv, StorageTypeOK
<1>3. ASSUME NEW q \in Paths \ {p} PROVE SameAt(q)
  <2>1. SameLoads(q)
    BY <1>1, <1>2 DEF SameLoads, Loads, Loading
  <2> QED BY <1>1, <2>1 DEF SameAt, SameJobs, Listed
<1>4. StorageTypeOK'
  <2>1. download' \in [Guids -> {NoDownload} \cup
                    [state : {"begun", "finished", "reported", "canceled"}, name : Names,
                     heard : BOOLEAN, path : Names \cup {None}]]
    BY <1>1 DEF StorageInv, StorageTypeOK
  <2>2. guids' \in [Guids -> Names \cup {None}] /\ dirty' \subseteq Paths
    BY <1>1 DEF StorageInv, StorageTypeOK
  <2> QED BY <1>1, <2>1, <2>2 DEF StorageInv, StorageTypeOK
<1>5. GuidsOK'
  <2> SUFFICES ASSUME NEW h \in Guids
      PROVE  (/\ guids[h] = IF Loading(h) /\ download[h].heard THEN download[h].name ELSE None
              /\ download[h].state = "reported" =>
                   download[h].path = IF download[h].heard THEN download[h].name ELSE None)'
    BY DEF GuidsOK
  <2>1. CASE h = g
    <3>1. guids[g] = None
      BY <1>1 DEF StorageInv, GuidsOK, Loading
    <3>2. guids'[g] = IF heard THEN p ELSE None
      BY <1>1, <3>1 DEF StorageInv, StorageTypeOK
    <3>3. Loading(g)' /\ download'[g] = d
      BY <1>2 DEF Loading
    <3> QED BY <2>1, <3>2, <3>3
  <2>2. CASE h # g
    BY <1>1, <1>2, <2>2 DEF StorageInv, StorageTypeOK, GuidsOK, Loading
  <2> QED BY <2>1, <2>2
<1>6. PathOK(p)'
  <2> SUFFICES ASSUME p \notin dirty' PROVE (Once(artifacts, p) /\ OneUser(p) /\ Tidy(p))'
    BY DEF PathOK
  <2>1. ~InUse(p) /\ ~Listed(p) /\ heard /\ p \notin dirty /\ PathOK(p)
    BY <1>1 DEF StorageInv
  <2>2. Once(artifacts, p) /\ p \notin disk
    BY <2>1 DEF PathOK, Tidy
  <2>3. (\A v \in Users : job[v].path # p)'
    BY <1>1, <2>1 DEF InUse
  <2>4. \A h \in Guids : Loads(h, p)' <=> h = g
    BY <1>2, <2>1 DEF InUse, Loads, Loading
  <2>5. OneUser(p)'
    BY <2>3, <2>4 DEF OneUser
  <2>6. InUse(p)'
    BY <2>4 DEF InUse, Loads, Loading
  <2>7. (download[g].heard /\ ~Listed(p) /\ (download[g].state = "finished" <=> p \in disk))'
    BY <1>1, <1>2, <2>1, <2>2 DEF Listed
  <2>8. Tidy(p)'
    BY <2>3, <2>4, <2>6, <2>7 DEF Tidy
  <2> QED BY <1>1, <2>2, <2>5, <2>8
<1>7. autoid <= autoid'
  BY <1>1 DEF StorageInv, StorageTypeOK
<1> QED BY <1>1, <1>3, <1>4, <1>5, <1>6, <1>7, StorageStep

\* A download is finished, reported or canceled.
LEMMA DownloadNext ==
  ASSUME StorageInv, NEW g \in Guids,
         FinishDownload(g) \/ CompleteDownload(g) \/ CancelDownload(g)
  PROVE  /\ StorageInv' /\ download[g].name \in Names
         /\ \A q \in Paths \ {download[g].name} : SameAt(q)
<1>1. PICK p \in Names : download[g].name = p
  BY DEF FinishDownload, CompleteDownload, CancelDownload, StorageInv, StorageTypeOK,
     NoDownload
<1>2. /\ Loading(g) /\ Loads(g, p) /\ guids[g] = IF download[g].heard THEN p ELSE None
      /\ p \in Paths /\ p \notin 1..MaxAuto /\ p # None
  BY <1>1, StorageAssumption
     DEF FinishDownload, CompleteDownload, CancelDownload, StorageInv, GuidsOK, Loading, Loads,
         Paths
<1>3. /\ download[g] \in [state : {"begun", "finished", "reported", "canceled"}, name : Names,
                          heard : BOOLEAN, path : Names \cup {None}]
  BY <1>2 DEF StorageInv, StorageTypeOK, Loading, NoDownload
<1>4. /\ autoid' = autoid /\ job' = job /\ dirty' = dirty
  BY DEF FinishDownload, CompleteDownload, CancelDownload
<1>5. /\ guids' \in [Guids -> Names \cup {None}]
      /\ \A h \in Guids \ {g} : guids'[h] = guids[h]
  BY DEF FinishDownload, CompleteDownload, CancelDownload, Forget, StorageInv,
     StorageTypeOK
<1>6. /\ \A h \in Guids \ {g} : download'[h] = download[h]
      /\ download' \in [Guids -> {NoDownload} \cup
                    [state : {"begun", "finished", "reported", "canceled"}, name : Names,
                     heard : BOOLEAN, path : Names \cup {None}]]
      /\ download'[g].name = p /\ download'[g].heard = download[g].heard
  <2>1. CASE FinishDownload(g)
    BY <1>1, <1>3, <2>1 DEF FinishDownload, StorageInv, StorageTypeOK
  <2>2. CASE CompleteDownload(g)
    BY <1>1, <1>3, <2>2 DEF CompleteDownload, StorageInv, StorageTypeOK
  <2>3. CASE CancelDownload(g)
    BY <1>1, <1>3, <2>3 DEF CancelDownload, StorageInv, StorageTypeOK
  <2> QED BY <2>1, <2>2, <2>3
<1>7. /\ artifacts' \in Seq(Paths)
      /\ \A q : q # p => (Listed(q)' <=> Listed(q))
      /\ \A q : Once(artifacts, q) => Once(artifacts', q)
  <2>1. CASE artifacts' = artifacts
    BY <2>1 DEF StorageInv, StorageTypeOK, Listed
  <2>2. CASE artifacts' # artifacts
    <3>1. /\ guids[g] = p /\ ~Listed(p)
          /\ artifacts' = Append(artifacts, p)
      BY <1>2, <2>2
         DEF FinishDownload, CompleteDownload, CancelDownload, AppendArtifact
    <3> QED BY <1>2, <3>1, Added DEF StorageInv, StorageTypeOK, Listed
  <2> QED BY <2>1, <2>2
<1>8. /\ disk' \subseteq Paths
      /\ \A q : q # p => (q \in disk' <=> q \in disk)
  BY <1>1, <1>2
     DEF FinishDownload, CompleteDownload, CancelDownload, StorageInv, StorageTypeOK
<1>9. ASSUME NEW q \in Paths \ {p} PROVE SameAt(q)
  <2>1. SameLoads(q)
    BY <1>2, <1>6 DEF SameLoads, Loads, Loading
  <2> QED BY <1>4, <1>7, <1>8, <2>1 DEF SameAt, SameJobs
<1>10. StorageTypeOK'
  BY <1>4, <1>5, <1>6, <1>7, <1>8 DEF StorageInv, StorageTypeOK
<1>11. GuidsOK'
  <2> SUFFICES ASSUME NEW h \in Guids
      PROVE  (/\ guids[h] = IF Loading(h) /\ download[h].heard THEN download[h].name ELSE None
              /\ download[h].state = "reported" =>
                   download[h].path = IF download[h].heard THEN download[h].name ELSE None)'
    BY DEF GuidsOK
  <2>1. CASE h # g
    BY <1>5, <1>6, <2>1 DEF StorageInv, GuidsOK, Loading
  <2>2. CASE h = g /\ FinishDownload(g)
    <3>1. download'[g].state = "finished" /\ guids' = guids
      BY <2>2 DEF FinishDownload, StorageInv, StorageTypeOK
    <3> QED BY <1>2, <1>6, <2>2, <3>1 DEF Loading
  <2>3. CASE h = g /\ CompleteDownload(g)
    <3>1. /\ download'[g].state = "reported" /\ download'[g].path = guids[g]
          /\ guids'[g] = None
      BY <1>3, <2>3 DEF CompleteDownload, Forget, StorageInv, StorageTypeOK
    <3> QED BY <1>2, <1>6, <2>3, <3>1 DEF Loading
  <2>4. CASE h = g /\ CancelDownload(g)
    <3>1. download'[g].state = "canceled" /\ guids'[g] = None
      BY <1>3, <2>4 DEF CancelDownload, Forget, StorageInv, StorageTypeOK
    <3> QED BY <1>6, <2>4, <3>1 DEF Loading
  <2> QED BY <2>1, <2>2, <2>3, <2>4
<1>12. PathOK(p)'
  <2> SUFFICES ASSUME p \notin dirty' PROVE (Once(artifacts, p) /\ OneUser(p) /\ Tidy(p))'
    BY DEF PathOK
  <2>1. Once(artifacts, p) /\ OneUser(p) /\ Tidy(p)
    BY <1>2, <1>4 DEF StorageInv, PathOK
  <2>2. \A v \in Users : job'[v].path # p
    BY <1>2, <1>4, <2>1 DEF OneUser
  <2>3. \A h \in Guids \ {g} : ~Loads(h, p)'
    BY <1>2, <1>6, <2>1 DEF OneUser, Loads, Loading
  <2>4. OneUser(p)'
    BY <2>2, <2>3 DEF OneUser
  <2>5. download[g].heard /\ ~Listed(p) /\ (download[g].state = "finished" <=> p \in disk)
    BY <1>2, <2>1 DEF Tidy
  <2>6. Tidy(p)'
    <3>1. CASE FinishDownload(g)
      <4>1. /\ download'[g].state = "finished" /\ disk' = disk \cup {p}
            /\ artifacts' = artifacts
        BY <1>1, <3>1 DEF FinishDownload, StorageInv, StorageTypeOK
      <4>2. Loads(g, p)' /\ InUse(p)'
        BY <1>6, <4>1 DEF Loads, Loading, InUse
      <4> QED BY <1>6, <2>2, <2>3, <2>5, <4>1, <4>2 DEF Tidy, Listed
    <3>2. CASE CompleteDownload(g)
      <4>1. /\ download'[g].state = "reported" /\ disk' = disk
            /\ artifacts' = Append(artifacts, p) /\ download[g].state = "finished"
        BY <1>2, <1>3, <2>5, <3>2 DEF CompleteDownload, AppendArtifact, StorageInv,
           StorageTypeOK
      <4>2. ~Loads(g, p)'
        BY <4>1 DEF Loads, Loading
      <4>3. Listed(p)'
        BY <1>2, <4>1, Added DEF Listed, StorageInv, StorageTypeOK
      <4> QED BY <2>2, <2>3, <2>5, <4>1, <4>2, <4>3 DEF Tidy
    <3>3. CASE CancelDownload(g)
      <4>1. /\ download'[g].state = "canceled" /\ disk' = disk
            /\ artifacts' = artifacts /\ download[g].state = "begun"
        BY <1>3, <3>3 DEF CancelDownload, StorageInv, StorageTypeOK
      <4>2. ~Loads(g, p)'
        BY <4>1 DEF Loads, Loading
      <4> QED BY <2>2, <2>3, <2>5, <4>1, <4>2 DEF Tidy, Listed
    <3> QED BY <3>1, <3>2, <3>3
  <2>7. Once(artifacts, p)'
    BY <1>7, <2>1
  <2> QED BY <2>4, <2>6, <2>7
<1>13. autoid <= autoid'
  BY <1>4 DEF StorageInv, StorageTypeOK
<1> QED BY <1>1, <1>2, <1>9, <1>10, <1>11, <1>12, <1>13, StorageStep

\* A new storage.
LEMMA InitStorage ==
  ASSUME StorageInit
  PROVE  StorageInv
<1> USE DEF StorageInit
<1>1. StorageTypeOK
  BY StorageAssumption DEF StorageTypeOK
<1>2. GuidsOK
  BY DEF GuidsOK, Loading, NoDownload
<1>3. \A p : ~Listed(p) /\ Once(artifacts, p)
  BY DEF Listed, Contains, Once
<1>4. \A p \in Paths : ~InUse(p)
  BY StorageAssumption DEF InUse, NoJob, NoDownload, Paths
<1>5. AutoOK
  BY <1>3, <1>4 DEF AutoOK, Paths
<1>6. \A p \in Paths : PathOK(p)
  BY <1>3, <1>4 DEF PathOK, OneUser, Tidy, InUse, Loads, Loading
<1> QED BY <1>1, <1>2, <1>5, <1>6 DEF StorageInv

\* The list of artifacts is true.
LEMMA ListFollows ==
  ASSUME StorageInv
  PROVE  ListIsTrue
<1>1. ListMatchesDisk
  BY DEF StorageInv, PathOK, Tidy, ListMatchesDisk
<1>2. ListedOnce
  <2> SUFFICES ASSUME NEW p \in Paths, p \notin dirty \/ p \in 1..MaxAuto
               PROVE  ~(Cardinality({i \in DOMAIN artifacts : artifacts[i] = p}) > 1)
    BY DEF ListedOnce
  <2> DEFINE T == {i \in DOMAIN artifacts : artifacts[i] = p}
  <2>1. \A i, j \in T : i = j
    BY DEF StorageInv, PathOK, AutoOK, Once
  <2> HIDE DEF T
  <2>2. T = {} \/ \E i : T = {i}
    BY <2>1
  <2>3. Cardinality(T) = 0 \/ Cardinality(T) = 1
    BY <2>2, FS_EmptySet, FS_Singleton
  <2> QED BY <2>3 DEF T
<1>3. DownloadsHavePaths
  BY DEF StorageInv, GuidsOK, DownloadsHavePaths
<1> QED BY <1>1, <1>2, <1>3 DEF ListIsTrue
=============================================================================
