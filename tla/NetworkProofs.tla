--------------------------- MODULE NetworkProofs ---------------------------
(***************************************************************************)
(* What a scenario does on the network.                                    *)
(*                                                                         *)
(* Network, and with it ResponseBody, for any set of goroutines and any    *)
(* number of reads and of calls of onRequest and onResponse: the type      *)
(* invariant, when a body is asked for, who is served when it is loaded,   *)
(* and that the browser's events fit the callbacks.                        *)
(*                                                                         *)
(* CookieJars, for any set of goroutines and any number of jars: the type  *)
(* invariant, and that only a jar that the scenario shares can crash the   *)
(* process.                                                                *)
(***************************************************************************)
EXTENDS MCNetwork, TLAPS

-----------------------------------------------------------------------------
(* The inductive invariant of the body.  A channel is closed by Complete    *)
(* only, and at that moment l.waits has the channel that was made last,     *)
(* which a reader still has: it is that reader the others wait behind.      *)

ReadersOK ==
    /\ \A r \in Readers : pc[r] # "idle" => request # "sent"
    /\ closed # {} => request = "finished"
    /\ LoadedBeforeFetch

ChannelsOK ==
    /\ request \in {"sent", "received"} => waits = nchan
    /\ nchan # 0 => \E q \in Readers : ch[q] = nchan
    /\ \A r \in Readers : pc[r] = "blocked" => ch[r] # 0
    /\ ServedUnlessDisplaced

BodyInv == BodyTypeOK /\ ReadersOK /\ ChannelsOK

BodyActions ==
    \/ \E r \in Readers : Read(r) \/ ReaderStep(r)
    \/ ResponseReceived \/ Complete \/ LoadingFailed \/ LoadedUnheard \/ TabEnds

LEMMA BodyInitial == BodyInit => BodyInv
  <1> SUFFICES ASSUME BodyInit PROVE BodyInv
    OBVIOUS
  <1> USE BoundsAssumption DEF BodyInit
  <1>1. BodyTypeOK
    <2>1. opened \in BOOLEAN /\ canceled \in BOOLEAN
      OBVIOUS
    <2>2. /\ request = "sent" /\ nchan = 0 /\ waits = 0 /\ closed = {}
          /\ pc \in [Readers -> {"idle", "wait", "blocked", "fetch"}]
          /\ ch \in [Readers -> 0..nchan]
          /\ entry \in [Readers -> {"none", "received", "finished", "failed", "unheard"}]
          /\ reads \in [Readers -> 0..MaxReads]
      OBVIOUS
    <2> HIDE DEF BodyInit
    <2> QED
      BY <2>1, <2>2 DEF BodyTypeOK
  <1>2. ReadersOK /\ ChannelsOK
    BY DEF ReadersOK, LoadedBeforeFetch, ChannelsOK, ServedUnlessDisplaced
  <1> QED
    BY <1>1, <1>2 DEF BodyInv

LEMMA BodyKept == BodyInv /\ BodyActions => BodyInv'
  <1> SUFFICES ASSUME BodyInv, BodyActions PROVE BodyInv'
    OBVIOUS
  <1> USE BoundsAssumption DEF BodyInv, loader
  <1>1. ASSUME NEW r \in Readers, Read(r) PROVE BodyInv'
    <2>1. BodyTypeOK'
      BY <1>1 DEF Read, BodyTypeOK
    <2>2. ReadersOK'
      BY <1>1 DEF Read, HasTable, BodyTypeOK, ReadersOK, LoadedBeforeFetch
    <2>3. ChannelsOK'
      BY <1>1 DEF Read, BodyTypeOK, ChannelsOK, ServedUnlessDisplaced
    <2> QED
      BY <2>1, <2>2, <2>3
  <1>2. ASSUME NEW r \in Readers, Wait(r) PROVE BodyInv'
    <2>1. BodyTypeOK'
      BY <1>2 DEF Wait, BodyTypeOK, ReadersOK
    <2>2. ReadersOK'
      BY <1>2 DEF Wait, BodyTypeOK, ReadersOK, LoadedBeforeFetch
    <2>3. ServedUnlessDisplaced'
      <3> SUFFICES ASSUME NEW q \in Readers, pc'[q] = "blocked", entry'[q] = "received",
                          request' = "finished"
                   PROVE  ch'[q] \in closed' \/ \E p \in Readers \ {q} : ch'[p] > ch'[q]
        BY DEF ServedUnlessDisplaced
      <3>1. q # r /\ pc[q] = "blocked" /\ entry[q] = "received" /\ request = "finished"
        BY <1>2 DEF Wait, BodyTypeOK
      <3>2. ch'[q] = ch[q] /\ ch[q] \in 0..nchan /\ ch'[r] = nchan + 1
        BY <1>2, <3>1 DEF Wait, BodyTypeOK
      <3>3. ch'[r] > ch'[q]
        BY <3>2 DEF BodyTypeOK
      <3> QED
        BY <3>1, <3>3
    <2>4. ChannelsOK'
      <3>1. (request \in {"sent", "received"} => waits = nchan)'
        BY <1>2 DEF Wait
      <3>2. nchan' = nchan + 1 /\ ch'[r] = nchan' /\ nchan' # 0
        BY <1>2 DEF Wait, BodyTypeOK
      <3>3. \A q \in Readers : pc'[q] = "blocked" => ch'[q] # 0
        BY <1>2, <3>2 DEF Wait, BodyTypeOK, ChannelsOK
      <3> QED
        BY <2>3, <3>1, <3>2, <3>3 DEF ChannelsOK
    <2> QED
      BY <2>1, <2>2, <2>4
  <1>3. ASSUME NEW r \in Readers, Wake(r) PROVE BodyInv'
    <2>1. BodyTypeOK'
      BY <1>3 DEF Wake, BodyTypeOK
    <2>2. ReadersOK'
      BY <1>3 DEF Wake, Released, BodyTypeOK, ReadersOK, LoadedBeforeFetch
    <2>3. ChannelsOK'
      BY <1>3 DEF Wake, BodyTypeOK, ChannelsOK, ServedUnlessDisplaced
    <2> QED
      BY <2>1, <2>2, <2>3
  <1>4. ASSUME NEW r \in Readers, Fetch(r) PROVE BodyInv'
    <2>1. opened' \in BOOLEAN
      BY <1>4 DEF Fetch, BodyTypeOK
    <2>2. BodyTypeOK'
      BY <1>4, <2>1 DEF Fetch, BodyTypeOK
    <2>3. ReadersOK'
      BY <1>4 DEF Fetch, BodyTypeOK, ReadersOK, LoadedBeforeFetch
    <2>4. ChannelsOK'
      BY <1>4 DEF Fetch, BodyTypeOK, ChannelsOK, ServedUnlessDisplaced
    <2> QED
      BY <2>2, <2>3, <2>4
  <1>5. CASE ResponseReceived
    <2>1. BodyTypeOK'
      BY <1>5 DEF ResponseReceived, BodyTypeOK
    <2>2. ReadersOK' /\ ChannelsOK'
      BY <1>5 DEF ResponseReceived, ReadersOK, ChannelsOK, LoadedBeforeFetch,
         ServedUnlessDisplaced
    <2> QED
      BY <2>1, <2>2
  <1>6. CASE Complete
    <2>1. BodyTypeOK'
      BY <1>6 DEF Complete, Closes, BodyTypeOK
    <2>2. ReadersOK'
      BY <1>6 DEF Complete, ReadersOK, LoadedBeforeFetch
    <2>3. ServedUnlessDisplaced'
      <3> SUFFICES ASSUME NEW r \in Readers, pc[r] = "blocked"
                   PROVE  ch[r] \in closed' \/ \E q \in Readers \ {r} : ch[q] > ch[r]
        BY <1>6 DEF ServedUnlessDisplaced, Complete
      <3>1. waits = nchan /\ ch[r] # 0 /\ ch[r] \in 0..nchan /\ nchan \in Nat
        BY <1>6 DEF Complete, ChannelsOK, BodyTypeOK
      <3>2. CASE ch[r] = nchan
        BY <1>6, <3>1, <3>2 DEF Complete, Closes
      <3>3. CASE ch[r] # nchan
        <4>1. PICK q \in Readers : ch[q] = nchan
          BY <3>1 DEF ChannelsOK
        <4> QED
          BY <3>1, <3>3, <4>1
      <3> QED
        BY <3>2, <3>3
    <2>4. ChannelsOK'
      BY <1>6, <2>3 DEF Complete, ChannelsOK
    <2> QED
      BY <2>1, <2>2, <2>4
  <1>7. CASE LoadingFailed
    BY <1>7 DEF LoadingFailed, BodyTypeOK, ReadersOK, ChannelsOK, LoadedBeforeFetch,
       ServedUnlessDisplaced
  <1>8. CASE LoadedUnheard
    BY <1>8 DEF LoadedUnheard, BodyTypeOK, ReadersOK, ChannelsOK, LoadedBeforeFetch,
       ServedUnlessDisplaced
  <1>9. CASE TabEnds
    BY <1>9 DEF TabEnds, BodyTypeOK, ReadersOK, ChannelsOK, LoadedBeforeFetch,
       ServedUnlessDisplaced
  <1> QED
    BY <1>1, <1>2, <1>3, <1>4, <1>5, <1>6, <1>7, <1>8, <1>9 DEF BodyActions, ReaderStep

LEMMA BodyUnchanged == BodyInv /\ UNCHANGED bodyVars => BodyInv'
  BY DEF BodyInv, BodyTypeOK, ReadersOK, ChannelsOK, LoadedBeforeFetch,
     ServedUnlessDisplaced,
     bodyVars, loader

-----------------------------------------------------------------------------
(* The inductive invariant of the events: commands under way, if their      *)
(* outcome matters, all say what the callbacks of now need.                 *)

CommandsAgree ==
    settled = "yes" =>
        /\ \A r \in Readers : command[r] \in {"none", Decide(hooks)}
        /\ (\A r \in Readers : command[r] = "none") => (enabled <=> hooks # {})

NetworkInv == NetworkTypeOK /\ CommandsAgree

LEMMA NetworkInitial == NetworkInit => NetworkInv
  <1> SUFFICES ASSUME NetworkInit PROVE NetworkInv
    OBVIOUS
  <1>1. NetworkTypeOK
    BY SetsAssumption DEF NetworkInit, NetworkTypeOK
  <1>2. CommandsAgree
    BY DEF NetworkInit, CommandsAgree
  <1> QED
    BY <1>1, <1>2 DEF NetworkInv

LEMMA SetHookKeeps ==
    ASSUME NetworkInv, NEW r \in Readers, SetHook(r) PROVE NetworkInv'
  <1> USE SetsAssumption DEF NetworkInv
  <1> DEFINE others == {command[q] : q \in Readers} \ {"none"}
  <1>1. /\ hooks' \subseteq {"request", "response"}
        /\ command' = [command EXCEPT ![r] = Decide(hooks')]
    BY DEF SetHook, NetworkTypeOK
  <1>2. Decide(hooks') \in {"enable", "disable"}
    BY DEF Decide
  <1>3. settled' \in {"new", "yes", "no"}
    BY DEF SetHook, NetworkTypeOK
  <1>4. NetworkTypeOK'
    BY <1>1, <1>2, <1>3 DEF SetHook, NetworkTypeOK
  <1>5. ASSUME settled' = "yes"
        PROVE  \A q \in Readers : command'[q] \in {"none", Decide(hooks')}
    <2>1. others \subseteq {Decide(hooks')}
      BY <1>1, <1>5 DEF SetHook, NetworkTypeOK
    <2>2. \A q \in Readers : command[q] \in {"none", Decide(hooks')}
      BY <2>1
    <2> QED
      BY <1>1, <2>2 DEF NetworkTypeOK
  <1>6. command'[r] # "none"
    BY <1>1, <1>2 DEF NetworkTypeOK
  <1> QED
    BY <1>4, <1>5, <1>6 DEF CommandsAgree

LEMMA GiveCommandKeeps ==
    ASSUME NetworkInv, NEW r \in Readers, GiveCommand(r) PROVE NetworkInv'
  <1> USE SetsAssumption DEF NetworkInv
  <1>1. enabled' \in BOOLEAN
    BY DEF GiveCommand, NetworkTypeOK
  <1>2. NetworkTypeOK'
    BY <1>1 DEF GiveCommand, NetworkTypeOK
  <1>3. ASSUME settled' = "yes"
        PROVE  /\ settled = "yes" /\ command[r] = Decide(hooks) /\ hooks' = hooks
               /\ enabled' = (command[r] = "enable")
    BY <1>3 DEF GiveCommand, CommandsAgree
  <1>4. ASSUME settled' = "yes" PROVE enabled' <=> hooks' # {}
    BY <1>3, <1>4 DEF Decide
  <1>5. ASSUME settled' = "yes"
        PROVE  \A q \in Readers : command'[q] \in {"none", Decide(hooks')}
    BY <1>3, <1>5 DEF GiveCommand, NetworkTypeOK, CommandsAgree
  <1> QED
    BY <1>2, <1>4, <1>5 DEF CommandsAgree

LEMMA NetworkUnchanged == NetworkInv /\ UNCHANGED networkOnly => NetworkInv'
  BY DEF NetworkInv, NetworkTypeOK, CommandsAgree, Decide, networkOnly

-----------------------------------------------------------------------------
(* Together.                                                                *)

IInv == BodyInv /\ NetworkInv

LEMMA InvNext == IInv /\ [Next]_vars => IInv'
  <1> SUFFICES ASSUME IInv, [Next]_vars PROVE IInv'
    OBVIOUS
  <1>1. ASSUME NEW r \in Readers, SetHook(r) PROVE IInv'
    BY <1>1, SetHookKeeps, BodyUnchanged DEF SetHook, IInv
  <1>2. ASSUME NEW r \in Readers, GiveCommand(r) PROVE IInv'
    BY <1>2, GiveCommandKeeps, BodyUnchanged DEF GiveCommand, IInv
  <1>3. ASSUME NEW r \in Readers, Read(r) \/ ReaderStep(r), UNCHANGED networkOnly PROVE IInv'
    BY <1>3, BodyKept, NetworkUnchanged DEF BodyActions, IInv
  <1>4. CASE BrowserStep
    BY <1>4, BodyKept, NetworkUnchanged DEF BrowserStep, BodyActions, IInv
  <1>5. CASE UNCHANGED vars
    BY <1>5, BodyUnchanged, NetworkUnchanged DEF vars, IInv
  <1> QED
    BY <1>1, <1>2, <1>3, <1>4, <1>5 DEF Next

LEMMA Invariance == Spec => []IInv
  <1>1. Init => IInv
    BY BodyInitial, NetworkInitial DEF Init, IInv
  <1> QED
    BY <1>1, InvNext, PTL DEF Spec

(* Every variable has its type: only the channels that were made are in     *)
(* l.waits, and nobody waits for a response before there is one.            *)
THEOREM NetworkTyped == Spec => []TypeOK
  <1>1. IInv => TypeOK
    BY DEF IInv, BodyInv, NetworkInv, TypeOK
  <1> QED
    BY <1>1, Invariance, PTL

(* A reader that is past its wait asks for a body that is loaded, whether   *)
(* it is the first or has displaced others (tab.go:21-48, 186-204).         *)
THEOREM NothingIsFetchedEarly == Spec => []LoadedBeforeFetch
  <1>1. IInv => LoadedBeforeFetch
    BY DEF IInv, BodyInv, ReadersOK
  <1> QED
    BY <1>1, Invariance, PTL

(* Of the readers that were there in time, only those that another has      *)
(* displaced sleep on when the body is loaded: the last is always served    *)
(* (tab.go:33-48).                                                          *)
THEOREM TheLastReaderIsServed == Spec => []ServedUnlessDisplaced
  <1>1. IInv => ServedUnlessDisplaced
    BY DEF IInv, BodyInv, ChannelsOK
  <1> QED
    BY <1>1, Invariance, PTL

(* The browser sends events exactly when there is a callback for them,      *)
(* however many goroutines turn callbacks on and off, as long as those that *)
(* do so at a time want the same and the browser obeys (tab.go:483-507).    *)
THEOREM EventsFitCallbacks == Spec => []EventsMatchHooks
  <1>1. IInv => EventsMatchHooks
    BY DEF IInv, NetworkInv, CommandsAgree, EventsMatchHooks
  <1> QED
    BY <1>1, Invariance, PTL

-----------------------------------------------------------------------------
(* The inductive invariant of fetch: two calls under way have the same jar  *)
(* only if the jar has been noticed to be shared, and a jar in use has been *)
(* made, so that no other call has the jar that fetch makes next.           *)

SharingOK ==
    \A u, v \in Fetchers :
        u # v /\ call[u].op # "idle" /\ call[v].op # "idle" /\ call[u].jar = call[v].jar
            => call[u].jar \in shared

JarsExist == \A u \in Fetchers : call[u].jar \in 0..njars

FetchInv == FetchTypeOK /\ JarsExist /\ SharingOK /\ CrashOnlyIfShared

LEMMA FetchInvInit == FetchInit => FetchInv
  <1> SUFFICES ASSUME FetchInit PROVE FetchInv
    OBVIOUS
  <1> USE JarsAssumption DEF FetchInit, NoCall
  <1>1. FetchTypeOK
    <2>1. runEnded \in BOOLEAN /\ crashed \in BOOLEAN
      OBVIOUS
    <2>2. /\ njars = 0 /\ shared = {}
          /\ call \in [Fetchers -> [op : {"idle", "request", "write", "return", "read"},
                                    jar : 0..MaxJars, limit : BOOLEAN]]
      OBVIOUS
    <2> HIDE DEF FetchInit
    <2> QED
      BY <2>1, <2>2 DEF FetchTypeOK
  <1>2. JarsExist /\ SharingOK
    BY DEF JarsExist, SharingOK
  <1>3. CrashOnlyIfShared
    BY DEF CrashOnlyIfShared
  <1> QED
    BY <1>1, <1>2, <1>3 DEF FetchInv

\* The steps of a call that keep its jar: they cannot begin to share it.
LEMMA JarKept ==
    ASSUME FetchInv, NEW u \in Fetchers, NEW op \in {"request", "write", "return"},
           call[u].op # "idle", call' = [call EXCEPT ![u].op = op],
           UNCHANGED notCall
    PROVE  JarsExist' /\ SharingOK' /\ (crashed' \in BOOLEAN => FetchTypeOK')
  <1> USE DEF FetchInv, notCall
  <1>1. /\ call'[u].op = op /\ call'[u].jar = call[u].jar
        /\ \A v \in Fetchers \ {u} : call'[v] = call[v]
    BY DEF FetchTypeOK
  <1>2. JarsExist' /\ SharingOK'
    BY <1>1 DEF JarsExist, SharingOK
  <1>3. crashed' \in BOOLEAN => FetchTypeOK'
    BY DEF FetchTypeOK
  <1> QED
    BY <1>2, <1>3

\* The steps after which a call has no jar.
LEMMA JarLeft ==
    ASSUME FetchInv, NEW u \in Fetchers, call' = [call EXCEPT ![u] = NoCall],
           UNCHANGED <<notCall, crashed>>
    PROVE  FetchInv'
  <1> USE DEF FetchInv, notCall
  <1>1. /\ call'[u].op = "idle" /\ call'[u].jar = 0
        /\ \A v \in Fetchers \ {u} : call'[v] = call[v]
    BY DEF FetchTypeOK, NoCall
  <1>2. JarsExist' /\ SharingOK'
    BY <1>1 DEF JarsExist, SharingOK, FetchTypeOK
  <1>3. FetchTypeOK'
    BY JarsAssumption DEF FetchTypeOK, NoCall
  <1>4. CrashOnlyIfShared'
    BY DEF CrashOnlyIfShared
  <1> QED
    BY <1>2, <1>3, <1>4

\* The steps with which a call begins to use the jar j.
LEMMA JarTaken ==
    ASSUME FetchInv, NEW u \in Fetchers, NEW j \in 1..njars, NEW limit \in BOOLEAN,
           NEW op \in {"request", "read"},
           call' = [call EXCEPT ![u] = [op |-> op, jar |-> j, limit |-> limit]],
           Share(u, j), UNCHANGED <<njars, runEnded>>
    PROVE  JarsExist' /\ SharingOK' /\ (crashed' \in BOOLEAN => FetchTypeOK')
  <1> USE DEF FetchInv
  <1>1. /\ call'[u].op = op /\ call'[u].jar = j
        /\ \A v \in Fetchers \ {u} : call'[v] = call[v]
    BY DEF FetchTypeOK
  <1>2. shared \subseteq shared' /\ (UsedBeside(u, j) => j \in shared')
    BY DEF Share
  <1>3. JarsExist'
    BY <1>1 DEF JarsExist
  <1>4. \A v \in Fetchers \ {u} : call[v].op # "idle" /\ call[v].jar = j => j \in shared'
    BY <1>2 DEF UsedBeside, Uses
  <1>5. SharingOK'
    BY <1>1, <1>2, <1>4 DEF SharingOK
  <1>6. j \in Jars
    BY JarsAssumption DEF FetchTypeOK, Jars
  <1>7. crashed' \in BOOLEAN => FetchTypeOK'
    BY <1>6 DEF FetchTypeOK, Share, Jars
  <1> QED
    BY <1>3, <1>5, <1>7

LEMMA FetchInvNext == FetchInv /\ [FetchNext]_fetchVars => FetchInv'
  <1> SUFFICES ASSUME FetchInv, [FetchNext]_fetchVars PROVE FetchInv'
    OBVIOUS
  <1>1. ASSUME NEW u \in Fetchers, NEW limit \in BOOLEAN, Prepare(u, limit) PROVE FetchInv'
    <2>1. crashed' = crashed /\ runEnded' = runEnded /\ crashed \in BOOLEAN
      BY <1>1 DEF Prepare, FetchInv, FetchTypeOK
    <2>2. CASE /\ njars < MaxJars /\ njars' = njars + 1
               /\ call' = [call EXCEPT ![u] = [op |-> "request", jar |-> njars + 1,
                                               limit |-> limit]]
               /\ UNCHANGED shared
      <3>1. njars + 1 \in 1..MaxJars /\ njars' \in 0..MaxJars
        BY <2>2, JarsAssumption DEF FetchInv, FetchTypeOK
      <3>2. /\ call'[u].jar = njars + 1
            /\ \A v \in Fetchers \ {u} : call'[v] = call[v]
        BY <2>2 DEF FetchInv, FetchTypeOK
      <3>3. FetchTypeOK'
        BY <2>1, <2>2, <3>1 DEF FetchInv, FetchTypeOK
      <3>4. \A v \in Fetchers \ {u} : call[v].jar \in 0..njars /\ call[v].jar # njars + 1
        BY DEF FetchInv, FetchTypeOK, JarsExist
      <3>5. JarsExist'
        BY <2>2, <3>1, <3>2, <3>4 DEF JarsExist, FetchInv, FetchTypeOK
      <3>6. SharingOK'
        BY <2>2, <3>2, <3>4 DEF FetchInv, SharingOK
      <3> QED
        BY <2>1, <2>2, <3>3, <3>5, <3>6 DEF FetchInv, CrashOnlyIfShared
    <2>3. CASE \E j \in 1..njars :
                 /\ ~ Uses(u, j)
                 /\ call' = [call EXCEPT ![u] = [op |-> "request", jar |-> j,
                                                 limit |-> limit]]
                 /\ Share(u, j)
                 /\ UNCHANGED njars
      <3>1. PICK j \in 1..njars :
                 /\ call' = [call EXCEPT ![u] = [op |-> "request", jar |-> j,
                                                 limit |-> limit]]
                 /\ Share(u, j)
                 /\ UNCHANGED njars
        BY <2>3
      <3>2. FetchTypeOK' /\ JarsExist' /\ SharingOK'
        BY <2>1, <3>1, JarTaken
      <3>3. shared \subseteq shared'
        BY <3>1 DEF Share
      <3> QED
        BY <2>1, <3>2, <3>3 DEF FetchInv, CrashOnlyIfShared
    <2> QED
      BY <1>1, <2>2, <2>3 DEF Prepare
  <1>2. ASSUME NEW u \in Fetchers, StartWrite(u) PROVE FetchInv'
    <2>1. FetchTypeOK' /\ JarsExist' /\ SharingOK'
      BY <1>2, JarKept DEF StartWrite
    <2>2. Busy(u) => shared # {}
      BY <1>2 DEF StartWrite, Busy, JarOf, FetchInv, SharingOK
    <2>3. CrashOnlyIfShared'
      BY <1>2, <2>2 DEF StartWrite, notCall, CrashOnlyIfShared
    <2> QED
      BY <2>1, <2>3 DEF FetchInv
  <1>3. ASSUME NEW u \in Fetchers, EndWrite(u) \/ Respond(u) PROVE FetchInv'
    <2>1. crashed' = crashed /\ crashed \in BOOLEAN /\ shared' = shared
      BY <1>3 DEF EndWrite, Respond, notCall, FetchInv, FetchTypeOK
    <2>2. FetchTypeOK' /\ JarsExist' /\ SharingOK'
      BY <1>3, <2>1, JarKept DEF EndWrite, Respond
    <2> QED
      BY <2>1, <2>2 DEF FetchInv, CrashOnlyIfShared
  <1>4. ASSUME NEW u \in Fetchers, Return(u) \/ EndAll(u) PROVE FetchInv'
    BY <1>4, JarLeft DEF Return, EndAll
  <1>5. ASSUME NEW u \in Fetchers, StartAll(u) PROVE FetchInv'
    <2>1. PICK j \in 1..njars :
             /\ call' = [call EXCEPT ![u] = [op |-> "read", jar |-> j, limit |-> FALSE]]
             /\ Share(u, j)
             /\ crashed' \in IF \E v \in Fetchers \ {u} : Uses(v, j) /\ call[v].op = "write"
                               THEN BOOLEAN ELSE {FALSE}
      BY <1>5 DEF StartAll
    <2>2. crashed' \in BOOLEAN /\ UNCHANGED <<njars, runEnded>>
      BY <1>5, <2>1 DEF StartAll
    <2>3. FetchTypeOK' /\ JarsExist' /\ SharingOK'
      BY <2>1, <2>2, JarTaken
    <2>4. crashed' => j \in shared'
      BY <2>1 DEF Share, UsedBeside
    <2> QED
      BY <2>3, <2>4 DEF FetchInv, CrashOnlyIfShared
  <1>6. CASE EndOfRun
    BY <1>6 DEF EndOfRun, FetchInv, FetchTypeOK, JarsExist, SharingOK, CrashOnlyIfShared
  <1>7. CASE UNCHANGED fetchVars
    BY <1>7 DEF fetchVars, FetchInv, FetchTypeOK, JarsExist, SharingOK, CrashOnlyIfShared
  <1> QED
    BY <1>1, <1>2, <1>3, <1>4, <1>5, <1>6, <1>7 DEF FetchNext, FetchStep

LEMMA FetchInvariance == FetchSpec => []FetchInv
  BY FetchInvInit, FetchInvNext, PTL DEF FetchSpec

(* Every variable has its type: a call under way has a jar that was made.   *)
THEOREM FetchTyped == FetchSpec => []FetchTypeOK
  <1>1. FetchInv => FetchTypeOK
    BY DEF FetchInv
  <1> QED
    BY <1>1, FetchInvariance, PTL

(* As long as each call of fetch and jar:all() has a jar of its own, no two *)
(* goroutines use the map of a jar at a time, however many there are        *)
(* (fetch.go:106-109, 166, 242-256).                                        *)
THEOREM OnlySharedJarsCrash == FetchSpec => []CrashOnlyIfShared
  <1>1. FetchInv => CrashOnlyIfShared
    BY DEF FetchInv
  <1> QED
    BY <1>1, FetchInvariance, PTL

-----------------------------------------------------------------------------
(* The two together, as they are checked.                                   *)

(* Every variable has its type whichever of the two a behaviour is about    *)
(* (tab.go:21-48, 483-507; fetch.go:106-109, 223-290).                      *)
THEOREM AllTyped == MCSpec => []MCTypeOK
  <1>1. MCInit => IInv /\ FetchInv
    BY BodyInitial, NetworkInitial, FetchInvInit DEF MCInit, Init, IInv
  <1>2. IInv /\ FetchInv /\ [MCNext]_<<part, vars, fetchVars>> => IInv' /\ FetchInv'
    BY InvNext, FetchInvNext DEF MCNext
  <1>3. IInv /\ FetchInv => MCTypeOK
    BY DEF IInv, BodyInv, NetworkInv, FetchInv, TypeOK, MCTypeOK
  <1> QED
    BY <1>1, <1>2, <1>3, PTL DEF MCSpec
=============================================================================
