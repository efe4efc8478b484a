--------------------------- MODULE RecorderProofs ---------------------------
(***************************************************************************)
(* Recorder for any number of tabs, any capacity of a recorder's channel,  *)
(* any budget of calls and any names: the type invariant, that no          *)
(* screenshot is lost, that the frames being written are final, that every *)
(* tab that is closed is saved, once, that a recording is a file of the    *)
(* run if and only if it has a frame, and that the list of artifacts is    *)
(* true.                                                                   *)
(*                                                                         *)
(* The inductive invariant has six parts. TypeInv tells what a goroutine   *)
(* may be doing. ChannelInv: the screenshots in a channel are the last     *)
(* ones that were sent, in order, and those before them are the frames; a  *)
(* saver goes on only when the recorder is done. FileInv: the storage is   *)
(* in order (StorageProofs) and nobody but the savers of a tab uses the    *)
(* name of its recording. FileCalls: a call to the storage is made by a    *)
(* goroutine that does nothing else. ClosingInv: a tab is in the list or   *)
(* canceled, and a canceled one is saved or about to be, by one goroutine  *)
(* at a time unless it is `raced'. KeptInv: how far the first saver of a   *)
(* tab is, and what its recording is like by then.                         *)
(***************************************************************************)
EXTENDS Recorder, StorageProofs

-----------------------------------------------------------------------------
(* The types.                                                              *)

\* The goroutines that call, and main.
Goroutines == Callers \cup {Main}

\* What a goroutine may be doing: recording tabs, closing one, or nothing.
Recording == {"capture", "send", "sent"}
Closing == {"wait", "cancel", "save"}
Resting == {"idle", "sleep", "stopped"}

\* The tabs of a goroutine are those it has yet to record or close. Only main
\* closes several in one go, and only the script makes a tab.
GoodPc(u, r) ==
  /\ r \in [op : Recording \cup Closing \cup Resting, todo : Seq(Tabs),
            then : {"idle", "register", "close", "sleep"}]
  /\ r.op \in Resting => r.todo = <<>> /\ r.then = "idle"
  /\ r.op \notin Resting => r.todo # <<>>
  /\ r.op \in Closing => r.then = "idle" /\ (u # Main => Len(r.todo) = 1)
  /\ r.then \in {"register", "close"} => Len(r.todo) = 1
  /\ r.then = "register" => u = Script
  /\ u = Main => r.op \in Closing \cup {"idle"}

\* Every goroutine is at such a point.
PcOK == pc = [u \in Goroutines |-> pc[u]] /\ \A u \in Goroutines : GoodPc(u, pc[u])

\* The types of the tabs, the savers and the phase.
RestOK ==
  /\ ended \in BOOLEAN /\ opened \in 0..NTabs /\ tabs \in Seq(Tabs)
  /\ canceled \subseteq Tabs /\ raced \subseteq Tabs
  /\ saver \in [Savers -> {"none", "wait", "open", "save", "remove", "done"}]
  /\ phase \in {"run", "sweep", "wait", "exit"}

\* The types of the channels and of what goes through them.
ChannelsOK ==
  /\ chclosed \subseteq Tabs /\ done \subseteq Tabs
  /\ ch \in [Tabs -> Seq(Nat)] /\ \A t \in Tabs : Len(ch[t]) <= Capacity
  /\ images \in [Tabs -> Seq(Nat)] /\ sent \in [Tabs -> Nat]
  /\ broken \in [Tabs -> SUBSET Nat]

\* The types, and what a goroutine may be doing.
TypeInv == PcOK /\ RestOK /\ ChannelsOK

\* The type invariant of Recorder follows.
LEMMA TypeFollows ==
  ASSUME TypeInv, StorageTypeOK
  PROVE  TypeOK
<1>1. pc \in [Goroutines -> [op : Recording \cup Closing \cup Resting, todo : Seq(Tabs),
                             then : {"idle", "register", "close", "sleep"}]]
  BY DEF TypeInv, PcOK, GoodPc
<1> QED BY <1>1 DEF TypeInv, RestOK, ChannelsOK, TypeOK, Goroutines, Recording, Closing, Resting

\* The types, at the start.
LEMMA InitTypes ==
  ASSUME Init
  PROVE  TypeInv
<1> USE DEF Init
<1>1. GoodPc(Script, Idle) /\ GoodPc(Callback, Idle) /\ GoodPc(Main, Idle)
  BY DEF GoodPc, Idle, Recording, Closing, Resting
<1>2. PcOK
  BY <1>1 DEF PcOK, Goroutines, Callers
<1>3. RestOK
  <2>1. 0 \in 0..NTabs /\ tabs \in Seq(Tabs)
    BY RecorderAssumption
  <2>2. saver \in [Savers -> {"none", "wait", "open", "save", "remove", "done"}]
    OBVIOUS
  <2> QED BY <2>1, <2>2 DEF RestOK
<1>4. ChannelsOK
  BY RecorderAssumption DEF ChannelsOK
<1> QED BY <1>2, <1>3, <1>4 DEF TypeInv

\* A goroutine goes to a point where it may be.
LEMMA OneMove ==
  ASSUME PcOK, NEW u \in Goroutines, NEW r, GoodPc(u, r), pc' = [pc EXCEPT ![u] = r]
  PROVE  PcOK'
<1>1. \A v \in Goroutines : pc'[v] = IF v = u THEN r ELSE pc[v]
  BY DEF PcOK
<1>2. DOMAIN pc' = Goroutines
  BY DEF PcOK
<1>3. pc' = [v \in Goroutines |-> pc'[v]]
  BY <1>2 DEF PcOK
<1> QED BY <1>1, <1>3 DEF PcOK

\* A goroutine goes on with the same tabs.
LEMMA OpMove ==
  ASSUME PcOK, NEW u \in Goroutines, NEW o, pc' = [pc EXCEPT ![u].op = o],
         \/ pc[u].op \in Recording /\ o \in Recording
         \/ pc[u].op \in Closing /\ o \in Closing
  PROVE  PcOK'
<1> DEFINE r == [pc[u] EXCEPT !.op = o]
<1>1. pc' = [pc EXCEPT ![u] = r]
  OBVIOUS
<1>2. GoodPc(u, pc[u])
  BY DEF PcOK
<1>3. /\ r \in [op : Recording \cup Closing \cup Resting, todo : Seq(Tabs),
               then : {"idle", "register", "close", "sleep"}]
      /\ r.op = o /\ r.todo = pc[u].todo /\ r.then = pc[u].then
  BY <1>2 DEF GoodPc
<1> HIDE DEF r
<1>4. GoodPc(u, r)
  BY <1>2, <1>3 DEF GoodPc, Recording, Closing, Resting
<1> QED BY <1>1, <1>4, OneMove

\* A call raises an error.
LEMMA RaiseMove ==
  ASSUME PcOK, NEW u \in Callers, Raise(u)
  PROVE  PcOK'
<1>1. PICK o \in {"idle", "stopped"} :
        pc' = [pc EXCEPT ![u] = [op |-> o, todo |-> <<>>, then |-> "idle"]]
  BY DEF Raise, Goto
<1>2. GoodPc(u, [op |-> o, todo |-> <<>>, then |-> "idle"])
  BY RecorderAssumption DEF GoodPc, Recording, Closing, Resting
<1> QED BY <1>1, <1>2, OneMove DEF Goroutines

\* A call goes on to its next tab, or ends.
LEMMA AdvanceMove ==
  ASSUME PcOK, tabs \in Seq(Tabs), NEW u \in Callers, NEW t \in Tabs, NEW todo \in Seq(Tabs),
         NEW then \in {"idle", "register", "close", "sleep"}, Advance(u, t, todo, then),
         then \in {"register", "close"} => todo = <<>>
  PROVE  PcOK' /\ tabs' \in Seq(Tabs)
<1>1. u \in Goroutines /\ u # Main
  BY RecorderAssumption DEF Goroutines
<1>2. tabs' \in Seq(Tabs)
  BY DEF Advance
<1>3. CASE todo # <<>>
  <2>1. GoodPc(u, [op |-> "capture", todo |-> todo, then |-> then])
    BY <1>1, <1>3 DEF GoodPc, Recording, Closing, Resting
  <2>2. pc' = [pc EXCEPT ![u] = [op |-> "capture", todo |-> todo, then |-> then]]
    BY <1>3 DEF Advance, Goto
  <2> QED BY <1>1, <1>2, <2>1, <2>2, OneMove
<1>4. CASE todo = <<>> /\ then = "close"
  <2>1. GoodPc(u, [op |-> "wait", todo |-> <<t>>, then |-> "idle"])
    BY <1>1 DEF GoodPc, Recording, Closing, Resting
  <2>2. pc' = [pc EXCEPT ![u] = [op |-> "wait", todo |-> <<t>>, then |-> "idle"]]
    BY <1>4 DEF Advance, Goto
  <2> QED BY <1>1, <1>2, <2>1, <2>2, OneMove
<1>5. CASE todo = <<>> /\ then = "sleep"
  <2>1. GoodPc(u, [op |-> "sleep", todo |-> <<>>, then |-> "idle"])
    BY <1>1 DEF GoodPc, Recording, Closing, Resting
  <2>2. pc' = [pc EXCEPT ![u] = [op |-> "sleep", todo |-> <<>>, then |-> "idle"]]
    BY <1>5 DEF Advance, Goto
  <2> QED BY <1>1, <1>2, <2>1, <2>2, OneMove
<1>6. CASE todo = <<>> /\ then \notin {"close", "sleep"}
  <2>1. GoodPc(u, Idle)
    BY <1>1 DEF GoodPc, Recording, Closing, Resting, Idle
  <2>2. pc' = [pc EXCEPT ![u] = Idle]
    BY <1>6 DEF Advance, Goto
  <2> QED BY <1>1, <1>2, <2>1, <2>2, OneMove
<1> QED BY <1>3, <1>4, <1>5, <1>6

\* Environment.unregisterTab takes the tab from the list, and no other.
LEMMA Unregistered ==
  ASSUME tabs \in Seq(Tabs), NEW t, Once(tabs, t)
  PROVE  /\ Without(t) \in Seq(Tabs) /\ ~Contains(Without(t), t)
         /\ \A q : q # t => (Contains(Without(t), q) <=> Contains(tabs, q))
         /\ \A q : Once(tabs, q) => Once(Without(t), q)
<1>1. CASE Contains(tabs, t)
  <2> DEFINE i == CHOOSE j \in DOMAIN tabs : tabs[j] = t
  <2>1. i \in 1..Len(tabs) /\ tabs[i] = t
    BY <1>1 DEF Contains
  <2>2. Without(t) = RemoveAt(tabs, i)
    BY <1>1 DEF Without
  <2> HIDE DEF i
  <2> QED BY <2>1, <2>2, Removed
<1>2. CASE ~Contains(tabs, t)
  BY <1>2 DEF Without
<1> QED BY <1>1, <1>2

\* What is left of the list is a list.
LEMMA WithoutType ==
  ASSUME tabs \in Seq(Tabs), NEW t
  PROVE  Without(t) \in Seq(Tabs)
<1>1. CASE Contains(tabs, t)
  <2> DEFINE i == CHOOSE j \in DOMAIN tabs : tabs[j] = t
  <2>1. i \in 1..Len(tabs) /\ tabs[i] = t
    BY <1>1 DEF Contains
  <2>2. Without(t) = RemoveAt(tabs, i)
    BY <1>1 DEF Without
  <2> HIDE DEF i
  <2> QED BY <2>1, <2>2, Removed
<1>2. CASE ~Contains(tabs, t)
  BY <1>2 DEF Without
<1> QED BY <1>1, <1>2

\* A goroutine that records or closes has a tab to do so with.
LEMMA Heads ==
  ASSUME PcOK, NEW u \in Goroutines
  PROVE  /\ GoodPc(u, pc[u])
         /\ pc[u].op \notin Resting => /\ Head(pc[u].todo) \in Tabs
                                       /\ Tail(pc[u].todo) \in Seq(Tabs)
                                       /\ Len(Tail(pc[u].todo)) = Len(pc[u].todo) - 1
<1>1. GoodPc(u, pc[u])
  BY DEF PcOK
<1>2. ASSUME pc[u].op \notin Resting
      PROVE  pc[u].todo \in Seq(Tabs) /\ pc[u].todo # <<>>
  BY <1>1, <1>2 DEF GoodPc
<1> QED BY <1>1, <1>2, HeadTailProperties

\* The types, when a call sends a screenshot.
LEMMA SendTypes ==
  ASSUME TypeInv, NEW u \in Callers, Send(u)
  PROVE  TypeInv'
<1> DEFINE t == Head(pc[u].todo)
<1>1. u \in Goroutines /\ pc[u].op = "send" /\ pc[u].op \in Recording /\ t \in Tabs
  BY Heads DEF Goroutines, TypeInv, Send, Recording, Resting
<1>2. RestOK'
  BY DEF Send, TypeInv, RestOK
<1>3. CASE t \notin chclosed /\ Room(t) /\ pc' = [pc EXCEPT ![u].op = "sent"]
           /\ ch' = [ch EXCEPT ![t] = Append(@, sent[t] + 1)]
           /\ sent' = [sent EXCEPT ![t] = @ + 1]
           /\ (broken' = broken \/ broken' = [broken EXCEPT ![t] = @ \cup {sent[t] + 1}])
  <2>1. PcOK'
    BY <1>1, <1>3, OpMove DEF TypeInv, Recording
  <2>2. /\ sent[t] \in Nat /\ ch[t] \in Seq(Nat) /\ Len(ch[t]) < Capacity
    BY <1>1, <1>3 DEF TypeInv, ChannelsOK, Room
  <2> HIDE DEF t
  <2>3. Append(ch[t], sent[t] + 1) \in Seq(Nat) /\ Len(Append(ch[t], sent[t] + 1)) <= Capacity
    BY <2>2, AppendProperties, RecorderAssumption
  <2>4. ch' \in [Tabs -> Seq(Nat)] /\ \A x \in Tabs : Len(ch'[x]) <= Capacity
    BY <1>1, <1>3, <2>3 DEF TypeInv, ChannelsOK
  <2>5. sent' \in [Tabs -> Nat]
    BY <1>1, <1>3, <2>2 DEF TypeInv, ChannelsOK
  <2>6. broken' \in [Tabs -> SUBSET Nat]
    <3>1. broken[t] \cup {sent[t] + 1} \subseteq Nat
      BY <1>1, <2>2 DEF TypeInv, ChannelsOK
    <3> QED BY <1>1, <1>3, <3>1 DEF TypeInv, ChannelsOK
  <2> QED BY <1>2, <2>1, <2>4, <2>5, <2>6 DEF Send, TypeInv, ChannelsOK
<1>4. CASE Raise(u) /\ UNCHANGED <<ch, sent, broken, budget>>
  BY <1>2, <1>4, RaiseMove DEF Send, TypeInv, ChannelsOK
<1> QED BY <1>1, <1>3, <1>4 DEF Send

\* The types, when the recorder takes one.
LEMMA TakeTypes ==
  ASSUME TypeInv, NEW t \in Tabs, TakeTask(t)
  PROVE  TypeInv'
<1>1. /\ Head(ch[t]) \in Nat /\ Tail(ch[t]) \in Seq(Nat) /\ Len(Tail(ch[t])) = Len(ch[t]) - 1
      /\ Len(ch[t]) <= Capacity /\ Len(ch[t]) \in Nat
  BY HeadTailProperties DEF TypeInv, ChannelsOK, TakeTask, Takes
<1>2. Frame(t, Head(ch[t])) \in Seq(Nat)
  BY <1>1, AppendProperties DEF TypeInv, ChannelsOK, Frame
<1>3. Len(Tail(ch[t])) <= Capacity
  BY <1>1, RecorderAssumption
<1>4. ch' \in [Tabs -> Seq(Nat)] /\ \A x \in Tabs : Len(ch'[x]) <= Capacity
  BY <1>1, <1>3 DEF TypeInv, ChannelsOK, TakeTask
<1>5. images' \in [Tabs -> Seq(Nat)]
  BY <1>2 DEF TypeInv, ChannelsOK, TakeTask
<1> QED BY <1>4, <1>5 DEF TypeInv, ChannelsOK, TakeTask, recorderOnly, RestOK, PcOK

\* The types, in the other steps of a call.
LEMMA CallerTypes ==
  ASSUME TypeInv, NEW u \in Callers,
         Sleep(u) \/ FileCall(u) \/ Wake(u) \/ Capture(u) \/ Resume(u) \/ FileDone(u)
  PROVE  TypeInv'
<1>1. u \in Goroutines /\ 1 \in Tabs
  BY RecorderAssumption DEF Goroutines, Tabs
<1>2. ChannelsOK' /\ UNCHANGED <<ended, opened, canceled, raced, saver, phase>>
  BY DEF Sleep, FileCall, Wake, Capture, Resume, FileDone, quiet, TypeInv, ChannelsOK
<1>3. PcOK' /\ tabs' \in Seq(Tabs)
  <2>1. CASE Sleep(u)
    BY <1>1, <2>1, AdvanceMove DEF Sleep, TypeInv, RestOK, Home
  <2>2. CASE FileCall(u)
    BY <2>2 DEF FileCall, TypeInv, RestOK, PcOK
  <2>3. CASE Wake(u)
    <3>1. CASE Advance(u, Home, tabs, "idle")
      BY <1>1, <3>1, AdvanceMove DEF TypeInv, RestOK, Home
    <3>2. CASE Raise(u) /\ UNCHANGED tabs
      BY <3>2, RaiseMove DEF TypeInv, RestOK
    <3> QED BY <2>3, <3>1, <3>2 DEF Wake
  <2>4. CASE Capture(u)
    <3>1. pc[u].op \in Recording /\ tabs' = tabs
      BY <2>4 DEF Capture, Recording
    <3>2. CASE pc' = [pc EXCEPT ![u].op = "send"]
      BY <1>1, <3>1, <3>2, OpMove DEF TypeInv, RestOK, Recording
    <3>3. CASE Raise(u)
      BY <3>1, <3>3, RaiseMove DEF TypeInv, RestOK
    <3> QED BY <2>4, <3>2, <3>3 DEF Capture
  <2>5. CASE Resume(u)
    <3>1. pc[u].op \in Recording /\ pc[u].op \notin Resting
      BY <2>5 DEF Resume, Recording, Resting
    <3>2. /\ Head(pc[u].todo) \in Tabs /\ Tail(pc[u].todo) \in Seq(Tabs)
          /\ Len(Tail(pc[u].todo)) = Len(pc[u].todo) - 1 /\ GoodPc(u, pc[u])
      BY <1>1, <3>1, Heads DEF TypeInv
    <3>3. pc[u].then \in {"register", "close"} => Tail(pc[u].todo) = <<>>
      <4>1. ASSUME pc[u].then \in {"register", "close"} PROVE Len(Tail(pc[u].todo)) = 0
        BY <3>2, <4>1 DEF GoodPc
      <4> QED BY <3>2, <4>1, EmptySeq
    <3>4. pc[u].then \in {"idle", "register", "close", "sleep"}
      BY <3>2 DEF GoodPc
    <3> QED BY <2>5, <3>2, <3>3, <3>4, AdvanceMove DEF Resume, TypeInv, RestOK
  <2>6. CASE FileDone(u)
    <3>1. CASE UNCHANGED pc
      BY <2>6, <3>1 DEF FileDone, TypeInv, RestOK, PcOK
    <3>2. CASE Raise(u)
      BY <2>6, <3>2, RaiseMove DEF FileDone, TypeInv, RestOK
    <3> QED BY <2>6, <3>1, <3>2 DEF FileDone
  <2> QED BY <2>1, <2>2, <2>3, <2>4, <2>5, <2>6
<1> QED BY <1>2, <1>3 DEF TypeInv, RestOK

\* The types, when a tab is closed.
LEMMA CloserTypes ==
  ASSUME TypeInv, NEW u \in Goroutines, CloseStep(u)
  PROVE  TypeInv'
<1>1. /\ pc[u].op \in Closing /\ pc[u].op \notin Resting
      /\ ChannelsOK' /\ UNCHANGED <<ended, opened, raced, phase>>
  BY DEF CloseStep, WaitGroup, Cancel, SaveRecord, closeOnly, TypeInv, ChannelsOK,
     Closing,
         Resting
<1>2. /\ Head(pc[u].todo) \in Tabs /\ Tail(pc[u].todo) \in Seq(Tabs) /\ GoodPc(u, pc[u])
      /\ Len(Tail(pc[u].todo)) = Len(pc[u].todo) - 1
  BY <1>1, Heads DEF TypeInv
<1>3. CASE WaitGroup(u)
  <2>1. PcOK'
    BY <1>1, <1>3, OpMove DEF WaitGroup, TypeInv, Closing
  <2> QED BY <1>1, <1>3, <2>1 DEF WaitGroup, TypeInv, RestOK
<1>4. CASE Cancel(u)
  <2>1. PcOK'
    BY <1>1, <1>4, OpMove DEF Cancel, TypeInv, Closing
  <2>2. tabs' \in Seq(Tabs) /\ canceled' \subseteq Tabs
    BY <1>2, <1>4, WithoutType DEF Cancel, TypeInv, RestOK
  <2> QED BY <1>1, <1>4, <2>1, <2>2 DEF Cancel, TypeInv, RestOK
<1>5. CASE SaveRecord(u)
  <2>1. saver' \in [Savers -> {"none", "wait", "open", "save", "remove", "done"}]
    BY <1>5 DEF SaveRecord, TypeInv, RestOK
  <2>2. PcOK'
    <3>1. CASE Len(pc[u].todo) > 1
      <4>1. GoodPc(u, [op |-> "wait", todo |-> Tail(pc[u].todo), then |-> "idle"])
        <5>1. u = Main /\ Tail(pc[u].todo) # <<>>
          <6>1. pc[u].todo \in Seq(Tabs)
            BY <1>2 DEF GoodPc
          <6>2. Len(pc[u].todo) # 1 /\ Len(Tail(pc[u].todo)) # 0
            <7>1. Len(pc[u].todo) \in Nat
              BY <6>1, LenProperties
            <7>2. \A n \in Nat : n > 1 => n # 1 /\ n - 1 # 0
              OBVIOUS
            <7> QED BY <1>2, <3>1, <7>1, <7>2
          <6>3. u = Main
            BY <1>1, <1>2, <6>2 DEF GoodPc
          <6> QED BY <6>2, <6>3
        <5> QED BY <1>2, <5>1, RecorderAssumption DEF GoodPc, Recording, Closing, Resting
      <4> QED BY <1>5, <3>1, <4>1, OneMove DEF SaveRecord, Goto, TypeInv
    <3>2. CASE ~(Len(pc[u].todo) > 1)
      <4>1. GoodPc(u, Idle)
        BY DEF GoodPc, Idle, Recording, Closing, Resting
      <4> QED BY <1>5, <3>2, <4>1, OneMove DEF SaveRecord, TypeInv
    <3> QED BY <3>1, <3>2
  <2> QED BY <1>1, <1>5, <2>1, <2>2 DEF SaveRecord, TypeInv, RestOK
<1> QED BY <1>3, <1>4, <1>5 DEF CloseStep

\* The types, when a recording is saved.
LEMMA SaverTypes ==
  ASSUME TypeInv, NEW s \in Savers, SaverStep(s)
  PROVE  TypeInv'
<1>1. /\ PcOK' /\ ChannelsOK' /\ UNCHANGED <<ended, opened, tabs, canceled, raced, phase>>
  BY DEF SaverStep, OpenRecord, StartSave, EndSave, RemoveRecord, notSaver, TypeInv, PcOK,
         ChannelsOK
<1>2. \E v \in {"open", "save", "remove", "done"} : saver' = [saver EXCEPT ![s] = v]
  BY DEF SaverStep, OpenRecord, StartSave, EndSave, RemoveRecord
<1>3. saver' \in [Savers -> {"none", "wait", "open", "save", "remove", "done"}]
  BY <1>2 DEF TypeInv, RestOK
<1> QED BY <1>1, <1>3 DEF TypeInv, RestOK

\* Every step keeps the types.
LEMMA TypeNext ==
  ASSUME TypeInv, [Next]_vars
  PROVE  TypeInv'
<1>1. CASE NewTab
  <2>1. /\ opened + 1 \in Tabs /\ opened' \in 0..NTabs
    BY <1>1, RecorderAssumption DEF NewTab, TypeInv, RestOK, Tabs
  <2>2. CASE tabs' = Append(tabs, opened + 1) /\ UNCHANGED <<pc, budget>>
    BY <1>1, <2>1, <2>2 DEF NewTab, quiet, TypeInv, RestOK, ChannelsOK, PcOK
  <2>3. CASE Goto(Script, "capture", <<opened + 1>>, "register") /\ UNCHANGED tabs
    <3>1. Script \in Goroutines /\ Script # Main
      BY RecorderAssumption DEF Goroutines, Callers
    <3>2. GoodPc(Script, [op |-> "capture", todo |-> <<opened + 1>>, then |-> "register"])
      BY <2>1, <3>1 DEF GoodPc, Recording, Closing, Resting
    <3>3. PcOK'
      BY <2>3, <3>1, <3>2, OneMove DEF Goto, TypeInv
    <3> QED BY <1>1, <2>1, <2>3, <3>3 DEF NewTab, quiet, TypeInv, RestOK, ChannelsOK
  <2> QED BY <1>1, <2>2, <2>3 DEF NewTab
<1>2. CASE EndRun \/ StopRun \/ Exit
  BY <1>2 DEF EndRun, StopRun, Exit, mainOnly, TypeInv, RestOK, ChannelsOK, PcOK
<1>3. CASE ScriptEnds
  <2>1. Main \in Goroutines
    BY DEF Goroutines
  <2>2. PcOK'
    <3>1. CASE tabs = <<>>
      BY <1>3, <3>1 DEF ScriptEnds, TypeInv, PcOK
    <3>2. CASE tabs # <<>>
      <4>1. GoodPc(Main, [op |-> "wait", todo |-> tabs, then |-> "idle"])
        BY <3>2 DEF TypeInv, RestOK, GoodPc, Recording, Closing, Resting
      <4> QED BY <1>3, <2>1, <3>2, <4>1, OneMove DEF ScriptEnds, TypeInv
    <3> QED BY <3>1, <3>2
  <2>3. raced' \subseteq Tabs
    BY <1>3 DEF ScriptEnds, TypeInv, RestOK, ToSet
  <2>4. ended' \in BOOLEAN
    BY <1>3 DEF ScriptEnds, TypeInv, RestOK
  <2> QED BY <1>3, <2>2, <2>3, <2>4 DEF ScriptEnds, mainOnly, TypeInv, RestOK, ChannelsOK
<1>4. ASSUME NEW u \in Callers, CallStep(u) \/ Sleep(u) \/ FileCall(u)
      PROVE  TypeInv'
  BY <1>4, SendTypes, CallerTypes DEF CallStep
<1>5. ASSUME NEW u \in Callers, NEW t \in Tabs, NEW then \in {"idle", "close"}, Call(u, t, then)
      PROVE  TypeInv'
  <2>1. u \in Goroutines /\ u # Main
    BY RecorderAssumption DEF Goroutines
  <2>2. GoodPc(u, [op |-> "capture", todo |-> <<t>>, then |-> then])
    BY <2>1 DEF GoodPc, Recording, Closing, Resting
  <2>3. PcOK'
    BY <1>5, <2>1, <2>2, OneMove DEF Call, Goto, TypeInv
  <2>4. raced' \subseteq Tabs
    BY <1>5 DEF Call, TypeInv, RestOK
  <2> QED BY <1>5, <2>3, <2>4 DEF Call, quiet, TypeInv, RestOK, ChannelsOK
<1>6. ASSUME NEW u \in Goroutines, CloseStep(u) PROVE TypeInv'
  BY <1>6, CloserTypes
<1>7. ASSUME NEW t \in Tabs, RecorderStep(t) PROVE TypeInv'
  <2>1. CASE TakeTask(t)
    BY <2>1, TakeTypes
  <2>2. CASE CloseChannel(t) \/ FinishRecord(t)
    BY <2>2 DEF CloseChannel, FinishRecord, recorderOnly, TypeInv, RestOK, ChannelsOK,
       PcOK
  <2> QED BY <1>7, <2>1, <2>2 DEF RecorderStep
<1>8. ASSUME NEW s \in Savers, SaverStep(s) PROVE TypeInv'
  BY <1>8, SaverTypes
<1>9. ASSUME NEW g \in Guids, Download(g) PROVE TypeInv'
  BY <1>9 DEF Download, quiet, TypeInv, RestOK, ChannelsOK, PcOK
<1>10. CASE UNCHANGED vars
  BY <1>10 DEF vars, recorderVars, TypeInv, RestOK, ChannelsOK, PcOK
<1> QED BY <1>1, <1>2, <1>3, <1>4, <1>5, <1>6, <1>7, <1>8, <1>9, <1>10
        DEF Next, MainStep, Goroutines

-----------------------------------------------------------------------------
(* The channels.                                                           *)

\* The number of the last screenshot that the recorder has taken.
Read(t) == sent[t] - Len(ch[t])

\* The channel has the screenshots after it, in order, and the images are
\* those before, without the ones that cannot be decoded.
ChannelOK(t) ==
  /\ Read(t) >= 0
  /\ \A i \in 1..Len(ch[t]) : ch[t][i] = Read(t) + i
  /\ ToSet(images[t]) = (1..Read(t)) \ broken[t]
  /\ \A i, j \in DOMAIN images[t] : i < j => images[t][i] < images[t][j]
  /\ t \in done => t \in chclosed /\ ch[t] = <<>>

\* A saver goes on when the recorder is done, not before.
SaversWait == \A s \in Savers : saver[s] \in {"none", "wait"} \/ s[1] \in done

\* The invariant of the channels.
ChannelInv == (\A t \in Tabs : ChannelOK(t)) /\ SaversWait

\* The channels, at the start.
LEMMA InitChannels ==
  ASSUME Init
  PROVE  ChannelInv
<1> USE DEF Init
<1>1. ASSUME NEW t \in Tabs PROVE ChannelOK(t)
  BY DEF ChannelOK, Read, ToSet
<1>2. SaversWait
  BY DEF SaversWait
<1> QED BY <1>1, <1>2 DEF ChannelInv

\* A channel that a step leaves alone.
LEMMA ChannelKept ==
  ASSUME NEW t, ChannelOK(t), ch'[t] = ch[t], sent'[t] = sent[t], broken'[t] = broken[t],
         images'[t] = images[t], t \in done' => t \in done, chclosed \subseteq chclosed'
  PROVE  ChannelOK(t)'
<1>1. Read(t)' = Read(t)
  BY DEF Read
<1> QED BY <1>1 DEF ChannelOK

\* A screenshot is sent: its number is the next one.
LEMMA SendChannels ==
  ASSUME TypeInv, ChannelInv, NEW u \in Callers, Send(u)
  PROVE  \A x \in Tabs : ChannelOK(x)'
<1>1. PICK t \in Tabs : t = Head(pc[u].todo)
  <2>1. u \in Goroutines /\ pc[u].op \notin Resting
    BY DEF Send, Goroutines, Resting
  <2> QED BY <2>1, Heads DEF TypeInv
<1>2. CASE t \in chclosed /\ UNCHANGED <<ch, sent, broken, budget>>
  BY <1>2, ChannelKept DEF ChannelInv, Send
<1>3. CASE /\ t \notin chclosed /\ ch' = [ch EXCEPT ![t] = Append(@, sent[t] + 1)]
           /\ sent' = [sent EXCEPT ![t] = @ + 1]
           /\ (broken' = broken \/ broken' = [broken EXCEPT ![t] = @ \cup {sent[t] + 1}])
  <2>1. ASSUME NEW x \in Tabs \ {t} PROVE ChannelOK(x)'
    BY <1>3, ChannelKept DEF ChannelInv, Send, TypeInv, ChannelsOK
  <2>2. /\ sent[t] \in Nat /\ ch[t] \in Seq(Nat) /\ Read(t) \in Int /\ Len(ch[t]) \in Nat
    BY DEF TypeInv, ChannelsOK, Read
  <2>3. /\ sent'[t] = sent[t] + 1 /\ ch'[t] = Append(ch[t], sent[t] + 1)
        /\ images' = images /\ done' = done /\ chclosed' = chclosed
    BY <1>3 DEF TypeInv, ChannelsOK, Send
  <2>4. /\ Len(ch'[t]) = Len(ch[t]) + 1
        /\ \A i \in 1..Len(ch[t]) : ch'[t][i] = ch[t][i]
        /\ ch'[t][Len(ch[t]) + 1] = sent[t] + 1
    BY <2>2, <2>3, AppendProperties
  <2>5. Read(t)' = Read(t)
    BY <2>2, <2>3, <2>4 DEF Read
  <2>6. sent[t] + 1 = Read(t) + (Len(ch[t]) + 1)
    BY <2>2 DEF Read
  <2>7. ChannelOK(t)
    BY DEF ChannelInv
  <2>8. \A i \in 1..Len(ch'[t]) : ch'[t][i] = Read(t)' + i
    <3> SUFFICES ASSUME NEW i \in 1..(Len(ch[t]) + 1) PROVE ch'[t][i] = Read(t) + i
      BY <2>4, <2>5
    <3>1. CASE i = Len(ch[t]) + 1
      BY <2>4, <2>6, <3>1
    <3>2. CASE i # Len(ch[t]) + 1
      <4>1. i \in 1..Len(ch[t])
        BY <2>2, <3>2
      <4> QED BY <2>4, <2>7, <4>1 DEF ChannelOK
    <3> QED BY <3>1, <3>2
  <2>9. (1..Read(t)) \ broken'[t] = (1..Read(t)) \ broken[t]
    <3>1. sent[t] + 1 \notin 1..Read(t)
      BY <2>2, <2>6
    <3>2. broken'[t] = broken[t] \/ broken'[t] = broken[t] \cup {sent[t] + 1}
      BY <1>3 DEF TypeInv, ChannelsOK
    <3> QED BY <3>1, <3>2
  <2>10. (t \in done => t \in chclosed /\ ch[t] = <<>>)'
    BY <1>3, <2>3, <2>7 DEF ChannelOK
  <2>11. ChannelOK(t)'
    BY <2>3, <2>5, <2>7, <2>8, <2>9, <2>10 DEF ChannelOK
  <2> QED BY <2>1, <2>11
<1> QED BY <1>1, <1>2, <1>3 DEF Send

\* A screenshot is taken: its number is greater than those of the images.
LEMMA TakeChannels ==
  ASSUME TypeInv, ChannelInv, NEW t \in Tabs, TakeTask(t)
  PROVE  \A x \in Tabs : ChannelOK(x)'
<1>1. ASSUME NEW x \in Tabs \ {t} PROVE ChannelOK(x)'
  BY ChannelKept DEF ChannelInv, TakeTask, recorderOnly, TypeInv, ChannelsOK
<1>2. /\ ch[t] \in Seq(Nat) /\ ch[t] # <<>> /\ images[t] \in Seq(Nat)
      /\ sent[t] \in Nat /\ Read(t) \in Int /\ broken[t] \subseteq Nat
  BY DEF TypeInv, ChannelsOK, Read, TakeTask, Takes
<1>3. /\ Len(ch[t]) \in Nat \ {0} /\ Len(Tail(ch[t])) = Len(ch[t]) - 1
      /\ \A i \in 1..Len(Tail(ch[t])) : Tail(ch[t])[i] = ch[t][i + 1]
      /\ Head(ch[t]) = ch[t][1]
  BY <1>2, HeadTailProperties, EmptySeq
<1>4. /\ ch'[t] = Tail(ch[t]) /\ images'[t] = Frame(t, Head(ch[t]))
      /\ sent' = sent /\ broken' = broken /\ done' = done /\ chclosed' = chclosed
  BY DEF TakeTask, recorderOnly, TypeInv, ChannelsOK
<1>5. ChannelOK(t) /\ t \notin done
  BY DEF ChannelInv, TakeTask
<1>6. Read(t)' = Read(t) + 1 /\ Read(t) \in Nat /\ Head(ch[t]) = Read(t) + 1
  BY <1>2, <1>3, <1>4, <1>5 DEF Read, ChannelOK
<1>7. \A i \in 1..Len(ch'[t]) : ch'[t][i] = Read(t)' + i
  BY <1>2, <1>3, <1>4, <1>5, <1>6 DEF ChannelOK
<1>8. \A i \in DOMAIN images[t] : images[t][i] \in 1..Read(t)
  BY <1>5 DEF ChannelOK, ToSet
<1>9. /\ ToSet(images'[t]) = (1..(Read(t) + 1)) \ broken[t]
      /\ \A i, j \in DOMAIN images'[t] : i < j => images'[t][i] < images'[t][j]
  <2>1. CASE Read(t) + 1 \in broken[t]
    BY <1>4, <1>5, <1>6, <2>1 DEF Frame, ChannelOK
  <2>2. CASE Read(t) + 1 \notin broken[t]
    <3>1. images'[t] = Append(images[t], Read(t) + 1)
      BY <1>4, <1>6, <2>2 DEF Frame
    <3>2. /\ Len(images'[t]) = Len(images[t]) + 1 /\ images'[t] \in Seq(Nat)
          /\ \A i \in 1..Len(images[t]) : images'[t][i] = images[t][i]
          /\ images'[t][Len(images[t]) + 1] = Read(t) + 1
      BY <1>2, <1>6, <3>1, AppendProperties
    <3>3. /\ DOMAIN images[t] = 1..Len(images[t]) /\ Len(images[t]) \in Nat
          /\ DOMAIN images'[t] = 1..(Len(images[t]) + 1)
      BY <1>2, <3>2
    <3>4. ToSet(images'[t]) = ToSet(images[t]) \cup {Read(t) + 1}
      <4>1. ToSet(images'[t]) = {images'[t][i] : i \in 1..(Len(images[t]) + 1)}
        BY <3>3 DEF ToSet
      <4>2. ToSet(images[t]) = {images'[t][i] : i \in 1..Len(images[t])}
        BY <3>2, <3>3 DEF ToSet
      <4>3. 1..(Len(images[t]) + 1) = 1..Len(images[t]) \cup {Len(images[t]) + 1}
        BY <3>3
      <4> QED BY <3>2, <4>1, <4>2, <4>3
    <3>5. ToSet(images'[t]) = (1..(Read(t) + 1)) \ broken[t]
      BY <1>5, <1>6, <2>2, <3>4 DEF ChannelOK
    <3>6. \A i, j \in DOMAIN images'[t] : i < j => images'[t][i] < images'[t][j]
      <4> SUFFICES ASSUME NEW i \in 1..(Len(images[t]) + 1), NEW j \in 1..(Len(images[t]) + 1),
                          i < j
                   PROVE  images'[t][i] < images'[t][j]
        BY <3>3
      <4>1. i \in 1..Len(images[t]) /\ images'[t][i] = images[t][i]
            /\ images[t][i] \in 1..Read(t)
        BY <1>8, <3>2, <3>3
      <4>2. CASE j = Len(images[t]) + 1
        BY <1>6, <3>2, <4>1, <4>2
      <4>3. CASE j # Len(images[t]) + 1
        <5>1. j \in 1..Len(images[t]) /\ images'[t][j] = images[t][j]
          BY <3>2, <3>3, <4>3
        <5> QED BY <1>5, <3>3, <4>1, <5>1 DEF ChannelOK
      <4> QED BY <4>2, <4>3
    <3> QED BY <3>5, <3>6
  <2> QED BY <2>1, <2>2
<1>10. ChannelOK(t)'
  BY <1>4, <1>5, <1>6, <1>7, <1>9 DEF ChannelOK
<1> QED BY <1>1, <1>10

\* Every step keeps the channels in order, and a recorder stays done.
LEMMA ChannelNext ==
  ASSUME TypeInv, ChannelInv, [Next]_vars
  PROVE  ChannelInv' /\ done \subseteq done'
<1>1. CASE UNCHANGED <<ch, sent, broken, images, done, chclosed, saver>>
  BY <1>1, ChannelKept DEF ChannelInv, SaversWait
<1>2. ASSUME NEW u \in Callers, Send(u) PROVE ChannelInv' /\ done \subseteq done'
  BY <1>2, SendChannels DEF ChannelInv, SaversWait, Send
<1>3. ASSUME NEW t \in Tabs, RecorderStep(t) PROVE ChannelInv' /\ done \subseteq done'
  <2>1. CASE TakeTask(t)
    BY <2>1, TakeChannels DEF ChannelInv, SaversWait, TakeTask, recorderOnly
  <2>2. CASE CloseChannel(t)
    <3>1. UNCHANGED <<ch, sent, broken, images, done, saver>> /\ chclosed \subseteq chclosed'
      BY <2>2 DEF CloseChannel, recorderOnly
    <3> QED BY <3>1, ChannelKept DEF ChannelInv, SaversWait
  <2>3. CASE FinishRecord(t)
    <3>1. UNCHANGED <<ch, sent, broken, images, chclosed, saver>> /\ done' = done \cup {t}
      BY <2>3 DEF FinishRecord, recorderOnly
    <3>2. ASSUME NEW x \in Tabs \ {t} PROVE ChannelOK(x)'
      BY <3>1, ChannelKept DEF ChannelInv
    <3>3. ChannelOK(t)'
      <4>1. Read(t)' = Read(t) /\ ChannelOK(t) /\ t \in chclosed /\ ch[t] = <<>>
        BY <2>3, <3>1 DEF Read, ChannelInv, FinishRecord, Drained
      <4> QED BY <3>1, <4>1 DEF ChannelOK
    <3> QED BY <3>1, <3>2, <3>3 DEF ChannelInv, SaversWait
  <2> QED BY <1>3, <2>1, <2>2, <2>3 DEF RecorderStep
<1>4. ASSUME UNCHANGED <<ch, sent, broken, images, done, chclosed>>, NEW s \in Savers,
             NEW v, saver' = [saver EXCEPT ![s] = v],
             v \in {"none", "wait"} \/ s[1] \in done
      PROVE  ChannelInv' /\ done \subseteq done'
  <2>1. \A t \in Tabs : ChannelOK(t)'
    BY <1>4, ChannelKept DEF ChannelInv
  <2>2. SaversWait'
    BY <1>4 DEF ChannelInv, SaversWait, TypeInv, RestOK
  <2> QED BY <1>4, <2>1, <2>2 DEF ChannelInv
<1>5. ASSUME NEW u \in Goroutines, CloseStep(u) PROVE ChannelInv' /\ done \subseteq done'
  <2>1. CASE WaitGroup(u) \/ Cancel(u)
    BY <1>1, <2>1 DEF WaitGroup, Cancel, closeOnly
  <2>2. CASE SaveRecord(u)
    <3>1. UNCHANGED <<ch, sent, broken, images, done, chclosed>>
      BY <2>2 DEF SaveRecord, closeOnly
    <3>2. \E s : saver' = [saver EXCEPT ![s] = "wait"]
      BY <2>2 DEF SaveRecord
    <3>3. SaversWait'
      BY <3>1, <3>2 DEF ChannelInv, SaversWait, TypeInv, RestOK
    <3> QED BY <3>1, <3>3, ChannelKept DEF ChannelInv
  <2> QED BY <1>5, <2>1, <2>2 DEF CloseStep
<1>6. ASSUME NEW s \in Savers, SaverStep(s) PROVE ChannelInv' /\ done \subseteq done'
  <2>1. UNCHANGED <<ch, sent, broken, images, done, chclosed>>
    BY <1>6 DEF SaverStep, OpenRecord, StartSave, EndSave, RemoveRecord, notSaver
  <2>2. PICK v : saver' = [saver EXCEPT ![s] = v]
    BY <1>6 DEF SaverStep, OpenRecord, StartSave, EndSave, RemoveRecord
  <2>3. s[1] \in done
    BY <1>6 DEF SaverStep, OpenRecord, StartSave, EndSave, RemoveRecord, MaySave,
       ChannelInv,
                SaversWait
  <2> QED BY <1>4, <2>1, <2>2, <2>3
<1>7. ASSUME NEW u \in Callers, NEW t \in Tabs, NEW then, Call(u, t, then)
      PROVE  ChannelInv' /\ done \subseteq done'
  BY <1>1, <1>7 DEF Call, quiet
<1>8. ASSUME NEW u \in Callers, Sleep(u) \/ FileCall(u) \/ Wake(u) \/ Capture(u) \/ Resume(u)
                                \/ FileDone(u)
      PROVE  ChannelInv' /\ done \subseteq done'
  BY <1>1, <1>8 DEF Sleep, FileCall, Wake, Capture, Resume, FileDone, quiet
<1>9. ASSUME NEW g, Download(g) PROVE ChannelInv' /\ done \subseteq done'
  BY <1>1, <1>9 DEF Download, quiet
<1>10. CASE NewTab \/ EndRun \/ MainStep \/ UNCHANGED vars
  BY <1>1, <1>10 DEF NewTab, EndRun, MainStep, ScriptEnds, StopRun, Exit, quiet, mainOnly,
     vars,
                     recorderVars
<1> QED BY <1>2, <1>3, <1>5, <1>6, <1>7, <1>8, <1>9, <1>10 DEF Next, CallStep, Goroutines

-----------------------------------------------------------------------------
(* The files.                                                              *)

\* What a saver has to do to its file.
SaverJob(s) ==
  CASE saver[s] = "open" -> [op |-> "write", path |-> RecordName[s[1]]]
    [] saver[s] = "remove" -> [op |-> "unlink", path |-> RecordName[s[1]]]
    [] OTHER -> NoJob

\* The name of a recording is used by the savers of its tab alone.
OwnFiles ==
  /\ \A u \in Callers, t \in Tabs : job[u].path # RecordName[t]
  /\ \A g \in Guids, t \in Tabs : download[g].name # RecordName[t]
  /\ \A s \in Savers : job[s] = SaverJob(s)

\* The invariant of the storage and of the names of the recordings.
FileInv == StorageInv /\ OwnFiles

\* Nothing happens to the recording of t.
Untouched(t) == SameAt(RecordName[t])

\* The names of the recordings are names that nobody else uses, and the
\* goroutines of a run are users of its storage.
LEMMA RecordPaths ==
  /\ \A t \in Tabs : /\ RecordName[t] \in Names \ FileNames /\ RecordName[t] \in Paths
                     /\ RecordName[t] # None /\ RecordName[t] \notin 1..MaxAuto
  /\ \A s \in Savers : s \in Users /\ s[1] \in Tabs /\ s \notin Callers
  /\ \A u \in Callers : u \in Users
BY RecorderAssumption, StorageAssumption DEF Paths, Savers

\* The files, at the start.
LEMMA InitFiles ==
  ASSUME Init
  PROVE  FileInv
<1>1. StorageInv
  BY InitStorage DEF Init
<1>2. OwnFiles
  <2>1. ASSUME NEW u \in Users PROVE job[u] = NoJob /\ job[u].path = None
    BY DEF Init, StorageInit, NoJob
  <2>2. ASSUME NEW g \in Guids PROVE download[g].name = None
    BY DEF Init, StorageInit, NoDownload
  <2>3. ASSUME NEW s \in Savers PROVE SaverJob(s) = NoJob
    BY DEF Init, SaverJob
  <2> QED BY <2>1, <2>2, <2>3, RecordPaths DEF OwnFiles
<1> QED BY <1>1, <1>2 DEF FileInv

\* The files, in a step that leaves the storage alone.
LEMMA FilesStay ==
  ASSUME FileInv, UNCHANGED storageVars, \A s \in Savers : SaverJob(s)' = SaverJob(s)
  PROVE  FileInv' /\ \A q : SameAt(q)
<1> USE DEF storageVars
<1>1. StorageInv'
  BY DEF FileInv, StorageInv, StorageTypeOK, GuidsOK, AutoOK, PathOK, Once, OneUser, Tidy,
     Loads,
         Loading, Listed, InUse
<1>2. OwnFiles'
  BY DEF FileInv, OwnFiles
<1>3. \A q : SameAt(q)
  BY DEF SameAt, SameJobs, SameLoads, Listed
<1> QED BY <1>1, <1>2, <1>3 DEF FileInv

\* A call uses a file that is not a recording.
LEMMA CallerFiles ==
  ASSUME FileInv, UNCHANGED saver, NEW u \in Callers, NEW p \in Paths,
         \A t \in Tabs : RecordName[t] # p,
         \A q \in Paths \ {p} : SameAt(q), StorageInv', UNCHANGED download,
         job'[u].path \in {None, p}, \A v \in Users \ {u} : job'[v] = job[v]
  PROVE  FileInv' /\ \A t \in Tabs : Untouched(t)
<1>1. \A t \in Tabs : Untouched(t)
  BY RecordPaths DEF Untouched
<1>2. \A v \in Callers, t \in Tabs : job'[v].path # RecordName[t]
  BY RecordPaths DEF FileInv, OwnFiles
<1>3. \A s \in Savers : job'[s] = SaverJob(s)'
  BY RecordPaths DEF FileInv, OwnFiles, SaverJob
<1> QED BY <1>1, <1>2, <1>3 DEF FileInv, OwnFiles

\* A call to the storage begins.
LEMMA FileCallFiles ==
  ASSUME TypeInv, FileInv, NEW u \in Callers, FileCall(u)
  PROVE  FileInv' /\ \A t \in Tabs : Untouched(t)
<1>1. UNCHANGED saver /\ UNCHANGED download /\ u \in Users
  BY RecordPaths DEF FileCall, quiet, Save, SaveAuto, SaveName, LuaOpen, RemoveArtifact,
     Continue
<1>2. ASSUME NEW op, NEW p, NEW again, Continue(u, op, p, again)
      PROVE  job'[u].path \in {None, p} /\ \A v \in Users \ {u} : job'[v] = job[v]
  BY <1>1, <1>2 DEF Continue, FileInv, StorageInv, StorageTypeOK
<1>3. ASSUME NEW p \in FileNames, Save(u, p) \/ LuaOpen(u, p) \/ RemoveArtifact(u, p)
      PROVE  FileInv' /\ \A t \in Tabs : Untouched(t)
  <2>1. /\ p \in Names /\ p \in Paths /\ p \notin 1..MaxAuto
        /\ \A t \in Tabs : RecordName[t] # p
    BY RecorderAssumption, StorageAssumption, RecordPaths DEF Paths
  <2>2. StorageInv' /\ \A q \in Paths \ {p} : SameAt(q)
    <3>1. CASE Save(u, p)
      <4>1. autoid' \in 0..MaxAuto /\ autoid <= autoid'
        BY <3>1 DEF Save, FileInv, StorageInv, StorageTypeOK
      <4> QED BY <1>1, <2>1, <3>1, <4>1, SaveNext DEF Save, FileInv
    <3>2. CASE LuaOpen(u, p)
      BY <1>1, <2>1, <3>2, LuaOpenNext DEF FileInv
    <3>3. CASE RemoveArtifact(u, p)
      BY <1>1, <2>1, <3>3, RemoveNext DEF FileInv
    <3> QED BY <1>3, <3>1, <3>2, <3>3
  <2>3. job'[u].path \in {None, p} /\ \A v \in Users \ {u} : job'[v] = job[v]
    BY <1>2, <1>3 DEF Save, SaveName, LuaOpen, RemoveArtifact
  <2> QED BY <1>1, <2>1, <2>2, <2>3, CallerFiles
<1>4. CASE SaveAuto(u)
  <2> DEFINE p == autoid + 1
  <2>1. /\ p \in 1..MaxAuto /\ p \in Paths /\ autoid' = p /\ autoid \in 0..MaxAuto
        /\ SaveName(u, p)
    BY <1>4, StorageAssumption DEF SaveAuto, AutoName, FileInv, StorageInv, StorageTypeOK,
       Paths
  <2>2. \A t \in Tabs : RecordName[t] # p
    BY <2>1, RecordPaths
  <2> HIDE DEF p
  <2>3. autoid' \in 0..MaxAuto /\ autoid <= autoid' /\ autoid < p /\ p <= autoid'
    BY <2>1 DEF p
  <2>4. StorageInv' /\ \A q \in Paths \ {p} : SameAt(q)
    BY <1>1, <2>1, <2>3, SaveNext DEF FileInv
  <2>5. job'[u].path \in {None, p} /\ \A v \in Users \ {u} : job'[v] = job[v]
    BY <1>2, <2>1 DEF SaveName
  <2> QED BY <1>1, <2>1, <2>2, <2>4, <2>5, CallerFiles
<1> QED BY <1>3, <1>4 DEF FileCall

\* A call to the storage ends.
LEMMA FileDoneFiles ==
  ASSUME TypeInv, FileInv, NEW u \in Callers, FileDone(u)
  PROVE  FileInv' /\ \A t \in Tabs : Untouched(t)
<1>1. PICK ok \in BOOLEAN : EndJob(u, ok)
  BY DEF FileDone
<1>2. UNCHANGED saver /\ UNCHANGED download /\ u \in Users
  BY <1>1, RecordPaths DEF FileDone, quiet, EndJob
<1>3. PICK p \in Paths : p = job[u].path
  BY <1>1, <1>2, EndJobNext DEF FileInv
<1>4. StorageInv' /\ \A q \in Paths \ {p} : SameAt(q)
  BY <1>1, <1>2, <1>3, EndJobNext DEF FileInv
<1>5. job'[u].path = None /\ \A v \in Users \ {u} : job'[v] = job[v]
  BY <1>1, <1>2 DEF EndJob, NoJob, FileInv, StorageInv, StorageTypeOK
<1>6. \A t \in Tabs : RecordName[t] # p
  BY <1>3 DEF FileInv, OwnFiles
<1> QED BY <1>2, <1>4, <1>5, <1>6, CallerFiles

\* The browser downloads a file, which is no recording.
LEMMA DownloadFiles ==
  ASSUME TypeInv, FileInv, NEW g \in Guids, Download(g)
  PROVE  FileInv' /\ \A t \in Tabs : Untouched(t)
<1>1. UNCHANGED saver /\ UNCHANGED job
  BY DEF Download, quiet, StartDownload, FinishDownload, CompleteDownload, CancelDownload
<1>2. ASSUME NEW p \in Names, \A t \in Tabs : RecordName[t] # p, StorageInv',
             \A q \in Paths \ {p} : SameAt(q), download'[g].name = p,
             \A h \in Guids \ {g} : download'[h] = download[h]
      PROVE  FileInv' /\ \A t \in Tabs : Untouched(t)
  <2>1. \A t \in Tabs : Untouched(t)
    BY <1>2, RecordPaths DEF Untouched
  <2>2. \A h \in Guids, t \in Tabs : download'[h].name # RecordName[t]
    BY <1>2 DEF FileInv, OwnFiles
  <2>3. \A s \in Savers : job'[s] = SaverJob(s)'
    BY <1>1 DEF FileInv, OwnFiles, SaverJob
  <2> QED BY <1>1, <1>2, <2>1, <2>2, <2>3 DEF FileInv, OwnFiles
<1>3. ASSUME NEW p \in FileNames, NEW heard \in BOOLEAN, StartDownload(g, p, heard)
      PROVE  FileInv' /\ \A t \in Tabs : Untouched(t)
  <2>1. p \in Names /\ \A t \in Tabs : RecordName[t] # p
    BY RecorderAssumption
  <2>2. download'[g].name = p /\ \A h \in Guids \ {g} : download'[h] = download[h]
    BY <1>3 DEF StartDownload, FileInv, StorageInv, StorageTypeOK
  <2>3. StorageInv' /\ \A q \in Paths \ {p} : SameAt(q)
    BY <1>3, <2>1, StartNext DEF FileInv
  <2> QED BY <1>2, <2>1, <2>2, <2>3
<1>4. ASSUME FinishDownload(g) \/ CompleteDownload(g) \/ CancelDownload(g)
      PROVE  FileInv' /\ \A t \in Tabs : Untouched(t)
  <2>1. PICK p \in Names : p = download[g].name
    BY <1>4, DownloadNext DEF FileInv
  <2>2. \A t \in Tabs : RecordName[t] # p
    BY <2>1 DEF FileInv, OwnFiles
  <2>3. StorageInv' /\ \A q \in Paths \ {p} : SameAt(q)
    BY <1>4, <2>1, DownloadNext DEF FileInv
  <2>4. download'[g].name = p /\ \A h \in Guids \ {g} : download'[h] = download[h]
    <3>1. download[g] # NoDownload
      BY <1>4 DEF FinishDownload, CompleteDownload, CancelDownload, NoDownload
    <3>2. download[g] \in [state : {"begun", "finished", "reported", "canceled"}, name : Names,
                           heard : BOOLEAN, path : Names \cup {None}]
      BY <3>1 DEF FileInv, StorageInv, StorageTypeOK
    <3>3. CASE FinishDownload(g)
      BY <2>1, <3>2, <3>3 DEF FinishDownload, FileInv, StorageInv, StorageTypeOK
    <3>4. CASE CompleteDownload(g)
      BY <2>1, <3>2, <3>4 DEF CompleteDownload, FileInv, StorageInv, StorageTypeOK
    <3>5. CASE CancelDownload(g)
      BY <2>1, <3>2, <3>5 DEF CancelDownload, FileInv, StorageInv, StorageTypeOK
    <3> QED BY <1>4, <3>3, <3>4, <3>5
  <2> QED BY <1>2, <2>1, <2>2, <2>3, <2>4
<1> QED BY <1>3, <1>4 DEF Download

\* A saver uses the recording of its tab, and no other.
LEMMA SaverFiles ==
  ASSUME TypeInv, FileInv, NEW s \in Savers, SaverStep(s)
  PROVE  FileInv' /\ \A t \in Tabs \ {s[1]} : Untouched(t)
<1>1. PICK p \in Names : p = RecordName[s[1]]
  BY RecordPaths
<1>2. /\ s \in Users /\ s[1] \in Tabs /\ p \in Paths /\ p \notin 1..MaxAuto /\ p # None
      /\ \A t \in Tabs \ {s[1]} : RecordName[t] \in Paths \ {p}
  BY <1>1, RecordPaths, RecorderAssumption
<1>3. job[s] = SaverJob(s) /\ StorageTypeOK
  BY DEF FileInv, OwnFiles, StorageInv
<1>4. ASSUME NEW v, saver' = [saver EXCEPT ![s] = v], UNCHANGED download, StorageInv',
             \A q \in Paths \ {p} : SameAt(q),
             \A x \in Users \ {s} : job'[x] = job[x], job'[s] = SaverJob(s)'
      PROVE  FileInv' /\ \A t \in Tabs \ {s[1]} : Untouched(t)
  <2>1. \A t \in Tabs \ {s[1]} : Untouched(t)
    BY <1>2, <1>4 DEF Untouched
  <2>2. ASSUME NEW x \in Savers \ {s} PROVE job'[x] = SaverJob(x)'
    <3>1. saver'[x] = saver[x]
      BY <1>4 DEF TypeInv, RestOK
    <3>2. job'[x] = job[x] /\ job[x] = SaverJob(x)
      BY <1>4, RecordPaths DEF FileInv, OwnFiles
    <3> QED BY <3>1, <3>2 DEF SaverJob
  <2>3. \A u \in Callers, t \in Tabs : job'[u].path # RecordName[t]
    BY <1>4, RecordPaths DEF FileInv, OwnFiles
  <2> QED BY <1>4, <2>1, <2>2, <2>3 DEF FileInv, OwnFiles
<1>5. ASSUME NEW v, saver' = [saver EXCEPT ![s] = v], v \notin {"open", "remove"}
      PROVE  SaverJob(s)' = NoJob
  BY <1>5 DEF SaverJob, TypeInv, RestOK
<1>6. CASE OpenRecord(s)
  <2>1. Save(s, p) /\ saver' = [saver EXCEPT ![s] = "open"]
    BY <1>1, <1>6 DEF OpenRecord
  <2>2. autoid' \in 0..MaxAuto /\ autoid <= autoid'
    BY <1>3, <2>1 DEF Save, StorageTypeOK
  <2>3. StorageInv' /\ \A q \in Paths \ {p} : SameAt(q)
    BY <1>2, <2>1, <2>2, SaveNext DEF Save, FileInv
  <2>4. job' = [job EXCEPT ![s] = [op |-> "write", path |-> p]] /\ UNCHANGED download
    BY <2>1 DEF Save, SaveName, Continue
  <2>5. job'[s] = [op |-> "write", path |-> p] /\ \A x \in Users \ {s} : job'[x] = job[x]
    BY <1>2, <1>3, <2>4 DEF StorageTypeOK
  <2>6. job'[s] = SaverJob(s)'
    BY <1>1, <2>1, <2>5 DEF SaverJob, TypeInv, RestOK
  <2> QED BY <1>4, <2>1, <2>3, <2>4, <2>5, <2>6
<1>7. ASSUME NEW ok \in BOOLEAN, EndJob(s, ok), saver[s] \in {"open", "remove"}, NEW v,
             saver' = [saver EXCEPT ![s] = v], v \notin {"open", "remove"}
      PROVE  FileInv' /\ \A t \in Tabs \ {s[1]} : Untouched(t)
  <2>1. job[s].path = p
    BY <1>1, <1>3, <1>7 DEF SaverJob
  <2>2. StorageInv' /\ \A q \in Paths \ {p} : SameAt(q)
    BY <1>2, <1>7, <2>1, EndJobNext DEF FileInv
  <2>3. /\ UNCHANGED download /\ job'[s] = NoJob
        /\ \A x \in Users \ {s} : job'[x] = job[x]
    BY <1>2, <1>3, <1>7 DEF EndJob, StorageTypeOK
  <2> QED BY <1>4, <1>5, <1>7, <2>2, <2>3
<1>8. CASE StartSave(s)
  BY <1>7, <1>8 DEF StartSave
<1>9. CASE EndSave(s)
  <2>1. CASE RemoveArtifact(s, p) /\ saver' = [saver EXCEPT ![s] = "remove"]
    <3>1. StorageInv' /\ \A q \in Paths \ {p} : SameAt(q)
      BY <1>2, <2>1, RemoveNext DEF FileInv
    <3>2. job' = [job EXCEPT ![s] = [op |-> "unlink", path |-> p]] /\ UNCHANGED download
      BY <2>1 DEF RemoveArtifact, Continue
    <3>3. job'[s] = [op |-> "unlink", path |-> p] /\ \A x \in Users \ {s} : job'[x] = job[x]
      BY <1>2, <1>3, <3>2 DEF StorageTypeOK
    <3>4. job'[s] = SaverJob(s)'
      BY <1>1, <2>1, <3>3 DEF SaverJob, TypeInv, RestOK
    <3> QED BY <1>4, <2>1, <3>1, <3>2, <3>3, <3>4
  <2>2. CASE UNCHANGED storageVars /\ saver' = [saver EXCEPT ![s] = "done"]
    <3>1. \A x \in Savers : SaverJob(x)' = SaverJob(x)
      BY <1>9, <2>2 DEF EndSave, SaverJob, TypeInv, RestOK
    <3> QED BY <2>2, <3>1, FilesStay DEF Untouched
  <2> QED BY <1>1, <1>9, <2>1, <2>2 DEF EndSave
<1>10. CASE RemoveRecord(s)
  <2>1. PICK ok \in BOOLEAN : EndJob(s, ok)
    <3>1. (RecordName[s[1]] \in disk) \in BOOLEAN
      OBVIOUS
    <3> QED BY <1>10, <3>1, Zenon DEF RemoveRecord
  <2>2. saver[s] = "remove" /\ saver' = [saver EXCEPT ![s] = "done"]
    BY <1>10, Zenon DEF RemoveRecord
  <2>3. saver[s] \in {"open", "remove"} /\ "done" \notin {"open", "remove"}
    BY <2>2
  <2> QED BY <1>7, <2>1, <2>2, <2>3, Zenon
<1> QED BY <1>6, <1>8, <1>9, <1>10 DEF SaverStep

\* Every step keeps the storage in order, and leaves the recordings alone
\* whose savers do not move.
LEMMA FilesNext ==
  ASSUME TypeInv, FileInv, [Next]_vars
  PROVE  /\ FileInv'
         /\ \A t \in Tabs : Untouched(t) \/ \E s \in Savers : s[1] = t /\ SaverStep(s)
<1>1. ASSUME UNCHANGED storageVars, UNCHANGED saver
      PROVE  FileInv' /\ \A t \in Tabs : Untouched(t)
  <2>1. \A s \in Savers : SaverJob(s)' = SaverJob(s)
    BY <1>1 DEF SaverJob
  <2> QED BY <1>1, <2>1, FilesStay DEF Untouched
<1>2. ASSUME NEW u \in Callers, FileCall(u) \/ FileDone(u)
      PROVE  FileInv' /\ \A t \in Tabs : Untouched(t)
  BY <1>2, FileCallFiles, FileDoneFiles
<1>3. ASSUME NEW u \in Goroutines, CloseStep(u)
      PROVE  FileInv' /\ \A t \in Tabs : Untouched(t)
  <2>1. CASE WaitGroup(u) \/ Cancel(u)
    BY <1>1, <2>1 DEF WaitGroup, Cancel, closeOnly
  <2>2. CASE SaveRecord(u)
    <3>1. UNCHANGED storageVars
      BY <2>2 DEF SaveRecord, closeOnly
    <3>2. PICK x : saver[x] = "none" /\ saver' = [saver EXCEPT ![x] = "wait"]
      BY <2>2 DEF SaveRecord
    <3>3. \A s \in Savers : SaverJob(s)' = SaverJob(s)
      BY <3>2 DEF SaverJob, TypeInv, RestOK
    <3> QED BY <3>1, <3>3, FilesStay DEF Untouched
  <2> QED BY <1>3, <2>1, <2>2 DEF CloseStep
<1>4. ASSUME NEW s \in Savers, SaverStep(s)
      PROVE  /\ FileInv'
             /\ \A t \in Tabs : Untouched(t) \/ \E x \in Savers : x[1] = t /\ SaverStep(x)
  BY <1>4, SaverFiles
<1>5. ASSUME NEW g \in Guids, Download(g)
      PROVE  FileInv' /\ \A t \in Tabs : Untouched(t)
  BY <1>5, DownloadFiles
<1>6. ASSUME NEW t \in Tabs, RecorderStep(t)
      PROVE  FileInv' /\ \A x \in Tabs : Untouched(x)
  BY <1>1, <1>6 DEF RecorderStep, CloseChannel, TakeTask, FinishRecord, recorderOnly
<1>7. ASSUME NEW u \in Callers, NEW t \in Tabs, NEW then, Call(u, t, then)
      PROVE  FileInv' /\ \A x \in Tabs : Untouched(x)
  BY <1>1, <1>7 DEF Call, quiet
<1>8. ASSUME NEW u \in Callers, Sleep(u) \/ Wake(u) \/ Capture(u) \/ Send(u) \/ Resume(u)
      PROVE  FileInv' /\ \A x \in Tabs : Untouched(x)
  BY <1>1, <1>8 DEF Sleep, Wake, Capture, Send, Resume, quiet
<1>9. CASE NewTab \/ EndRun \/ MainStep \/ UNCHANGED vars
  BY <1>1, <1>9 DEF NewTab, EndRun, MainStep, ScriptEnds, StopRun, Exit, quiet, mainOnly,
     vars,
                    recorderVars
<1> QED BY <1>2, <1>3, <1>4, <1>5, <1>6, <1>7, <1>8, <1>9 DEF Next, CallStep, Goroutines

-----------------------------------------------------------------------------
(* The tabs that are being closed.                                         *)

\* t has been registered.
Found(t) == Contains(tabs, t) \/ t \in canceled

\* u no longer waits for the callbacks of t, which it closes.
Past(u, t) == pc[u].op \in {"cancel", "save"} /\ Head(pc[u].todo) = t

\* u is about to save the recording of t, which it has canceled.
Saves(u, t) == pc[u].op = "save" /\ Head(pc[u].todo) = t

\* A tab is once in the list until it is canceled, and a tab that the script
\* is making is in neither.
TabsOK ==
  /\ \A t \in Tabs : /\ Once(tabs, t)
                     /\ t \in canceled => ~Contains(tabs, t)
                     /\ Found(t) => t <= opened
  /\ pc[Script].then = "register" => /\ Head(pc[Script].todo) <= opened
                                     /\ ~Found(Head(pc[Script].todo))

\* Main closes each tab once, after the script has ended, and all that are in
\* the list.
MainOK ==
  /\ \A t \in Tabs : Once(pc[Main].todo, t)
  /\ phase # "sweep" => pc[Main] = Idle
  /\ phase # "run" => /\ pc[Script].op \in {"idle", "stopped"}
                      /\ \A t \in Tabs : Contains(tabs, t) => /\ Contains(pc[Main].todo, t)
                                                              /\ ~Saves(Main, t)

\* A saved tab is canceled, and a canceled one is saved or is about to be; a
\* tab that is being closed has been registered.
Tracked(t) ==
  /\ Saved(t) => t \in canceled
  /\ \A u \in Goroutines : Closes(u, t) => Found(t)
  /\ \A u \in Goroutines : Saves(u, t) => t \in canceled
  /\ t \in canceled => Saved(t) \/ \E u \in Goroutines : Saves(u, t)

\* One goroutine closes t; when t is canceled already, its last screenshot is
\* still to fail, or it is about to be saved for the first time. While the
\* callback closes t, its own tab is in the list and waits for it.
ClosedByOne(t) ==
  /\ \A u, v \in Goroutines : Closes(u, t) /\ Closes(v, t) => u = v
  /\ t \in canceled => \A u \in Goroutines : Closes(u, t) =>
                         pc[u].op = "capture" \/ (Saves(u, t) /\ ~Saved(t))
  /\ saver[<<t, 2>>] = "none" /\ saver[<<t, 3>>] = "none"
  /\ Closes(Callback, t) => /\ Contains(tabs, Home)
                            /\ \A u \in Goroutines : ~Past(u, Home)

\* The invariant of the tabs; `raced' are those which two goroutines closed
\* at a time.
ClosingInv ==
  /\ TabsOK /\ MainOK
  /\ \A t \in Tabs : Tracked(t) /\ (t \in raced \/ ClosedByOne(t))

\* The scenario knows the registered tabs.
LEMMA KnownIsFound ==
  ASSUME TypeInv, NEW t
  PROVE  t \in Known <=> Found(t)
BY DEF Known, Found, Contains, ToSet, TypeInv, RestOK

\* A goroutine at rest is not closing a tab.
LEMMA RestersDoNotClose ==
  ASSUME PcOK, NEW u \in Goroutines, pc[u].op \in Resting, NEW t
  PROVE  ~Closes(u, t)
<1>1. GoodPc(u, pc[u])
  BY DEF PcOK
<1>2. pc[u].todo = <<>>
  BY <1>1 DEF GoodPc
<1> QED BY <1>2 DEF Closes, Contains

\* The tabs, at the start.
LEMMA InitClosing ==
  ASSUME Init
  PROVE  ClosingInv
<1> USE DEF Init
<1>1. \A u \in Goroutines : pc[u] = Idle /\ Idle.op = "idle" /\ Idle.todo = <<>>
                            /\ Idle.then = "idle"
  BY DEF Goroutines, Idle
<1>2. Script \in Goroutines /\ Main \in Goroutines /\ Callback \in Goroutines
  BY DEF Goroutines, Callers
<1>3. \A u \in Goroutines : \A t : ~Closes(u, t) /\ ~Saves(u, t)
  BY <1>1, <1>2 DEF Closes, Saves, Contains
<1>4. \A t : ~Contains(tabs, t) /\ Once(tabs, t) /\ Once(<<>>, t)
  BY DEF Contains, Once
<1>5. TabsOK
  BY <1>1, <1>2, <1>4 DEF TabsOK, Found
<1>6. MainOK
  BY <1>1, <1>2, <1>4 DEF MainOK
<1>7. ASSUME NEW t \in Tabs PROVE Tracked(t) /\ ClosedByOne(t)
  <2>1. \A k \in 1..3 : saver[<<t, k>>] = "none"
    BY DEF Savers
  <2> QED BY <1>2, <1>3, <2>1 DEF Tracked, ClosedByOne, Saved
<1> QED BY <1>5, <1>6, <1>7 DEF ClosingInv

\* The tabs are in order after a step of u if u closes no more tabs than
\* before, or one that nobody closes, or one that is raced.
LEMMA PairsKept ==
  ASSUME ClosingInv, NEW u \in Goroutines, \A v \in Goroutines \ {u} : pc'[v] = pc[v],
         canceled' = canceled, raced \subseteq raced',
         \A s \in Savers : saver'[s] = "none" <=> saver[s] = "none",
         \A t \in Tabs : Found(t) => Found(t)',
         Contains(tabs, Home) => Contains(tabs, Home)',
         \A t \in Tabs : (Past(u, t)' <=> Past(u, t)) /\ (Saves(u, t)' <=> Saves(u, t)),
         \A t \in Tabs : Closes(u, t)' =>
           \/ /\ Closes(u, t)
              /\ t \in canceled /\ t \notin raced => pc'[u] = pc[u] \/ pc'[u].op = "capture"
           \/ Found(t) /\ t \in raced'
           \/ /\ Found(t) /\ \A v \in Goroutines : ~Closes(v, t)
              /\ t \in canceled => pc'[u].op = "capture"
              /\ u = Callback => /\ Contains(tabs, Home)
                                 /\ \A v \in Goroutines : ~Past(v, Home)
  PROVE  \A t \in Tabs : Tracked(t)' /\ ((t \in raced)' \/ ClosedByOne(t)')
<1> TAKE t \in Tabs
<1>1. Home \in Tabs /\ Callback \in Goroutines
  BY RecorderAssumption DEF Home, Tabs, Goroutines, Callers
<1>2. /\ \A k \in 1..3 : saver'[<<t, k>>] = "none" <=> saver[<<t, k>>] = "none"
      /\ Saved(t)' <=> Saved(t)
  BY DEF Saved, Savers
<1>3. \A v \in Goroutines, x \in Tabs : /\ Saves(v, x)' <=> Saves(v, x)
                                        /\ Past(v, x)' <=> Past(v, x)
  BY DEF Saves, Past
<1>4. \A v \in Goroutines \ {u} : Closes(v, t)' <=> Closes(v, t)
  BY DEF Closes
<1>5. Tracked(t) /\ (t \in raced \/ ClosedByOne(t))
  BY DEF ClosingInv
<1>6. Tracked(t)'
  <2>1. \A v \in Goroutines : Closes(v, t)' => Found(t)'
    BY <1>4, <1>5 DEF Tracked
  <2> QED BY <1>2, <1>3, <1>5, <2>1 DEF Tracked
<1>7. ASSUME t \notin raced' PROVE ClosedByOne(t)'
  <2>1. t \notin raced /\ ClosedByOne(t)
    BY <1>5, <1>7
  <2>2. \A v, w \in Goroutines : Closes(v, t)' /\ Closes(w, t)' => v = w
    BY <1>4, <1>7, <2>1 DEF ClosedByOne
  <2>3. ASSUME t \in canceled, NEW v \in Goroutines, Closes(v, t)'
        PROVE  pc'[v].op = "capture" \/ (Saves(v, t) /\ ~Saved(t))'
    <3>1. CASE v # u
      BY <1>2, <1>3, <1>4, <2>1, <2>3, <3>1 DEF ClosedByOne
    <3>2. CASE v = u /\ pc'[u].op # "capture"
      <4>1. Closes(u, t) /\ pc'[u] = pc[u]
        BY <1>7, <2>1, <2>3, <3>2
      <4>2. Saves(u, t) /\ ~Saved(t)
        BY <2>1, <2>3, <3>2, <4>1 DEF ClosedByOne
      <4> QED BY <1>2, <1>3, <3>2, <4>2
    <3> QED BY <3>1, <3>2
  <2>4. ASSUME Closes(Callback, t)'
        PROVE  (Contains(tabs, Home) /\ \A v \in Goroutines : ~Past(v, Home))'
    <3>1. Contains(tabs, Home) /\ \A v \in Goroutines : ~Past(v, Home)
      <4>1. CASE Closes(Callback, t)
        BY <2>1, <4>1 DEF ClosedByOne
      <4>2. CASE ~Closes(Callback, t)
        BY <1>1, <1>4, <1>7, <2>4, <4>2
      <4> QED BY <4>1, <4>2
    <3> QED BY <1>1, <1>3, <3>1
  <2>5. (saver[<<t, 2>>] = "none" /\ saver[<<t, 3>>] = "none")'
    BY <1>2, <2>1 DEF ClosedByOne
  <2> QED BY <2>2, <2>3, <2>4, <2>5 DEF ClosedByOne
<1> QED BY <1>6, <1>7

\* A call to the storage is made by a goroutine that does nothing else.
FileCalls == \A u \in Callers : job[u] = NoJob \/ pc[u] = Idle

\* A goroutine moves, the others do not.
LEMMA Others ==
  ASSUME PcOK, NEW u \in Goroutines, NEW r, pc' = [pc EXCEPT ![u] = r]
  PROVE  pc'[u] = r /\ \A v \in Goroutines \ {u} : pc'[v] = pc[v]
BY DEF PcOK

\* A goroutine goes on with the same tabs, the others do not move.
LEMMA OpOnly ==
  ASSUME PcOK, NEW u \in Goroutines, NEW o, pc' = [pc EXCEPT ![u].op = o]
  PROVE  /\ pc'[u].op = o /\ pc'[u].todo = pc[u].todo /\ pc'[u].then = pc[u].then
         /\ \A v \in Goroutines \ {u} : pc'[v] = pc[v]
<1>1. pc[u] \in [op : Recording \cup Closing \cup Resting, todo : Seq(Tabs),
                 then : {"idle", "register", "close", "sleep"}]
  BY DEF PcOK, GoodPc
<1>2. pc' = [pc EXCEPT ![u] = [pc[u] EXCEPT !.op = o]]
  OBVIOUS
<1>3. pc'[u] = [pc[u] EXCEPT !.op = o] /\ \A v \in Goroutines \ {u} : pc'[v] = pc[v]
  BY <1>2, Others
<1> QED BY <1>1, <1>3

\* The tabs, in a step in which nobody who uses them moves.
LEMMA PcStays ==
  ASSUME ClosingInv, UNCHANGED <<pc, tabs, canceled, raced, opened, phase>>,
         \A s \in Savers : saver'[s] = "none" <=> saver[s] = "none"
  PROVE  ClosingInv'
<1>1. Main \in Goroutines
  BY DEF Goroutines
<1>2. /\ \A t \in Tabs : Past(Main, t)' <=> Past(Main, t)
      /\ \A t \in Tabs : Saves(Main, t)' <=> Saves(Main, t)
      /\ \A t \in Tabs : Found(t)' <=> Found(t)
      /\ \A t \in Tabs : Closes(Main, t)' <=> Closes(Main, t)
  BY DEF Past, Saves, Found, Closes
<1>3. \A t \in Tabs : Tracked(t)' /\ ((t \in raced)' \/ ClosedByOne(t)')
  BY <1>1, <1>2, PairsKept
<1>4. TabsOK' /\ MainOK'
  BY DEF ClosingInv, TabsOK, MainOK, Found, Saves
<1> QED BY <1>3, <1>4 DEF ClosingInv

\* The list of tabs and main, in a step of a call.
LEMMA ListKept ==
  ASSUME ClosingInv, NEW u \in Callers, \A v \in Goroutines \ {u} : pc'[v] = pc[v],
         UNCHANGED <<tabs, canceled, phase>>, opened \in Nat, opened' \in Nat, opened <= opened',
         u # Script => opened' = opened,
         u = Script => /\ pc'[u].then = "register" => /\ Head(pc'[u].todo) <= opened'
                                                      /\ ~Found(Head(pc'[u].todo))
                       /\ phase # "run" => pc'[u].op \in {"idle", "stopped"}
  PROVE  TabsOK' /\ MainOK'
<1>1. pc'[Main] = pc[Main] /\ (u # Script => pc'[Script] = pc[Script])
  BY RecorderAssumption DEF Goroutines, Callers
<1>2. \A t : Found(t)' <=> Found(t)
  BY DEF Found
<1>3. \A t \in Tabs : Found(t) => t <= opened'
  BY DEF ClosingInv, TabsOK, Tabs
<1>4. pc'[Script].then = "register" => /\ Head(pc'[Script].todo) <= opened'
                                       /\ ~Found(Head(pc'[Script].todo))
  <2>1. CASE u = Script
    BY <2>1
  <2>2. CASE u # Script
    BY <1>1, <2>2 DEF ClosingInv, TabsOK
  <2> QED BY <2>1, <2>2
<1>5. TabsOK'
  BY <1>2, <1>3, <1>4 DEF ClosingInv, TabsOK
<1>6. MainOK'
  <2>1. \A t : Saves(Main, t)' <=> Saves(Main, t)
    BY <1>1 DEF Saves
  <2>2. phase # "run" => pc'[Script].op \in {"idle", "stopped"}
    BY <1>1 DEF ClosingInv, MainOK
  <2> QED BY <1>1, <2>1, <2>2 DEF ClosingInv, MainOK
<1> QED BY <1>5, <1>6

\* A call goes on, and closes no more tabs than before.
LEMMA CallerNext ==
  ASSUME TypeInv, ClosingInv, NEW u \in Callers,
         \A v \in Goroutines \ {u} : pc'[v] = pc[v],
         UNCHANGED <<tabs, canceled, saver, raced, opened, phase>>,
         pc[u].op \notin {"cancel", "save"}, pc'[u].op \notin {"cancel", "save"},
         u = Script => /\ pc'[u].then = "register" => /\ pc[u].then = "register"
                                                      /\ pc'[u].todo = pc[u].todo
                       /\ phase # "run" => pc'[u].op \in {"idle", "stopped"},
         \A t \in Tabs : Closes(u, t)' =>
           /\ Closes(u, t)
           /\ t \in canceled /\ t \notin raced => pc'[u] = pc[u] \/ pc'[u].op = "capture"
  PROVE  ClosingInv'
<1>1. u \in Goroutines
  BY DEF Goroutines
<1>2. TabsOK' /\ MainOK'
  <2>1. opened \in Nat /\ opened' = opened /\ opened <= opened'
    BY RecorderAssumption DEF TypeInv, RestOK
  <2>2. u = Script /\ pc'[u].then = "register" => /\ Head(pc'[u].todo) <= opened'
                                                  /\ ~Found(Head(pc'[u].todo))
    BY <2>1 DEF ClosingInv, TabsOK
  <2> QED BY <2>1, <2>2, ListKept
<1>3. \A t \in Tabs : Tracked(t)' /\ ((t \in raced)' \/ ClosedByOne(t)')
  <2>1. \A t \in Tabs : (Past(u, t)' <=> Past(u, t)) /\ (Saves(u, t)' <=> Saves(u, t))
    BY DEF Past, Saves
  <2>2. \A t \in Tabs : Found(t)' <=> Found(t)
    BY DEF Found
  <2> QED BY <1>1, <2>1, <2>2, PairsKept
<1> QED BY <1>2, <1>3 DEF ClosingInv

\* A call comes to rest.
LEMMA RestNext ==
  ASSUME TypeInv, ClosingInv, PcOK', NEW u \in Callers,
         \A v \in Goroutines \ {u} : pc'[v] = pc[v],
         UNCHANGED <<tabs, canceled, saver, raced, opened, phase>>,
         pc[u].op \notin {"cancel", "save"}, pc'[u].op \in Resting,
         u = Script /\ pc'[u].op = "sleep" => phase = "run"
  PROVE  ClosingInv'
<1>1. u \in Goroutines
  BY DEF Goroutines
<1>2. \A t : ~Closes(u, t)'
  BY <1>1, RestersDoNotClose DEF PcOK, Closes, Contains, GoodPc
<1>3. pc'[u].then = "idle"
  BY <1>1 DEF PcOK, GoodPc
<1> QED BY <1>2, <1>3, CallerNext DEF Resting

\* A call raises an error.
LEMMA RaiseNext ==
  ASSUME TypeInv, ClosingInv, PcOK', NEW u \in Callers, Raise(u),
         UNCHANGED <<tabs, canceled, saver, raced, opened, phase>>,
         pc[u].op \notin {"cancel", "save"}
  PROVE  ClosingInv'
<1>1. u \in Goroutines
  BY DEF Goroutines
<1>2. PICK o \in {"idle", "stopped"} :
        pc' = [pc EXCEPT ![u] = [op |-> o, todo |-> <<>>, then |-> "idle"]]
  BY DEF Raise, Goto
<1>3. pc'[u].op = o /\ \A v \in Goroutines \ {u} : pc'[v] = pc[v]
  <2> DEFINE r == [op |-> o, todo |-> <<>>, then |-> "idle"]
  <2>1. r.op = o /\ pc' = [pc EXCEPT ![u] = r]
    BY <1>2
  <2> HIDE DEF r
  <2> QED BY <1>1, <2>1, Others DEF TypeInv
<1>4. pc'[u].op \in Resting /\ pc'[u].op # "sleep"
  BY <1>3 DEF Resting
<1> QED BY <1>3, <1>4, RestNext

\* A call that does not register a tab goes on, or ends.
LEMMA AdvanceNext ==
  ASSUME TypeInv, ClosingInv, PcOK', NEW u \in Callers, NEW t \in Tabs, NEW todo \in Seq(Tabs),
         NEW then \in {"idle", "close", "sleep"}, Advance(u, t, todo, then),
         UNCHANGED <<canceled, saver, raced, opened, phase>>,
         pc[u].op \notin {"cancel", "save"},
         u = Script => phase = "run",
         then = "close" => /\ todo = <<>> /\ Closes(u, t)
                           /\ t \in canceled => t \in raced
  PROVE  ClosingInv'
<1>1. u \in Goroutines
  BY DEF Goroutines
<1>2. tabs' = tabs
  BY DEF Advance
<1>3. CASE todo # <<>>
  <2>1. pc' = [pc EXCEPT ![u] = [op |-> "capture", todo |-> todo, then |-> then]]
    BY <1>3 DEF Advance, Goto
  <2>2. /\ pc'[u] = [op |-> "capture", todo |-> todo, then |-> then]
        /\ \A v \in Goroutines \ {u} : pc'[v] = pc[v]
    BY <1>1, <2>1, Others DEF TypeInv
  <2>3. \A x : ~Closes(u, x)'
    BY <1>3, <2>2 DEF Closes
  <2> QED BY <1>2, <1>3, <2>2, <2>3, CallerNext
<1>4. CASE todo = <<>> /\ then = "close"
  <2>1. pc' = [pc EXCEPT ![u] = [op |-> "wait", todo |-> <<t>>, then |-> "idle"]]
    BY <1>4 DEF Advance, Goto
  <2>2. /\ pc'[u] = [op |-> "wait", todo |-> <<t>>, then |-> "idle"]
        /\ \A v \in Goroutines \ {u} : pc'[v] = pc[v]
    BY <1>1, <2>1, Others DEF TypeInv
  <2>3. \A x : Closes(u, x)' => x = t
    BY <2>2 DEF Closes, Contains
  <2>4. Closes(u, t) /\ (t \in canceled => t \in raced)
    BY <1>4
  <2>5. u = Script => FALSE \/ phase = "run"
    OBVIOUS
  <2> QED BY <1>2, <2>2, <2>3, <2>4, <2>5, CallerNext
<1>5. CASE todo = <<>> /\ then # "close"
  <2>1. \E r : pc' = [pc EXCEPT ![u] = r] /\ r.op \in Resting
    <3>1. CASE then = "sleep"
      <4>1. pc' = [pc EXCEPT ![u] = [op |-> "sleep", todo |-> <<>>, then |-> "idle"]]
        BY <1>5, <3>1 DEF Advance, Goto
      <4>2. [op |-> "sleep", todo |-> <<>>, then |-> "idle"].op \in Resting
        BY DEF Resting
      <4> QED BY <4>1, <4>2, Zenon
    <3>2. CASE then # "sleep"
      <4>1. pc' = [pc EXCEPT ![u] = Idle] /\ Idle.op = "idle"
        BY <1>5, <3>2 DEF Advance, Idle
      <4> QED BY <4>1 DEF Resting
    <3> QED BY <3>1, <3>2
  <2>2. pc'[u].op \in Resting /\ \A v \in Goroutines \ {u} : pc'[v] = pc[v]
    BY <1>1, <2>1, Others DEF TypeInv
  <2> QED BY <1>2, <2>2, RestNext
<1> QED BY <1>3, <1>4, <1>5

\* The tabs, in a step of a call other than its resumption.
LEMMA CallerClosing ==
  ASSUME TypeInv, TypeInv', ClosingInv, FileCalls, NEW u \in Callers,
         Sleep(u) \/ Wake(u) \/ Capture(u) \/ Send(u) \/ FileDone(u)
  PROVE  ClosingInv'
<1>1. u \in Goroutines /\ 1 \in Tabs /\ tabs \in Seq(Tabs)
  BY RecorderAssumption DEF Goroutines, Tabs, TypeInv, RestOK
<1>2. UNCHANGED <<canceled, saver, raced, opened, phase>>
  BY DEF Sleep, Wake, Capture, Send, FileDone, quiet
<1>3. PcOK /\ PcOK'
  BY DEF TypeInv
<1>4. u = Script => phase = "run" \/ pc[Script].op \in {"idle", "stopped"}
  BY DEF ClosingInv, MainOK
<1>5. CASE Sleep(u)
  <2>1. pc[u].op = "idle"
    BY <1>5 DEF Sleep, MayCall, Idle
  <2>2. u = Script => phase = "run"
    BY <1>5 DEF Sleep, MayCall
  <2> QED BY <1>1, <1>2, <1>3, <1>5, <2>1, <2>2, AdvanceNext DEF Sleep, Home
<1>6. CASE Wake(u)
  <2>1. pc[u].op = "sleep"
    BY <1>6 DEF Wake
  <2>2. CASE Advance(u, Home, tabs, "idle")
    BY <1>1, <1>2, <1>3, <1>4, <2>1, <2>2, AdvanceNext DEF Home
  <2>3. CASE Raise(u) /\ UNCHANGED tabs
    BY <1>2, <1>3, <2>1, <2>3, RaiseNext
  <2> QED BY <1>6, <2>2, <2>3 DEF Wake
<1>7. CASE Capture(u)
  <2>1. pc[u].op = "capture" /\ tabs' = tabs
    BY <1>7 DEF Capture
  <2>2. CASE CanCapture(Head(pc[u].todo)) /\ pc' = [pc EXCEPT ![u].op = "send"]
    <3>1. /\ pc'[u].op = "send" /\ pc'[u].todo = pc[u].todo /\ pc'[u].then = pc[u].then
          /\ \A v \in Goroutines \ {u} : pc'[v] = pc[v]
      BY <1>1, <1>3, <2>2, OpOnly
    <3>2. ASSUME NEW t \in Tabs, Closes(u, t)' PROVE Closes(u, t) /\ t \notin canceled
      <4>1. pc[u].then = "close" /\ Contains(pc[u].todo, t)
        BY <3>1, <3>2 DEF Closes
      <4>2. Len(pc[u].todo) = 1 /\ pc[u].todo \in Seq(Tabs)
        BY <1>1, <1>3, <4>1 DEF PcOK, GoodPc
      <4>3. Head(pc[u].todo) = t
        BY <4>1, <4>2 DEF Contains
      <4> QED BY <2>2, <4>1, <4>3 DEF Closes, CanCapture, CtxDone
    <3> QED BY <1>2, <1>4, <2>1, <3>1, <3>2, CallerNext
  <2>3. CASE Raise(u)
    BY <1>2, <1>3, <2>1, <2>3, RaiseNext
  <2> QED BY <1>7, <2>2, <2>3 DEF Capture
<1>8. CASE Send(u)
  <2>1. pc[u].op = "send" /\ tabs' = tabs
    BY <1>8 DEF Send
  <2>2. CASE pc' = [pc EXCEPT ![u].op = "sent"]
    <3>1. /\ pc'[u].op = "sent" /\ pc'[u].todo = pc[u].todo /\ pc'[u].then = pc[u].then
          /\ \A v \in Goroutines \ {u} : pc'[v] = pc[v]
      BY <1>1, <1>3, <2>2, OpOnly
    <3>2. ASSUME NEW t \in Tabs, Closes(u, t)'
          PROVE  Closes(u, t) /\ (t \in canceled => t \in raced)
      <4>1. Closes(u, t)
        BY <3>1, <3>2 DEF Closes
      <4> QED BY <1>1, <2>1, <4>1 DEF ClosingInv, ClosedByOne, Saves
    <3> QED BY <1>2, <1>4, <2>1, <3>1, <3>2, CallerNext
  <2>3. CASE Raise(u)
    BY <1>2, <1>3, <2>1, <2>3, RaiseNext
  <2> QED BY <1>8, <2>2, <2>3 DEF Send
<1>9. CASE FileDone(u)
  <2>1. tabs' = tabs
    BY <1>9 DEF FileDone
  <2>2. CASE UNCHANGED pc
    BY <1>2, <2>1, <2>2, PcStays
  <2>3. CASE Raise(u)
    <3>1. pc[u] = Idle
      BY <1>9 DEF FileDone, EndJob, FileCalls
    <3> QED BY <1>2, <1>3, <2>1, <2>3, <3>1, RaiseNext DEF Idle
  <2> QED BY <1>9, <2>2, <2>3 DEF FileDone
<1> QED BY <1>5, <1>6, <1>7, <1>8, <1>9

\* The tabs, when a call goes on, which may register its tab.
LEMMA ResumeClosing ==
  ASSUME TypeInv, TypeInv', ClosingInv, NEW u \in Callers, Resume(u)
  PROVE  ClosingInv'
<1>1. u \in Goroutines /\ pc[u].op = "sent" /\ pc[u].op \notin Resting /\ PcOK /\ PcOK'
  BY DEF Goroutines, Resume, Resting, TypeInv
<1>2. UNCHANGED <<canceled, saver, raced, opened, phase>>
  BY DEF Resume, quiet
<1>3. PICK t \in Tabs : t = Head(pc[u].todo)
  BY <1>1, Heads
<1>4. PICK todo \in Seq(Tabs) : todo = Tail(pc[u].todo)
  BY <1>1, Heads
<1>5. GoodPc(u, pc[u]) /\ Len(todo) = Len(pc[u].todo) - 1 /\ pc[u].todo \in Seq(Tabs)
  <2>1. GoodPc(u, pc[u]) /\ Len(todo) = Len(pc[u].todo) - 1
    BY <1>1, <1>4, Heads
  <2> QED BY <2>1 DEF GoodPc
<1>6. pc[u].then \in {"register", "close"} => todo = <<>> /\ Contains(pc[u].todo, t)
  <2> SUFFICES ASSUME pc[u].then \in {"register", "close"}
               PROVE  todo = <<>> /\ Contains(pc[u].todo, t)
    OBVIOUS
  <2>1. Len(pc[u].todo) = 1
    BY <1>5 DEF GoodPc
  <2>2. Len(todo) = 0
    BY <1>5, <2>1
  <2>3. todo = <<>>
    BY <2>2, EmptySeq
  <2>4. pc[u].todo[1] = t
    BY <1>3, <1>5, <2>1
  <2> QED BY <2>1, <2>3, <2>4 DEF Contains
<1>7. Advance(u, t, todo, pc[u].then)
  BY <1>3, <1>4 DEF Resume
<1>8. u = Script => phase = "run"
  BY <1>1 DEF ClosingInv, MainOK
<1>9. CASE pc[u].then # "register"
  <2>1. pc[u].then \in {"idle", "close", "sleep"}
    BY <1>5, <1>9 DEF GoodPc
  <2>2. ASSUME pc[u].then = "close" PROVE Closes(u, t) /\ (t \in canceled => t \in raced)
    <3>1. Closes(u, t)
      BY <1>6, <2>2 DEF Closes
    <3> QED BY <1>1, <3>1 DEF ClosingInv, ClosedByOne, Saves
  <2> QED BY <1>1, <1>2, <1>6, <1>7, <1>8, <2>1, <2>2, AdvanceNext
<1>10. CASE pc[u].then = "register"
  <2>1. u = Script /\ todo = <<>>
    BY <1>5, <1>6, <1>10 DEF GoodPc
  <2>2. tabs' = Append(tabs, t) /\ pc' = [pc EXCEPT ![u] = Idle] /\ tabs \in Seq(Tabs)
    BY <1>7, <1>10, <2>1 DEF Advance, TypeInv, RestOK
  <2>3. pc'[u] = Idle /\ \A v \in Goroutines \ {u} : pc'[v] = pc[v]
    BY <1>1, <2>2, Others
  <2>4. t <= opened /\ ~Found(t)
    BY <1>3, <1>10, <2>1 DEF ClosingInv, TabsOK
  <2>5. /\ \A q : Contains(tabs', q) <=> Contains(tabs, q) \/ q = t
        /\ \A q : Once(tabs, q) => Once(tabs', q)
    BY <2>2, <2>4, Added DEF Found
  <2>6. \A q : Found(q)' <=> Found(q) \/ q = t
    BY <1>2, <2>5 DEF Found
  <2>7. TabsOK'
    BY <1>2, <2>1, <2>3, <2>4, <2>5, <2>6 DEF ClosingInv, TabsOK, Idle, Found
  <2>8. MainOK'
    <3>1. pc'[Main] = pc[Main] /\ phase = "run"
      BY <1>8, <2>1, <2>3, RecorderAssumption DEF Goroutines
    <3> QED BY <1>2, <3>1 DEF ClosingInv, MainOK
  <2>9. \A x \in Tabs : Tracked(x)' /\ ((x \in raced)' \/ ClosedByOne(x)')
    <3>1. \A x : ~Closes(u, x)'
      BY <2>3 DEF Closes, Contains, Idle
    <3>2. \A x \in Tabs : (Past(u, x)' <=> Past(u, x)) /\ (Saves(u, x)' <=> Saves(u, x))
      BY <1>1, <2>3 DEF Past, Saves, Idle
    <3> QED BY <1>1, <1>2, <2>3, <2>5, <2>6, <3>1, <3>2, PairsKept
  <2> QED BY <2>7, <2>8, <2>9 DEF ClosingInv
<1> QED BY <1>9, <1>10

\* The tabs, when one is made.
LEMMA NewTabClosing ==
  ASSUME TypeInv, TypeInv', ClosingInv, NewTab
  PROVE  ClosingInv'
<1>1. /\ UNCHANGED <<canceled, saver, raced, phase>> /\ opened' = opened + 1 /\ phase = "run"
      /\ pc[Script] = Idle /\ PcOK /\ tabs \in Seq(Tabs)
  BY DEF NewTab, MayCall, quiet, TypeInv, RestOK
<1>2. PICK t \in Tabs : t = opened + 1
  BY RecorderAssumption DEF NewTab, TypeInv, RestOK, Tabs
<1>3. opened \in Nat /\ opened' \in Nat /\ opened <= opened' /\ ~(t <= opened) /\ t <= opened'
  BY <1>1, <1>2 DEF TypeInv, RestOK
<1>4. ~Found(t)
  BY <1>3 DEF ClosingInv, TabsOK
<1>5. Script \in Goroutines /\ Script \in Callers
  BY DEF Goroutines, Callers
<1>6. CASE tabs' = Append(tabs, t) /\ pc' = pc
  <2>1. /\ \A q : Contains(tabs', q) <=> Contains(tabs, q) \/ q = t
        /\ \A q : Once(tabs, q) => Once(tabs', q)
    BY <1>1, <1>4, <1>6, Added DEF Found
  <2>2. \A q : Found(q)' <=> Found(q) \/ q = t
    BY <1>1, <2>1 DEF Found
  <2>3. TabsOK'
    <3>1. \A q \in Tabs : Found(q)' => q <= opened'
      <4>1. \A q \in Tabs : Found(q) => q <= opened
        BY DEF ClosingInv, TabsOK
      <4>2. \A q \in Tabs : q \in Nat
        BY DEF Tabs
      <4> QED BY <1>3, <2>2, <4>1, <4>2
    <3> QED BY <1>1, <1>4, <1>6, <2>1, <3>1 DEF ClosingInv, TabsOK, Idle, Found
  <2>4. MainOK'
    BY <1>1, <1>6 DEF ClosingInv, MainOK
  <2>5. \A x \in Tabs : Tracked(x)' /\ ((x \in raced)' \/ ClosedByOne(x)')
    <3>1. \A x \in Tabs : /\ Past(Script, x)' <=> Past(Script, x)
                          /\ Saves(Script, x)' <=> Saves(Script, x)
                          /\ Closes(Script, x)' <=> Closes(Script, x)
      BY <1>6 DEF Past, Saves, Closes
    <3> QED BY <1>1, <1>5, <1>6, <2>1, <2>2, <3>1, PairsKept
  <2> QED BY <2>3, <2>4, <2>5 DEF ClosingInv
<1>7. CASE Goto(Script, "capture", <<t>>, "register") /\ UNCHANGED tabs
  <2> DEFINE r == [op |-> "capture", todo |-> <<t>>, then |-> "register"]
  <2>1. /\ pc' = [pc EXCEPT ![Script] = r]
        /\ r.op = "capture" /\ r.then = "register" /\ Head(r.todo) = t
    BY <1>7 DEF Goto
  <2> HIDE DEF r
  <2>2. pc'[Script] = r /\ \A v \in Goroutines \ {Script} : pc'[v] = pc[v]
    BY <1>1, <1>5, <2>1, Others
  <2>3. TabsOK' /\ MainOK'
    BY <1>1, <1>3, <1>4, <1>5, <1>7, <2>1, <2>2, ListKept
  <2>4. \A x : ~Closes(Script, x)'
    BY <2>1, <2>2 DEF Closes
  <2>5. \A x \in Tabs : /\ Past(Script, x)' <=> Past(Script, x)
                        /\ Saves(Script, x)' <=> Saves(Script, x)
    BY <1>1, <2>1, <2>2 DEF Past, Saves, Idle
  <2>6. \A x \in Tabs : Found(x)' <=> Found(x)
    BY <1>1, <1>7 DEF Found
  <2>7. \A x \in Tabs : Tracked(x)' /\ ((x \in raced)' \/ ClosedByOne(x)')
    BY <1>1, <1>5, <1>7, <2>2, <2>4, <2>5, <2>6, PairsKept
  <2> QED BY <2>3, <2>7 DEF ClosingInv
<1> QED BY <1>2, <1>6, <1>7 DEF NewTab

\* A call begins; if it closes a tab that another closes, or that its
\* caller's tab no longer waits for, then the tab is raced.
LEMMA CallClosing ==
  ASSUME TypeInv, TypeInv', ClosingInv, NEW u \in Callers, NEW t \in Tabs,
         NEW then \in {"idle", "close"}, Call(u, t, then)
  PROVE  ClosingInv'
<1> DEFINE r == [op |-> "capture", todo |-> <<t>>, then |-> then]
<1>1. /\ UNCHANGED <<canceled, saver, opened, tabs, phase>> /\ pc[u] = Idle /\ PcOK
      /\ u = Script => phase = "run"
      /\ raced \subseteq raced' /\ pc' = [pc EXCEPT ![u] = r]
      /\ Found(t)
  BY KnownIsFound DEF Call, MayCall, quiet, TypeInv, Goto
<1>2. r.op = "capture" /\ r.then = then /\ \A x : Contains(r.todo, x) => x = t
  BY DEF Contains
<1> HIDE DEF r
<1>3. u \in Goroutines /\ pc'[u] = r /\ \A v \in Goroutines \ {u} : pc'[v] = pc[v]
  BY <1>1, Others DEF Goroutines
<1>4. Idle.op = "idle" /\ Idle.then = "idle"
  BY DEF Idle
<1>5. CASE then = "idle"
  <2>1. \A x : ~Closes(u, x)'
    BY <1>2, <1>3, <1>5 DEF Closes
  <2>2. raced' = raced
    BY <1>5 DEF Call
  <2> QED BY <1>1, <1>2, <1>3, <1>4, <1>5, <2>1, <2>2, CallerNext
<1>6. CASE then = "close"
  <2>1. TabsOK' /\ MainOK'
    <3>1. opened \in Nat /\ opened' = opened /\ opened <= opened'
      BY <1>1, RecorderAssumption DEF TypeInv, RestOK
    <3> QED BY <1>1, <1>2, <1>3, <1>6, <3>1, ListKept
  <2>2. \A x \in Tabs : (Past(u, x)' <=> Past(u, x)) /\ (Saves(u, x)' <=> Saves(u, x))
    BY <1>1, <1>2, <1>3, <1>4 DEF Past, Saves
  <2>3. \A x \in Tabs : Found(x)' <=> Found(x)
    BY <1>1 DEF Found
  <2>4. \A x \in Tabs : Closes(u, x)' => x = t
    BY <1>2, <1>3 DEF Closes
  <2>5. \/ t \in raced'
        \/ /\ \A v \in Goroutines : ~Closes(v, t)
           /\ u = Callback => /\ Contains(tabs, Home)
                              /\ \A v \in Goroutines : ~Past(v, Home)
    <3> SUFFICES ASSUME t \notin raced'
                 PROVE  /\ \A v \in Goroutines : ~Closes(v, t)
                        /\ u = Callback => /\ Contains(tabs, Home)
                                           /\ \A v \in Goroutines : ~Past(v, Home)
      OBVIOUS
    <3>1. \A v \in Goroutines : ~Closes(v, t) /\ ~Late(u, v)
      <4>1. DOMAIN pc = Goroutines
        BY <1>1 DEF PcOK
      <4> QED BY <1>6, <4>1 DEF Call
    <3>2. ASSUME u = Callback PROVE \A v \in Goroutines : ~Past(v, Home)
      BY <3>1, <3>2 DEF Late, Past
    <3>3. ASSUME u = Callback PROVE Contains(tabs, Home)
      <4>1. Found(Home) /\ ~Saved(Home) /\ Home \in Tabs
        BY <3>3, KnownIsFound, RecorderAssumption DEF Call, MayCall, Home, Tabs
      <4>2. \A v \in Goroutines : ~Saves(v, Home)
        BY <3>2, <3>3 DEF Past, Saves
      <4>3. Home \notin canceled
        BY <4>1, <4>2 DEF ClosingInv, Tracked
      <4> QED BY <4>1, <4>3 DEF Found
    <3> QED BY <3>1, <3>2, <3>3
  <2>6. ASSUME NEW x \in Tabs, Closes(u, x)'
        PROVE  \/ Found(x) /\ x \in raced'
               \/ /\ Found(x) /\ \A v \in Goroutines : ~Closes(v, x)
                  /\ x \in canceled => pc'[u].op = "capture"
                  /\ u = Callback => /\ Contains(tabs, Home)
                                     /\ \A v \in Goroutines : ~Past(v, Home)
    BY <1>1, <1>2, <1>3, <2>4, <2>5, <2>6
  <2>7. \A x \in Tabs : Tracked(x)' /\ ((x \in raced)' \/ ClosedByOne(x)')
    BY <1>1, <1>3, <2>2, <2>3, <2>6, PairsKept
  <2> QED BY <2>1, <2>7 DEF ClosingInv
<1> QED BY <1>5, <1>6

\* The script ends and main has the list of tabs to close.
LEMMA EndsClosing ==
  ASSUME TypeInv, TypeInv', ClosingInv, ScriptEnds
  PROVE  ClosingInv'
<1>1. /\ UNCHANGED <<canceled, saver, opened, tabs>> /\ phase = "run" /\ phase' = "sweep"
      /\ pc[Script].op \in {"idle", "stopped"} /\ pc[Main] = Idle /\ PcOK
      /\ raced \subseteq raced' /\ tabs \in Seq(Tabs)
  BY DEF ScriptEnds, mainOnly, ClosingInv, MainOK, TypeInv, RestOK
<1>2. /\ Main \in Goroutines /\ Script \in Goroutines /\ Main # Script
      /\ Idle.op = "idle" /\ Idle.then = "idle" /\ Idle.todo = <<>>
  BY RecorderAssumption DEF Goroutines, Callers, Idle
<1>3. /\ \A v \in Goroutines \ {Main} : pc'[v] = pc[v]
      /\ pc'[Main].todo = tabs /\ pc'[Main].then = "idle" /\ pc'[Main].op \in {"idle", "wait"}
  <2>1. CASE tabs = <<>>
    BY <1>1, <1>2, <2>1 DEF ScriptEnds
  <2>2. CASE tabs # <<>>
    <3> DEFINE r == [op |-> "wait", todo |-> tabs, then |-> "idle"]
    <3>1. pc' = [pc EXCEPT ![Main] = r] /\ r.todo = tabs /\ r.then = "idle" /\ r.op = "wait"
      BY <2>2 DEF ScriptEnds
    <3> HIDE DEF r
    <3> QED BY <1>1, <1>2, <3>1, Others
  <2> QED BY <2>1, <2>2
<1>4. \A x : ~Saves(Main, x) /\ ~Saves(Main, x)' /\ ~Past(Main, x) /\ ~Past(Main, x)'
  BY <1>1, <1>2, <1>3 DEF Saves, Past
<1>5. \A x : Found(x)' <=> Found(x)
  BY <1>1 DEF Found
<1>6. TabsOK'
  BY <1>1, <1>2, <1>3, <1>5 DEF ClosingInv, TabsOK
<1>7. MainOK'
  BY <1>1, <1>2, <1>3, <1>4 DEF ClosingInv, TabsOK, MainOK
<1>8. ASSUME NEW x \in Tabs, Closes(Main, x)'
      PROVE  \/ Found(x) /\ x \in raced'
             \/ /\ Found(x) /\ \A v \in Goroutines : ~Closes(v, x)
                /\ x \in canceled => pc'[Main].op = "capture"
                /\ Main = Callback => /\ Contains(tabs, Home)
                                      /\ \A v \in Goroutines : ~Past(v, Home)
  <2>1. Contains(tabs, x) /\ Found(x) /\ x \notin canceled
    BY <1>3, <1>8 DEF Closes, Found, ClosingInv, TabsOK
  <2>2. CASE Closes(Callback, x)
    <3>1. x \in ToSet(tabs)
      BY <1>1, <2>1 DEF Contains, ToSet
    <3> QED BY <2>1, <2>2, <3>1 DEF ScriptEnds
  <2>3. CASE ~Closes(Callback, x)
    <3>1. ~Closes(Script, x) /\ ~Closes(Main, x)
      BY <1>1, <1>2, RestersDoNotClose DEF Resting
    <3>2. Main # Callback
      BY RecorderAssumption DEF Callers
    <3> QED BY <2>1, <2>3, <3>1, <3>2 DEF Goroutines, Callers
  <2> QED BY <2>2, <2>3
<1>9. \A x \in Tabs : Tracked(x)' /\ ((x \in raced)' \/ ClosedByOne(x)')
  BY <1>1, <1>2, <1>3, <1>4, <1>5, <1>8, PairsKept
<1> QED BY <1>6, <1>7, <1>9 DEF ClosingInv

\* What holds of a goroutine that is closing a tab.
LEMMA CloserFacts ==
  ASSUME TypeInv, ClosingInv, NEW u \in Goroutines, pc[u].op \in Closing
  PROVE  /\ Head(pc[u].todo) \in Tabs /\ Closes(u, Head(pc[u].todo)) /\ pc[u].then = "idle"
         /\ Found(Head(pc[u].todo))
         /\ u = Script => phase = "run"
         /\ u = Main => phase = "sweep"
         /\ \A x : Closes(u, x) <=> Contains(pc[u].todo, x)
<1>1. /\ GoodPc(u, pc[u]) /\ pc[u].op \notin Resting /\ Head(pc[u].todo) \in Tabs
  BY Heads DEF TypeInv, Closing, Resting
<1>2. pc[u].todo \in Seq(Tabs) /\ pc[u].todo # <<>> /\ pc[u].then = "idle"
  BY <1>1 DEF GoodPc
<1>3. Contains(pc[u].todo, Head(pc[u].todo))
  <2>1. 1 \in DOMAIN pc[u].todo /\ Head(pc[u].todo) = pc[u].todo[1]
    BY <1>2
  <2> QED BY <2>1 DEF Contains
<1>4. \A x : Closes(u, x) <=> Contains(pc[u].todo, x)
  BY DEF Closes, Closing
<1>5. u = Script => phase = "run"
  BY DEF ClosingInv, MainOK, Closing
<1>6. u = Main => phase = "sweep"
  BY DEF ClosingInv, MainOK, Closing, Idle
<1>7. Found(Head(pc[u].todo))
  BY <1>1, <1>3, <1>4 DEF ClosingInv, Tracked
<1> QED BY <1>1, <1>2, <1>3, <1>4, <1>5, <1>6, <1>7

\* The callbacks of a tab are done.
LEMMA WaitClosing ==
  ASSUME TypeInv, TypeInv', ClosingInv, NEW u \in Goroutines, WaitGroup(u)
  PROVE  ClosingInv'
<1>1. PICK t \in Tabs : t = Head(pc[u].todo)
  BY CloserFacts DEF WaitGroup, Closing
<1>2. /\ UNCHANGED <<raced, opened, phase, tabs, canceled, saver>> /\ pc[u].op = "wait"
      /\ pc' = [pc EXCEPT ![u].op = "cancel"] /\ PcOK
  BY DEF WaitGroup, closeOnly, TypeInv
<1>3. /\ pc'[u].op = "cancel" /\ pc'[u].todo = pc[u].todo /\ pc'[u].then = pc[u].then
      /\ \A v \in Goroutines \ {u} : pc'[v] = pc[v]
  BY <1>2, OpOnly
<1>4. /\ pc[u].then = "idle" /\ (u = Script => phase = "run") /\ (u = Main => phase = "sweep")
      /\ Callback \in Goroutines /\ Script \in Goroutines /\ Main \in Goroutines
      /\ Home \in Tabs
  BY <1>2, CloserFacts, RecorderAssumption DEF Closing, Goroutines, Callers, Home, Tabs
<1>5. /\ \A x : Found(x)' <=> Found(x)
      /\ \A x \in Tabs, v \in Goroutines : Saves(v, x)' <=> Saves(v, x)
      /\ \A x \in Tabs, v \in Goroutines : Closes(v, x)' <=> Closes(v, x)
      /\ \A x \in Tabs, v \in Goroutines : Past(v, x)' => Past(v, x) \/ (v = u /\ x = t)
  BY <1>1, <1>2, <1>3 DEF Found, Saves, Closes, Past
<1>6. \A x \in Tabs : Saved(x)' <=> Saved(x)
  BY <1>2 DEF Saved
<1>7. TabsOK'
  BY <1>2, <1>3, <1>4, <1>5 DEF ClosingInv, TabsOK
<1>8. MainOK'
  BY <1>2, <1>3, <1>4, <1>5 DEF ClosingInv, MainOK
<1>9. ASSUME NEW x \in Tabs PROVE Tracked(x)'
  BY <1>2, <1>5, <1>6 DEF ClosingInv, Tracked
<1>10. ASSUME NEW x \in Tabs, x \notin raced PROVE ClosedByOne(x)'
  <2>1. ClosedByOne(x)
    BY <1>10 DEF ClosingInv
  <2>2. ASSUME x \in canceled, NEW v \in Goroutines, Closes(v, x)
        PROVE  pc'[v].op = "capture" \/ (Saves(v, x) /\ ~Saved(x))
    <3>1. v # u
      BY <1>2, <2>1, <2>2 DEF ClosedByOne, Saves
    <3> QED BY <1>3, <2>1, <2>2, <3>1 DEF ClosedByOne
  <2>3. ASSUME Closes(Callback, x) PROVE \A v \in Goroutines : ~Past(v, Home)'
    <3>1. \A v \in Goroutines : ~Past(v, Home)
      BY <2>1, <2>3 DEF ClosedByOne
    <3>2. t # Home
      <4>1. pc[Callback].op \notin {"idle", "stopped"}
        BY <1>2, <1>4, <2>3, RestersDoNotClose DEF Resting
      <4> QED BY <1>1, <4>1 DEF WaitGroup, CallbackDone
    <3> QED BY <1>4, <1>5, <3>1, <3>2 DEF Home
  <2> QED BY <1>2, <1>4, <1>5, <1>6, <2>1, <2>2, <2>3 DEF ClosedByOne
<1> QED BY <1>2, <1>7, <1>8, <1>9, <1>10 DEF ClosingInv

\* A tab is taken from the list and canceled.
LEMMA CancelClosing ==
  ASSUME TypeInv, TypeInv', ClosingInv, NEW u \in Goroutines, Cancel(u)
  PROVE  ClosingInv'
<1>1. PICK t \in Tabs : t = Head(pc[u].todo)
  BY CloserFacts DEF Cancel, Closing
<1>2. /\ UNCHANGED <<raced, opened, phase, saver>> /\ pc[u].op = "cancel"
      /\ tabs' = Without(t) /\ canceled' = canceled \cup {t}
      /\ pc' = [pc EXCEPT ![u].op = "save"] /\ PcOK /\ tabs \in Seq(Tabs)
  BY <1>1 DEF Cancel, closeOnly, TypeInv, RestOK
<1>3. /\ pc'[u].op = "save" /\ pc'[u].todo = pc[u].todo /\ pc'[u].then = pc[u].then
      /\ \A v \in Goroutines \ {u} : pc'[v] = pc[v]
  BY <1>2, OpOnly
<1>4. /\ pc[u].then = "idle" /\ (u = Script => phase = "run") /\ (u = Main => phase = "sweep")
      /\ Found(t) /\ Closes(u, t)
      /\ Callback \in Goroutines /\ Script \in Goroutines /\ Main \in Goroutines
      /\ Home \in Tabs
  BY <1>1, <1>2, CloserFacts, RecorderAssumption DEF Closing, Goroutines, Callers, Home,
     Tabs
<1>5. /\ ~Contains(tabs', t)
      /\ \A q : q # t => (Contains(tabs', q) <=> Contains(tabs, q))
      /\ \A q : Once(tabs, q) => Once(tabs', q)
  BY <1>2, Unregistered DEF ClosingInv, TabsOK
<1>6. /\ \A x : Found(x)' <=> Found(x)
      /\ \A x \in Tabs, v \in Goroutines : Saves(v, x)' <=> Saves(v, x) \/ (v = u /\ x = t)
      /\ \A x \in Tabs, v \in Goroutines : Closes(v, x)' <=> Closes(v, x)
      /\ \A x \in Tabs, v \in Goroutines : Past(v, x)' <=> Past(v, x)
  <2>1. \A x : Found(x)' <=> Found(x)
    BY <1>2, <1>4, <1>5 DEF Found
  <2>2. /\ \A x \in Tabs, v \in Goroutines : Saves(v, x)' <=> Saves(v, x) \/ (v = u /\ x = t)
        /\ \A x \in Tabs, v \in Goroutines : Past(v, x)' <=> Past(v, x)
    BY <1>1, <1>2, <1>3 DEF Saves, Past
  <2>3. \A x \in Tabs, v \in Goroutines : Closes(v, x)' <=> Closes(v, x)
    BY <1>2, <1>3 DEF Closes
  <2> QED BY <2>1, <2>2, <2>3
<1>7. \A x \in Tabs : Saved(x)' <=> Saved(x)
  BY <1>2 DEF Saved
<1>8. TabsOK'
  <2>1. \A x \in Tabs : /\ Once(tabs', x)
                        /\ x \in canceled' => ~Contains(tabs', x)
                        /\ Found(x)' => x <= opened'
    BY <1>2, <1>5, <1>6 DEF ClosingInv, TabsOK
  <2>2. pc'[Script].then = "register" => pc'[Script] = pc[Script]
    BY <1>3, <1>4
  <2>3. pc'[Script].then = "register" => /\ Head(pc'[Script].todo) <= opened'
                                         /\ ~Found(Head(pc[Script].todo))'
    BY <1>2, <1>6, <2>2 DEF ClosingInv, TabsOK
  <2> QED BY <2>1, <2>3 DEF TabsOK
<1>9. MainOK'
  <2>1. \A x \in Tabs : Once(pc'[Main].todo, x)
    BY <1>3, <1>4 DEF ClosingInv, MainOK
  <2>2. phase # "sweep" => pc'[Main] = Idle
    BY <1>3, <1>4 DEF ClosingInv, MainOK
  <2>3. ASSUME phase # "run"
        PROVE  /\ pc'[Script].op \in {"idle", "stopped"}
               /\ \A x \in Tabs : Contains(tabs', x) => /\ Contains(pc'[Main].todo, x)
                                                        /\ ~Saves(Main, x)'
    <3>1. pc'[Script].op \in {"idle", "stopped"}
      BY <1>3, <1>4, <2>3 DEF ClosingInv, MainOK
    <3>2. ASSUME NEW x \in Tabs, Contains(tabs', x)
          PROVE  Contains(pc'[Main].todo, x) /\ ~Saves(Main, x)'
      <4>1. x # t /\ Contains(tabs, x)
        BY <1>5, <3>2
      <4>2. Contains(pc[Main].todo, x) /\ ~Saves(Main, x)
        BY <2>3, <4>1 DEF ClosingInv, MainOK
      <4>3. pc'[Main].todo = pc[Main].todo
        BY <1>3, <1>4
      <4> QED BY <1>4, <1>6, <4>1, <4>2, <4>3
    <3> QED BY <3>1, <3>2
  <2> QED BY <1>2, <2>1, <2>2, <2>3 DEF MainOK
<1>10. ASSUME NEW x \in Tabs PROVE Tracked(x)'
  <2>1. Tracked(x)
    BY DEF ClosingInv
  <2> QED BY <1>2, <1>6, <1>7, <2>1 DEF Tracked
<1>11. ASSUME NEW x \in Tabs, x \notin raced PROVE ClosedByOne(x)'
  <2>1. ClosedByOne(x)
    BY <1>11 DEF ClosingInv
  <2>2. ASSUME x \in canceled', NEW v \in Goroutines, Closes(v, x)
        PROVE  pc'[v].op = "capture" \/ (Saves(v, x)' /\ ~Saved(x))
    <3>1. CASE x = t
      <4>1. v = u /\ ~(t \in canceled)
        BY <1>2, <1>4, <2>1, <2>2, <3>1 DEF ClosedByOne, Saves
      <4>2. ~Saved(t)
        BY <4>1 DEF ClosingInv, Tracked
      <4> QED BY <1>6, <3>1, <4>1, <4>2
    <3>2. CASE x # t
      <4>1. x \in canceled
        BY <1>2, <2>2, <3>2
      <4>2. v # u
        BY <1>2, <2>1, <2>2, <4>1 DEF ClosedByOne, Saves
      <4> QED BY <1>3, <1>6, <2>1, <2>2, <4>1, <4>2 DEF ClosedByOne
    <3> QED BY <3>1, <3>2
  <2>3. ASSUME Closes(Callback, x)
        PROVE  Contains(tabs', Home) /\ \A v \in Goroutines : ~Past(v, Home)'
    <3>1. Contains(tabs, Home) /\ \A v \in Goroutines : ~Past(v, Home)
      BY <2>1, <2>3 DEF ClosedByOne
    <3>2. t # Home
      BY <1>1, <1>2, <3>1 DEF Past
    <3> QED BY <1>4, <1>5, <1>6, <3>1, <3>2 DEF Home
  <2> QED BY <1>2, <1>4, <1>6, <1>7, <2>1, <2>2, <2>3 DEF ClosedByOne
<1> QED BY <1>2, <1>8, <1>9, <1>10, <1>11 DEF ClosingInv

\* The elements of a sequence are the first and those of the rest.
LEMMA FirstGone ==
  ASSUME NEW s \in Seq(Tabs), s # <<>>
  PROVE  /\ \A x : Contains(s, x) <=> x = Head(s) \/ Contains(Tail(s), x)
         /\ \A x : Once(s, x) => Once(Tail(s), x)
         /\ Once(s, Head(s)) => ~Contains(Tail(s), Head(s))
<1>1. /\ Tail(s) \in Seq(Tabs) /\ Len(Tail(s)) = Len(s) - 1 /\ Len(s) \in Nat \ {0}
      /\ \A i \in 1..Len(Tail(s)) : Tail(s)[i] = s[i + 1]
      /\ Head(s) = s[1]
  BY HeadTailProperties, EmptySeq
<1>2. DOMAIN s = 1..Len(s) /\ DOMAIN Tail(s) = 1..(Len(s) - 1)
  BY <1>1
<1>3. \A i \in DOMAIN Tail(s) : i + 1 \in DOMAIN s /\ i + 1 # 1 /\ Tail(s)[i] = s[i + 1]
  BY <1>1, <1>2
<1>4. \A i \in DOMAIN s : i = 1 \/ (i - 1 \in DOMAIN Tail(s) /\ Tail(s)[i - 1] = s[i])
  <2> TAKE i \in DOMAIN s
  <2>1. CASE i # 1
    <3>1. i - 1 \in 1..Len(Tail(s)) /\ (i - 1) + 1 = i
      BY <1>1, <1>2, <2>1
    <3> QED BY <1>1, <1>2, <3>1
  <2> QED BY <2>1
<1>5. \A x : Contains(s, x) <=> x = Head(s) \/ Contains(Tail(s), x)
  BY <1>1, <1>2, <1>3, <1>4 DEF Contains
<1>6. \A x : Once(s, x) => Once(Tail(s), x)
  BY <1>2, <1>3 DEF Once
<1>7. Once(s, Head(s)) => ~Contains(Tail(s), Head(s))
  BY <1>1, <1>2, <1>3 DEF Once, Contains
<1> QED BY <1>5, <1>6, <1>7

\* A saver is started: it is the first one, unless the tab is raced.
LEMMA SaveClosing ==
  ASSUME TypeInv, TypeInv', ClosingInv, NEW u \in Goroutines, SaveRecord(u)
  PROVE  ClosingInv'
<1>1. PICK t \in Tabs : t = Head(pc[u].todo)
  BY CloserFacts DEF SaveRecord, Closing
<1>2. /\ UNCHANGED <<raced, opened, phase, tabs, canceled>> /\ pc[u].op = "save" /\ PcOK
      /\ pc[u].todo \in Seq(Tabs) /\ pc[u].todo # <<>> /\ (u # Main => Len(pc[u].todo) = 1)
  BY Heads DEF SaveRecord, closeOnly, TypeInv, GoodPc, Closing, Resting
<1>3. /\ pc[u].then = "idle" /\ (u = Script => phase = "run") /\ (u = Main => phase = "sweep")
      /\ Found(t) /\ Closes(u, t) /\ Saves(u, t)
      /\ Callback \in Goroutines /\ Script \in Goroutines /\ Main \in Goroutines
      /\ Home \in Tabs
  BY <1>1, <1>2, CloserFacts, RecorderAssumption DEF Closing, Goroutines, Callers, Home,
     Tabs,
                                                     Saves
<1>4. PICK todo \in Seq(Tabs) :
        /\ pc'[u].op \in {"idle", "wait"} /\ pc'[u].then = "idle" /\ pc'[u].todo = todo
        /\ todo = Tail(pc[u].todo)
        /\ u # Main \/ todo = <<>> => pc'[u] = Idle
        /\ \A v \in Goroutines \ {u} : pc'[v] = pc[v]
  <2>1. Tail(pc[u].todo) \in Seq(Tabs) /\ Len(Tail(pc[u].todo)) = Len(pc[u].todo) - 1
    BY <1>2, HeadTailProperties
  <2>2. PICK n \in Nat : n # 0 /\ n = Len(pc[u].todo)
    BY <1>2, EmptySeq, LenProperties
  <2> DEFINE last == ~(n > 1)
  <2>5. (last => n - 1 = 0) /\ (~last => n # 1 /\ n - 1 # 0)
    <3>1. \A m \in Nat : m # 0 => IF m > 1 THEN m # 1 /\ m - 1 # 0 ELSE m - 1 = 0
      OBVIOUS
    <3> QED BY <2>2, <3>1
  <2>6. /\ last => Tail(pc[u].todo) = <<>>
        /\ ~last => u = Main /\ Tail(pc[u].todo) # <<>>
    <3> HIDE DEF last
    <3>1. last => Len(Tail(pc[u].todo)) = 0
      BY <2>1, <2>2, <2>5
    <3>2. ~last => Len(Tail(pc[u].todo)) # 0 /\ Len(pc[u].todo) # 1
      BY <2>1, <2>2, <2>5
    <3> QED BY <1>2, <2>1, <3>1, <3>2, EmptySeq
  <2>3. CASE Len(pc[u].todo) > 1
    <3> DEFINE r == [op |-> "wait", todo |-> Tail(pc[u].todo), then |-> "idle"]
    <3>1. /\ pc' = [pc EXCEPT ![u] = r]
          /\ r.op = "wait" /\ r.todo = Tail(pc[u].todo) /\ r.then = "idle"
      BY <2>3 DEF SaveRecord, Goto
    <3> HIDE DEF r
    <3>2. pc'[u] = r /\ \A v \in Goroutines \ {u} : pc'[v] = pc[v]
      BY <1>2, <3>1, Others
    <3>3. u = Main /\ Tail(pc[u].todo) # <<>>
      BY <2>2, <2>3, <2>6
    <3> QED BY <2>1, <3>1, <3>2, <3>3
  <2>4. CASE ~(Len(pc[u].todo) > 1)
    <3>1. pc' = [pc EXCEPT ![u] = Idle]
      BY <2>4 DEF SaveRecord
    <3>2. pc'[u] = Idle /\ \A v \in Goroutines \ {u} : pc'[v] = pc[v]
      BY <1>2, <3>1, Others
    <3>3. Tail(pc[u].todo) = <<>>
      BY <2>2, <2>4, <2>6
    <3>4. Idle.op = "idle" /\ Idle.then = "idle" /\ Idle.todo = <<>>
      BY DEF Idle
    <3> QED BY <2>1, <3>2, <3>3, <3>4
  <2> QED BY <2>3, <2>4
<1>5. /\ \A x : Contains(pc[u].todo, x) <=> x = t \/ Contains(todo, x)
      /\ \A x : Once(pc[u].todo, x) => Once(todo, x)
      /\ Once(pc[u].todo, t) => ~Contains(todo, t)
  BY <1>1, <1>2, <1>4, FirstGone
<1>6. /\ \A x : Found(x)' <=> Found(x)
      /\ \A x \in Tabs, v \in Goroutines : Saves(v, x)' <=> Saves(v, x) /\ v # u
      /\ \A x \in Tabs, v \in Goroutines : Past(v, x)' => Past(v, x)
      /\ \A x \in Tabs, v \in Goroutines : Closes(v, x)' => Closes(v, x)
      /\ \A x \in Tabs : Closes(u, x)' => Contains(todo, x) /\ u = Main
  <2>1. \A x : Found(x)' <=> Found(x)
    BY <1>2 DEF Found
  <2>2. /\ \A x \in Tabs, v \in Goroutines : Saves(v, x)' <=> Saves(v, x) /\ v # u
        /\ \A x \in Tabs, v \in Goroutines : Past(v, x)' => Past(v, x)
    BY <1>4 DEF Saves, Past
  <2>3. ASSUME NEW x \in Tabs, Closes(u, x)' PROVE Contains(todo, x) /\ u = Main
    <3>1. Contains(todo, x) /\ pc'[u].op # "idle"
      BY <1>4, <2>3 DEF Closes
    <3> QED BY <1>4, <3>1 DEF Idle
  <2>4. \A x \in Tabs : Closes(u, x)' => Closes(u, x)
    BY <1>2, <1>5, <2>3, CloserFacts DEF Closing
  <2>5. \A x \in Tabs, v \in Goroutines : Closes(v, x)' => Closes(v, x)
    BY <1>4, <2>4 DEF Closes
  <2> QED BY <2>1, <2>2, <2>3, <2>5
<1>7. PICK k \in 1..3 : /\ saver[<<t, k>>] = "none"
                        /\ \A j \in 1..k - 1 : saver[<<t, j>>] # "none"
                        /\ saver' = [saver EXCEPT ![<<t, k>>] = "wait"]
  BY <1>1 DEF SaveRecord
<1>8. /\ \A x \in Tabs : Saved(x)' <=> Saved(x) \/ x = t
      /\ \A x \in Tabs, j \in 1..3 : x # t \/ j # k => saver'[<<x, j>>] = saver[<<x, j>>]
  <2>1. \A x \in Tabs, j \in 1..3 : <<x, j>> \in Savers
    BY DEF Savers
  <2>2. saver'[<<t, k>>] = "wait"
    BY <1>7, <2>1 DEF TypeInv, RestOK
  <2>3. \A x \in Tabs, j \in 1..3 : x # t \/ j # k => saver'[<<x, j>>] = saver[<<x, j>>]
    BY <1>7, <2>1 DEF TypeInv, RestOK
  <2> QED BY <1>7, <2>2, <2>3 DEF Saved
<1>9. TabsOK'
  BY <1>2, <1>3, <1>4, <1>6 DEF ClosingInv, TabsOK
<1>10. MainOK'
  <2>1. \A x \in Tabs : Once(pc'[Main].todo, x)
    <3>1. \A x \in Tabs : Once(pc[Main].todo, x)
      BY DEF ClosingInv, MainOK
    <3> QED BY <1>3, <1>4, <1>5, <3>1
  <2>2. phase # "sweep" => pc'[Main] = Idle
    BY <1>3, <1>4 DEF ClosingInv, MainOK
  <2>3. ASSUME phase # "run"
        PROVE  /\ pc'[Script].op \in {"idle", "stopped"}
               /\ \A x \in Tabs : Contains(tabs, x) => /\ Contains(pc'[Main].todo, x)
                                                       /\ ~Saves(Main, x)'
    <3>1. pc'[Script].op \in {"idle", "stopped"}
      BY <1>3, <1>4, <2>3 DEF ClosingInv, MainOK
    <3>2. ASSUME NEW x \in Tabs, Contains(tabs, x)
          PROVE  Contains(pc'[Main].todo, x) /\ ~Saves(Main, x)'
      <4>1. Contains(pc[Main].todo, x) /\ ~Saves(Main, x)
        BY <2>3, <3>2 DEF ClosingInv, MainOK
      <4>2. Contains(pc'[Main].todo, x)
        <5>1. CASE u = Main
          BY <1>3, <1>4, <1>5, <4>1, <5>1
        <5>2. CASE u # Main
          BY <1>3, <1>4, <4>1, <5>2
        <5> QED BY <5>1, <5>2
      <4> QED BY <1>3, <1>6, <4>1, <4>2
    <3> QED BY <3>1, <3>2
  <2> QED BY <1>2, <2>1, <2>2, <2>3 DEF MainOK
<1>11. ASSUME NEW x \in Tabs PROVE Tracked(x)'
  <2>1. Tracked(x) /\ t \in canceled
    BY <1>3 DEF ClosingInv, Tracked
  <2>2. x \in canceled => Saved(x)' \/ \E v \in Goroutines : Saves(v, x)'
    <3>1. CASE x = t
      BY <1>8, <3>1
    <3>2. CASE x # t
      <4>1. ~Saves(u, x)
        BY <1>1, <3>2 DEF Saves
      <4> QED BY <1>6, <1>8, <2>1, <4>1 DEF Tracked
    <3> QED BY <3>1, <3>2
  <2>3. /\ Saved(x)' => x \in canceled
        /\ \A v \in Goroutines : Closes(v, x)' => Found(x)'
        /\ \A v \in Goroutines : Saves(v, x)' => x \in canceled
    BY <1>6, <1>8, <2>1 DEF Tracked
  <2> QED BY <1>2, <2>2, <2>3 DEF Tracked
<1>12. ASSUME NEW x \in Tabs, x \notin raced PROVE ClosedByOne(x)'
  <2>1. ClosedByOne(x)
    BY <1>12 DEF ClosingInv
  <2>2. ASSUME x \in canceled, NEW v \in Goroutines, Closes(v, x)'
        PROVE  pc'[v].op = "capture" \/ (Saves(v, x)' /\ ~Saved(x)')
    <3>1. Closes(v, x)
      BY <1>6, <2>2
    <3>2. CASE v = u
      <4>1. Saves(u, x)
        BY <1>2, <2>1, <2>2, <3>1, <3>2 DEF ClosedByOne
      <4>2. x = t
        BY <1>1, <4>1 DEF Saves
      <4>3. ~Contains(todo, t)
        BY <1>5, <1>6, <2>2, <3>2, <4>2 DEF ClosingInv, MainOK
      <4> QED BY <1>6, <2>2, <3>2, <4>2, <4>3
    <3>3. CASE v # u
      <4>1. x # t
        BY <1>3, <2>1, <3>1, <3>3 DEF ClosedByOne
      <4> QED BY <1>4, <1>6, <1>8, <2>1, <2>2, <3>1, <3>3, <4>1 DEF ClosedByOne
    <3> QED BY <3>2, <3>3
  <2>3. saver'[<<x, 2>>] = "none" /\ saver'[<<x, 3>>] = "none"
    <3>1. CASE x = t
      <4>1. t \in canceled
        BY <1>3 DEF ClosingInv, Tracked
      <4>2. ~Saved(t)
        BY <1>2, <1>3, <2>1, <3>1, <4>1 DEF ClosedByOne
      <4>3. k = 1
        <5>1. saver[<<t, 1>>] = "none"
          BY <4>2 DEF Saved
        <5> QED BY <1>7, <5>1
      <4>4. saver'[<<t, 2>>] = saver[<<t, 2>>] /\ saver'[<<t, 3>>] = saver[<<t, 3>>]
        <5>1. \A j \in 1..3 : j # 1 => saver'[<<t, j>>] = saver[<<t, j>>]
          BY <1>8, <4>3
        <5>2. 2 \in 1..3 /\ 3 \in 1..3 /\ 2 # 1 /\ 3 # 1
          OBVIOUS
        <5> QED BY <5>1, <5>2
      <4> QED BY <2>1, <3>1, <4>4 DEF ClosedByOne
    <3>2. CASE x # t
      <4>1. \A j \in 1..3 : saver'[<<x, j>>] = saver[<<x, j>>]
        BY <1>8, <3>2
      <4>2. 2 \in 1..3 /\ 3 \in 1..3
        OBVIOUS
      <4> QED BY <2>1, <4>1, <4>2 DEF ClosedByOne
    <3> QED BY <3>1, <3>2
  <2>4. Closes(Callback, x)' => Contains(tabs, Home) /\ \A v \in Goroutines : ~Past(v, Home)'
    BY <1>3, <1>6, <2>1 DEF ClosedByOne, Home
  <2> QED BY <1>2, <1>3, <1>6, <2>1, <2>2, <2>3, <2>4 DEF ClosedByOne
<1> QED BY <1>2, <1>9, <1>10, <1>11, <1>12 DEF ClosingInv

\* Every step keeps the tabs in order.
LEMMA ClosingNext ==
  ASSUME TypeInv, TypeInv', ClosingInv, FileCalls, [Next]_vars
  PROVE  ClosingInv'
<1>1. CASE UNCHANGED <<pc, tabs, canceled, raced, opened, phase, saver>>
  BY <1>1, PcStays
<1>2. CASE NewTab
  BY <1>2, NewTabClosing
<1>3. CASE EndRun
  BY <1>1, <1>3 DEF EndRun, mainOnly
<1>4. CASE ScriptEnds
  BY <1>4, EndsClosing
<1>5. CASE StopRun \/ Exit
  <2>1. /\ UNCHANGED <<pc, tabs, canceled, raced, opened, saver>> /\ pc[Main] = Idle
        /\ phase # "run"
    BY <1>5 DEF StopRun, Exit, mainOnly, ClosingInv, MainOK
  <2>2. MainOK'
    BY <2>1 DEF ClosingInv, MainOK, Saves
  <2>3. TabsOK'
    BY <2>1 DEF ClosingInv, TabsOK, Found
  <2>4. \A t \in Tabs : Tracked(t)' /\ ((t \in raced)' \/ ClosedByOne(t)')
    <3>1. Main \in Goroutines
      BY DEF Goroutines
    <3>2. /\ \A t \in Tabs : Past(Main, t)' <=> Past(Main, t)
          /\ \A t \in Tabs : Saves(Main, t)' <=> Saves(Main, t)
          /\ \A t \in Tabs : Found(t)' <=> Found(t)
          /\ \A t \in Tabs : Closes(Main, t)' <=> Closes(Main, t)
      BY <2>1 DEF Past, Saves, Found, Closes
    <3> QED BY <2>1, <3>1, <3>2, PairsKept
  <2> QED BY <2>2, <2>3, <2>4 DEF ClosingInv
<1>6. ASSUME NEW u \in Callers, CallStep(u) \/ Sleep(u) \/ FileCall(u) PROVE ClosingInv'
  <2>1. CASE FileCall(u)
    BY <1>1, <2>1 DEF FileCall, quiet
  <2> QED BY <1>6, <2>1, CallerClosing, ResumeClosing DEF CallStep
<1>7. ASSUME NEW u \in Callers, NEW t \in Tabs, NEW then \in {"idle", "close"}, Call(u, t, then)
      PROVE  ClosingInv'
  BY <1>7, CallClosing
<1>8. ASSUME NEW u \in Goroutines, CloseStep(u) PROVE ClosingInv'
  BY <1>8, WaitClosing, CancelClosing, SaveClosing DEF CloseStep
<1>9. ASSUME NEW t \in Tabs, RecorderStep(t) PROVE ClosingInv'
  BY <1>1, <1>9 DEF RecorderStep, CloseChannel, TakeTask, FinishRecord, recorderOnly
<1>10. ASSUME NEW s \in Savers, SaverStep(s) PROVE ClosingInv'
  <2>1. UNCHANGED <<pc, tabs, canceled, raced, opened, phase>>
    BY <1>10 DEF SaverStep, OpenRecord, StartSave, EndSave, RemoveRecord, notSaver
  <2>2. PICK v : saver' = [saver EXCEPT ![s] = v] /\ v # "none" /\ saver[s] # "none"
    BY <1>10 DEF SaverStep, OpenRecord, StartSave, EndSave, RemoveRecord
  <2>3. \A x \in Savers : saver'[x] = "none" <=> saver[x] = "none"
    BY <2>2 DEF TypeInv, RestOK
  <2> QED BY <2>1, <2>3, PcStays
<1>11. ASSUME NEW g \in Guids, Download(g) PROVE ClosingInv'
  BY <1>1, <1>11 DEF Download, quiet
<1>12. CASE UNCHANGED vars
  BY <1>1, <1>12 DEF vars, recorderVars
<1> QED BY <1>2, <1>3, <1>4, <1>5, <1>6, <1>7, <1>8, <1>9, <1>10, <1>11, <1>12
        DEF Next, MainStep, Goroutines

-----------------------------------------------------------------------------
(* The calls to the storage.                                               *)

\* A call goes on, the other goroutines do not move.
LEMMA AdvanceOthers ==
  ASSUME PcOK, NEW u \in Goroutines, NEW t, NEW todo, NEW then, Advance(u, t, todo, then)
  PROVE  \A v \in Goroutines \ {u} : pc'[v] = pc[v]
<1>1. \E r : pc' = [pc EXCEPT ![u] = r]
  <2>1. CASE todo # <<>>
    BY <2>1 DEF Advance, Goto
  <2>2. CASE todo = <<>> /\ then = "close"
    BY <2>2 DEF Advance, Goto
  <2>3. CASE todo = <<>> /\ then = "sleep"
    BY <2>3 DEF Advance, Goto
  <2>4. CASE todo = <<>> /\ then \notin {"close", "sleep"}
    BY <2>4 DEF Advance, Goto
  <2> QED BY <2>1, <2>2, <2>3, <2>4
<1> QED BY <1>1, Others

\* A call raises an error, the other goroutines do not move.
LEMMA RaiseOthers ==
  ASSUME PcOK, NEW u \in Goroutines, Raise(u)
  PROVE  \A v \in Goroutines \ {u} : pc'[v] = pc[v]
<1>1. \E r : pc' = [pc EXCEPT ![u] = r]
  BY DEF Raise, Goto
<1> QED BY <1>1, Others

\* A goroutine that does not use the storage moves.
LEMMA FileCallsKept ==
  ASSUME FileCalls, NEW u, UNCHANGED job, \A v \in Callers \ {u} : pc'[v] = pc[v],
         u \in Callers => job[u] = NoJob
  PROVE  FileCalls'
BY DEF FileCalls

\* Every step keeps the calls to the storage apart.
LEMMA FileCallsNext ==
  ASSUME TypeInv, FileInv, FileCalls, [Next]_vars
  PROVE  FileCalls'
<1> USE DEF storageVars
<1>1. CASE UNCHANGED <<job, pc>>
  BY <1>1 DEF FileCalls
<1>2. ASSUME NEW u \in Callers, pc[u].op # "idle" PROVE job[u] = NoJob
  BY <1>2 DEF FileCalls, Idle
<1>3. PcOK /\ Callers \subseteq Goroutines /\ Main \notin Callers
  BY RecorderAssumption DEF TypeInv, Goroutines
<1>4. CASE NewTab
  <2>1. Script \in Callers /\ job[Script] = NoJob /\ UNCHANGED job
    BY <1>4 DEF NewTab, MayCall, Callers
  <2>2. \A v \in Callers \ {Script} : pc'[v] = pc[v]
    BY <1>3, <1>4, <2>1, Others DEF NewTab, Goto
  <2> QED BY <2>1, <2>2, FileCallsKept
<1>5. CASE ScriptEnds
  <2>1. UNCHANGED job
    BY <1>5 DEF ScriptEnds, mainOnly
  <2>2. \A v \in Callers \ {Main} : pc'[v] = pc[v]
    <3>1. Main \in Goroutines
      BY DEF Goroutines
    <3>2. CASE tabs = <<>>
      BY <1>5, <3>2 DEF ScriptEnds
    <3>3. CASE tabs # <<>>
      BY <1>3, <1>5, <3>1, <3>3, Others DEF ScriptEnds
    <3> QED BY <3>2, <3>3
  <2> QED BY <1>3, <2>1, <2>2, FileCallsKept
<1>6. ASSUME NEW u \in Callers, Sleep(u) \/ Wake(u) \/ Capture(u) \/ Send(u) \/ Resume(u)
      PROVE  FileCalls'
  <2>1. UNCHANGED job /\ job[u] = NoJob
    <3>1. UNCHANGED job
      BY <1>6 DEF Sleep, Wake, Capture, Send, Resume
    <3>2. CASE Sleep(u)
      BY <3>2 DEF Sleep, MayCall
    <3>3. CASE Wake(u) \/ Capture(u) \/ Send(u) \/ Resume(u)
      <4>1. pc[u].op # "idle"
        BY <3>3 DEF Wake, Capture, Send, Resume
      <4> QED BY <1>2, <3>1, <4>1
    <3> QED BY <1>6, <3>1, <3>2, <3>3
  <2>2. \A v \in Goroutines \ {u} : pc'[v] = pc[v]
    <3>1. u \in Goroutines
      BY <1>3
    <3>2. CASE Sleep(u) \/ Resume(u)
      BY <1>3, <3>1, <3>2, AdvanceOthers DEF Sleep, Resume
    <3>3. CASE Wake(u)
      BY <1>3, <3>1, <3>3, AdvanceOthers, RaiseOthers DEF Wake
    <3>4. CASE Capture(u)
      BY <1>3, <3>1, <3>4, OpOnly, RaiseOthers DEF Capture
    <3>5. CASE Send(u)
      BY <1>3, <3>1, <3>5, OpOnly, RaiseOthers DEF Send
    <3> QED BY <1>6, <3>2, <3>3, <3>4, <3>5
  <2> QED BY <1>3, <2>1, <2>2, FileCallsKept
<1>7. ASSUME NEW u \in Callers, NEW t \in Tabs, NEW then, Call(u, t, then)
      PROVE  FileCalls'
  <2>1. UNCHANGED job /\ job[u] = NoJob
    BY <1>7 DEF Call, MayCall
  <2>2. \A v \in Goroutines \ {u} : pc'[v] = pc[v]
    BY <1>3, <1>7, Others DEF Call, Goto
  <2> QED BY <1>3, <2>1, <2>2, FileCallsKept
<1>8. ASSUME NEW u \in Goroutines, CloseStep(u) PROVE FileCalls'
  <2>1. UNCHANGED job /\ pc[u].op # "idle"
    BY <1>8 DEF CloseStep, WaitGroup, Cancel, SaveRecord, closeOnly
  <2>2. \A v \in Goroutines \ {u} : pc'[v] = pc[v]
    <3>1. CASE WaitGroup(u)
      BY <1>3, <3>1, OpOnly DEF WaitGroup
    <3>2. CASE Cancel(u)
      BY <1>3, <3>2, OpOnly DEF Cancel
    <3>3. CASE SaveRecord(u)
      <4>1. \E r : pc' = [pc EXCEPT ![u] = r]
        BY <3>3 DEF SaveRecord, Goto
      <4> QED BY <1>3, <4>1, Others
    <3> QED BY <1>8, <3>1, <3>2, <3>3 DEF CloseStep
  <2> QED BY <1>2, <1>3, <2>1, <2>2, FileCallsKept
<1>9. ASSUME NEW u \in Callers, FileCall(u) PROVE FileCalls'
  <2>1. UNCHANGED pc /\ pc[u] = Idle
    BY <1>9 DEF FileCall, MayCall
  <2>2. \A v \in Callers \ {u} : job'[v] = job[v]
    <3>1. \E op, p, again : Continue(u, op, p, again)
      BY <1>9 DEF FileCall, Save, LuaOpen, RemoveArtifact, SaveAuto, SaveName
    <3> QED BY <3>1, RecordPaths DEF Continue, FileInv, StorageInv, StorageTypeOK
  <2> QED BY <2>1, <2>2 DEF FileCalls
<1>10. ASSUME NEW u \in Callers, FileDone(u) PROVE FileCalls'
  <2>1. job'[u] = NoJob /\ \A v \in Callers \ {u} : job'[v] = job[v]
    BY <1>10, RecordPaths DEF FileDone, EndJob, FileInv, StorageInv, StorageTypeOK
  <2>2. \A v \in Callers \ {u} : pc'[v] = pc[v]
    BY <1>3, <1>10, RaiseOthers DEF FileDone
  <2> QED BY <2>1, <2>2 DEF FileCalls
<1>11. ASSUME NEW s \in Savers, SaverStep(s) PROVE FileCalls'
  <2>1. UNCHANGED pc
    BY <1>11 DEF SaverStep, OpenRecord, StartSave, EndSave, RemoveRecord, notSaver
  <2>2. job' = job \/ \E x : job' = [job EXCEPT ![s] = x]
    BY <1>11 DEF SaverStep, OpenRecord, StartSave, EndSave, RemoveRecord, Save, SaveName,
                 Continue, EndJob, RemoveArtifact
  <2>3. \A v \in Callers : job'[v] = job[v]
    BY <2>2, RecordPaths DEF FileInv, StorageInv, StorageTypeOK
  <2> QED BY <2>1, <2>3 DEF FileCalls
<1>12. ASSUME NEW t \in Tabs, RecorderStep(t) PROVE FileCalls'
  BY <1>1, <1>12 DEF RecorderStep, CloseChannel, TakeTask, FinishRecord, recorderOnly
<1>13. ASSUME NEW g \in Guids, Download(g) PROVE FileCalls'
  BY <1>1, <1>13 DEF Download, quiet, StartDownload, FinishDownload, CompleteDownload,
                     CancelDownload
<1>14. CASE EndRun \/ StopRun \/ Exit \/ UNCHANGED vars
  BY <1>1, <1>14 DEF EndRun, StopRun, Exit, mainOnly, vars, recorderVars
<1> QED BY <1>4, <1>5, <1>6, <1>7, <1>8, <1>9, <1>10, <1>11, <1>12, <1>13, <1>14
        DEF Next, MainStep, CallStep, Goroutines

-----------------------------------------------------------------------------
(* The recordings that are kept.                                           *)

\* How far the first saver of t is, and what the recording of t is like.
KeptOK(t) ==
  LET p == RecordName[t] s == saver[<<t, 1>>] IN
  /\ s \in {"none", "wait"} => ~Listed(p) /\ p \notin disk
  /\ s = "open" => Listed(p)
  /\ s = "save" => Listed(p) /\ p \in disk
  /\ s = "remove" => ~Listed(p) /\ images[t] = <<>>
  /\ s = "done" => (Listed(p) <=> images[t] # <<>>) /\ (Listed(p) <=> p \in disk)

\* The recordings that nobody else touched, closed by one call at a time; and
\* the process exits when every saver is done.
KeptInv ==
  /\ phase = "exit" => AllSaved
  /\ \A t \in Tabs : t \in raced \/ RecordName[t] \in dirty \/ KeptOK(t)

\* The recordings, at the start.
LEMMA InitKept ==
  ASSUME Init
  PROVE  KeptInv
<1>1. ASSUME NEW t \in Tabs PROVE KeptOK(t)
  <2>1. saver[<<t, 1>>] = "none"
    BY DEF Init, Savers
  <2> QED BY <2>1 DEF Init, StorageInit, KeptOK, Listed, Contains
<1> QED BY <1>1 DEF Init, KeptInv

\* A step of a saver of t, which is the first one.
LEMMA SaverKept ==
  ASSUME TypeInv, FileInv, FileInv', ClosingInv, KeptInv, NEW t \in Tabs, NEW s \in Savers,
         s[1] = t, SaverStep(s), t \notin raced, RecordName[t] \notin dirty',
         RecordName[t] \notin dirty
  PROVE  KeptOK(t)'
<1>1. s = <<t, 1>>
  <2>1. saver[s] # "none"
    BY DEF SaverStep, OpenRecord, StartSave, EndSave, RemoveRecord
  <2>2. saver[<<t, 2>>] = "none" /\ saver[<<t, 3>>] = "none"
    BY DEF ClosingInv, ClosedByOne
  <2>3. s = <<t, 1>> \/ s = <<t, 2>> \/ s = <<t, 3>>
    BY DEF Savers
  <2> QED BY <2>1, <2>2, <2>3
<1>2. PICK p \in Names : p = RecordName[t]
  BY RecordPaths
<1>3. p \in Paths /\ s \in Users /\ images' = images /\ KeptOK(t)
  BY <1>2, RecordPaths DEF SaverStep, OpenRecord, StartSave, EndSave, RemoveRecord,
     notSaver,
                           KeptInv
<1>4. /\ job[s] = SaverJob(s) /\ artifacts \in Seq(Paths) /\ Once(artifacts, p)
      /\ \A v : saver' = [saver EXCEPT ![s] = v] => saver'[s] = v
  BY <1>2, <1>3 DEF FileInv, OwnFiles, StorageInv, StorageTypeOK, PathOK, TypeInv, RestOK
<1>5. CASE OpenRecord(s)
  <2>1. artifacts' = Append(artifacts, p) /\ saver' = [saver EXCEPT ![s] = "open"]
    BY <1>2, <1>5 DEF OpenRecord, Save, SaveName
  <2>2. Listed(p)' /\ saver'[s] = "open"
    BY <1>3, <1>4, <2>1, Added DEF Listed
  <2> QED BY <1>1, <1>2, <2>2 DEF KeptOK
<1>6. CASE StartSave(s)
  <2>1. saver[s] = "open" /\ job[s] = [op |-> "write", path |-> p]
    BY <1>2, <1>4, <1>6 DEF StartSave, SaverJob
  <2>2. CASE EndJob(s, TRUE) /\ saver' = [saver EXCEPT ![s] = "save"]
    <3>1. artifacts' = artifacts /\ p \in disk' /\ saver'[s] = "save"
      <4>1. artifacts' = artifacts /\ disk' = disk \cup {job[s].path}
        BY <2>1, <2>2 DEF EndJob
      <4>2. p \in disk'
        BY <2>1, <4>1
      <4>3. saver'[s] = "save"
        BY <1>4, <2>2, Zenon
      <4> QED BY <4>1, <4>2, <4>3
    <3>2. Listed(p)'
      BY <1>1, <1>2, <1>3, <2>1, <3>1 DEF KeptOK, Listed
    <3> QED BY <1>1, <1>2, <3>1, <3>2 DEF KeptOK
  <2>3. CASE EndJob(s, FALSE)
    <3>1. p \in dirty'
      BY <2>1, <2>3 DEF EndJob
    <3> QED BY <1>2, <3>1
  <2> QED BY <1>6, <2>2, <2>3 DEF StartSave
<1>7. CASE EndSave(s)
  <2>1. saver[s] = "save" /\ Listed(p) /\ p \in disk
    BY <1>1, <1>2, <1>3, <1>7 DEF EndSave, KeptOK
  <2>2. CASE images[t] = <<>>
    <3>1. RemoveArtifact(s, p) /\ saver' = [saver EXCEPT ![s] = "remove"]
      BY <1>2, <1>7, <2>1, <2>2 DEF EndSave
    <3>2. ~Listed(p)' /\ saver'[s] = "remove"
      BY <1>3, <1>4, <3>1, RemoveNext DEF FileInv
    <3> QED BY <1>1, <1>2, <1>3, <2>2, <3>2 DEF KeptOK
  <2>3. CASE images[t] # <<>>
    <3>1. UNCHANGED storageVars /\ saver' = [saver EXCEPT ![s] = "done"]
      BY <1>7, <2>3 DEF EndSave
    <3>2. Listed(p)' /\ p \in disk' /\ saver'[s] = "done"
      BY <1>4, <2>1, <3>1 DEF storageVars, Listed
    <3> QED BY <1>1, <1>2, <1>3, <2>3, <3>2 DEF KeptOK
  <2> QED BY <2>2, <2>3
<1>8. CASE RemoveRecord(s)
  <2>1. /\ saver[s] = "remove" /\ job[s] = [op |-> "unlink", path |-> p]
        /\ saver'[s] = "done"
    BY <1>2, <1>4, <1>8 DEF RemoveRecord, SaverJob
  <2>2. ~Listed(p) /\ images[t] = <<>>
    BY <1>1, <1>2, <1>3, <2>1 DEF KeptOK
  <2>3. CASE p \in disk
    <3>1. EndJob(s, TRUE)
      BY <1>2, <1>8, <2>3 DEF RemoveRecord
    <3>2. artifacts' = artifacts /\ p \notin disk'
      BY <2>1, <3>1 DEF EndJob
    <3> QED BY <1>1, <1>2, <1>3, <2>1, <2>2, <3>2 DEF KeptOK, Listed
  <2>4. CASE p \notin disk
    <3>1. EndJob(s, FALSE)
      <4>1. (RecordName[s[1]] \in disk) = FALSE
        BY <1>2, <2>4
      <4> QED BY <1>8, <4>1, Zenon DEF RemoveRecord
    <3>2. p \in dirty'
      BY <2>1, <3>1 DEF EndJob
    <3> QED BY <1>2, <3>2
  <2> QED BY <2>3, <2>4
<1> QED BY <1>5, <1>6, <1>7, <1>8 DEF SaverStep

\* What a step other than those of t's savers does to its recording.
LEMMA RecordingSteps ==
  ASSUME TypeInv, [Next]_vars, NEW t \in Tabs, ~ \E s \in Savers : s[1] = t /\ SaverStep(s)
  PROVE  /\ \/ saver'[<<t, 1>>] = saver[<<t, 1>>]
            \/ saver[<<t, 1>>] = "none" /\ saver'[<<t, 1>>] = "wait"
         /\ images'[t] = images[t] \/ t \notin done
         /\ raced \subseteq raced'
<1>1. CASE UNCHANGED <<saver, images>> /\ raced \subseteq raced'
  BY <1>1
<1>2. ASSUME NEW x \in Tabs, RecorderStep(x)
      PROVE  UNCHANGED <<saver, raced>> /\ (images'[t] = images[t] \/ t \notin done)
  <2>1. CASE TakeTask(x)
    BY <2>1 DEF TakeTask, recorderOnly, TypeInv, ChannelsOK
  <2> QED BY <1>2, <2>1 DEF RecorderStep, CloseChannel, FinishRecord, recorderOnly
<1>3. ASSUME NEW u \in Goroutines, CloseStep(u)
      PROVE  /\ UNCHANGED <<images, raced>>
             /\ \/ saver'[<<t, 1>>] = saver[<<t, 1>>]
                \/ saver[<<t, 1>>] = "none" /\ saver'[<<t, 1>>] = "wait"
  <2>1. CASE WaitGroup(u) \/ Cancel(u)
    BY <2>1 DEF WaitGroup, Cancel, closeOnly
  <2>2. CASE SaveRecord(u)
    <3>1. PICK x : saver[x] = "none" /\ saver' = [saver EXCEPT ![x] = "wait"]
      BY <2>2 DEF SaveRecord
    <3> QED BY <2>2, <3>1 DEF SaveRecord, closeOnly, TypeInv, RestOK
  <2> QED BY <1>3, <2>1, <2>2 DEF CloseStep
<1>4. ASSUME NEW s \in Savers, SaverStep(s)
      PROVE  UNCHANGED <<images, raced>> /\ saver'[<<t, 1>>] = saver[<<t, 1>>]
  <2>1. s # <<t, 1>>
    BY <1>4
  <2>2. \E v : saver' = [saver EXCEPT ![s] = v]
    BY <1>4 DEF SaverStep, OpenRecord, StartSave, EndSave, RemoveRecord
  <2>3. UNCHANGED <<images, raced>>
    BY <1>4 DEF SaverStep, OpenRecord, StartSave, EndSave, RemoveRecord, notSaver
  <2> QED BY <2>1, <2>2, <2>3 DEF TypeInv, RestOK
<1>5. ASSUME NEW u \in Callers, Sleep(u) \/ FileCall(u) \/ CallStep(u)
      PROVE  UNCHANGED <<saver, images, raced>>
  BY <1>5 DEF Sleep, FileCall, CallStep, Wake, Capture, Send, Resume, FileDone, quiet
<1>6. ASSUME NEW u, NEW x, NEW then, Call(u, x, then)
      PROVE  UNCHANGED <<saver, images>> /\ raced \subseteq raced'
  BY <1>6 DEF Call, quiet
<1>7. ASSUME NEW g, Download(g) PROVE UNCHANGED <<saver, images, raced>>
  BY <1>7 DEF Download, quiet
<1>8. CASE NewTab \/ EndRun \/ MainStep \/ UNCHANGED vars
  BY <1>1, <1>8 DEF NewTab, EndRun, MainStep, ScriptEnds, StopRun, Exit, quiet, mainOnly,
     vars,
                    recorderVars
<1> QED BY <1>1, <1>2, <1>3, <1>4, <1>5, <1>6, <1>7, <1>8 DEF Next, Goroutines

\* Every step keeps the recordings.
LEMMA KeptNext ==
  ASSUME TypeInv, ChannelInv, FileInv, FileInv', ClosingInv, KeptInv, [Next]_vars,
         \A t \in Tabs : Untouched(t) \/ \E s \in Savers : s[1] = t /\ SaverStep(s)
  PROVE  \A t \in Tabs : (t \in raced \/ RecordName[t] \in dirty \/ KeptOK(t))'
<1> SUFFICES ASSUME NEW t \in Tabs, t \notin raced', RecordName[t] \notin dirty'
             PROVE  KeptOK(t)'
  OBVIOUS
<1>1. CASE \E s \in Savers : s[1] = t /\ SaverStep(s)
  <2>1. PICK s \in Savers : s[1] = t /\ SaverStep(s)
    BY <1>1
  <2>2. t \notin raced /\ RecordName[t] \notin dirty
    <3>1. UNCHANGED raced /\ dirty \subseteq dirty'
      BY <2>1 DEF SaverStep, OpenRecord, StartSave, EndSave, RemoveRecord, notSaver,
         storageVars,
                  Save, SaveName, Continue, EndJob, RemoveArtifact
    <3> QED BY <3>1
  <2> QED BY <2>1, <2>2, SaverKept
<1>2. CASE ~ \E s \in Savers : s[1] = t /\ SaverStep(s)
  <2>1. /\ \/ saver'[<<t, 1>>] = saver[<<t, 1>>]
           \/ saver[<<t, 1>>] = "none" /\ saver'[<<t, 1>>] = "wait"
        /\ images'[t] = images[t] \/ t \notin done
        /\ t \notin raced
    BY <1>2, RecordingSteps
  <2>2. /\ Listed(RecordName[t])' <=> Listed(RecordName[t])
        /\ RecordName[t] \in disk' <=> RecordName[t] \in disk
        /\ RecordName[t] \notin dirty
    BY <1>2 DEF Untouched, SameAt
  <2>3. KeptOK(t)
    BY <2>1, <2>2 DEF KeptInv
  <2>4. t \notin done => saver[<<t, 1>>] \in {"none", "wait"}
    BY DEF ChannelInv, SaversWait, Savers
  <2> QED BY <2>1, <2>2, <2>3, <2>4 DEF KeptOK
<1> QED BY <1>1, <1>2

\* No goroutine of the program runs after the process has exited.
LEMMA ExitNext ==
  ASSUME phase = "exit" => AllSaved, [Next]_vars
  PROVE  phase' = "exit" => AllSaved'
<1>1. CASE UNCHANGED <<saver, phase>>
  BY <1>1 DEF AllSaved
<1>2. CASE Running /\ UNCHANGED phase
  BY <1>2 DEF Running
<1>3. CASE ScriptEnds \/ StopRun \/ Exit
  BY <1>3 DEF ScriptEnds, StopRun, Exit, mainOnly, AllSaved
<1>4. ASSUME NEW u, CloseStep(u) PROVE Running /\ UNCHANGED phase
  BY <1>4 DEF CloseStep, WaitGroup, Cancel, SaveRecord, closeOnly
<1>5. ASSUME NEW s, SaverStep(s) PROVE Running /\ UNCHANGED phase
  BY <1>5 DEF SaverStep, OpenRecord, StartSave, EndSave, RemoveRecord, notSaver
<1>6. ASSUME NEW u, Sleep(u) \/ FileCall(u) \/ CallStep(u) PROVE UNCHANGED <<saver, phase>>
  BY <1>6 DEF Sleep, FileCall, CallStep, Wake, Capture, Send, Resume, FileDone, quiet
<1>7. ASSUME NEW t, RecorderStep(t) PROVE UNCHANGED <<saver, phase>>
  BY <1>7 DEF RecorderStep, CloseChannel, TakeTask, FinishRecord, recorderOnly
<1>8. ASSUME NEW u, NEW t, NEW then, Call(u, t, then) PROVE UNCHANGED <<saver, phase>>
  BY <1>8 DEF Call, quiet
<1>9. ASSUME NEW g, Download(g) PROVE UNCHANGED <<saver, phase>>
  BY <1>9 DEF Download, quiet
<1>10. CASE NewTab \/ EndRun \/ UNCHANGED vars
  BY <1>1, <1>10 DEF NewTab, EndRun, quiet, mainOnly, vars, recorderVars
<1> QED BY <1>1, <1>2, <1>3, <1>4, <1>5, <1>6, <1>7, <1>8, <1>9, <1>10 DEF Next, MainStep

-----------------------------------------------------------------------------
(* The inductive invariant and the theorems.                               *)

\* The inductive invariant.
RecorderInv == TypeInv /\ ChannelInv /\ FileInv /\ FileCalls /\ ClosingInv /\ KeptInv

\* It holds at the start.
LEMMA InvInit == Init => RecorderInv
<1> SUFFICES ASSUME Init PROVE RecorderInv
  OBVIOUS
<1>1. FileCalls
  BY RecordPaths DEF Init, StorageInit, FileCalls
<1> QED BY <1>1, InitTypes, InitChannels, InitFiles, InitClosing, InitKept DEF RecorderInv

\* Every step keeps it.
LEMMA InvNext == RecorderInv /\ [Next]_vars => RecorderInv'
<1> SUFFICES ASSUME RecorderInv, [Next]_vars PROVE RecorderInv'
  OBVIOUS
<1> USE DEF RecorderInv
<1>1. TypeInv' /\ ChannelInv' /\ FileInv' /\ FileCalls'
  BY TypeNext, ChannelNext, FilesNext, FileCallsNext
<1>2. ClosingInv'
  BY <1>1, ClosingNext
<1>3. KeptInv'
  <2>1. \A t \in Tabs : Untouched(t) \/ \E s \in Savers : s[1] = t /\ SaverStep(s)
    BY FilesNext
  <2>2. \A t \in Tabs : (t \in raced \/ RecordName[t] \in dirty \/ KeptOK(t))'
    BY <1>1, <2>1, KeptNext
  <2>3. (phase = "exit" => AllSaved)'
    BY ExitNext DEF KeptInv
  <2> QED BY <2>2, <2>3 DEF KeptInv
<1> QED BY <1>1, <1>2, <1>3

\* It holds in every behaviour.
THEOREM RecorderCorrect == Spec => []RecorderInv
BY InvInit, InvNext, PTL DEF Spec

\* The variables of a run have their types (recorder.go, storage.go).
THEOREM RecorderTyped == Spec => []TypeOK
<1>1. RecorderInv => TypeOK
  BY TypeFollows DEF RecorderInv, FileInv, StorageInv
<1> QED BY <1>1, RecorderCorrect, PTL

\* What a recorder has made of the screenshots when it is done is a frame of
\* each that was sent and can be decoded, in their order, although a call may
\* be sending while the channel is closed (runRecorder, RecordAction.Do).
THEOREM NoScreenshotIsLost == Spec => []NothingLost
<1>1. RecorderInv => NothingLost
  <2> SUFFICES ASSUME RecorderInv, NEW t \in done
               PROVE  /\ ToSet(images[t]) = (1..sent[t]) \ broken[t]
                      /\ \A i, j \in DOMAIN images[t] : i < j => images[t][i] < images[t][j]
    BY DEF NothingLost
  <2>1. t \in Tabs /\ ChannelOK(t) /\ sent[t] \in Nat
    BY DEF RecorderInv, TypeInv, ChannelsOK, ChannelInv
  <2>2. ch[t] = <<>> /\ Len(<<>>) = 0
    BY <2>1 DEF ChannelOK
  <2>3. Read(t) = sent[t]
    BY <2>1, <2>2 DEF Read
  <2> QED BY <2>1, <2>3 DEF ChannelOK
<1> QED BY <1>1, RecorderCorrect, PTL

\* While a goroutine of saveRecord writes the frames of a recording, the
\* recorder adds none (Recorder.SaveTo after Recorder.Done).
THEOREM FramesAreFinal == Spec => SavedIsFinal
<1>1. RecorderInv /\ [Next]_vars =>
        [\A s \in Savers : saver[s] \in {"open", "save"} => images'[s[1]] = images[s[1]]]_vars
  <2> SUFFICES ASSUME RecorderInv, [Next]_vars, NEW s \in Savers, saver[s] \in {"open", "save"}
               PROVE  images'[s[1]] = images[s[1]]
    OBVIOUS
  <2>1. s[1] \in Tabs /\ s[1] \in done
    BY RecordPaths DEF RecorderInv, ChannelInv, SaversWait
  <2>2. images'[s[1]] = images[s[1]]
    <3>1. CASE \E x \in Savers : x[1] = s[1] /\ SaverStep(x)
      BY <3>1 DEF SaverStep, OpenRecord, StartSave, EndSave, RemoveRecord, notSaver
    <3>2. CASE ~ \E x \in Savers : x[1] = s[1] /\ SaverStep(x)
      <4>1. PICK t \in Tabs : t = s[1]
        BY <2>1
      <4>2. ~ \E x \in Savers : x[1] = t /\ SaverStep(x)
        BY <3>2, <4>1
      <4>3. images'[t] = images[t] \/ t \notin done
        BY <4>2, RecordingSteps DEF RecorderInv
      <4> QED BY <2>1, <4>1, <4>3
    <3> QED BY <3>1, <3>2
  <2> QED BY <2>2
<1> QED BY <1>1, RecorderCorrect, PTL DEF Spec, SavedIsFinal

\* Main finds every tab that is left, every canceled tab has been saved when
\* Environment.stop returns, and none twice unless two calls closed it at a
\* time (Tab.Close, Environment.Close).
THEOREM ClosedTabsAreSavedOnce == Spec => []SavedOnce
<1>1. RecorderInv => SavedOnce
  <2> SUFFICES ASSUME RecorderInv PROVE SavedOnce
    OBVIOUS
  <2> USE DEF RecorderInv
  <2>1. \A t \in Tabs : saver[<<t, 2>>] # "none" => t \in raced
    BY DEF ClosingInv, ClosedByOne
  <2>2. ASSUME phase \in {"wait", "exit"}
        PROVE  tabs = <<>> /\ \A t \in canceled \ raced : Saved(t)
    <3>1. pc[Main] = Idle /\ pc[Script].op \in {"idle", "stopped"}
      BY <2>2 DEF ClosingInv, MainOK
    <3>2. \A t : ~Contains(pc[Main].todo, t)
      BY <3>1 DEF Idle, Contains
    <3>3. \A t \in Tabs : ~Contains(tabs, t)
      BY <2>2, <3>2 DEF ClosingInv, MainOK
    <3>4. tabs = <<>>
      <4>1. tabs \in Seq(Tabs)
        BY DEF TypeInv, RestOK
      <4>2. tabs # <<>> => Head(tabs) \in Tabs /\ 1 \in DOMAIN tabs /\ tabs[1] = Head(tabs)
        BY <4>1
      <4> QED BY <3>3, <4>2 DEF Contains
    <3>5. ASSUME NEW t \in canceled \ raced PROVE Saved(t)
      <4>1. t \in Tabs /\ Tracked(t) /\ ClosedByOne(t)
        BY DEF TypeInv, RestOK, ClosingInv
      <4>2. ASSUME NEW u \in Goroutines, Saves(u, t) PROVE FALSE
        <5>1. u = Callback
          BY <3>1, <4>2 DEF Saves, Goroutines, Callers, Idle
        <5>2. Closes(u, t)
          BY <4>2, CloserFacts DEF Saves, Closing
        <5>3. Contains(tabs, Home)
          BY <4>1, <5>1, <5>2 DEF ClosedByOne
        <5> QED BY <3>4, <5>3 DEF Contains
      <4> QED BY <4>1, <4>2 DEF Tracked
    <3> QED BY <3>4, <3>5
  <2> QED BY <2>1, <2>2 DEF SavedOnce
<1> QED BY <1>1, RecorderCorrect, PTL

\* When the process exits, the recording of a tab that one call at a time
\* closed is listed as an artifact, and there, if and only if it has a frame
\* (saveRecord, Storage.Remove, saveWG.Wait).
THEOREM RecordingsAreFiles == Spec => []RecordingsAreKept
<1>1. RecorderInv => RecordingsAreKept
  <2> SUFFICES ASSUME RecorderInv, phase = "exit", NEW t \in 1..opened, Saved(t),
                      t \notin raced, RecordName[t] \notin dirty
               PROVE  /\ Listed(RecordName[t]) <=> images[t] # <<>>
                      /\ Listed(RecordName[t]) <=> RecordName[t] \in disk
    BY DEF RecordingsAreKept
  <2> USE DEF RecorderInv
  <2>1. t \in Tabs
    BY RecorderAssumption DEF TypeInv, RestOK, Tabs
  <2>2. KeptOK(t) /\ ClosedByOne(t)
    BY <2>1 DEF KeptInv, ClosingInv
  <2>3. saver[<<t, 1>>] = "done"
    <3>1. PICK k \in 1..3 : saver[<<t, k>>] # "none"
      BY DEF Saved
    <3>2. k = 1
      BY <2>2, <3>1 DEF ClosedByOne
    <3>3. <<t, k>> \in Savers
      BY <2>1 DEF Savers
    <3>4. saver[<<t, k>>] \in {"none", "done"}
      BY <3>3 DEF KeptInv, AllSaved
    <3> QED BY <3>1, <3>2, <3>4
  <2> QED BY <2>2, <2>3 DEF KeptOK
<1> QED BY <1>1, RecorderCorrect, PTL

\* The list of artifacts has the files that are there, each once, and the
\* events of downloads name one of them (storage.go).
THEOREM ArtifactsAreTrue == Spec => []ListIsTrue
<1>1. RecorderInv => ListIsTrue
  BY ListFollows DEF RecorderInv, FileInv
<1> QED BY <1>1, RecorderCorrect, PTL
=============================================================================
