------------------------- MODULE EventHandlerProofs -------------------------
(***************************************************************************)
(* EventHandler for any set of goroutines and any number of events: the    *)
(* type invariant, no lost wake-up, the implementation of EventQueue, and  *)
(* no channel closed twice.                                                *)
(***************************************************************************)
EXTENDS EventHandler, TLAPS

\* A sequence over a set is one over a larger set.
LEMMA SeqWidens ==
    ASSUME NEW S, NEW T, S \subseteq T, NEW s \in Seq(S)
    PROVE  s \in Seq(T)
  OBVIOUS

\* Every channel that is in a sequence of channels is one that has been made.
LEMMA RangeOfSeq ==
    ASSUME NEW S, NEW s \in Seq(S)
    PROVE  Range(s) \subseteq S
  BY DEF Range

LEMMA RangeOfAppend ==
    ASSUME NEW S, NEW s \in Seq(S), NEW e
    PROVE  Range(Append(s, e)) = Range(s) \union {e}
  <1>1. DOMAIN s = 1..Len(s) /\ DOMAIN Append(s, e) = 1..(Len(s) + 1) /\ Len(s) \in Nat
    OBVIOUS
  <1>2. \A i \in 1..Len(s) : Append(s, e)[i] = s[i]
    OBVIOUS
  <1>3. Append(s, e)[Len(s) + 1] = e
    OBVIOUS
  <1> QED
    BY <1>1, <1>2, <1>3 DEF Range

-----------------------------------------------------------------------------
(* The type invariant.                                                      *)

LEMMA TypeInit == Init => TypeOK
  <1> SUFFICES ASSUME Init PROVE TypeOK
    OBVIOUS
  <1>1. history \in Seq(1..emitted) /\ waiters \in Seq(1..nchan)
    BY DEF Init
  <1>2. rest \in [Procs -> Seq(1..nchan)]
    BY DEF Init
  <1>3. waited \in 0..Len(history)
    BY DEF Init
  <1>4. /\ pc \in [Procs -> InWait \union {"idle", "snapshot", "closing"}]
        /\ ch \in [Procs -> 0..nchan]
        /\ timed \in [Procs -> BOOLEAN]
        /\ result \in [Procs -> 0..emitted]
    BY DEF Init, InWait
  <1> QED
    BY <1>1, <1>2, <1>3, <1>4 DEF Init, TypeOK

LEMMA TypeNext == TypeOK /\ [Next]_vars => TypeOK'
  <1> SUFFICES ASSUME TypeOK, [Next]_vars PROVE TypeOK'
    OBVIOUS
  <1> USE DEF TypeOK, Procs, InWait, Goto, queue, local, tab, panics
  <1>1. ASSUME NEW t \in Threads, CallWait(t) PROVE TypeOK'
    <2>1. timed' \in [Procs -> BOOLEAN]
      BY <1>1 DEF CallWait
    <2> QED
      BY <1>1, <2>1 DEF CallWait
  <1>2. ASSUME NEW t \in Threads, Take(t) PROVE TypeOK'
    <2>1. waited + 1 \in 1..Len(history) /\ history[waited + 1] \in 1..emitted
      BY <1>2 DEF Take
    <2>2. result' \in [Procs -> 0..emitted] /\ waited' \in 0..Len(history)
      BY <1>2, <2>1 DEF Take
    <2> QED
      BY <1>2, <2>2 DEF Take
  <1>3. ASSUME NEW t \in Threads, Register(t) PROVE TypeOK'
    <2>1. 1..nchan \subseteq 1..nchan'
      BY <1>3 DEF Register
    <2>2. waiters' \in Seq(1..nchan')
      BY <1>3, <2>1, SeqWidens DEF Register
    <2>3. rest' \in [Procs -> Seq(1..nchan')]
      BY <1>3, <2>1, SeqWidens DEF Register
    <2> QED
      BY <1>3, <2>2, <2>3 DEF Register
  <1>4. ASSUME NEW t \in Threads, Wake(t) PROVE TypeOK'
    BY <1>4 DEF Wake
  <1>5. ASSUME NEW t \in Threads, Expire(t) PROVE TypeOK'
    BY <1>5 DEF Expire, CtxDone
  <1>6. CASE Emit
    <2>1. history' \in Seq(1..emitted')
      BY <1>6, SeqWidens, 1..emitted \subseteq 1..(emitted + 1) DEF Emit
    <2> QED
      BY <1>6, <2>1 DEF Emit
  <1>7. CASE RunEnds
    BY <1>7 DEF RunEnds
  <1>8. CASE Invoke
    <2>1. Range(waiters) \subseteq 1..nchan
      BY RangeOfSeq
    <2>2. emitted \in 1..emitted
      BY <1>8 DEF Invoke, Remember, Woken
    <2>3. history' \in Seq(1..emitted') /\ waited' \in 0..Len(history')
      BY <1>8, <2>2 DEF Invoke, Remember, Woken
    <2>4. waiters' \in Seq(1..nchan') /\ crashed' \in BOOLEAN
      <3>1. CASE Range(waiters) \intersect closed = {}
        BY <1>8, <3>1 DEF Invoke, Remember, Woken
      <3>2. CASE Range(waiters) \intersect closed # {}
        BY <1>8, <3>2 DEF Invoke, Remember, Woken
      <3> QED
        BY <3>1, <3>2
    <2>5. closed' \in SUBSET (1..nchan')
      BY <1>8, <2>1 DEF Invoke, Remember, Woken
    <2> QED
      BY <1>8, <2>3, <2>4, <2>5 DEF Invoke, Remember, Woken
  <1>9. ASSUME NEW p \in Procs, Cancel(p) PROVE TypeOK'
    BY <1>9 DEF Cancel
  <1>10. ASSUME NEW p \in Procs, Snapshot(p) PROVE TypeOK'
    BY <1>10 DEF Snapshot
  <1>11. ASSUME NEW p \in Procs, CloseOne(p) PROVE TypeOK'
    <2> DEFINE s == rest[p]
    <2>1. Head(s) \in 1..nchan /\ Tail(s) \in Seq(1..nchan)
      <3>1. s \in Seq(1..nchan) /\ s # <<>>
        BY <1>11 DEF CloseOne
      <3> HIDE DEF s
      <3> QED
        BY <3>1
    <2>2. rest' \in [Procs -> Seq(1..nchan)] /\ closed' \in SUBSET (1..nchan)
      BY <1>11, <2>1 DEF CloseOne
    <2> QED
      BY <1>11, <2>2 DEF CloseOne
  <1>12. ASSUME NEW p \in Procs, ClosePanics(p) PROVE TypeOK'
    <2>1. <<>> \in Seq(1..nchan)
      OBVIOUS
    <2>2. rest' \in [Procs -> Seq(1..nchan)]
      BY <1>12, <2>1 DEF ClosePanics
    <2>3. failed' \in BOOLEAN /\ crashed' \in BOOLEAN
      BY <1>12 DEF ClosePanics
    <2> QED
      BY <1>12, <2>2, <2>3 DEF ClosePanics
  <1>13. ASSUME NEW p \in Procs, CloseReturns(p) PROVE TypeOK'
    BY <1>13 DEF CloseReturns
  <1>14. CASE UNCHANGED vars
    BY <1>14 DEF vars
  <1> QED
    BY <1>1, <1>2, <1>3, <1>4, <1>5, <1>6, <1>7, <1>8, <1>9, <1>10, <1>11, <1>12,
       <1>13, <1>14 DEF Next, Waiting, Closing

(* Every variable of an EventHandler keeps its type, in particular h.waited *)
(* never passes the end of h.history (event.go:51-53).                      *)
THEOREM TypeCorrect == Spec => []TypeOK
  BY TypeInit, TypeNext, PTL DEF Spec

-----------------------------------------------------------------------------
(* No wake-up is lost.                                                      *)

LEMMA WakeupNext == TypeOK /\ NoLostWakeup /\ [Next]_vars => NoLostWakeup'
  <1> SUFFICES ASSUME TypeOK, NoLostWakeup, [Next]_vars,
                      NEW t \in Threads, pc'[t] = "select", ch'[t] \notin closed'
               PROVE  ch'[t] \in Range(waiters') /\ waited' = Len(history')
    BY DEF NoLostWakeup
  <1> USE DEF Procs, Goto, queue, local, tab, panics
  <1> DEFINE Asleep == pc[t] = "select" /\ ch[t] \notin closed
             Kept   == waiters' = waiters /\ waited' = waited /\ history' = history
  <1>1. Asleep => ch[t] \in Range(waiters) /\ waited = Len(history)
    BY DEF NoLostWakeup
  <1>2. ASSUME Kept, Asleep, ch'[t] = ch[t]
        PROVE  ch'[t] \in Range(waiters') /\ waited' = Len(history')
    BY <1>1, <1>2
  <1>3. ASSUME NEW u \in Threads, CallWait(u) \/ Wake(u) \/ Expire(u)
        PROVE  ch'[t] \in Range(waiters') /\ waited' = Len(history')
    <2>1. t # u /\ Asleep /\ ch'[t] = ch[t] /\ Kept
      BY <1>3 DEF CallWait, Wake, Expire, CtxDone, TypeOK
    <2> QED
      BY <1>2, <2>1
  <1>4. ASSUME NEW u \in Threads, Take(u)
        PROVE  ch'[t] \in Range(waiters') /\ waited' = Len(history')
    <2>1. t # u /\ Asleep
      BY <1>4 DEF Take, TypeOK
    <2>2. waited < Len(history)
      BY <1>4 DEF Take
    <2> QED
      BY <1>1, <2>1, <2>2 DEF TypeOK
  <1>5. ASSUME NEW u \in Threads, Register(u)
        PROVE  ch'[t] \in Range(waiters') /\ waited' = Len(history')
    <2>1. Range(waiters') = Range(waiters) \union {nchan + 1}
      BY <1>5, RangeOfAppend DEF Register, TypeOK
    <2>2. waited' = Len(history')
      BY <1>5 DEF Register, TypeOK
    <2>3. CASE t = u
      BY <1>5, <2>1, <2>2, <2>3 DEF Register, TypeOK
    <2>4. CASE t # u
      <3>1. Asleep /\ ch'[t] = ch[t]
        BY <1>5, <2>4 DEF Register, TypeOK
      <3> QED
        BY <1>1, <2>1, <2>2, <3>1
    <2> QED
      BY <2>3, <2>4
  <1>6. CASE Emit \/ RunEnds
    <2>1. Asleep /\ ch'[t] = ch[t] /\ Kept
      BY <1>6 DEF Emit, RunEnds
    <2> QED
      BY <1>2, <2>1
  <1>7. CASE Invoke
    <2>1. Asleep /\ ch[t] \notin Range(waiters)
      BY <1>7 DEF Invoke, Remember, Woken
    <2> QED
      BY <1>1, <2>1
  <1>8. ASSUME NEW p \in Procs,
               Cancel(p) \/ Snapshot(p) \/ CloseOne(p) \/ ClosePanics(p) \/ CloseReturns(p)
        PROVE  ch'[t] \in Range(waiters') /\ waited' = Len(history')
    <2>1. Asleep /\ ch'[t] = ch[t] /\ Kept
      BY <1>8 DEF Cancel, Snapshot, CloseOne, ClosePanics, CloseReturns, TypeOK
    <2> QED
      BY <1>2, <2>1
  <1>9. CASE UNCHANGED vars
    BY <1>1, <1>9 DEF vars
  <1> QED
    BY <1>3, <1>4, <1>5, <1>6, <1>7, <1>8, <1>9 DEF Next, Waiting, Closing

(* No goroutine sleeps in Wait while there is an event for it or without a  *)
(* channel that the next Invoke closes, whatever Close does meanwhile.      *)
THEOREM NoWakeupIsLost == Spec => []NoLostWakeup
  <1>1. Init => NoLostWakeup
    BY DEF Init, NoLostWakeup, Procs
  <1> QED
    BY <1>1, TypeInit, TypeNext, WakeupNext, PTL DEF Spec

-----------------------------------------------------------------------------
(* The handler implements the queue.                                        *)

\* The history is the events in the order the browser emitted them.
Arrivals ==
    /\ Len(history) = IF inflight THEN emitted - 1 ELSE emitted
    /\ \A i \in 1..Len(history) : history[i] = i

LEMMA ArrivalsNext == TypeOK /\ Arrivals /\ [Next]_vars => Arrivals'
  <1> SUFFICES ASSUME TypeOK, Arrivals, [Next]_vars PROVE Arrivals'
    OBVIOUS
  <1> USE DEF queue, local, tab, panics
  <1>1. CASE Emit
    BY <1>1 DEF Emit, Arrivals, TypeOK
  <1>2. CASE Invoke
    <2>1. Len(history) = emitted - 1
      BY <1>2 DEF Invoke, Remember, Woken, Arrivals
    <2>2. /\ Len(history') = Len(history) + 1
          /\ history'[Len(history) + 1] = emitted
          /\ \A i \in 1..Len(history) : history'[i] = history[i]
      BY <1>2 DEF Invoke, Remember, Woken, TypeOK
    <2>3. Len(history) \in Nat /\ ~ inflight' /\ emitted' = emitted
      BY <1>2 DEF Invoke, Remember, Woken, TypeOK
    <2>4. Len(history') = emitted'
      BY <2>1, <2>2, <2>3 DEF TypeOK
    <2>5. ASSUME NEW i \in 1..Len(history') PROVE history'[i] = i
      <3>1. CASE i \in 1..Len(history)
        BY <2>2, <3>1 DEF Arrivals
      <3>2. CASE i = Len(history) + 1
        BY <2>1, <2>2, <3>2 DEF TypeOK
      <3> QED
        BY <2>2, <2>3, <3>1, <3>2
    <2> QED
      BY <2>3, <2>4, <2>5 DEF Arrivals
  <1>3. CASE UNCHANGED <<history, inflight, emitted>>
    BY <1>3 DEF Arrivals
  <1>4. CASE RunEnds \/ UNCHANGED vars
    BY <1>3, <1>4 DEF RunEnds, vars
  <1>5. ASSUME NEW u \in Threads, CallWait(u) \/ Waiting(u) PROVE Arrivals'
    BY <1>3, <1>5 DEF CallWait, Waiting, Take, Register, Wake, Expire, CtxDone
  <1>6. ASSUME NEW p \in Procs, Cancel(p) \/ Closing(p) PROVE Arrivals'
    BY <1>3, <1>6 DEF Cancel, Closing, Snapshot, CloseOne, ClosePanics, CloseReturns
  <1> QED
    BY <1>1, <1>2, <1>4, <1>5, <1>6 DEF Next

LEMMA QueueInit == Init => Queue!Init
  BY ThreadsAssumption DEF Init, Queue!Init, Procs

LEMMA QueueStep == TypeOK /\ Arrivals /\ [Next]_vars => [Queue!Next]_(Queue!vars)
  <1> SUFFICES ASSUME TypeOK, Arrivals, [Next]_vars PROVE [Queue!Next]_(Queue!vars)
    OBVIOUS
  <1> USE ThreadsAssumption DEF Procs, Goto, queue, local, tab, panics
  <1> DEFINE client(f) == [t \in Threads |->
                              CASE f[t] = "check"                 -> "asked"
                                [] f[t] \in {"select", "recheck"} -> "blocked"
                                [] OTHER                          -> "idle"]
             last(f)   == [t \in Threads |-> f[t]]
             number(b, n) == IF b THEN n - 1 ELSE n
  <1>1. ASSUME waited' = waited, client(pc') = client(pc), last(result') = last(result),
               number(inflight', emitted') = number(inflight, emitted)
        PROVE  UNCHANGED Queue!vars
    BY <1>1 DEF Queue!vars
  <1>2. ASSUME NEW u \in Threads, CallWait(u) PROVE Queue!Ask(u)
    <2>1. client(pc)[u] = "idle"
      BY <1>2 DEF CallWait
    <2>2. client(pc') = [client(pc) EXCEPT ![u] = "asked"]
      BY <1>2 DEF CallWait, TypeOK
    <2>3. UNCHANGED <<waited, result, inflight, emitted>>
      BY <1>2 DEF CallWait
    <2> QED
      BY <2>1, <2>2, <2>3 DEF Queue!Ask
  <1>3. ASSUME NEW u \in Threads, Take(u) PROVE Queue!Get(u)
    <2>1. client(pc)[u] \in {"asked", "blocked"}
      BY <1>3 DEF Take
    <2>2. client(pc') = [client(pc) EXCEPT ![u] = "idle"]
      BY <1>3 DEF Take, TypeOK
    <2>3. waited < number(inflight, emitted) /\ history[waited + 1] = waited + 1
      BY <1>3 DEF Take, Arrivals, TypeOK
    <2>4. last(result') = [last(result) EXCEPT ![u] = waited + 1]
      BY <1>3, <2>3 DEF Take, TypeOK
    <2>5. waited' = waited + 1 /\ UNCHANGED <<inflight, emitted>>
      BY <1>3 DEF Take
    <2> QED
      BY <2>1, <2>2, <2>3, <2>4, <2>5 DEF Queue!Get
  <1>4. ASSUME NEW u \in Threads, Register(u), pc[u] = "check" PROVE Queue!Block(u)
    <2>1. client(pc)[u] = "asked"
      BY <1>4
    <2>2. client(pc') = [client(pc) EXCEPT ![u] = "blocked"]
      BY <1>4 DEF Register, TypeOK
    <2>3. waited = number(inflight, emitted) /\ UNCHANGED <<waited, result, inflight, emitted>>
      BY <1>4 DEF Register, Arrivals, TypeOK
    <2> QED
      BY <2>1, <2>2, <2>3 DEF Queue!Block
  <1>5. ASSUME NEW u \in Threads, Wake(u) \/ (Register(u) /\ pc[u] # "check")
        PROVE  UNCHANGED Queue!vars
    <2>1. client(pc') = client(pc)
      BY <1>5 DEF Register, Wake, TypeOK
    <2> QED
      BY <1>1, <1>5, <2>1 DEF Register, Wake
  <1>6. ASSUME NEW u \in Threads, Expire(u) PROVE Queue!GiveUp(u)
    <2>1. client(pc)[u] = "blocked"
      BY <1>6 DEF Expire, CtxDone
    <2>2. client(pc') = [client(pc) EXCEPT ![u] = "idle"]
      BY <1>6 DEF Expire, CtxDone, TypeOK
    <2>3. last(result') = [last(result) EXCEPT ![u] = 0]
      BY <1>6 DEF Expire, CtxDone, TypeOK
    <2>4. UNCHANGED <<waited, inflight, emitted>>
      BY <1>6 DEF Expire, CtxDone
    <2> QED
      BY <2>1, <2>2, <2>3, <2>4 DEF Queue!GiveUp
  <1>7. CASE Invoke
    <2>1. number(inflight', emitted') = number(inflight, emitted) + 1
      BY <1>7 DEF Invoke, Remember, Woken, TypeOK
    <2>2. UNCHANGED <<waited, pc, result>>
      BY <1>7 DEF Invoke, Remember, Woken
    <2> QED
      BY <2>1, <2>2 DEF Queue!Next, Queue!Put
  <1>8. CASE Emit \/ RunEnds
    <2>1. number(inflight', emitted') = number(inflight, emitted)
      BY <1>8 DEF Emit, RunEnds, TypeOK
    <2> QED
      BY <1>1, <1>8, <2>1 DEF Emit, RunEnds
  <1>9. ASSUME NEW p \in Procs, Cancel(p) \/ Closing(p) PROVE UNCHANGED Queue!vars
    <2>1. client(pc') = client(pc)
      BY <1>9 DEF Cancel, Closing, Snapshot, CloseOne, ClosePanics, CloseReturns, TypeOK
    <2>2. UNCHANGED <<waited, result, inflight, emitted>>
      BY <1>9 DEF Cancel, Closing, Snapshot, CloseOne, ClosePanics, CloseReturns
    <2> QED
      BY <1>1, <2>1, <2>2
  <1>10. CASE UNCHANGED vars
    BY <1>1, <1>10 DEF vars
  <1> QED
    BY <1>2, <1>3, <1>4, <1>5, <1>6, <1>7, <1>8, <1>9, <1>10 DEF Next, Waiting, Queue!Next

(* Every behaviour of the handler is one of the queue: first in first out,  *)
(* each event to one waiter, nothing lost to a timeout (event.go:47-81).    *)
THEOREM HandlerImplementsQueue == Spec => ImplementsQueue
  <1>1. Init => Arrivals
    BY DEF Init, Arrivals
  <1> QED
    BY <1>1, TypeInit, TypeNext, ArrivalsNext, QueueInit, QueueStep, PTL
       DEF Spec, ImplementsQueue, Queue!Spec

-----------------------------------------------------------------------------
(* No channel is closed twice.  The channels that wait for Invoke or Close  *)
(* are all different and open.  A Close empties its own copy of the list,   *)
(* so this holds of the list until the copy is made, and then of the copy;  *)
(* it needs that no Invoke and no other Close comes after the Cancel.       *)

Fresh(s, C) == /\ \A i, j \in 1..Len(s) : s[i] = s[j] => i = j
               /\ \A i \in 1..Len(s) : s[i] \notin C

Closers == {p \in Procs : pc[p] \in {"snapshot", "closing"}}

ClosingOK ==
    /\ ~ crashed /\ ~ failed
    /\ closes = 0 => Closers = {}
    /\ closes # 0 => canceled /\ ~ inflight
    /\ \A p, q \in Closers : p = q
    /\ closes = 0 \/ (\E p \in Procs : pc[p] = "snapshot") => Fresh(waiters, closed)
    /\ \A p \in Procs : pc[p] = "closing" => Fresh(rest[p], closed)

OneClose == closes <= 1 /\ ~ late => ClosingOK

LEMMA FreshIsDisjoint ==
    ASSUME NEW C, NEW S, NEW s \in Seq(S), Fresh(s, C)
    PROVE  Range(s) \intersect C = {}
  BY DEF Range, Fresh

LEMMA FreshAppend ==
    ASSUME NEW n \in Nat, NEW s \in Seq(1..n), NEW C \in SUBSET (1..n), Fresh(s, C)
    PROVE  Fresh(Append(s, n + 1), C)
  <1> DEFINE a == Append(s, n + 1)
  <1>1. /\ Len(s) \in Nat /\ Len(a) = Len(s) + 1
        /\ \A i \in 1..Len(s) : a[i] = s[i] /\ s[i] \in 1..n
        /\ a[Len(s) + 1] = n + 1
    OBVIOUS
  <1> HIDE DEF a
  <1>2. n + 1 \notin 1..n
    OBVIOUS
  <1>3. \A i \in 1..Len(a) : a[i] \notin C
    BY <1>1, <1>2 DEF Fresh
  <1>4. ASSUME NEW i \in 1..Len(a), NEW j \in 1..Len(a), a[i] = a[j] PROVE i = j
    <2>1. CASE i = Len(s) + 1 \/ j = Len(s) + 1
      BY <1>1, <1>2, <1>4, <2>1
    <2>2. CASE i \in 1..Len(s) /\ j \in 1..Len(s)
      BY <1>1, <1>4, <2>2 DEF Fresh
    <2> QED
      BY <1>1, <2>1, <2>2
  <1>5. Fresh(a, C)
    BY <1>3, <1>4 DEF Fresh
  <1> QED
    BY <1>5 DEF a

LEMMA FreshTail ==
    ASSUME NEW S, NEW s \in Seq(S), s # <<>>, NEW C, Fresh(s, C)
    PROVE  Head(s) \notin C /\ Fresh(Tail(s), C \union {Head(s)})
  <1> DEFINE t == Tail(s)
  <1>1. /\ Len(s) \in Nat /\ Len(s) > 0 /\ Head(s) = s[1] /\ Len(t) = Len(s) - 1
        /\ \A i \in 1..Len(t) : t[i] = s[i + 1]
    OBVIOUS
  <1> HIDE DEF t
  <1>2. \A i \in 1..Len(t) : i + 1 \in 1..Len(s) /\ i + 1 # 1
    BY <1>1
  <1>3. Head(s) \notin C
    BY <1>1 DEF Fresh
  <1>4. \A i \in 1..Len(t) : t[i] \notin C \union {Head(s)}
    BY <1>1, <1>2 DEF Fresh
  <1>5. \A i, j \in 1..Len(t) : t[i] = t[j] => i = j
    BY <1>1, <1>2 DEF Fresh
  <1>6. Fresh(t, C \union {Head(s)})
    BY <1>4, <1>5 DEF Fresh
  <1> QED
    BY <1>3, <1>6 DEF t

LEMMA OneCloseInit == Init => OneClose
  <1> SUFFICES ASSUME Init PROVE OneClose
    OBVIOUS
  <1>1. ~ crashed /\ ~ failed /\ closes = 0
    BY DEF Init
  <1>2. Closers = {} /\ \A p \in Procs : pc[p] = "idle"
    BY DEF Init, Closers
  <1>3. Fresh(waiters, closed)
    BY DEF Init, Fresh
  <1> QED
    BY <1>1, <1>2, <1>3 DEF OneClose, ClosingOK

LEMMA OneCloseNext == TypeOK /\ OneClose /\ [Next]_vars => OneClose'
  <1> SUFFICES ASSUME TypeOK, OneClose, [Next]_vars, closes' <= 1, ~ late'
               PROVE  ClosingOK'
    BY DEF OneClose
  <1> USE DEF Procs, Goto, queue, local, tab, panics, Closers, ClosingOK
  <1>0. closes \in Nat
    BY DEF TypeOK
  <1>1. ASSUME NEW t \in Threads, CallWait(t) \/ Take(t) \/ Wake(t) \/ Expire(t)
        PROVE  ClosingOK'
    <2>1. \A p \in Procs, l \in {"snapshot", "closing"} : pc'[p] = l <=> pc[p] = l
      BY <1>1 DEF CallWait, Take, Wake, Expire, TypeOK
    <2>2. UNCHANGED <<waiters, closed, rest, closes, tab, panics>>
      BY <1>1 DEF CallWait, Take, Wake, Expire
    <2> QED
      BY <2>1, <2>2 DEF OneClose
  <1>2. ASSUME NEW t \in Threads, Register(t) PROVE ClosingOK'
    <2>1. Fresh(waiters, closed) => Fresh(waiters', closed')
      BY <1>2, FreshAppend DEF Register, TypeOK
    <2> QED
      BY <1>2, <2>1 DEF Register, TypeOK, OneClose
  <1>3. CASE Emit
    BY <1>3 DEF Emit, OneClose
  <1>4. CASE Invoke
    <2>1. closes = 0 /\ Fresh(waiters, closed) /\ ~ crashed
      BY <1>4, <1>0 DEF Invoke, OneClose
    <2>2. Woken \intersect closed = {}
      BY <2>1, FreshIsDisjoint DEF TypeOK, Woken
    <2>3. waiters' = <<>> /\ ~ crashed'
      BY <1>4, <2>1, <2>2 DEF Invoke
    <2>4. Fresh(waiters', closed')
      BY <2>3 DEF Fresh
    <2> QED
      BY <1>4, <2>1, <2>3, <2>4 DEF Invoke, OneClose
  <1>5. CASE RunEnds
    BY <1>5 DEF RunEnds, OneClose
  <1>6. ASSUME NEW p \in Procs, Cancel(p) PROVE ClosingOK'
    <2>1. closes = 0 /\ closes' = 1
      BY <1>6, <1>0 DEF Cancel
    <2>2. ~ inflight /\ ~ late
      BY <1>6 DEF Cancel
    <2>3. ClosingOK
      BY <2>1, <2>2 DEF OneClose
    <2>4. \A q \in Procs : pc'[q] \in {"snapshot", "closing"} => q = p /\ pc'[q] = "snapshot"
      BY <1>6, <2>1, <2>3 DEF Cancel, TypeOK
    <2> QED
      BY <1>6, <2>1, <2>2, <2>3, <2>4 DEF Cancel
  <1>7. ASSUME NEW p \in Procs, Snapshot(p) PROVE ClosingOK'
    <2>1. ClosingOK /\ pc[p] = "snapshot" /\ Fresh(waiters, closed)
      BY <1>7 DEF Snapshot, OneClose
    <2>2. \A q \in Procs : pc'[q] \in {"snapshot", "closing"} => q = p
      BY <1>7, <2>1 DEF Snapshot, TypeOK
    <2>3. pc'[p] = "closing" /\ rest'[p] = waiters
      BY <1>7 DEF Snapshot, TypeOK
    <2>4. closes # 0
      BY <2>1
    <2> QED
      BY <1>7, <2>1, <2>2, <2>3, <2>4 DEF Snapshot
  <1>8. ASSUME NEW p \in Procs, CloseOne(p) PROVE ClosingOK'
    <2>1. ClosingOK /\ pc[p] = "closing" /\ rest[p] # <<>>
      BY <1>8 DEF CloseOne, OneClose
    <2>2. Fresh(rest'[p], closed')
      BY <1>8, <2>1, FreshTail DEF CloseOne, TypeOK
    <2>3. \A q \in Procs : pc[q] \in {"snapshot", "closing"} => q = p
      BY <2>1
    <2> QED
      BY <1>8, <2>1, <2>2, <2>3 DEF CloseOne
  <1>9. ASSUME NEW p \in Procs, ClosePanics(p) PROVE ClosingOK'
    <2>1. Fresh(rest[p], closed) /\ rest[p] # <<>> /\ Head(rest[p]) \in closed
      BY <1>9 DEF ClosePanics, OneClose
    <2> QED
      BY <2>1, FreshTail DEF TypeOK
  <1>10. ASSUME NEW p \in Procs, CloseReturns(p) PROVE ClosingOK'
    BY <1>10 DEF CloseReturns, TypeOK, OneClose
  <1>11. CASE UNCHANGED vars
    BY <1>11 DEF vars, OneClose
  <1> QED
    BY <1>1, <1>2, <1>3, <1>4, <1>5, <1>6, <1>7, <1>8, <1>9, <1>10, <1>11
    DEF Next, Waiting, Closing

(* Closing a tab once, while its listener is not in flight, closes no       *)
(* channel twice, whoever waits and however the calls of Wait, the other    *)
(* events and the steps of Close interleave (event.go:28-33, 69-81).        *)
THEOREM ChannelsCloseOnce == Spec => []ClosedOnce
  <1>1. OneClose => ClosedOnce
    BY DEF OneClose, ClosingOK, ClosedOnce
  <1> QED
    BY <1>1, TypeInit, TypeNext, OneCloseInit, OneCloseNext, PTL DEF Spec
=============================================================================
