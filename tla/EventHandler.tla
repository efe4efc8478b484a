---------------------------- MODULE EventHandler ----------------------------
(***************************************************************************)
(* One EventHandler of a tab (src/internal/event.go): the listener of the  *)
(* tab appends events to history, goroutines that run Lua take them with   *)
(* Wait, and Tab.Close closes the handler.                                 *)
(*                                                                         *)
(* Wait and Invoke hold the handler's own mutex, so each of their critical *)
(* sections is one action.  Close takes no lock at all: it reads the slice *)
(* of waiters once and then closes the channels one by one, and any other  *)
(* action may come between two of these steps.  The read of the slice      *)
(* header is one step here; a header torn by a concurrent append is left   *)
(* out.                                                                    *)
(*                                                                         *)
(* The callback function, lfunc, and the goroutine that h.handle starts    *)
(* do not touch the queue; Environment.tla has them.                       *)
(***************************************************************************)
EXTENDS Naturals, Sequences, Functions

CONSTANTS
    Threads,        \* goroutines that run Lua: the script and callbacks
    Main,           \* the goroutine of Run, which closes the tabs at the end
    MaxEvents,      \* bound: events the browser emits
    MaxWaits,       \* bound: calls of Wait
    MaxCloses       \* bound: calls of Tab.Close

ASSUME ThreadsAssumption == Main \notin Threads
ASSUME BoundsAssumption == MaxEvents \in Nat /\ MaxWaits \in Nat /\ MaxCloses \in Nat

VARIABLES
    history,        \* h.history: every event so far, by number
    waited,         \* h.waited: how many of them Wait has returned
    waiters,        \* h.waiters: the channels Invoke will close
    closed,         \* the channels that have been closed
    nchan,          \* number of channels made so far, their names are 1..nchan
    pc, ch,         \* where each goroutine is, and the channel it selects on
    timed,          \* does its context have a timeout besides the tab's context
    result,         \* what its last Wait returned, 0 for nil
    rest,           \* what is left of the slice a Close ranges over
    emitted,        \* number of events the listener has been called with
    inflight,       \* is the listener between its call and h.Invoke
    canceled,       \* has the tab's context been cancelled
    waits, closes,  \* calls so far, for the bounds
    late,           \* was the listener in flight when the tab was cancelled
    failed,         \* a Close called from Lua panicked: the Lua code gets an error
    crashed         \* a panic on a goroutine nothing recovers: the process is gone

queue  == <<history, waited, waiters, closed, nchan>>
local  == <<pc, ch, timed, result, rest>>
tab    == <<emitted, inflight, canceled, late>>
panics == <<failed, crashed>>
vars   == <<queue, local, tab, panics, waits, closes>>

Procs == Threads \union {Main}

InWait == {"check", "select", "recheck"}

TypeOK ==
    /\ history \in Seq(1..emitted)
    /\ waited \in 0..Len(history)
    /\ nchan \in Nat
    /\ waiters \in Seq(1..nchan)
    /\ closed \in SUBSET (1..nchan)
    /\ pc \in [Procs -> InWait \union {"idle", "snapshot", "closing"}]
    /\ ch \in [Procs -> 0..nchan]
    /\ timed \in [Procs -> BOOLEAN]
    /\ result \in [Procs -> 0..emitted]
    /\ rest \in [Procs -> Seq(1..nchan)]
    /\ emitted \in Nat
    /\ inflight \in BOOLEAN /\ (inflight => emitted > 0)
    /\ canceled \in BOOLEAN /\ late \in BOOLEAN
    /\ failed \in BOOLEAN /\ crashed \in BOOLEAN
    /\ waits \in Nat /\ closes \in Nat

Init ==
    /\ history = <<>> /\ waited = 0
    /\ waiters = <<>> /\ closed = {} /\ nchan = 0
    /\ pc = [p \in Procs |-> "idle"]
    /\ ch = [p \in Procs |-> 0]
    /\ timed = [p \in Procs |-> FALSE]
    /\ result = [p \in Procs |-> 0]
    /\ rest = [p \in Procs |-> <<>>]
    /\ emitted = 0 /\ inflight = FALSE /\ canceled = FALSE /\ late = FALSE
    /\ failed = FALSE /\ crashed = FALSE
    /\ waits = 0 /\ closes = 0

Goto(p, l) == pc' = [pc EXCEPT ![p] = l]

-----------------------------------------------------------------------------
(* h.Wait(ctx), called by tab:waitXXX().                                   *)

CallWait(t) ==
    /\ ~ crashed
    /\ pc[t] = "idle"
    /\ waits < MaxWaits
    /\ waits' = waits + 1
    /\ \E b \in BOOLEAN : timed' = [timed EXCEPT ![t] = b]
    /\ Goto(t, "check")
    /\ UNCHANGED <<queue, ch, result, rest, tab, panics, closes>>

\* Mutant of Take: history is emptied with its last event, waited stays.
TakeAndEmpty(t) ==
    /\ ~ crashed
    /\ pc[t] \in {"check", "recheck"}
    /\ waited < Len(history)
    /\ waited' = waited + 1
    /\ history' = IF waited' = Len(history) THEN <<>> ELSE history
    /\ result' = [result EXCEPT ![t] = history[waited + 1]]
    /\ Goto(t, "idle")
    /\ UNCHANGED <<waiters, closed, nchan, ch, timed, rest, tab, panics, waits, closes>>

\* The first branch under the lock: an event nobody has taken is returned.
Take(t) ==
    /\ ~ crashed
    /\ pc[t] \in {"check", "recheck"}
    /\ waited < Len(history)
    /\ waited' = waited + 1
    /\ result' = [result EXCEPT ![t] = history[waited + 1]]
    /\ Goto(t, "idle")
    /\ UNCHANGED <<history, waiters, closed, nchan, ch, timed, rest, tab, panics,
                   waits, closes>>

\* The rest of the critical section: a new channel joins the waiters.
Register(t) ==
    /\ ~ crashed
    /\ pc[t] \in {"check", "recheck"}
    /\ ~ (waited < Len(history))
    /\ nchan' = nchan + 1
    /\ waiters' = Append(waiters, nchan + 1)
    /\ ch' = [ch EXCEPT ![t] = nchan + 1]
    /\ Goto(t, "select")
    /\ UNCHANGED <<history, waited, closed, timed, result, rest, tab, panics,
                   waits, closes>>

\* Select picks any of its ready cases, so a goroutine whose channel was closed
\* may still take the other one and leave the event in the queue.
Wake(t) ==
    /\ ~ crashed
    /\ pc[t] = "select"
    /\ ch[t] \in closed
    /\ Goto(t, "recheck")
    /\ UNCHANGED <<queue, ch, timed, result, rest, tab, panics, waits, closes>>

\* Its context is done: its own timeout or the context of the tab it comes from.
\* (The mutant is not derived from the latter.)
OwnTimeout(t) == timed[t]
CtxDone(t) == canceled \/ timed[t]

Expire(t) ==
    /\ ~ crashed
    /\ pc[t] = "select"
    /\ CtxDone(t)
    /\ result' = [result EXCEPT ![t] = 0]
    /\ Goto(t, "idle")
    /\ UNCHANGED <<queue, ch, timed, rest, tab, panics, waits, closes>>

-----------------------------------------------------------------------------
(* The listener.  chromedp calls it for one event at a time, and not after  *)
(* the context of the tab is done; but it may be waiting for the GIL in     *)
(* BuildTable when that happens, and then Invoke comes late.                *)

Emit ==
    /\ ~ crashed
    /\ ~ inflight
    /\ ~ canceled
    /\ emitted < MaxEvents
    /\ emitted' = emitted + 1
    /\ inflight' = TRUE
    /\ UNCHANGED <<queue, local, canceled, late, panics, waits, closes>>

\* The context of the run ends (a timeout or an interrupt) and with it the tab's.
RunEnds ==
    /\ ~ crashed
    /\ ~ canceled
    /\ canceled' = TRUE
    /\ UNCHANGED <<queue, local, emitted, inflight, late, panics, waits, closes>>

\* Mutant of Remember: what has been taken is dropped, waited stays.
RememberUnread == Append(SubSeq(history, waited + 1, Len(history)), emitted)
Remember == Append(history, emitted)

\* Mutant of Woken: an event wakes the waiter that came first.
WokenFirst == IF waiters = <<>> THEN {} ELSE {Head(waiters)}
Woken == Range(waiters)

\* Mutant of Invoke: the waiters stay in the list.
InvokeKeepingWaiters ==
    /\ ~ crashed
    /\ inflight
    /\ inflight' = FALSE
    /\ history' = Remember
    /\ closed' = closed \union Woken
    /\ crashed' = (Woken \intersect closed # {})
    /\ UNCHANGED <<waited, waiters, nchan, local, emitted, canceled, late, failed, waits,
                   closes>>

\* Closing a closed channel panics, here on a goroutine nothing recovers.
Invoke ==
    /\ ~ crashed
    /\ inflight
    /\ inflight' = FALSE
    /\ history' = Remember
    /\ closed' = closed \union Woken
    /\ IF Woken \intersect closed = {}
         THEN waiters' = <<>> /\ UNCHANGED crashed
         ELSE crashed' = TRUE /\ UNCHANGED waiters
    /\ UNCHANGED <<waited, nchan, local, emitted, canceled, late, failed, waits, closes>>

-----------------------------------------------------------------------------
(* Tab.Close, from t:close() or from env.Close: the context of the tab is   *)
(* cancelled, then h.Close ranges over h.waiters and keeps them.            *)

Cancel(p) ==
    /\ ~ crashed
    /\ pc[p] = "idle"
    /\ closes < MaxCloses
    /\ closes' = closes + 1
    /\ canceled' = TRUE
    /\ late' = (late \/ inflight)
    /\ Goto(p, "snapshot")
    /\ UNCHANGED <<queue, ch, timed, result, rest, emitted, inflight, panics, waits>>

Snapshot(p) ==
    /\ ~ crashed
    /\ pc[p] = "snapshot"
    /\ rest' = [rest EXCEPT ![p] = waiters]
    /\ Goto(p, "closing")
    /\ UNCHANGED <<queue, ch, timed, result, tab, panics, waits, closes>>

CloseOne(p) ==
    /\ ~ crashed
    /\ pc[p] = "closing"
    /\ rest[p] # <<>>
    /\ Head(rest[p]) \notin closed
    /\ closed' = closed \union {Head(rest[p])}
    /\ rest' = [rest EXCEPT ![p] = Tail(rest[p])]
    /\ UNCHANGED <<history, waited, waiters, nchan, pc, ch, timed, result, tab, panics,
                   waits, closes>>

\* The panic becomes a Lua error in t:close(); in env.Close nothing recovers it.
ClosePanics(p) ==
    /\ ~ crashed
    /\ pc[p] = "closing"
    /\ rest[p] # <<>>
    /\ Head(rest[p]) \in closed
    /\ IF p = Main THEN crashed' = TRUE /\ UNCHANGED failed
                   ELSE failed' = TRUE /\ UNCHANGED crashed
    /\ rest' = [rest EXCEPT ![p] = <<>>]
    /\ Goto(p, "idle")
    /\ UNCHANGED <<queue, ch, timed, result, tab, waits, closes>>

\* Mutant of CloseReturns: h.waiters is cleared at the end, without the mutex.
CloseReturnsClearing(p) ==
    /\ ~ crashed
    /\ pc[p] = "closing"
    /\ rest[p] = <<>>
    /\ waiters' = <<>>
    /\ Goto(p, "idle")
    /\ UNCHANGED <<history, waited, closed, nchan, ch, timed, result, rest, tab, panics,
                   waits, closes>>

CloseReturns(p) ==
    /\ ~ crashed
    /\ pc[p] = "closing"
    /\ rest[p] = <<>>
    /\ Goto(p, "idle")
    /\ UNCHANGED <<queue, ch, timed, result, rest, tab, panics, waits, closes>>

-----------------------------------------------------------------------------

Waiting(t) == Take(t) \/ Register(t) \/ Wake(t) \/ Expire(t)
Closing(p) == Snapshot(p) \/ CloseOne(p) \/ ClosePanics(p) \/ CloseReturns(p)

Next ==
    \/ \E t \in Threads : CallWait(t) \/ Waiting(t)
    \/ Emit
    \/ Invoke
    \/ RunEnds
    \/ \E p \in Procs : Cancel(p) \/ Closing(p)

Spec == Init /\ [][Next]_vars

(***************************************************************************)
(* A goroutine that can go on goes on: the mutex is held for a few         *)
(* instructions only and Go hands it to a goroutine that has waited long.  *)
(* Nothing makes a script call Wait or Close, or the browser emit events.  *)
(***************************************************************************)
FairSpec ==
    /\ Spec
    /\ WF_vars(Invoke)
    /\ \A t \in Threads : WF_vars(Waiting(t))
    /\ \A p \in Procs : WF_vars(Closing(p))

-----------------------------------------------------------------------------
(* A goroutine asleep on an open channel has not missed anything: its       *)
(* channel is among those the next Invoke closes, and every event there is  *)
(* has been taken.  Register and Invoke keep it under the mutex; Close,     *)
(* which has no mutex, must keep it too (event.go:47-81, 28-33).            *)
NoLostWakeup ==
    \A t \in Threads :
        pc[t] = "select" /\ ch[t] \notin closed
            => /\ ch[t] \in Range(waiters)
               /\ waited = Len(history)

(* Channels are closed at most once, so that nothing panics, as long as the *)
(* tab is closed at most once and its listener was not in flight at that    *)
(* moment (event.go:30, 78).  Without either condition the code does panic: *)
(* Close neither locks nor clears h.waiters.                                *)
ClosedOnce == closes <= 1 /\ ~ late => ~ crashed /\ ~ failed

(* The handler is the queue a scenario is promised: events in the order of  *)
(* the browser, each given to one waiter at most, none lost to a waiter     *)
(* that timed out, and no timeout for a call that came after the event.     *)
(* An event arrives when Invoke appends it.                                 *)
Queue == INSTANCE EventQueue WITH
            Waiters <- Threads,
            arrived <- IF inflight THEN emitted - 1 ELSE emitted,
            taken   <- waited,
            client  <- [t \in Threads |->
                           CASE pc[t] = "check"                 -> "asked"
                             [] pc[t] \in {"select", "recheck"} -> "blocked"
                             [] OTHER                           -> "idle"],
            result  <- [t \in Threads |-> result[t]]

ImplementsQueue == Queue!Spec

(* A goroutine inside Wait does not stay there while events are left: it    *)
(* returns, or others take the events (the wake-up of event.go:64, 77-79).  *)
PendingIsServed ==
    \A t \in Threads :
        (pc[t] \in InWait /\ waited < Len(history))
            ~> (pc[t] \notin InWait \/ waited = Len(history) \/ crashed)

(* Cancelling the tab ends every Wait on it (event.go:66).                  *)
CancelEndsWait ==
    \A t \in Threads :
        (canceled /\ pc[t] \in InWait) ~> (pc[t] \notin InWait \/ crashed)
=============================================================================
