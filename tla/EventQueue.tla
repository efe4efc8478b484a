----------------------------- MODULE EventQueue -----------------------------
(***************************************************************************)
(* What the event queue of a tab promises to a scenario, without its       *)
(* mutex, its channels or its contexts.  A tab has four of them (dialogs,  *)
(* downloads, requests and responses), each implemented by an              *)
(* EventHandler; the module of that name is shown to implement this one.   *)
(*                                                                         *)
(* Events are numbered in the order the browser emitted them, so the queue *)
(* is the interval taken+1 .. arrived.  A waiter that asks gets the oldest *)
(* event nobody has been given yet.  It can give up only if it found the   *)
(* queue empty after asking: an event that was there first is returned     *)
(* even to a call with a timeout of zero.                                  *)
(***************************************************************************)
EXTENDS Naturals

CONSTANT Waiters            \* goroutines that may call tab:waitXXX()

VARIABLES
    arrived,                \* number of events put in the queue so far
    taken,                  \* number of events handed to a waiter so far
    client,                 \* what each waiter is doing
    result                  \* what its last call returned; 0 for a timeout

vars == <<arrived, taken, client, result>>

TypeOK ==
    /\ arrived \in Nat
    /\ taken \in 0..arrived
    /\ client \in [Waiters -> {"idle", "asked", "blocked"}]
    /\ result \in [Waiters -> 0..arrived]

Init ==
    /\ arrived = 0
    /\ taken = 0
    /\ client = [w \in Waiters |-> "idle"]
    /\ result = [w \in Waiters |-> 0]

Put ==
    /\ arrived' = arrived + 1
    /\ UNCHANGED <<taken, client, result>>

Ask(w) ==
    /\ client[w] = "idle"
    /\ client' = [client EXCEPT ![w] = "asked"]
    /\ UNCHANGED <<arrived, taken, result>>

Get(w) ==
    /\ client[w] \in {"asked", "blocked"}
    /\ taken < arrived
    /\ taken' = taken + 1
    /\ result' = [result EXCEPT ![w] = taken + 1]
    /\ client' = [client EXCEPT ![w] = "idle"]
    /\ UNCHANGED arrived

Block(w) ==
    /\ client[w] = "asked"
    /\ taken = arrived
    /\ client' = [client EXCEPT ![w] = "blocked"]
    /\ UNCHANGED <<arrived, taken, result>>

GiveUp(w) ==
    /\ client[w] = "blocked"
    /\ result' = [result EXCEPT ![w] = 0]
    /\ client' = [client EXCEPT ![w] = "idle"]
    /\ UNCHANGED <<arrived, taken>>

Next ==
    \/ Put
    \/ \E w \in Waiters : Ask(w) \/ Get(w) \/ Block(w) \/ GiveUp(w)

Spec == Init /\ [][Next]_vars
=============================================================================
