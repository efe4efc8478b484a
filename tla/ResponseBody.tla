---------------------------- MODULE ResponseBody ----------------------------
(***************************************************************************)
(* Reading the body of one response: resp:read() in the script or in a     *)
(* callback, the LoadWaiter of the tab, and the listener that completes    *)
(* it (src/internal/tab.go:21-48, 186-216, filelike.go:120-136).           *)
(*                                                                         *)
(* The table of the event is shared by everyone who got the event, so      *)
(* several goroutines may read.  The test of r.reader, and all of the code *)
(* up to the AsyncRun of t.Run, runs under the GIL; the wait and the call  *)
(* of the browser run without it.  The events of the network are external: *)
(* a response is received, then its body is loaded or fails to load.       *)
(***************************************************************************)
EXTENDS Naturals

CONSTANTS
    Readers,        \* goroutines that read the body
    MaxReads        \* bound: calls of read by each of them

ASSUME BoundsAssumption == MaxReads \in Nat

VARIABLES
    request,        \* how far the request has come
    waits,          \* l.waits[id]: the channel to close, 0 when there is none
    closed,         \* the channels Complete has closed
    nchan,          \* channels made so far
    opened,         \* is r.reader set
    canceled,       \* is the context of the tab done
    pc, ch,
    entry,          \* the state of the request when the reader began to wait
    reads           \* calls so far, for the bound

loader == <<request, waits, closed, nchan>>
bodyVars == <<loader, opened, canceled, pc, ch, entry, reads>>

BodyTypeOK ==
    /\ request \in {"sent", "received", "finished", "failed", "unheard"}
    /\ nchan \in Nat
    /\ waits \in 0..nchan
    /\ closed \in SUBSET (1..nchan)
    /\ opened \in BOOLEAN /\ canceled \in BOOLEAN
    /\ pc \in [Readers -> {"idle", "wait", "blocked", "fetch"}]
    /\ ch \in [Readers -> 0..nchan]
    /\ entry \in [Readers -> {"none", "received", "finished", "failed", "unheard"}]
    /\ reads \in [Readers -> 0..MaxReads]

BodyInit ==
    /\ request = "sent"
    /\ waits = 0 /\ closed = {} /\ nchan = 0
    /\ opened = FALSE /\ canceled = FALSE
    /\ pc = [r \in Readers |-> "idle"]
    /\ ch = [r \in Readers |-> 0]
    /\ entry = [r \in Readers |-> "none"]
    /\ reads = [r \in Readers |-> 0]

\* The table of the event is made when the response is received.  (The mutant
\* makes it with the request.)
TableFromStart == TRUE
HasTable == request # "sent"

\* DelayedReader.Read: the body is asked for once r.reader is found nil.
Read(r) ==
    /\ pc[r] = "idle"
    /\ HasTable
    /\ reads[r] < MaxReads
    /\ reads' = [reads EXCEPT ![r] = @ + 1]
    /\ pc' = IF opened THEN pc ELSE [pc EXCEPT ![r] = "wait"]
    /\ UNCHANGED <<loader, opened, canceled, ch, entry>>

\* Mutant of Wait: a channel left there before stays.
WaitKeeping(r) ==
    /\ pc[r] = "wait"
    /\ nchan' = nchan + 1
    /\ waits' = IF waits = 0 THEN nchan + 1 ELSE waits
    /\ ch' = [ch EXCEPT ![r] = nchan + 1]
    /\ entry' = [entry EXCEPT ![r] = request]
    /\ pc' = [pc EXCEPT ![r] = "blocked"]
    /\ UNCHANGED <<request, closed, opened, canceled, reads>>

\* LoadWaiter.Wait, under its lock: a channel left there before is overwritten.
Wait(r) ==
    /\ pc[r] = "wait"
    /\ nchan' = nchan + 1
    /\ waits' = nchan + 1
    /\ ch' = [ch EXCEPT ![r] = nchan + 1]
    /\ entry' = [entry EXCEPT ![r] = request]
    /\ pc' = [pc EXCEPT ![r] = "blocked"]
    /\ UNCHANGED <<request, closed, opened, canceled, reads>>

\* The receive from the channel; no context is looked at.
\* (In the mutant the wait has a timeout, after which the body is asked for.)
ReleasedOrTired(r) == TRUE
Released(r) == ch[r] \in closed

Wake(r) ==
    /\ pc[r] = "blocked"
    /\ Released(r)
    /\ pc' = [pc EXCEPT ![r] = "fetch"]
    /\ UNCHANGED <<loader, opened, canceled, ch, entry, reads>>

\* GetResponseBody: r.reader is set, or an error is raised in the reader (the
\* context is done, its minute is over, or the browser refuses).
Fetch(r) ==
    /\ pc[r] = "fetch"
    /\ opened' \in IF canceled THEN {opened} ELSE {opened, TRUE}
    /\ pc' = [pc EXCEPT ![r] = "idle"]
    /\ UNCHANGED <<loader, canceled, ch, entry, reads>>

ResponseReceived ==
    /\ request = "sent"
    /\ ~ canceled
    /\ request' = "received"
    /\ UNCHANGED <<waits, closed, nchan, opened, canceled, pc, ch, entry, reads>>

\* What Complete closes.  (The mutant only deletes the entry of the map.)
ClosesNothing == {}
Closes == {waits} \ {0}

\* EventLoadingFinished, and LoadWaiter.Complete.
Complete ==
    /\ request = "received"
    /\ ~ canceled
    /\ request' = "finished"
    /\ closed' = closed \union Closes
    /\ waits' = 0
    /\ UNCHANGED <<nchan, opened, canceled, pc, ch, entry, reads>>

\* EventLoadingFailed, which the listener does not handle.
LoadingFailed ==
    /\ request = "received"
    /\ request' = "failed"
    /\ UNCHANGED <<waits, closed, nchan, opened, canceled, pc, ch, entry, reads>>

\* The body is loaded, and the browser does not say so: its events are off.
LoadedUnheard ==
    /\ request = "received"
    /\ request' = "unheard"
    /\ UNCHANGED <<waits, closed, nchan, opened, canceled, pc, ch, entry, reads>>

TabEnds ==
    /\ ~ canceled
    /\ canceled' = TRUE
    /\ UNCHANGED <<loader, opened, pc, ch, entry, reads>>

ReaderStep(r) == Wait(r) \/ Wake(r) \/ Fetch(r)

-----------------------------------------------------------------------------
(* The browser is asked for a body only when the body is there.             *)
LoadedBeforeFetch == \A r \in Readers : pc[r] = "fetch" => request = "finished"

(* A reader that began to wait before the body was loaded is released by    *)
(* Complete, unless another reader of the response began after it and took  *)
(* its place in l.waits (tab.go:33-40, 42-48).                              *)
ServedUnlessDisplaced ==
    \A r \in Readers :
        pc[r] = "blocked" /\ entry[r] = "received" /\ request = "finished"
            => \/ ch[r] \in closed
               \/ \E q \in Readers \ {r} : ch[q] > ch[r]

(* As long as one reader waits at a time and its wait began before the body *)
(* was loaded, the body is read once it is loaded.                          *)
TimelyBodyIsRead ==
    \A r \in Readers :
        (/\ pc[r] = "blocked" /\ request = "finished"
         /\ entry[r] = "received" /\ \A q \in Readers \ {r} : ch[q] < ch[r])
            ~> pc[r] = "idle"
=============================================================================
