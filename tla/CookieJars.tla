----------------------------- MODULE CookieJars -----------------------------
(***************************************************************************)
(* fetch and its cookie jars (src/internal/fetch.go).  A call prepares its *)
(* request under the GIL, makes the request without it (AsyncRun), and     *)
(* takes the GIL again to return.  A jar keeps the URLs that set cookies   *)
(* in a map without a lock, which requests write and jar:all() reads; Go   *)
(* may end the process when it finds two at a time.  The server and the    *)
(* client of net/http are external: a response may set cookies, redirect   *)
(* to the next, or never come.                                             *)
(***************************************************************************)
EXTENDS Naturals, FiniteSets

CONSTANTS
    Fetchers,       \* goroutines that call fetch
    MaxJars         \* bound: jars made, and so calls of fetch without one

ASSUME JarsAssumption == MaxJars \in Nat

VARIABLES
    njars,          \* jars made; a jar is its number
    call,           \* call[u]: what a goroutine is doing, 0 for no jar
    runEnded,       \* the context of the run is done
    crashed,        \* Go has found two uses of a map at a time
    shared          \* history: the jars that were used by two calls at a time

fetchVars == <<njars, call, runEnded, crashed, shared>>

Jars == 1..MaxJars
NoCall == [op |-> "idle", jar |-> 0, limit |-> FALSE]

FetchTypeOK ==
    /\ njars \in 0..MaxJars
    /\ call \in [Fetchers -> [op : {"idle", "request", "write", "return", "read"},
                              jar : 0..MaxJars, limit : BOOLEAN]]
    /\ runEnded \in BOOLEAN /\ crashed \in BOOLEAN /\ shared \subseteq Jars

FetchInit ==
    /\ njars = 0
    /\ call = [u \in Fetchers |-> NoCall]
    /\ runEnded = FALSE /\ crashed = FALSE /\ shared = {}

\* jar:all() is the only part here that holds the GIL for more than a step.
LuaIsFree == ~ crashed /\ \A u \in Fetchers : call[u].op # "read"

Uses(u, j) == call[u].op # "idle" /\ call[u].jar = j
UsedBeside(u, j) == \E v \in Fetchers \ {u} : Uses(v, j)
Share(u, j) == shared' = IF UsedBeside(u, j) THEN shared \union {j} ELSE shared

\* fetch up to its AsyncRun: `limit' when its timeout is above 0, as it is when
\* no timeout is given.
Prepare(u, limit) ==
    /\ LuaIsFree /\ call[u].op = "idle"
    /\ \/ /\ njars < MaxJars
          /\ njars' = njars + 1
          /\ call' = [call EXCEPT ![u] = [op |-> "request", jar |-> njars + 1, limit |-> limit]]
          /\ UNCHANGED shared
       \/ \E j \in 1..njars :
            /\ ~ Uses(u, j)
            /\ call' = [call EXCEPT ![u] = [op |-> "request", jar |-> j, limit |-> limit]]
            /\ Share(u, j)
            /\ UNCHANGED njars
    /\ UNCHANGED <<runEnded, crashed>>

\* Mutant: all calls without a jar of their own use the first.
FirstJar(u) == 1
JarOf(u) == call[u].jar

\* Another goroutine is in the middle of a use of the map.
Busy(u) == \E v \in Fetchers \ {u} : JarOf(v) = JarOf(u) /\ call[v].op \in {"write", "read"}

notCall == <<njars, runEnded, shared>>

\* CookieJar.SetCookies begins to write j.urls.
StartWrite(u) ==
    /\ call[u].op = "request" /\ ~ crashed
    /\ call' = [call EXCEPT ![u].op = "write"]
    /\ crashed' \in IF Busy(u) THEN BOOLEAN ELSE {FALSE}
    /\ UNCHANGED notCall

\* The entry is there, and the client goes on, to a redirect or the body.
EndWrite(u) ==
    /\ call[u].op = "write" /\ ~ crashed
    /\ call' = [call EXCEPT ![u].op = "request"]
    /\ UNCHANGED <<notCall, crashed>>

\* Mutant: the request has no context of its own.
RunIsOver(u) == runEnded
Expired(u) == runEnded \/ call[u].limit

\* The body is read to its end, or an error: of the server, or of the context.
Respond(u) ==
    /\ call[u].op = "request" /\ ~ crashed
    /\ call' = [call EXCEPT ![u].op = "return"]
    /\ UNCHANGED <<notCall, crashed>>

Expire(u) == Expired(u) /\ Respond(u)

\* AsyncRun takes the GIL, and fetch returns, or raises its error.
Return(u) ==
    /\ call[u].op = "return" /\ LuaIsFree
    /\ call' = [call EXCEPT ![u] = NoCall]
    /\ UNCHANGED <<notCall, crashed>>

\* jar:all() goes through j.urls, under the GIL.
StartAll(u) ==
    /\ LuaIsFree /\ call[u].op = "idle"
    /\ \E j \in 1..njars :
         /\ call' = [call EXCEPT ![u] = [op |-> "read", jar |-> j, limit |-> FALSE]]
         /\ Share(u, j)
         /\ crashed' \in IF \E v \in Fetchers \ {u} : Uses(v, j) /\ call[v].op = "write"
                           THEN BOOLEAN ELSE {FALSE}
    /\ UNCHANGED <<njars, runEnded>>

EndAll(u) ==
    /\ call[u].op = "read" /\ ~ crashed
    /\ call' = [call EXCEPT ![u] = NoCall]
    /\ UNCHANGED <<notCall, crashed>>

EndOfRun ==
    /\ ~ runEnded
    /\ runEnded' = TRUE
    /\ UNCHANGED <<njars, call, crashed, shared>>

FetchStep(u) ==
    \/ \E limit \in BOOLEAN : Prepare(u, limit)
    \/ StartWrite(u) \/ EndWrite(u) \/ Respond(u) \/ Return(u) \/ StartAll(u) \/ EndAll(u)

FetchNext == EndOfRun \/ \E u \in Fetchers : FetchStep(u)

FetchSpec == FetchInit /\ [][FetchNext]_fetchVars

\* Contexts end requests, and goroutines go on; the mutex of the GIL lets
\* everyone who waits have it in the end.
FetchFairness ==
    \A u \in Fetchers : /\ SF_fetchVars(Expire(u)) /\ SF_fetchVars(Return(u))
                        /\ WF_fetchVars(EndWrite(u)) /\ WF_fetchVars(EndAll(u))

-----------------------------------------------------------------------------
(* The process crashes on a map of a jar only if the scenario gave the jar  *)
(* to a call while another call used it (fetch.go:106-109, 166).            *)
CrashOnlyIfShared == crashed => shared # {}

(* A fetch that has a time limit, and every fetch once the run is over,     *)
(* returns (fetch.go:266-271), though the server never answers.             *)
FetchReturns ==
    \A u \in Fetchers :
        call[u].op = "request" /\ (call[u].limit \/ runEnded) ~> call[u].op = "idle" \/ crashed
=============================================================================
