----------------------- MODULE EnvironmentCloseProofs -----------------------
(***************************************************************************)
(* The end of tabs and of the run in Environment: the wait group of a tab  *)
(* counts its callbacks, a tab that is being closed has none of them left, *)
(* and what it takes for the process to die of a panic.  And in "stdin"    *)
(* mode, that an error of the script is reported.                          *)
(*                                                                         *)
(* All of this is for any number of tabs, callbacks, events and            *)
(* operations, and is built on the invariant of module EnvironmentProofs.  *)
(***************************************************************************)
EXTENDS EnvironmentProofs, FiniteSetTheorems

-----------------------------------------------------------------------------
(* The life of a tab.  From tab.new to the registration a tab belongs to    *)
(* the goroutine that opens it; lists, listeners, callbacks and calls of    *)
(* Close have tabs that were registered.                                    *)

Known(t) == life[t] \in {"live", "closed"}

Opens(p) == \/ pc[p] \in {"opened", "register"}
            \/ pc[p] \in {"op", "relock"} /\ ret[p] \in {"opened", "register"}

Closes(p) == pc[p] \in {"wait", "blocked", "woken"} \union PastWait

OwnersOK ==
    /\ \A p \in Procs : Opens(p) => life[target[p]] \in {"opening", "blank"}
    /\ \A p, q \in Procs : Opens(p) /\ Opens(q) /\ target[p] = target[q] => p = q
    /\ \A p \in Procs : Closes(p) => ret[p] \in {"lua", "sweep"}

KnownOK ==
    /\ \A t \in tabs \union todo : Known(t)
    /\ \A p \in Procs : \A t \in copy[p] : Known(t)
    /\ \A p \in Procs : Closes(p) => Known(target[p])
    /\ \A c \in Started : home[c] \in Tabs /\ Known(home[c])
    /\ \A t \in Tabs : pending[t] # <<>> => Known(t)

LEMMA LifeInit == Init => OwnersOK /\ KnownOK
  <1> SUFFICES ASSUME Init PROVE OwnersOK /\ KnownOK
    OBVIOUS
  <1>1. \A p \in Procs : pc[p] \in {"start", "lua", "idle"} /\ copy[p] = {}
    BY DEF Init
  <1>2. Started = {} \union (Started \ {}) /\ \A t \in Tabs : pending[t] = <<>>
    BY DEF Init
  <1>3. \A c \in Callbacks : pc[c] = "idle"
    BY NamesAssumption DEF Init, Procs, Lua
  <1>4. tabs = {} /\ todo = {}
    BY DEF Init
  <1> QED
    BY <1>1, <1>2, <1>3, <1>4 DEF OwnersOK, KnownOK, Opens, Closes, Started, PastWait

LEMMA LifeNext == TypeInv /\ OwnersOK /\ KnownOK /\ [Next]_vars => OwnersOK' /\ KnownOK'
  <1> SUFFICES ASSUME TypeInv, OwnersOK, KnownOK, [Next]_vars PROVE OwnersOK' /\ KnownOK'
    OBVIOUS
  <1> USE DEF Goto, Release, CanRun, goroutines, pages, browser, channels, run, ghosts
  <1>0. /\ pc \in [Procs -> Labels] /\ ret \in [Procs -> {"lua", "opened", "register", "sweep"}]
        /\ target \in [Procs -> Tabs \union {NoTab}] /\ copy \in [Procs -> SUBSET Tabs]
        /\ home \in [Callbacks -> Tabs \union {NoTab}]
        /\ tabs \in SUBSET Tabs /\ todo \in SUBSET Tabs
        /\ life \in [Tabs -> {"none", "opening", "blank", "live", "closed"}]
        /\ pending \in [Tabs -> Seq(Kinds)]
        /\ \A p \in Procs : Opens(p) => target[p] \in Tabs
        /\ \A p \in Procs : Closes(p) => target[p] \in Tabs
    BY DEF TypeInv, TypeOK, TargetOK, GoroutinesOK, PagesOK, BrowserOK, RunOK,
       Opens, Closes
  <1>00. /\ Main \in Procs /\ Script \in Procs /\ Lua \subseteq Procs
         /\ Callbacks \subseteq Lua /\ Main \notin Lua /\ Script \notin Callbacks
         /\ NoTab \notin Tabs /\ PastWait = {"filter", "write", "cancel"}
    BY NamesAssumption DEF Procs, Lua, PastWait
  <1>1. ASSUME NEW g \in Lua, StartOp(g) PROVE OwnersOK' /\ KnownOK'
    BY <1>1, <1>0, <1>00 DEF StartOp, OwnersOK, Opens, Closes, KnownOK, Known, Started
  <1>2. ASSUME NEW g \in Lua, Yield(g) PROVE OwnersOK' /\ KnownOK'
    BY <1>2, <1>0, <1>00 DEF Yield, OwnersOK, Opens, Closes, KnownOK, Known, Started
  <1>3. ASSUME NEW g \in Lua, NewTab(g) PROVE OwnersOK' /\ KnownOK'
    <2>1. PICK t \in Tabs : /\ life[t] = "none" /\ life' = [life EXCEPT ![t] = "opening"]
                            /\ pc' = [pc EXCEPT ![g] = "op"]
                            /\ ret' = [ret EXCEPT ![g] = "opened"]
                            /\ target' = [target EXCEPT ![g] = t]
      BY <1>3 DEF NewTab
    <2>2. \A p \in Procs \ {g} : /\ (Opens(p)' <=> Opens(p)) /\ (Closes(p)' <=> Closes(p))
                                 /\ target'[p] = target[p] /\ ret'[p] = ret[p]
      BY <2>1, <1>0 DEF Opens, Closes
    <2>3. \A p \in Procs : Opens(p) => target[p] # t
      BY <2>1 DEF OwnersOK
    <2>4. OwnersOK'
      BY <2>1, <2>2, <2>3, <1>0, <1>00 DEF OwnersOK, Closes
    <2>5. KnownOK'
      BY <1>3, <1>0, <1>00 DEF NewTab, Closes, KnownOK, Known, Started
    <2> QED
      BY <2>4, <2>5
  <1>4. ASSUME NEW g \in Lua, CloseTab(g) PROVE OwnersOK' /\ KnownOK'
    BY <1>4, <1>0, <1>00 DEF CloseTab, OwnersOK, Opens, Closes, KnownOK, Known, Started
  <1>5. ASSUME NEW g \in Lua, NEW t \in Tabs, NEW k \in Kinds, Hook(g, t, k)
        PROVE  OwnersOK' /\ KnownOK'
    <2>1. /\ UNCHANGED <<copy, home, life, tabs, pending, todo>>
          /\ \/ UNCHANGED <<pc, ret, target>>
             \/ /\ pc[g] = "lua" /\ pc' = [pc EXCEPT ![g] = "op"]
                /\ ret' = [ret EXCEPT ![g] = "lua"] /\ target' = [target EXCEPT ![g] = t]
      BY <1>5 DEF Hook
    <2>2. OwnersOK'
      <3>1. \A p \in Procs : /\ Opens(p)' => Opens(p) /\ target'[p] = target[p]
                             /\ Closes(p)' => Closes(p) /\ ret'[p] = ret[p]
        BY <2>1, <1>0, <1>00 DEF Opens, Closes
      <3> QED
        BY <2>1, <3>1 DEF OwnersOK
    <2>3. /\ \A p \in Procs : Closes(p)' => Closes(p) /\ target'[p] = target[p]
          /\ Started' = Started
      BY <2>1, <1>0, <1>00 DEF Closes, Started
    <2>4. KnownOK'
      BY <2>1, <2>3 DEF KnownOK, Known
    <2> QED
      BY <2>2, <2>4
  <1>6. ASSUME NEW g \in Lua, Navigate(g) PROVE OwnersOK' /\ KnownOK'
    BY <1>6, <1>0, <1>00 DEF Navigate, OwnersOK, Opens, Closes, KnownOK, Known, Started
  <1>7. ASSUME NEW g \in Lua, Register(g) PROVE OwnersOK' /\ KnownOK'
    <2>1. /\ pc' = [pc EXCEPT ![g] = "lua"] /\ ret' = ret /\ target' = target
          /\ pc[g] \in {"opened", "register"} /\ target[g] \in Tabs
          /\ life' = [life EXCEPT ![target[g]] = "live"]
      BY <1>7, <1>0, <1>00 DEF Register, Opens
    <2>2. \A p \in Procs : Opens(p)' => p # g /\ Opens(p) /\ target[p] # target[g]
      BY <2>1, <1>0, <1>00 DEF Opens, Closes, OwnersOK
    <2>3. OwnersOK'
      BY <2>1, <2>2, <1>0, <1>00 DEF OwnersOK, Closes
    <2>4. UNCHANGED <<copy, home, pending, todo>> /\ tabs' = tabs \union {target[g]}
      BY <1>7 DEF Register
    <2>5. \A t \in Tabs : Known(t) \/ t = target[g] => Known(t)'
      BY <2>1, <1>0 DEF Known
    <2>6. /\ \A p \in Procs : Closes(p)' => Closes(p)
          /\ \A c \in Callbacks : c \in Started' => c \in Started
      BY <2>1, <1>0, <1>00 DEF Closes, Started
    <2>7. KnownOK'
      BY <2>1, <2>4, <2>5, <2>6, <1>0, <1>00 DEF KnownOK, Started
    <2> QED
      BY <2>3, <2>7
  <1>8. ASSUME NEW c \in Callbacks, CallbackEnds(c) PROVE OwnersOK' /\ KnownOK'
    BY <1>8, <1>0, <1>00 DEF CallbackEnds, OwnersOK, Opens, Closes, KnownOK, Known,
       Started
  <1>9. CASE ScriptEnds
    <2>1. \A p \in Procs : \/ pc'[p] = pc[p]
                           \/ pc'[p] \in {"ended", "close", "finish", "send"}
      BY <1>9, <1>0, <1>00 DEF ScriptEnds
    <2>2. UNCHANGED <<ret, target, copy, home, life, tabs, pending, todo>>
      BY <1>9 DEF ScriptEnds
    <2>3. \A c \in Callbacks : c \in Started' => c \in Started
      BY <1>9, <1>0, <1>00 DEF ScriptEnds, Started
    <2>4. OwnersOK'
      BY <2>1, <2>2, <1>00 DEF OwnersOK, Opens, Closes
    <2>5. KnownOK'
      BY <2>1, <2>2, <2>3, <1>00 DEF Closes, KnownOK, Known, Started
    <2> QED
      BY <2>4, <2>5
  <1>10. ASSUME NEW g \in Lua, OpSucceeds(g) PROVE OwnersOK' /\ KnownOK'
    <2>1. OwnersOK'
      BY <1>10, <1>0, <1>00 DEF OpSucceeds, OwnersOK, Opens, Closes
    <2>2. \A t \in Tabs : Known(t) => Known(t)'
      BY <1>10, <1>0, <1>00 DEF OpSucceeds, OwnersOK, Opens, Closes, Known
    <2>3. KnownOK'
      BY <1>10, <2>2, <1>0, <1>00 DEF OpSucceeds, Closes, KnownOK, Started
    <2> QED
      BY <2>1, <2>3
  <1>11. ASSUME NEW g \in Lua, OpFails(g) PROVE OwnersOK' /\ KnownOK'
    BY <1>11, <1>0, <1>00 DEF OpFails, OwnersOK, Opens, Closes, KnownOK, Known, Started
  <1>12. ASSUME NEW g \in Lua, Send(g) PROVE OwnersOK' /\ KnownOK'
    <2>1. \A p \in Procs : \/ pc'[p] = pc[p]
                           \/ pc'[p] \in {"finish", "answer", "leave", "stop"}
      BY <1>12, <1>0, <1>00 DEF Send, AfterSend
    <2>2. UNCHANGED <<ret, target, copy, home, life, tabs, pending, todo>>
      BY <1>12 DEF Send
    <2>3. \A c \in Callbacks : c \in Started' => c \in Started
      BY <1>12, <1>0, <1>00 DEF Send, AfterSend, Started
    <2>4. OwnersOK'
      BY <2>1, <2>2, <1>00 DEF OwnersOK, Opens, Closes
    <2>5. KnownOK'
      BY <2>1, <2>2, <2>3, <1>00 DEF Closes, KnownOK, Known, Started
    <2> QED
      BY <2>4, <2>5
  <1>13. ASSUME NEW g \in Lua, SendPanics(g) PROVE OwnersOK' /\ KnownOK'
    BY <1>13, <1>0, <1>00 DEF SendPanics, OwnersOK, Opens, Closes, KnownOK, Known, Started
  <1>14. ASSUME NEW p \in Procs, Relock(p) PROVE OwnersOK' /\ KnownOK'
    BY <1>14, <1>0, <1>00 DEF Relock, OwnersOK, Opens, Closes, KnownOK, Known, Started
  <1>15. ASSUME NEW p \in Procs, WaitGroupWait(p) PROVE OwnersOK' /\ KnownOK'
    BY <1>15, <1>0, <1>00 DEF WaitGroupWait, OwnersOK, Opens, Closes, KnownOK, Known,
       Started
  <1>16. ASSUME NEW p \in Procs, WaitGroupReturns(p) PROVE OwnersOK' /\ KnownOK'
    <2>1. \A q \in Procs : /\ Opens(q)' => Opens(q)
                           /\ Closes(q)' => Closes(q) /\ ret'[q] = ret[q]
      <3>1. CASE NoCallbacks(target[p])
        BY <1>16, <3>1, <1>0, <1>00 DEF WaitGroupReturns, Opens, Closes
      <3>2. CASE ~ NoCallbacks(target[p])
        BY <1>16, <3>2, <1>0, <1>00 DEF WaitGroupReturns, Opens, Closes
      <3> QED
        BY <3>1, <3>2
    <2>2. OwnersOK'
      BY <1>16, <2>1 DEF WaitGroupReturns, OwnersOK
    <2>3. KnownOK'
      BY <1>16, <1>0, <1>00 DEF WaitGroupReturns, Closes, KnownOK, Known, Started
    <2> QED
      BY <2>2, <2>3
  <1>17. ASSUME NEW p \in Procs, FilterTabs(p) PROVE OwnersOK' /\ KnownOK'
    BY <1>17, <1>0, <1>00 DEF FilterTabs, OwnersOK, Opens, Closes, KnownOK, Known, Started
  <1>18. ASSUME NEW p \in Procs, WriteTabs(p) PROVE OwnersOK' /\ KnownOK'
    BY <1>18, <1>0, <1>00 DEF WriteTabs, OwnersOK, Opens, Closes, KnownOK, Known, Started
  <1>19. ASSUME NEW p \in Procs, CancelTab(p) PROVE OwnersOK' /\ KnownOK'
    <2>1. \A q \in Procs : Opens(q)' => Opens(q) /\ target[q] # target[p]
      BY <1>19, <1>0, <1>00 DEF CancelTab, OwnersOK, KnownOK, Known, Opens, Closes
    <2>2. OwnersOK'
      BY <1>19, <2>1, <1>0, <1>00 DEF CancelTab, OwnersOK, Closes
    <2>3. KnownOK'
      BY <1>19, <1>0, <1>00 DEF CancelTab, Closes, KnownOK, Known, Started
    <2> QED
      BY <2>2, <2>3
  <1>20. ASSUME NEW c \in Callbacks, Enter(c) PROVE OwnersOK' /\ KnownOK'
    BY <1>20, <1>0, <1>00 DEF Enter, OwnersOK, Opens, Closes, KnownOK, Known, Started
  <1>21. ASSUME NEW c \in Callbacks, Answer(c) PROVE OwnersOK' /\ KnownOK'
    BY <1>21, <1>0, <1>00 DEF Answer, OwnersOK, Opens, Closes, KnownOK, Known, Started
  <1>22. ASSUME NEW c \in Callbacks, Leave(c) PROVE OwnersOK' /\ KnownOK'
    BY <1>22, <1>0, <1>00 DEF Leave, OwnersOK, Opens, Closes, KnownOK, Known, Started
  <1>23. ASSUME NEW t \in Tabs, Listen(t) PROVE OwnersOK' /\ KnownOK'
    BY <1>23, <1>0, <1>00 DEF Listen, OwnersOK, Opens, Closes, KnownOK, Known, Started
  <1>24. ASSUME NEW t \in Tabs, Build(t) PROVE OwnersOK' /\ KnownOK'
    BY <1>24, <1>0, <1>00 DEF Build, OwnersOK, Opens, Closes, KnownOK, Known, Started
  <1>25. ASSUME NEW t \in Tabs, Dispatch(t) PROVE OwnersOK' /\ KnownOK'
    <2>1. /\ UNCHANGED <<ret, target, copy, life, tabs, todo>>
          /\ listener[t] = "invoke" /\ pending' = [pending EXCEPT ![t] = Tail(@)]
      BY <1>25 DEF Dispatch
    <2>2. pending[t] # <<>> /\ Known(t)
      BY <2>1 DEF TypeInv, TypeOK, BrowserOK, Closes, KnownOK
    <2>3. \A p \in Procs : pc'[p] = pc[p] \/ pc'[p] \in {"lock", "answer"}
      BY <1>25, <1>0, <1>00 DEF Dispatch
    <2>4. \A c \in Callbacks : c \in Started' => \/ c \in Started /\ home'[c] = home[c]
                                                 \/ home'[c] = t
      <3>1. CASE Handles(t, Head(pending[t]))
        BY <1>25, <3>1, <1>0, <1>00 DEF Dispatch, Started
      <3>2. CASE ~ Handles(t, Head(pending[t]))
        BY <1>25, <3>2 DEF Dispatch, Started
      <3> QED
        BY <3>1, <3>2
    <2>5. OwnersOK'
      BY <2>1, <2>3, <1>00 DEF OwnersOK, Opens, Closes
    <2>6. \A x \in Tabs : pending'[x] # <<>> => x = t \/ pending[x] # <<>>
      BY <2>1, <1>0
    <2>7. KnownOK'
      BY <2>1, <2>2, <2>3, <2>4, <2>6, <1>0, <1>00 DEF Closes, KnownOK, Known, Started
    <2> QED
      BY <2>5, <2>7
  <1>26. ASSUME NEW t \in Tabs, NEW k \in Kinds, Emit(t, k) PROVE OwnersOK' /\ KnownOK'
    BY <1>26, <1>0, <1>00 DEF Emit, OwnersOK, Opens, Closes, KnownOK, Known, Started
  <1>27. CASE Finish
    <2>1. \A p \in Procs : \/ pc'[p] = pc[p]
                           \/ pc'[p] \in {"ended", "close"}
      BY <1>27, <1>0, <1>00 DEF Finish
    <2>2. UNCHANGED <<ret, target, copy, home, life, tabs, pending, todo>>
      BY <1>27 DEF Finish
    <2>3. \A c \in Callbacks : c \in Started' => c \in Started
      BY <1>27, <1>0, <1>00 DEF Finish, Started
    <2>4. OwnersOK'
      BY <2>1, <2>2, <1>00 DEF OwnersOK, Opens, Closes
    <2>5. KnownOK'
      BY <2>1, <2>2, <2>3, <1>00 DEF Closes, KnownOK, Known, Started
    <2> QED
      BY <2>4, <2>5
  <1>28. CASE SelectErr
    BY <1>28, <1>0, <1>00 DEF SelectErr, OwnersOK, Opens, Closes, KnownOK, Known, Started
  <1>29. CASE SelectDone
    BY <1>29, <1>0, <1>00 DEF SelectDone, OwnersOK, Opens, Closes, KnownOK, Known, Started
  <1>30. CASE Park
    BY <1>30, <1>0, <1>00 DEF Park, OwnersOK, Opens, Closes, KnownOK, Known, Started
  <1>31. CASE StopEnv
    BY <1>31, <1>0, <1>00 DEF StopEnv, OwnersOK, Opens, Closes, KnownOK, Known, Started
  <1>32. CASE Join
    BY <1>32, <1>0, <1>00 DEF Join, OwnersOK, Opens, Closes, KnownOK, Known, Started
  <1>33. CASE CloseEnv
    BY <1>33, <1>0, <1>00 DEF CloseEnv, OwnersOK, Opens, Closes, KnownOK, Known, Started
  <1>34. CASE Sweep
    BY <1>34, <1>0, <1>00 DEF Sweep, OwnersOK, Opens, Closes, KnownOK, Known, Started
  <1>35. CASE Shutdown
    BY <1>35, <1>0, <1>00 DEF Shutdown, OwnersOK, Opens, Closes, KnownOK, Known, Started
  <1>36. CASE Report
    BY <1>36, <1>0, <1>00 DEF Report, OwnersOK, Opens, Closes, KnownOK, Known, Started
  <1>37. CASE RunCtxEnds
    BY <1>37, <1>0, <1>00 DEF RunCtxEnds, OwnersOK, Opens, Closes, KnownOK, Known, Started
  <1>38. CASE UNCHANGED vars
    BY <1>38, <1>0, <1>00 DEF vars, OwnersOK, Opens, Closes, KnownOK, Known, Started
  <1> QED
    BY <1>1, <1>2, <1>3, <1>4, <1>5, <1>6, <1>7, <1>8, <1>9, <1>10, <1>11, <1>12, <1>13,
       <1>14, <1>15, <1>16, <1>17, <1>18, <1>19, <1>20, <1>21, <1>22, <1>23, <1>24, <1>25,
       <1>26, <1>27, <1>28, <1>29, <1>30, <1>31, <1>32, <1>33, <1>34, <1>35, <1>36,
       <1>37, <1>38 DEF Next, LuaStep, CloseStep, SendStep, MainStep, Terminated

-----------------------------------------------------------------------------
(* Most steps of a run are no concern of the wait groups and of the end:    *)
(* they start and end no callback, and no tab becomes one being closed.     *)

Frame ==
    /\ UNCHANGED <<Started, home, wg, late, errchClosed, orphaned, crashed>>
    /\ \A t \in Tabs : BeingClosed(t)' => BeingClosed(t)

\* One goroutine goes to label l.  If that is a step of Tab.Close after the wait
\* group, its label was one before; only the last of them closes a tab.
LEMMA OneMoves ==
    ASSUME TypeInv, NEW p \in Procs, NEW l,
           pc' = [pc EXCEPT ![p] = l],
           p \in Callbacks => (pc[p] \in {"idle", "ended"} <=> l \in {"idle", "ended"}),
           UNCHANGED <<home, wg, late, errchClosed, orphaned, crashed>>,
           \A q \in Procs \ {p} : target'[q] = target[q],
           l \in PastWait => pc[p] \in PastWait /\ target'[p] = target[p],
           l # "woken",
           \A t \in Tabs : life'[t] = "closed" =>
                               life[t] = "closed" \/ (pc[p] = "cancel" /\ t = target[p])
    PROVE  Frame
  <1>0. /\ pc \in [Procs -> Labels] /\ Callbacks \subseteq Procs
        /\ PastWait = {"filter", "write", "cancel"}
    BY DEF TypeInv, TypeOK, GoroutinesOK, Procs, Lua, PastWait
  <1>1. Started' = Started
    BY <1>0 DEF Started
  <1>2. ASSUME NEW t \in Tabs, BeingClosed(t)' PROVE BeingClosed(t)
    <2>1. CASE life'[t] = "closed"
      BY <1>0, <2>1 DEF BeingClosed
    <2>2. CASE \E q \in Procs : target'[q] = t /\ pc'[q] \in PastWait \union {"woken"}
      <3>1. PICK q \in Procs : target'[q] = t /\ pc'[q] \in PastWait \union {"woken"}
        BY <2>2
      <3>2. target[q] = t /\ pc[q] \in PastWait \union {"woken"}
        BY <1>0, <3>1
      <3> QED
        BY <3>2 DEF BeingClosed
    <2> QED
      BY <1>2, <2>1, <2>2 DEF BeingClosed
  <1> QED
    BY <1>1, <1>2 DEF Frame

LEMMA NobodyGoesOn ==
    ASSUME UNCHANGED <<pc, target, life, home, wg, late, errchClosed, orphaned, crashed>>
    PROVE  Frame
  BY DEF Frame, Started, BeingClosed

\* Two goroutines move: one hands a value or the lock to the other.
LEMMA SomeMove ==
    ASSUME UNCHANGED <<target, life, home, wg, late, errchClosed, orphaned, crashed>>,
           \A q \in Procs : pc'[q] = pc[q] \/ pc'[q] \notin PastWait \union {"woken"},
           \A c \in Callbacks : pc[c] \in {"idle", "ended"} <=> pc'[c] \in {"idle", "ended"}
    PROVE  Frame
  BY DEF Frame, Started, BeingClosed

CloseEvent ==
    \/ \E p \in Procs : WaitGroupWait(p) \/ WaitGroupReturns(p)
    \/ \E t \in Tabs : Dispatch(t)
    \/ \E c \in Callbacks : Leave(c)
    \/ \E g \in Lua : SendPanics(g)
    \/ Shutdown

LEMMA OnlyCloseEvents == TypeInv /\ [Next]_vars => Frame \/ CloseEvent
  <1> SUFFICES ASSUME TypeInv, [Next]_vars PROVE Frame \/ CloseEvent
    OBVIOUS
  <1> USE DEF Goto, Release, CanRun, goroutines, pages, browser, channels, run, ghosts
  <1>0. /\ Main \in Procs /\ Script \in Procs /\ Lua \subseteq Procs
        /\ Callbacks \subseteq Lua /\ Main \notin Callbacks /\ Script \notin Callbacks
        /\ Main # Script
        /\ pc \in [Procs -> Labels] /\ target \in [Procs -> Tabs \union {NoTab}]
        /\ ret \in [Procs -> {"lua", "opened", "register", "sweep"}]
        /\ life \in [Tabs -> {"none", "opening", "blank", "live", "closed"}]
        /\ PastWait = {"filter", "write", "cancel"}
    BY NamesAssumption DEF Procs, Lua, PastWait, TypeInv, TypeOK, GoroutinesOK, PagesOK
  <1>1. ASSUME NEW g \in Lua, StartOp(g) PROVE Frame
    BY <1>1, <1>0, OneMoves DEF StartOp
  <1>2. ASSUME NEW g \in Lua, Yield(g) PROVE Frame
    BY <1>2, <1>0, OneMoves DEF Yield
  <1>3. ASSUME NEW g \in Lua, NewTab(g) PROVE Frame
    <2>1. PICK t \in Tabs : /\ life' = [life EXCEPT ![t] = "opening"]
                            /\ pc' = [pc EXCEPT ![g] = "op"]
                            /\ target' = [target EXCEPT ![g] = t]
      BY <1>3 DEF NewTab
    <2>2. /\ UNCHANGED <<home, wg, late, errchClosed, orphaned, crashed>> /\ pc[g] = "lua"
          /\ \A x \in Tabs : life'[x] = "closed" => life[x] = "closed"
      BY <1>3, <1>0, <2>1 DEF NewTab
    <2> QED
      BY <1>0, <2>1, <2>2, OneMoves
  <1>4. ASSUME NEW g \in Lua, CloseTab(g) PROVE Frame
    BY <1>4, <1>0, OneMoves DEF CloseTab
  <1>5. ASSUME NEW g \in Lua, NEW t \in Tabs, NEW k \in Kinds, Hook(g, t, k) PROVE Frame
    BY <1>5, <1>0, OneMoves, NobodyGoesOn DEF Hook
  <1>6. ASSUME NEW g \in Lua, Navigate(g) PROVE Frame
    BY <1>6, <1>0, OneMoves DEF Navigate
  <1>7. ASSUME NEW g \in Lua, Register(g) PROVE Frame
    BY <1>7, <1>0, OneMoves DEF Register
  <1>8. ASSUME NEW c \in Callbacks, CallbackEnds(c) PROVE Frame
    BY <1>8, <1>0, OneMoves DEF CallbackEnds
  <1>9. ASSUME ScriptEnds PROVE Frame
    <2>1. /\ \A q \in Procs : pc'[q] = pc[q] \/ pc'[q] \notin PastWait \union {"woken"}
          /\ \A c \in Callbacks : pc[c] \in {"idle", "ended"} <=> pc'[c] \in {"idle", "ended"}
      BY <1>9, <1>0 DEF ScriptEnds
    <2>2. UNCHANGED <<target, life, home, wg, late, errchClosed, orphaned, crashed>>
      BY <1>9 DEF ScriptEnds
    <2> QED
      BY <2>1, <2>2, SomeMove
  <1>10. ASSUME NEW g \in Lua, OpSucceeds(g) PROVE Frame
    BY <1>10, <1>0, OneMoves DEF OpSucceeds
  <1>11. ASSUME NEW g \in Lua, OpFails(g) PROVE Frame
    BY <1>11, <1>0, OneMoves DEF OpFails
  <1>12. ASSUME NEW g \in Lua, Send(g) PROVE Frame
    <2>1. /\ \A q \in Procs : pc'[q] = pc[q] \/ pc'[q] \notin PastWait \union {"woken"}
          /\ \A c \in Callbacks : pc[c] \in {"idle", "ended"} <=> pc'[c] \in {"idle", "ended"}
      BY <1>12, <1>0 DEF Send, AfterSend
    <2>2. UNCHANGED <<target, life, home, wg, late, errchClosed, orphaned, crashed>>
      BY <1>12 DEF Send
    <2> QED
      BY <2>1, <2>2, SomeMove
  <1>13. ASSUME NEW p \in Procs, Relock(p) PROVE Frame
    BY <1>13, <1>0, OneMoves DEF Relock
  <1>14. ASSUME NEW p \in Procs, FilterTabs(p) PROVE Frame
    BY <1>14, <1>0, OneMoves DEF FilterTabs
  <1>15. ASSUME NEW p \in Procs, WriteTabs(p) PROVE Frame
    BY <1>15, <1>0, OneMoves DEF WriteTabs
  <1>16. ASSUME NEW p \in Procs, CancelTab(p) PROVE Frame
    BY <1>16, <1>0, OneMoves DEF CancelTab
  <1>17. ASSUME NEW c \in Callbacks, Enter(c) PROVE Frame
    BY <1>17, <1>0, OneMoves DEF Enter
  <1>18. ASSUME NEW c \in Callbacks, Answer(c) PROVE Frame
    BY <1>18, <1>0, OneMoves DEF Answer
  <1>19. ASSUME NEW t \in Tabs, Listen(t) PROVE Frame
    BY <1>19, NobodyGoesOn DEF Listen
  <1>20. ASSUME NEW t \in Tabs, Build(t) PROVE Frame
    BY <1>20, NobodyGoesOn DEF Build
  <1>21. ASSUME NEW t \in Tabs, NEW k \in Kinds, Emit(t, k) PROVE Frame
    BY <1>21, NobodyGoesOn DEF Emit
  <1>22. ASSUME Finish PROVE Frame
    <2>1. /\ \A q \in Procs : pc'[q] = pc[q] \/ pc'[q] \notin PastWait \union {"woken"}
          /\ \A c \in Callbacks : pc[c] \in {"idle", "ended"} <=> pc'[c] \in {"idle", "ended"}
      BY <1>22, <1>0 DEF Finish
    <2>2. UNCHANGED <<target, life, home, wg, late, errchClosed, orphaned, crashed>>
      BY <1>22 DEF Finish
    <2> QED
      BY <2>1, <2>2, SomeMove
  <1>23. ASSUME SelectErr PROVE Frame
    BY <1>23, <1>0, OneMoves DEF SelectErr
  <1>24. ASSUME SelectDone PROVE Frame
    BY <1>24, <1>0, OneMoves DEF SelectDone
  <1>25. ASSUME Park PROVE Frame
    BY <1>25, <1>0, OneMoves DEF Park
  <1>26. ASSUME StopEnv PROVE Frame
    BY <1>26, <1>0, OneMoves DEF StopEnv
  <1>27. ASSUME Join PROVE Frame
    BY <1>27, <1>0, OneMoves DEF Join
  <1>28. ASSUME CloseEnv PROVE Frame
    BY <1>28, <1>0, OneMoves DEF CloseEnv
  <1>29. ASSUME Sweep PROVE Frame
    BY <1>29, <1>0, OneMoves DEF Sweep
  <1>30. ASSUME Report PROVE Frame
    BY <1>30, <1>0, OneMoves DEF Report
  <1>31. ASSUME RunCtxEnds PROVE Frame
    BY <1>31, NobodyGoesOn DEF RunCtxEnds
  <1>32. ASSUME UNCHANGED vars PROVE Frame
    BY <1>32, NobodyGoesOn DEF vars
  <1> QED
    BY <1>1, <1>2, <1>3, <1>4, <1>5, <1>6, <1>7, <1>8, <1>9, <1>10, <1>11, <1>12, <1>13,
       <1>14, <1>15, <1>16, <1>17, <1>18, <1>19, <1>20, <1>21, <1>22, <1>23, <1>24, <1>25,
       <1>26, <1>27, <1>28, <1>29, <1>30, <1>31, <1>32 DEF Next, LuaStep, CloseStep,
       SendStep, MainStep, Terminated, CloseEvent

-----------------------------------------------------------------------------
(* The counter of a tab counts; that its callbacks can be counted is a part *)
(* of this.                                                                 *)

Of(t) == {c \in Started : home[c] = t}

CountOK ==
    /\ IsFiniteSet(Started)
    /\ \A t \in Tabs : wg[t] = Cardinality(Of(t))

LEMMA CountInit == Init => CountOK
  <1> SUFFICES ASSUME Init PROVE CountOK
    OBVIOUS
  <1>1. \A c \in Callbacks : pc[c] = "idle"
    BY NamesAssumption DEF Init, Procs, Lua
  <1>2. Started = {} /\ \A t \in Tabs : Of(t) = {}
    BY <1>1 DEF Started, Of
  <1>3. \A t \in Tabs : wg[t] = 0
    BY DEF Init
  <1> QED
    BY <1>2, <1>3, FS_EmptySet DEF CountOK

\* What the counter says of the callbacks of a tab.
LEMMA CountTells ==
    ASSUME CountOK, NEW t \in Tabs
    PROVE  /\ IsFiniteSet(Of(t))
           /\ wg[t] = 0 <=> Of(t) = {}
           /\ \A c \in Of(t) : wg[t] = 1 => Of(t) = {c}
  <1>1. IsFiniteSet(Of(t)) /\ wg[t] = Cardinality(Of(t))
    BY FS_Subset DEF CountOK, Of
  <1>2. ASSUME NEW c \in Of(t), wg[t] = 1 PROVE Of(t) = {c}
    <2>1. c \in Of(t) /\ Cardinality(Of(t)) = 1
      BY <1>1, <1>2
    <2>2. IsFiniteSet(Of(t) \ {c}) /\ Cardinality(Of(t) \ {c}) = Cardinality(Of(t)) - 1
      BY <1>1, <2>1, FS_RemoveElement
    <2>3. Of(t) \ {c} = {}
      BY <2>1, <2>2, FS_EmptySet
    <2> QED
      BY <2>1, <2>3
  <1> QED
    BY <1>1, <1>2, FS_EmptySet

LEMMA CountKept ==
    ASSUME CountOK, UNCHANGED <<Started, home, wg>>
    PROVE  CountOK'
  <1>1. \A t \in Tabs : Of(t)' = Of(t)
    BY DEF Of
  <1> QED
    BY <1>1 DEF CountOK

LEMMA CountNext == TypeInv /\ KnownOK /\ CountOK /\ [Next]_vars => CountOK'
  <1> SUFFICES ASSUME TypeInv, KnownOK, CountOK, [Next]_vars PROVE CountOK'
    OBVIOUS
  <1>0. /\ pc \in [Procs -> Labels] /\ wg \in [Tabs -> Int] /\ Callbacks \subseteq Procs
        /\ home \in [Callbacks -> Tabs \union {NoTab}] /\ Started \subseteq Callbacks
        /\ Main \notin Callbacks
    BY NamesAssumption DEF TypeInv, TypeOK, GoroutinesOK, PagesOK, Procs, Lua, Started
  <1>1. CASE Frame
    BY <1>1, CountKept DEF Frame
  <1>2. ASSUME NEW p \in Procs, WaitGroupWait(p) \/ WaitGroupReturns(p) PROVE CountOK'
    <2>1. Started' = Started
      BY <1>0, <1>2 DEF WaitGroupWait, WaitGroupReturns, Goto, Started
    <2>2. UNCHANGED <<home, wg>>
      BY <1>2 DEF WaitGroupWait, WaitGroupReturns, pages
    <2> QED
      BY <2>1, <2>2, CountKept
  <1>3. CASE Shutdown
    <2>1. Started' = Started
      BY <1>0, <1>3 DEF Shutdown, Goto, Started
    <2>2. UNCHANGED <<home, wg>>
      BY <1>3 DEF Shutdown, pages
    <2> QED
      BY <2>1, <2>2, CountKept
  <1>4. ASSUME NEW g \in Lua, SendPanics(g) PROVE CountOK'
    BY <1>4, CountKept DEF SendPanics, Started, goroutines, pages
  <1>5. ASSUME NEW t \in Tabs, Dispatch(t) PROVE CountOK'
    <2>1. CASE ~ Handles(t, Head(pending[t]))
      BY <1>5, <2>1, CountKept DEF Dispatch, Started
    <2>2. CASE Handles(t, Head(pending[t]))
      <3>1. PICK c \in Callbacks : /\ pc[c] = "idle" /\ home' = [home EXCEPT ![c] = t]
                                   /\ wg' = [wg EXCEPT ![t] = @ + 1]
                                   /\ \E l \in {"lock", "answer"} : pc' = [pc EXCEPT ![c] = l]
        BY <1>5, <2>2 DEF Dispatch, Goto, AddCallback
      <3>2. Started' = Started \union {c} /\ c \notin Started
        BY <1>0, <3>1 DEF Started
      <3>3. Of(t)' = Of(t) \union {c} /\ c \notin Of(t)
        BY <1>0, <3>1, <3>2 DEF Of
      <3>4. ASSUME NEW x \in Tabs, x # t PROVE Of(x)' = Of(x)
        BY <1>0, <3>1, <3>2, <3>4 DEF Of
      <3>5. IsFiniteSet(Started')
        BY <3>2, FS_AddElement DEF CountOK
      <3>6. Cardinality(Of(t)') = Cardinality(Of(t)) + 1
        BY <3>3, CountTells, FS_AddElement
      <3>7. \A x \in Tabs : wg'[x] = Cardinality(Of(x)')
        BY <1>0, <3>1, <3>4, <3>6 DEF CountOK
      <3> QED
        BY <3>5, <3>7 DEF CountOK
    <2> QED
      BY <2>1, <2>2
  <1>6. ASSUME NEW c \in Callbacks, Leave(c) PROVE CountOK'
    <2>1. /\ pc[c] = "leave" /\ home' = home /\ wg' = [wg EXCEPT ![home[c]] = @ - 1]
          /\ \A p \in Procs : \/ pc'[p] = pc[p] /\ p # c
                              \/ p = c /\ pc'[p] = "ended"
                              \/ p # c /\ pc[p] = "blocked" /\ pc'[p] = "woken"
      BY <1>6 DEF Leave
    <2>2. Started' = Started \ {c} /\ c \in Started
      BY <1>0, <2>1 DEF Started
    <2>3. home[c] \in Tabs
      BY <2>2 DEF KnownOK
    <2>4. Of(home[c])' = Of(home[c]) \ {c} /\ c \in Of(home[c])
      BY <1>0, <2>1, <2>2 DEF Of
    <2>5. ASSUME NEW x \in Tabs, x # home[c] PROVE Of(x)' = Of(x)
      BY <1>0, <2>1, <2>2, <2>5 DEF Of
    <2>6. IsFiniteSet(Started')
      BY <2>2, FS_RemoveElement DEF CountOK
    <2>7. Cardinality(Of(home[c])') = Cardinality(Of(home[c])) - 1
      BY <2>3, <2>4, CountTells, FS_RemoveElement
    <2>8. \A x \in Tabs : wg'[x] = Cardinality(Of(x)')
      BY <1>0, <2>1, <2>3, <2>5, <2>7 DEF CountOK
    <2> QED
      BY <2>6, <2>8 DEF CountOK
  <1> QED
    BY <1>1, <1>2, <1>3, <1>4, <1>5, <1>6, OnlyCloseEvents DEF CloseEvent

-----------------------------------------------------------------------------
(* A tab that is being closed has no callback left: Close goes on when the  *)
(* counter is zero, and only a callback that comes late raises it again.    *)

LEMMA QuietNext ==
    TypeInv /\ KnownOK /\ CountOK /\ ClosedTabIsQuiet /\ [Next]_vars => ClosedTabIsQuiet'
  <1> SUFFICES ASSUME TypeInv, KnownOK, CountOK, ClosedTabIsQuiet, [Next]_vars
               PROVE  ClosedTabIsQuiet'
    OBVIOUS
  <1>0. /\ pc \in [Procs -> Labels] /\ Callbacks \subseteq Procs
        /\ home \in [Callbacks -> Tabs \union {NoTab}] /\ Started \subseteq Callbacks
        /\ Main \notin Callbacks /\ PastWait = {"filter", "write", "cancel"}
        /\ Main \in Procs /\ \A c \in Started : home[c] \in Tabs
    BY NamesAssumption DEF TypeInv, TypeOK, GoroutinesOK, Procs, Lua, Started, PastWait,
       KnownOK
  <1>1. CASE Frame
    BY <1>0, <1>1 DEF Frame, ClosedTabIsQuiet
  <1>2. ASSUME NEW p \in Procs, WaitGroupWait(p) PROVE ClosedTabIsQuiet'
    <2>1. /\ UNCHANGED <<home, late, life, target>> /\ pc[p] = "wait"
          /\ pc' = [pc EXCEPT ![p] = IF wg[target[p]] = 0 THEN "filter" ELSE "blocked"]
      BY <1>2 DEF WaitGroupWait, Goto, NoCallbacks, pages, ghosts
    <2>2. Started' = Started
      BY <1>0, <2>1 DEF Started
    <2>3. ASSUME NEW t \in Tabs, BeingClosed(t)', ~ BeingClosed(t)
          PROVE  Of(t) = {}
      <3>1. PICK q \in Procs : target[q] = t /\ pc'[q] \in PastWait \union {"woken"}
        BY <2>1, <2>3 DEF BeingClosed
      <3>2. q = p /\ wg[t] = 0
        BY <1>0, <2>1, <2>3, <3>1 DEF BeingClosed
      <3> QED
        BY <3>2, CountTells
    <2> QED
      BY <1>0, <2>1, <2>2, <2>3 DEF ClosedTabIsQuiet, Of
  <1>3. ASSUME NEW p \in Procs, WaitGroupReturns(p) PROVE ClosedTabIsQuiet'
    <2>1. /\ UNCHANGED <<home, late, life, target>> /\ pc[p] = "woken"
          /\ \/ pc' = [pc EXCEPT ![p] = "filter"]
             \/ pc' = [pc EXCEPT ![p] = "relock"]
      BY <1>3 DEF WaitGroupReturns, Goto, pages, ghosts
    <2>2. Started' = Started
      BY <1>0, <2>1 DEF Started
    <2>3. \A q \in Procs : pc'[q] \in PastWait \union {"woken"} =>
                               pc[q] \in PastWait \union {"woken"}
      BY <1>0, <2>1
    <2>4. \A t \in Tabs : BeingClosed(t)' => BeingClosed(t)
      BY <2>1, <2>3 DEF BeingClosed
    <2> QED
      BY <1>0, <2>1, <2>2, <2>4 DEF ClosedTabIsQuiet
  <1>4. CASE Shutdown
    <2>1. /\ UNCHANGED <<home, late, life, target>>
          /\ \A q \in Procs : pc'[q] = pc[q] \/ (q = Main /\ pc'[q] = "report")
      BY <1>0, <1>4 DEF Shutdown, Goto, pages
    <2>2. Started' = Started
      BY <1>0, <2>1 DEF Started
    <2>3. \A t \in Tabs : BeingClosed(t)' => BeingClosed(t)
      BY <1>0, <2>1 DEF BeingClosed
    <2> QED
      BY <1>0, <2>1, <2>2, <2>3 DEF ClosedTabIsQuiet
  <1>5. ASSUME NEW g \in Lua, SendPanics(g) PROVE ClosedTabIsQuiet'
    BY <1>5 DEF SendPanics, ClosedTabIsQuiet, Started, BeingClosed, goroutines, pages,
       ghosts
  <1>6. ASSUME NEW t \in Tabs, Dispatch(t) PROVE ClosedTabIsQuiet'
    <2>1. CASE ~ Handles(t, Head(pending[t]))
      BY <1>6, <2>1 DEF Dispatch, ClosedTabIsQuiet, Started, BeingClosed
    <2>2. CASE Handles(t, Head(pending[t]))
      <3>1. PICK c \in Callbacks : /\ pc[c] = "idle" /\ home' = [home EXCEPT ![c] = t]
                                   /\ late' = (late \/ BeingClosed(t))
                                   /\ \E l \in {"lock", "answer"} : pc' = [pc EXCEPT ![c] = l]
        BY <1>6, <2>2 DEF Dispatch, Goto
      <3>2. Started' = Started \union {c} /\ c \notin Started
        BY <1>0, <3>1 DEF Started
      <3>3. UNCHANGED <<life, target>>
        BY <1>6 DEF Dispatch
      <3>4. \A q \in Procs : pc'[q] = pc[q] \/ pc'[q] \in {"lock", "answer"}
        BY <1>0, <3>1
      <3>5. \A x \in Tabs : BeingClosed(x)' => BeingClosed(x)
        BY <1>0, <3>3, <3>4 DEF BeingClosed
      <3> QED
        BY <1>0, <3>1, <3>2, <3>5 DEF ClosedTabIsQuiet
    <2> QED
      BY <2>1, <2>2
  <1>7. ASSUME NEW c \in Callbacks, Leave(c) PROVE ClosedTabIsQuiet'
    <2>1. /\ pc[c] = "leave" /\ UNCHANGED <<home, late, life, target>>
          /\ \A p \in Procs : \/ pc'[p] = pc[p] /\ p # c
                              \/ p = c /\ pc'[p] = "ended"
                              \/ /\ p # c /\ pc[p] = "blocked" /\ pc'[p] = "woken"
                                 /\ target[p] = home[c] /\ wg[home[c]] = 1
      BY <1>7 DEF Leave, ghosts
    <2>2. Started' = Started \ {c} /\ c \in Started
      BY <1>0, <2>1 DEF Started
    <2>3. ASSUME NEW t \in Tabs, BeingClosed(t)', ~ BeingClosed(t)
          PROVE  Of(t) = {c}
      <3>1. PICK q \in Procs : target[q] = t /\ pc'[q] \in PastWait \union {"woken"}
        BY <2>1, <2>3 DEF BeingClosed
      <3>2. t = home[c] /\ wg[t] = 1
        BY <1>0, <2>1, <2>3, <3>1 DEF BeingClosed
      <3> QED
        BY <2>2, <3>2, CountTells DEF Of
    <2> QED
      BY <1>0, <2>1, <2>2, <2>3 DEF ClosedTabIsQuiet, Of
  <1> QED
    BY <1>1, <1>2, <1>3, <1>4, <1>5, <1>6, <1>7, OnlyCloseEvents DEF CloseEvent

-----------------------------------------------------------------------------
(* After the end of env.Close.  If no tab was orphaned and no callback came *)
(* late, there is nobody left to send to errch.                             *)

AllOver ==
    /\ Started = {} /\ \A t \in Tabs : life[t] # "live"
    /\ pc[Script] = "ended" /\ pc[Main] \in {"report", "exit"}

ShutOK == errchClosed /\ ~ late /\ orphaned = {} => AllOver

\* What is left of the run then: Main reports, and chromedp calls listeners.
Aftermath ==
    \/ Report
    \/ \E t \in Tabs : Listen(t) \/ Build(t) \/ Dispatch(t) \/ \E k \in Kinds : Emit(t, k)
    \/ RunCtxEnds
    \/ UNCHANGED vars

LEMMA OnlyAftermath == TypeInv /\ AllOver /\ [Next]_vars => Aftermath
  <1> SUFFICES ASSUME TypeInv, AllOver, [Next]_vars PROVE Aftermath
    OBVIOUS
  <1>0. /\ \A g \in Lua : pc[g] \in {"idle", "ended"}
        /\ \A p \in Procs : pc[p] \in {"idle", "ended", "report", "exit"}
        /\ pc[Main] \in {"report", "exit"} /\ pc[Script] = "ended"
        /\ Callbacks \subseteq Lua /\ PastWait = {"filter", "write", "cancel"}
    BY DEF AllOver, Procs, Lua, Started, PastWait
  <1>1. ASSUME NEW g \in Lua
        PROVE  ~ (LuaStep(g) \/ OpSucceeds(g) \/ OpFails(g) \/ SendStep(g))
    BY <1>0 DEF LuaStep, StartOp, Yield, NewTab, CloseTab, Hook, CanRun, Navigate,
       Register,
       CallbackEnds, ScriptEnds, OpSucceeds, OpFails, SendStep, Send, SendPanics
  <1>2. ASSUME NEW p \in Procs PROVE ~ (Relock(p) \/ CloseStep(p))
    BY <1>0 DEF Relock, CloseStep, WaitGroupWait, WaitGroupReturns, FilterTabs, WriteTabs,
       CancelTab
  <1>3. ASSUME NEW c \in Callbacks PROVE ~ (Enter(c) \/ Answer(c) \/ Leave(c))
    BY <1>0 DEF Enter, Answer, Leave
  <1>4. ~ Finish /\ (MainStep => Report)
    BY <1>0 DEF Finish, MainStep, SelectErr, SelectDone, Park, StopEnv, Join, CloseEnv,
       Sweep, Shutdown
  <1> QED
    BY <1>1, <1>2, <1>3, <1>4 DEF Next, Aftermath, Terminated

\* A callback that is started now comes late.
LEMMA OverForGood ==
    TypeInv /\ KnownOK /\ AllOver /\ [Next]_vars => AllOver' \/ late'
  <1> SUFFICES ASSUME TypeInv, KnownOK, AllOver, [Next]_vars PROVE AllOver' \/ late'
    OBVIOUS
  <1>0. /\ pc \in [Procs -> Labels] /\ Main \in Procs /\ Script \in Procs
        /\ Main \notin Callbacks /\ Main # Script
    BY NamesAssumption DEF TypeInv, TypeOK, GoroutinesOK, Procs, Lua
  <1>1. CASE Report
    <2>1. life' = life /\ pc' = [pc EXCEPT ![Main] = "exit"]
      BY <1>1 DEF Report, Goto, pages
    <2> QED
      BY <1>0, <2>1 DEF AllOver, Started
  <1>2. ASSUME NEW t \in Tabs, Listen(t) \/ Build(t) \/ \E k \in Kinds : Emit(t, k)
        PROVE  AllOver'
    BY <1>2 DEF Listen, Build, Emit, AllOver, Started, goroutines, pages
  <1>3. ASSUME NEW t \in Tabs, Dispatch(t) PROVE AllOver' \/ late'
    <2>1. CASE ~ Handles(t, Head(pending[t]))
      BY <1>3, <2>1 DEF Dispatch, AllOver, Started
    <2>2. CASE Handles(t, Head(pending[t]))
      <3>1. pending[t] # <<>> /\ late' = (late \/ BeingClosed(t))
        BY <1>3, <2>2 DEF Dispatch, TypeInv, TypeOK, BrowserOK
      <3>2. life[t] = "closed"
        BY <3>1 DEF KnownOK, Known, AllOver
      <3> QED
        BY <3>1, <3>2 DEF BeingClosed
    <2> QED
      BY <2>1, <2>2
  <1>4. CASE RunCtxEnds \/ UNCHANGED vars
    BY <1>4 DEF RunCtxEnds, vars, AllOver, Started, goroutines, pages
  <1> QED
    BY <1>1, <1>2, <1>3, <1>4, OnlyAftermath DEF Aftermath

LEMMA EndNext == IInv /\ KnownOK /\ ClosedTabIsQuiet /\ ShutOK /\ [Next]_vars => ShutOK'
  <1> SUFFICES ASSUME IInv, KnownOK, ClosedTabIsQuiet, ShutOK, [Next]_vars PROVE ShutOK'
    OBVIOUS
  <1>0. TypeInv
    BY DEF IInv
  <1>1. CASE Shutdown
    <2>1. /\ pc[Main] = "sweep" /\ pc' = [pc EXCEPT ![Main] = "report"]
          /\ UNCHANGED <<life, late, home>> /\ orphaned' = {t \in Tabs : life[t] = "live"}
      BY <1>1 DEF Shutdown, Goto, pages
    <2>2. /\ pc \in [Procs -> Labels] /\ Main \in Procs /\ Script \in Procs
          /\ Main \notin Callbacks /\ Main # Script
      BY <1>0, NamesAssumption DEF TypeInv, TypeOK, GoroutinesOK, Procs, Lua
    <2>3. pc[Script] = "ended"
      BY <2>1 DEF IInv, Handover, MainWaits
    <2>4. ASSUME ~ late, orphaned' = {}, NEW c \in Started PROVE FALSE
      <3>1. home[c] \in Tabs /\ Known(home[c])
        BY <2>4 DEF KnownOK
      <3>2. life[home[c]] # "closed"
        BY <2>4 DEF ClosedTabIsQuiet, BeingClosed
      <3> QED
        BY <2>1, <2>4, <3>1, <3>2 DEF Known
    <2>5. Started' = Started
      BY <2>1, <2>2 DEF Started
    <2> QED
      BY <2>1, <2>2, <2>3, <2>4, <2>5 DEF ShutOK, AllOver
  <1>2. CASE ~ Shutdown
    <2>1. UNCHANGED <<errchClosed, orphaned>> /\ (late => late')
      <3>1. CASE Frame
        BY <3>1 DEF Frame
      <3>2. CASE CloseEvent
        <4>1. ASSUME NEW t \in Tabs, Dispatch(t)
              PROVE  UNCHANGED <<errchClosed, orphaned>> /\ (late => late')
          BY <4>1 DEF Dispatch, channels
        <4>2. CASE \/ \E p \in Procs : WaitGroupWait(p) \/ WaitGroupReturns(p)
                   \/ \E c \in Callbacks : Leave(c)
                   \/ \E g \in Lua : SendPanics(g)
          BY <4>2 DEF WaitGroupWait, WaitGroupReturns, Leave, SendPanics, channels, ghosts
        <4> QED
          BY <1>2, <3>2, <4>1, <4>2 DEF CloseEvent
      <3> QED
        BY <1>0, <3>1, <3>2, OnlyCloseEvents
    <2>2. CASE AllOver
      BY <1>0, <2>1, <2>2, OverForGood DEF ShutOK
    <2>3. CASE ~ AllOver
      BY <2>1, <2>3 DEF ShutOK
    <2> QED
      BY <2>2, <2>3
  <1> QED
    BY <1>1, <1>2

LEMMA CrashNext ==
    TypeInv /\ CountOK /\ ClosedTabIsQuiet /\ ShutOK /\ CrashOnlyIfLate /\ [Next]_vars
        => CrashOnlyIfLate'
  <1> SUFFICES ASSUME TypeInv, CountOK, ClosedTabIsQuiet, ShutOK, CrashOnlyIfLate, [Next]_vars
               PROVE  CrashOnlyIfLate'
    OBVIOUS
  <1>1. CASE Frame
    BY <1>1 DEF Frame, CrashOnlyIfLate
  <1>2. ASSUME NEW p \in Procs, WaitGroupWait(p) PROVE CrashOnlyIfLate'
    BY <1>2 DEF WaitGroupWait, CrashOnlyIfLate, ghosts
  <1>3. ASSUME NEW p \in Procs, WaitGroupReturns(p) PROVE CrashOnlyIfLate'
    <2>1. /\ pc[p] = "woken" /\ UNCHANGED <<late, orphaned>>
          /\ crashed' = crashed \/ wg[target[p]] # 0
      BY <1>3 DEF WaitGroupReturns, NoCallbacks, ghosts
    <2>2. CASE wg[target[p]] # 0
      <3>1. target[p] \in Tabs
        BY <2>1 DEF TypeInv, TargetOK
      <3>2. Of(target[p]) # {}
        BY <2>2, <3>1, CountTells
      <3>3. BeingClosed(target[p])
        BY <2>1 DEF BeingClosed
      <3>4. late
        BY <3>2, <3>3 DEF ClosedTabIsQuiet, Of
      <3> QED
        BY <2>1, <3>4 DEF CrashOnlyIfLate
    <2> QED
      BY <2>1, <2>2 DEF CrashOnlyIfLate
  <1>4. ASSUME NEW g \in Lua, SendPanics(g) PROVE CrashOnlyIfLate'
    <2>1. pc[g] = "send" /\ errchClosed /\ UNCHANGED <<late, orphaned>>
      BY <1>4 DEF SendPanics, ghosts
    <2>2. ~ AllOver
      BY <2>1 DEF AllOver, Started, Lua
    <2> QED
      BY <2>1, <2>2 DEF ShutOK, CrashOnlyIfLate
  <1>5. ASSUME NEW t \in Tabs, Dispatch(t) PROVE CrashOnlyIfLate'
    BY <1>5 DEF Dispatch, CrashOnlyIfLate, Running
  <1>6. ASSUME NEW c \in Callbacks, Leave(c) PROVE CrashOnlyIfLate'
    BY <1>6 DEF Leave, CrashOnlyIfLate, ghosts
  <1>7. CASE Shutdown
    BY <1>7 DEF Shutdown, CrashOnlyIfLate, Running
  <1> QED
    BY <1>1, <1>2, <1>3, <1>4, <1>5, <1>6, <1>7, OnlyCloseEvents DEF CloseEvent

-----------------------------------------------------------------------------

CloseInv ==
    /\ IInv /\ OwnersOK /\ KnownOK
    /\ CountOK /\ ClosedTabIsQuiet /\ ShutOK /\ CrashOnlyIfLate

LEMMA CloseInvariance == Spec => []CloseInv
  <1>1. Init => CloseInv
    <2> SUFFICES ASSUME Init PROVE CloseInv
      OBVIOUS
    <2>1. IInv /\ OwnersOK /\ KnownOK /\ CountOK
      BY TypeInit, LockInit, LifeInit, CountInit DEF IInv
    <2>2. \A c \in Callbacks : pc[c] = "idle"
      BY NamesAssumption DEF Init, Procs, Lua
    <2>3. ClosedTabIsQuiet
      BY <2>2 DEF ClosedTabIsQuiet, Started
    <2>4. errchClosed = FALSE /\ crashed = FALSE
      BY DEF Init
    <2> QED
      BY <2>1, <2>3, <2>4 DEF CloseInv, ShutOK, CrashOnlyIfLate
  <1>2. CloseInv /\ [Next]_vars => CloseInv'
    BY TypeNext, LockNext, LifeNext, CountNext, QuietNext, EndNext, CrashNext
    DEF CloseInv, IInv
  <1> QED
    BY <1>1, <1>2, PTL DEF Spec

(* The wait group of a tab counts exactly its callbacks (tab.go:322,        *)
(* 456-479): for any number of tabs, callbacks and events, and although the *)
(* listener of a tab starts callbacks without the lock.                     *)
THEOREM WaitGroupCounts == Spec => []CountsCallbacks
  <1>1. CloseInv => CountsCallbacks
    BY DEF CloseInv, CountOK, CountsCallbacks, Of
  <1> QED
    BY <1>1, CloseInvariance, PTL

(* Once Tab.Close has passed its wait group, no callback of the tab runs    *)
(* unless one was started too late (tab.go:320-333).                        *)
THEOREM CloseIsQuiet == Spec => []ClosedTabIsQuiet
  <1>1. CloseInv => ClosedTabIsQuiet
    BY DEF CloseInv
  <1> QED
    BY <1>1, CloseInvariance, PTL

(* The process panics outside of Lua, by a send on the closed errch or in a *)
(* wait group, only after one of two things: a callback was started for a   *)
(* tab being closed, or env.Close left a tab open (environment.go:62-72,    *)
(* 135): nothing else that a scenario or a page does can make it panic.     *)
THEOREM CrashHasACause == Spec => []CrashOnlyIfLate
  <1>1. CloseInv => CrashOnlyIfLate
    BY DEF CloseInv
  <1> QED
    BY <1>1, CloseInvariance, PTL

-----------------------------------------------------------------------------
(* A scenario from stdin.  DoStream returns the result of the script itself *)
(* (repl.go:122-129), so Main never receives from errch, and err is the     *)
(* error of the script.                                                     *)

StdinInv ==
    /\ pc[Main] \notin {"parked", "stop", "join"}
    /\ ended = "error" => err = "error"
    /\ status = "healthy" => err = "nil" /\ pc[Main] = "exit"

LEMMA StdinKept ==
    ASSUME StdinInv, Running, UNCHANGED <<err, ended, status>>,
           pc'[Main] = pc[Main] \/ pc'[Main] \notin {"parked", "stop", "join"}
    PROVE  StdinInv'
  BY DEF StdinInv, Running

LEMMA StdinNext ==
    ASSUME Mode = "stdin"
    PROVE  TypeInv /\ StdinInv /\ [Next]_vars => StdinInv'
  <1> SUFFICES ASSUME TypeInv, StdinInv, [Next]_vars PROVE StdinInv'
    OBVIOUS
  <1> USE DEF Goto, Release, CanRun, goroutines, pages, browser, channels, run, ghosts
  <1>0. /\ Main \in Procs /\ Script \in Procs /\ Main \notin Lua /\ Main \notin Callbacks
        /\ Main # Script /\ pc \in [Procs -> Labels] /\ Lua \subseteq Procs
        /\ ret \in [Procs -> {"lua", "opened", "register", "sweep"}]
    BY NamesAssumption DEF Procs, Lua, TypeInv, TypeOK, GoroutinesOK
  <1>1. ASSUME NEW g \in Lua, StartOp(g) PROVE StdinInv'
    BY <1>1, <1>0, StdinKept DEF StartOp
  <1>2. ASSUME NEW g \in Lua, Yield(g) PROVE StdinInv'
    BY <1>2, <1>0, StdinKept DEF Yield
  <1>3. ASSUME NEW g \in Lua, NewTab(g) PROVE StdinInv'
    BY <1>3, <1>0, StdinKept DEF NewTab
  <1>4. ASSUME NEW g \in Lua, CloseTab(g) PROVE StdinInv'
    BY <1>4, <1>0, StdinKept DEF CloseTab
  <1>5. ASSUME NEW g \in Lua, NEW t \in Tabs, NEW k \in Kinds, Hook(g, t, k) PROVE StdinInv'
    BY <1>5, <1>0, StdinKept DEF Hook
  <1>6. ASSUME NEW g \in Lua, Navigate(g) PROVE StdinInv'
    BY <1>6, <1>0, StdinKept DEF Navigate
  <1>7. ASSUME NEW g \in Lua, Register(g) PROVE StdinInv'
    BY <1>7, <1>0, StdinKept DEF Register
  <1>8. ASSUME NEW c \in Callbacks, CallbackEnds(c) PROVE StdinInv'
    BY <1>8, <1>0, StdinKept DEF CallbackEnds
  <1>9. CASE ScriptEnds
    <2>1. Running /\ status' = status /\ (ended' = "error" => err' = "error")
          /\ pc'[Main] = "close"
      BY <1>9, <1>0 DEF ScriptEnds
    <2> QED
      BY <2>1 DEF StdinInv, Running
  <1>10. ASSUME NEW g \in Lua, OpSucceeds(g) PROVE StdinInv'
    BY <1>10, <1>0, StdinKept DEF OpSucceeds
  <1>11. ASSUME NEW g \in Lua, OpFails(g) PROVE StdinInv'
    BY <1>11, <1>0, StdinKept DEF OpFails
  <1>12. ASSUME NEW g \in Lua, Send(g) PROVE StdinInv'
    <2>1. Running /\ pc[Main] # "parked" /\ UNCHANGED <<err, ended, status>>
          /\ pc' = [pc EXCEPT ![g] = AfterSend(g)]
      BY <1>12 DEF Send, StdinInv
    <2> QED
      BY <1>0, <2>1, StdinKept
  <1>13. ASSUME NEW g \in Lua, SendPanics(g) PROVE StdinInv'
    BY <1>13, <1>0, StdinKept DEF SendPanics
  <1>14. ASSUME NEW p \in Procs, Relock(p) PROVE StdinInv'
    BY <1>14, <1>0, StdinKept DEF Relock
  <1>15. ASSUME NEW p \in Procs, WaitGroupWait(p) PROVE StdinInv'
    BY <1>15, <1>0, StdinKept DEF WaitGroupWait
  <1>16. ASSUME NEW p \in Procs, WaitGroupReturns(p) PROVE StdinInv'
    BY <1>16, <1>0, StdinKept DEF WaitGroupReturns
  <1>17. ASSUME NEW p \in Procs, FilterTabs(p) PROVE StdinInv'
    BY <1>17, <1>0, StdinKept DEF FilterTabs
  <1>18. ASSUME NEW p \in Procs, WriteTabs(p) PROVE StdinInv'
    BY <1>18, <1>0, StdinKept DEF WriteTabs
  <1>19. ASSUME NEW p \in Procs, CancelTab(p) PROVE StdinInv'
    BY <1>19, <1>0, StdinKept DEF CancelTab
  <1>20. ASSUME NEW c \in Callbacks, Enter(c) PROVE StdinInv'
    BY <1>20, <1>0, StdinKept DEF Enter
  <1>21. ASSUME NEW c \in Callbacks, Answer(c) PROVE StdinInv'
    BY <1>21, <1>0, StdinKept DEF Answer
  <1>22. ASSUME NEW c \in Callbacks, Leave(c) PROVE StdinInv'
    BY <1>22, <1>0, StdinKept DEF Leave
  <1>23. ASSUME NEW t \in Tabs, Listen(t) PROVE StdinInv'
    BY <1>23, <1>0, StdinKept DEF Listen
  <1>24. ASSUME NEW t \in Tabs, Build(t) PROVE StdinInv'
    BY <1>24, <1>0, StdinKept DEF Build
  <1>25. ASSUME NEW t \in Tabs, Dispatch(t) PROVE StdinInv'
    BY <1>25, <1>0, StdinKept DEF Dispatch
  <1>26. ASSUME NEW t \in Tabs, NEW k \in Kinds, Emit(t, k) PROVE StdinInv'
    BY <1>26, <1>0, StdinKept DEF Emit
  <1>27. CASE Finish
    BY <1>27, <1>0, StdinKept DEF Finish
  <1>28. CASE SelectErr \/ SelectDone \/ Park \/ StopEnv \/ Join
    BY <1>28 DEF SelectErr, SelectDone, Park, StopEnv, Join, StdinInv
  <1>29. CASE CloseEnv
    BY <1>29, <1>0, StdinKept DEF CloseEnv
  <1>30. CASE Sweep
    BY <1>30, <1>0, StdinKept DEF Sweep
  <1>31. CASE Shutdown
    BY <1>31, <1>0, StdinKept DEF Shutdown
  <1>32. CASE Report
    <2>1. /\ UNCHANGED <<err, ended>> /\ status' = Verdict /\ pc'[Main] = "exit"
      BY <1>32, <1>0 DEF Report
    <2> QED
      BY <2>1 DEF StdinInv, Verdict
  <1>33. CASE RunCtxEnds
    BY <1>33, <1>0, StdinKept DEF RunCtxEnds
  <1>34. CASE UNCHANGED vars
    BY <1>34 DEF vars, StdinInv
  <1> QED
    BY <1>1, <1>2, <1>3, <1>4, <1>5, <1>6, <1>7, <1>8, <1>9, <1>10, <1>11, <1>12, <1>13,
       <1>14, <1>15, <1>16, <1>17, <1>18, <1>19, <1>20, <1>21, <1>22, <1>23, <1>24, <1>25,
       <1>26, <1>27, <1>28, <1>29, <1>30, <1>31, <1>32, <1>33, <1>34 DEF Next, LuaStep,
       CloseStep, SendStep, MainStep, Terminated

(* A scenario from stdin that fails by an error of its own code is never    *)
(* reported as healthy (run.go:148-164, repl.go:122-129), whatever its      *)
(* callbacks send to errch meanwhile.  A scenario from a file can be: there *)
(* MCErrorLost finds the run.                                               *)
THEOREM StdinErrorIsReported ==
    ASSUME Mode = "stdin"
    PROVE  Spec => []ErrorIsReported
  <1>1. Init => StdinInv
    BY NamesAssumption DEF Init, StdinInv, Procs
  <1>2. StdinInv => ErrorIsReported
    BY DEF StdinInv, ErrorIsReported
  <1> QED
    BY <1>1, <1>2, TypeInit, TypeNext, StdinNext, PTL DEF Spec
=============================================================================
