------------------------- MODULE EnvironmentProofs -------------------------
(***************************************************************************)
(* Environment for any number of tabs, callbacks, events and operations:   *)
(* the type invariant, and that the lock of the Environment works.         *)
(***************************************************************************)
EXTENDS Environment, TLAPS

-----------------------------------------------------------------------------
(* The type invariant.  An operation about to be followed by the            *)
(* registration of a tab is about a tab, and so is a Tab.Close.             *)

TargetOK ==
    \A p \in Procs :
        \/ pc[p] \in {"opened", "register", "wait", "blocked", "woken"} \union PastWait
        \/ pc[p] \in {"op", "relock"} /\ ret[p] \in {"opened", "register"}
        => target[p] \in Tabs

TypeInv == TypeOK /\ TargetOK

LEMMA SeqHead ==
    ASSUME NEW S, NEW s \in Seq(S), s # <<>>
    PROVE  Head(s) \in S
  OBVIOUS

LEMMA SeqSingle ==
    ASSUME NEW S, NEW x \in S
    PROVE  Append(<<>>, x) \in Seq(S) /\ Len(Append(<<>>, x)) = 1
  OBVIOUS

LEMMA SeqAppend ==
    ASSUME NEW S, NEW s \in Seq(S), NEW x \in S
    PROVE  Append(s, x) \in Seq(S) /\ Append(s, x) # <<>>
  OBVIOUS

LEMMA TypeInit == Init => TypeInv
  <1> SUFFICES ASSUME Init PROVE TypeInv
    OBVIOUS
  <1> USE NamesAssumption, ScopeAssumption, BoundsAssumption DEF Init
  <1>1. pc \in [Procs -> Labels]
    BY DEF Procs, Lua, Labels, MainOnly, MainWaits, NoLock, UnderGIL
  <1>2. GoroutinesOK
    BY <1>1 DEF GoroutinesOK, Procs, Lua
  <1>3. PagesOK
    BY DEF PagesOK
  <1>4. BrowserOK
    BY DEF BrowserOK
  <1>5. ChannelsOK
    <2>1. errch = <<>> /\ errchClosed \in BOOLEAN /\ done \in BOOLEAN
      OBVIOUS
    <2> HIDE DEF Init
    <2> QED
      BY ONLY <2>1 DEF ChannelsOK
  <1>6. RunOK
    BY DEF RunOK
  <1>7. TargetOK
    BY DEF TargetOK, PastWait, Procs, Lua
  <1> QED
    BY <1>2, <1>3, <1>4, <1>5, <1>6, <1>7 DEF TypeInv, TypeOK

LEMMA TypeNext == TypeInv /\ [Next]_vars => TypeInv'
  <1> SUFFICES ASSUME TypeInv, [Next]_vars PROVE TypeInv'
    OBVIOUS
  <1> USE NamesAssumption, ScopeAssumption
      DEF TypeInv, TypeOK, Procs, Lua, Goto, Release, Spend, CanRun,
          goroutines, pages, browser, channels, run, ghosts
  <1>0. /\ UnderGIL \subseteq Labels /\ InAsync \subseteq Labels /\ NoLock \subseteq Labels
        /\ AtEnd \subseteq Labels /\ MainOnly \subseteq Labels /\ PastWait \subseteq Labels
    BY DEF Labels, InAsync
  <1>1. ASSUME NEW g \in Lua, StartOp(g) PROVE TypeInv'
    <2>1. GoroutinesOK'
      BY <1>1, <1>0 DEF StartOp, GoroutinesOK, UnderGIL, PastWait, InAsync, NoLock,
         AtEnd, MainWaits, MainHolds, MainOnly, Labels
    <2>2. TargetOK'
      BY <1>1 DEF StartOp, TargetOK, PastWait, GoroutinesOK
    <2>3. PagesOK' /\ BrowserOK' /\ ChannelsOK' /\ RunOK'
      BY <1>1 DEF StartOp, PagesOK, BrowserOK, ChannelsOK, RunOK
    <2> QED
      BY <1>1, <2>1, <2>2, <2>3 DEF StartOp
  <1>2. ASSUME NEW g \in Lua, Yield(g) PROVE TypeInv'
    <2>1. GoroutinesOK'
      BY <1>2, <1>0 DEF Yield, GoroutinesOK, UnderGIL, PastWait, InAsync, NoLock,
         AtEnd, MainWaits, MainHolds, MainOnly, Labels
    <2>2. TargetOK'
      BY <1>2 DEF Yield, TargetOK, PastWait, GoroutinesOK
    <2>3. PagesOK' /\ BrowserOK' /\ ChannelsOK' /\ RunOK'
      BY <1>2 DEF Yield, PagesOK, BrowserOK, ChannelsOK, RunOK
    <2> QED
      BY <1>2, <2>1, <2>2, <2>3 DEF Yield
  <1>3. ASSUME NEW g \in Lua, NewTab(g) PROVE TypeInv'
    <2>1. GoroutinesOK'
      BY <1>3, <1>0 DEF NewTab, GoroutinesOK, UnderGIL, PastWait, InAsync, NoLock,
         AtEnd, MainWaits, MainHolds, MainOnly, Labels
    <2>2. TargetOK'
      BY <1>3 DEF NewTab, TargetOK, PastWait, GoroutinesOK
    <2>3. PagesOK'
      BY <1>3 DEF NewTab, PagesOK, TargetOK, PastWait, GoroutinesOK
    <2>4. BrowserOK' /\ ChannelsOK' /\ RunOK'
      BY <1>3 DEF NewTab, BrowserOK, ChannelsOK, RunOK
    <2> QED
      BY <1>3, <2>1, <2>2, <2>3, <2>4 DEF NewTab
  <1>4. ASSUME NEW g \in Lua, CloseTab(g) PROVE TypeInv'
    <2>1. GoroutinesOK'
      BY <1>4, <1>0 DEF CloseTab, GoroutinesOK, UnderGIL, PastWait, InAsync, NoLock,
         AtEnd, MainWaits, MainHolds, MainOnly, Labels
    <2>2. TargetOK'
      BY <1>4 DEF CloseTab, TargetOK, PastWait, GoroutinesOK
    <2>3. PagesOK' /\ BrowserOK' /\ ChannelsOK' /\ RunOK'
      BY <1>4 DEF CloseTab, PagesOK, BrowserOK, ChannelsOK, RunOK
    <2> QED
      BY <1>4, <2>1, <2>2, <2>3 DEF CloseTab
  <1>5. ASSUME NEW g \in Lua, Navigate(g) PROVE TypeInv'
    <2>1. GoroutinesOK'
      BY <1>5, <1>0 DEF Navigate, GoroutinesOK, UnderGIL, PastWait, InAsync, NoLock,
         AtEnd, MainWaits, MainHolds, MainOnly, Labels
    <2>2. TargetOK'
      BY <1>5 DEF Navigate, TargetOK, PastWait, GoroutinesOK
    <2>3. PagesOK' /\ BrowserOK' /\ ChannelsOK' /\ RunOK'
      BY <1>5 DEF Navigate, PagesOK, BrowserOK, ChannelsOK, RunOK
    <2> QED
      BY <1>5, <2>1, <2>2, <2>3 DEF Navigate
  <1>6. ASSUME NEW g \in Lua, Register(g) PROVE TypeInv'
    <2>1. GoroutinesOK'
      BY <1>6, <1>0 DEF Register, GoroutinesOK, UnderGIL, PastWait, InAsync, NoLock,
         AtEnd, MainWaits, MainHolds, MainOnly, Labels
    <2>2. TargetOK'
      BY <1>6 DEF Register, TargetOK, PastWait, GoroutinesOK
    <2>3. PagesOK'
      BY <1>6 DEF Register, PagesOK, TargetOK, PastWait, GoroutinesOK
    <2>4. BrowserOK' /\ ChannelsOK' /\ RunOK'
      BY <1>6 DEF Register, BrowserOK, ChannelsOK, RunOK
    <2> QED
      BY <1>6, <2>1, <2>2, <2>3, <2>4 DEF Register
  <1>7. ASSUME NEW g \in Lua, OpSucceeds(g) PROVE TypeInv'
    <2>1. GoroutinesOK'
      BY <1>7, <1>0 DEF OpSucceeds, GoroutinesOK, UnderGIL, PastWait, InAsync,
         NoLock, AtEnd, MainWaits, MainHolds, MainOnly, Labels
    <2>2. TargetOK'
      BY <1>7 DEF OpSucceeds, TargetOK, PastWait, GoroutinesOK
    <2>3. PagesOK'
      BY <1>7 DEF OpSucceeds, PagesOK, TargetOK, PastWait, GoroutinesOK
    <2>4. BrowserOK' /\ ChannelsOK' /\ RunOK'
      BY <1>7 DEF OpSucceeds, BrowserOK, ChannelsOK, RunOK
    <2> QED
      BY <1>7, <2>1, <2>2, <2>3, <2>4 DEF OpSucceeds
  <1>8. ASSUME NEW g \in Lua, OpFails(g) PROVE TypeInv'
    <2>1. GoroutinesOK'
      BY <1>8, <1>0 DEF OpFails, GoroutinesOK, UnderGIL, PastWait, InAsync, NoLock,
         AtEnd, MainWaits, MainHolds, MainOnly, Labels
    <2>2. TargetOK'
      BY <1>8 DEF OpFails, TargetOK, PastWait, GoroutinesOK
    <2>3. PagesOK' /\ BrowserOK' /\ ChannelsOK' /\ RunOK'
      BY <1>8 DEF OpFails, PagesOK, BrowserOK, ChannelsOK, RunOK
    <2> QED
      BY <1>8, <2>1, <2>2, <2>3 DEF OpFails
  <1>9. ASSUME NEW g \in Lua, Send(g) PROVE TypeInv'
    <2>1. GoroutinesOK'
      BY <1>9, <1>0 DEF Send, AfterSend, GoroutinesOK, UnderGIL, PastWait, InAsync,
         NoLock, AtEnd, MainWaits, MainHolds, MainOnly, Labels
    <2>2. TargetOK'
      BY <1>9 DEF Send, AfterSend, TargetOK, PastWait, GoroutinesOK
    <2>3. ChannelsOK'
      <3>1. outcome[g] \in {"nil", "error"}
        BY DEF GoroutinesOK
      <3>2. /\ Append(<<>>, outcome[g]) \in Seq({"nil", "error"})
            /\ Len(Append(<<>>, outcome[g])) = 1
        BY ONLY <3>1, SeqSingle
      <3>3. \/ errch' = errch
            \/ errch' = Append(<<>>, outcome[g])
        BY <1>9 DEF Send, Room
      <3>4. /\ errch \in Seq({"nil", "error"}) /\ Len(errch) <= 1
            /\ errchClosed' \in BOOLEAN /\ done' \in BOOLEAN
        BY <1>9 DEF Send, ChannelsOK
      <3>5. errch' \in Seq({"nil", "error"}) /\ Len(errch') <= 1
        <4>1. CASE errch' = errch
          BY ONLY <3>4, <4>1
        <4>2. CASE errch' = Append(<<>>, outcome[g])
          BY ONLY <3>2, <4>2
        <4> QED
          BY ONLY <3>3, <4>1, <4>2
      <3> QED
        BY ONLY <3>4, <3>5 DEF ChannelsOK
    <2>4. RunOK'
      BY <1>9 DEF Send, AfterSend, RunOK, GoroutinesOK, ChannelsOK
    <2>5. PagesOK' /\ BrowserOK'
      BY <1>9 DEF Send, AfterSend, PagesOK, BrowserOK
    <2> QED
      BY <1>9, <2>1, <2>2, <2>3, <2>4, <2>5 DEF Send, AfterSend
  <1>10. ASSUME NEW g \in Lua, SendPanics(g) PROVE TypeInv'
    <2>1. GoroutinesOK' /\ TargetOK'
      BY <1>10 DEF SendPanics, GoroutinesOK, TargetOK
    <2>2. PagesOK' /\ BrowserOK' /\ ChannelsOK' /\ RunOK'
      BY <1>10 DEF SendPanics, PagesOK, BrowserOK, ChannelsOK, RunOK
    <2> QED
      BY <1>10, <2>1, <2>2 DEF SendPanics
  <1>11. ASSUME NEW g \in Lua, NEW t \in Tabs, NEW k \in Kinds, Hook(g, t, k) PROVE TypeInv'
    <2>1. GoroutinesOK'
      BY <1>11, <1>0 DEF Hook, GoroutinesOK, UnderGIL, PastWait, InAsync, NoLock,
         AtEnd, MainWaits, MainHolds, MainOnly, Labels
    <2>2. TargetOK'
      BY <1>11 DEF Hook, TargetOK, PastWait, GoroutinesOK
    <2>3. PagesOK'
      BY <1>11 DEF Hook, PagesOK, TargetOK, PastWait, GoroutinesOK
    <2>4. BrowserOK' /\ ChannelsOK' /\ RunOK'
      BY <1>11 DEF Hook, BrowserOK, ChannelsOK, RunOK
    <2> QED
      BY <1>11, <2>1, <2>2, <2>3, <2>4 DEF Hook
  <1>12. CASE ScriptEnds
    <2>1. GoroutinesOK'
      BY <1>12, <1>0 DEF ScriptEnds, GoroutinesOK, UnderGIL, PastWait, InAsync,
         NoLock, AtEnd, MainWaits, MainHolds, MainOnly, Labels
    <2>2. TargetOK'
      BY <1>12 DEF ScriptEnds, TargetOK, PastWait, GoroutinesOK
    <2>3. RunOK'
      BY <1>12 DEF ScriptEnds, RunOK, GoroutinesOK, ChannelsOK
    <2>4. PagesOK' /\ BrowserOK' /\ ChannelsOK'
      BY <1>12 DEF ScriptEnds, PagesOK, BrowserOK, ChannelsOK
    <2> QED
      BY <1>12, <2>1, <2>2, <2>3, <2>4 DEF ScriptEnds
  <1>13. ASSUME NEW c \in Callbacks, CallbackEnds(c) PROVE TypeInv'
    <2>1. GoroutinesOK'
      BY <1>13, <1>0 DEF CallbackEnds, GoroutinesOK, UnderGIL, PastWait, InAsync,
         NoLock, AtEnd, MainWaits, MainHolds, MainOnly, Labels
    <2>2. TargetOK'
      BY <1>13 DEF CallbackEnds, TargetOK, PastWait, GoroutinesOK
    <2>3. PagesOK' /\ BrowserOK' /\ ChannelsOK' /\ RunOK'
      BY <1>13 DEF CallbackEnds, PagesOK, BrowserOK, ChannelsOK, RunOK
    <2> QED
      BY <1>13, <2>1, <2>2, <2>3 DEF CallbackEnds
  <1>14. ASSUME NEW c \in Callbacks, Enter(c) PROVE TypeInv'
    <2>1. GoroutinesOK'
      BY <1>14, <1>0 DEF Enter, GoroutinesOK, UnderGIL, PastWait, InAsync, NoLock,
         AtEnd, MainWaits, MainHolds, MainOnly, Labels
    <2>2. TargetOK'
      BY <1>14 DEF Enter, TargetOK, PastWait, GoroutinesOK
    <2>3. PagesOK' /\ BrowserOK' /\ ChannelsOK' /\ RunOK'
      BY <1>14 DEF Enter, PagesOK, BrowserOK, ChannelsOK, RunOK
    <2> QED
      BY <1>14, <2>1, <2>2, <2>3 DEF Enter
  <1>15. ASSUME NEW c \in Callbacks, Answer(c) PROVE TypeInv'
    <2>1. GoroutinesOK'
      BY <1>15, <1>0 DEF Answer, GoroutinesOK, UnderGIL, PastWait, InAsync, NoLock,
         AtEnd, MainWaits, MainHolds, MainOnly, Labels
    <2>2. TargetOK'
      BY <1>15 DEF Answer, TargetOK, PastWait, GoroutinesOK
    <2>3. BrowserOK'
      BY <1>15 DEF Answer, BrowserOK
    <2>4. PagesOK' /\ ChannelsOK' /\ RunOK'
      BY <1>15 DEF Answer, PagesOK, ChannelsOK, RunOK
    <2> QED
      BY <1>15, <2>1, <2>2, <2>3, <2>4 DEF Answer
  <1>16. ASSUME NEW c \in Callbacks, Leave(c) PROVE TypeInv'
    <2>1. GoroutinesOK'
      BY <1>16, <1>0 DEF Leave, GoroutinesOK, UnderGIL, PastWait, InAsync, NoLock,
         AtEnd, MainWaits, MainHolds, MainOnly, Labels
    <2>2. TargetOK'
      BY <1>16 DEF Leave, TargetOK, PastWait, GoroutinesOK
    <2>3. PagesOK'
      <3>1. \A t \in Tabs : wg[t] \in Int /\ wg[t] - 1 \in Int
        BY DEF PagesOK
      <3>2. wg' \in [Tabs -> Int]
        BY <1>16, <3>1 DEF Leave, PagesOK
      <3> QED
        BY <1>16, <3>2 DEF Leave, PagesOK
    <2>4. BrowserOK' /\ ChannelsOK' /\ RunOK'
      BY <1>16 DEF Leave, BrowserOK, ChannelsOK, RunOK
    <2> QED
      BY <1>16, <2>1, <2>2, <2>3, <2>4 DEF Leave
  <1>17. ASSUME NEW p \in Procs, Relock(p) PROVE TypeInv'
    <2>1. GoroutinesOK'
      BY <1>17, <1>0 DEF Relock, GoroutinesOK, UnderGIL, PastWait, InAsync, NoLock,
         AtEnd, MainWaits, MainHolds, MainOnly, Labels
    <2>2. TargetOK'
      BY <1>17 DEF Relock, TargetOK, PastWait, GoroutinesOK
    <2>3. PagesOK' /\ BrowserOK' /\ ChannelsOK' /\ RunOK'
      BY <1>17 DEF Relock, PagesOK, BrowserOK, ChannelsOK, RunOK
    <2> QED
      BY <1>17, <2>1, <2>2, <2>3 DEF Relock
  <1>18. ASSUME NEW p \in Procs, WaitGroupWait(p) PROVE TypeInv'
    <2>1. GoroutinesOK'
      BY <1>18, <1>0 DEF WaitGroupWait, GoroutinesOK, UnderGIL, PastWait, InAsync,
         NoLock, AtEnd, MainWaits, MainHolds, MainOnly, Labels
    <2>2. TargetOK'
      BY <1>18 DEF WaitGroupWait, TargetOK, PastWait, GoroutinesOK
    <2>3. PagesOK' /\ BrowserOK' /\ ChannelsOK' /\ RunOK'
      BY <1>18 DEF WaitGroupWait, PagesOK, BrowserOK, ChannelsOK, RunOK
    <2> QED
      BY <1>18, <2>1, <2>2, <2>3 DEF WaitGroupWait
  <1>19. ASSUME NEW p \in Procs, WaitGroupReturns(p) PROVE TypeInv'
    <2>1. GoroutinesOK'
      BY <1>19, <1>0 DEF WaitGroupReturns, GoroutinesOK, UnderGIL, PastWait,
         InAsync, NoLock, AtEnd, MainWaits, MainHolds, MainOnly, Labels
    <2>2. TargetOK'
      BY <1>19 DEF WaitGroupReturns, TargetOK, PastWait, GoroutinesOK
    <2>3. PagesOK' /\ BrowserOK' /\ ChannelsOK' /\ RunOK'
      BY <1>19 DEF WaitGroupReturns, PagesOK, BrowserOK, ChannelsOK, RunOK
    <2> QED
      BY <1>19, <2>1, <2>2, <2>3 DEF WaitGroupReturns
  <1>20. ASSUME NEW p \in Procs, FilterTabs(p) PROVE TypeInv'
    <2>1. GoroutinesOK'
      BY <1>20, <1>0 DEF FilterTabs, PagesOK, GoroutinesOK, UnderGIL, PastWait, InAsync,
         NoLock, AtEnd, MainWaits, MainHolds, MainOnly, Labels
    <2>2. TargetOK'
      BY <1>20 DEF FilterTabs, TargetOK, PastWait, GoroutinesOK
    <2>3. PagesOK' /\ BrowserOK' /\ ChannelsOK' /\ RunOK'
      BY <1>20 DEF FilterTabs, PagesOK, BrowserOK, ChannelsOK, RunOK
    <2> QED
      BY <1>20, <2>1, <2>2, <2>3 DEF FilterTabs
  <1>21. ASSUME NEW p \in Procs, WriteTabs(p) PROVE TypeInv'
    <2>1. GoroutinesOK'
      BY <1>21, <1>0 DEF WriteTabs, GoroutinesOK, UnderGIL, PastWait, InAsync,
         NoLock, AtEnd, MainWaits, MainHolds, MainOnly, Labels
    <2>2. TargetOK'
      BY <1>21 DEF WriteTabs, TargetOK, PastWait, GoroutinesOK
    <2>3. PagesOK'
      BY <1>21 DEF WriteTabs, PagesOK, TargetOK, PastWait, GoroutinesOK
    <2>4. BrowserOK' /\ ChannelsOK' /\ RunOK'
      BY <1>21 DEF WriteTabs, BrowserOK, ChannelsOK, RunOK
    <2> QED
      BY <1>21, <2>1, <2>2, <2>3, <2>4 DEF WriteTabs
  <1>22. ASSUME NEW p \in Procs, CancelTab(p) PROVE TypeInv'
    <2>1. GoroutinesOK'
      BY <1>22, <1>0 DEF CancelTab, GoroutinesOK, UnderGIL, PastWait, InAsync,
         NoLock, AtEnd, MainWaits, MainHolds, MainOnly, Labels
    <2>2. TargetOK'
      <3>1. pc'[p] = "relock" /\ \A q \in Procs \ {p} : pc'[q] = pc[q]
        BY <1>22 DEF CancelTab, GoroutinesOK
      <3>2. ret' = ret /\ target' = target
        BY <1>22 DEF CancelTab
      <3> QED
        BY <1>22, <3>1, <3>2 DEF CancelTab, TargetOK, PastWait
    <2>3. PagesOK'
      BY <1>22 DEF CancelTab, PagesOK, TargetOK, PastWait, GoroutinesOK
    <2>4. BrowserOK'
      BY <1>22 DEF CancelTab, BrowserOK
    <2>5. ChannelsOK' /\ RunOK'
      BY <1>22 DEF CancelTab, ChannelsOK, RunOK
    <2> QED
      BY <1>22, <2>1, <2>2, <2>3, <2>4, <2>5 DEF CancelTab
  <1>23. ASSUME NEW t \in Tabs, Listen(t) PROVE TypeInv'
    <2>1. GoroutinesOK' /\ TargetOK'
      BY <1>23 DEF Listen, GoroutinesOK, TargetOK
    <2>2. BrowserOK'
      BY <1>23 DEF Listen, BrowserOK
    <2>3. PagesOK' /\ ChannelsOK' /\ RunOK'
      BY <1>23 DEF Listen, PagesOK, ChannelsOK, RunOK
    <2> QED
      BY <1>23, <2>1, <2>2, <2>3 DEF Listen
  <1>24. ASSUME NEW t \in Tabs, Build(t) PROVE TypeInv'
    <2>1. GoroutinesOK' /\ TargetOK'
      BY <1>24 DEF Build, GoroutinesOK, TargetOK
    <2>2. BrowserOK'
      BY <1>24 DEF Build, BrowserOK
    <2>3. PagesOK' /\ ChannelsOK' /\ RunOK'
      BY <1>24 DEF Build, PagesOK, ChannelsOK, RunOK
    <2> QED
      BY <1>24, <2>1, <2>2, <2>3 DEF Build
  <1>25. ASSUME NEW t \in Tabs, Dispatch(t) PROVE TypeInv'
    <2>0. Head(pending[t]) \in Kinds
      <3>1. pending[t] \in Seq(Kinds) /\ pending[t] # <<>>
        BY <1>25 DEF Dispatch, BrowserOK
      <3> QED
        BY ONLY <3>1, SeqHead
    <2>1. GoroutinesOK'
      <3>1. CASE \E c \in Callbacks : \E l \in {"lock", "answer"} :
                     /\ pc' = [pc EXCEPT ![c] = l]
                     /\ home' = [home EXCEPT ![c] = t]
                     /\ cause' = [cause EXCEPT ![c] = Head(pending[t])]
        <4>1. {"lock", "answer"} \subseteq Labels
          BY DEF Labels, NoLock
        <4>2. UNCHANGED <<ret, target, copy, ops, outcome>>
          BY <1>25 DEF Dispatch
        <4>3. /\ pc' \in [Procs -> Labels]
              /\ home' \in [Callbacks -> Tabs \union {NoTab}]
              /\ cause' \in [Callbacks -> Kinds \union {"none"}]
          BY <2>0, <3>1, <4>1 DEF GoroutinesOK
        <4> QED
          BY <4>2, <4>3 DEF GoroutinesOK
      <3>2. CASE UNCHANGED <<pc, home, cause>>
        BY <1>25, <3>2 DEF Dispatch, GoroutinesOK
      <3> QED
        BY <1>25, <3>1, <3>2 DEF Dispatch
    <2>2. TargetOK'
      BY <1>25 DEF Dispatch, TargetOK, PastWait, GoroutinesOK
    <2>3. PagesOK'
      BY <1>25 DEF Dispatch, AddCallback, PagesOK
    <2>4. BrowserOK'
      BY <1>25 DEF Dispatch, BrowserOK
    <2>5. ChannelsOK' /\ RunOK'
      BY <1>25 DEF Dispatch, ChannelsOK, RunOK
    <2> QED
      BY <1>25, <2>1, <2>2, <2>3, <2>4, <2>5 DEF Dispatch
  <1>26. ASSUME NEW t \in Tabs, NEW k \in Kinds, Emit(t, k) PROVE TypeInv'
    <2>1. GoroutinesOK' /\ TargetOK'
      BY <1>26 DEF Emit, GoroutinesOK, TargetOK
    <2>2. BrowserOK'
      <3>1. /\ pending' \in [Tabs -> Seq(Kinds)]
            /\ \A x \in Tabs : pending[x] # <<>> => pending'[x] # <<>>
        <4>1. Append(pending[t], k) \in Seq(Kinds) /\ Append(pending[t], k) # <<>>
          <5>1. pending[t] \in Seq(Kinds)
            BY DEF BrowserOK
          <5> QED
            BY ONLY <5>1, SeqAppend, k \in Kinds
        <4> QED
          BY <1>26, <4>1 DEF Emit, BrowserOK
      <3>2. events' \in [Kinds -> Nat]
        BY <1>26 DEF Emit, BrowserOK
      <3>3. dialog' \in [Tabs -> {"none", "shown", "unheard"}]
        BY <1>26 DEF Emit, BrowserOK
      <3> QED
        BY <1>26, <3>1, <3>2, <3>3 DEF Emit, BrowserOK
    <2>3. PagesOK' /\ ChannelsOK' /\ RunOK'
      BY <1>26 DEF Emit, PagesOK, ChannelsOK, RunOK
    <2> QED
      BY <1>26, <2>1, <2>2, <2>3 DEF Emit
  <1>27. CASE Finish
    <2>1. GoroutinesOK'
      BY <1>27, <1>0 DEF Finish, GoroutinesOK, UnderGIL, PastWait, InAsync, NoLock,
         AtEnd, MainWaits, MainHolds, MainOnly, Labels
    <2>2. TargetOK'
      BY <1>27 DEF Finish, TargetOK, PastWait, GoroutinesOK
    <2>3. ChannelsOK'
      BY <1>27 DEF Finish, ChannelsOK, GoroutinesOK
    <2>4. PagesOK' /\ BrowserOK' /\ RunOK'
      BY <1>27 DEF Finish, PagesOK, BrowserOK, RunOK
    <2> QED
      BY <1>27, <2>1, <2>2, <2>3, <2>4 DEF Finish
  <1>28. CASE SelectErr
    <2>1. GoroutinesOK'
      BY <1>28, <1>0 DEF SelectErr, GoroutinesOK, UnderGIL, PastWait, InAsync,
         NoLock, AtEnd, MainWaits, MainHolds, MainOnly, Labels
    <2>2. TargetOK'
      BY <1>28 DEF SelectErr, TargetOK, PastWait, GoroutinesOK
    <2>3. ChannelsOK'
      BY <1>28 DEF SelectErr, ChannelsOK, GoroutinesOK
    <2>4. RunOK'
      BY <1>28 DEF SelectErr, RunOK, GoroutinesOK, ChannelsOK
    <2>5. PagesOK' /\ BrowserOK'
      BY <1>28 DEF SelectErr, PagesOK, BrowserOK
    <2> QED
      BY <1>28, <2>1, <2>2, <2>3, <2>4, <2>5 DEF SelectErr
  <1>29. CASE SelectDone
    <2>1. GoroutinesOK'
      BY <1>29, <1>0 DEF SelectDone, GoroutinesOK, UnderGIL, PastWait, InAsync,
         NoLock, AtEnd, MainWaits, MainHolds, MainOnly, Labels
    <2>2. TargetOK'
      BY <1>29 DEF SelectDone, TargetOK, PastWait, GoroutinesOK
    <2>3. PagesOK' /\ BrowserOK' /\ ChannelsOK' /\ RunOK'
      BY <1>29 DEF SelectDone, PagesOK, BrowserOK, ChannelsOK, RunOK
    <2> QED
      BY <1>29, <2>1, <2>2, <2>3 DEF SelectDone
  <1>30. CASE Park
    <2>1. GoroutinesOK'
      BY <1>30, <1>0 DEF Park, GoroutinesOK, UnderGIL, PastWait, InAsync, NoLock,
         AtEnd, MainWaits, MainHolds, MainOnly, Labels
    <2>2. TargetOK'
      BY <1>30 DEF Park, TargetOK, PastWait, GoroutinesOK
    <2>3. PagesOK' /\ BrowserOK' /\ ChannelsOK' /\ RunOK'
      BY <1>30 DEF Park, PagesOK, BrowserOK, ChannelsOK, RunOK
    <2> QED
      BY <1>30, <2>1, <2>2, <2>3 DEF Park
  <1>31. CASE StopEnv
    <2>1. GoroutinesOK'
      BY <1>31, <1>0 DEF StopEnv, GoroutinesOK, UnderGIL, PastWait, InAsync, NoLock,
         AtEnd, MainWaits, MainHolds, MainOnly, Labels
    <2>2. TargetOK'
      BY <1>31 DEF StopEnv, TargetOK, PastWait, GoroutinesOK
    <2>3. RunOK'
      BY <1>31 DEF StopEnv, RunOK, GoroutinesOK, ChannelsOK
    <2>4. PagesOK' /\ BrowserOK' /\ ChannelsOK'
      BY <1>31 DEF StopEnv, PagesOK, BrowserOK, ChannelsOK
    <2> QED
      BY <1>31, <2>1, <2>2, <2>3, <2>4 DEF StopEnv
  <1>32. CASE Join
    <2>1. GoroutinesOK'
      BY <1>32, <1>0 DEF Join, GoroutinesOK, UnderGIL, PastWait, InAsync, NoLock,
         AtEnd, MainWaits, MainHolds, MainOnly, Labels
    <2>2. TargetOK'
      BY <1>32 DEF Join, TargetOK, PastWait, GoroutinesOK
    <2>3. PagesOK' /\ BrowserOK' /\ ChannelsOK' /\ RunOK'
      BY <1>32 DEF Join, PagesOK, BrowserOK, ChannelsOK, RunOK
    <2> QED
      BY <1>32, <2>1, <2>2, <2>3 DEF Join
  <1>33. CASE CloseEnv
    <2>1. GoroutinesOK'
      BY <1>33, <1>0 DEF CloseEnv, GoroutinesOK, UnderGIL, PastWait, InAsync,
         NoLock, AtEnd, MainWaits, MainHolds, MainOnly, Labels
    <2>2. TargetOK'
      BY <1>33 DEF CloseEnv, TargetOK, PastWait, GoroutinesOK
    <2>3. RunOK'
      BY <1>33 DEF CloseEnv, RunOK, PagesOK
    <2>4. PagesOK' /\ BrowserOK' /\ ChannelsOK'
      BY <1>33 DEF CloseEnv, PagesOK, BrowserOK, ChannelsOK
    <2> QED
      BY <1>33, <2>1, <2>2, <2>3, <2>4 DEF CloseEnv
  <1>34. CASE Sweep
    <2>1. GoroutinesOK'
      BY <1>34, <1>0 DEF Sweep, RunOK, GoroutinesOK, UnderGIL, PastWait, InAsync, NoLock,
         AtEnd, MainWaits, MainHolds, MainOnly, Labels
    <2>2. TargetOK'
      BY <1>34 DEF Sweep, TargetOK, PastWait, GoroutinesOK, RunOK
    <2>3. RunOK'
      BY <1>34 DEF Sweep, RunOK, GoroutinesOK, ChannelsOK
    <2>4. PagesOK' /\ BrowserOK' /\ ChannelsOK'
      BY <1>34 DEF Sweep, PagesOK, BrowserOK, ChannelsOK
    <2> QED
      BY <1>34, <2>1, <2>2, <2>3, <2>4 DEF Sweep
  <1>35. CASE Shutdown
    <2>1. GoroutinesOK'
      BY <1>35, <1>0 DEF Shutdown, GoroutinesOK, UnderGIL, PastWait, InAsync,
         NoLock, AtEnd, MainWaits, MainHolds, MainOnly, Labels
    <2>2. TargetOK'
      BY <1>35 DEF Shutdown, TargetOK, PastWait, GoroutinesOK
    <2>3. ChannelsOK'
      BY <1>35 DEF Shutdown, ChannelsOK, GoroutinesOK
    <2>4. RunOK'
      BY <1>35 DEF Shutdown, RunOK, GoroutinesOK, ChannelsOK
    <2>5. PagesOK' /\ BrowserOK'
      BY <1>35 DEF Shutdown, PagesOK, BrowserOK
    <2> QED
      BY <1>35, <2>1, <2>2, <2>3, <2>4, <2>5 DEF Shutdown, PagesOK
  <1>36. CASE Report
    <2>1. GoroutinesOK'
      BY <1>36, <1>0 DEF Report, GoroutinesOK, UnderGIL, PastWait, InAsync, NoLock,
         AtEnd, MainWaits, MainHolds, MainOnly, Labels
    <2>2. TargetOK'
      BY <1>36 DEF Report, TargetOK, PastWait, GoroutinesOK
    <2>3. RunOK'
      BY <1>36 DEF Report, Verdict, RunOK
    <2>4. PagesOK' /\ BrowserOK' /\ ChannelsOK'
      BY <1>36 DEF Report, PagesOK, BrowserOK, ChannelsOK
    <2> QED
      BY <1>36, <2>1, <2>2, <2>3, <2>4 DEF Report
  <1>37. CASE RunCtxEnds
    <2>1. GoroutinesOK' /\ TargetOK'
      BY <1>37 DEF RunCtxEnds, GoroutinesOK, TargetOK
    <2>2. RunOK'
      BY <1>37 DEF RunCtxEnds, RunOK, GoroutinesOK, ChannelsOK
    <2>3. PagesOK' /\ BrowserOK' /\ ChannelsOK'
      BY <1>37 DEF RunCtxEnds, PagesOK, BrowserOK, ChannelsOK
    <2> QED
      BY <1>37, <2>1, <2>2, <2>3 DEF RunCtxEnds
  <1>38. CASE UNCHANGED vars
    BY <1>38 DEF vars, GoroutinesOK, PagesOK, BrowserOK, ChannelsOK, RunOK, TargetOK
  <1> QED
    BY <1>1, <1>2, <1>3, <1>4, <1>5, <1>6, <1>7, <1>8, <1>9, <1>10, <1>11, <1>12,
       <1>13, <1>14, <1>15, <1>16, <1>17, <1>18, <1>19, <1>20, <1>21, <1>22, <1>23,
       <1>24, <1>25, <1>26, <1>27, <1>28, <1>29, <1>30, <1>31, <1>32, <1>33, <1>34,
       <1>35, <1>36, <1>37, <1>38 DEF Next, LuaStep, CloseStep, SendStep, MainStep,
       Terminated

(* Every variable of the run keeps its type: errch never holds more than    *)
(* its one value, and only real tabs are registered.                        *)
THEOREM TypeCorrect == Spec => []TypeOK
  <1>1. TypeInv => TypeOK
    BY DEF TypeInv
  <1> QED
    BY <1>1, TypeInit, TypeNext, PTL DEF Spec

-----------------------------------------------------------------------------
(* The lock.  GILExclusion alone is not inductive: when the script ends it  *)
(* keeps the lock, and Main goes on without locking.  What makes this right *)
(* is that Main leaves its wait only when the script has ended.             *)

HoldLabels == UnderGIL \union AtEnd \union MainHolds

Handover ==
    /\ done => pc[Script] = "ended"
    /\ pc[Main] \notin MainWaits => pc[Script] = "ended"

IInv == TypeInv /\ GILExclusion /\ Handover

LEMMA LockInit == Init => GILExclusion /\ Handover
  BY NamesAssumption DEF Init, GILExclusion, Handover, Holds, Procs, Lua, UnderGIL,
     AtEnd, MainHolds, MainWaits

\* The ways to keep GILExclusion: the holders and the lock stay as they are,
LEMMA SameHolders ==
    ASSUME GILExclusion, gil' = gil, \A q \in Procs : Holds(q)' <=> Holds(q)
    PROVE  GILExclusion'
  BY DEF GILExclusion

\* the holder unlocks,
LEMMA HolderUnlocks ==
    ASSUME GILExclusion, NEW p \in Procs, Holds(p), ~ Holds(p)', gil' = FALSE,
           \A q \in Procs \ {p} : Holds(q)' <=> Holds(q)
    PROVE  GILExclusion'
  BY DEF GILExclusion

\* someone locks what is not locked,
LEMMA TakerLocks ==
    ASSUME GILExclusion, NEW p \in Procs, ~ gil, Holds(p)', gil' = TRUE,
           \A q \in Procs \ {p} : Holds(q)' <=> Holds(q)
    PROVE  GILExclusion'
  BY DEF GILExclusion

\* or the holder passes the lock on.
LEMMA HolderChanges ==
    ASSUME GILExclusion, gil' = gil,
           NEW p \in Procs, Holds(p), ~ Holds(p)',
           NEW r \in Procs, p # r, Holds(r)',
           \A q \in Procs \ {p, r} : Holds(q)' <=> Holds(q)
    PROVE  GILExclusion'
  BY DEF GILExclusion

\* A goroutine that moves is of no concern to the others, but for the script,
\* whose claim on the lock ends when Main leaves its wait.
LEMMA OthersKeep ==
    ASSUME TypeInv, NEW p \in Procs, NEW l,
           pc' = [pc EXCEPT ![p] = l],
           pc[p] \in MainWaits <=> l \in MainWaits
    PROVE  \A q \in Procs \ {p} : Holds(q)' <=> Holds(q)
  <1>1. \A q \in Procs \ {p} : pc'[q] = pc[q]
    BY DEF TypeInv, TypeOK, GoroutinesOK
  <1>2. pc'[Main] \in MainWaits <=> pc[Main] \in MainWaits
    <2>1. CASE p = Main
      BY <2>1 DEF TypeInv, TypeOK, GoroutinesOK, Procs
    <2>2. CASE p # Main
      BY <1>1, <2>2 DEF Procs
    <2> QED
      BY <2>1, <2>2
  <1> QED
    BY <1>1, <1>2 DEF Holds

LEMMA HandoverKept ==
    ASSUME TypeInv, Handover, NEW p \in Procs, NEW l,
           pc' = [pc EXCEPT ![p] = l], done' = done,
           pc[p] \in MainWaits <=> l \in MainWaits,
           p = Script => pc[p] # "ended"
    PROVE  Handover'
  <1>1. \A q \in Procs \ {p} : pc'[q] = pc[q]
    BY DEF TypeInv, TypeOK, GoroutinesOK
  <1>2. Main \in Procs /\ Script \in Procs /\ Main # Script
    BY NamesAssumption DEF Procs, Lua
  <1>3. pc'[p] = l
    BY DEF TypeInv, TypeOK, GoroutinesOK
  <1> QED
    BY <1>1, <1>2, <1>3 DEF Handover

\* One goroutine goes from label to label, with or without the lock; it is not
\* the script that ends, nor Main that stops waiting.
LEMMA Moves ==
    ASSUME IInv, NEW p \in Procs, NEW l,
           pc' = [pc EXCEPT ![p] = l], done' = done,
           pc[p] \in MainWaits <=> l \in MainWaits,
           p = Script => pc[p] # "ended" /\ l # "ended",
           \/ gil' = gil /\ (pc[p] \in HoldLabels <=> l \in HoldLabels)
           \/ gil' = FALSE /\ pc[p] \in HoldLabels /\ l \notin HoldLabels
           \/ ~ gil /\ gil' = TRUE /\ l \in HoldLabels
    PROVE  GILExclusion' /\ Handover'
  <1>1. \A q \in Procs \ {p} : Holds(q)' <=> Holds(q)
    BY OthersKeep DEF IInv
  <1>2. /\ Holds(p) <=> pc[p] \in HoldLabels
        /\ Holds(p)' <=> l \in HoldLabels
    BY DEF Holds, HoldLabels, IInv, TypeInv, TypeOK, GoroutinesOK
  <1>3. Handover'
    BY HandoverKept DEF IInv
  <1>4. CASE gil' = gil /\ (pc[p] \in HoldLabels <=> l \in HoldLabels)
    <2>1. \A q \in Procs : Holds(q)' <=> Holds(q)
      BY <1>1, <1>2, <1>4
    <2> QED
      BY <1>3, <1>4, <2>1, SameHolders DEF IInv
  <1>5. CASE gil' = FALSE /\ pc[p] \in HoldLabels /\ l \notin HoldLabels
    BY <1>1, <1>2, <1>3, <1>5, HolderUnlocks DEF IInv
  <1>6. CASE ~ gil /\ gil' = TRUE /\ l \in HoldLabels
    BY <1>1, <1>2, <1>3, <1>6, TakerLocks DEF IInv
  <1> QED
    BY <1>4, <1>5, <1>6

\* No goroutine moves.
LEMMA NobodyMoves ==
    ASSUME IInv, UNCHANGED <<gil, pc, done>>
    PROVE  GILExclusion' /\ Handover'
  BY DEF IInv, GILExclusion, Handover, Holds

LEMMA LockNext == IInv /\ [Next]_vars => GILExclusion' /\ Handover'
  <1> SUFFICES ASSUME IInv, [Next]_vars PROVE GILExclusion' /\ Handover'
    OBVIOUS
  <1> USE DEF Goto, Release, CanRun, goroutines, pages, browser, channels, run, ghosts
  <1>0. /\ Main \in Procs /\ Script \in Procs /\ Lua \subseteq Procs
        /\ Callbacks \subseteq Lua /\ Main \notin Lua /\ Script \notin Callbacks
        /\ Main # Script /\ pc \in [Procs -> Labels]
    BY NamesAssumption DEF Procs, Lua, IInv, TypeInv, TypeOK, GoroutinesOK
  <1>00. /\ HoldLabels = {"lua", "opened", "register", "send", "finish", "close", "sweep"}
         /\ MainWaits = {"start", "parked", "stop", "join"}
    BY DEF HoldLabels, UnderGIL, AtEnd, MainHolds, MainWaits
  <1>1. ASSUME NEW g \in Lua, StartOp(g) PROVE GILExclusion' /\ Handover'
    BY <1>1, <1>0, <1>00, Moves DEF StartOp
  <1>2. ASSUME NEW g \in Lua, Yield(g) PROVE GILExclusion' /\ Handover'
    BY <1>2, <1>0, <1>00, Moves DEF Yield
  <1>3. ASSUME NEW g \in Lua, NewTab(g) PROVE GILExclusion' /\ Handover'
    BY <1>3, <1>0, <1>00, Moves DEF NewTab
  <1>4. ASSUME NEW g \in Lua, CloseTab(g) PROVE GILExclusion' /\ Handover'
    BY <1>4, <1>0, <1>00, Moves DEF CloseTab
  <1>5. ASSUME NEW g \in Lua, Navigate(g) PROVE GILExclusion' /\ Handover'
    BY <1>5, <1>0, <1>00, Moves DEF Navigate
  <1>6. ASSUME NEW g \in Lua, Register(g) PROVE GILExclusion' /\ Handover'
    BY <1>6, <1>0, <1>00, Moves DEF Register
  <1>7. ASSUME NEW g \in Lua, OpSucceeds(g) PROVE GILExclusion' /\ Handover'
    BY <1>7, <1>0, <1>00, Moves DEF OpSucceeds
  <1>8. ASSUME NEW g \in Lua, OpFails(g) PROVE GILExclusion' /\ Handover'
    BY <1>8, <1>0, <1>00, Moves DEF OpFails
  <1>9. ASSUME NEW g \in Lua, NEW t \in Tabs, NEW k \in Kinds, Hook(g, t, k)
        PROVE  GILExclusion' /\ Handover'
    <2>1. CASE k = "network"
      BY <1>9, <2>1, <1>0, <1>00, Moves DEF Hook
    <2>2. CASE k # "network"
      BY <1>9, <2>2, NobodyMoves DEF Hook
    <2> QED
      BY <2>1, <2>2
  <1>10. ASSUME NEW c \in Callbacks, CallbackEnds(c) PROVE GILExclusion' /\ Handover'
    BY <1>10, <1>0, <1>00, Moves DEF CallbackEnds
  <1>11. ASSUME NEW c \in Callbacks, Enter(c) PROVE GILExclusion' /\ Handover'
    BY <1>11, <1>0, <1>00, Moves DEF Enter
  <1>12. ASSUME NEW c \in Callbacks, Answer(c) PROVE GILExclusion' /\ Handover'
    BY <1>12, <1>0, <1>00, Moves DEF Answer
  <1>13. ASSUME NEW p \in Procs, Relock(p) PROVE GILExclusion' /\ Handover'
    <2>1. ret[p] \in {"lua", "opened", "register", "sweep"}
      BY DEF IInv, TypeInv, TypeOK, GoroutinesOK
    <2> QED
      BY <1>13, <1>0, <1>00, <2>1, Moves DEF Relock
  <1>14. ASSUME NEW p \in Procs, WaitGroupWait(p) PROVE GILExclusion' /\ Handover'
    BY <1>14, <1>0, <1>00, Moves DEF WaitGroupWait
  <1>15. ASSUME NEW p \in Procs, WaitGroupReturns(p) PROVE GILExclusion' /\ Handover'
    BY <1>15, <1>0, <1>00, Moves DEF WaitGroupReturns
  <1>16. ASSUME NEW p \in Procs, FilterTabs(p) PROVE GILExclusion' /\ Handover'
    BY <1>16, <1>0, <1>00, Moves DEF FilterTabs
  <1>17. ASSUME NEW p \in Procs, WriteTabs(p) PROVE GILExclusion' /\ Handover'
    BY <1>17, <1>0, <1>00, Moves DEF WriteTabs
  <1>18. ASSUME NEW p \in Procs, CancelTab(p) PROVE GILExclusion' /\ Handover'
    BY <1>18, <1>0, <1>00, Moves DEF CancelTab
  <1>19. ASSUME NEW c \in Callbacks, Leave(c) PROVE GILExclusion' /\ Handover'
    <2>1. \A q \in Procs : \/ pc'[q] = pc[q]
                           \/ q = c /\ pc[q] = "leave" /\ pc'[q] = "ended"
                           \/ pc[q] = "blocked" /\ pc'[q] = "woken"
      BY <1>19 DEF Leave
    <2>2. /\ pc'[Main] \in MainWaits <=> pc[Main] \in MainWaits
          /\ pc'[Script] = "ended" <=> pc[Script] = "ended"
      BY <1>0, <1>00, <2>1
    <2>3. \A q \in Procs : Holds(q)' <=> Holds(q)
      BY <1>0, <1>00, <2>1, <2>2 DEF Holds, HoldLabels
    <2>4. gil' = gil /\ done' = done
      BY <1>19 DEF Leave
    <2> QED
      BY <2>2, <2>3, <2>4, SameHolders DEF IInv, Handover
  <1>20. CASE ScriptEnds
    <2>1. pc[Script] = "lua" /\ pc[Main] \in MainWaits /\ gil' = gil /\ done' = done
      BY <1>20 DEF ScriptEnds, IInv, Handover
    <2>2. CASE pc' = [pc EXCEPT ![Script] = "ended", ![Main] = "close"]
      <3>1. /\ pc'[Script] = "ended" /\ pc'[Main] = "close"
            /\ \A q \in Procs \ {Script, Main} : pc'[q] = pc[q]
        BY <1>0, <2>2
      <3>2. Holds(Script) /\ ~ Holds(Script)' /\ Holds(Main)'
        BY <1>0, <1>00, <2>1, <3>1 DEF Holds, HoldLabels
      <3>3. \A q \in Procs \ {Script, Main} : Holds(q)' <=> Holds(q)
        BY <3>1 DEF Holds
      <3> QED
        BY <1>0, <2>1, <3>1, <3>2, <3>3, HolderChanges DEF IInv, Handover
    <2>3. CASE \E l \in {"finish", "send"} : pc' = [pc EXCEPT ![Script] = l]
      BY <1>0, <1>00, <2>1, <2>3, Moves
    <2> QED
      BY <1>20, <2>2, <2>3 DEF ScriptEnds
  <1>21. ASSUME NEW g \in Lua, Send(g) PROVE GILExclusion' /\ Handover'
    <2>1. /\ pc[g] = "send" /\ pc'[g] = AfterSend(g) /\ gil' = (g = Script) /\ done' = done
          /\ \A q \in Procs \ {g} :
                 pc'[q] = pc[q] \/ (q = Main /\ pc[q] = "parked" /\ pc'[q] = "stop")
      BY <1>21, <1>0 DEF Send
    <2>2. /\ pc'[Main] \in MainWaits <=> pc[Main] \in MainWaits
          /\ AfterSend(g) \in {"finish", "answer", "leave"}
          /\ AfterSend(g) = "finish" <=> g = Script
      BY <1>0, <1>00, <2>1 DEF AfterSend
    <2>3. \A q \in Procs \ {g} : Holds(q)' <=> Holds(q)
      BY <1>0, <1>00, <2>1, <2>2 DEF Holds, HoldLabels
    <2>4. Holds(g) /\ (Holds(g)' <=> g = Script)
      BY <1>0, <1>00, <2>1, <2>2 DEF Holds, HoldLabels
    <2>5. Handover'
      BY <1>0, <1>00, <2>1, <2>2 DEF IInv, Handover
    <2>6. CASE g = Script
      <3>1. gil' = gil
        BY <1>0, <2>1, <2>4, <2>6 DEF IInv, GILExclusion
      <3>2. \A q \in Procs : Holds(q)' <=> Holds(q)
        BY <2>3, <2>4, <2>6
      <3> QED
        BY <2>5, <3>1, <3>2, SameHolders DEF IInv
    <2>7. CASE g # Script
      BY <1>0, <2>1, <2>3, <2>4, <2>5, <2>7, HolderUnlocks DEF IInv
    <2> QED
      BY <2>6, <2>7
  <1>22. ASSUME NEW g \in Lua, SendPanics(g) PROVE GILExclusion' /\ Handover'
    BY <1>22, NobodyMoves DEF SendPanics
  <1>23. CASE Finish
    <2>1. pc[Script] = "finish" /\ pc[Main] \in MainWaits /\ gil' = gil
      BY <1>23 DEF Finish, IInv, Handover
    <2>2. /\ pc'[Script] = "ended"
          /\ pc'[Main] = IF pc[Main] = "parked" THEN "close" ELSE pc[Main]
          /\ \A q \in Procs \ {Script, Main} : pc'[q] = pc[q]
      BY <1>23, <1>0 DEF Finish
    <2>3. \A q \in Procs \ {Script, Main} : Holds(q)' <=> Holds(q)
      BY <2>2 DEF Holds
    <2>4. Handover'
      BY <2>2 DEF Handover
    <2>5. CASE pc[Main] = "parked"
      <3>1. Holds(Script) /\ ~ Holds(Script)' /\ Holds(Main)'
        BY <1>0, <1>00, <2>1, <2>2, <2>5 DEF Holds, HoldLabels
      <3> QED
        BY <1>0, <2>1, <2>3, <2>4, <3>1, HolderChanges DEF IInv
    <2>6. CASE pc[Main] # "parked"
      <3>1. (Holds(Script)' <=> Holds(Script)) /\ (Holds(Main)' <=> Holds(Main))
        BY <1>0, <1>00, <2>1, <2>2, <2>6 DEF Holds, HoldLabels
      <3>2. \A q \in Procs : Holds(q)' <=> Holds(q)
        BY <2>3, <3>1
      <3> QED
        BY <2>1, <2>4, <3>2, SameHolders DEF IInv
    <2> QED
      BY <2>5, <2>6
  <1>24. CASE SelectErr
    BY <1>24, <1>0, <1>00, Moves DEF SelectErr
  <1>25. CASE Park
    BY <1>25, <1>0, <1>00, Moves DEF Park
  <1>26. CASE StopEnv
    BY <1>26, <1>0, <1>00, Moves DEF StopEnv
  <1>27. CASE CloseEnv
    BY <1>27, <1>0, <1>00, Moves DEF CloseEnv
  <1>28. CASE Sweep
    BY <1>28, <1>0, <1>00, Moves DEF Sweep
  <1>29. CASE Shutdown
    BY <1>29, <1>0, <1>00, Moves DEF Shutdown
  <1>30. CASE Report
    BY <1>30, <1>0, <1>00, Moves DEF Report
  <1>31. CASE SelectDone \/ Join
    <2>1. /\ pc[Main] \in MainWaits /\ pc[Script] = "ended"
          /\ gil' = gil /\ done' = done /\ pc' = [pc EXCEPT ![Main] = "close"]
      BY <1>31, <1>00 DEF SelectDone, Join, IInv, Handover
    <2>2. pc'[Main] = "close" /\ \A q \in Procs \ {Main} : pc'[q] = pc[q]
      BY <1>0, <2>1
    <2>3. Holds(Script) /\ ~ Holds(Script)' /\ Holds(Main)'
      BY <1>0, <1>00, <2>1, <2>2 DEF Holds, HoldLabels
    <2>4. \A q \in Procs \ {Script, Main} : Holds(q)' <=> Holds(q)
      BY <2>2 DEF Holds
    <2>5. Handover'
      BY <1>0, <2>1, <2>2 DEF Handover
    <2> QED
      BY <1>0, <2>1, <2>3, <2>4, <2>5, HolderChanges DEF IInv
  <1>32. ASSUME NEW t \in Tabs, Listen(t) \/ Build(t) \/ \E k \in Kinds : Emit(t, k)
        PROVE  GILExclusion' /\ Handover'
    BY <1>32, NobodyMoves DEF Listen, Build, Emit
  <1>33. ASSUME NEW t \in Tabs, Dispatch(t) PROVE GILExclusion' /\ Handover'
    <2>1. UNCHANGED <<gil, done>>
      BY <1>33 DEF Dispatch
    <2>2. CASE UNCHANGED pc
      BY <2>1, <2>2, NobodyMoves
    <2>3. CASE \E c \in Callbacks : \E l \in {"lock", "answer"} :
                   pc[c] = "idle" /\ pc' = [pc EXCEPT ![c] = l]
      BY <1>0, <1>00, <2>1, <2>3, Moves
    <2> QED
      BY <1>33, <2>2, <2>3 DEF Dispatch
  <1>34. CASE RunCtxEnds \/ UNCHANGED vars
    BY <1>34, NobodyMoves DEF RunCtxEnds, vars
  <1> QED
    BY <1>1, <1>2, <1>3, <1>4, <1>5, <1>6, <1>7, <1>8, <1>9, <1>10, <1>11, <1>12,
       <1>13, <1>14, <1>15, <1>16, <1>17, <1>18, <1>19, <1>20, <1>21, <1>22, <1>23,
       <1>24, <1>25, <1>26, <1>27, <1>28, <1>29, <1>30, <1>31, <1>32, <1>33, <1>34
       DEF Next, LuaStep, CloseStep, SendStep, MainStep, Terminated

(* At most one goroutine of a run is in Lua, and the lock is locked exactly *)
(* when one is (environment.go:18): for any number of tabs, callbacks and   *)
(* operations, in both modes, whatever the scenario does, and also when the *)
(* script hands the lock over to Main without unlocking it.                 *)
THEOREM LockWorks == Spec => []GILExclusion
  <1>1. Init => IInv
    BY TypeInit, LockInit DEF IInv
  <1>2. IInv /\ [Next]_vars => IInv'
    BY TypeNext, LockNext DEF IInv
  <1>3. IInv => GILExclusion
    BY DEF IInv
  <1> QED
    BY <1>1, <1>2, <1>3, PTL DEF Spec
=============================================================================
