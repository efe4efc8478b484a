----------------------------- MODULE Environment -----------------------------
(***************************************************************************)
(* One run of a scenario (src/internal/run.go, environment.go and the part *)
(* of tab.go that takes or releases the lock of the Environment):          *)
(*                                                                         *)
(*   - Main, the goroutine of Run: it starts the script, waits for it or   *)
(*     for a value on errch, closes the environment and reports;           *)
(*   - Script, the goroutine of DoFile that runs the Lua file (DoStream    *)
(*     runs it on Main, which waits for it in the same way);               *)
(*   - Callbacks, the goroutines HandleDialog and HandleEvent start;       *)
(*   - one listener per tab, the function given to chromedp.ListenTarget.  *)
(*                                                                         *)
(* The lock of the Environment "works like the GIL in Python": Lua code    *)
(* runs under it, AsyncRun releases it around every call that blocks.  It  *)
(* is an ordinary mutex and has no owner: gil says only that it is locked. *)
(*                                                                         *)
(* Lua code is any sequence of operations: which one comes next, and       *)
(* whether the script catches an error with pcall, is left open.           *)
(* Recording is off here.  The browser is external: pages open dialogs and *)
(* emit network events whenever they are loaded.                           *)
(***************************************************************************)
EXTENDS Integers, Sequences, FiniteSets

CONSTANTS
    Main, Script, Callbacks,
    Tabs, NoTab,    \* NoTab: an operation that is about no tab
    Mode,           \* "file" (DoFile) or "stdin" (DoStream)
    Kinds,          \* the kinds of event a page emits, among AllKinds
    Hookable,       \* the kinds for which the scenario may set a callback
    SelfClose,      \* may a callback close the tab whose event it handles?
    MaxOps,         \* bound: operations of each goroutine that release the GIL
    MaxEvents       \* bound: events of each kind

AllKinds == {"dialog", "download", "network"}

ASSUME NamesAssumption ==
    /\ Main # Script
    /\ Main \notin Callbacks
    /\ Script \notin Callbacks
    /\ NoTab \notin Tabs
ASSUME ScopeAssumption ==
    /\ Mode \in {"file", "stdin"}
    /\ Kinds \subseteq AllKinds
    /\ Hookable \subseteq Kinds
    /\ SelfClose \in BOOLEAN
ASSUME BoundsAssumption ==
    /\ MaxOps \in [{Script} \union Callbacks -> Nat]
    /\ MaxEvents \in [Kinds -> Nat]

VARIABLES
    gil,            \* is the lock of the Environment locked
    pc,             \* where each goroutine is
    ret,            \* where it goes on when it has the GIL again
    target,         \* the tab its current operation is about
    copy,           \* the slice unregisterTab has built
    ops,            \* operations so far, for the bound
    home, cause,    \* the tab and the kind of event a callback was started for
    life,           \* how far each tab has come
    tabs,           \* env.tabs
    wg,             \* t.wg, the callbacks of each tab
    hooks,          \* the kinds of event with a callback function set
    dialog,         \* the dialog box a page shows
    events,         \* events emitted so far, for the bound
    pending,        \* the events chromedp has queued for each listener
    listener,       \* where each listener is
    errch,          \* the buffered values of env.errch, at most one
    errchClosed,
    outcome,        \* what each goroutine has to send: the result of PCall
    done,           \* has DoFile's channel done been closed
    stopped,        \* has env.stop been called
    runctx,         \* the context of Run
    todo,           \* the tabs env.Close has not closed yet
    err,            \* what DoFile or DoStream returned
    ended,          \* how the Lua code of the script ended
    status,         \* the status of the record
    crashed,        \* a goroutine panicked outside of Lua: the process is gone
    late,           \* has a callback been started for a tab being closed
    orphaned        \* the tabs still open when errch is closed

goroutines == <<pc, ret, target, copy, ops, home, cause, outcome>>
pages      == <<life, tabs, wg, hooks>>
browser    == <<dialog, events, pending, listener>>
channels   == <<errch, errchClosed, done>>
run        == <<stopped, runctx, todo, err, ended, status>>
ghosts     == <<late, orphaned>>
vars == <<gil, goroutines, pages, browser, channels, run, crashed, ghosts>>

Lua   == {Script} \union Callbacks
Procs == Lua \union {Main}

-----------------------------------------------------------------------------
(* The labels of a goroutine, by what they hold.                            *)

\* In Lua, or in Go code called from Lua, under the GIL.
UnderGIL == {"lua", "opened", "register", "send"}
\* In the body of an AsyncRun, without the GIL: Tab.Close has several steps.
PastWait  == {"filter", "write", "cancel"}
InAsync   == {"op", "wait", "blocked", "woken"} \union PastWait
NoLock    == {"idle", "lock", "relock", "answer", "leave", "ended"}
AtEnd     == {"finish"}
MainWaits == {"start", "parked", "stop", "join"}
MainHolds == {"close", "sweep"}
MainOnly  == MainWaits \union MainHolds \union {"report", "exit"}
Labels    == UnderGIL \union InAsync \union NoLock \union AtEnd \union MainOnly

\* The GIL passes from the script to Main when the script has ended.
Holds(p) ==
    \/ pc[p] \in UnderGIL \union AtEnd \union MainHolds
    \/ p = Script /\ pc[Script] = "ended" /\ pc[Main] \in MainWaits

Started == {c \in Callbacks : pc[c] \notin {"idle", "ended"}}

GoroutinesOK ==
    /\ pc \in [Procs -> Labels]
    /\ ret \in [Procs -> {"lua", "opened", "register", "sweep"}]
    /\ target \in [Procs -> Tabs \union {NoTab}]
    /\ copy \in [Procs -> SUBSET Tabs]
    /\ ops \in [Lua -> Nat]
    /\ home \in [Callbacks -> Tabs \union {NoTab}]
    /\ cause \in [Callbacks -> Kinds \union {"none"}]
    /\ outcome \in [Lua -> {"nil", "error"}]

PagesOK ==
    /\ life \in [Tabs -> {"none", "opening", "blank", "live", "closed"}]
    /\ tabs \in SUBSET Tabs
    /\ wg \in [Tabs -> Int]
    /\ hooks \in [Tabs -> SUBSET Kinds]

BrowserOK ==
    /\ dialog \in [Tabs -> {"none", "shown", "unheard"}]
    /\ events \in [Kinds -> Nat]
    /\ pending \in [Tabs -> Seq(Kinds)]
    /\ listener \in [Tabs -> {"idle", "build", "invoke"}]
    /\ \A t \in Tabs : listener[t] # "idle" => pending[t] # <<>>

ChannelsOK ==
    /\ errch \in Seq({"nil", "error"}) /\ Len(errch) <= 1
    /\ errchClosed \in BOOLEAN /\ done \in BOOLEAN

RunOK ==
    /\ stopped \in BOOLEAN
    /\ runctx \in {"live", "deadline", "canceled"}
    /\ todo \in SUBSET Tabs
    /\ err \in {"nil", "error"}
    /\ ended \in {"no", "completed", "error", "interrupted"}
    /\ status \in {"none", "healthy", "failure", "unknown", "aborted"}

TypeOK ==
    /\ gil \in BOOLEAN /\ crashed \in BOOLEAN
    /\ GoroutinesOK /\ PagesOK /\ BrowserOK /\ ChannelsOK /\ RunOK
    /\ late \in BOOLEAN /\ orphaned \in SUBSET Tabs

Init ==
    /\ gil = TRUE                                   \* NewEnvironment locks it
    /\ pc = [p \in Procs |-> CASE p = Main   -> "start"
                               [] p = Script -> "lua"
                               [] OTHER      -> "idle"]
    /\ ret = [p \in Procs |-> "lua"]
    /\ target = [p \in Procs |-> NoTab]
    /\ copy = [p \in Procs |-> {}]
    /\ ops = [g \in Lua |-> 0]
    /\ home = [c \in Callbacks |-> NoTab]
    /\ cause = [c \in Callbacks |-> "none"]
    /\ outcome = [g \in Lua |-> "nil"]
    /\ life = [t \in Tabs |-> "none"]
    /\ tabs = {}
    /\ wg = [t \in Tabs |-> 0]
    /\ hooks = [t \in Tabs |-> {}]
    /\ dialog = [t \in Tabs |-> "none"]
    /\ events = [k \in Kinds |-> 0]
    /\ pending = [t \in Tabs |-> <<>>]
    /\ listener = [t \in Tabs |-> "idle"]
    /\ errch = <<>> /\ errchClosed = FALSE /\ done = FALSE
    /\ stopped = FALSE /\ runctx = "live"
    /\ todo = {} /\ err = "nil" /\ ended = "no" /\ status = "none"
    /\ crashed = FALSE /\ late = FALSE /\ orphaned = {}

\* The context the Lua state and every operation run under; after env.stop the
\* Lua state gets a child of it, which is done as well.
EnvDoneWhenStopped == stopped            \* mutant: not derived from Run's context
EnvDone == stopped \/ runctx # "live"
TabDone(t) == EnvDone \/ life[t] = "closed"

\* The process is there until Run has returned, or a panic.
Running == ~ crashed /\ pc[Main] # "exit"

Goto(p, l) == pc' = [pc EXCEPT ![p] = l]

-----------------------------------------------------------------------------
(* AsyncRun.  Its body runs without the GIL; an error it returns is raised  *)
(* before the deferred Lock, so the goroutine is back in Lua either way.    *)

\* Mutant of Release: no Unlock before the body.
ReleaseKeepingLock(p, l, t, r) ==
    /\ UNCHANGED gil
    /\ Goto(p, l)
    /\ ret' = [ret EXCEPT ![p] = r]
    /\ target' = [target EXCEPT ![p] = t]

\* Unlock, and go on at label l, about tab t; the GIL is needed again for r.
Release(p, l, t, r) ==
    /\ gil' = FALSE
    /\ Goto(p, l)
    /\ ret' = [ret EXCEPT ![p] = r]
    /\ target' = [target EXCEPT ![p] = t]

Relock(p) ==
    /\ Running
    /\ pc[p] = "relock"
    /\ ~ gil
    /\ gil' = TRUE
    /\ Goto(p, ret[p])
    /\ UNCHANGED <<ret, target, copy, ops, home, cause, outcome, pages, browser,
                   channels, run, crashed, ghosts>>

\* The Lua state checks its context before each instruction.
CanRun(g) == Running /\ pc[g] = "lua" /\ ~ EnvDone
Spend(g) == ops[g] < MaxOps[g] /\ ops' = [ops EXCEPT ![g] = @ + 1]

\* A browser action or a wait about tab t (t:go, t:wait, t:waitDialog, an
\* element), or about none (time.sleep, fetch).
StartOp(g) ==
    /\ CanRun(g)
    /\ Spend(g)
    /\ \E t \in {x \in Tabs : life[x] \in {"live", "closed"}} \union {NoTab} :
           Release(g, "op", t, "lua")
    /\ UNCHANGED <<copy, home, cause, outcome, pages, browser, channels, run, crashed,
                   ghosts>>

\* Yield unlocks and locks with nothing between.
Yield(g) ==
    /\ CanRun(g)
    /\ Spend(g)
    /\ Release(g, "relock", NoTab, "lua")
    /\ UNCHANGED <<copy, home, cause, outcome, pages, browser, channels, run, crashed,
                   ghosts>>

\* The browser does nothing for a page that shows a dialog.
OpSucceeds(g) ==
    /\ Running
    /\ pc[g] = "op"
    /\ target[g] # NoTab => dialog[target[g]] = "none" /\ life[target[g]] # "closed"
    /\ life' = IF ret[g] = "opened" THEN [life EXCEPT ![target[g]] = "blank"] ELSE life
    /\ Goto(g, "relock")
    /\ UNCHANGED <<gil, ret, target, copy, ops, home, cause, outcome, tabs, wg, hooks,
                   browser, channels, run, crashed, ghosts>>

\* A failed tab.new raises before the tab is registered.
OpFails(g) ==
    /\ Running
    /\ pc[g] = "op"
    /\ ret' = [ret EXCEPT ![g] = "lua"]
    /\ Goto(g, "relock")
    /\ UNCHANGED <<gil, target, copy, ops, home, cause, outcome, pages, browser,
                   channels, run, crashed, ghosts>>

\* What is sure to happen: every operation gives up when its context is done.
OpInterrupted(g) ==
    /\ pc[g] = "op"
    /\ EnvDone \/ (target[g] # NoTab /\ life[target[g]] = "closed")
    /\ OpFails(g)

-----------------------------------------------------------------------------
(* tab.new(): a browser is started without the GIL, then the page of the    *)
(* url, if one is given, is loaded without the GIL, and only then is the    *)
(* tab registered and its listener added, in one piece under the GIL.       *)

NewTab(g) ==
    /\ CanRun(g)
    /\ Spend(g)
    /\ \E t \in Tabs :
           /\ life[t] = "none"
           /\ life' = [life EXCEPT ![t] = "opening"]
           /\ Release(g, "op", t, "opened")
    /\ UNCHANGED <<copy, home, cause, outcome, tabs, wg, hooks, browser, channels, run,
                   crashed, ghosts>>

Navigate(g) ==
    /\ Running
    /\ pc[g] = "opened"
    /\ Release(g, "op", target[g], "register")
    /\ UNCHANGED <<copy, ops, home, cause, outcome, pages, browser, channels, run,
                   crashed, ghosts>>

Register(g) ==
    /\ Running
    /\ pc[g] \in {"opened", "register"}
    /\ tabs' = tabs \union {target[g]}
    /\ life' = [life EXCEPT ![target[g]] = "live"]
    /\ Goto(g, "lua")
    /\ UNCHANGED <<gil, ret, target, copy, ops, home, cause, outcome, wg, hooks, browser,
                   channels, run, crashed, ghosts>>

\* t:onDialog and t:onDownload set or unset the function; t:onRequest and
\* t:onResponse also switch the network events of the browser on or off.
Hook(g, t, k) ==
    /\ CanRun(g)
    /\ life[t] \in {"live", "closed"}
    /\ k \in Hookable
    /\ \E b \in BOOLEAN :
           hooks' = [hooks EXCEPT ![t] = IF b THEN @ \union {k} ELSE @ \ {k}]
    /\ Spend(g)
    /\ IF k = "network" THEN Release(g, "op", t, "lua")
                        ELSE UNCHANGED <<gil, pc, ret, target>>
    /\ UNCHANGED <<copy, home, cause, outcome, life, tabs, wg, browser, channels, run,
                   crashed, ghosts>>

-----------------------------------------------------------------------------
(* Tab.Close, from t:close() or from env.Close.  All of it runs without the *)
(* GIL, unregisterTab too: it reads env.tabs, builds a copy, assigns it.    *)

CloseTab(g) ==
    /\ CanRun(g)
    /\ Spend(g)
    /\ \E t \in Tabs :
           /\ life[t] \in {"live", "closed"}
           /\ g \in Callbacks /\ t = home[g] => SelfClose
           /\ Release(g, "wait", t, "lua")
    /\ UNCHANGED <<copy, home, cause, outcome, pages, browser, channels, run, crashed,
                   ghosts>>

\* Mutants of NoCallbacks: Close does not wait; or it leaves out one callback,
\* as if the caller always were one.
CallbacksIgnored(t) == TRUE
AtMostOneCallback(t) == wg[t] <= 1
NoCallbacks(t) == wg[t] = 0

WaitGroupWait(p) ==
    /\ Running
    /\ pc[p] = "wait"
    /\ Goto(p, IF NoCallbacks(target[p]) THEN "filter" ELSE "blocked")
    /\ UNCHANGED <<gil, ret, target, copy, ops, home, cause, outcome, pages, browser,
                   channels, run, crashed, ghosts>>

\* A released waiter that finds the counter in use again panics.
WaitGroupReturns(p) ==
    /\ Running
    /\ pc[p] = "woken"
    /\ IF NoCallbacks(target[p])
         THEN Goto(p, "filter") /\ UNCHANGED <<ret, crashed>>
         ELSE /\ Goto(p, "relock")
              /\ ret' = [ret EXCEPT ![p] = "lua"]
              /\ crashed' = (p = Main)
    /\ UNCHANGED <<gil, target, copy, ops, home, cause, outcome, pages, browser,
                   channels, run, ghosts>>

FilterTabs(p) ==
    /\ Running
    /\ pc[p] = "filter"
    /\ copy' = [copy EXCEPT ![p] = tabs \ {target[p]}]
    /\ Goto(p, "write")
    /\ UNCHANGED <<gil, ret, target, ops, home, cause, outcome, pages, browser, channels,
                   run, crashed, ghosts>>

WriteTabs(p) ==
    /\ Running
    /\ pc[p] = "write"
    /\ tabs' = copy[p]
    /\ Goto(p, "cancel")
    /\ UNCHANGED <<gil, ret, target, copy, ops, home, cause, outcome, life, wg, hooks,
                   browser, channels, run, crashed, ghosts>>

CancelTab(p) ==
    /\ Running
    /\ pc[p] = "cancel"
    /\ life' = [life EXCEPT ![target[p]] = "closed"]
    /\ dialog' = [dialog EXCEPT ![target[p]] = "none"]
    /\ Goto(p, "relock")
    /\ UNCHANGED <<gil, ret, target, copy, ops, home, cause, outcome, tabs, wg, hooks,
                   events, pending, listener, channels, run, crashed, ghosts>>

-----------------------------------------------------------------------------
(* Pages and listeners.                                                     *)

\* A page emits an event; an event nobody listens to is gone, but a dialog box
\* stays on the screen.
Emit(t, k) ==
    /\ Running
    /\ life[t] = "live" \/ (life[t] = "blank" /\ k = "dialog")
    /\ ~ EnvDone
    /\ dialog[t] = "none"
    /\ events[k] < MaxEvents[k]
    /\ events' = [events EXCEPT ![k] = @ + 1]
    /\ pending' = IF life[t] = "live" THEN [pending EXCEPT ![t] = Append(@, k)]
                                      ELSE pending
    /\ dialog' = IF k # "dialog" THEN dialog
                 ELSE [dialog EXCEPT ![t] = IF life[t] = "live" THEN "shown" ELSE "unheard"]
    /\ UNCHANGED <<gil, goroutines, pages, listener, channels, run, crashed, ghosts>>

\* chromedp calls the listener unless the context of the tab is done.
Listen(t) ==
    /\ Running
    /\ listener[t] = "idle"
    /\ pending[t] # <<>>
    /\ ~ TabDone(t)
    /\ listener' = [listener EXCEPT ![t] = "build"]
    /\ UNCHANGED <<gil, goroutines, pages, dialog, events, pending, channels, run,
                   crashed, ghosts>>

\* BuildTable locks, makes a table and unlocks.
Build(t) ==
    /\ Running
    /\ listener[t] = "build"
    /\ ~ gil
    /\ listener' = [listener EXCEPT ![t] = "invoke"]
    /\ UNCHANGED <<gil, goroutines, pages, dialog, events, pending, channels, run,
                   crashed, ghosts>>

BeingClosed(t) ==
    \/ life[t] = "closed"
    \/ \E p \in Procs : target[p] = t /\ pc[p] \in PastWait \union {"woken"}

\* HandleEvent starts a goroutine if a function is set, HandleDialog always, to
\* press the OK button when there is no function.  (The mutant treats all alike.)
HandlesIfSet(t, k) == k \in hooks[t]
Handles(t, k) == k \in hooks[t] \/ k = "dialog"

\* t.wg.Add(1), before the goroutine starts.  (The mutant keeps a flag only.)
FlagCallback(t) == [wg EXCEPT ![t] = 1]
AddCallback(t) == [wg EXCEPT ![t] = @ + 1]

\* EventHandler.Invoke of the handler for this kind of event.
Dispatch(t) ==
    /\ Running
    /\ listener[t] = "invoke"
    /\ listener' = [listener EXCEPT ![t] = "idle"]
    /\ pending' = [pending EXCEPT ![t] = Tail(@)]
    /\ LET k == Head(pending[t])
       IN  IF Handles(t, k)
           THEN \E c \in Callbacks :
                    /\ pc[c] = "idle"
                    /\ Goto(c, IF k \in hooks[t] THEN "lock" ELSE "answer")
                    /\ home' = [home EXCEPT ![c] = t]
                    /\ cause' = [cause EXCEPT ![c] = k]
                    /\ wg' = AddCallback(t)
                    /\ late' = (late \/ BeingClosed(t))
           ELSE UNCHANGED <<pc, home, cause, wg, late>>
    /\ UNCHANGED <<gil, ret, target, copy, ops, outcome, life, tabs, hooks, dialog,
                   events, channels, run, crashed, orphaned>>

-----------------------------------------------------------------------------
(* The end of Lua code, and the channel errch (capacity 1).                 *)

\* CallEventHandler: env.Lock(), then the callback runs on a new Lua thread.
Enter(c) ==
    /\ Running
    /\ pc[c] = "lock"
    /\ ~ gil
    /\ gil' = TRUE
    /\ Goto(c, "lua")
    /\ UNCHANGED <<ret, target, copy, ops, home, cause, outcome, pages, browser,
                   channels, run, crashed, ghosts>>

CallbackEnds(c) ==
    /\ Running
    /\ pc[c] = "lua"
    /\ \E v \in {"nil", "error"} :
           /\ v = "nil" => ~ EnvDone
           /\ outcome' = [outcome EXCEPT ![c] = v]
    /\ Goto(c, "send")
    /\ UNCHANGED <<gil, ret, target, copy, ops, home, cause, pages, browser, channels,
                   run, crashed, ghosts>>

\* DoFile's goroutine sends an error and closes done; DoStream just returns.
ScriptEnds ==
    /\ Running
    /\ pc[Script] = "lua"
    /\ \E v \in {"nil", "error"} :
           /\ v = "nil" => ~ EnvDone
           /\ outcome' = [outcome EXCEPT ![Script] = v]
           /\ ended' = CASE v = "nil" -> "completed"
                         [] EnvDone   -> "interrupted"
                         [] OTHER     -> "error"
           /\ IF Mode = "stdin"
                THEN /\ pc' = [pc EXCEPT ![Script] = "ended", ![Main] = "close"]
                     /\ err' = v
                ELSE /\ Goto(Script, IF v = "nil" THEN "finish" ELSE "send")
                     /\ UNCHANGED err
    /\ UNCHANGED <<gil, ret, target, copy, ops, home, cause, pages, browser, channels,
                   stopped, runctx, todo, status, crashed, ghosts>>

\* After the send a callback unlocks; the script keeps the GIL.
AfterSend(g) == IF g = Script THEN "finish"
                ELSE IF cause[g] = "dialog" THEN "answer" ELSE "leave"

\* The capacity of errch.  (The mutant has one more.)
RoomForTwo == Len(errch) < 2
Room == errch = <<>>

\* env.errch <- outcome, with the GIL held.  A receiver that is parked gets the
\* value at once; otherwise it needs room in the buffer.
Send(g) ==
    /\ Running
    /\ pc[g] = "send"
    /\ IF pc[Main] = "parked"
         THEN /\ pc' = [pc EXCEPT ![g] = AfterSend(g), ![Main] = "stop"]
              /\ err' = outcome[g]
              /\ UNCHANGED errch
         ELSE /\ Room
              /\ errch' = Append(errch, outcome[g])
              /\ Goto(g, AfterSend(g))
              /\ UNCHANGED err
    /\ ~ errchClosed
    /\ gil' = (g = Script)
    /\ UNCHANGED <<ret, target, copy, ops, home, cause, outcome, pages, browser,
                   errchClosed, done, stopped, runctx, todo, ended, status, crashed,
                   ghosts>>

SendPanics(g) ==
    /\ Running
    /\ pc[g] = "send"
    /\ errchClosed
    /\ crashed' = TRUE
    /\ UNCHANGED <<gil, goroutines, pages, browser, channels, run, ghosts>>

Finish ==
    /\ Running
    /\ pc[Script] = "finish"
    /\ done' = TRUE
    /\ pc' = [pc EXCEPT ![Script] = "ended",
                        ![Main] = IF @ = "parked" THEN "close" ELSE @]
    /\ UNCHANGED <<gil, ret, target, copy, ops, home, cause, outcome, pages, browser,
                   errch, errchClosed, run, crashed, ghosts>>

\* RunInCallback(page.HandleJavaScriptDialog) of HandleDialog.
Answer(c) ==
    /\ Running
    /\ pc[c] = "answer"
    /\ dialog' = IF TabDone(home[c]) THEN dialog ELSE [dialog EXCEPT ![home[c]] = "none"]
    /\ Goto(c, "leave")
    /\ UNCHANGED <<gil, ret, target, copy, ops, home, cause, outcome, pages, events,
                   pending, listener, channels, run, crashed, ghosts>>

\* t.wg.Done(), which releases the waiters when the counter comes to zero.
Leave(c) ==
    /\ Running
    /\ pc[c] = "leave"
    /\ wg' = [wg EXCEPT ![home[c]] = @ - 1]
    /\ pc' = [p \in Procs |->
                 CASE p = c -> "ended"
                   [] p # c /\ pc[p] = "blocked" /\ target[p] = home[c]
                            /\ wg[home[c]] = 1 -> "woken"
                   [] OTHER -> pc[p]]
    /\ UNCHANGED <<gil, ret, target, copy, ops, home, cause, outcome, life, tabs, hooks,
                   browser, channels, run, crashed, ghosts>>

-----------------------------------------------------------------------------
(* Main: the select of DoFile, env.Close, and the end of Run.               *)

\* With both cases ready, select picks either.
SelectErr ==
    /\ Running
    /\ Mode = "file"
    /\ pc[Main] = "start"
    /\ errch # <<>>
    /\ err' = Head(errch)
    /\ errch' = Tail(errch)
    /\ Goto(Main, "stop")
    /\ UNCHANGED <<gil, ret, target, copy, ops, home, cause, outcome, pages, browser,
                   errchClosed, done, stopped, runctx, todo, ended, status, crashed,
                   ghosts>>

SelectDone ==
    /\ Running
    /\ Mode = "file"
    /\ pc[Main] = "start"
    /\ done
    /\ Goto(Main, "close")
    /\ UNCHANGED <<gil, ret, target, copy, ops, home, cause, outcome, pages, browser,
                   channels, run, crashed, ghosts>>

Park ==
    /\ Running
    /\ Mode = "file"
    /\ pc[Main] = "start"
    /\ errch = <<>>
    /\ ~ done
    /\ Goto(Main, "parked")
    /\ UNCHANGED <<gil, ret, target, copy, ops, home, cause, outcome, pages, browser,
                   channels, run, crashed, ghosts>>

StopEnv ==
    /\ Running
    /\ pc[Main] = "stop"
    /\ stopped' = TRUE
    /\ Goto(Main, "join")
    /\ UNCHANGED <<gil, ret, target, copy, ops, home, cause, outcome, pages, browser,
                   channels, runctx, todo, err, ended, status, crashed, ghosts>>

Join ==
    /\ Running
    /\ pc[Main] = "join"
    /\ done
    /\ Goto(Main, "close")
    /\ UNCHANGED <<gil, ret, target, copy, ops, home, cause, outcome, pages, browser,
                   channels, run, crashed, ghosts>>

\* env.Close: range reads env.tabs once.  The order of the tabs is left open.
CloseEnv ==
    /\ Running
    /\ pc[Main] = "close"
    /\ todo' = tabs
    /\ Goto(Main, "sweep")
    /\ UNCHANGED <<gil, ret, target, copy, ops, home, cause, outcome, pages, browser,
                   channels, stopped, runctx, err, ended, status, crashed, ghosts>>

Sweep ==
    /\ Running
    /\ pc[Main] = "sweep"
    /\ \E t \in todo :
           /\ todo' = todo \ {t}
           /\ Release(Main, "wait", t, "sweep")
    /\ UNCHANGED <<copy, ops, home, cause, outcome, pages, browser, channels, stopped,
                   runctx, err, ended, status, crashed, ghosts>>

\* lua.Close, stop, close(errch) and the deferred Unlock, all under the GIL.
Shutdown ==
    /\ Running
    /\ pc[Main] = "sweep"
    /\ todo = {}
    /\ stopped' = TRUE
    /\ errchClosed' = TRUE
    /\ gil' = FALSE
    /\ orphaned' = {t \in Tabs : life[t] = "live"}
    /\ Goto(Main, "report")
    /\ UNCHANGED <<ret, target, copy, ops, home, cause, outcome, pages, browser, errch,
                   done, runctx, todo, err, ended, status, crashed, late>>

\* logger.HandleError with the context of Run, then AsRecord.  (The mutant finds
\* no fault with a run that was interrupted.)
VerdictOfUser ==
    IF err = "nil" \/ runctx = "canceled" THEN "healthy"
    ELSE IF runctx = "deadline" THEN "unknown" ELSE "failure"
Verdict ==
    IF err = "nil" THEN "healthy"
    ELSE CASE runctx = "deadline" -> "unknown"
           [] runctx = "canceled" -> "aborted"
           [] OTHER               -> "failure"

Report ==
    /\ Running
    /\ pc[Main] = "report"
    /\ status' = Verdict
    /\ Goto(Main, "exit")
    /\ UNCHANGED <<gil, ret, target, copy, ops, home, cause, outcome, pages, browser,
                   channels, stopped, runctx, todo, err, ended, crashed, ghosts>>

\* The time of Arg.Timeout is over, or an interrupt comes.
RunCtxEnds ==
    /\ Running
    /\ runctx = "live"
    /\ runctx' \in {"deadline", "canceled"}
    /\ UNCHANGED <<gil, goroutines, pages, browser, channels, stopped, todo, err, ended,
                   status, crashed, ghosts>>

-----------------------------------------------------------------------------

LuaStep(g) ==
    \/ StartOp(g) \/ Yield(g) \/ NewTab(g) \/ CloseTab(g)
    \/ \E t \in Tabs, k \in Kinds : Hook(g, t, k)
    \/ Navigate(g) \/ Register(g)
    \/ g \in Callbacks /\ CallbackEnds(g)
    \/ g = Script /\ ScriptEnds

CloseStep(p) == WaitGroupWait(p) \/ WaitGroupReturns(p) \/ FilterTabs(p) \/ WriteTabs(p)
                \/ CancelTab(p)

SendStep(g) == Send(g) \/ SendPanics(g)

MainStep == SelectErr \/ SelectDone \/ Park \/ StopEnv \/ Join \/ CloseEnv \/ Sweep
            \/ Shutdown \/ Report

\* The end of the process, not a step of it.
Terminated == ~ Running /\ UNCHANGED vars

Next ==
    \/ \E g \in Lua : LuaStep(g) \/ OpSucceeds(g) \/ OpFails(g) \/ SendStep(g)
    \/ \E p \in Procs : Relock(p) \/ CloseStep(p)
    \/ \E c \in Callbacks : Enter(c) \/ Answer(c) \/ Leave(c)
    \/ \E t \in Tabs : Listen(t) \/ Build(t) \/ Dispatch(t) \/ \E k \in Kinds : Emit(t, k)
    \/ Finish
    \/ MainStep
    \/ RunCtxEnds
    \/ Terminated

Spec == Init /\ [][Next]_vars

(***************************************************************************)
(* Every goroutine that can run runs, and Lua code comes to its end (an    *)
(* endless loop is cut by the context, which only a timeout ends).  A      *)
(* goroutine that waits for the mutex may find it locked again and again;  *)
(* Go's mutex serves a goroutine that has waited for a millisecond first,  *)
(* hence strong fairness there.  Operations of the browser are only sure   *)
(* to end when their context is done; timeouts, interrupts and events need *)
(* not come.                                                               *)
(***************************************************************************)
\* What a goroutine does without waiting for another one ...
FreeStep(p) ==
    \/ CloseStep(p)
    \/ p \in Lua /\ (LuaStep(p) \/ OpInterrupted(p))
    \/ p \in Callbacks /\ (Answer(p) \/ Leave(p))
    \/ p = Script /\ Finish
    \/ p = Main /\ MainStep

\* ... and where it needs the mutex or the receiver of errch.
BlockingStep(p) ==
    \/ Relock(p)
    \/ p \in Lua /\ SendStep(p)
    \/ p \in Callbacks /\ Enter(p)

Fairness ==
    /\ \A p \in Procs : /\ WF_vars(FreeStep(p))
                        /\ SF_vars(BlockingStep(p))
    /\ \A t \in Tabs : /\ WF_vars(Listen(t) \/ Dispatch(t))
                       /\ SF_vars(Build(t))

FairSpec == Spec /\ Fairness

-----------------------------------------------------------------------------
(* Properties.                                                              *)

(* At most one goroutine is in Lua, or in Go code that relies on the lock,  *)
(* and the lock is locked exactly when there is one; this includes the      *)
(* hand-over from the script, which ends with the lock held, to Main, which *)
(* closes the environment without locking it (environment.go:62-63, 89-95). *)
GILExclusion ==
    /\ \A p, q \in Procs : Holds(p) /\ Holds(q) => p = q
    /\ gil <=> \E p \in Procs : Holds(p)

(* The counter of a tab is the number of its callbacks that are not over,   *)
(* so that Tab.Close waits for all of them (tab.go:322, 456-459, 465-479).  *)
CountsCallbacks ==
    \A t \in Tabs : wg[t] = Cardinality({c \in Started : home[c] = t})

(* A tab whose Close has passed the wait group has no callback running,     *)
(* unless the listener was in flight and started one too late.              *)
ClosedTabIsQuiet ==
    ~ late => \A c \in Started : ~ BeingClosed(home[c])

(* A process that dies of a panic (a send on the closed errch, a reused     *)
(* wait group) had a callback started for a tab that was being closed, or a *)
(* tab that env.Close did not know of (environment.go:70, 135, tab.go:322). *)
CrashOnlyIfLate == crashed => late \/ orphaned # {}

(* While the script runs, the environment is stopped only because some Lua  *)
(* code failed: a callback that returns leaves the scenario running.        *)
StopsOnlyOnError == pc[Main] \in {"stop", "join"} => err = "error"

(* Run does not report as healthy a scenario whose own code raised an error. *)
ErrorIsReported == status = "healthy" => ended # "error"

(* A run whose time is over, or that is interrupted, ends (run_test.go:154).*)
RunEndsInTime == runctx # "live" ~> ~ Running

(* A dialog that opens while the tab is listened to, and for which no       *)
(* callback can be set, is answered (tab.go:464-468), whatever the Lua code *)
(* does with the GIL meanwhile, unless the tab or the run ends.             *)
DialogIsAnswered ==
    \A t \in Tabs :
        dialog[t] = "shown" ~> (dialog[t] # "shown" \/ TabDone(t) \/ ~ Running)
=============================================================================
