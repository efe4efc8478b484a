------------------------------ MODULE Recorder ------------------------------
(***************************************************************************)
(* The recordings of a run (src/internal/recorder.go, and its users in     *)
(* tab.go, environment.go and time.go).  An action of a recorded tab ends  *)
(* by sending a screenshot to the tab's recorder, a goroutine that turns   *)
(* them into frames; another goroutine closes the channel when the context *)
(* of the tab ends.  Closing a tab starts a goroutine that waits for the   *)
(* recorder and saves its frames to the storage, and the end of the run    *)
(* waits for all of these.                                                 *)
(*                                                                         *)
(* What is modelled happens while the GIL is released (module Environment  *)
(* models the GIL), so a callback's calls interleave with the script's.    *)
(***************************************************************************)
EXTENDS Storage

CONSTANTS NTabs,       \* tabs, numbered by their ids
          Capacity,    \* capacity of a recorder's channel (8 in the code)
          Budgets,     \* bound: calls of each kind, in one behaviour
          Script, Callback, Main,
          FileNames,   \* names that the scenario and the browser use
          RecordName   \* RecordName[t]: "record%d.gif"

Tabs == 1..NTabs
Callers == {Script, Callback}
Home == 1              \* the tab whose event handler is the callback

\* Goroutines of saveRecord: the second and third of a tab exist only when
\* several calls close it.
Savers == Tabs \X (1..3)

ASSUME RecorderAssumption ==
  /\ NTabs \in Nat \ {0} /\ Capacity \in Nat \ {0}
  /\ Budgets \subseteq [{"script", "callback", "file", "download", "fault"} -> Nat]
  /\ Script # Callback /\ Main \notin Callers
  /\ Users = Callers \cup Savers /\ Callers \cap Savers = {}
  /\ FileNames \subseteq Names /\ RecordName \in [Tabs -> Names \ FileNames]
  /\ \A s, t \in Tabs : RecordName[s] = RecordName[t] => s = t

VARIABLES ended,      \* the context of the run is done
          opened,     \* number of tabs made
          tabs,       \* Environment.tabs
          canceled,   \* the tabs whose context is canceled
          ch,         \* ch[t]: the channel of t's recorder, screenshots by number
          chclosed,   \* the tabs whose channel is closed
          images,     \* images[t]: Recorder.images, the screenshots they show
          done,       \* the tabs whose Recorder.Done is closed
          sent,       \* sent[t]: number of screenshots put into the channel
          broken,     \* broken[t]: those of them that cannot be decoded
          pc,         \* pc[u]: what a goroutine is doing
          budget,     \* calls left
          saver,      \* saver[s]: progress of a saving goroutine
          raced,      \* history: tabs that two calls closed at a time, or a late callback
          phase       \* of the main goroutine

recorderVars == <<ended, opened, tabs, canceled, ch, chclosed, images, done,
                  sent, broken, pc, budget, saver, raced, phase>>
vars == <<storageVars, recorderVars>>

Idle == [op |-> "idle", todo |-> <<>>, then |-> "idle"]

Init ==
  /\ StorageInit
  /\ ended = FALSE /\ opened = 0 /\ tabs = <<>> /\ canceled = {} /\ raced = {}
  /\ ch = [t \in Tabs |-> <<>>] /\ chclosed = {}
  /\ images = [t \in Tabs |-> <<>>] /\ done = {}
  /\ sent = [t \in Tabs |-> 0] /\ broken = [t \in Tabs |-> {}]
  /\ pc = [u \in Callers \cup {Main} |-> Idle]
  /\ budget \in Budgets
  /\ saver = [s \in Savers |-> "none"]
  /\ phase = "run"

CtxDone(t) == ended \/ t \in canceled
Saved(t) == \E k \in 1..3 : saver[<<t, k>>] # "none"
Goto(u, op, todo, then) == pc' = [pc EXCEPT ![u] = [op |-> op, todo |-> todo, then |-> then]]

----------------------------------------------------------------------------
(* Calls.  A call records the tabs in `todo' one after another and then    *)
(* ends, sleeps, registers the new tab or closes the tab, as `then' says.  *)

\* Main keeps the GIL from the last tab it closed until the process exits.
GilFree == phase = "run" \/ (phase = "sweep" /\ pc[Main] # Idle)

\* The tabs that tab.new returned: not those that failed to navigate.
Known == ToSet(tabs) \cup canceled

\* The script runs until main sees its end, and the callback is invoked until
\* the handlers of its tab are closed.
MayCall(u) ==
  /\ pc[u] = Idle /\ job[u] = NoJob /\ GilFree
  /\ IF u = Script THEN phase = "run" ELSE Home \in Known /\ ~Saved(Home)

Spend(kind) == budget[kind] > 0 /\ budget' = [budget EXCEPT ![kind] = @ - 1]
SpendCall(u) == Spend(IF u = Script THEN "script" ELSE "callback")

quiet == <<ended, canceled, ch, chclosed, images, done, sent, broken, saver, phase>>

\* tab.new of a recorded tab, which may go to a URL before it is registered.
NewTab ==
  /\ MayCall(Script) /\ opened < NTabs /\ ~ended
  /\ opened' = opened + 1
  /\ \/ tabs' = Append(tabs, opened + 1) /\ UNCHANGED <<pc, budget>>
     \/ /\ SpendCall(Script)
        /\ Goto(Script, "capture", <<opened + 1>>, "register")
        /\ UNCHANGED tabs
  /\ UNCHANGED <<storageVars, quiet, raced>>

\* v is closing t; main is so for each tab it has yet to close.
Closes(v, t) == /\ Contains(pc[v].todo, t)
                /\ pc[v].op \in {"wait", "cancel", "save"} \/ pc[v].then = "close"

\* u is a callback that v no longer waits for as it closes u's tab.
Late(u, v) == u = Callback /\ pc[v].op \in {"cancel", "save"} /\ Head(pc[v].todo) = Home

\* A call that records its tab (Tab.Run, Tab.RecordOnce), or also closes it
\* (Tab.LClose).  A callback that closes its own tab waits for itself: that
\* is in module Environment.
Call(u, t, then) ==
  /\ MayCall(u) /\ t \in Known /\ SpendCall(u)
  /\ u = Callback /\ then = "close" => t # Home
  /\ Goto(u, "capture", <<t>>, then)
  /\ raced' = IF then = "close" /\ \E v \in DOMAIN pc : Closes(v, t) \/ Late(u, v)
                THEN raced \cup {t} ELSE raced
  /\ UNCHANGED <<storageVars, quiet, opened, tabs>>

\* The next step of a call, when tab t has been recorded.
Advance(u, t, todo, then) ==
  /\ CASE todo # <<>> -> Goto(u, "capture", todo, then)
       [] todo = <<>> /\ then = "close" -> Goto(u, "wait", <<t>>, "idle")
       [] todo = <<>> /\ then = "sleep" -> Goto(u, "sleep", <<>>, "idle")
       [] OTHER -> pc' = [pc EXCEPT ![u] = Idle]
  /\ tabs' = IF then = "register" THEN Append(tabs, t) ELSE tabs

\* time.sleep: Environment.RecordOnAllTabs goes through the list it reads.
Sleep(u) ==
  /\ MayCall(u) /\ SpendCall(u)
  /\ Advance(u, Home, tabs, "sleep")
  /\ UNCHANGED <<storageVars, quiet, opened, raced>>

\* The call raises an error, that the scenario may catch.
Raise(u) == \E op \in {"idle", "stopped"} : Goto(u, op, <<>>, "idle")

\* The timer fires and the tabs are recorded again; or the run has ended.
Wake(u) ==
  /\ pc[u].op = "sleep" /\ GilFree
  /\ Advance(u, Home, tabs, "idle") \/ (ended /\ Raise(u) /\ UNCHANGED tabs)
  /\ UNCHANGED <<storageVars, quiet, opened, budget, raced>>

\* Mutant: the screenshot is taken with a context of its own.
CanAlwaysCapture(t) == TRUE

\* captureScreenshotForRecording fails without a live context, or otherwise.
CanCapture(t) == ~CtxDone(t)

Capture(u) ==
  /\ pc[u].op = "capture"
  /\ \/ CanCapture(Head(pc[u].todo)) /\ pc' = [pc EXCEPT ![u].op = "send"] /\ UNCHANGED budget
     \/ CtxDone(Head(pc[u].todo)) /\ Raise(u) /\ UNCHANGED budget
     \/ Raise(u) /\ Spend("fault")
  /\ UNCHANGED <<storageVars, quiet, opened, tabs, raced>>

\* Mutant: the channel has room for one more.
RoomForMore(t) == Len(ch[t]) <= Capacity

Room(t) == Len(ch[t]) < Capacity

\* RecordAction.Do: blocks on a full channel and panics on a closed one; the
\* panic reaches the scenario as an error.  `good' when the image is a PNG
\* that can be decoded.
Send(u) ==
  /\ pc[u].op = "send"
  /\ LET t == Head(pc[u].todo) IN
     \/ /\ t \notin chclosed /\ Room(t)
        /\ \E good \in BOOLEAN :
             /\ IF good THEN UNCHANGED budget ELSE Spend("fault")
             /\ broken' = IF good THEN broken ELSE [broken EXCEPT ![t] = @ \cup {sent[t] + 1}]
        /\ ch' = [ch EXCEPT ![t] = Append(@, sent[t] + 1)]
        /\ sent' = [sent EXCEPT ![t] = @ + 1]
        /\ pc' = [pc EXCEPT ![u].op = "sent"]
     \/ t \in chclosed /\ Raise(u) /\ UNCHANGED <<ch, sent, broken, budget>>
  /\ UNCHANGED <<storageVars, ended, canceled, chclosed, images, done, saver, phase,
                 opened, tabs, raced>>

\* The goroutine has the GIL again.
Resume(u) ==
  /\ pc[u].op = "sent" /\ GilFree
  /\ Advance(u, Head(pc[u].todo), Tail(pc[u].todo), pc[u].then)
  /\ UNCHANGED <<storageVars, quiet, opened, budget, raced>>

----------------------------------------------------------------------------
(* The goroutines of a recorder.                                           *)

recorderOnly == <<storageVars, ended, opened, tabs, canceled, sent, broken, pc, budget,
                  saver, raced, phase>>

\* The goroutine of NewRecorder that closes the channel.
CloseChannel(t) ==
  /\ t <= opened /\ CtxDone(t) /\ t \notin chclosed
  /\ chclosed' = chclosed \cup {t}
  /\ UNCHANGED <<recorderOnly, ch, images, done>>

\* One round of the loop of runRecorder, and its end.
Frame(t, n) == IF n \in broken[t] THEN images[t] ELSE Append(images[t], n)

\* Mutant: the recorder returns when an image cannot be decoded.
TakesGood(t) == ch[t] # <<>> /\ Head(ch[t]) \notin broken[t]

Takes(t) == ch[t] # <<>>

TakeTask(t) ==
  /\ Takes(t) /\ t \notin done
  /\ images' = [images EXCEPT ![t] = Frame(t, Head(ch[t]))]
  /\ ch' = [ch EXCEPT ![t] = Tail(@)]
  /\ UNCHANGED <<recorderOnly, chclosed, done>>

\* Mutant: the recorder returns as soon as the channel is closed.
ClosedOnly(t) == t \in chclosed

Drained(t) == t \in chclosed /\ ch[t] = <<>>

FinishRecord(t) ==
  /\ Drained(t) /\ t \notin done
  /\ done' = done \cup {t}
  /\ UNCHANGED <<recorderOnly, ch, chclosed, images>>

----------------------------------------------------------------------------
(* Tab.Close, of a call or of main.                                        *)

closeOnly == <<storageVars, ended, opened, ch, chclosed, images, done, sent, broken, budget,
               raced, phase>>

\* Mutant: wg.Done is skipped when the callback fails.
CallbackSucceeded == pc[Callback].op = "idle" /\ job[Callback] = NoJob

CallbackDone == pc[Callback].op \in {"idle", "stopped"} /\ job[Callback] = NoJob

\* The wait group of the tab counts its callbacks.
WaitGroup(u) ==
  /\ pc[u].op = "wait"
  /\ Head(pc[u].todo) = Home => CallbackDone
  /\ pc' = [pc EXCEPT ![u].op = "cancel"]
  /\ UNCHANGED <<closeOnly, tabs, canceled, saver>>

\* Environment.unregisterTab; a tab is registered once.
Without(t) == IF Contains(tabs, t) THEN RemoveAt(tabs, CHOOSE i \in DOMAIN tabs : tabs[i] = t)
              ELSE tabs

Cancel(u) ==
  /\ pc[u].op = "cancel"
  /\ LET t == Head(pc[u].todo) IN
     /\ tabs' = Without(t)
     /\ canceled' = canceled \cup {t}
  /\ pc' = [pc EXCEPT ![u].op = "save"]
  /\ UNCHANGED <<closeOnly, saver>>

\* Environment.saveRecord, and the handlers are closed.
SaveRecord(u) ==
  /\ pc[u].op = "save"
  /\ LET t == Head(pc[u].todo) IN
     \E k \in 1..3 : /\ saver[<<t, k>>] = "none"
                     /\ \A j \in 1..k - 1 : saver[<<t, j>>] # "none"
                     /\ saver' = [saver EXCEPT ![<<t, k>>] = "wait"]
  /\ IF Len(pc[u].todo) > 1
       THEN Goto(u, "wait", Tail(pc[u].todo), "idle")
       ELSE pc' = [pc EXCEPT ![u] = Idle]
  /\ UNCHANGED <<closeOnly, tabs, canceled>>

----------------------------------------------------------------------------
(* The goroutine of saveRecord.                                            *)

notSaver == <<ended, opened, tabs, canceled, ch, chclosed, images, done, sent, broken, pc,
              raced, phase>>

\* Mutant: the saver waits for the tab's context, not for the recorder.
MaySaveEarly(t) == CtxDone(t)

MaySave(t) == t \in done

OpenRecord(s) ==
  /\ saver[s] = "wait" /\ MaySave(s[1])
  /\ Save(s, RecordName[s[1]])
  /\ saver' = [saver EXCEPT ![s] = "open"]
  /\ UNCHANGED <<notSaver, budget>>

\* The file is open and SaveTo reads the frames, or the file cannot be opened.
StartSave(s) ==
  /\ saver[s] = "open"
  /\ \/ EndJob(s, TRUE) /\ saver' = [saver EXCEPT ![s] = "save"] /\ UNCHANGED budget
     \/ EndJob(s, FALSE) /\ saver' = [saver EXCEPT ![s] = "done"] /\ Spend("fault")
  /\ UNCHANGED notSaver

\* SaveTo returns; a file without frames is removed from the storage.
EndSave(s) ==
  /\ saver[s] = "save"
  /\ IF images[s[1]] = <<>> /\ Listed(RecordName[s[1]])
       THEN RemoveArtifact(s, RecordName[s[1]]) /\ saver' = [saver EXCEPT ![s] = "remove"]
       ELSE UNCHANGED storageVars /\ saver' = [saver EXCEPT ![s] = "done"]
  /\ UNCHANGED <<notSaver, budget>>

RemoveRecord(s) ==
  /\ saver[s] = "remove"
  /\ EndJob(s, RecordName[s[1]] \in disk)
  /\ saver' = [saver EXCEPT ![s] = "done"]
  /\ UNCHANGED <<notSaver, budget>>

----------------------------------------------------------------------------
(* The main goroutine (DoFile, Environment.Close and Run) and the context. *)

mainOnly == <<storageVars, opened, canceled, ch, chclosed, images, done, sent, broken, budget,
              saver, tabs>>

\* The timeout of the run, an interrupt, or the outcome of a callback.
EndRun ==
  /\ phase = "run" /\ ~ended
  /\ ended' = TRUE
  /\ UNCHANGED <<mainOnly, pc, raced, phase>>

\* DoFile returns, after it stopped the run if the script failed; then the
\* tabs that are in the list now are closed.
ScriptEnds ==
  /\ phase = "run" /\ pc[Script].op \in {"idle", "stopped"} /\ job[Script] = NoJob
  /\ phase' = "sweep"
  /\ ended' = (ended \/ pc[Script].op = "stopped")
  /\ pc' = IF tabs = <<>> THEN pc
           ELSE [pc EXCEPT ![Main] = [op |-> "wait", todo |-> tabs, then |-> "idle"]]
  /\ raced' = raced \cup {t \in ToSet(tabs) : Closes(Callback, t)}
  /\ UNCHANGED mainOnly

\* lua.Close, Environment.stop, and saveWG.Wait.
StopRun ==
  /\ phase = "sweep" /\ pc[Main] = Idle
  /\ phase' = "wait" /\ ended' = TRUE
  /\ UNCHANGED <<mainOnly, pc, raced>>

\* Mutant: the run does not wait for the savers.
NoWait == TRUE

AllSaved == \A s \in Savers : saver[s] \in {"none", "done"}

Exit ==
  /\ phase = "wait" /\ AllSaved
  /\ phase' = "exit"
  /\ UNCHANGED <<mainOnly, ended, pc, raced>>

\* Storage calls of the scenario: t:screenshot(name) and artifact.*.
FileCall(u) ==
  /\ MayCall(u) /\ Spend("file")
  /\ \/ \E p \in FileNames : Save(u, p) \/ LuaOpen(u, p) \/ RemoveArtifact(u, p)
     \/ SaveAuto(u)
  /\ UNCHANGED <<quiet, opened, tabs, pc, raced>>

FileDone(u) ==
  /\ \/ EndJob(u, TRUE) /\ UNCHANGED pc
     \/ EndJob(u, FALSE) /\ Raise(u)
  /\ UNCHANGED <<quiet, opened, tabs, raced, budget>>

Download(g) ==
  /\ \/ \E n \in FileNames, heard \in BOOLEAN :
          Spend("download") /\ StartDownload(g, n, heard)
     \/ (FinishDownload(g) \/ CompleteDownload(g) \/ CancelDownload(g)) /\ UNCHANGED budget
  /\ phase \in {"run", "sweep"} /\ Home \in Known
  /\ UNCHANGED <<quiet, opened, tabs, pc, raced>>

Running == phase # "exit"

CallStep(u) == Running /\ (Wake(u) \/ Capture(u) \/ Send(u) \/ Resume(u) \/ FileDone(u))
CloseStep(u) == Running /\ (WaitGroup(u) \/ Cancel(u) \/ SaveRecord(u))
RecorderStep(t) == Running /\ (CloseChannel(t) \/ TakeTask(t) \/ FinishRecord(t))
SaverStep(s) == Running /\ (OpenRecord(s) \/ StartSave(s) \/ EndSave(s) \/ RemoveRecord(s))
MainStep == ScriptEnds \/ StopRun \/ Exit

Next ==
  \/ NewTab \/ EndRun \/ MainStep
  \/ \E u \in Callers : \/ Sleep(u) \/ FileCall(u) \/ CallStep(u)
                        \/ \E t \in Tabs, then \in {"idle", "close"} : Call(u, t, then)
  \/ \E u \in Callers \cup {Main} : CloseStep(u)
  \/ \E t \in Tabs : RecorderStep(t)
  \/ \E s \in Savers : SaverStep(s)
  \/ \E g \in Guids : Download(g)

\* Goroutines that can go on do so; nobody has to make another call.
Fairness ==
  /\ WF_vars(MainStep)
  /\ \A u \in Callers : WF_vars(CallStep(u))
  /\ \A u \in Callers \cup {Main} : WF_vars(CloseStep(u))
  /\ \A t \in Tabs : WF_vars(RecorderStep(t))
  /\ \A s \in Savers : WF_vars(SaverStep(s))

Spec == Init /\ [][Next]_vars /\ Fairness

----------------------------------------------------------------------------
(* Properties.                                                             *)

TypeOK ==
  /\ StorageTypeOK
  /\ ended \in BOOLEAN /\ opened \in 0..NTabs /\ tabs \in Seq(Tabs)
  /\ canceled \subseteq Tabs /\ chclosed \subseteq Tabs /\ done \subseteq Tabs
  /\ raced \subseteq Tabs
  /\ ch \in [Tabs -> Seq(Nat)] /\ \A t \in Tabs : Len(ch[t]) <= Capacity
  /\ images \in [Tabs -> Seq(Nat)] /\ sent \in [Tabs -> Nat]
  /\ broken \in [Tabs -> SUBSET Nat]
  /\ pc \in [Callers \cup {Main} ->
              [op : {"idle", "capture", "send", "sent", "sleep", "wait", "cancel", "save",
                     "stopped"},
               todo : Seq(Tabs), then : {"idle", "register", "close", "sleep"}]]
  /\ saver \in [Savers -> {"none", "wait", "open", "save", "remove", "done"}]
  /\ phase \in {"run", "sweep", "wait", "exit"}

\* A recorder that has ended has made a frame of every screenshot that was
\* sent to it and can be decoded, in their order: closing the channel while a
\* call sends loses nothing that the call was told it recorded.
NothingLost ==
  \A t \in done : /\ ToSet(images[t]) = (1..sent[t]) \ broken[t]
                  /\ \A i, j \in DOMAIN images[t] : i < j => images[t][i] < images[t][j]

\* While a goroutine writes the frames of a recording, the recorder adds none.
SavedIsFinal ==
  [][\A s \in Savers : saver[s] \in {"open", "save"} => images'[s[1]] = images[s[1]]]_vars

\* When the process exits, the recording of every tab that was closed, by one
\* call at a time, is a file of the run and in the list of its artifacts if
\* and only if it has a frame.
RecordingsAreKept ==
  phase = "exit" => \A t \in 1..opened :
    Saved(t) /\ t \notin raced /\ RecordName[t] \notin dirty =>
      /\ Listed(RecordName[t]) <=> images[t] # <<>>
      /\ Listed(RecordName[t]) <=> RecordName[t] \in disk

\* Every tab that the scenario got is closed by the end of the run, and saved
\* once unless two calls closed it at a time; one after another they do not,
\* since the second cannot take its last screenshot.
SavedOnce ==
  /\ \A t \in Tabs : saver[<<t, 2>>] # "none" => t \in raced
  /\ phase \in {"wait", "exit"} => tabs = <<>> /\ \A t \in canceled \ raced : Saved(t)

\* No call waits forever to hand over a screenshot, while the process runs.
SendersGoOn == \A u \in Callers : pc[u].op = "send" ~> pc[u].op # "send" \/ ~Running

\* Once the tabs are being closed, the process exits.
RunExits == phase = "sweep" ~> phase = "exit"
============================================================================
