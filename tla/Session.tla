------------------------------ MODULE Session ------------------------------
(***************************************************************************)
(* A use of the program from its argument to its exit status: main         *)
(* (src/main.go), the REPL (src/internal/repl.go), the logger that the     *)
(* scenario, the callbacks and Run write to (src/internal/log.go), and the *)
(* last part of Run (src/internal/run.go), which turns it into a record.   *)
(*                                                                         *)
(* Module Environment models the run of a scenario; here it is one action, *)
(* and what matters is who has the GIL and what is logged when.            *)
(***************************************************************************)
EXTENDS Integers, Sequences

CONSTANTS
    Main,           \* the goroutine of main, Run and the REPL
    Callbacks,      \* goroutines of callbacks
    Nobody,         \* the holder of the GIL when it is free
    MaxInputs,      \* bound: inputs of the user of the REPL
    MaxLogs         \* bound: calls of print.status, latency and extra

ASSUME SessionAssumption ==
    /\ MaxInputs \in Nat /\ MaxLogs \in Nat
    /\ Main \notin Callbacks /\ Nobody \notin Callbacks \union {Main}

VARIABLES
    target,         \* the argument on the command line
    mode,           \* Arg.Mode
    pc,             \* of Main
    step,           \* of the end of Run
    gil,            \* who has the GIL
    broken,         \* the GIL was unlocked by someone who did not have it
    code,           \* the REPL has read a part of a chunk
    callback,       \* callback[c]: progress of a callback
    errch,          \* the number of values in env.errch
    ctx,            \* the context of Run
    err,            \* did DoFile, DoStream or DoREPL return an error
    status, latency, latencySet,    \* of the logger
    artifacts,      \* the extra value "artifacts" of the logger
    files,          \* the number of artifacts in the storage
    record,         \* the record that Run returns
    exitCode,       \* of the process
    inputs, logs    \* so far, for the bounds

logger == <<status, latency, latencySet, artifacts>>
control == <<target, mode, step, ctx, err, record, exitCode>>
vars == <<logger, control, pc, gil, broken, code, callback, errch, files, inputs, logs>>

Statuses == {"HEALTHY", "DEGRADE", "FAILURE", "UNKNOWN", "ABORTED"}
Measured == 9
Alive == 9
NoRecord == [status |-> "none", latency |-> 0, artifacts |-> <<>>]

MainTypeOK ==
    /\ target \in {"none", "dash", "path", "url", "userURL", "noFile", "bad"}
    /\ mode \in {"none", "repl", "stdin", "standalone", "ayd"}
    /\ pc \in {"start", "open", "script", "prompt", "read", "line", "interrupt", "eof", "eval",
               "end", "close", "save", "print", "exit"}
    /\ step \in 1..4 /\ ctx \in {"live", "deadline", "canceled"} /\ err \in BOOLEAN
    /\ exitCode \in {Alive, 0, 1, 2}

SharedTypeOK ==
    /\ gil \in Callbacks \union {Main, Nobody} /\ broken \in BOOLEAN /\ code \in BOOLEAN
    /\ callback \in [Callbacks -> {"none", "wait", "run", "send", "done"}]
    /\ errch \in 0..1
    /\ status \in Statuses /\ latency \in 0..1 /\ latencySet \in BOOLEAN
    /\ files \in 0..2 /\ inputs \in 0..MaxInputs /\ logs \in 0..MaxLogs

TypeOK == MainTypeOK /\ SharedTypeOK

Init ==
    /\ target \in {"none", "dash", "path", "url", "userURL", "noFile", "bad"}
    /\ mode = "none" /\ pc = "start" /\ step = 1 /\ gil = Main
    /\ broken = FALSE /\ code = FALSE /\ errch = 0
    /\ callback = [c \in Callbacks |-> "none"]
    /\ ctx = "live" /\ err = FALSE /\ record = NoRecord /\ exitCode = Alive
    /\ status = "HEALTHY" /\ latency = 0 /\ latencySet = FALSE /\ artifacts = <<>>
    /\ files = 0 /\ inputs = 0 /\ logs = 0

-----------------------------------------------------------------------------
(* The command line.                                                        *)

\* ParseTargetURL.
ModeOf(s) == CASE s \in {"none", "dash"} -> "repl"
               [] s = "path" -> "standalone"
               [] OTHER -> "ayd"

\* The path of a URL goes to Opaque, unless the URL has a user.
Opaque(s) == s \in {"path", "url"}

\* main up to Run: without a terminal the REPL reads stdin; `bad' is no URL.
Start ==
    /\ pc = "start"
    /\ \/ target = "bad" /\ pc' = "exit" /\ exitCode' = 2 /\ UNCHANGED mode
       \/ /\ target # "bad" /\ ModeOf(target) = "ayd" /\ ~ Opaque(target)
          /\ mode' = "ayd" /\ pc' = "exit" /\ exitCode' = 0
       \/ /\ target # "bad" /\ (ModeOf(target) = "ayd" => Opaque(target))
          /\ mode' \in (IF ModeOf(target) = "repl" THEN {"repl", "stdin"} ELSE {ModeOf(target)})
          /\ pc' = "open" /\ UNCHANGED exitCode
    /\ UNCHANGED <<logger, target, step, ctx, err, record, gil, broken, code, callback, errch,
                   files, inputs, logs>>

\* Run opens the storage, and DoREPL the terminal; either may fail.
Open ==
    /\ pc = "open"
    /\ \/ /\ pc' = (IF mode = "repl" THEN "prompt" ELSE "script")
          /\ UNCHANGED <<err, record>>
       \/ /\ pc' = "print" /\ record' = [NoRecord EXCEPT !.status = "FAILURE"]
          /\ UNCHANGED err
       \/ mode = "repl" /\ pc' = "end" /\ err' = TRUE /\ UNCHANGED record
    /\ UNCHANGED <<logger, target, mode, step, ctx, exitCode, gil, broken, code, callback, errch,
                   files, inputs, logs>>

\* The time limit, which only ayd mode has, or an interrupt, which the REPL
\* reads as input.
ContextEnds ==
    /\ ctx = "live" /\ pc \notin {"start", "open", "exit"}
    /\ \/ mode = "ayd" /\ ctx' = "deadline"
       \/ mode # "repl" /\ ctx' = "canceled"
    /\ UNCHANGED <<logger, target, mode, step, err, record, exitCode, pc, gil, broken, code,
                   callback, errch, files, inputs, logs>>

-----------------------------------------------------------------------------
(* The lock.                                                                *)

Running(u) == IF u = Main THEN pc \in {"script", "eval"} ELSE callback[u] = "run"

Lock(u) == gil = Nobody /\ gil' = u /\ UNCHANGED broken

\* Go ends the process when a mutex that is not locked is unlocked; to unlock
\* that of another goroutine goes unnoticed.
Unlock(u) == gil' = Nobody /\ broken' = (broken \/ gil # u)

\* AsyncRun, and its end: a browser operation of the script or of a chunk.
Release ==
    /\ pc \in {"script", "eval"} /\ gil = Main
    /\ Unlock(Main)
    /\ UNCHANGED <<logger, control, pc, code, callback, errch, files, inputs, logs>>

Relock ==
    /\ pc \in {"script", "eval"} /\ gil # Main
    /\ Lock(Main)
    /\ UNCHANGED <<logger, control, pc, code, callback, errch, files, inputs, logs>>

-----------------------------------------------------------------------------
(* What a scenario logs, on any goroutine that has the GIL.                 *)

\* Mutant: a negative latency is taken.
AnyLatency(x) == x

\* SetLatency: negative numbers become 0.
Clamp(x) == IF x < 0 THEN 0 ELSE x

Log(u) ==
    /\ Running(u) /\ gil = u /\ logs < MaxLogs
    /\ logs' = logs + 1
    /\ \/ status' \in Statuses /\ UNCHANGED <<latency, latencySet, artifacts>>
       \/ /\ \E x \in {-1, 0, 1} : latency' = Clamp(x)
          /\ latencySet' = TRUE /\ UNCHANGED <<status, artifacts>>
       \/ latencySet' = FALSE /\ UNCHANGED <<status, latency, artifacts>>
       \/ artifacts' = <<"scenario">> /\ UNCHANGED <<status, latency, latencySet>>
    /\ UNCHANGED <<control, pc, gil, broken, code, callback, errch, files, inputs>>

\* t:screenshot() and the like.
SaveFile(u) ==
    /\ Running(u) /\ gil = u /\ files = 0
    /\ files' = 1
    /\ UNCHANGED <<logger, control, pc, gil, broken, code, callback, errch, inputs, logs>>

\* Logger.HandleError: the verdict depends on the context of Run.
Verdict == CASE ctx = "deadline" -> "UNKNOWN"
             [] ctx = "canceled" -> "ABORTED"
             [] OTHER -> "FAILURE"

\* DoFile or DoStream returns, with the GIL.
ScriptEnds ==
    /\ pc = "script" /\ gil = Main
    /\ pc' = "end" /\ err' \in BOOLEAN
    /\ UNCHANGED <<logger, target, mode, step, ctx, record, exitCode, gil, broken, code,
                   callback, errch, files, inputs, logs>>

-----------------------------------------------------------------------------
(* DoREPL.                                                                  *)

\* The top of the loop.
Prompt ==
    /\ pc = "prompt"
    /\ Unlock(Main) /\ pc' = "read"
    /\ UNCHANGED <<logger, control, code, callback, errch, files, inputs, logs>>

\* A line, Ctrl-C, or the end of the input or an error of the terminal.
ReadLine ==
    /\ pc = "read"
    /\ \/ /\ pc' \in {"line", "interrupt"} /\ inputs < MaxInputs
          /\ inputs' = inputs + 1 /\ UNCHANGED err
       \/ pc' = "eof" /\ err' \in BOOLEAN /\ UNCHANGED inputs
    /\ code' = (code /\ pc' # "interrupt")
    /\ UNCHANGED <<logger, target, mode, step, ctx, record, exitCode, gil, broken, callback,
                   errch, files, logs>>

\* Mutant: the loop goes on after Ctrl-C without the lock.
ContinueUnlocked == UNCHANGED <<gil, broken>>

LockAgain == Lock(Main)

Interrupted ==
    /\ pc = "interrupt"
    /\ LockAgain /\ pc' = "prompt"
    /\ UNCHANGED <<logger, control, code, callback, errch, files, inputs, logs>>

\* The chunk is evaluated, or it is incomplete, or wrong.
Load ==
    /\ pc = "line"
    /\ Lock(Main)
    /\ \/ pc' = "eval" /\ UNCHANGED <<status, code>>
       \/ pc' = "prompt" /\ code' = TRUE /\ UNCHANGED status
       \/ pc' = "prompt" /\ code' = FALSE /\ status' = Verdict
    /\ UNCHANGED <<latency, latencySet, artifacts, control, callback, errch, files, inputs, logs>>

Evaluated ==
    /\ pc = "eval" /\ gil = Main
    /\ pc' = "prompt" /\ code' = FALSE
    /\ status' \in {status, Verdict}
    /\ UNCHANGED <<latency, latencySet, artifacts, control, gil, broken, callback, errch, files,
                   inputs, logs>>

EndOfInput ==
    /\ pc = "eof"
    /\ Lock(Main) /\ pc' = "end"
    /\ UNCHANGED <<logger, control, code, callback, errch, files, inputs, logs>>

-----------------------------------------------------------------------------
(* CallEventHandler.                                                        *)

\* Tabs are open, and listen, until they are closed.
StartCallback(c) ==
    /\ callback[c] = "none" /\ pc \notin {"start", "open", "save", "print", "exit"}
    /\ callback' = [callback EXCEPT ![c] = "wait"]
    /\ UNCHANGED <<logger, control, pc, gil, broken, code, errch, files, inputs, logs>>

EnterCallback(c) ==
    /\ callback[c] = "wait"
    /\ Lock(c)
    /\ callback' = [callback EXCEPT ![c] = "run"]
    /\ UNCHANGED <<logger, control, pc, code, errch, files, inputs, logs>>

CallbackReturns(c) ==
    /\ callback[c] = "run" /\ gil = c
    /\ callback' = [callback EXCEPT ![c] = "send"]
    /\ UNCHANGED <<logger, control, pc, gil, broken, code, errch, files, inputs, logs>>

\* Mutant: the channel has no buffer.
NoRoom == FALSE
Room == errch = 0

\* The result goes to errch before the GIL is released.  DoFile receives it;
\* what comes of that, and of later values, is in module Environment.
SendResult(c) ==
    /\ callback[c] = "send"
    /\ IF mode \in {"ayd", "standalone"} THEN UNCHANGED errch ELSE Room /\ errch' = errch + 1
    /\ Unlock(c)
    /\ callback' = [callback EXCEPT ![c] = "done"]
    /\ UNCHANGED <<logger, control, pc, code, files, inputs, logs>>

-----------------------------------------------------------------------------
(* The end of Run.                                                          *)

\* Mutant: the error is handled before the callbacks have ended.
ErrorFirst == <<"error", "close", "artifacts", "record">>

Steps == <<"close", "error", "artifacts", "record">>

At(s) == pc = "end" /\ Steps[step] = s
NextStep == pc' = "end" /\ step' = step + 1

notLogger == <<target, mode, ctx, err, record, exitCode, broken, code, callback, errch, inputs, logs>>

\* Environment.Close: it closes the tabs without the GIL ...
CloseTabs ==
    /\ At("close")
    /\ Unlock(Main) /\ pc' = "close"
    /\ UNCHANGED <<logger, control, code, callback, errch, files, inputs, logs>>

\* ... when their callbacks are done ...
TabsClosed ==
    /\ pc = "close" /\ \A c \in Callbacks : callback[c] \in {"none", "done"}
    /\ Lock(Main) /\ pc' = "save"
    /\ UNCHANGED <<logger, control, code, callback, errch, files, inputs, logs>>

\* ... and waits until the recordings are saved.
RecordingsSaved ==
    /\ pc = "save"
    /\ files' \in {files, files + 1} /\ NextStep
    /\ UNCHANGED <<logger, notLogger, gil>>

HandleError ==
    /\ At("error")
    /\ status' = (IF err THEN Verdict ELSE status) /\ NextStep
    /\ UNCHANGED <<latency, latencySet, artifacts, notLogger, gil, files>>

SetArtifacts ==
    /\ At("artifacts")
    /\ artifacts' = (IF files > 0 THEN <<"storage", files>> ELSE artifacts) /\ NextStep
    /\ UNCHANGED <<status, latency, latencySet, notLogger, gil, files>>

\* Logger.AsRecord.
MakeRecord ==
    /\ At("record")
    /\ record' = [status |-> status, latency |-> IF latencySet THEN latency ELSE Measured,
                  artifacts |-> artifacts]
    /\ pc' = "print"
    /\ UNCHANGED <<logger, target, mode, step, ctx, err, exitCode, gil, broken, code, callback,
                   errch, files, inputs, logs>>

\* main after Run.
Exit ==
    /\ pc = "print"
    /\ exitCode' = (IF mode = "ayd" \/ record.status = "HEALTHY" THEN 0 ELSE 1)
    /\ pc' = "exit"
    /\ UNCHANGED <<logger, target, mode, step, ctx, err, record, gil, broken, code, callback,
                   errch, files, inputs, logs>>

-----------------------------------------------------------------------------
ReplStep == Prompt \/ Interrupted \/ Load \/ Evaluated \/ EndOfInput
EndStep == CloseTabs \/ TabsClosed \/ RecordingsSaved \/ HandleError \/ SetArtifacts
           \/ MakeRecord \/ Exit
CallbackStep(c) == EnterCallback(c) \/ CallbackReturns(c) \/ SendResult(c)

Next ==
    \/ Start \/ Open \/ ContextEnds \/ Release \/ Relock \/ ScriptEnds
    \/ ReplStep \/ ReadLine \/ EndStep
    \/ \E u \in Callbacks \union {Main} : Log(u) \/ SaveFile(u)
    \/ \E c \in Callbacks : StartCallback(c) \/ CallbackStep(c)

\* Goroutines that have the lock go on, and the lock is given to everyone who
\* waits for it in the end.  The user need not write anything, and no event
\* has to come.
Fairness ==
    /\ SF_vars(Start \/ Open \/ ReplStep) /\ SF_vars(Relock) /\ SF_vars(EndStep)
    /\ \A c \in Callbacks : SF_vars(CallbackStep(c))

Spec == Init /\ [][Next]_vars /\ Fairness

-----------------------------------------------------------------------------
(* The loop of the REPL unlocks the GIL exactly when it has it, on each of  *)
(* its paths, although callbacks use it meanwhile (repl.go:34-80).          *)
LockIsBalanced == ~ broken

(* A run whose script failed is not reported healthy, whatever statuses     *)
(* the scenario set, or a callback sets while the tabs are closed           *)
(* (run.go:156-157, log.go:113-117).                                        *)
ErrorWins == record # NoRecord /\ err => record.status \in {"FAILURE", "UNKNOWN", "ABORTED"}

(* The record lists all artifacts, those that Close saves included, and     *)
(* print.extra cannot hide them (run.go:156-161).                           *)
ArtifactsAreListed == record # NoRecord /\ files > 0 => record.artifacts = <<"storage", files>>

(* What main prints about the run is true: the failure and the artifacts    *)
(* are put into the record after everything that could still change them.   *)
RecordIsTrue == ErrorWins /\ ArtifactsAreListed

(* The REPL comes back to its prompt after each input, and ends after the   *)
(* last, unless two callbacks were called: nobody receives from errch, and  *)
(* the second callback keeps the GIL (environment.go:135).                  *)
Called == {c \in Callbacks : callback[c] # "none"}

ReplAnswers ==
    mode = "repl" /\ pc # "read" ~> pc \in {"read", "exit"} \/ \E c, d \in Called : c # d
=============================================================================
