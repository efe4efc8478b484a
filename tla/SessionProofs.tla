--------------------------- MODULE SessionProofs ---------------------------
(***************************************************************************)
(* Session for any number of callbacks, inputs and calls of the logger:    *)
(* the type invariant, that the GIL is unlocked only by the goroutine that *)
(* has it, and that the record of the run is true.                         *)
(*                                                                         *)
(* The argument is about who has the GIL.  It tells where in main, in Run  *)
(* and in the REPL the lock is held; a callback has it exactly while it    *)
(* runs and sends its result.  So nobody logs or saves a file once         *)
(* Environment.Close has returned, and what the last steps of Run put into *)
(* the record stays true.                                                  *)
(***************************************************************************)
EXTENDS Session, TLAPS

-----------------------------------------------------------------------------
(* The inductive invariant.                                                 *)

\* Main has the GIL at these points and has not at those; at `script' and
\* `eval' it has the GIL except during a browser operation.
Holding == {"start", "open", "prompt", "end", "save", "print", "exit"}
Without == {"read", "line", "interrupt", "eof", "close"}

HolderOK ==
    /\ pc \in Holding => gil = Main
    /\ pc \in Without => gil # Main
    /\ \A c \in Callbacks : callback[c] \in {"run", "send"} <=> gil = c
    /\ LockIsBalanced

\* What has happened by when.
ProgressOK ==
    /\ pc \in {"start", "open"} => files = 0 /\ ~ err
    /\ pc \notin {"end", "print", "exit"} => step = 1
    /\ step = 1 => files \in 0..1
    /\ record # NoRecord => pc \in {"print", "exit"}

Failures == {"FAILURE", "UNKNOWN", "ABORTED"}

\* After its step of the end of Run, the failure and the artifacts are in the
\* logger; a run whose storage does not open has neither.
LoggerOK ==
    /\ step > 2 /\ err => status \in Failures
    /\ step > 3 /\ files > 0 => artifacts = <<"storage", files>>
    /\ record # NoRecord =>
        \/ step = 4 /\ record.status = status /\ record.artifacts = artifacts
        \/ ~ err /\ files = 0

IInv == TypeOK /\ HolderOK /\ ProgressOK /\ LoggerOK

LEMMA InvInit == Init => IInv
  <1> SUFFICES ASSUME Init PROVE IInv
    OBVIOUS
  <1> USE SessionAssumption DEF Init
  <1>1. MainTypeOK
    <2>1. err \in BOOLEAN
      OBVIOUS
    <2>2. /\ target \in {"none", "dash", "path", "url", "userURL", "noFile", "bad"}
          /\ mode = "none" /\ pc = "start" /\ step = 1 /\ ctx = "live" /\ exitCode = Alive
      OBVIOUS
    <2> HIDE DEF Init
    <2> QED
      BY <2>1, <2>2 DEF MainTypeOK
  <1>2. SharedTypeOK
    <2>1. broken \in BOOLEAN /\ code \in BOOLEAN /\ latencySet \in BOOLEAN
      OBVIOUS
    <2>2. /\ gil = Main /\ errch = 0 /\ status = "HEALTHY" /\ latency = 0
          /\ files = 0 /\ inputs = 0 /\ logs = 0
          /\ callback \in [Callbacks -> {"none", "wait", "run", "send", "done"}]
      OBVIOUS
    <2> HIDE DEF Init
    <2> QED
      BY <2>1, <2>2 DEF SharedTypeOK, Statuses
  <1>3. HolderOK
    BY DEF HolderOK, Holding, Without, LockIsBalanced
  <1>4. ProgressOK /\ LoggerOK
    BY DEF ProgressOK, LoggerOK
  <1> QED
    BY <1>1, <1>2, <1>3, <1>4 DEF IInv, TypeOK

LEMMA InvNext == IInv /\ [Next]_vars => IInv'
  <1> SUFFICES ASSUME IInv, [Next]_vars PROVE IInv'
    OBVIOUS
  <1> USE SessionAssumption DEF IInv, TypeOK, logger, control, notLogger, Running, Lock, Unlock,
         At, Steps, NextStep, Holding, Without, LockIsBalanced, Failures
  <1>1. CASE Start
    BY <1>1 DEF Start, ModeOf, MainTypeOK, SharedTypeOK, HolderOK, ProgressOK, LoggerOK
  <1>2. CASE Open
    <2>1. MainTypeOK'
      BY <1>2 DEF Open, MainTypeOK
    <2>2. SharedTypeOK'
      BY <1>2 DEF Open, SharedTypeOK
    <2>3. HolderOK'
      BY <1>2 DEF Open, HolderOK, SharedTypeOK
    <2>4. ProgressOK'
      BY <1>2 DEF Open, ProgressOK
    <2>5. LoggerOK'
      BY <1>2 DEF Open, LoggerOK, ProgressOK, MainTypeOK, HolderOK, SharedTypeOK
    <2> QED
      BY <2>1, <2>2, <2>3, <2>4, <2>5
  <1>3. CASE ContextEnds
    BY <1>3 DEF ContextEnds, MainTypeOK, SharedTypeOK, HolderOK, ProgressOK, LoggerOK
  <1>4. CASE Release
    BY <1>4 DEF Release, MainTypeOK, SharedTypeOK, HolderOK, ProgressOK, LoggerOK
  <1>5. CASE Relock
    BY <1>5 DEF Relock, MainTypeOK, SharedTypeOK, HolderOK, ProgressOK, LoggerOK
  <1>6. CASE ScriptEnds
    BY <1>6 DEF ScriptEnds, MainTypeOK, SharedTypeOK, HolderOK, ProgressOK, LoggerOK
  <1>7. CASE Prompt
    BY <1>7 DEF Prompt, MainTypeOK, SharedTypeOK, HolderOK, ProgressOK, LoggerOK
  <1>8. CASE Interrupted
    BY <1>8 DEF Interrupted, LockAgain, MainTypeOK, SharedTypeOK, HolderOK, ProgressOK,
       LoggerOK
  <1>9. CASE Load
    <2>1. MainTypeOK'
      BY <1>9 DEF Load, Verdict, Statuses, MainTypeOK
    <2>2. SharedTypeOK'
      BY <1>9 DEF Load, Verdict, Statuses, SharedTypeOK
    <2>3. HolderOK'
      BY <1>9 DEF Load, Verdict, Statuses, HolderOK, SharedTypeOK
    <2>4. ProgressOK'
      BY <1>9 DEF Load, Verdict, Statuses, ProgressOK
    <2>5. LoggerOK'
      BY <1>9 DEF Load, Verdict, Statuses, LoggerOK, ProgressOK, MainTypeOK, HolderOK,
         SharedTypeOK
    <2> QED
      BY <2>1, <2>2, <2>3, <2>4, <2>5
  <1>10. CASE Evaluated
    <2>1. MainTypeOK'
      BY <1>10 DEF Evaluated, Verdict, Statuses, MainTypeOK
    <2>2. SharedTypeOK'
      BY <1>10 DEF Evaluated, Verdict, Statuses, SharedTypeOK
    <2>3. HolderOK'
      BY <1>10 DEF Evaluated, Verdict, Statuses, HolderOK, SharedTypeOK
    <2>4. ProgressOK'
      BY <1>10 DEF Evaluated, Verdict, Statuses, ProgressOK
    <2>5. LoggerOK'
      BY <1>10 DEF Evaluated, Verdict, Statuses, LoggerOK, ProgressOK, MainTypeOK,
         HolderOK, SharedTypeOK
    <2> QED
      BY <2>1, <2>2, <2>3, <2>4, <2>5
  <1>11. CASE EndOfInput
    BY <1>11 DEF EndOfInput, MainTypeOK, SharedTypeOK, HolderOK, ProgressOK, LoggerOK
  <1>12. CASE ReadLine
    BY <1>12 DEF ReadLine, MainTypeOK, SharedTypeOK, HolderOK, ProgressOK, LoggerOK
  <1>13. CASE CloseTabs
    BY <1>13 DEF CloseTabs, MainTypeOK, SharedTypeOK, HolderOK, ProgressOK, LoggerOK
  <1>14. CASE TabsClosed
    BY <1>14 DEF TabsClosed, MainTypeOK, SharedTypeOK, HolderOK, ProgressOK, LoggerOK
  <1>15. CASE RecordingsSaved
    BY <1>15 DEF RecordingsSaved, MainTypeOK, SharedTypeOK, HolderOK, ProgressOK, LoggerOK
  <1>16. CASE HandleError
    BY <1>16 DEF HandleError, Verdict, Statuses, MainTypeOK, SharedTypeOK, HolderOK,
       ProgressOK, LoggerOK
  <1>17. CASE SetArtifacts
    BY <1>17 DEF SetArtifacts, MainTypeOK, SharedTypeOK, HolderOK, ProgressOK, LoggerOK
  <1>18. CASE MakeRecord
    BY <1>18 DEF MakeRecord, MainTypeOK, SharedTypeOK, HolderOK, ProgressOK, LoggerOK
  <1>19. CASE Exit
    BY <1>19 DEF Exit, MainTypeOK, SharedTypeOK, HolderOK, ProgressOK, LoggerOK
  <1>20. ASSUME NEW u \in Callbacks \union {Main}, Log(u) PROVE IInv'
    <2>1. MainTypeOK'
      BY <1>20 DEF Log, Statuses, Clamp, MainTypeOK
    <2>2. SharedTypeOK'
      <3>1. latency' \in 0..1
        BY <1>20 DEF Log, Clamp, SharedTypeOK
      <3>2. latencySet' \in BOOLEAN
        BY <1>20 DEF Log, SharedTypeOK
      <3>3. status' \in Statuses
        BY <1>20 DEF Log, SharedTypeOK
      <3> QED
        BY <1>20, <3>1, <3>2, <3>3 DEF Log, SharedTypeOK
    <2>3. HolderOK'
      BY <1>20 DEF Log, Statuses, Clamp, HolderOK, SharedTypeOK
    <2>4. ProgressOK'
      BY <1>20 DEF Log, Statuses, Clamp, ProgressOK
    <2>5. LoggerOK'
      BY <1>20 DEF Log, Statuses, Clamp, LoggerOK, ProgressOK, MainTypeOK, HolderOK,
         SharedTypeOK
    <2> QED
      BY <2>1, <2>2, <2>3, <2>4, <2>5
  <1>21. ASSUME NEW u \in Callbacks \union {Main}, SaveFile(u) PROVE IInv'
    BY <1>21 DEF SaveFile, MainTypeOK, SharedTypeOK, HolderOK, ProgressOK, LoggerOK
  <1>22. ASSUME NEW c \in Callbacks, StartCallback(c) PROVE IInv'
    BY <1>22 DEF StartCallback, MainTypeOK, SharedTypeOK, HolderOK, ProgressOK, LoggerOK
  <1>23. ASSUME NEW c \in Callbacks, EnterCallback(c) PROVE IInv'
    BY <1>23 DEF EnterCallback, MainTypeOK, SharedTypeOK, HolderOK, ProgressOK, LoggerOK
  <1>24. ASSUME NEW c \in Callbacks, CallbackReturns(c) PROVE IInv'
    BY <1>24 DEF CallbackReturns, MainTypeOK, SharedTypeOK, HolderOK, ProgressOK, LoggerOK
  <1>25. ASSUME NEW c \in Callbacks, SendResult(c) PROVE IInv'
    BY <1>25 DEF SendResult, Room, MainTypeOK, SharedTypeOK, HolderOK, ProgressOK,
       LoggerOK
  <1>26. CASE UNCHANGED vars
    BY <1>26 DEF vars, MainTypeOK, SharedTypeOK, HolderOK, ProgressOK, LoggerOK
  <1> QED
    BY <1>1, <1>2, <1>3, <1>4, <1>5, <1>6, <1>7, <1>8, <1>9, <1>10, <1>11, <1>12, <1>13,
       <1>14, <1>15, <1>16, <1>17, <1>18, <1>19, <1>20, <1>21, <1>22, <1>23, <1>24, <1>25,
       <1>26 DEF Next, ReplStep, EndStep, CallbackStep

LEMMA Invariance == Spec => []IInv
  BY InvInit, InvNext, PTL DEF Spec

-----------------------------------------------------------------------------
(* The theorems.                                                            *)

(* Every variable has its type.  In particular the end of Run has its four  *)
(* steps and no more, and errch never has two values (run.go:156-164).      *)
THEOREM SessionTyped == Spec => []TypeOK
  <1>1. IInv => TypeOK
    BY DEF IInv
  <1> QED
    BY <1>1, Invariance, PTL

(* Main, the REPL and the callbacks unlock the GIL only when they have it:  *)
(* no path of the loop, whatever the user writes and whichever callbacks    *)
(* come between, ends with a fatal error of the mutex (repl.go:34-80).      *)
THEOREM SessionLockBalanced == Spec => []LockIsBalanced
  <1>1. IInv => LockIsBalanced
    BY DEF IInv, HolderOK
  <1> QED
    BY <1>1, Invariance, PTL

(* The record that Run returns reports a failed script as failed, and has   *)
(* all artifacts of the storage (run.go:156-164, log.go:113-117, 189-209).  *)
THEOREM SessionRecordTrue == Spec => []RecordIsTrue
  <1>1. IInv => ErrorWins
    BY DEF IInv, TypeOK, MainTypeOK, LoggerOK, ErrorWins, Failures
  <1>2. IInv => ArtifactsAreListed
    BY DEF IInv, TypeOK, MainTypeOK, SharedTypeOK, LoggerOK, ArtifactsAreListed
  <1>3. IInv => RecordIsTrue
    BY <1>1, <1>2 DEF RecordIsTrue
  <1> QED
    BY <1>3, Invariance, PTL
=============================================================================
