----------------------------- MODULE MCRecorder -----------------------------
(* Small instances of Recorder, and so of Storage. *)
EXTENDS Recorder

CONSTANTS rec1, rec2, report

MCUsers == {Script, Callback} \cup ((1..2) \X (1..3))
MCNames == {rec1, rec2, report}
MCRecordName == <<rec1, rec2>>

Calls(s, c, f, d, e) ==
  [script |-> s, callback |-> c, file |-> f, download |-> d, fault |-> e]
MCBudgets == {Calls(1, 1, 0, 0, 0), Calls(2, 0, 0, 0, 0), Calls(1, 0, 0, 0, 1),
              Calls(0, 0, 2, 0, 0), Calls(0, 0, 1, 1, 0), Calls(0, 0, 0, 2, 0)}
============================================================================
