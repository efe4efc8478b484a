--------------------------- MODULE MCEventHandler ---------------------------
(***************************************************************************)
(* Two goroutines that run Lua and the main goroutine on one EventHandler. *)
(* Three calls of Wait let one goroutine time out and leave a stale        *)
(* channel while the other waits; two events are needed to close a stale   *)
(* channel and then a live one; two closes are the double Close.           *)
(***************************************************************************)
EXTENDS EventHandler, TLC

CONSTANTS script, callback, main

MCThreads == {script, callback}

\* The two Lua goroutines run the same code.
Symmetry == Permutations(MCThreads)

=============================================================================
