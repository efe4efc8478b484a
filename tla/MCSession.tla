----------------------------- MODULE MCSession -----------------------------
(***************************************************************************)
(* A session with two callbacks: one that leaves its result in errch, and  *)
(* one that finds the channel full.  Two inputs reach every path of the    *)
(* REPL and the path after it.                                             *)
(***************************************************************************)
EXTENDS Session
=============================================================================
