----------------------------- MODULE MCNetwork -----------------------------
(***************************************************************************)
(* What a scenario does on the network: the events of a tab and the body   *)
(* of a response, and fetch.  Each behaviour is about one of the two,      *)
(* which share nothing but the GIL.                                        *)
(*                                                                         *)
(* Three goroutines read twice each: one is enough to be too late, two to  *)
(* displace one another, and the third sees what both have left behind.    *)
(* Two goroutines fetch, with two jars: one may be shared by both.         *)
(***************************************************************************)
EXTENDS Network, CookieJars

CONSTANTS script, callback1, callback2

VARIABLE part

MCReaders == {script, callback1, callback2}

MCInit == part \in {"tab", "fetch"} /\ Init /\ FetchInit

MCNext == \/ part = "tab" /\ Next /\ UNCHANGED <<part, fetchVars>>
          \/ part = "fetch" /\ FetchNext /\ UNCHANGED <<part, vars>>

MCSpec == /\ MCInit /\ [][MCNext]_<<part, vars, fetchVars>>
          /\ part = "tab" => Fairness
          /\ part = "fetch" => FetchFairness

MCTypeOK == TypeOK /\ FetchTypeOK
=============================================================================
