---------------------------- MODULE MCEnvironment ----------------------------
(***************************************************************************)
(* Instances of Environment for TLC.  There are never more events than     *)
(* callbacks, so that a listener always finds a goroutine to start.        *)
(***************************************************************************)
EXTENDS Environment, TLC

CONSTANTS main, script, c1, c2, t1, t2, none

OneTab  == {t1}
TwoTabs == {t1, t2}
OneCallback  == {c1}
TwoCallbacks == {c1, c2}

\* Callbacks run the same code, and tabs are the same but for their names.
Symmetry == Permutations(Callbacks) \union Permutations(Tabs)

\* Operations of the script and of each callback.
Ops(ofScript, ofCallback) ==
    [g \in {script} \union Callbacks |-> IF g = script THEN ofScript ELSE ofCallback]
Ops1x0 == Ops(1, 0)
Ops2x1 == Ops(2, 1)
Ops3x0 == Ops(3, 0)
Ops3x1 == Ops(3, 1)

Network == {"network"}
Both    == {"dialog", "network"}
Nothing == {}

\* Events of each kind.
One == [k \in Kinds |-> 1]
Two == [k \in Kinds |-> 2]
=============================================================================
