------------------------------ MODULE Network ------------------------------
(***************************************************************************)
(* The network events of a tab (src/internal/tab.go:483-507): the browser  *)
(* sends them while its network domain is enabled, which onRequest and     *)
(* onResponse turn on and off, and the bodies of responses (module         *)
(* ResponseBody) are read with their help.                                 *)
(*                                                                         *)
(* A goroutine sets its callback and decides on the command under the GIL, *)
(* and gives the command to the browser without it.                        *)
(***************************************************************************)
EXTENDS ResponseBody, FiniteSets

CONSTANT MaxSets    \* bound: calls of onRequest and onResponse

ASSUME SetsAssumption == MaxSets \in Nat

VARIABLES
    hooks,      \* the events that have a callback
    enabled,    \* is the browser's network domain enabled
    command,    \* command[r]: what r has yet to give to the browser
    sets,       \* calls so far, for the bound
    settled     \* history: "yes" since a command that was decided on while there
                \* was no other, unless one failed or a different one joined it

networkOnly == <<hooks, enabled, command, sets, settled>>

NetworkTypeOK ==
    /\ hooks \subseteq {"request", "response"}
    /\ enabled \in BOOLEAN
    /\ command \in [Readers -> {"none", "enable", "disable"}]
    /\ sets \in 0..MaxSets
    /\ settled \in {"new", "yes", "no"}

\* A browser may have the domain enabled for a new tab, or not.
NetworkInit ==
    /\ hooks = {} /\ enabled \in BOOLEAN
    /\ command = [r \in Readers |-> "none"]
    /\ sets = 0 /\ settled = "new"

\* Mutant: both callbacks have to be set.
DecideBoth(fs) == IF fs = {"request", "response"} THEN "enable" ELSE "disable"

\* updateNetworkConfig.
Decide(fs) == IF fs # {} THEN "enable" ELSE "disable"

\* t:onRequest(f) and t:onResponse(f), f nil or not.
SetHook(r) ==
    /\ pc[r] = "idle" /\ command[r] = "none" /\ sets < MaxSets
    /\ \E e \in {"request", "response"}, f \in BOOLEAN :
         hooks' = IF f THEN hooks \union {e} ELSE hooks \ {e}
    /\ command' = [command EXCEPT ![r] = Decide(hooks')]
    /\ LET others == {command[q] : q \in Readers} \ {"none"} IN
       settled' = CASE others \subseteq {command'[r]} /\ others # {} -> settled
                    [] others = {} -> "yes"
                    [] OTHER -> "no"
    /\ sets' = sets + 1
    /\ UNCHANGED <<bodyVars, enabled>>

\* network.Enable or network.Disable reaches the browser, or fails.
GiveCommand(r) ==
    /\ command[r] # "none"
    /\ command' = [command EXCEPT ![r] = "none"]
    /\ \/ ~ canceled /\ enabled' = (command[r] = "enable") /\ UNCHANGED settled
       \/ settled' = "no" /\ UNCHANGED enabled
    /\ UNCHANGED <<bodyVars, hooks, sets>>

\* What the browser does, seen by the listener while the events are on.
BrowserStep ==
    /\ \/ enabled /\ (ResponseReceived \/ Complete \/ LoadingFailed)
       \/ ~ enabled /\ (LoadedUnheard \/ LoadingFailed)
       \/ TabEnds
    /\ UNCHANGED networkOnly

Init == BodyInit /\ NetworkInit

Next ==
    \/ \E r \in Readers :
         \/ SetHook(r) \/ GiveCommand(r)
         \/ command[r] = "none" /\ (Read(r) \/ ReaderStep(r)) /\ UNCHANGED networkOnly
    \/ BrowserStep

vars == <<bodyVars, networkOnly>>

Spec == Init /\ [][Next]_vars

\* Readers go on when they can; nothing is assumed of the browser.
Fairness == \A r \in Readers : WF_vars(ReaderStep(r) /\ UNCHANGED networkOnly)

FairSpec == Spec /\ Fairness

TypeOK == BodyTypeOK /\ NetworkTypeOK

-----------------------------------------------------------------------------
(* When no command is under way, the browser sends network events if and    *)
(* only if there is a callback for them, unless the command failed or two   *)
(* goroutines once had different commands in their hands (tab.go:492-496).  *)
EventsMatchHooks ==
    settled = "yes" /\ (\A r \in Readers : command[r] = "none")
        => (enabled <=> hooks # {})
=============================================================================
