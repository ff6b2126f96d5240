------------------------------ MODULE Circuit ------------------------------
(***************************************************************************)
(* What Blazor gives to the scripts of a page: a link to the circuit that  *)
(* runs the page's components on the server, a server that can be reached  *)
(* or not, and a circuit that the server keeps for a while after the link  *)
(* is lost.  None of it is code of this repository.                        *)
(***************************************************************************)

VARIABLES
    link,       \* "up" or "down"
    circuit,    \* "kept" by the server, or "dropped"
    reachable   \* whether the server answers

circuitVars == <<link, circuit, reachable>>

CircuitTypeOK ==
    /\ link \in {"up", "down"}
    /\ circuit \in {"kept", "dropped"}
    /\ reachable \in BOOLEAN

(* A page that has just been loaded has a circuit and a link to it.        *)
Connected == link = "up" /\ circuit = "kept"

BreakLink == link = "up" /\ link' = "down" /\ UNCHANGED <<circuit, reachable>>

(* The server pauses the circuit: it stores its state and lets it go.      *)
PauseCircuit ==
    /\ link = "up"
    /\ link' = "down"
    /\ circuit' = "dropped"
    /\ UNCHANGED reachable

(* The time that a circuit without a link is kept is over.                 *)
EndCircuit ==
    /\ link = "down"
    /\ circuit = "kept"
    /\ circuit' = "dropped"
    /\ UNCHANGED <<link, reachable>>

(* The link is up again, to the kept circuit or to one made from its       *)
(* stored state.                                                           *)
Connect == link' = "up" /\ circuit' = "kept" /\ UNCHANGED reachable

Reach == reachable' = ~reachable /\ UNCHANGED <<link, circuit>>
=============================================================================
