---------------------------- MODULE BrowserPage ----------------------------
(***************************************************************************)
(* A page of the application in the browser: the keep-alive and the        *)
(* reconnect dialog share the link and the circuit.  A link that is lost   *)
(* takes the keep-alive's calls with it; a circuit that ends takes its     *)
(* components; a reload takes everything in the page.                      *)
(***************************************************************************)
EXTENDS KeepAlive, Reconnect

vars == <<circuitVars, keepAliveVars, reconnectVars>>

TypeOK == CircuitTypeOK /\ KeepAliveTypeOK /\ ReconnectTypeOK

Init == Connected /\ reachable = TRUE /\ FreshPage /\ FreshDialog

(* The keep-alive runs on, with or without a link.                         *)
KeepAliveStep == ~reloading /\ KeepAliveNext /\ UNCHANGED reconnectVars

ReconnectStep == ReconnectNext /\ UNCHANGED keepAliveVars

(* A link comes back: to the components that are alive, or to none when    *)
(* the circuit was dropped.                                                *)
RestoreLink == ReconnectLink /\ UNCHANGED keepAliveVars

LinkLost == ~reloading /\ BreakLink /\ LoseCalls /\ Tell("show")

(* The pause ends the components and opens the dialog.                     *)
Pause ==
    /\ ~reloading
    /\ PauseCircuit
    /\ LoseComponents
    /\ display' = "paused"
    /\ HandleReconnectStateChanged("show")
    /\ UNCHANGED <<pending, crossed>>

DropCircuit == EndCircuit /\ LoseComponents /\ UNCHANGED reconnectVars

ServerComesOrGoes == Reach /\ UNCHANGED <<keepAliveVars, reconnectVars>>

(* The page is loaded anew once the server answers.                        *)
Load ==
    /\ reloading /\ reachable
    /\ Connect
    /\ LosePage
    /\ modal' = FALSE /\ display' = "hide" /\ watching' = FALSE
    /\ pending' = [k \in Call |-> "idle"]
    /\ reloading' = FALSE /\ crossed' = FALSE

Next ==
    \/ KeepAliveStep \/ ReconnectStep \/ RestoreLink
    \/ LinkLost \/ Pause \/ DropCircuit \/ ServerComesOrGoes \/ Load

Spec == Init /\ [][Next]_vars

(* The browser runs the timers of a page, delivers its requests to a       *)
(* server that stays reachable and answers the promises of Blazor's calls; *)
(* the user returns to the page now and then.                              *)
Answered(k) ==
    /\ \/ ReconnectYes(k) \/ ReconnectNo(k) \/ RetryThrows(k)
       \/ ResumeYes(k) \/ ResumeNo(k) \/ ResumeThrows(k)
    /\ UNCHANGED keepAliveVars
Returns == (\E k \in Call : BecomeVisible(k)) /\ UNCHANGED keepAliveVars

FairSpec ==
    /\ Spec
    /\ WF_vars(~reloading /\ Tick /\ UNCHANGED reconnectVars)
    /\ WF_vars(~reloading /\ RequestArrives /\ UNCHANGED reconnectVars)
    /\ \A k \in Call : WF_vars(Answered(k))
    /\ WF_vars(Returns)

-----------------------------------------------------------------------------
(* A page with a link is not reloaded, as what the user typed is lost -    *)
(* unless two calls of the dialog have crossed.                            *)
ReloadsAreNeeded == [][ReloadOnlyWhenLost]_vars

(* Activity in a page that has a live, initialised component reaches the   *)
(* server in the end, unless that goes away first, also after the circuit  *)
(* was replaced and the new component found the old one's timer.  What is  *)
(* lost with a request that fails is all that is lost: later activity is   *)
(* reported again.                                                         *)
Serving == ~reloading /\ \E c \in Comp : Alive(c) /\ stage[c] = "running"
ActivityIsReported ==
    report = "due" /\ Serving /\ reachable ~> report = "none" \/ ~Serving \/ ~reachable
=============================================================================
