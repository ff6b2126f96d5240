----------------------------- MODULE Reconnect -----------------------------
(***************************************************************************)
(* The reconnect dialog of the example application.  Blazor tells the      *)
(* dialog what becomes of the link; the dialog retries or resumes when the *)
(* user asks for it or comes back to the page.  Several of its calls may   *)
(* be under way at once.                                                   *)
(***************************************************************************)
EXTENDS Circuit

CONSTANT Call       \* calls of retry and resume that may overlap

VARIABLES
    modal,      \* the dialog is open
    display,    \* what Blazor lets it show: "hide", "show", "failed", "paused"
    watching,   \* the listener for visibilitychange is registered
    pending,    \* per call: "idle", or the promise it waits for: "reconnect" or
                \* "resume" in retry, "resumeOnly" in resume
    reloading,  \* location.reload() was called
    crossed     \* history: the last retry began when it was not alone or when
                \* there was nothing to retry

dialogVars == <<modal, display, watching, pending>>
reconnectVars == <<dialogVars, reloading, crossed>>

ReconnectTypeOK ==
    /\ modal \in BOOLEAN
    /\ display \in {"hide", "show", "failed", "paused"}
    /\ watching \in BOOLEAN
    /\ pending \in [Call -> {"idle", "reconnect", "resume", "resumeOnly"}]
    /\ reloading \in BOOLEAN
    /\ crossed \in BOOLEAN

AllIdle == \A k \in Call : pending[k] = "idle"

FreshDialog ==
    /\ modal = FALSE /\ display = "hide" /\ watching = FALSE
    /\ pending = [k \in Call |-> "idle"]
    /\ reloading = FALSE /\ crossed = FALSE

-----------------------------------------------------------------------------
(* Faulty variants, substituted for the steps below to try the properties. *)

(* A rejection is taken for a server that is unavailable.                  *)
RejectionRearms(k) ==
    /\ ~reloading
    /\ pending[k] = "reconnect" /\ reachable /\ circuit = "dropped"
    /\ pending' = [pending EXCEPT ![k] = "idle"]
    /\ watching' = TRUE
    /\ UNCHANGED <<circuitVars, modal, display, reloading, crossed>>

(* retry leaves the listener registered while it is under way.             *)
KeepWatching == UNCHANGED watching

(* retry reads the outcome of Blazor.reconnect the wrong way round.        *)
TakeYesForNo(k) ==
    /\ pending[k] = "reconnect" /\ reachable /\ circuit = "kept"
    /\ Connect
    /\ modal' = FALSE /\ display' = "hide"
    /\ reloading' = TRUE
    /\ pending' = [pending EXCEPT ![k] = "idle"]
    /\ UNCHANGED <<watching, crossed>>

(* The listener is not registered again after an exception.                *)
SwallowException(k) ==
    /\ pending[k] \in {"reconnect", "resume"} /\ ~reachable
    /\ pending' = [pending EXCEPT ![k] = "idle"]
    /\ UNCHANGED <<circuitVars, modal, display, watching, reloading, crossed>>

-----------------------------------------------------------------------------
(* handleReconnectStateChanged.                                            *)
HandleReconnectStateChanged(state) ==
    /\ modal' = (state = "show" \/ (modal /\ state # "hide"))
    /\ watching' = (watching \/ state = "failed")
    /\ reloading' = (reloading \/ state = "rejected")

(* Blazor: what it shows, and the event by which it tells the dialog.      *)
Tell(state) ==
    /\ display' = IF state = "rejected" THEN display ELSE state
    /\ HandleReconnectStateChanged(state)
    /\ UNCHANGED <<pending, crossed>>

(* Blazor's own attempts, while it shows that it makes them: success,      *)
(* rejection by a server that no longer has the circuit, giving up.        *)
AutoReconnect ==
    /\ ~reloading /\ display = "show" /\ link = "down"
    /\ reachable /\ circuit = "kept"
    /\ Connect
    /\ Tell("hide")

AutoRejected ==
    /\ ~reloading /\ display = "show" /\ link = "down"
    /\ reachable /\ circuit = "dropped"
    /\ Tell("rejected")
    /\ UNCHANGED circuitVars

AutoGiveUp ==
    /\ ~reloading /\ display = "show" /\ link = "down"
    /\ ~reachable
    /\ Tell("failed")
    /\ UNCHANGED circuitVars

-----------------------------------------------------------------------------
(* retry: the listener is removed, Blazor.reconnect is called.             *)
StopWatching == watching' = FALSE

Retry(k) ==
    /\ ~reloading
    /\ pending[k] = "idle"
    /\ StopWatching
    /\ pending' = [pending EXCEPT ![k] = "reconnect"]
    /\ crossed' = ~(AllIdle /\ link = "down" /\ display = "failed")
    /\ UNCHANGED <<circuitVars, modal, display, reloading>>

ClickRetry(k) == modal /\ display = "failed" /\ Retry(k)

(* retryWhenDocumentBecomesVisible; an event of a hidden page is ignored.  *)
BecomeVisible(k) == watching /\ Retry(k)

(* resume: Blazor.resumeCircuit is called.                                 *)
ClickResume(k) ==
    /\ ~reloading
    /\ modal /\ display = "paused"
    /\ pending[k] = "idle"
    /\ pending' = [pending EXCEPT ![k] = "resumeOnly"]
    /\ crossed' = (crossed \/ ~AllIdle)
    /\ UNCHANGED <<circuitVars, modal, display, watching, reloading>>

(* The promise of Blazor.reconnect: true, and Blazor hides the dialog ...  *)
ReconnectYes(k) ==
    /\ ~reloading
    /\ pending[k] = "reconnect" /\ reachable /\ circuit = "kept"
    /\ Connect
    /\ display' = "hide"
    /\ HandleReconnectStateChanged("hide")
    /\ pending' = [pending EXCEPT ![k] = "idle"]
    /\ UNCHANGED crossed

(* ... false, and retry goes on with Blazor.resumeCircuit ...              *)
ReconnectNo(k) ==
    /\ ~reloading
    /\ pending[k] = "reconnect" /\ reachable /\ circuit = "dropped"
    /\ pending' = [pending EXCEPT ![k] = "resume"]
    /\ UNCHANGED <<circuitVars, modal, display, watching, reloading, crossed>>

(* ... whose promise is true when the stored state could be restored: then *)
(* retry closes the dialog itself.  resume leaves that to Blazor.          *)
CloseDialog == modal' = FALSE

ResumeYes(k) ==
    /\ ~reloading
    /\ pending[k] \in {"resume", "resumeOnly"} /\ reachable /\ circuit = "dropped"
    /\ Connect
    /\ display' = "hide"
    /\ \/ pending[k] = "resume" /\ CloseDialog /\ UNCHANGED <<watching, reloading>>
       \/ pending[k] = "resumeOnly" /\ HandleReconnectStateChanged("hide")
    /\ pending' = [pending EXCEPT ![k] = "idle"]
    /\ UNCHANGED crossed

ResumeNo(k) ==
    /\ ~reloading
    /\ pending[k] \in {"resume", "resumeOnly"} /\ reachable
    /\ reloading' = TRUE
    /\ pending' = [pending EXCEPT ![k] = "idle"]
    /\ UNCHANGED <<circuitVars, modal, display, watching, crossed>>

(* An exception, as the server was not reached: retry waits for the page   *)
(* to become visible again ...                                             *)
RetryThrows(k) ==
    /\ ~reloading
    /\ pending[k] \in {"reconnect", "resume"} /\ ~reachable
    /\ watching' = TRUE
    /\ pending' = [pending EXCEPT ![k] = "idle"]
    /\ UNCHANGED <<circuitVars, modal, display, reloading, crossed>>

(* ... and resume reloads.                                                 *)
ResumeThrows(k) ==
    /\ ~reloading
    /\ pending[k] = "resumeOnly" /\ ~reachable
    /\ reloading' = TRUE
    /\ pending' = [pending EXCEPT ![k] = "idle"]
    /\ UNCHANGED <<circuitVars, modal, display, watching, crossed>>

ReconnectLink ==
    \/ AutoReconnect
    \/ \E k \in Call : ReconnectYes(k) \/ ResumeYes(k)

ReconnectNext ==
    \/ AutoRejected \/ AutoGiveUp
    \/ \E k \in Call :
         \/ ClickRetry(k) \/ BecomeVisible(k) \/ ClickResume(k)
         \/ ReconnectNo(k) \/ ResumeNo(k) \/ RetryThrows(k) \/ ResumeThrows(k)

-----------------------------------------------------------------------------
(* A page without a link shows the dialog, and one whose reconnection has  *)
(* failed tries again as soon as the user returns to it: the listener is   *)
(* registered unless a retry is under way, also after exceptions.          *)
StrandedIsArmed ==
    link = "down" =>
        /\ modal
        /\ display = "failed" =>
             watching \/ reloading \/ \E k \in Call : pending[k] \in {"reconnect", "resume"}

(* Once the link is up again, the dialog is closed, and no listener and no *)
(* call of it is left over that could reload or reconnect the page under   *)
(* the user's hands - unless two of the dialog's calls have crossed.       *)
ConnectedIsAtRest ==
    link = "up" => ~modal /\ (~crossed => ~watching /\ AllIdle)

(* A step that begins a reload leaves the page without a link.             *)
ReloadOnlyWhenLost == ~reloading /\ reloading' => link' = "down" \/ crossed

(* A page whose reconnection has failed is connected or reloaded in the    *)
(* end, if the server comes back for good and the user to the page.        *)
ComesBack ==
    <>[]reachable =>
      (display = "failed" /\ link = "down" ~> link = "up" \/ reloading)
=============================================================================
