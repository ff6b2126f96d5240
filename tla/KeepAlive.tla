----------------------------- MODULE KeepAlive -----------------------------
(***************************************************************************)
(* The keep-alive of a page: the component SessionAndStateScripts on the   *)
(* server and the module session-and-state.js in the page.  The component  *)
(* calls the page through the circuit; calls and answers arrive in order   *)
(* or, when the link is lost, not at all.  The page's module is one object *)
(* for all components and circuits that come and go while the page stays.  *)
(***************************************************************************)
EXTENDS Circuit, Naturals, Sequences

CONSTANTS
    Comp,       \* instances of the component, reused once forgotten
    NoComp

ASSUME NoCompAssumption == NoComp \notin Comp

VARIABLES
    toPage,     \* calls on their way to the page
    answers,    \* answers on their way back
    stage,      \* how far OnAfterRenderAsync has come: "none", "import",
                \* "started" (_jsModule is set), "running" (_initialized)
    ending,     \* "no"; "told": dispose was sent to the page; "silent"
    intervalId, \* the instance whose init set the timer, or NoComp
    timers,     \* the instances whose timers run in the page
    listening,  \* the instances whose activity listeners are registered
    cleanup,    \* the instance whose listeners cleanup removes
    hasActivity,
    report      \* history, the fate of one activity picked at any time:
                \* "none" is picked or it has reached the server; "due";
                \* "sent", the request is under way; "lost", it failed

serverVars == <<toPage, answers, stage, ending>>
timerVars == <<intervalId, timers, listening, cleanup>>
activityVars == <<hasActivity, report>>
moduleVars == <<timerVars, activityVars>>
keepAliveVars == <<serverVars, moduleVars>>

Question == [call : {"import", "init"}, comp : Comp]
Message == Question \cup [call : {"dispose"}, comp : Comp]
Msg(f, c) == [call |-> f, comp |-> c]

KeepAliveTypeOK ==
    /\ toPage \in Seq(Message) /\ answers \in Seq(Question)
    /\ stage \in [Comp -> {"none", "import", "started", "running"}]
    /\ ending \in [Comp -> {"no", "told", "silent"}]
    /\ intervalId \in Comp \cup {NoComp} /\ cleanup \in Comp \cup {NoComp}
    /\ timers \subseteq Comp /\ listening \subseteq Comp
    /\ hasActivity \in BOOLEAN /\ report \in {"none", "due", "sent", "lost"}

InFlight(q, c) == \E i \in 1..Len(q) : q[i].comp = c
DisposeInFlight == \E i \in 1..Len(toPage) : toPage[i].call = "dispose"
Alive(c) == stage[c] # "none" /\ ending[c] = "no"
Forgotten(c) ==
    /\ ~Alive(c)
    /\ c \notin timers \cup listening
    /\ ~InFlight(toPage, c) /\ ~InFlight(answers, c)

(* A page that has just been loaded: no timer, no component yet.           *)
FreshPage ==
    /\ toPage = <<>> /\ answers = <<>>
    /\ stage = [c \in Comp |-> "none"]
    /\ ending = [c \in Comp |-> "no"]
    /\ intervalId = NoComp /\ cleanup = NoComp
    /\ timers = {} /\ listening = {} /\ hasActivity = FALSE /\ report = "none"

-----------------------------------------------------------------------------
(* Faulty variants, substituted for the steps below to try the properties. *)

(* init does not look at intervalId.                                       *)
InitAgain(c) ==
    /\ intervalId' = c
    /\ timers' = timers \cup {c}
    /\ listening' = listening \cup {c}
    /\ cleanup' = c

(* dispose is answered like the other calls, and somebody waits for it.    *)
AnswerDispose ==
    /\ toPage # <<>> /\ Head(toPage).call = "dispose"
    /\ timers' = {} /\ listening' = {} /\ intervalId' = NoComp
    /\ answers' = Append(answers, Head(toPage))
    /\ toPage' = Tail(toPage)
    /\ UNCHANGED <<circuitVars, stage, ending, cleanup, activityVars>>

(* The tick does nothing while the circuit is not connected.               *)
TickOnLink ==
    /\ timers # {} /\ link = "up"
    /\ hasActivity
    /\ hasActivity' = FALSE
    /\ report' = IF report = "due" THEN "sent" ELSE report
    /\ UNCHANGED <<circuitVars, serverVars, timerVars>>

(* _initialized is set before init is awaited.                             *)
InitialisedTooEarly ==
    /\ answers # <<>> /\ Head(answers).call = "import"
    /\ LET c == Head(answers).comp IN
         /\ stage' = [stage EXCEPT ![c] = "running"]
         /\ toPage' = IF link = "up" THEN Append(toPage, Msg("init", c)) ELSE toPage
    /\ answers' = Tail(answers)
    /\ UNCHANGED <<circuitVars, ending, moduleVars>>

(* DisposeAsync lets go of the module without calling dispose.             *)
DropModuleOnly(c) ==
    /\ stage[c] \in {"started", "running"} /\ link = "up"
    /\ ending' = [ending EXCEPT ![c] = "told"]
    /\ UNCHANGED toPage

-----------------------------------------------------------------------------
(* The module: init does nothing when there is a timer already ...         *)
StartTimer(c) ==
    IF intervalId # NoComp
    THEN UNCHANGED timerVars
    ELSE /\ intervalId' = c
         /\ timers' = timers \cup {c}
         /\ listening' = listening \cup {c}
         /\ cleanup' = c

(* ... and dispose nothing when there is none.  cleanup keeps its value.   *)
StopTimer ==
    IF intervalId = NoComp
    THEN UNCHANGED timerVars
    ELSE /\ timers' = timers \ {intervalId}
         /\ intervalId' = NoComp
         /\ listening' = listening \ {cleanup}
         /\ UNCHANGED cleanup

(* The page serves the next call and answers it; nobody waits for dispose. *)
PageImport ==
    /\ toPage # <<>> /\ Head(toPage).call = "import"
    /\ answers' = Append(answers, Head(toPage))
    /\ toPage' = Tail(toPage)
    /\ UNCHANGED <<circuitVars, stage, ending, moduleVars>>

PageInit ==
    /\ toPage # <<>> /\ Head(toPage).call = "init"
    /\ StartTimer(Head(toPage).comp)
    /\ answers' = Append(answers, Head(toPage))
    /\ toPage' = Tail(toPage)
    /\ UNCHANGED <<circuitVars, stage, ending, activityVars>>

PageDispose ==
    /\ toPage # <<>> /\ Head(toPage).call = "dispose"
    /\ StopTimer
    /\ toPage' = Tail(toPage)
    /\ UNCHANGED <<circuitVars, answers, stage, ending, activityVars>>

(* onActivity, for any of the listeners.                                   *)
Move ==
    /\ listening # {} /\ ~hasActivity
    /\ hasActivity' = TRUE
    /\ report' \in IF report = "sent" THEN {"sent"} ELSE {report, "due"}
    /\ UNCHANGED <<circuitVars, serverVars, timerVars>>

(* The timer's function with something to report: the flag is reset and    *)
(* the request sent.  Nobody waits for it.                                 *)
Tick ==
    /\ timers # {}
    /\ hasActivity
    /\ hasActivity' = FALSE
    /\ report' = IF report = "due" THEN "sent" ELSE report
    /\ UNCHANGED <<circuitVars, serverVars, timerVars>>

(* The request arrives at a server that answers, or fails at one that does *)
(* not; a failure is only logged.                                          *)
RequestArrives ==
    /\ report = "sent" /\ reachable
    /\ report' = "none"
    /\ UNCHANGED <<circuitVars, serverVars, timerVars, hasActivity>>

RequestFails ==
    /\ report = "sent" /\ ~reachable
    /\ report' = "lost"
    /\ UNCHANGED <<circuitVars, serverVars, timerVars, hasActivity>>

-----------------------------------------------------------------------------
(* The component: OnAfterRenderAsync after the first render.  A layout has *)
(* one such component at a time.                                           *)
Render(c) ==
    /\ link = "up"
    /\ Forgotten(c)
    /\ \A d \in Comp : ~Alive(d)
    /\ stage' = [stage EXCEPT ![c] = "import"]
    /\ ending' = [ending EXCEPT ![c] = "no"]
    /\ toPage' = Append(toPage, Msg("import", c))
    /\ UNCHANGED <<circuitVars, answers, moduleVars>>

(* _jsModule is there and init is called, also when the component has been *)
(* disposed of in the meantime.  A call without a link is lost.            *)
ImportArrives ==
    /\ answers # <<>> /\ Head(answers).call = "import"
    /\ LET c == Head(answers).comp IN
         /\ stage' = [stage EXCEPT ![c] = "started"]
         /\ toPage' = IF link = "up" THEN Append(toPage, Msg("init", c)) ELSE toPage
    /\ answers' = Tail(answers)
    /\ UNCHANGED <<circuitVars, ending, moduleVars>>

InitArrives ==
    /\ answers # <<>> /\ Head(answers).call = "init"
    /\ stage' = [stage EXCEPT ![Head(answers).comp] = "running"]
    /\ answers' = Tail(answers)
    /\ UNCHANGED <<circuitVars, toPage, ending, moduleVars>>

(* DisposeAsync tells the page, if _jsModule is set and the call gets out. *)
TellPage(c) ==
    /\ stage[c] \in {"started", "running"} /\ link = "up"
    /\ ending' = [ending EXCEPT ![c] = "told"]
    /\ toPage' = Append(toPage, Msg("dispose", c))

EndSilently(c) ==
    /\ stage[c] = "import" \/ link = "down"
    /\ ending' = [ending EXCEPT ![c] = "silent"]
    /\ UNCHANGED toPage

Dispose(c) ==
    /\ Alive(c)
    /\ TellPage(c) \/ EndSilently(c)
    /\ UNCHANGED <<circuitVars, answers, stage, moduleVars>>

-----------------------------------------------------------------------------
(* What the link and the circuit do to the keep-alive: calls in flight are *)
(* lost; an answer may have been taken in before.                          *)
LoseCalls ==
    /\ toPage' = <<>>
    /\ answers' \in {answers, <<>>}
    /\ ending' = [c \in Comp |->
                    IF \E i \in 1..Len(toPage) : toPage[i] = Msg("dispose", c)
                    THEN "silent" ELSE ending[c]]
    /\ UNCHANGED <<stage, moduleVars>>

(* The circuit's components are disposed of without a page to tell: the    *)
(* JSDisconnectedException is caught.                                      *)
LoseComponents ==
    /\ toPage' = <<>> /\ answers' = <<>>
    /\ ending' = [c \in Comp |->
                    IF Alive(c) \/ \E i \in 1..Len(toPage) : toPage[i] = Msg("dispose", c)
                    THEN "silent" ELSE ending[c]]
    /\ UNCHANGED <<stage, moduleVars>>

(* The page is loaded anew.                                                *)
LosePage ==
    /\ toPage' = <<>> /\ answers' = <<>>
    /\ stage' = [c \in Comp |-> "none"]
    /\ ending' = [c \in Comp |-> "no"]
    /\ intervalId' = NoComp /\ cleanup' = NoComp
    /\ timers' = {} /\ listening' = {} /\ hasActivity' = FALSE /\ report' = "none"

KeepAliveNext ==
    \/ PageImport \/ PageInit \/ PageDispose
    \/ Move \/ Tick \/ RequestArrives \/ RequestFails
    \/ ImportArrives \/ InitArrives
    \/ \E c \in Comp : Render(c) \/ Dispose(c)

-----------------------------------------------------------------------------
(* However components come and go, the page has at most one timer and one  *)
(* set of listeners, and intervalId is that timer's: it can be stopped.    *)
OneTimer ==
    /\ timers = {intervalId} \ {NoComp}
    /\ listening = timers

(* The timer of a component that told the page to stop is gone, or the     *)
(* word is still on its way: DisposeAsync leaves no timer behind.          *)
TimerHasOwner ==
    \A c \in timers : ending[c] = "told" => DisposeInFlight

(* A component that believes it is initialised has a timer in the page,    *)
(* its own or one it found there, whatever links and circuits were lost.   *)
InitialisedMeansTimer ==
    (\E c \in Comp : Alive(c) /\ stage[c] = "running") => timers # {}
=============================================================================
