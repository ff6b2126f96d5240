------------------------- MODULE BrowserPageProofs -------------------------
(* Theorems about BrowserPage, for any instances of the keep-alive         *)
(* component and any number of calls of the reconnect dialog.              *)
EXTENDS BrowserPage, TLAPS

(* OneTimer, with what makes it inductive: cleanup is that of the timer.   *)
TimerInv == OneTimer /\ (intervalId # NoComp => cleanup = intervalId)

(* The dialog is open exactly while the page has no link.                  *)
DialogTellsLink == modal <=> link = "down"

(* Blazor hides the dialog exactly while there is a link.                  *)
Shown == display = "hide" <=> link = "up"

(* While the dialog's calls have not crossed, one is under way at most,    *)
(* and each belongs to what the dialog shows; the listener is there only   *)
(* between calls.                                                          *)
Orderly ==
    ~crossed =>
      /\ \A k, l \in Call : pending[k] # "idle" /\ pending[l] # "idle" => k = l
      /\ watching => AllIdle /\ display = "failed"
      /\ \A k \in Call : /\ pending[k] \in {"reconnect", "resume"} => display = "failed"
                         /\ pending[k] = "resumeOnly" => display = "paused"

DialogInv == DialogTellsLink /\ StrandedIsArmed /\ Shown /\ Orderly

DialogTypeOK == CircuitTypeOK /\ ReconnectTypeOK

-----------------------------------------------------------------------------
(* The keep-alive.                                                         *)
LEMMA NoMessages == <<>> \in Seq(Message) /\ <<>> \in Seq(Question)
OBVIOUS

LEMMA KeepAliveInit ==
    ASSUME FreshPage
    PROVE  KeepAliveTypeOK /\ TimerInv
<1>1. toPage \in Seq(Message) /\ answers \in Seq(Question)
  BY NoMessages DEF FreshPage
<1>2. /\ stage \in [Comp -> {"none", "import", "started", "running"}]
      /\ ending \in [Comp -> {"no", "told", "silent"}]
  BY DEF FreshPage
<1>3. TimerInv
  BY DEF FreshPage, TimerInv, OneTimer
<1> QED BY <1>1, <1>2, <1>3 DEF FreshPage, KeepAliveTypeOK

LEMMA MsgType ==
    ASSUME NEW c \in Comp
    PROVE  /\ Msg("import", c) \in Message /\ Msg("init", c) \in Message
           /\ Msg("dispose", c) \in Message
BY DEF Msg, Message, Question

LEMMA HeadType ==
    ASSUME KeepAliveTypeOK
    PROVE  /\ toPage # <<>> => Head(toPage) \in Message /\ Tail(toPage) \in Seq(Message)
           /\ answers # <<>> => Head(answers) \in Question /\ Tail(answers) \in Seq(Question)
BY DEF KeepAliveTypeOK

LEMMA MessageComp ==
    /\ \A msg \in Message : msg.comp \in Comp
    /\ \A msg \in Question : msg.comp \in Comp
    /\ \A msg \in Message : msg.call \in {"import", "init"} => msg \in Question
BY DEF Message, Question

LEMMA KeepAliveKeeps ==
    ASSUME KeepAliveTypeOK, TimerInv, KeepAliveNext
    PROVE  KeepAliveTypeOK' /\ TimerInv'
<1> USE DEF KeepAliveTypeOK
<1>1. CASE PageImport
  <2>1. Head(toPage) \in Question BY <1>1, HeadType, MessageComp DEF PageImport
  <2>2. answers' \in Seq(Question) /\ toPage' \in Seq(Message)
    BY <1>1, <2>1, HeadType DEF PageImport
  <2> QED BY <1>1, <2>2 DEF PageImport, moduleVars, timerVars, activityVars, TimerInv, OneTimer
<1>2. CASE PageInit
  <2>1. Head(toPage) \in Question /\ Head(toPage).comp \in Comp
    BY <1>2, HeadType, MessageComp DEF PageInit
  <2>2. answers' \in Seq(Question) /\ toPage' \in Seq(Message)
    BY <1>2, <2>1, HeadType DEF PageInit
  <2>3. /\ intervalId' \in Comp \cup {NoComp} /\ cleanup' \in Comp \cup {NoComp}
        /\ timers' \subseteq Comp /\ listening' \subseteq Comp
    BY <1>2, <2>1 DEF PageInit, StartTimer, timerVars
  <2>4. TimerInv'
    BY <1>2, <2>1, NoCompAssumption DEF PageInit, StartTimer, timerVars, TimerInv, OneTimer
  <2> QED BY <1>2, <2>2, <2>3, <2>4 DEF PageInit, activityVars
<1>3. CASE PageDispose
  <2>1. toPage' \in Seq(Message) BY <1>3, HeadType DEF PageDispose
  <2>2. /\ intervalId' \in Comp \cup {NoComp} /\ cleanup' \in Comp \cup {NoComp}
        /\ timers' \subseteq Comp /\ listening' \subseteq Comp
    BY <1>3 DEF PageDispose, StopTimer, timerVars
  <2>3. TimerInv' BY <1>3 DEF PageDispose, StopTimer, timerVars, TimerInv, OneTimer
  <2> QED BY <1>3, <2>1, <2>2, <2>3 DEF PageDispose, activityVars
<1>4. CASE Move \/ Tick \/ RequestArrives \/ RequestFails
  BY <1>4 DEF Move, Tick, RequestArrives, RequestFails, serverVars, timerVars, TimerInv, OneTimer
<1>5. CASE ImportArrives
  <2>1. Head(answers).comp \in Comp BY <1>5, HeadType, MessageComp DEF ImportArrives
  <2>2. answers' \in Seq(Question) /\ toPage' \in Seq(Message)
    BY <1>5, <2>1, HeadType, MsgType DEF ImportArrives
  <2>3. stage' \in [Comp -> {"none", "import", "started", "running"}]
    BY <1>5, <2>1 DEF ImportArrives
  <2> QED BY <1>5, <2>2, <2>3 DEF ImportArrives, moduleVars, timerVars, activityVars, TimerInv, OneTimer
<1>6. CASE InitArrives
  <2>1. Head(answers).comp \in Comp BY <1>6, HeadType, MessageComp DEF InitArrives
  <2>2. answers' \in Seq(Question) BY <1>6, HeadType DEF InitArrives
  <2>3. stage' \in [Comp -> {"none", "import", "started", "running"}]
    BY <1>6, <2>1 DEF InitArrives
  <2> QED BY <1>6, <2>2, <2>3 DEF InitArrives, moduleVars, timerVars, activityVars, TimerInv, OneTimer
<1>7. ASSUME NEW c \in Comp, Render(c) PROVE KeepAliveTypeOK' /\ TimerInv'
  <2>1. toPage' \in Seq(Message) BY <1>7, MsgType DEF Render
  <2>2. /\ stage' \in [Comp -> {"none", "import", "started", "running"}]
        /\ ending' \in [Comp -> {"no", "told", "silent"}]
    BY <1>7 DEF Render
  <2> QED BY <1>7, <2>1, <2>2 DEF Render, moduleVars, timerVars, activityVars, TimerInv, OneTimer
<1>8. ASSUME NEW c \in Comp, Dispose(c) PROVE KeepAliveTypeOK' /\ TimerInv'
  <2>1. toPage' \in Seq(Message)
    <3>1. CASE TellPage(c)
      <4>1. Msg("dispose", c) \in Message BY MsgType
      <4> QED BY <3>1, <4>1 DEF TellPage
    <3>2. CASE EndSilently(c) BY <3>2 DEF EndSilently
    <3> QED BY <1>8, <3>1, <3>2 DEF Dispose
  <2>2. ending' \in [Comp -> {"no", "told", "silent"}]
    BY <1>8 DEF Dispose, TellPage, EndSilently
  <2> QED BY <1>8, <2>1, <2>2 DEF Dispose, moduleVars, timerVars, activityVars, TimerInv, OneTimer
<1> QED BY <1>1, <1>2, <1>3, <1>4, <1>5, <1>6, <1>7, <1>8 DEF KeepAliveNext

(* What befalls the page from outside.                                     *)
LEMMA LossKeeps ==
    ASSUME KeepAliveTypeOK, TimerInv, LoseCalls \/ LoseComponents \/ LosePage
    PROVE  KeepAliveTypeOK' /\ TimerInv'
<1>1. CASE LoseCalls
  <2>1. ending' \in [Comp -> {"no", "told", "silent"}]
    BY <1>1 DEF LoseCalls, KeepAliveTypeOK
  <2>2. toPage' \in Seq(Message) /\ answers' \in Seq(Question)
    BY <1>1, NoMessages DEF LoseCalls, KeepAliveTypeOK
  <2>3. TimerInv' BY <1>1 DEF LoseCalls, moduleVars, timerVars, activityVars, TimerInv, OneTimer
  <2> QED BY <1>1, <2>1, <2>2, <2>3 DEF LoseCalls, moduleVars, timerVars, activityVars, KeepAliveTypeOK
<1>2. CASE LoseComponents
  <2>1. ending' \in [Comp -> {"no", "told", "silent"}]
    BY <1>2 DEF LoseComponents, KeepAliveTypeOK
  <2>2. toPage' \in Seq(Message) /\ answers' \in Seq(Question)
    BY <1>2, NoMessages DEF LoseComponents
  <2>3. TimerInv' BY <1>2 DEF LoseComponents, moduleVars, timerVars, activityVars, TimerInv, OneTimer
  <2> QED BY <1>2, <2>1, <2>2, <2>3 DEF LoseComponents, moduleVars, timerVars, activityVars, KeepAliveTypeOK
<1>3. CASE LosePage
  <2>1. toPage' \in Seq(Message) /\ answers' \in Seq(Question)
    BY <1>3, NoMessages DEF LosePage
  <2>2. /\ stage' \in [Comp -> {"none", "import", "started", "running"}]
        /\ ending' \in [Comp -> {"no", "told", "silent"}]
    BY <1>3 DEF LosePage
  <2>3. TimerInv' BY <1>3 DEF LosePage, TimerInv, OneTimer
  <2> QED BY <1>3, <2>1, <2>2, <2>3 DEF LosePage, KeepAliveTypeOK
<1> QED BY <1>1, <1>2, <1>3

LEMMA KeepAliveRests ==
    ASSUME KeepAliveTypeOK, TimerInv, UNCHANGED keepAliveVars
    PROVE  KeepAliveTypeOK' /\ TimerInv'
BY DEF keepAliveVars, serverVars, moduleVars, timerVars, activityVars, KeepAliveTypeOK, TimerInv, OneTimer

(* The keep-alive's part of every step.                                    *)
LEMMA PageStepKeeps ==
    ASSUME KeepAliveTypeOK, TimerInv, [Next]_vars
    PROVE  KeepAliveTypeOK' /\ TimerInv'
<1>1. CASE KeepAliveStep BY <1>1, KeepAliveKeeps DEF KeepAliveStep
<1>2. CASE \/ ReconnectStep \/ RestoreLink \/ ServerComesOrGoes
  BY <1>2, KeepAliveRests DEF ReconnectStep, RestoreLink, ServerComesOrGoes
<1>3. CASE LinkLost BY <1>3, LossKeeps DEF LinkLost
<1>4. CASE Pause \/ DropCircuit BY <1>4, LossKeeps DEF Pause, DropCircuit
<1>5. CASE Load BY <1>5, LossKeeps DEF Load
<1>6. CASE UNCHANGED vars BY <1>6, KeepAliveRests DEF vars
<1> QED BY <1>1, <1>2, <1>3, <1>4, <1>5, <1>6 DEF Next

-----------------------------------------------------------------------------
(* The dialog.  A step that ends call k of the dialog, or takes it on,     *)
(* changes pending in k only.                                              *)
LEMMA DialogInit ==
    ASSUME Connected, reachable = TRUE, FreshDialog
    PROVE  DialogTypeOK /\ DialogInv
BY DEF Connected, FreshDialog, DialogTypeOK, CircuitTypeOK, ReconnectTypeOK,
       DialogInv, DialogTellsLink, StrandedIsArmed, Shown, Orderly, AllIdle

LEMMA DialogRests ==
    ASSUME DialogTypeOK, DialogInv, UNCHANGED reconnectVars, UNCHANGED link,
           CircuitTypeOK'
    PROVE  DialogTypeOK' /\ DialogInv'
BY DEF reconnectVars, dialogVars, DialogTypeOK, ReconnectTypeOK,
       DialogInv, DialogTellsLink, StrandedIsArmed, Shown, Orderly, AllIdle

(* What Blazor does by itself, and what breaks the link.                   *)
LEMMA BlazorKeeps ==
    ASSUME DialogTypeOK, DialogInv,
           \/ AutoReconnect \/ AutoRejected \/ AutoGiveUp
           \/ BreakLink /\ Tell("show")
           \/ Pause
    PROVE  DialogTypeOK' /\ DialogInv'
<1> USE DEF DialogTypeOK, CircuitTypeOK, ReconnectTypeOK, DialogInv, DialogTellsLink,
            StrandedIsArmed, Shown, Orderly, AllIdle, Tell, HandleReconnectStateChanged
<1>1. CASE AutoReconnect BY <1>1 DEF AutoReconnect, Connect
<1>2. CASE AutoRejected BY <1>2 DEF AutoRejected, circuitVars
<1>3. CASE AutoGiveUp BY <1>3 DEF AutoGiveUp, circuitVars
<1>4. CASE BreakLink /\ Tell("show") BY <1>4 DEF BreakLink
<1>5. CASE Pause BY <1>5 DEF Pause, PauseCircuit
<1> QED BY <1>1, <1>2, <1>3, <1>4, <1>5

(* A call of the dialog begins.                                            *)
LEMMA BeginKeeps ==
    ASSUME DialogTypeOK, DialogInv, NEW k \in Call, Retry(k) \/ ClickResume(k)
    PROVE  DialogTypeOK' /\ DialogInv'
<1> USE DEF DialogTypeOK, CircuitTypeOK, ReconnectTypeOK, DialogInv, DialogTellsLink,
            StrandedIsArmed, Shown, Orderly, AllIdle
<1>1. CASE Retry(k) BY <1>1 DEF Retry, StopWatching, circuitVars
<1>2. CASE ClickResume(k) BY <1>2 DEF ClickResume, circuitVars
<1> QED BY <1>1, <1>2

(* One of its promises is answered.                                        *)
LEMMA AnswerKeeps ==
    ASSUME DialogTypeOK, DialogInv, NEW k \in Call,
           \/ ReconnectYes(k) \/ ReconnectNo(k) \/ RetryThrows(k)
           \/ ResumeYes(k) \/ ResumeNo(k) \/ ResumeThrows(k)
    PROVE  DialogTypeOK' /\ DialogInv'
<1> USE DEF DialogTypeOK, CircuitTypeOK, ReconnectTypeOK, DialogInv, DialogTellsLink,
            StrandedIsArmed, Shown, Orderly, AllIdle
<1>1. CASE ReconnectYes(k)
  BY <1>1 DEF ReconnectYes, Connect, HandleReconnectStateChanged
<1>2. CASE ReconnectNo(k) BY <1>2 DEF ReconnectNo, circuitVars
<1>3. CASE RetryThrows(k) BY <1>3 DEF RetryThrows, circuitVars
<1>4. CASE ResumeYes(k)
  <2>1. /\ modal' = FALSE /\ link' = "up" /\ circuit' = "kept" /\ display' = "hide"
        /\ UNCHANGED <<reachable, watching, reloading, crossed>>
        /\ pending' = [pending EXCEPT ![k] = "idle"]
    BY <1>4 DEF ResumeYes, Connect, CloseDialog, HandleReconnectStateChanged
  <2>2. pending[k] # "idle" BY <1>4 DEF ResumeYes
  <2> QED BY <2>1, <2>2
<1>5. CASE ResumeNo(k) BY <1>5 DEF ResumeNo, circuitVars
<1>6. CASE ResumeThrows(k) BY <1>6 DEF ResumeThrows, circuitVars
<1> QED BY <1>1, <1>2, <1>3, <1>4, <1>5, <1>6

(* The dialog's part of every step.                                        *)
LEMMA DialogStepKeeps ==
    ASSUME DialogTypeOK, DialogInv, [Next]_vars
    PROVE  DialogTypeOK' /\ DialogInv'
<1>1. CASE KeepAliveStep
  <2>1. UNCHANGED circuitVars
    BY <1>1 DEF KeepAliveStep, KeepAliveNext, PageImport, PageInit, PageDispose, Move,
                Tick, RequestArrives, RequestFails, ImportArrives, InitArrives, Render, Dispose
  <2> QED BY <1>1, <2>1, DialogRests DEF KeepAliveStep, circuitVars, DialogTypeOK, CircuitTypeOK
<1>2. CASE ReconnectStep
  BY <1>2, BlazorKeeps, BeginKeeps, AnswerKeeps
     DEF ReconnectStep, ReconnectNext, ClickRetry, BecomeVisible
<1>3. CASE RestoreLink
  BY <1>3, BlazorKeeps, AnswerKeeps DEF RestoreLink, ReconnectLink
<1>4. CASE LinkLost \/ Pause BY <1>4, BlazorKeeps DEF LinkLost
<1>5. CASE DropCircuit
  BY <1>5, DialogRests DEF DropCircuit, EndCircuit, DialogTypeOK, CircuitTypeOK
<1>6. CASE ServerComesOrGoes
  BY <1>6, DialogRests DEF ServerComesOrGoes, Reach, DialogTypeOK, CircuitTypeOK
<1>7. CASE Load
  BY <1>7 DEF Load, Connect, DialogTypeOK, CircuitTypeOK, ReconnectTypeOK,
       DialogInv, DialogTellsLink, StrandedIsArmed, Shown, Orderly, AllIdle
<1>8. CASE UNCHANGED vars
  BY <1>8, DialogRests DEF vars, circuitVars, DialogTypeOK, CircuitTypeOK
<1> QED BY <1>1, <1>2, <1>3, <1>4, <1>5, <1>6, <1>7, <1>8 DEF Next

-----------------------------------------------------------------------------
(* Every reachable state satisfies both parts.                             *)
Inv == KeepAliveTypeOK /\ TimerInv /\ DialogTypeOK /\ DialogInv

LEMMA Invariance == Spec => []Inv
<1>1. Init => Inv
  BY KeepAliveInit, DialogInit DEF Init, Inv
<1>2. Inv /\ [Next]_vars => Inv'
  BY PageStepKeeps, DialogStepKeeps DEF Inv
<1> QED BY <1>1, <1>2, PTL DEF Spec

(* The variables of a page keep their types.                               *)
THEOREM TypeCorrect == Spec => []TypeOK
<1>1. Inv => TypeOK BY DEF Inv, DialogTypeOK, TypeOK
<1> QED BY <1>1, Invariance, PTL

(* session-and-state.js never runs two timers or two sets of listeners in  *)
(* a page, for any number of components that come and go over any number   *)
(* of links and circuits.                                                  *)
THEOREM PageHasOneTimer == Spec => []OneTimer
<1>1. Inv => OneTimer BY DEF Inv, TimerInv
<1> QED BY <1>1, Invariance, PTL

(* retry and retryWhenDocumentBecomesVisible: a page without a link shows  *)
(* the dialog, and after a failed reconnection it keeps a way back, also   *)
(* when any number of calls overlap.                                       *)
THEOREM StrandedPagesAreArmed == Spec => []StrandedIsArmed
<1>1. Inv => StrandedIsArmed BY DEF Inv, DialogInv
<1> QED BY <1>1, Invariance, PTL

(* A connected page shows no dialog and, unless calls have crossed, has no *)
(* listener and no call of the dialog left.                                *)
THEOREM ConnectedRests == Spec => []ConnectedIsAtRest
<1>1. Inv => ConnectedIsAtRest
  BY DEF Inv, DialogTypeOK, CircuitTypeOK, ReconnectTypeOK, DialogInv, DialogTellsLink, Shown,
         Orderly, ConnectedIsAtRest, AllIdle
<1> QED BY <1>1, Invariance, PTL

(* No step reloads a page that has a link, unless calls have crossed.      *)
THEOREM ReloadsOnlyLostPages == Spec => ReloadsAreNeeded
<1>1. ASSUME Inv, [Next]_vars PROVE [ReloadOnlyWhenLost]_vars
  <2> SUFFICES ASSUME Next, ~reloading, reloading', ~crossed PROVE link' = "down"
    BY <1>1 DEF ReloadOnlyWhenLost, vars, reconnectVars
  <2>1. /\ link \in {"up", "down"}
        /\ \A k \in Call : pending[k] # "idle" => link = "down"
    BY <1>1 DEF Inv, DialogTypeOK, CircuitTypeOK, ReconnectTypeOK, DialogInv, Shown, Orderly
  <2>2. CASE ReconnectStep
    BY <2>1, <2>2 DEF ReconnectStep, ReconnectNext, ClickRetry, BecomeVisible, Retry,
         ClickResume, AutoRejected, AutoGiveUp, Tell, HandleReconnectStateChanged,
         ReconnectNo, ResumeNo, RetryThrows, ResumeThrows, circuitVars
  <2>3. ~RestoreLink
    BY DEF RestoreLink, ReconnectLink, AutoReconnect, Tell, ReconnectYes, ResumeYes,
         HandleReconnectStateChanged
  <2>4. CASE LinkLost \/ Pause
    BY <2>4 DEF LinkLost, BreakLink, Pause, PauseCircuit
  <2>5. CASE KeepAliveStep \/ DropCircuit \/ ServerComesOrGoes \/ Load
    BY <2>5 DEF KeepAliveStep, DropCircuit, ServerComesOrGoes, Load, reconnectVars
  <2> QED BY <2>2, <2>3, <2>4, <2>5 DEF Next
<1> QED BY <1>1, Invariance, PTL DEF Spec, ReloadsAreNeeded
=============================================================================
