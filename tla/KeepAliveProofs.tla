-------------------------- MODULE KeepAliveProofs --------------------------
(* Theorems about the keep-alive of a page: what its calls, answers and    *)
(* timers have to do with one another, for any instances of the component. *)
EXTENDS BrowserPageProofs, Integers

(* What the proof tells of a queue: m is in it, is in it once at most, has *)
(* an x behind it wherever it is.                                          *)
Has(q, m) == \E i \in 1..Len(q) : q[i] = m
Once(q, m) == \A i, j \in 1..Len(q) : q[i] = m /\ q[j] = m => i = j
Behind(q, m, x) ==
    \A i \in 1..Len(q) : q[i] = m => \E j \in 1..Len(q) : i < j /\ q[j] = x

(* An import under way is the only one of its component.                   *)
ImportOnce ==
    \A c \in Comp : /\ Once(toPage, Msg("import", c))
                    /\ Once(answers, Msg("import", c))
                    /\ ~(Has(toPage, Msg("import", c)) /\ Has(answers, Msg("import", c)))

(* What is under way for a component, and whether it told the page to      *)
(* stop, fits how far its first render has come.                           *)
CallsFit ==
    \A c \in Comp :
      /\ Has(toPage, Msg("import", c)) \/ Has(answers, Msg("import", c)) => stage[c] = "import"
      /\ Has(toPage, Msg("init", c)) \/ Has(answers, Msg("init", c)) \/ ending[c] = "told"
           => stage[c] \in {"started", "running"}

OneAlive == \A c, d \in Comp : Alive(c) /\ Alive(d) => c = d

(* Calls are in order: the dispose of an earlier component is served       *)
(* before the import of the one that is alive, and a component's own       *)
(* dispose after its init.                                                 *)
InOrder ==
    \A c \in Comp :
      /\ Alive(c) => \A d \in Comp : Behind(toPage, Msg("dispose", d), Msg("import", c))
      /\ ending[c] = "told" => Behind(toPage, Msg("init", c), Msg("dispose", c))

(* A live component whose init was served has a timer; a timer whose       *)
(* component told the page to stop will be stopped.                        *)
Timed ==
    \A c \in Comp :
      /\ Alive(c) /\ (stage[c] = "running" \/ Has(answers, Msg("init", c))) => timers # {}
      /\ c \in timers /\ ending[c] = "told" => Has(toPage, Msg("dispose", c))

KeepAliveInv == ImportOnce /\ CallsFit /\ OneAlive /\ InOrder /\ Timed

-----------------------------------------------------------------------------
(* Queues.                                                                 *)
LEMMA Empty ==
    \A m, x : ~Has(<<>>, m) /\ Once(<<>>, m) /\ Behind(<<>>, m, x)
BY DEF Has, Once, Behind

LEMMA TailIs ==
    ASSUME NEW S, NEW q \in Seq(S), q # <<>>
    PROVE  /\ Len(q) \in Nat /\ Len(q) >= 1 /\ Head(q) = q[1]
           /\ Len(Tail(q)) = Len(q) - 1
           /\ \A i \in 1..Len(q) - 1 : Tail(q)[i] = q[i + 1]
OBVIOUS

LEMMA AppendIs ==
    ASSUME NEW S, NEW q \in Seq(S), NEW m \in S
    PROVE  /\ Len(q) \in Nat /\ Len(Append(q, m)) = Len(q) + 1
           /\ \A i \in 1..Len(q) : Append(q, m)[i] = q[i]
           /\ Append(q, m)[Len(q) + 1] = m
OBVIOUS

(* A message is taken from a queue.                                        *)
LEMMA Taken ==
    ASSUME NEW S, NEW q \in Seq(S), q # <<>>
    PROVE  LET r == Tail(q) IN
           /\ Has(q, Head(q))
           /\ \A m : Has(r, m) => Has(q, m)
           /\ \A m : Has(q, m) /\ m # Head(q) => Has(r, m)
           /\ \A m : Once(q, m) => Once(r, m)
           /\ \A m : Once(q, m) /\ m = Head(q) => ~Has(r, m)
           /\ \A m, x : Behind(q, m, x) => Behind(r, m, x)
           /\ \A x : Behind(q, Head(q), x) => Has(r, x)
<1> DEFINE r == Tail(q)
<1>1. /\ Len(q) \in Nat /\ Len(q) >= 1 /\ Head(q) = q[1] /\ Len(r) = Len(q) - 1
      /\ \A i \in 1..Len(q) - 1 : r[i] = q[i + 1]
  BY TailIs
<1> HIDE DEF r
<1>2. \A i \in 1..Len(r) : i + 1 \in 1..Len(q) /\ i + 1 # 1 /\ r[i] = q[i + 1]
  BY <1>1
<1>3. \A i \in 1..Len(q) : i # 1 => i - 1 \in 1..Len(r) /\ r[i - 1] = q[i]
  <2> SUFFICES ASSUME NEW i \in 1..Len(q), i # 1 PROVE i - 1 \in 1..Len(r) /\ r[i - 1] = q[i]
    OBVIOUS
  <2>1. i - 1 \in 1..Len(q) - 1 /\ (i - 1) + 1 = i BY <1>1
  <2> QED BY <1>1, <2>1
<1>4. 1 \in 1..Len(q) BY <1>1
<1>5. Has(q, Head(q)) BY <1>1, <1>4 DEF Has
<1>6. \A m : Has(r, m) => Has(q, m) BY <1>2 DEF Has
<1>7. \A m : Has(q, m) /\ m # Head(q) => Has(r, m) BY <1>1, <1>3 DEF Has
<1>8. ASSUME NEW m, Once(q, m) PROVE Once(r, m)
  <2> SUFFICES ASSUME NEW i \in 1..Len(r), NEW j \in 1..Len(r), r[i] = m, r[j] = m PROVE i = j
    BY DEF Once
  <2>1. i + 1 = j + 1 BY <1>2, <1>8 DEF Once
  <2>2. i \in Int /\ j \in Int BY <1>1
  <2> QED BY <2>1, <2>2
<1>9. \A m : Once(q, m) /\ m = Head(q) => ~Has(r, m) BY <1>1, <1>2, <1>4 DEF Once, Has
<1>10. ASSUME NEW m, NEW x, Behind(q, m, x) PROVE Behind(r, m, x)
  <2> SUFFICES ASSUME NEW i \in 1..Len(r), r[i] = m
               PROVE  \E j \in 1..Len(r) : i < j /\ r[j] = x
    BY DEF Behind
  <2>1. PICK j \in 1..Len(q) : i + 1 < j /\ q[j] = x BY <1>2, <1>10 DEF Behind
  <2>2. j # 1 /\ i < j - 1 BY <1>1, <2>1
  <2> QED BY <1>3, <2>1, <2>2
<1>11. ASSUME NEW x, Behind(q, Head(q), x) PROVE Has(r, x)
  <2>1. PICK j \in 1..Len(q) : 1 < j /\ q[j] = x BY <1>1, <1>4, <1>11 DEF Behind
  <2>2. j # 1 BY <2>1
  <2> QED BY <1>3, <2>1, <2>2 DEF Has
<1> QED BY <1>5, <1>6, <1>7, <1>8, <1>9, <1>10, <1>11 DEF r

(* A message is put into a queue.                                          *)
LEMMA Put ==
    ASSUME NEW S, NEW q \in Seq(S), NEW y \in S
    PROVE  LET r == Append(q, y) IN
           /\ \A m : Has(r, m) <=> Has(q, m) \/ m = y
           /\ \A m : Once(q, m) /\ m # y => Once(r, m)
           /\ Once(q, y) /\ ~Has(q, y) => Once(r, y)
           /\ \A m, x : Behind(q, m, x) /\ m # y => Behind(r, m, x)
           /\ \A m : m # y => Behind(r, m, y)
<1> DEFINE r == Append(q, y)
<1>1. /\ Len(q) \in Nat /\ Len(r) = Len(q) + 1 /\ r[Len(q) + 1] = y
      /\ \A i \in 1..Len(q) : r[i] = q[i]
  BY AppendIs
<1> HIDE DEF r
<1>2. Len(r) \in 1..Len(r) /\ r[Len(r)] = y BY <1>1
<1>3. \A i \in 1..Len(r) : i # Len(r) => i \in 1..Len(q) /\ r[i] = q[i] BY <1>1
<1>4. \A i \in 1..Len(q) : i \in 1..Len(r) /\ i < Len(r) /\ r[i] = q[i] BY <1>1
<1>5. \A m : Has(r, m) <=> Has(q, m) \/ m = y BY <1>2, <1>3, <1>4 DEF Has
<1>6. /\ \A m : Once(q, m) /\ m # y => Once(r, m)
      /\ Once(q, y) /\ ~Has(q, y) => Once(r, y)
  BY <1>2, <1>3, <1>4 DEF Once, Has
<1>7. ASSUME NEW m, NEW x, Behind(q, m, x), m # y PROVE Behind(r, m, x)
  <2> SUFFICES ASSUME NEW i \in 1..Len(r), r[i] = m
               PROVE  \E j \in 1..Len(r) : i < j /\ r[j] = x
    BY DEF Behind
  <2>1. i \in 1..Len(q) /\ q[i] = m BY <1>2, <1>3, <1>7
  <2> QED BY <1>4, <1>7, <2>1 DEF Behind
<1>8. ASSUME NEW m, m # y PROVE Behind(r, m, y)
  BY <1>2, <1>3, <1>4, <1>8 DEF Behind
<1> QED BY <1>5, <1>6, <1>7, <1>8 DEF r

LEMMA MsgsDiffer ==
    /\ \A f, g, c, d : Msg(f, c) = Msg(g, d) => f = g /\ c = d
    /\ \A f, c : Msg(f, c).call = f /\ Msg(f, c).comp = c
BY DEF Msg

LEMMA MsgOf ==
    /\ \A m \in Message : m = Msg(m.call, m.comp) /\ m.comp \in Comp
    /\ \A m \in Question : m = Msg(m.call, m.comp) /\ m.comp \in Comp
    /\ \A f \in {"import", "init"} : \A c \in Comp : Msg(f, c) \in Question /\ Msg(f, c) \in Message
    /\ \A c \in Comp : Msg("dispose", c) \in Message
BY DEF Msg, Message, Question

-----------------------------------------------------------------------------
(* The page's steps.                                                       *)
LEMMA PageImportKeeps ==
    ASSUME KeepAliveTypeOK, TimerInv, KeepAliveInv, PageImport
    PROVE  KeepAliveInv'
<1> PICK h \in Comp : Head(toPage) = Msg("import", h)
  BY HeadType, MsgOf DEF PageImport
<1>1. /\ toPage # <<>> /\ toPage' = Tail(toPage) /\ answers' = Append(answers, Msg("import", h))
      /\ UNCHANGED <<stage, ending, timers>>
  BY DEF PageImport, moduleVars, timerVars
<1>2. toPage \in Seq(Message) /\ answers \in Seq(Question) /\ Msg("import", h) \in Question
  BY MsgOf DEF KeepAliveTypeOK
<1>3. /\ Has(toPage, Msg("import", h))
      /\ \A m : Has(toPage', m) => Has(toPage, m)
      /\ \A m : Has(toPage, m) /\ m # Msg("import", h) => Has(toPage', m)
      /\ \A m : Once(toPage, m) => Once(toPage', m)
      /\ Once(toPage, Msg("import", h)) => ~Has(toPage', Msg("import", h))
      /\ \A m, x : Behind(toPage, m, x) => Behind(toPage', m, x)
  BY <1>1, <1>2, Taken
<1>4. /\ \A m : Has(answers', m) <=> Has(answers, m) \/ m = Msg("import", h)
      /\ \A m : Once(answers, m) /\ m # Msg("import", h) => Once(answers', m)
      /\ Once(answers, Msg("import", h)) /\ ~Has(answers, Msg("import", h))
           => Once(answers', Msg("import", h))
  BY <1>1, <1>2, Put
<1>5. ImportOnce' BY <1>3, <1>4, MsgsDiffer DEF KeepAliveInv, ImportOnce
<1>6. CallsFit' BY <1>1, <1>3, <1>4, MsgsDiffer DEF KeepAliveInv, CallsFit
<1>7. OneAlive' /\ InOrder' BY <1>1, <1>3 DEF KeepAliveInv, OneAlive, InOrder, Alive
<1>8. Timed' BY <1>1, <1>3, <1>4, MsgsDiffer DEF KeepAliveInv, Timed, Alive
<1> QED BY <1>5, <1>6, <1>7, <1>8 DEF KeepAliveInv

LEMMA PageInitKeeps ==
    ASSUME KeepAliveTypeOK, TimerInv, KeepAliveInv, PageInit
    PROVE  KeepAliveInv'
<1> PICK h \in Comp : Head(toPage) = Msg("init", h)
  BY HeadType, MsgOf DEF PageInit
<1>1. /\ toPage # <<>> /\ toPage' = Tail(toPage) /\ answers' = Append(answers, Msg("init", h))
      /\ UNCHANGED <<stage, ending>>
  BY DEF PageInit
<1>2. toPage \in Seq(Message) /\ answers \in Seq(Question) /\ Msg("init", h) \in Question
  BY MsgOf DEF KeepAliveTypeOK
<1>3. /\ Has(toPage, Msg("init", h))
      /\ \A m : Has(toPage', m) => Has(toPage, m)
      /\ \A m : Has(toPage, m) /\ m # Msg("init", h) => Has(toPage', m)
      /\ \A m : Once(toPage, m) => Once(toPage', m)
      /\ \A m, x : Behind(toPage, m, x) => Behind(toPage', m, x)
      /\ \A x : Behind(toPage, Msg("init", h), x) => Has(toPage', x)
  BY <1>1, <1>2, Taken
<1>4. /\ \A m : Has(answers', m) <=> Has(answers, m) \/ m = Msg("init", h)
      /\ \A m : Once(answers, m) /\ m # Msg("init", h) => Once(answers', m)
  BY <1>1, <1>2, Put
<1>5. timers' # {} /\ \A c \in timers' : c \in timers \/ c = h
  <2>1. Head(toPage).comp = h BY MsgsDiffer
  <2>2. CASE intervalId # NoComp
    <3>1. timers = {intervalId} BY <2>2 DEF TimerInv, OneTimer
    <3> QED BY <2>2, <3>1 DEF PageInit, StartTimer, timerVars
  <2>3. CASE intervalId = NoComp
    <3>1. timers' = timers \cup {h} BY <2>1, <2>3 DEF PageInit, StartTimer, timerVars
    <3> QED BY <3>1
  <2> QED BY <2>2, <2>3
<1>6. ImportOnce' BY <1>3, <1>4, MsgsDiffer DEF KeepAliveInv, ImportOnce
<1>7. CallsFit' BY <1>1, <1>3, <1>4, MsgsDiffer DEF KeepAliveInv, CallsFit
<1>8. OneAlive' /\ InOrder' BY <1>1, <1>3 DEF KeepAliveInv, OneAlive, InOrder, Alive
<1>9. Timed'
  <2>1. \A c \in Comp : c \in timers' /\ ending'[c] = "told" => Has(toPage', Msg("dispose", c))
    BY <1>1, <1>3, <1>5, MsgsDiffer DEF KeepAliveInv, Timed, InOrder
  <2> QED BY <1>5, <2>1 DEF Timed
<1> QED BY <1>6, <1>7, <1>8, <1>9 DEF KeepAliveInv

(* While a component that was initialised is alive, no dispose is under    *)
(* way: one would have the component's import behind it.                   *)
LEMMA PageDisposeKeeps ==
    ASSUME KeepAliveTypeOK, TimerInv, KeepAliveInv, PageDispose
    PROVE  KeepAliveInv'
<1> PICK h \in Comp : Head(toPage) = Msg("dispose", h)
  BY HeadType, MsgOf DEF PageDispose
<1>1. /\ toPage # <<>> /\ toPage' = Tail(toPage)
      /\ UNCHANGED <<answers, stage, ending>>
  BY DEF PageDispose
<1>2. toPage \in Seq(Message) BY DEF KeepAliveTypeOK
<1>3. /\ Has(toPage, Msg("dispose", h))
      /\ \A m : Has(toPage', m) => Has(toPage, m)
      /\ \A m : Once(toPage, m) => Once(toPage', m)
      /\ \A m, x : Behind(toPage, m, x) => Behind(toPage', m, x)
      /\ \A x : Behind(toPage, Msg("dispose", h), x) => Has(toPage', x)
  BY <1>1, <1>2, Taken
<1>4. timers' = {}
  BY DEF PageDispose, StopTimer, timerVars, TimerInv, OneTimer
<1>5. ASSUME NEW c \in Comp, Alive(c)
      PROVE  stage[c] # "running" /\ ~Has(answers, Msg("init", c))
  <2>1. Has(toPage, Msg("import", c))
    BY <1>3, <1>5 DEF KeepAliveInv, InOrder
  <2> QED BY <2>1 DEF KeepAliveInv, CallsFit
<1>6. ImportOnce' BY <1>1, <1>3 DEF KeepAliveInv, ImportOnce
<1>7. CallsFit' BY <1>1, <1>3 DEF KeepAliveInv, CallsFit
<1>8. OneAlive' /\ InOrder' BY <1>1, <1>3 DEF KeepAliveInv, OneAlive, InOrder, Alive
<1>9. Timed' BY <1>1, <1>4, <1>5 DEF Timed, Alive
<1> QED BY <1>6, <1>7, <1>8, <1>9 DEF KeepAliveInv

-----------------------------------------------------------------------------
(* The component's steps.                                                  *)
LEMMA ImportArrivesKeeps ==
    ASSUME KeepAliveTypeOK, TimerInv, KeepAliveInv, ImportArrives
    PROVE  KeepAliveInv'
<1> PICK h \in Comp : Head(answers) = Msg("import", h)
  BY HeadType, MsgOf DEF ImportArrives
<1>0. Head(answers).comp = h BY MsgsDiffer
<1>1. /\ answers # <<>> /\ answers' = Tail(answers)
      /\ stage' = [stage EXCEPT ![h] = "started"]
      /\ toPage' = toPage \/ toPage' = Append(toPage, Msg("init", h))
      /\ UNCHANGED <<ending, timers>>
  BY <1>0 DEF ImportArrives, moduleVars, timerVars
<1>2. toPage \in Seq(Message) /\ answers \in Seq(Question) /\ Msg("init", h) \in Message
  BY MsgOf DEF KeepAliveTypeOK
<1>3. /\ Has(answers, Msg("import", h))
      /\ \A m : Has(answers', m) => Has(answers, m)
      /\ \A m : Once(answers, m) => Once(answers', m)
      /\ Once(answers, Msg("import", h)) => ~Has(answers', Msg("import", h))
  BY <1>1, <1>2, Taken
<1>4. /\ \A m : Has(toPage, m) => Has(toPage', m)
      /\ \A m : Has(toPage', m) => Has(toPage, m) \/ m = Msg("init", h)
      /\ \A m : Once(toPage, m) /\ m # Msg("init", h) => Once(toPage', m)
      /\ \A m, x : Behind(toPage, m, x) /\ m # Msg("init", h) => Behind(toPage', m, x)
  <2>1. CASE toPage' = toPage BY <2>1
  <2>2. CASE toPage' = Append(toPage, Msg("init", h)) BY <1>2, <2>2, Put
  <2> QED BY <1>1, <2>1, <2>2
<1>5. stage[h] = "import" /\ ending[h] # "told" BY <1>3 DEF KeepAliveInv, CallsFit
<1>6. stage'[h] = "started" /\ \A c \in Comp : c # h => stage'[c] = stage[c]
  BY <1>1 DEF KeepAliveTypeOK
<1>7. ImportOnce' BY <1>3, <1>4, MsgsDiffer DEF KeepAliveInv, ImportOnce
<1>8. CallsFit'
  <2>1. ~Has(toPage', Msg("import", h)) /\ ~Has(answers', Msg("import", h))
    BY <1>3, <1>4, MsgsDiffer DEF KeepAliveInv, ImportOnce
  <2> QED BY <1>1, <1>3, <1>4, <1>6, <2>1, MsgsDiffer DEF KeepAliveInv, CallsFit
<1>9. \A c \in Comp : Alive(c)' <=> Alive(c) BY <1>1, <1>5, <1>6 DEF Alive
<1>10. OneAlive' BY <1>9 DEF KeepAliveInv, OneAlive
<1>11. InOrder' BY <1>1, <1>4, <1>5, <1>9, MsgsDiffer DEF KeepAliveInv, InOrder
<1>12. Timed' BY <1>1, <1>3, <1>4, <1>6, <1>9 DEF KeepAliveInv, Timed
<1> QED BY <1>7, <1>8, <1>10, <1>11, <1>12 DEF KeepAliveInv

LEMMA InitArrivesKeeps ==
    ASSUME KeepAliveTypeOK, TimerInv, KeepAliveInv, InitArrives
    PROVE  KeepAliveInv'
<1> PICK h \in Comp : Head(answers) = Msg("init", h)
  BY HeadType, MsgOf DEF InitArrives
<1>0. Head(answers).comp = h BY MsgsDiffer
<1>1. /\ answers # <<>> /\ answers' = Tail(answers)
      /\ stage' = [stage EXCEPT ![h] = "running"]
      /\ UNCHANGED <<toPage, ending, timers>>
  BY <1>0 DEF InitArrives, moduleVars, timerVars
<1>2. answers \in Seq(Question) BY DEF KeepAliveTypeOK
<1>3. /\ Has(answers, Msg("init", h))
      /\ \A m : Has(answers', m) => Has(answers, m)
      /\ \A m : Once(answers, m) => Once(answers', m)
  BY <1>1, <1>2, Taken
<1>4. stage[h] \in {"started", "running"} BY <1>3 DEF KeepAliveInv, CallsFit
<1>5. stage'[h] = "running" /\ \A c \in Comp : c # h => stage'[c] = stage[c]
  BY <1>1 DEF KeepAliveTypeOK
<1>6. ImportOnce' BY <1>1, <1>3 DEF KeepAliveInv, ImportOnce
<1>7. CallsFit' BY <1>1, <1>3, <1>4, <1>5 DEF KeepAliveInv, CallsFit
<1>8. \A c \in Comp : Alive(c)' <=> Alive(c) BY <1>1, <1>4, <1>5 DEF Alive
<1>9. OneAlive' BY <1>8 DEF KeepAliveInv, OneAlive
<1>10. InOrder' BY <1>1, <1>8 DEF KeepAliveInv, InOrder
<1>11. Timed' BY <1>1, <1>3, <1>5, <1>8 DEF KeepAliveInv, Timed
<1> QED BY <1>6, <1>7, <1>9, <1>10, <1>11 DEF KeepAliveInv

LEMMA RenderKeeps ==
    ASSUME KeepAliveTypeOK, TimerInv, KeepAliveInv, NEW c \in Comp, Render(c)
    PROVE  KeepAliveInv'
<1>1. /\ \A d \in Comp : ~Alive(d)
      /\ toPage' = Append(toPage, Msg("import", c))
      /\ stage' = [stage EXCEPT ![c] = "import"] /\ ending' = [ending EXCEPT ![c] = "no"]
      /\ UNCHANGED <<answers, timers>>
  BY DEF Render, moduleVars, timerVars
<1>2. toPage \in Seq(Message) /\ Msg("import", c) \in Message
  BY MsgOf DEF KeepAliveTypeOK
<1>3. /\ \A m : Has(toPage', m) <=> Has(toPage, m) \/ m = Msg("import", c)
      /\ \A m : Once(toPage, m) /\ m # Msg("import", c) => Once(toPage', m)
      /\ Once(toPage, Msg("import", c)) /\ ~Has(toPage, Msg("import", c))
           => Once(toPage', Msg("import", c))
      /\ \A m, x : Behind(toPage, m, x) /\ m # Msg("import", c) => Behind(toPage', m, x)
      /\ \A m : m # Msg("import", c) => Behind(toPage', m, Msg("import", c))
  BY <1>1, <1>2, Put
<1>4. \A f : ~Has(toPage, Msg(f, c)) /\ ~Has(answers, Msg(f, c))
  BY MsgsDiffer DEF Render, Forgotten, InFlight, Has
<1>5. /\ stage'[c] = "import" /\ ending'[c] = "no"
      /\ \A d \in Comp : d # c => stage'[d] = stage[d] /\ ending'[d] = ending[d]
  BY <1>1 DEF KeepAliveTypeOK
<1>6. Alive(c)' /\ \A d \in Comp : Alive(d)' => d = c BY <1>1, <1>5 DEF Alive
<1>7. ImportOnce' BY <1>1, <1>3, <1>4, MsgsDiffer DEF KeepAliveInv, ImportOnce
<1>8. CallsFit' BY <1>1, <1>3, <1>4, <1>5, MsgsDiffer DEF KeepAliveInv, CallsFit
<1>9. OneAlive' BY <1>6 DEF OneAlive
<1>10. InOrder' BY <1>3, <1>5, <1>6, MsgsDiffer DEF KeepAliveInv, InOrder
<1>11. Timed' BY <1>1, <1>3, <1>4, <1>5, <1>6 DEF KeepAliveInv, Timed
<1> QED BY <1>7, <1>8, <1>9, <1>10, <1>11 DEF KeepAliveInv

LEMMA TellPageKeeps ==
    ASSUME KeepAliveTypeOK, TimerInv, KeepAliveInv, NEW c \in Comp, Dispose(c), TellPage(c)
    PROVE  KeepAliveInv'
<1>1. /\ Alive(c) /\ stage[c] \in {"started", "running"}
      /\ toPage' = Append(toPage, Msg("dispose", c))
      /\ ending' = [ending EXCEPT ![c] = "told"]
      /\ UNCHANGED <<answers, stage, timers>>
  BY DEF Dispose, TellPage, moduleVars, timerVars
<1>2. toPage \in Seq(Message) /\ Msg("dispose", c) \in Message
  BY MsgOf DEF KeepAliveTypeOK
<1>3. /\ \A m : Has(toPage', m) <=> Has(toPage, m) \/ m = Msg("dispose", c)
      /\ \A m : Once(toPage, m) /\ m # Msg("dispose", c) => Once(toPage', m)
      /\ \A m, x : Behind(toPage, m, x) /\ m # Msg("dispose", c) => Behind(toPage', m, x)
      /\ \A m : m # Msg("dispose", c) => Behind(toPage', m, Msg("dispose", c))
  BY <1>1, <1>2, Put
<1>4. ending'[c] = "told" /\ \A d \in Comp : d # c => ending'[d] = ending[d]
  BY <1>1 DEF KeepAliveTypeOK
<1>5. \A d \in Comp : ~Alive(d)' BY <1>1, <1>4 DEF Alive, KeepAliveInv, OneAlive
<1>6. ImportOnce' BY <1>1, <1>3, MsgsDiffer DEF KeepAliveInv, ImportOnce
<1>7. CallsFit' BY <1>1, <1>3, <1>4, MsgsDiffer DEF KeepAliveInv, CallsFit
<1>8. OneAlive' BY <1>5 DEF OneAlive
<1>9. InOrder' BY <1>3, <1>4, <1>5, MsgsDiffer DEF KeepAliveInv, InOrder
<1>10. Timed' BY <1>1, <1>3, <1>4, <1>5 DEF KeepAliveInv, Timed
<1> QED BY <1>6, <1>7, <1>8, <1>9, <1>10 DEF KeepAliveInv

LEMMA EndSilentlyKeeps ==
    ASSUME KeepAliveTypeOK, TimerInv, KeepAliveInv, NEW c \in Comp, Dispose(c), EndSilently(c)
    PROVE  KeepAliveInv'
<1>1. /\ ending' = [ending EXCEPT ![c] = "silent"]
      /\ UNCHANGED <<toPage, answers, stage, timers>>
  BY DEF Dispose, EndSilently, moduleVars, timerVars
<1>2. ending'[c] = "silent" /\ \A d \in Comp : d # c => ending'[d] = ending[d]
  BY <1>1 DEF KeepAliveTypeOK
<1>3. \A d \in Comp : Alive(d)' => Alive(d) /\ d # c BY <1>1, <1>2 DEF Alive
<1>4. ImportOnce' BY <1>1 DEF KeepAliveInv, ImportOnce
<1>5. CallsFit' BY <1>1, <1>2 DEF KeepAliveInv, CallsFit
<1>6. OneAlive' BY <1>3 DEF KeepAliveInv, OneAlive
<1>7. InOrder' BY <1>1, <1>2, <1>3 DEF KeepAliveInv, InOrder
<1>8. Timed' BY <1>1, <1>2, <1>3 DEF KeepAliveInv, Timed
<1> QED BY <1>4, <1>5, <1>6, <1>7, <1>8 DEF KeepAliveInv

LEMMA KeepAliveRestsOrdered ==
    ASSUME KeepAliveInv, UNCHANGED <<toPage, answers, stage, ending, timers>>
    PROVE  KeepAliveInv'
BY DEF KeepAliveInv, ImportOnce, CallsFit, OneAlive, InOrder, Timed, Alive

LEMMA KeepAliveStepKeeps ==
    ASSUME KeepAliveTypeOK, TimerInv, KeepAliveInv, KeepAliveNext
    PROVE  KeepAliveInv'
<1>1. CASE PageImport BY <1>1, PageImportKeeps
<1>2. CASE PageInit BY <1>2, PageInitKeeps
<1>3. CASE PageDispose BY <1>3, PageDisposeKeeps
<1>4. CASE Move \/ Tick \/ RequestArrives \/ RequestFails
  BY <1>4, KeepAliveRestsOrdered
     DEF Move, Tick, RequestArrives, RequestFails, serverVars, timerVars
<1>5. CASE ImportArrives BY <1>5, ImportArrivesKeeps
<1>6. CASE InitArrives BY <1>6, InitArrivesKeeps
<1>7. ASSUME NEW c \in Comp, Render(c) PROVE KeepAliveInv' BY <1>7, RenderKeeps
<1>8. ASSUME NEW c \in Comp, Dispose(c) PROVE KeepAliveInv'
  BY <1>8, TellPageKeeps, EndSilentlyKeeps DEF Dispose
<1> QED BY <1>1, <1>2, <1>3, <1>4, <1>5, <1>6, <1>7, <1>8 DEF KeepAliveNext

-----------------------------------------------------------------------------
(* Losses.  Who told the page and is not heard any more counts as silent.  *)
LEMMA LoseCallsKeeps ==
    ASSUME KeepAliveTypeOK, KeepAliveInv, LoseCalls
    PROVE  KeepAliveInv'
<1>1. /\ toPage' = <<>> /\ answers' \in {answers, <<>>}
      /\ UNCHANGED <<stage, timers>>
      /\ \A c \in Comp : ending'[c] = IF Has(toPage, Msg("dispose", c)) THEN "silent" ELSE ending[c]
  BY DEF LoseCalls, moduleVars, timerVars, Has
<1>2. \A m : Has(answers', m) => Has(answers, m) BY <1>1, Empty
<1>3. \A m : Once(answers, m) => Once(answers', m) BY <1>1, Empty
<1>4. \A c \in Comp : ending'[c] = "told" => ending[c] = "told" /\ ~Has(toPage, Msg("dispose", c))
  BY <1>1
<1>5. \A c \in Comp : Alive(c)' => Alive(c) BY <1>1 DEF Alive
<1>6. ImportOnce' BY <1>1, <1>3, Empty DEF KeepAliveInv, ImportOnce
<1>7. CallsFit' BY <1>1, <1>2, <1>4, Empty DEF KeepAliveInv, CallsFit
<1>8. OneAlive' BY <1>5 DEF KeepAliveInv, OneAlive
<1>9. InOrder' BY <1>1, Empty DEF InOrder
<1>10. Timed' BY <1>1, <1>2, <1>4, <1>5 DEF KeepAliveInv, Timed
<1> QED BY <1>6, <1>7, <1>8, <1>9, <1>10 DEF KeepAliveInv

LEMMA LoseComponentsKeeps ==
    ASSUME KeepAliveTypeOK, KeepAliveInv, LoseComponents
    PROVE  KeepAliveInv'
<1>1. /\ toPage' = <<>> /\ answers' = <<>>
      /\ UNCHANGED <<stage, timers>>
      /\ \A c \in Comp : ending'[c] = IF Alive(c) \/ Has(toPage, Msg("dispose", c))
                                      THEN "silent" ELSE ending[c]
  BY DEF LoseComponents, moduleVars, timerVars, Has
<1>2. \A c \in Comp : ending'[c] = "told" => ending[c] = "told" /\ ~Has(toPage, Msg("dispose", c))
  BY <1>1
<1>3. \A c \in Comp : ~Alive(c)' BY <1>1 DEF Alive
<1>4. ImportOnce' /\ InOrder' BY <1>1, Empty DEF ImportOnce, InOrder
<1>5. CallsFit' BY <1>1, <1>2, Empty DEF KeepAliveInv, CallsFit
<1>6. OneAlive' BY <1>3 DEF OneAlive
<1>7. Timed' BY <1>1, <1>2, <1>3 DEF KeepAliveInv, Timed
<1> QED BY <1>4, <1>5, <1>6, <1>7 DEF KeepAliveInv

(* A fresh page: nothing is under way, nobody is alive, no timer runs.     *)
LEMMA Fresh ==
    /\ FreshPage => KeepAliveInv
    /\ LosePage => KeepAliveInv'
<1>1. FreshPage => KeepAliveInv
  BY Empty DEF FreshPage, KeepAliveInv, ImportOnce, CallsFit, OneAlive, InOrder, Timed, Alive
<1>2. LosePage => KeepAliveInv'
  BY Empty DEF LosePage, KeepAliveInv, ImportOnce, CallsFit, OneAlive, InOrder, Timed, Alive
<1> QED BY <1>1, <1>2

-----------------------------------------------------------------------------
LEMMA Ordered == Spec => []KeepAliveInv
<1>1. Init => KeepAliveInv BY Fresh DEF Init
<1>2. ASSUME Inv, KeepAliveInv, [Next]_vars PROVE KeepAliveInv'
  <2>0. KeepAliveTypeOK /\ TimerInv BY <1>2 DEF Inv
  <2>1. CASE KeepAliveStep BY <1>2, <2>0, <2>1, KeepAliveStepKeeps DEF KeepAliveStep
  <2>2. CASE ReconnectStep \/ RestoreLink \/ ServerComesOrGoes \/ UNCHANGED vars
    <3>1. UNCHANGED keepAliveVars
      BY <2>2 DEF ReconnectStep, RestoreLink, ServerComesOrGoes, vars
    <3> QED BY <1>2, <3>1, KeepAliveRestsOrdered DEF keepAliveVars, serverVars, moduleVars, timerVars
  <2>3. CASE LinkLost BY <1>2, <2>0, <2>3, LoseCallsKeeps DEF LinkLost
  <2>4. CASE Pause \/ DropCircuit
    BY <1>2, <2>0, <2>4, LoseComponentsKeeps DEF Pause, DropCircuit
  <2>5. CASE Load BY <2>5, Fresh DEF Load
  <2> QED BY <1>2, <2>1, <2>2, <2>3, <2>4, <2>5 DEF Next
<1> QED BY <1>1, <1>2, Invariance, PTL DEF Spec

(* DisposeAsync leaves no timer behind: the one of a component that told   *)
(* the page to stop is gone, or a dispose is still under way to it.        *)
THEOREM DisposedTimersEnd == Spec => []TimerHasOwner
<1>1. ASSUME Inv, KeepAliveInv PROVE TimerHasOwner
  <2> SUFFICES ASSUME NEW c \in timers, ending[c] = "told" PROVE DisposeInFlight
    BY DEF TimerHasOwner
  <2>1. c \in Comp BY <1>1 DEF Inv, KeepAliveTypeOK
  <2>2. Has(toPage, Msg("dispose", c)) BY <1>1, <2>1 DEF KeepAliveInv, Timed
  <2> QED BY <2>2, MsgsDiffer DEF Has, DisposeInFlight
<1> QED BY <1>1, Invariance, Ordered, PTL

(* A live component whose init was answered has a timer in the page, also  *)
(* when init did nothing because an earlier component's was found there.   *)
THEOREM InitialisedIsTimed == Spec => []InitialisedMeansTimer
<1>1. KeepAliveInv => InitialisedMeansTimer
  BY DEF KeepAliveInv, Timed, InitialisedMeansTimer
<1> QED BY <1>1, Ordered, PTL
================================================================================
