--------------------------- MODULE SessionDataProofs ---------------------------
(* What a browser has written stays in its session: theorems about         *)
(* SessionManager for the browsers whose requests keep out of each other's *)
(* way, for any browsers, scopes, keys and items.                          *)
EXTENDS SessionManagerProofs

Pending(f) ==
    \/ f.at \in {"generate", "transition", "migrate", "finish", "clear"}
    \/ {f.setAnon, f.setAuth} # {Same}

Busy(t, b) == scope[t].browser = b /\ Pending(scope[t])

KeyOfJar(j) == IF j.auth # NoKey THEN j.auth ELSE j.anon

(* The key of the session a request that is changing it has got to: the    *)
(* context's, except between the migration and the end of a sign-in and    *)
(* between the removal and the end of a sign-out.                          *)
HomeOf(f) ==
    IF f.at = "finish" THEN f.to ELSE IF f.at = "clear" THEN NoKey ELSE f.key

(* The frames of a browser that is not excused: how what a scope saw, its  *)
(* context and the cookies it will set hang together.                      *)
CookiesFit(f) ==
    /\ f.setAnon = NoKey => f.setAuth # Same
    /\ f.setAnon \notin {Same, NoKey} =>
         f.setAuth = Same /\ f.key = f.setAnon /\ f.est /\ ~f.auth /\ f.saw = EmptyJar
    /\ f.setAuth # Same =>
         /\ f.at = "run" /\ f.key = f.setAuth /\ f.setAnon \in {Same, NoKey}
         /\ f.setAnon = Same => f.setAuth = f.saw.auth

ContextFits(f) ==
    /\ ~f.est => f.key = NoKey /\ ~f.auth
    /\ f.est /\ f.key = NoKey => f.saw = EmptyJar
    /\ ~f.started /\ (f.est \/ f.at # "establish") /\ f.setAnon = Same =>
         f.key = KeyOfJar(f.saw)

StageFits(f) ==
    /\ f.started => f.at \in {"establish", "run"} /\ f.setAnon = Same /\ f.setAuth = Same
    /\ f.at = "establish" => f.setAnon = Same /\ f.setAuth = Same
    /\ f.at = "generate" =>
         /\ f.setAnon = Same /\ f.setAuth = Same /\ f.saw = EmptyJar
         /\ f.key = NoKey /\ ~f.est
    /\ f.at \in {"transition", "migrate", "finish"} => f.from = f.key /\ f.saw.auth = NoKey
    /\ f.at \in {"migrate", "finish"} => f.to # NoKey

Shape(f) ==
    /\ f.saw.auth # NoKey => f.saw.anon = NoKey
    /\ CookiesFit(f) /\ ContextFits(f) /\ StageFits(f)

(* The items a browser wrote and no sign-out has covered are in session k, *)
(* and its other items are nowhere.                                        *)
Items(b, k) ==
    \A i \in Item : wrote[i] = b =>
      /\ i \in kept => k # NoKey /\ i \in data[k]
      /\ \A j \in Key : i \in data[j] => i \in kept /\ j = k

Frames(b, k) ==
    \A s \in Scope : scope[s].browser = b =>
      /\ Shape(scope[s])
      /\ {scope[s].key, KeyOfJar(scope[s].saw)} \subseteq {NoKey, k} \cup gone

OneIsBusy(b, k) ==
    \A s \in Scope : Busy(s, b) =>
      /\ scope[s].saw = jar[b] /\ HomeOf(scope[s]) = k
      /\ \A t \in Scope : Busy(t, b) => s = t

(* Browser b's session is k: it is the session of the cookies or the one   *)
(* the only request that is changing it has got to; every other key that a *)
(* scope of the browser or its cookies stand for is that of a session that *)
(* is over.                                                                *)
Session(b, k) ==
    /\ Frames(b, k) /\ OneIsBusy(b, k) /\ Items(b, k)
    /\ KeyOfJar(jar[b]) \in {NoKey, k} \cup gone
    /\ (\A t \in Scope : ~Busy(t, b)) => k = KeyOfJar(jar[b])
    /\ jar[b].auth # NoKey => jar[b].anon = NoKey

SessionInv == \A b \in Browser \ excused : \E k \in MaybeKey : Session(b, k)

-----------------------------------------------------------------------------
LEMMA ChangingIsPending == \A t \in Scope : Changing(t) <=> Pending(scope[t])
BY DEF Changing, Pending

LEMMA NotInTheWay ==
    ASSUME NEW s \in Scope, NEW b, scope[s].browser = b, ~InTheWay(s)
    PROVE  scope[s].saw = jar[b] /\ \A t \in Scope \ {s} : ~Busy(t, b)
BY ChangingIsPending DEF InTheWay, Busy

(* What the session says of one of the browser's scopes.                   *)
LEMMA Mine ==
    ASSUME NEW s \in Scope, NEW b, NEW k, scope[s].browser = b, Session(b, k)
    PROVE  /\ Shape(scope[s])
           /\ scope[s].key \in {NoKey, k} \cup gone
           /\ KeyOfJar(scope[s].saw) \in {NoKey, k} \cup gone
           /\ Pending(scope[s]) => /\ scope[s].saw = jar[b] /\ HomeOf(scope[s]) = k
                                   /\ \A t \in Scope \ {s} : ~Busy(t, b)
           /\ ~Pending(scope[s]) /\ (\A t \in Scope \ {s} : ~Busy(t, b)) =>
                k = KeyOfJar(jar[b])
BY DEF Session, Frames, OneIsBusy, Busy

(* The session of a browser is one that the browser knows.                 *)
LEMMA SessionIsKnown ==
    ASSUME NEW b, NEW k \in Key, Session(b, k)
    PROVE  Knows(b, k)
<1>1. CASE \E t \in Scope : Busy(t, b)
  <2>1. PICK t \in Scope : Busy(t, b) BY <1>1
  <2>2. HomeOf(scope[t]) = k /\ scope[t].browser = b BY <2>1 DEF Session, OneIsBusy, Busy
  <2>3. k \in {scope[t].to, scope[t].key} BY <2>2, KeyAssumption DEF HomeOf
  <2> QED BY <2>2, <2>3 DEF Knows, KeysOf
<1>2. CASE \A t \in Scope : ~Busy(t, b)
  BY <1>2 DEF Session, KeyOfJar, Knows
<1> QED BY <1>1, <1>2

(* What a step of one scope does to the sessions of the other browsers:    *)
(* nothing, as long as it takes none of their keys off those whose session *)
(* is over and leaves their items where they are.                          *)
LEMMA Elsewhere ==
    ASSUME Inv, Inv', NEW s \in Scope, NEW c \in Browser, NEW k \in MaybeKey, NEW g,
           scope' = [scope EXCEPT ![s] = g],
           scope[s].browser # c, g.browser # c, jar'[c] = jar[c],
           \A j \in Key : Knows(c, j) /\ j \in gone => j \in gone',
           \A i \in Item : wrote'[i] = c =>
             /\ wrote[i] = c /\ (i \in kept' <=> i \in kept)
             /\ \A j \in Key : i \in data'[j] <=> i \in data[j],
           Session(c, k)
    PROVE  Session(c, k)'
<1>1. scope \in [Scope -> Frame] /\ jar \in [Browser -> Jar] /\ NoKey \notin Key
  BY KeyAssumption DEF Inv, TypeOK
<1>2. scope'[s] = g /\ \A t \in Scope : t # s => scope'[t] = scope[t] BY <1>1
<1>3. \A t \in Scope : scope'[t].browser = c => scope'[t] = scope[t] /\ scope[t].browser = c
  BY <1>2
<1>4. \A t \in Scope : Busy(t, c)' <=> Busy(t, c) BY <1>2 DEF Busy
<1>5. \A j \in {NoKey, k} \cup gone : j \in MaybeKey /\ (j # NoKey => Knows(c, j)) =>
        j \in {NoKey, k} \cup gone'
  BY DEF MaybeKey
<1>6. Frames(c, k)'
  <2> SUFFICES ASSUME NEW t \in Scope, scope'[t].browser = c
               PROVE  /\ Shape(scope'[t])
                      /\ scope'[t].key \in {NoKey, k} \cup gone'
                      /\ KeyOfJar(scope'[t].saw) \in {NoKey, k} \cup gone'
    BY DEF Frames
  <2>1. scope'[t] = scope[t] /\ scope[t].browser = c BY <1>3
  <2>2. scope[t].key \in MaybeKey /\ KeyOfJar(scope[t].saw) \in MaybeKey
    BY <1>1, FrameFields DEF KeyOfJar
  <2>3. \A j \in {scope[t].key, KeyOfJar(scope[t].saw)} : j # NoKey => Knows(c, j)
    BY <2>1 DEF Knows, KeysOf, KeyOfJar
  <2> QED BY <1>5, <2>1, <2>2, <2>3 DEF Session, Frames
<1>7. OneIsBusy(c, k)'
  <2>1. \A t \in Scope : Busy(t, c)' => scope'[t] = scope[t] BY <1>3 DEF Busy
  <2> QED BY <1>4, <2>1 DEF Session, OneIsBusy
<1>8. Items(c, k)'
  <2>1. k = NoKey \/ k \in Key BY DEF MaybeKey
  <2> QED BY <2>1 DEF Session, Items
<1>9. KeyOfJar(jar'[c]) \in {NoKey, k} \cup gone'
  <2>1. KeyOfJar(jar[c]) \in MaybeKey BY <1>1 DEF Jar, KeyOfJar
  <2>2. KeyOfJar(jar[c]) # NoKey => Knows(c, KeyOfJar(jar[c])) BY DEF Knows, KeyOfJar
  <2> QED BY <1>5, <2>1, <2>2 DEF Session
<1> QED BY <1>4, <1>6, <1>7, <1>8, <1>9 DEF Session

(* What a step does to the session of the scope's own browser.             *)
LEMMA Own ==
    ASSUME Inv, NEW s \in Scope, NEW b \in Browser, NEW k \in MaybeKey,
           NEW h \in MaybeKey, NEW g,
           Session(b, k), scope' = [scope EXCEPT ![s] = g],
           g.browser = b => /\ Shape(g)
                            /\ {g.key, KeyOfJar(g.saw)} \subseteq {NoKey, h} \cup gone',
           g.browser = b /\ Pending(g) =>
             g.saw = jar'[b] /\ HomeOf(g) = h /\ \A t \in Scope \ {s} : ~Busy(t, b),
           (\E t \in Scope \ {s} : Busy(t, b)) => h = k /\ jar'[b] = jar[b],
           (\A t \in Scope \ {s} : ~Busy(t, b)) /\ ~(g.browser = b /\ Pending(g)) =>
             h = KeyOfJar(jar'[b]),
           KeyOfJar(jar'[b]) \in {NoKey, h} \cup gone', k \in {NoKey, h} \cup gone',
           \A j \in Key : Knows(b, j) /\ j \in gone => j \in gone',
           jar'[b].auth # NoKey => jar'[b].anon = NoKey,
           Items(b, h)'
    PROVE  Session(b, h)'
<1>1. scope \in [Scope -> Frame] BY DEF Inv, TypeOK
<1>2. scope'[s] = g /\ \A t \in Scope : t # s => scope'[t] = scope[t] BY <1>1
<1>3. Frames(b, h)'
  <2> SUFFICES ASSUME NEW t \in Scope, scope'[t].browser = b
               PROVE  /\ Shape(scope'[t])
                      /\ scope'[t].key \in {NoKey, h} \cup gone'
                      /\ KeyOfJar(scope'[t].saw) \in {NoKey, h} \cup gone'
    BY DEF Frames
  <2>1. CASE t = s BY <1>2, <2>1
  <2>2. CASE t # s
    <3>1. scope'[t] = scope[t] /\ scope[t].browser = b BY <1>2, <2>2
    <3>2. scope[t].key \in MaybeKey /\ KeyOfJar(scope[t].saw) \in MaybeKey
      BY <1>1, FrameFields DEF KeyOfJar
    <3>3. \A j \in {scope[t].key, KeyOfJar(scope[t].saw)} : j # NoKey => Knows(b, j)
      BY <3>1 DEF Knows, KeysOf, KeyOfJar
    <3>4. \A j \in {scope[t].key, KeyOfJar(scope[t].saw)} : j \in {NoKey, k} \cup gone
      BY <3>1 DEF Session, Frames
    <3>5. \A j \in {scope[t].key, KeyOfJar(scope[t].saw)} : j \in {NoKey, h} \cup gone'
      BY <3>2, <3>3, <3>4 DEF MaybeKey
    <3> QED BY <3>1, <3>5 DEF Session, Frames
  <2> QED BY <2>1, <2>2
<1>4. \A t \in Scope : Busy(t, b)' <=> IF t = s THEN g.browser = b /\ Pending(g) ELSE Busy(t, b)
  BY <1>2 DEF Busy
<1>5. OneIsBusy(b, h)'
  <2> SUFFICES ASSUME NEW t \in Scope, Busy(t, b)'
               PROVE  /\ scope'[t].saw = jar'[b] /\ HomeOf(scope'[t]) = h
                      /\ \A u \in Scope : Busy(u, b)' => t = u
    BY DEF OneIsBusy
  <2>1. CASE t = s BY <1>2, <1>4, <2>1
  <2>2. CASE t # s
    <3>1. Busy(t, b) /\ scope'[t] = scope[t] BY <1>2, <1>4, <2>2
    <3>2. h = k /\ jar'[b] = jar[b] /\ ~(g.browser = b /\ Pending(g)) BY <2>2, <3>1
    <3> QED BY <1>4, <3>1, <3>2 DEF Session, OneIsBusy
  <2> QED BY <2>1, <2>2
<1>6. (\A t \in Scope : ~Busy(t, b)') => h = KeyOfJar(jar'[b]) BY <1>4
<1> QED BY <1>3, <1>5, <1>6 DEF Session

(* What the new frame g of slot s has to be for session k of browser b to  *)
(* go on as it is.                                                         *)
Allowed(s, b, g, k) ==
    /\ g.browser = b =>
         Shape(g) /\ {g.key, KeyOfJar(g.saw)} \subseteq {NoKey, k} \cup gone
    /\ g.browser = b /\ Pending(g) =>
         g.saw = jar[b] /\ HomeOf(g) = k /\ \A t \in Scope \ {s} : ~Busy(t, b)
    /\ (\A t \in Scope \ {s} : ~Busy(t, b)) /\ ~(g.browser = b /\ Pending(g)) =>
         k = KeyOfJar(jar[b])

(* A step of a scope of browser b that leaves data, history and cookies    *)
(* alone leaves everybody's session alone, if the scope's new frame fits   *)
(* its browser's.                                                          *)
LEMMA Quiet ==
    ASSUME Inv, Inv', SessionInv, NEW s \in Scope, NEW b \in Browser, NEW g,
           scope' = [scope EXCEPT ![s] = g],
           scope[s].browser \in {b, NoKey}, g.browser \in {b, NoKey},
           UNCHANGED <<jar, data, wrote, kept, gone>>,
           excused \subseteq excused',
           \A k \in MaybeKey : b \notin excused' /\ Session(b, k) => Allowed(s, b, g, k)
    PROVE  SessionInv'
<1> SUFFICES ASSUME NEW c \in Browser, c \notin excused'
             PROVE  \E k \in MaybeKey : Session(c, k)'
  BY DEF SessionInv
<1>1. PICK k \in MaybeKey : Session(c, k) BY DEF SessionInv
<1>2. NoKey \notin Browser BY KeyAssumption
<1>3. CASE c # b
  <2>1. scope[s].browser # c /\ g.browser # c BY <1>2, <1>3
  <2>2. Session(c, k)' BY <1>1, <2>1, Elsewhere
  <2> QED BY <2>2
<1>4. CASE c = b
  <2>1. Items(b, k)' BY <1>1, <1>4 DEF Session, Items
  <2>2. /\ KeyOfJar(jar[b]) \in {NoKey, k} \cup gone
        /\ jar[b].auth # NoKey => jar[b].anon = NoKey
    BY <1>1, <1>4 DEF Session
  <2>3. Session(b, k)' BY <1>1, <1>4, <2>1, <2>2, Own DEF Allowed
  <2> QED BY <1>4, <2>3
<1> QED BY <1>3, <1>4

-----------------------------------------------------------------------------
(* The steps that are quiet.                                               *)
LEMMA OpenIsQuiet ==
    ASSUME Inv, Inv', SessionInv, NEW s \in Scope, NEW b \in Browser,
           NEW isCircuit \in BOOLEAN, Open(s, b, isCircuit)
    PROVE  SessionInv'
<1> DEFINE f == scope[s]
           g == [f EXCEPT !.at = "establish", !.browser = b, !.circuit = isCircuit,
                          !.saw = jar[b], !.started = isCircuit]
<1>1. f = FreeFrame /\ f \in Frame BY DEF Open, Inv, TypeOK, FreeIsEmpty
<1>2. /\ g.at = "establish" /\ g.browser = b /\ g.saw = jar[b] /\ g.started = isCircuit
      /\ g.key = NoKey /\ g.auth = FALSE /\ g.est = FALSE /\ g.setAnon = Same
      /\ g.setAuth = Same
  BY <1>1 DEF FreeFrame
<1>3. /\ scope' = [scope EXCEPT ![s] = g] /\ UNCHANGED <<jar, data, wrote, kept, gone>>
      /\ excused \subseteq excused'
  BY DEF Open, Move, history
<1>4. ~Pending(g) /\ ~Pending(f) /\ f.browser = NoKey BY <1>1, <1>2 DEF Pending, FreeFrame
<1> HIDE DEF g
<1>5. ASSUME NEW k \in MaybeKey, Session(b, k)
      PROVE  /\ Shape(g) /\ {g.key, KeyOfJar(g.saw)} \subseteq {NoKey, k} \cup gone
             /\ (\A t \in Scope \ {s} : ~Busy(t, b)) => k = KeyOfJar(jar[b])
  <2>1. ~Busy(s, b) BY <1>4 DEF Busy
  <2>2. Shape(g)
    BY <1>2, <1>5, KeyAssumption DEF Session, Shape, CookiesFit, ContextFits, StageFits
  <2> QED BY <1>2, <1>5, <2>1, <2>2 DEF Session
<1>6. scope[s].browser \in {b, NoKey} /\ g.browser \in {b, NoKey} /\ g.browser = b
  BY <1>2, <1>4
<1>7. \A k \in MaybeKey : b \notin excused' /\ Session(b, k) => Allowed(s, b, g, k)
  BY <1>4, <1>5 DEF Allowed
<1> HIDE DEF f
<1> QED BY <1>3, <1>6, <1>7, Quiet

LEMMA EndIsQuiet ==
    ASSUME Inv, Inv', SessionInv, NEW s \in Scope, End(s) \/ Abort(s) PROVE SessionInv'
<1> DEFINE f == scope[s]  b == f.browser
<1>1. f \in Frame /\ b \in Browser /\ f.at = "run" BY Context DEF End, Abort
<1>2. /\ scope' = [scope EXCEPT ![s] = FreeFrame] /\ UNCHANGED <<jar, data, wrote, kept, gone>>
      /\ excused \subseteq excused'
  BY DEF End, Abort, Move, FreedFrame, history, Excuse
<1>3. FreeFrame.browser = NoKey /\ NoKey \notin Browser BY KeyAssumption DEF FreeFrame
<1>4. ASSUME NEW k \in MaybeKey, b \notin excused', Session(b, k)
      PROVE  ~Pending(f)
  <2>1. CASE End(s)
    BY <1>1, <1>4, <2>1, Mine DEF End, Shape, StageFits, Pending
  <2>2. CASE Abort(s)
    BY <1>4, <2>2, ChangingIsPending DEF Abort, Excuse
  <2> QED BY <2>1, <2>2
<1>5. ASSUME NEW k \in MaybeKey, b \notin excused', Session(b, k),
             \A t \in Scope \ {s} : ~Busy(t, b)
      PROVE  k = KeyOfJar(jar[b])
  BY <1>4, <1>5, Mine
<1> HIDE DEF FreeFrame
<1>6. \A k \in MaybeKey : b \notin excused' /\ Session(b, k) => Allowed(s, b, FreeFrame, k)
  BY <1>1, <1>3, <1>5 DEF Allowed
<1> QED BY <1>1, <1>2, <1>3, <1>6, Quiet

(* A request that sets out to change the session, and is in nobody's way,  *)
(* has the session's key in its context.                                   *)
LEMMA SetsOut ==
    ASSUME NEW s \in Scope, NEW b, NEW k, scope[s].browser = b, Session(b, k),
           ~InTheWay(s), scope[s].at = "run", ~scope[s].started, scope[s].setAuth = Same
    PROVE  /\ scope[s].saw = jar[b] /\ \A t \in Scope \ {s} : ~Busy(t, b)
           /\ Shape(scope[s]) /\ scope[s].key = k
           /\ scope[s].setAnon = Same => k = KeyOfJar(jar[b])
<1>1. scope[s].saw = jar[b] /\ \A t \in Scope \ {s} : ~Busy(t, b) BY NotInTheWay
<1>2. Shape(scope[s]) BY Mine
<1>3. CASE Pending(scope[s])
  <2>1. scope[s].key = k BY <1>3, Mine DEF HomeOf
  <2> QED BY <1>1, <1>2, <2>1 DEF Shape, ContextFits
<1>4. CASE ~Pending(scope[s])
  <2>1. k = KeyOfJar(jar[b]) /\ scope[s].setAnon = Same BY <1>1, <1>4, Mine DEF Pending
  <2> QED BY <1>1, <1>2, <2>1 DEF Shape, ContextFits
<1> QED BY <1>3, <1>4

LEMMA SignInIsQuiet ==
    ASSUME Inv, Inv', SessionInv, NEW s \in Scope, SignIn(s) PROVE SessionInv'
<1> DEFINE f == scope[s]  b == f.browser
           g == [f EXCEPT !.at = "transition", !.from = AnonymousKey(f)]
<1>1. f \in Frame /\ b \in Browser /\ f.at = "run" /\ ~f.started /\ f.setAuth = Same
  BY Context DEF SignIn, MaySign
<1>2. /\ g.at = "transition" /\ g.from = AnonymousKey(f) /\ g.browser = b /\ g.saw = f.saw
      /\ g.key = f.key /\ g.auth = f.auth /\ g.est = f.est /\ g.started = f.started
      /\ g.setAnon = f.setAnon /\ g.setAuth = f.setAuth
  BY <1>1 DEF Frame
<1>3. /\ scope' = [scope EXCEPT ![s] = g] /\ UNCHANGED <<jar, data, wrote, kept, gone>>
      /\ excused \subseteq excused'
      /\ b \notin excused' => ~InTheWay(s) /\ f.saw.auth = NoKey
  BY DEF SignIn, Move, Excuse
<1> HIDE DEF g
<1>4. ASSUME NEW k \in MaybeKey, b \notin excused', Session(b, k)
      PROVE  /\ Shape(g) /\ {g.key, KeyOfJar(g.saw)} \subseteq {NoKey, k} \cup gone
             /\ g.saw = jar[b] /\ HomeOf(g) = k /\ \A t \in Scope \ {s} : ~Busy(t, b)
             /\ Pending(g)
  <2>0. ~InTheWay(s) BY <1>3, <1>4
  <2>1. /\ f.saw = jar[b] /\ \A t \in Scope \ {s} : ~Busy(t, b)
        /\ Shape(f) /\ f.key = k
    BY <1>1, <1>4, <2>0, SetsOut
  <2>2. KeyOfJar(f.saw) \in {NoKey, k} \cup gone BY <1>4, Mine
  <2>3. AnonymousKey(f) = f.key
    BY <1>1, <1>3, <1>4, <2>1 DEF AnonymousKey, Shape, ContextFits, CookiesFit, KeyOfJar
  <2>4. Shape(g)
    BY <1>1, <1>2, <1>3, <1>4, <2>1, <2>3, KeyAssumption
    DEF Shape, CookiesFit, ContextFits, StageFits
  <2> QED BY <1>2, <2>1, <2>2, <2>4 DEF HomeOf, Pending
<1>5. scope[s].browser \in {b, NoKey} /\ g.browser \in {b, NoKey} /\ g.browser = b
  BY <1>2
<1>6. \A k \in MaybeKey : b \notin excused' /\ Session(b, k) => Allowed(s, b, g, k)
  BY <1>4, <1>5 DEF Allowed
<1> HIDE DEF f
<1> QED BY <1>1, <1>3, <1>5, <1>6, Quiet

LEMMA SignInAgainIsQuiet ==
    ASSUME Inv, Inv', SessionInv, NEW s \in Scope, SignInAgain(s) PROVE SessionInv'
<1> DEFINE f == scope[s]  b == f.browser
           g == [f EXCEPT !.setAuth = f.saw.auth]
<1>1. /\ f \in Frame /\ b \in Browser /\ f.at = "run" /\ ~f.started /\ f.setAuth = Same
      /\ f.saw.auth # NoKey
  BY Context DEF SignInAgain, MaySign
<1>2. /\ g.at = "run" /\ g.from = f.from /\ g.browser = b /\ g.saw = f.saw
      /\ g.key = f.key /\ g.auth = f.auth /\ g.est = f.est /\ g.started = f.started
      /\ g.setAnon = f.setAnon /\ g.setAuth = f.saw.auth
  BY <1>1 DEF Frame
<1>3. /\ scope' = [scope EXCEPT ![s] = g] /\ UNCHANGED <<jar, data, wrote, kept, gone>>
      /\ excused \subseteq excused'
      /\ b \notin excused' => ~InTheWay(s)
  BY DEF SignInAgain, Move, Excuse
<1>4. f.saw.auth # Same BY <1>1, FrameFields, KeyAssumption DEF MaybeKey
<1> HIDE DEF g
<1>5. ASSUME NEW k \in MaybeKey, b \notin excused', Session(b, k)
      PROVE  /\ Shape(g) /\ {g.key, KeyOfJar(g.saw)} \subseteq {NoKey, k} \cup gone
             /\ g.saw = jar[b] /\ HomeOf(g) = k /\ \A t \in Scope \ {s} : ~Busy(t, b)
             /\ Pending(g)
  <2>0. ~InTheWay(s) BY <1>3, <1>5
  <2>1. /\ f.saw = jar[b] /\ \A t \in Scope \ {s} : ~Busy(t, b)
        /\ Shape(f) /\ f.key = k
    BY <1>1, <1>5, <2>0, SetsOut
  <2>2. KeyOfJar(f.saw) \in {NoKey, k} \cup gone BY <1>5, Mine
  <2>3. f.setAnon = Same BY <1>1, <2>1 DEF Shape, CookiesFit, EmptyJar
  <2>4. f.key = f.saw.auth BY <1>1, <2>1, <2>3 DEF Shape, ContextFits, KeyOfJar
  <2>5. Shape(g)
    BY <1>1, <1>2, <2>1, <2>3, <2>4 DEF Shape, CookiesFit, ContextFits, StageFits
  <2> QED BY <1>2, <1>4, <2>1, <2>2, <2>5 DEF HomeOf, Pending
<1>6. scope[s].browser \in {b, NoKey} /\ g.browser \in {b, NoKey} /\ g.browser = b
  BY <1>2
<1>7. \A k \in MaybeKey : b \notin excused' /\ Session(b, k) => Allowed(s, b, g, k)
  BY <1>5, <1>6 DEF Allowed
<1> HIDE DEF f
<1> QED BY <1>1, <1>3, <1>6, <1>7, Quiet

LEMMA SignOutNothingIsQuiet ==
    ASSUME Inv, Inv', SessionInv, NEW s \in Scope, SignOutNothing(s) PROVE SessionInv'
<1> DEFINE f == scope[s]  b == f.browser
           g == [f EXCEPT !.setAuth = NoKey]
<1>1. /\ f \in Frame /\ b \in Browser /\ f.at = "run" /\ ~f.started /\ f.setAuth = Same
      /\ f.saw.auth = NoKey /\ f.key = NoKey
  BY Context DEF SignOutNothing, MaySign, KeyToClear
<1>2. /\ g.at = "run" /\ g.from = f.from /\ g.browser = b /\ g.saw = f.saw
      /\ g.key = f.key /\ g.auth = f.auth /\ g.est = f.est /\ g.started = f.started
      /\ g.setAnon = f.setAnon /\ g.setAuth = NoKey
  BY <1>1 DEF Frame
<1>3. /\ scope' = [scope EXCEPT ![s] = g] /\ UNCHANGED <<jar, data, wrote, kept, gone>>
      /\ excused \subseteq excused'
      /\ b \notin excused' => ~InTheWay(s)
  BY DEF SignOutNothing, Move, Excuse
<1> HIDE DEF g
<1>4. ASSUME NEW k \in MaybeKey, b \notin excused', Session(b, k)
      PROVE  /\ Shape(g) /\ {g.key, KeyOfJar(g.saw)} \subseteq {NoKey, k} \cup gone
             /\ g.saw = jar[b] /\ HomeOf(g) = k /\ \A t \in Scope \ {s} : ~Busy(t, b)
             /\ Pending(g)
  <2>0. ~InTheWay(s) BY <1>3, <1>4
  <2>1. /\ f.saw = jar[b] /\ \A t \in Scope \ {s} : ~Busy(t, b)
        /\ Shape(f) /\ f.key = k
    BY <1>1, <1>4, <2>0, SetsOut
  <2>2. KeyOfJar(f.saw) \in {NoKey, k} \cup gone BY <1>4, Mine
  <2>3. f.setAnon = Same BY <1>1, <2>1 DEF Shape, CookiesFit
  <2>4. Shape(g)
    BY <1>1, <1>2, <2>1, <2>3 DEF Shape, CookiesFit, ContextFits, StageFits
  <2> QED BY <1>2, <2>1, <2>2, <2>4, KeyAssumption DEF HomeOf, Pending
<1>5. scope[s].browser \in {b, NoKey} /\ g.browser \in {b, NoKey} /\ g.browser = b
  BY <1>2
<1>6. \A k \in MaybeKey : b \notin excused' /\ Session(b, k) => Allowed(s, b, g, k)
  BY <1>4, <1>5 DEF Allowed
<1> HIDE DEF f
<1> QED BY <1>1, <1>3, <1>5, <1>6, Quiet

LEMMA GenerateThrowsIsQuiet ==
    ASSUME Inv, Inv', SessionInv, NEW s \in Scope, GenerateThrows(s) PROVE SessionInv'
<1> DEFINE f == scope[s]  b == f.browser
           g == [f EXCEPT !.at = "run"]
<1>1. f \in Frame /\ b \in Browser /\ f.at = "generate" BY Context DEF GenerateThrows
<1>2. /\ g.at = "run" /\ g.browser = b /\ g.saw = f.saw
      /\ g.key = f.key /\ g.auth = f.auth /\ g.est = f.est /\ g.started = f.started
      /\ g.setAnon = f.setAnon /\ g.setAuth = f.setAuth
  BY <1>1 DEF Frame
<1>3. /\ scope' = [scope EXCEPT ![s] = g] /\ UNCHANGED <<jar, data, wrote, kept, gone>>
      /\ excused \subseteq excused'
  BY DEF GenerateThrows, Move, history
<1> HIDE DEF g
<1>4. ASSUME NEW k \in MaybeKey, Session(b, k)
      PROVE  /\ Shape(g) /\ {g.key, KeyOfJar(g.saw)} \subseteq {NoKey, k} \cup gone
             /\ ~Pending(g) /\ k = KeyOfJar(jar[b])
  <2>1. Pending(f) BY <1>1 DEF Pending
  <2>2. f.saw = jar[b] /\ HomeOf(f) = k /\ Shape(f) /\ KeyOfJar(f.saw) \in {NoKey, k} \cup gone
    BY <1>4, <2>1, Mine
  <2>3. /\ f.setAnon = Same /\ f.setAuth = Same /\ f.saw = EmptyJar /\ f.key = NoKey
        /\ ~f.started
    BY <1>1, <2>2 DEF Shape, StageFits
  <2>4. KeyOfJar(f.saw) = NoKey BY <2>3 DEF EmptyJar, KeyOfJar
  <2>5. Shape(g)
    BY <1>1, <1>2, <2>2, <2>3, <2>4, KeyAssumption
    DEF Shape, CookiesFit, ContextFits, StageFits
  <2> QED BY <1>1, <1>2, <2>2, <2>3, <2>4, <2>5 DEF HomeOf, Pending
<1>5. scope[s].browser \in {b, NoKey} /\ g.browser \in {b, NoKey} /\ g.browser = b
  BY <1>2
<1>6. \A k \in MaybeKey : b \notin excused' /\ Session(b, k) => Allowed(s, b, g, k)
  BY <1>4, <1>5 DEF Allowed
<1> HIDE DEF f
<1> QED BY <1>1, <1>3, <1>5, <1>6, Quiet

LEMMA SignInThrowsIsQuiet ==
    ASSUME Inv, Inv', SessionInv, NEW s \in Scope, SignInThrows(s) PROVE SessionInv'
<1> DEFINE f == scope[s]  b == f.browser
           g == [f EXCEPT !.at = "run", !.from = NoKey]
<1>1. f \in Frame /\ b \in Browser /\ f.at = "transition" BY Context DEF SignInThrows
<1>2. /\ g.at = "run" /\ g.browser = b /\ g.saw = f.saw
      /\ g.key = f.key /\ g.auth = f.auth /\ g.est = f.est /\ g.started = f.started
      /\ g.setAnon = f.setAnon /\ g.setAuth = f.setAuth
  BY <1>1 DEF Frame
<1>3. /\ scope' = [scope EXCEPT ![s] = g] /\ UNCHANGED <<jar, data, wrote, kept, gone>>
      /\ excused \subseteq excused'
  BY DEF SignInThrows, Move, history
<1> HIDE DEF g
<1>4. ASSUME NEW k \in MaybeKey, Session(b, k)
      PROVE  /\ Shape(g) /\ {g.key, KeyOfJar(g.saw)} \subseteq {NoKey, k} \cup gone
             /\ g.saw = jar[b] /\ HomeOf(g) = k /\ \A t \in Scope \ {s} : ~Busy(t, b)
             /\ ~Pending(g) => k = KeyOfJar(jar[b])
  <2>1. Pending(f) BY <1>1 DEF Pending
  <2>2. /\ f.saw = jar[b] /\ HomeOf(f) = k /\ Shape(f)
        /\ KeyOfJar(f.saw) \in {NoKey, k} \cup gone
        /\ \A t \in Scope \ {s} : ~Busy(t, b)
    BY <1>4, <2>1, Mine
  <2>3. f.key = k BY <1>1, <2>2 DEF HomeOf
  <2>4. ~f.started /\ f.setAuth = Same /\ (f.setAnon = Same => f.key = KeyOfJar(f.saw))
    BY <1>1, <2>2 DEF Shape, StageFits, CookiesFit, ContextFits
  <2>5. Shape(g)
    BY <1>1, <1>2, <2>2, <2>4 DEF Shape, CookiesFit, ContextFits, StageFits
  <2>6. ~Pending(g) => g.setAnon = Same BY DEF Pending
  <2> QED BY <1>2, <2>2, <2>3, <2>4, <2>5, <2>6 DEF HomeOf
<1>5. scope[s].browser \in {b, NoKey} /\ g.browser \in {b, NoKey} /\ g.browser = b
  BY <1>2
<1>6. \A k \in MaybeKey : b \notin excused' /\ Session(b, k) => Allowed(s, b, g, k)
  BY <1>4, <1>5 DEF Allowed
<1> HIDE DEF f
<1> QED BY <1>1, <1>3, <1>5, <1>6, Quiet

LEMMA FinishSignInIsQuiet ==
    ASSUME Inv, Inv', SessionInv, NEW s \in Scope, FinishSignIn(s) PROVE SessionInv'
<1> DEFINE f == scope[s]  b == f.browser
           g == [f EXCEPT !.at = "run", !.key = f.to, !.auth = TRUE, !.est = TRUE,
                          !.setAnon = NoKey, !.setAuth = f.to,
                          !.from = NoKey, !.to = NoKey]
<1>1. f \in Frame /\ b \in Browser /\ f.at = "finish" BY Context DEF FinishSignIn
<1>2. /\ g.at = "run" /\ g.browser = b /\ g.saw = f.saw
      /\ g.key = f.to /\ g.auth = TRUE /\ g.est = TRUE /\ g.started = f.started
      /\ g.setAnon = NoKey /\ g.setAuth = f.to
  BY <1>1 DEF Frame
<1>3. /\ scope' = [scope EXCEPT ![s] = g] /\ UNCHANGED <<jar, data, wrote, kept, gone>>
      /\ excused \subseteq excused'
  BY DEF FinishSignIn, Move, history
<1>4. f.to # Same BY <1>1, FrameFields, KeyAssumption DEF MaybeKey
<1> HIDE DEF g
<1>5. ASSUME NEW k \in MaybeKey, Session(b, k)
      PROVE  /\ Shape(g) /\ {g.key, KeyOfJar(g.saw)} \subseteq {NoKey, k} \cup gone
             /\ g.saw = jar[b] /\ HomeOf(g) = k /\ \A t \in Scope \ {s} : ~Busy(t, b)
             /\ Pending(g)
  <2>1. Pending(f) BY <1>1 DEF Pending
  <2>2. /\ f.saw = jar[b] /\ HomeOf(f) = k /\ Shape(f)
        /\ KeyOfJar(f.saw) \in {NoKey, k} \cup gone
        /\ \A t \in Scope \ {s} : ~Busy(t, b)
    BY <1>5, <2>1, Mine
  <2>3. f.to = k /\ k # NoKey /\ ~f.started
    BY <1>1, <2>2 DEF HomeOf, Shape, StageFits
  <2>4. Shape(g)
    BY <1>2, <1>4, <2>2, <2>3, KeyAssumption DEF Shape, CookiesFit, ContextFits, StageFits
  <2> QED BY <1>2, <1>4, <2>2, <2>3, <2>4, KeyAssumption DEF HomeOf, Pending
<1>6. scope[s].browser \in {b, NoKey} /\ g.browser \in {b, NoKey} /\ g.browser = b
  BY <1>2
<1>7. \A k \in MaybeKey : b \notin excused' /\ Session(b, k) => Allowed(s, b, g, k)
  BY <1>5, <1>6 DEF Allowed
<1> HIDE DEF f
<1> QED BY <1>1, <1>3, <1>6, <1>7, Quiet

LEMMA ClearSessionIsQuiet ==
    ASSUME Inv, Inv', SessionInv, NEW s \in Scope, ClearSession(s) PROVE SessionInv'
<1> DEFINE f == scope[s]  b == f.browser
           g == [f EXCEPT !.at = "run", !.key = NoKey, !.auth = FALSE, !.est = FALSE,
                          !.setAnon = NoKey, !.setAuth = NoKey]
<1>1. f \in Frame /\ b \in Browser /\ f.at = "clear" BY Context DEF ClearSession
<1>2. /\ g.at = "run" /\ g.browser = b /\ g.saw = f.saw
      /\ g.key = NoKey /\ g.auth = FALSE /\ g.est = FALSE /\ g.started = f.started
      /\ g.setAnon = NoKey /\ g.setAuth = NoKey
  BY <1>1 DEF Frame
<1>3. /\ scope' = [scope EXCEPT ![s] = g] /\ UNCHANGED <<jar, data, wrote, kept, gone>>
      /\ excused \subseteq excused'
  BY DEF ClearSession, Move, history
<1> HIDE DEF g
<1>4. ASSUME NEW k \in MaybeKey, Session(b, k)
      PROVE  /\ Shape(g) /\ {g.key, KeyOfJar(g.saw)} \subseteq {NoKey, k} \cup gone
             /\ g.saw = jar[b] /\ HomeOf(g) = k /\ \A t \in Scope \ {s} : ~Busy(t, b)
             /\ Pending(g)
  <2>1. Pending(f) BY <1>1 DEF Pending
  <2>2. /\ f.saw = jar[b] /\ HomeOf(f) = k /\ Shape(f)
        /\ KeyOfJar(f.saw) \in {NoKey, k} \cup gone
        /\ \A t \in Scope \ {s} : ~Busy(t, b)
    BY <1>4, <2>1, Mine
  <2>3. k = NoKey /\ ~f.started
    BY <1>1, <2>2 DEF HomeOf, Shape, StageFits
  <2>4. Shape(g)
    BY <1>2, <2>2, <2>3, KeyAssumption DEF Shape, CookiesFit, ContextFits, StageFits
  <2> QED BY <1>2, <2>2, <2>3, <2>4, KeyAssumption DEF HomeOf, Pending
<1>5. scope[s].browser \in {b, NoKey} /\ g.browser \in {b, NoKey} /\ g.browser = b
  BY <1>2
<1>6. \A k \in MaybeKey : b \notin excused' /\ Session(b, k) => Allowed(s, b, g, k)
  BY <1>4, <1>5 DEF Allowed
<1> HIDE DEF f
<1> QED BY <1>1, <1>3, <1>5, <1>6, Quiet

LEMMA EstablishIsQuiet ==
    ASSUME Inv, Inv', SessionInv, NEW s \in Scope, Establish(s) PROVE SessionInv'
<1> DEFINE f == scope[s]  b == f.browser
<1>1. f \in Frame /\ b \in Browser /\ f.at = "establish" BY Context DEF Establish
<1>2. /\ UNCHANGED <<jar, data, wrote, kept, gone>> /\ excused \subseteq excused'
  BY DEF Establish, EstablishNew, Excuse
(* The scope has its session, or none. *)
<1>3. ASSUME NEW g, scope' = [scope EXCEPT ![s] = g], g.browser = b, g.saw = f.saw,
             g.at \in {"run", "establish"}, g.setAnon = f.setAnon, g.setAuth = f.setAuth,
             g.started = f.started, g.est = TRUE,
             f.est => g.key = f.key,
             ~f.est /\ g.key # f.key => g.key = KeyOfJar(f.saw),
             ~f.started => g.key = KeyOfJar(f.saw) \/ f.est,
             g.key = NoKey => f.saw = EmptyJar \/ f.est
      PROVE  SessionInv'
  <2>1. ASSUME NEW k \in MaybeKey, Session(b, k)
        PROVE  /\ Shape(g) /\ {g.key, KeyOfJar(g.saw)} \subseteq {NoKey, k} \cup gone
               /\ ~Pending(g)
               /\ (\A t \in Scope \ {s} : ~Busy(t, b)) => k = KeyOfJar(jar[b])
    <3>1. /\ Shape(f) /\ f.key \in {NoKey, k} \cup gone
          /\ KeyOfJar(f.saw) \in {NoKey, k} \cup gone
          /\ ~Pending(f) /\ (\A t \in Scope \ {s} : ~Busy(t, b)) => k = KeyOfJar(jar[b])
      BY <2>1, Mine
    <3>2. f.setAnon = Same /\ f.setAuth = Same BY <1>1, <3>1 DEF Shape, StageFits
    <3>3. ~Pending(f) /\ ~Pending(g) BY <1>1, <1>3, <3>2 DEF Pending
    <3>4. g.key \in {f.key, KeyOfJar(f.saw)} BY <1>3
    <3>5. CookiesFit(g) BY <1>3, <3>2, KeyAssumption DEF CookiesFit
    <3>6. StageFits(g) BY <1>3, <3>2 DEF StageFits
    <3>7. ContextFits(g) BY <1>1, <1>3, <3>1, <3>2 DEF Shape, ContextFits
    <3>8. Shape(g) BY <1>3, <3>1, <3>5, <3>6, <3>7 DEF Shape
    <3> QED BY <1>3, <3>1, <3>3, <3>4, <3>8
  <2>2. scope[s].browser \in {b, NoKey} /\ g.browser \in {b, NoKey} /\ g.browser = b
    BY <1>3
  <2>3. \A k \in MaybeKey : b \notin excused' /\ Session(b, k) => Allowed(s, b, g, k)
    BY <2>1, <2>2 DEF Allowed
  <2> HIDE DEF f
  <2> QED BY <1>1, <1>2, <1>3, <2>2, <2>3, Quiet
<1>4. CASE AlreadyEstablished(s)
  <2> DEFINE g == [f EXCEPT !.at = "run"]
  <2>1. /\ g.at = "run" /\ g.browser = b /\ g.saw = f.saw /\ g.key = f.key /\ g.est = f.est
        /\ g.setAnon = f.setAnon /\ g.setAuth = f.setAuth /\ g.started = f.started
    BY <1>1 DEF Frame
  <2>2. scope' = [scope EXCEPT ![s] = g] /\ f.est = TRUE
    BY <1>1, <1>4 DEF AlreadyEstablished, Move, Frame
  <2> HIDE DEF g
  <2> QED BY <1>3, <2>1, <2>2
<1>5. CASE EstablishFromClaim(s)
  <2> DEFINE g == [f EXCEPT !.at = IF f.circuit THEN "run" ELSE "establish",
                            !.key = f.saw.auth, !.auth = TRUE, !.est = TRUE]
  <2>1. /\ g.at \in {"run", "establish"} /\ g.browser = b /\ g.saw = f.saw
        /\ g.key = f.saw.auth /\ g.est = TRUE
        /\ g.setAnon = f.setAnon /\ g.setAuth = f.setAuth /\ g.started = f.started
    BY <1>1 DEF Frame
  <2>2. scope' = [scope EXCEPT ![s] = g] /\ ~f.est /\ f.saw.auth # NoKey
    BY <1>5 DEF EstablishFromClaim, Move
  <2>3. f.saw.auth = KeyOfJar(f.saw) BY <2>2 DEF KeyOfJar
  <2> HIDE DEF g
  <2> QED BY <1>3, <2>1, <2>2, <2>3
<1>6. CASE EstablishFromCookie(s)
  <2> DEFINE g == [f EXCEPT !.at = "run", !.key = f.saw.anon, !.est = TRUE]
  <2>1. /\ g.at = "run" /\ g.browser = b /\ g.saw = f.saw
        /\ g.key = f.saw.anon /\ g.est = TRUE
        /\ g.setAnon = f.setAnon /\ g.setAuth = f.setAuth /\ g.started = f.started
    BY <1>1 DEF Frame
  <2>2. /\ scope' = [scope EXCEPT ![s] = g] /\ ~f.est /\ f.saw.auth = NoKey
        /\ f.saw.anon # NoKey
    BY <1>6 DEF EstablishFromCookie, Move
  <2>3. f.saw.anon = KeyOfJar(f.saw) BY <2>2 DEF KeyOfJar
  <2> HIDE DEF g
  <2> QED BY <1>3, <2>1, <2>2, <2>3
<1>7. CASE EstablishNone(s)
  <2> DEFINE g == [f EXCEPT !.at = "run", !.est = TRUE]
  <2>1. /\ g.at = "run" /\ g.browser = b /\ g.saw = f.saw /\ g.key = f.key /\ g.est = TRUE
        /\ g.setAnon = f.setAnon /\ g.setAuth = f.setAuth /\ g.started = f.started
    BY <1>1 DEF Frame
  <2>2. /\ scope' = [scope EXCEPT ![s] = g] /\ ~f.est /\ f.saw.auth = NoKey
        /\ f.saw.anon = NoKey /\ f.started
    BY <1>7 DEF EstablishNone, Move
  <2>3. f.saw = EmptyJar BY <1>1, <2>2 DEF Frame, Jar, EmptyJar
  <2> HIDE DEF g
  <2> QED BY <1>3, <2>1, <2>2, <2>3
<1>8. CASE EstablishNew(s)
  <2> DEFINE g == [f EXCEPT !.at = "generate"]
  <2>1. /\ g.at = "generate" /\ g.browser = b /\ g.saw = f.saw /\ g.key = f.key
        /\ g.est = f.est /\ g.auth = f.auth
        /\ g.setAnon = f.setAnon /\ g.setAuth = f.setAuth /\ g.started = f.started
    BY <1>1 DEF Frame
  <2>2. /\ scope' = [scope EXCEPT ![s] = g] /\ ~f.est /\ ~f.started /\ f.saw.auth = NoKey
        /\ f.saw.anon = NoKey
        /\ b \notin excused' => ~InTheWay(s)
    BY <1>8 DEF EstablishNew, Move, Excuse
  <2>3. f.saw = EmptyJar BY <1>1, <2>2 DEF Frame, Jar, EmptyJar
  <2> HIDE DEF g
  <2>4. ASSUME NEW k \in MaybeKey, b \notin excused', Session(b, k)
        PROVE  /\ Shape(g) /\ {g.key, KeyOfJar(g.saw)} \subseteq {NoKey, k} \cup gone
               /\ g.saw = jar[b] /\ HomeOf(g) = k /\ \A t \in Scope \ {s} : ~Busy(t, b)
               /\ Pending(g)
    <3>1. ~InTheWay(s) BY <2>2, <2>4
    <3>2. f.saw = jar[b] /\ \A t \in Scope \ {s} : ~Busy(t, b) BY <3>1, NotInTheWay
    <3>3. /\ Shape(f) /\ KeyOfJar(f.saw) \in {NoKey, k} \cup gone
          /\ ~Pending(f) /\ (\A t \in Scope \ {s} : ~Busy(t, b)) => k = KeyOfJar(jar[b])
      BY <2>4, Mine
    <3>4. f.setAnon = Same /\ f.setAuth = Same /\ f.key = NoKey
      BY <1>1, <2>2, <3>3 DEF Shape, StageFits, ContextFits
    <3>5. k = NoKey
      BY <1>1, <2>3, <3>2, <3>3, <3>4 DEF Pending, KeyOfJar, EmptyJar
    <3>6. Shape(g)
      BY <2>1, <2>2, <2>3, <3>3, <3>4, KeyAssumption
      DEF Shape, CookiesFit, ContextFits, StageFits, KeyOfJar, EmptyJar
    <3> QED BY <2>1, <3>2, <3>3, <3>4, <3>5, <3>6 DEF HomeOf, Pending
  <2>5. scope[s].browser \in {b, NoKey} /\ g.browser \in {b, NoKey} /\ g.browser = b
    BY <2>1
  <2>6. \A k \in MaybeKey : b \notin excused' /\ Session(b, k) => Allowed(s, b, g, k)
    BY <2>4, <2>5 DEF Allowed
  <2> HIDE DEF f
  <2> QED BY <1>1, <1>2, <2>2, <2>5, <2>6, Quiet
<1> QED BY <1>4, <1>5, <1>6, <1>7, <1>8 DEF Establish

-----------------------------------------------------------------------------
(* What a step of another browser's scope has to leave alone for browser   *)
(* c: the end of its sessions, its items and where they are.               *)
Untouched(c) ==
    /\ \A j \in Key : Knows(c, j) /\ j \in gone => j \in gone'
    /\ \A i \in Item : wrote'[i] = c =>
         /\ wrote[i] = c /\ (i \in kept' <=> i \in kept)
         /\ \A j \in Key : i \in data'[j] <=> i \in data[j]

(* A step of a scope of browser b that is not quiet.                       *)
LEMMA Step ==
    ASSUME Inv, Inv', SessionInv, NEW s \in Scope, NEW b \in Browser, NEW g,
           scope' = [scope EXCEPT ![s] = g], scope[s].browser = b, g.browser = b,
           \A c \in Browser : c # b => jar'[c] = jar[c],
           excused \subseteq excused',
           \A c \in Browser, k \in MaybeKey : c # b /\ Session(c, k) => Untouched(c),
           \A k \in MaybeKey : b \notin excused' /\ Session(b, k) =>
             \E h \in MaybeKey : Session(b, h)'
    PROVE  SessionInv'
<1> SUFFICES ASSUME NEW c \in Browser, c \notin excused'
             PROVE  \E k \in MaybeKey : Session(c, k)'
  BY DEF SessionInv
<1>1. PICK k \in MaybeKey : Session(c, k) BY DEF SessionInv
<1>2. CASE c # b
  <2>1. scope[s].browser # c /\ g.browser # c /\ jar'[c] = jar[c] /\ Untouched(c)
    BY <1>1, <1>2
  <2>2. Session(c, k)' BY <1>1, <2>1, Elsewhere DEF Untouched
  <2> QED BY <2>2
<1>3. CASE c = b BY <1>1, <1>3
<1> QED BY <1>2, <1>3

(* A browser's items are in none of the sessions other browsers know.      *)
LEMMA Foreign ==
    ASSUME Inv, NEW b \in Browser, NEW c \in Browser, b # c, NEW k \in MaybeKey,
           Session(c, k), NEW j \in Key, Knows(b, j), NEW i \in Item, wrote[i] = c
    PROVE  i \notin data[j]
<1> SUFFICES ASSUME i \in data[j] PROVE FALSE OBVIOUS
<1>1. j = k /\ k # NoKey BY DEF Session, Items
<1>2. k \in Key BY <1>1
<1>3. Knows(c, k) BY <1>2, SessionIsKnown
<1> QED BY <1>1, <1>3 DEF Inv, SessionsAreApart

LEMMA UnusedIsUnknown ==
    ASSUME NEW k \in Key, Unused(k), NEW c \in Browser PROVE ~Knows(c, k)
BY DEF Unused, Knows

LEMMA WriteKeepsSessions ==
    ASSUME Inv, Inv', SessionInv, NEW s \in Scope, Write(s) PROVE SessionInv'
<1> DEFINE f == scope[s]
<1>0. PICK b \in Browser : f.browser = b BY Context DEF Write
<1>1. /\ f \in Frame /\ f.at = "run" /\ f.key \in Key
      /\ scope \in [Scope -> Frame] /\ data \in [Key -> SUBSET Item]
      /\ wrote \in [Item -> Browser \cup {NoKey}]
  BY Context, FrameFields DEF Write, MaybeKey, Inv, TypeOK
<1>2. PICK i \in Item \ (kept \cup UNION {data[k] : k \in Key}) :
        /\ data' = [data EXCEPT ![f.key] = @ \cup {i}]
        /\ wrote' = [wrote EXCEPT ![i] = b]
        /\ kept' = kept \cup {i}
  BY <1>0 DEF Write
<1>3. /\ scope' = [scope EXCEPT ![s] = f] /\ jar' = jar /\ gone' = gone
      /\ excused \subseteq excused'
      /\ b \notin excused' => f.key \notin gone
  BY <1>0, <1>1 DEF Write, Excuse
<1>4. \A m \in Item, j \in Key :
        m \in data'[j] <=> (m \in data[j] \/ (m = i /\ j = f.key))
  BY <1>1, <1>2
<1>5. \A j \in Key : i \notin data[j] BY <1>2
<1>6. \A c \in Browser : c # b => Untouched(c)
  BY <1>1, <1>2, <1>3, <1>4 DEF Untouched
<1>7. ASSUME NEW k \in MaybeKey, b \notin excused', Session(b, k)
      PROVE  Session(b, k)'
  <2>1. f.key = k
    <3>1. f.key \in {NoKey, k} \cup gone BY <1>0, <1>7, Mine
    <3> QED BY <1>1, <1>3, <1>7, <3>1, KeyAssumption
  <2>2. Items(b, k)'
    <3> SUFFICES ASSUME NEW m \in Item, wrote'[m] = b
                 PROVE  /\ m \in kept' => k # NoKey /\ m \in data'[k]
                        /\ \A j \in Key : m \in data'[j] => m \in kept' /\ j = k
      BY DEF Items
    <3>1. CASE m = i BY <1>1, <1>2, <1>4, <1>5, <2>1, <3>1, KeyAssumption
    <3>2. CASE m # i
      <4>1. wrote[m] = b BY <1>1, <1>2, <3>2
      <4> QED BY <1>1, <1>2, <1>4, <1>7, <2>1, <3>2, <4>1 DEF Session, Items
    <3> QED BY <3>1, <3>2
  <2>3. \A t \in Scope : Busy(t, b)' <=> Busy(t, b) BY DEF Write, Busy
  <2>4. scope' = scope BY DEF Write
  <2>5. Frames(b, k)' /\ OneIsBusy(b, k)'
    BY <1>3, <1>7, <2>3, <2>4 DEF Session, Frames, OneIsBusy
  <2> QED BY <1>3, <1>7, <2>2, <2>3, <2>5 DEF Session
<1> QED BY <1>0, <1>3, <1>6, <1>7, Step

LEMMA StartResponseKeepsSessions ==
    ASSUME Inv, Inv', SessionInv, NEW s \in Scope, StartResponse(s) PROVE SessionInv'
<1>0. PICK b \in Browser : scope[s].browser = b BY Context DEF StartResponse
<1> DEFINE f == scope[s]
           g == [f EXCEPT !.started = TRUE, !.setAnon = Same, !.setAuth = Same]
           j == [anon |-> Taken(jar[b].anon, f.setAnon), auth |-> Taken(jar[b].auth, f.setAuth)]
<1>1. f \in Frame /\ f.browser = b /\ f.at = "run" /\ ~f.started /\ jar \in [Browser -> Jar]
  BY <1>0, Context DEF StartResponse
<1>2. /\ scope' = [scope EXCEPT ![s] = g] /\ jar' = [jar EXCEPT ![b] = j]
      /\ UNCHANGED <<data, wrote, kept, gone>> /\ excused \subseteq excused'
  BY <1>0 DEF StartResponse, Move, history
<1>3. /\ g.at = "run" /\ g.browser = b /\ g.saw = f.saw /\ g.key = f.key /\ g.auth = f.auth
      /\ g.est = f.est /\ g.started = TRUE /\ g.setAnon = Same /\ g.setAuth = Same
  BY <1>1 DEF Frame
<1>4. ~Pending(g) BY <1>3 DEF Pending
<1> HIDE DEF g
<1>5. jar'[b] = j /\ \A c \in Browser : c # b => jar'[c] = jar[c] BY <1>1, <1>2
<1>6. \A c \in Browser : Untouched(c) BY <1>2 DEF Untouched
<1>7. ASSUME NEW k \in MaybeKey, Session(b, k)
      PROVE  Session(b, k)'
  <2>1. /\ Shape(f) /\ f.key \in {NoKey, k} \cup gone
        /\ KeyOfJar(f.saw) \in {NoKey, k} \cup gone
    BY <1>0, <1>7, Mine
  <2>2. /\ KeyOfJar(jar[b]) \in {NoKey, k} \cup gone
        /\ jar[b].auth # NoKey => jar[b].anon = NoKey
    BY <1>7 DEF Session
  <2>3. CookiesFit(g) BY <1>3, KeyAssumption DEF CookiesFit
  <2>4. ContextFits(g) BY <1>3, <2>1 DEF Shape, ContextFits
  <2>5. Shape(g) BY <1>3, <2>1, <2>3, <2>4 DEF Shape, StageFits
  <2>6. Items(b, k)' BY <1>2, <1>7 DEF Session, Items
  <2>7. CASE Pending(f)
    <3>1. /\ f.saw = jar[b] /\ f.key = k /\ \A t \in Scope \ {s} : ~Busy(t, b)
      <4>1. f.saw = jar[b] /\ HomeOf(f) = k /\ \A t \in Scope \ {s} : ~Busy(t, b)
        BY <1>0, <1>7, <2>7, Mine
      <4> QED BY <1>1, <4>1 DEF HomeOf
    <3>2. KeyOfJar(j) = k /\ (j.auth # NoKey => j.anon = NoKey)
      <4>1. CASE f.setAuth # Same
        <5>1. CASE f.setAnon = NoKey
          BY <2>1, <3>1, <4>1, <5>1, KeyAssumption DEF Shape, CookiesFit, Taken, KeyOfJar
        <5>2. CASE f.setAnon = Same
          BY <1>1, <2>1, <3>1, <4>1, <5>2
          DEF Shape, CookiesFit, ContextFits, Taken, KeyOfJar
        <5> QED BY <2>1, <4>1, <5>1, <5>2 DEF Shape, CookiesFit
      <4>2. CASE f.setAuth = Same /\ f.setAnon # Same
        BY <2>1, <3>1, <4>2 DEF Shape, CookiesFit, Taken, KeyOfJar, EmptyJar
      <4>3. CASE f.setAuth = Same /\ f.setAnon = Same
        BY <1>1, <2>7, <4>3 DEF Pending
      <4> QED BY <4>1, <4>2, <4>3
    <3> HIDE DEF j
    <3>3. /\ {g.key, KeyOfJar(g.saw)} \subseteq {NoKey, k} \cup gone'
          /\ k = KeyOfJar(jar'[b]) /\ gone' = gone
          /\ jar'[b].auth # NoKey => jar'[b].anon = NoKey
      BY <1>2, <1>3, <1>5, <2>1, <3>2
    <3> HIDE DEF f
    <3> QED BY <1>2, <1>3, <1>4, <1>7, <2>5, <2>6, <3>1, <3>3, Own
  <2>8. CASE ~Pending(f)
    <3>1. f.setAnon = Same /\ f.setAuth = Same BY <2>8 DEF Pending
    <3>2. j = jar[b] BY <1>1, <3>1 DEF Taken, Jar
    <3>3. (\A t \in Scope \ {s} : ~Busy(t, b)) => k = KeyOfJar(jar[b])
      BY <1>0, <1>7, <2>8, Mine
    <3> HIDE DEF j
    <3>4. jar'[b] = jar[b] /\ gone' = gone BY <1>2, <1>5, <3>2
    <3>5. /\ {g.key, KeyOfJar(g.saw)} \subseteq {NoKey, k} \cup gone'
          /\ KeyOfJar(jar'[b]) \in {NoKey, k} \cup gone'
          /\ jar'[b].auth # NoKey => jar'[b].anon = NoKey
      BY <1>3, <2>1, <2>2, <3>4
    <3> HIDE DEF f
    <3> QED BY <1>2, <1>3, <1>4, <1>7, <2>5, <2>6, <3>3, <3>4, <3>5, Own
  <2> QED BY <2>7, <2>8
<1> HIDE DEF j
<1> HIDE DEF f
<1> QED BY <1>0, <1>2, <1>3, <1>5, <1>6, <1>7, Step

LEMMA GenerateKeepsSessions ==
    ASSUME Inv, Inv', SessionInv, NEW s \in Scope, Generate(s) PROVE SessionInv'
<1>0. PICK b \in Browser : scope[s].browser = b BY Context DEF Generate
<1> DEFINE f == scope[s]
           g(k) == [WriteSessionKey(f, k) EXCEPT !.at = "run", !.key = k, !.est = TRUE]
<1>1. f \in Frame /\ f.browser = b /\ f.at = "generate" BY <1>0, Context DEF Generate
<1>2. PICK h \in Key : Unused(h) /\ scope' = [scope EXCEPT ![s] = g(h)] /\ gone' = gone \ {h}
  BY DEF Generate, Move
<1>3. UNCHANGED <<jar, data, wrote, kept>> /\ excused \subseteq excused' BY DEF Generate
<1>4. /\ g(h).at = "run" /\ g(h).browser = b /\ g(h).saw = f.saw /\ g(h).key = h
      /\ g(h).auth = f.auth /\ g(h).est = TRUE /\ g(h).started = f.started
      /\ g(h).setAnon = (IF f.started THEN f.setAnon ELSE h) /\ g(h).setAuth = f.setAuth
  <2> DEFINE e == WriteSessionKey(f, h)
  <2>1. /\ e.browser = b /\ e.saw = f.saw /\ e.auth = f.auth /\ e.started = f.started
        /\ e.setAnon = (IF f.started THEN f.setAnon ELSE h) /\ e.setAuth = f.setAuth
        /\ e \in Frame
    <3>1. CASE f.started BY <1>1, <3>1 DEF WriteSessionKey
    <3>2. CASE ~f.started
      <4>1. e = [f EXCEPT !.setAnon = h] BY <3>2 DEF WriteSessionKey
      <4> QED BY <1>1, <3>2, <4>1 DEF Frame, MaybeKey
    <3> QED BY <3>1, <3>2
  <2>2. g(h) = [e EXCEPT !.at = "run", !.key = h, !.est = TRUE] OBVIOUS
  <2> HIDE DEF g, e
  <2> QED BY <2>1, <2>2 DEF Frame
<1> HIDE DEF g
<1>5. \A c \in Browser : Untouched(c) BY <1>2, <1>3, UnusedIsUnknown DEF Untouched
<1>6. ASSUME NEW k \in MaybeKey, Session(b, k)
      PROVE  Session(b, h)'
  <2>1. Pending(f) BY <1>1 DEF Pending
  <2>2. /\ f.saw = jar[b] /\ HomeOf(f) = k /\ Shape(f)
        /\ \A t \in Scope \ {s} : ~Busy(t, b)
    BY <1>0, <1>6, <2>1, Mine
  <2>3. /\ f.setAnon = Same /\ f.setAuth = Same /\ f.saw = EmptyJar /\ f.key = NoKey
        /\ ~f.started /\ ~f.est /\ ~f.auth
    BY <1>1, <2>2 DEF Shape, StageFits, ContextFits
  <2>4. k = NoKey /\ KeyOfJar(jar[b]) = NoKey /\ jar[b].auth = NoKey
    BY <1>1, <2>2, <2>3 DEF HomeOf, KeyOfJar, EmptyJar
  <2>5. h # NoKey /\ h # Same BY KeyAssumption
  <2>6. Shape(g(h))
    BY <1>4, <2>2, <2>3, <2>5, KeyAssumption DEF Shape, CookiesFit, ContextFits, StageFits
  <2>7. {g(h).key, KeyOfJar(g(h).saw)} \subseteq {NoKey, h} \cup gone'
    BY <1>4, <2>2, <2>4
  <2>8. HomeOf(g(h)) = h BY <1>4 DEF HomeOf
  <2>9. Items(b, h)' BY <1>3, <1>6, <2>4 DEF Session, Items
  <2>10. /\ KeyOfJar(jar'[b]) = NoKey /\ jar'[b].auth = NoKey /\ g(h).saw = jar'[b]
         /\ Pending(g(h))
    BY <1>3, <1>4, <2>2, <2>3, <2>4, <2>5 DEF Pending
  <2>11. \A j \in Key : Knows(b, j) /\ j \in gone => j \in gone' BY <1>5 DEF Untouched
  <2>12. h \in MaybeKey BY DEF MaybeKey
  <2> DEFINE G == g(h)
  <2>13. /\ Shape(G) /\ {G.key, KeyOfJar(G.saw)} \subseteq {NoKey, h} \cup gone'
         /\ G.saw = jar'[b] /\ HomeOf(G) = h /\ Pending(G)
         /\ scope' = [scope EXCEPT ![s] = G] /\ G.browser = b
    BY <1>2, <1>4, <2>6, <2>7, <2>8, <2>10
  <2> HIDE DEF G
  <2> QED BY <1>6, <2>2, <2>4, <2>9, <2>10, <2>11, <2>12, <2>13, Own
<1>7. h \in MaybeKey BY DEF MaybeKey
<1> DEFINE G == g(h)
<1>8. scope' = [scope EXCEPT ![s] = G] /\ G.browser = b BY <1>2, <1>4
<1> HIDE DEF G
<1> QED BY <1>0, <1>3, <1>5, <1>6, <1>7, <1>8, Step

LEMMA GenerateAuthenticatedKeepsSessions ==
    ASSUME Inv, Inv', SessionInv, NEW s \in Scope, GenerateAuthenticated(s)
    PROVE  SessionInv'
<1>0. PICK b \in Browser : scope[s].browser = b BY Context DEF GenerateAuthenticated
<1> DEFINE f == scope[s]
<1>1. f \in Frame /\ f.browser = b /\ f.at = "transition"
  BY <1>0, Context DEF GenerateAuthenticated
<1>2. PICK h \in Key : /\ Unused(h) \/ h = f.from
                       /\ scope' = [scope EXCEPT ![s] = [f EXCEPT !.at = "migrate", !.to = h]]
                       /\ gone' = IF h = f.from THEN gone ELSE gone \ {h}
  BY DEF GenerateAuthenticated, Move
<1>3. UNCHANGED <<jar, data, wrote, kept>> /\ excused \subseteq excused'
  BY DEF GenerateAuthenticated
<1> DEFINE g == [f EXCEPT !.at = "migrate", !.to = h]
<1>4. /\ g.at = "migrate" /\ g.browser = b /\ g.saw = f.saw /\ g.key = f.key /\ g.to = h
      /\ g.auth = f.auth /\ g.est = f.est /\ g.started = f.started /\ g.from = f.from
      /\ g.setAnon = f.setAnon /\ g.setAuth = f.setAuth /\ scope' = [scope EXCEPT ![s] = g]
  BY <1>1, <1>2 DEF Frame
<1> HIDE DEF g
<1>5. \A c \in Browser : Untouched(c)
  BY <1>2, <1>3, UnusedIsUnknown DEF Untouched
<1>6. ASSUME NEW k \in MaybeKey, Session(b, k)
      PROVE  Session(b, k)'
  <2>1. Pending(f) BY <1>1 DEF Pending
  <2>2. /\ f.saw = jar[b] /\ HomeOf(f) = k /\ Shape(f)
        /\ \A t \in Scope \ {s} : ~Busy(t, b)
    BY <1>0, <1>6, <2>1, Mine
  <2>3. f.key = k BY <1>1, <2>2 DEF HomeOf
  <2>4. /\ KeyOfJar(jar[b]) \in {NoKey, k} \cup gone
        /\ jar[b].auth # NoKey => jar[b].anon = NoKey
    BY <1>6 DEF Session
  <2>5. \A j \in Key : Knows(b, j) /\ j \in gone => j \in gone' BY <1>5 DEF Untouched
  <2>6. KeyOfJar(jar[b]) \in {NoKey, k} \cup gone'
    <3>1. KeyOfJar(jar[b]) # NoKey => KeyOfJar(jar[b]) \in Key /\ Knows(b, KeyOfJar(jar[b]))
      BY Context DEF KeyOfJar, Jar, Knows, MaybeKey
    <3> QED BY <2>4, <2>5, <3>1
  <2>7. Shape(g)
    BY <1>1, <1>4, <2>2, KeyAssumption DEF Shape, CookiesFit, ContextFits, StageFits
  <2>8. /\ {g.key, KeyOfJar(g.saw)} \subseteq {NoKey, k} \cup gone' /\ g.saw = jar'[b]
        /\ HomeOf(g) = k /\ Pending(g)
    BY <1>3, <1>4, <2>2, <2>3, <2>6 DEF HomeOf, Pending
  <2>9. Items(b, k)' BY <1>3, <1>6 DEF Session, Items
  <2>10. jar'[b] = jar[b] BY <1>3
  <2> QED BY <1>4, <1>6, <2>2, <2>4, <2>5, <2>6, <2>7, <2>8, <2>9, <2>10, Own
<1> HIDE DEF f
<1> QED BY <1>0, <1>3, <1>4, <1>5, <1>6, Step

LEMMA MigrateKeepsSessions ==
    ASSUME Inv, Inv', SessionInv, NEW s \in Scope, Migrate(s) PROVE SessionInv'
<1>0. PICK b \in Browser, h \in MaybeKey : scope[s].browser = b /\ scope[s].to = h
  BY Context, FrameFields DEF Migrate
<1> DEFINE f == scope[s]
           g == [f EXCEPT !.at = "finish"]
           moves == f.from \notin {NoKey, h}
<1>1. /\ f \in Frame /\ f.browser = b /\ f.at = "migrate" /\ f.to = h
      /\ f.from \in MaybeKey /\ data \in [Key -> SUBSET Item]
  BY <1>0, Context, FrameFields DEF Migrate, Inv, TypeOK
<1>2. /\ g.at = "finish" /\ g.browser = b /\ g.saw = f.saw /\ g.key = f.key /\ g.to = h
      /\ g.auth = f.auth /\ g.est = f.est /\ g.started = f.started /\ g.from = f.from
      /\ g.setAnon = f.setAnon /\ g.setAuth = f.setAuth /\ scope' = [scope EXCEPT ![s] = g]
  BY <1>1 DEF Frame, Migrate, Move
<1>3. /\ UNCHANGED <<jar, wrote, kept>> /\ excused \subseteq excused'
      /\ gone' = IF moves THEN gone \cup {f.from} ELSE gone
  BY <1>1 DEF Migrate
<1> HIDE DEF g
<1>4. f.from \in Key => Knows(b, f.from) BY <1>1 DEF Knows, KeysOf
<1>5. h \in Key => Knows(b, h) BY <1>1 DEF Knows, KeysOf
(* What is where afterwards. *)
<1>6. \A i \in Item, j \in Key :
        i \in data'[j] <=> IF moves THEN \/ j = h /\ i \in data[f.from] /\ h # f.from
                                         \/ j # f.from /\ i \in data[j]
                                    ELSE i \in data[j]
  <2>1. CASE ~moves BY <1>1, <2>1 DEF Migrate
  <2>2. CASE moves
    <3>1. data' = [data EXCEPT ![h] = @ \cup data[f.from], ![f.from] = {}]
      BY <1>1, <2>2 DEF Migrate
    <3>2. f.from \in Key /\ f.from # h BY <1>1, <2>2 DEF MaybeKey
    <3> QED BY <1>1, <2>2, <3>1, <3>2
  <2> QED BY <2>1, <2>2
<1>7. ASSUME NEW c \in Browser, NEW k \in MaybeKey, c # b, Session(c, k)
      PROVE  Untouched(c)
  <2>1. \A i \in Item, j \in Key : wrote[i] = c /\ Knows(b, j) => i \notin data[j]
    BY <1>7, Foreign
  <2>2. ASSUME NEW i \in Item, NEW j \in Key, wrote[i] = c
        PROVE  i \in data'[j] <=> i \in data[j]
    <3>1. CASE ~moves BY <1>6, <3>1
    <3>2. CASE moves
      <4>1. f.from \in Key BY <1>1, <3>2 DEF MaybeKey
      <4>2. i \notin data[f.from] BY <1>4, <2>1, <2>2, <4>1
      <4> QED BY <1>6, <3>2, <4>1, <4>2
    <3> QED BY <3>1, <3>2
  <2> QED BY <1>3, <2>2 DEF Untouched
<1>8. ASSUME NEW k \in MaybeKey, Session(b, k)
      PROVE  Session(b, h)'
  <2>1. Pending(f) BY <1>1 DEF Pending
  <2>2. /\ f.saw = jar[b] /\ HomeOf(f) = k /\ Shape(f)
        /\ \A t \in Scope \ {s} : ~Busy(t, b)
    BY <1>0, <1>8, <2>1, Mine
  <2>3. f.key = k /\ f.from = k /\ h # NoKey /\ h \in Key
    BY <1>1, <2>2 DEF HomeOf, Shape, StageFits, MaybeKey
  <2>4. /\ KeyOfJar(jar[b]) \in {NoKey, k} \cup gone
        /\ jar[b].auth # NoKey => jar[b].anon = NoKey
    BY <1>8 DEF Session
  <2>5. k \in {NoKey, h} \cup gone' /\ gone \subseteq gone' BY <1>3, <2>3
  <2>6. KeyOfJar(jar[b]) \in {NoKey, h} \cup gone' BY <2>4, <2>5
  <2>7. Shape(g)
    BY <1>1, <1>2, <2>2, <2>3, KeyAssumption DEF Shape, CookiesFit, ContextFits, StageFits
  <2>8. /\ {g.key, KeyOfJar(g.saw)} \subseteq {NoKey, h} \cup gone' /\ g.saw = jar'[b]
        /\ HomeOf(g) = h /\ Pending(g)
    BY <1>2, <1>3, <2>2, <2>3, <2>5, <2>6 DEF HomeOf, Pending
  <2>9. h \in Key BY <2>3
  <2>10. Items(b, h)'
    <3> SUFFICES ASSUME NEW i \in Item, wrote'[i] = b
                 PROVE  /\ i \in kept' => h # NoKey /\ i \in data'[h]
                        /\ \A j \in Key : i \in data'[j] => i \in kept' /\ j = h
      BY DEF Items
    <3>1. /\ i \in kept => k # NoKey /\ i \in data[k]
          /\ \A j \in Key : i \in data[j] => i \in kept /\ j = k
          /\ kept' = kept
      BY <1>3, <1>8 DEF Session, Items
    <3>2. CASE moves
      <4>1. k \in Key /\ k # h BY <1>1, <2>3, <3>2 DEF MaybeKey
      <4> QED BY <1>6, <2>3, <2>9, <3>1, <3>2, <4>1, KeyAssumption
    <3>3. CASE ~moves
      <4>1. k \in {NoKey, h} BY <2>3, <3>3
      <4> QED BY <1>6, <2>9, <3>1, <3>3, <4>1, KeyAssumption
    <3> QED BY <3>2, <3>3
  <2>11. \A j \in Key : Knows(b, j) /\ j \in gone => j \in gone' BY <2>5
  <2>12. jar'[b] = jar[b] BY <1>3
  <2> QED
    BY <1>2, <1>8, <2>2, <2>4, <2>5, <2>6, <2>7, <2>8, <2>9, <2>10, <2>11, <2>12, Own
<1> HIDE DEF f
<1> QED BY <1>0, <1>1, <1>2, <1>3, <1>7, <1>8, Step

LEMMA SignOutKeepsSessions ==
    ASSUME Inv, Inv', SessionInv, NEW s \in Scope, SignOut(s) PROVE SessionInv'
<1>0. PICK b \in Browser : scope[s].browser = b BY Context DEF SignOut, MaySign
<1> DEFINE f == scope[s]
           g == [f EXCEPT !.at = "clear"]
<1>1. /\ f \in Frame /\ f.browser = b /\ f.at = "run" /\ ~f.started /\ f.setAuth = Same
      /\ data \in [Key -> SUBSET Item]
  BY <1>0, Context DEF SignOut, MaySign, Inv, TypeOK
<1>2. PICK k0 \in Key : k0 = KeyToClear(f)
  BY <1>1, FrameFields DEF SignOut, KeyToClear, MaybeKey
<1>3. /\ g.at = "clear" /\ g.browser = b /\ g.saw = f.saw /\ g.key = f.key
      /\ g.auth = f.auth /\ g.est = f.est /\ g.started = f.started
      /\ g.setAnon = f.setAnon /\ g.setAuth = f.setAuth /\ scope' = [scope EXCEPT ![s] = g]
  BY <1>1 DEF Frame, SignOut, Move
<1>4. /\ jar' = jar /\ wrote' = wrote /\ gone' = gone \cup {k0}
      /\ kept' = {i \in kept : wrote[i] # b}
      /\ data' = [data EXCEPT ![k0] = {}]
      /\ excused \subseteq excused'
      /\ b \notin excused' => ~InTheWay(s)
  BY <1>0, <1>2 DEF SignOut, Excuse
<1> HIDE DEF g
<1>5. Knows(b, k0) BY <1>1, <1>2 DEF KeyToClear, Knows, KeysOf
<1>6. \A i \in Item, j \in Key : i \in data'[j] <=> j # k0 /\ i \in data[j]
  BY <1>1, <1>4
<1>7. ASSUME NEW c \in Browser, NEW k \in MaybeKey, c # b, Session(c, k)
      PROVE  Untouched(c)
  <2>1. \A i \in Item : wrote[i] = c => i \notin data[k0] BY <1>5, <1>7, Foreign
  <2> QED BY <1>4, <1>6, <1>7, <2>1 DEF Untouched
<1>8. ASSUME NEW k \in MaybeKey, b \notin excused', Session(b, k)
      PROVE  Session(b, NoKey)'
  <2>1. ~InTheWay(s) BY <1>4, <1>8
  <2>2. /\ f.saw = jar[b] /\ Shape(f) /\ f.key = k
        /\ \A t \in Scope \ {s} : ~Busy(t, b)
    BY <1>0, <1>1, <1>8, <2>1, SetsOut
  <2>3. k = k0
    <3>1. CASE f.saw.auth = NoKey BY <1>2, <2>2, <3>1 DEF KeyToClear
    <3>2. CASE f.saw.auth # NoKey
      <4>1. f.setAnon = Same
        BY <1>1, <2>2, <3>2 DEF Shape, CookiesFit, EmptyJar
      <4> QED
        BY <1>1, <1>2, <2>2, <3>2, <4>1 DEF KeyToClear, Shape, ContextFits, KeyOfJar
    <3> QED BY <3>1, <3>2
  <2>4. KeyOfJar(f.saw) \in {NoKey, k} \cup gone BY <1>0, <1>8, Mine
  <2>5. k \in gone' /\ gone \subseteq gone' /\ k # NoKey BY <1>4, <2>3, KeyAssumption
  <2>6. Shape(g)
    BY <1>1, <1>3, <2>2, KeyAssumption DEF Shape, CookiesFit, ContextFits, StageFits
  <2>7. /\ {g.key, KeyOfJar(g.saw)} \subseteq {NoKey} \cup gone' /\ g.saw = jar'[b]
        /\ HomeOf(g) = NoKey /\ Pending(g)
    BY <1>3, <1>4, <2>2, <2>4, <2>5, KeyAssumption DEF HomeOf, Pending
  <2>8. Items(b, NoKey)'
    <3> SUFFICES ASSUME NEW i \in Item, wrote'[i] = b
                 PROVE  i \notin kept' /\ \A j \in Key : i \notin data'[j]
      BY DEF Items
    <3> QED BY <1>4, <1>6, <1>8, <2>3 DEF Session, Items
  <2>9. /\ jar[b].auth # NoKey => jar[b].anon = NoKey
        /\ KeyOfJar(jar[b]) \in {NoKey} \cup gone'
    BY <1>8, <2>5 DEF Session
  <2>10. \A j \in Key : Knows(b, j) /\ j \in gone => j \in gone' BY <2>5
  <2>11. jar'[b] = jar[b] /\ NoKey \in MaybeKey BY <1>4 DEF MaybeKey
  <2> QED BY <1>3, <1>8, <2>2, <2>5, <2>6, <2>7, <2>8, <2>9, <2>10, <2>11, Own
<1>9. NoKey \in MaybeKey BY DEF MaybeKey
<1> HIDE DEF f
<1> QED BY <1>0, <1>3, <1>4, <1>7, <1>8, <1>9, Step

-----------------------------------------------------------------------------
LEMMA InitSessions == Init => SessionInv
<1> SUFFICES ASSUME Init, NEW b \in Browser PROVE Session(b, NoKey)
  BY DEF SessionInv, MaybeKey
<1>1. \A t \in Scope : scope[t].browser # b
  BY KeyAssumption DEF Init, FreeFrame
<1>2. Frames(b, NoKey) /\ OneIsBusy(b, NoKey) /\ \A t \in Scope : ~Busy(t, b)
  BY <1>1 DEF Frames, OneIsBusy, Busy
<1>3. Items(b, NoKey) BY KeyAssumption DEF Init, Items
<1>4. jar[b] = EmptyJar BY DEF Init
<1> QED BY <1>2, <1>3, <1>4 DEF Session, KeyOfJar, EmptyJar

LEMMA NextSessions == Inv /\ Inv' /\ SessionInv /\ [Next]_vars => SessionInv'
<1> SUFFICES ASSUME Inv, Inv', SessionInv, [Next]_vars PROVE SessionInv' OBVIOUS
<1>1. CASE UNCHANGED vars
  <2>1. \A b \in Browser, k \in MaybeKey : Session(b, k) => Session(b, k)'
    BY <1>1 DEF vars, history, Session, Frames, OneIsBusy, Items, Busy
  <2> QED BY <1>1, <2>1 DEF SessionInv, vars, history
<1>2. CASE Next
  <2> PICK s \in Scope :
        \/ \E b \in Browser, isCircuit \in BOOLEAN : Open(s, b, isCircuit)
        \/ Establish(s) \/ Generate(s) \/ GenerateThrows(s) \/ Write(s)
        \/ SignIn(s) \/ SignInAgain(s) \/ GenerateAuthenticated(s) \/ SignInThrows(s)
        \/ Migrate(s) \/ FinishSignIn(s)
        \/ SignOutNothing(s) \/ SignOut(s) \/ ClearSession(s)
        \/ StartResponse(s) \/ End(s) \/ Abort(s)
    BY <1>2 DEF Next
  <2> QED
    BY OpenIsQuiet, EstablishIsQuiet, GenerateKeepsSessions, GenerateThrowsIsQuiet,
       WriteKeepsSessions, SignInIsQuiet, SignInAgainIsQuiet,
       GenerateAuthenticatedKeepsSessions, SignInThrowsIsQuiet, MigrateKeepsSessions,
       FinishSignInIsQuiet, SignOutNothingIsQuiet, SignOutKeepsSessions,
       ClearSessionIsQuiet, StartResponseKeepsSessions, EndIsQuiet
<1> QED BY <1>1, <1>2

LEMMA SpecSessions == Spec => []SessionInv
BY InitSessions, NextSessions, SpecInv, PTL DEF Spec

LEMMA SettledIsNotBusy ==
    ASSUME NEW b, Settled(b) PROVE \A t \in Scope : ~Busy(t, b)
BY ChangingIsPending DEF Settled, Busy

(* Whatever a browser's scopes wrote is in the session it is in, whatever  *)
(* requests, circuits, sign-ins and lost responses there are, unless its   *)
(* requests got in each other's way.                                       *)
THEOREM WritesAreNotLost == Spec => []NothingIsLost
<1>1. Inv /\ SessionInv => NothingIsLost
  <2> SUFFICES ASSUME Inv, SessionInv, NEW b \in Browser \ excused, Settled(b),
                      NEW i \in kept, wrote[i] = b
               PROVE  KeyOf(b) # NoKey /\ i \in data[KeyOf(b)]
    BY DEF NothingIsLost
  <2>0. i \in Item BY DEF Inv, TypeOK
  <2>1. PICK k \in MaybeKey : Session(b, k) BY DEF SessionInv
  <2>2. k = KeyOf(b) BY <2>1, SettledIsNotBusy DEF Session, KeyOf, KeyOfJar
  <2> QED BY <2>0, <2>1, <2>2 DEF Session, Items
<1> QED BY <1>1, SpecInv, SpecSessions, PTL

(* After a sign-out nothing of what the browser had written before is left *)
(* in any session.                                                         *)
THEOREM SignOutIsComplete == Spec => []SignOutLeavesNothing
<1>1. Inv /\ SessionInv => SignOutLeavesNothing
  <2> SUFFICES ASSUME Inv, SessionInv, NEW b \in Browser \ excused, NEW j \in Key,
                      NEW i \in data[j], i \notin kept
               PROVE  wrote[i] # b
    BY DEF SignOutLeavesNothing
  <2>1. i \in Item BY DEF Inv, TypeOK
  <2>2. PICK k \in MaybeKey : Session(b, k) BY DEF SessionInv
  <2> QED BY <2>1, <2>2 DEF Session, Items
<1> QED BY <1>1, SpecInv, SpecSessions, PTL

(* A browser that is signed in has given up its anonymous cookie.          *)
THEOREM OneKeyWhenSignedIn == Spec => []SignedInHasOneKey
<1>1. SessionInv => SignedInHasOneKey
  BY DEF SessionInv, Session, SignedInHasOneKey
<1> QED BY <1>1, SpecSessions, PTL

(* Requests and circuits that saw the browser's present cookies work on    *)
(* its session.                                                            *)
THEOREM SessionIsShared == Spec => []ScopesShareTheSession
<1>1. Inv /\ SessionInv => ScopesShareTheSession
  <2> SUFFICES ASSUME Inv, SessionInv, NEW s \in Scope,
                      scope[s].at = "run", scope[s].est, scope[s].browser \notin excused,
                      Settled(scope[s].browser), scope[s].saw = jar[scope[s].browser],
                      scope[s].key \notin gone
               PROVE  scope[s].key = KeyOf(scope[s].browser)
    BY DEF ScopesShareTheSession
  <2>1. PICK b \in Browser : scope[s].browser = b BY Context
  <2>2. PICK k \in MaybeKey : Session(b, k) BY <2>1 DEF SessionInv
  <2>3. k = KeyOf(b) BY <2>1, <2>2, SettledIsNotBusy DEF Session, KeyOf, KeyOfJar
  <2>4. Shape(scope[s]) /\ scope[s].key \in {NoKey, k} BY <2>1, <2>2, Mine
  <2>5. CASE scope[s].key = NoKey
    <3>1. scope[s].saw = EmptyJar BY <2>4, <2>5 DEF Shape, ContextFits
    <3> QED BY <2>1, <2>5, <3>1 DEF KeyOf, EmptyJar
  <2> QED BY <2>1, <2>3, <2>4, <2>5
<1> QED BY <1>1, SpecInv, SpecSessions, PTL
================================================================================
