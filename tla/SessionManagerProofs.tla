------------------------ MODULE SessionManagerProofs ------------------------
(* Theorems about SessionManager, for any browsers, scopes, keys, items.   *)
EXTENDS SessionManager, TLAPS

(* A slot that is free remembers nothing, and one that is not serves a     *)
(* browser.                                                                *)
FreeIsEmpty ==
    \A s \in Scope :
      IF scope[s].at = "free" THEN scope[s] = FreeFrame ELSE scope[s].browser \in Browser

Inv == TypeOK /\ FreeIsEmpty /\ SessionsAreApart

-----------------------------------------------------------------------------
(* The frames the actions make are frames.                                 *)
LEMMA FrameFields ==
    ASSUME NEW f \in Frame
    PROVE  /\ f.browser \in Browser \cup {NoKey} /\ f.saw \in Jar
           /\ f.saw.anon \in MaybeKey /\ f.saw.auth \in MaybeKey
           /\ f.key \in MaybeKey /\ f.from \in MaybeKey /\ f.to \in MaybeKey
           /\ f.setAnon \in MaybeKey \cup {Same} /\ f.setAuth \in MaybeKey \cup {Same}
BY DEF Frame, Jar

LEMMA FreeFrameType == FreeFrame \in Frame
BY DEF FreeFrame, Frame, EmptyJar, Jar, MaybeKey

(* A step of one scope keeps browsers apart if what its frame and its      *)
(* browser's cookies name afterwards was known to the browser before, or   *)
(* to nobody.                                                              *)
LEMMA StepKeepsApart ==
    ASSUME Inv, NEW s \in Scope, NEW b \in Browser, NEW g \in Frame,
           scope' = [scope EXCEPT ![s] = g],
           g.browser \in {b, NoKey},
           \A c \in Browser : c # b => jar'[c] = jar[c],
           \A k \in Key : k \in KeysOf(g) \cup {jar'[b].anon, jar'[b].auth} =>
             Knows(b, k) \/ Unused(k)
    PROVE  SessionsAreApart'
<1>1. scope \in [Scope -> Frame] BY DEF Inv, TypeOK
<1>2. scope'[s] = g /\ \A t \in Scope : t # s => scope'[t] = scope[t]
  BY <1>1
<1>3. NoKey \notin Browser BY KeyAssumption
<1>4. \A c \in Browser, k \in Key : c # b /\ Knows(c, k)' => Knows(c, k)
  BY <1>2, <1>3 DEF Knows, KeysOf
<1>5. \A k \in Key : Knows(b, k)' => Knows(b, k) \/ Unused(k)
  <2> SUFFICES ASSUME NEW k \in Key, Knows(b, k)' PROVE Knows(b, k) \/ Unused(k)
    OBVIOUS
  <2>1. CASE k \in {jar'[b].anon, jar'[b].auth} BY <2>1
  <2>2. CASE \E t \in Scope : scope'[t].browser = b /\ k \in KeysOf(scope'[t])
    <3>1. PICK t \in Scope : scope'[t].browser = b /\ k \in KeysOf(scope'[t]) BY <2>2
    <3>2. CASE t = s BY <3>1, <3>2, <1>2
    <3>3. CASE t # s BY <3>1, <3>3, <1>2 DEF Knows
    <3> QED BY <3>2, <3>3
  <2> QED BY <2>1, <2>2 DEF Knows, KeysOf
<1>6. \A c \in Browser, k \in Key : Knows(c, k) => ~Unused(k)
  BY DEF Knows, Unused
<1>7. \A c, d \in Browser, k \in Key : c # d => ~(Knows(c, k) /\ Knows(d, k))
  BY DEF Inv, SessionsAreApart
<1>8. \A c, d \in Browser, k \in Key : c # d => ~(Knows(c, k)' /\ Knows(d, k)')
  BY <1>4, <1>5, <1>6, <1>7
<1> QED BY <1>8 DEF SessionsAreApart

(* What every step of a scope has to show.  New(g, s): the keys of the     *)
(* frame g were in the slot's frame or in its browser's cookies before, or *)
(* nobody knew them.                                                       *)
Old(s) == KeysOf(scope[s]) \cup {jar[scope[s].browser].anon, jar[scope[s].browser].auth}

OthersKeepTypes ==
    /\ data' \in [Key -> SUBSET Item] /\ wrote' \in [Item -> Browser \cup {NoKey}]
    /\ kept' \subseteq Item /\ gone' \subseteq Key /\ excused' \subseteq Browser

LEMMA FrameStep ==
    ASSUME Inv, NEW s \in Scope, scope[s].at # "free", NEW g \in Frame,
           scope' = [scope EXCEPT ![s] = g],
           g = FreeFrame \/ (g.at # "free" /\ g.browser = scope[s].browser),
           jar' = jar, OthersKeepTypes,
           \A k \in Key : k \in KeysOf(g) => k \in Old(s) \/ Unused(k)
    PROVE  Inv'
<1> DEFINE b == scope[s].browser
<1>1. scope \in [Scope -> Frame] /\ jar \in [Browser -> Jar] BY DEF Inv, TypeOK
<1>2. b \in Browser BY DEF Inv, FreeIsEmpty
<1>3. scope'[s] = g /\ \A t \in Scope : t # s => scope'[t] = scope[t]
  BY <1>1
<1>4. TypeOK' BY <1>1 DEF TypeOK, OthersKeepTypes
<1>5. FreeIsEmpty'
  <2>1. FreeFrame.at = "free" BY DEF FreeFrame
  <2>2. FreeFrame = FreeFrame' BY DEF FreeFrame, EmptyJar
  <2>3. IF g.at = "free" THEN g = FreeFrame ELSE g.browser \in Browser BY <1>2, <2>1
  <2>4. \A t \in Scope : IF scope[t].at = "free" THEN scope[t] = FreeFrame
                                                 ELSE scope[t].browser \in Browser
    BY DEF Inv, FreeIsEmpty
  <2> HIDE DEF FreeFrame
  <2>5. \A t \in Scope : IF scope'[t].at = "free" THEN scope'[t] = FreeFrame
                                                  ELSE scope'[t].browser \in Browser
    BY <1>3, <2>3, <2>4
  <2> QED BY <2>2, <2>5 DEF FreeIsEmpty
<1>6. g.browser \in {b, NoKey} BY DEF FreeFrame
<1>7. \A k \in Key : k \in Old(s) => Knows(b, k) BY DEF Old, Knows
<1>8. \A k \in Key : k \in KeysOf(g) \cup {jar'[b].anon, jar'[b].auth} =>
                       Knows(b, k) \/ Unused(k)
  BY <1>7 DEF Old
<1>9. SessionsAreApart' BY <1>2, <1>6, <1>8, StepKeepsApart
<1> QED BY <1>4, <1>5, <1>9 DEF Inv

(* Steps that leave the data and the history alone, and those that excuse. *)
LEMMA OthersAlone == TypeOK /\ UNCHANGED <<data, history>> => OthersKeepTypes
BY DEF TypeOK, OthersKeepTypes, history

LEMMA ExcuseType ==
    ASSUME NEW s \in Scope, NEW cond, TypeOK, scope[s].browser \in Browser, Excuse(s, cond)
    PROVE  excused' \subseteq Browser
BY DEF Excuse, TypeOK

-----------------------------------------------------------------------------
LEMMA Context == Inv => /\ scope \in [Scope -> Frame] /\ jar \in [Browser -> Jar]
                       /\ \A s \in Scope : scope[s].at # "free" => scope[s].browser \in Browser
BY DEF Inv, TypeOK, FreeIsEmpty

LEMMA EstablishKeeps == ASSUME Inv, NEW s \in Scope, Establish(s) PROVE Inv'
<1> DEFINE f == scope[s]
<1>1. f \in Frame /\ f.browser \in Browser /\ f.at = "establish"
  BY Context DEF Establish
<1>2. OthersKeepTypes
  BY <1>1, ExcuseType DEF Establish, EstablishNew, OthersKeepTypes, Inv, TypeOK, Excuse
<1>3. jar' = jar BY DEF Establish
<1>4. CASE AlreadyEstablished(s)
  <2> DEFINE g == [f EXCEPT !.at = "run"]
  <2>1. g \in Frame /\ g.at = "run" /\ g.browser = f.browser /\ KeysOf(g) = KeysOf(f)
    BY <1>1 DEF Frame, KeysOf
  <2>2. scope' = [scope EXCEPT ![s] = g] BY <1>4 DEF AlreadyEstablished, Move
  <2> HIDE DEF g
  <2> QED BY <1>1, <1>2, <1>3, <2>1, <2>2, FrameStep DEF Old
<1>5. CASE EstablishFromClaim(s)
  <2> DEFINE g == [f EXCEPT !.at = IF f.circuit THEN "run" ELSE "establish",
                            !.key = f.saw.auth, !.auth = TRUE, !.est = TRUE]
  <2>1. g \in Frame /\ g.at # "free" /\ g.browser = f.browser /\ KeysOf(g) \subseteq KeysOf(f)
    BY <1>1, FrameFields DEF Frame, KeysOf
  <2>2. scope' = [scope EXCEPT ![s] = g] BY <1>5 DEF EstablishFromClaim, Move
  <2> HIDE DEF g
  <2> QED BY <1>1, <1>2, <1>3, <2>1, <2>2, FrameStep DEF Old
<1>6. CASE EstablishFromCookie(s)
  <2> DEFINE g == [f EXCEPT !.at = "run", !.key = f.saw.anon, !.est = TRUE]
  <2>1. g \in Frame /\ g.at = "run" /\ g.browser = f.browser /\ KeysOf(g) \subseteq KeysOf(f)
    BY <1>1, FrameFields DEF Frame, KeysOf
  <2>2. scope' = [scope EXCEPT ![s] = g] BY <1>6 DEF EstablishFromCookie, Move
  <2> HIDE DEF g
  <2> QED BY <1>1, <1>2, <1>3, <2>1, <2>2, FrameStep DEF Old
<1>7. CASE EstablishNone(s)
  <2> DEFINE g == [f EXCEPT !.at = "run", !.est = TRUE]
  <2>1. g \in Frame /\ g.at = "run" /\ g.browser = f.browser /\ KeysOf(g) = KeysOf(f)
    BY <1>1 DEF Frame, KeysOf
  <2>2. scope' = [scope EXCEPT ![s] = g] BY <1>7 DEF EstablishNone, Move
  <2> HIDE DEF g
  <2> QED BY <1>1, <1>2, <1>3, <2>1, <2>2, FrameStep DEF Old
<1>8. CASE EstablishNew(s)
  <2> DEFINE g == [f EXCEPT !.at = "generate"]
  <2>1. g \in Frame /\ g.at = "generate" /\ g.browser = f.browser /\ KeysOf(g) = KeysOf(f)
    BY <1>1 DEF Frame, KeysOf
  <2>2. scope' = [scope EXCEPT ![s] = g] BY <1>8 DEF EstablishNew, Move
  <2> HIDE DEF g
  <2> QED BY <1>1, <1>2, <1>3, <2>1, <2>2, FrameStep DEF Old
<1> QED BY <1>4, <1>5, <1>6, <1>7, <1>8 DEF Establish

LEMMA GenerateThrowsKeeps == ASSUME Inv, NEW s \in Scope, GenerateThrows(s) PROVE Inv'
<1> DEFINE f == scope[s]
           g == [f EXCEPT !.at = "run"]
<1>1. f \in Frame /\ f.browser \in Browser
  BY Context DEF GenerateThrows
<1>2. OthersKeepTypes /\ jar' = jar
  BY <1>1, OthersAlone, ExcuseType DEF GenerateThrows, OthersKeepTypes, Inv, TypeOK
<1>3. g \in Frame /\ g.at # "free" /\ g.browser = f.browser /\ KeysOf(g) = KeysOf(f)
  BY <1>1, FrameFields DEF Frame, KeysOf
<1>4. scope' = [scope EXCEPT ![s] = g] /\ f.at # "free"
  BY DEF GenerateThrows, Move
<1> HIDE DEF g
<1> QED BY <1>1, <1>2, <1>3, <1>4, FrameStep, KeyAssumption DEF Old

LEMMA SignInKeeps == ASSUME Inv, NEW s \in Scope, SignIn(s) PROVE Inv'
<1> DEFINE f == scope[s]
           g == [f EXCEPT !.at = "transition", !.from = AnonymousKey(f)]
<1>1. f \in Frame /\ f.browser \in Browser
  BY Context DEF SignIn, MaySign
<1>2. OthersKeepTypes /\ jar' = jar
  BY <1>1, OthersAlone, ExcuseType DEF SignIn, OthersKeepTypes, Inv, TypeOK
<1>3. g \in Frame /\ g.at # "free" /\ g.browser = f.browser /\ KeysOf(g) \subseteq KeysOf(f) \cup {NoKey, Same}
  BY <1>1, FrameFields DEF Frame, KeysOf, AnonymousKey
<1>4. scope' = [scope EXCEPT ![s] = g] /\ f.at # "free"
  BY DEF SignIn, Move, MaySign
<1> HIDE DEF g
<1> QED BY <1>1, <1>2, <1>3, <1>4, FrameStep, KeyAssumption DEF Old

LEMMA SignInAgainKeeps == ASSUME Inv, NEW s \in Scope, SignInAgain(s) PROVE Inv'
<1> DEFINE f == scope[s]
           g == [f EXCEPT !.setAuth = f.saw.auth]
<1>1. f \in Frame /\ f.browser \in Browser /\ f.at = "run"
  BY Context DEF SignInAgain, MaySign
<1>2. OthersKeepTypes /\ jar' = jar
  BY <1>1, OthersAlone, ExcuseType DEF SignInAgain, OthersKeepTypes, Inv, TypeOK
<1>3. g \in Frame /\ g.at # "free" /\ g.browser = f.browser /\ KeysOf(g) \subseteq KeysOf(f) \cup {NoKey, Same}
  BY <1>1, FrameFields DEF Frame, KeysOf
<1>4. scope' = [scope EXCEPT ![s] = g] /\ f.at # "free"
  BY DEF SignInAgain, Move, MaySign
<1> HIDE DEF g
<1> QED BY <1>1, <1>2, <1>3, <1>4, FrameStep, KeyAssumption DEF Old

LEMMA SignInThrowsKeeps == ASSUME Inv, NEW s \in Scope, SignInThrows(s) PROVE Inv'
<1> DEFINE f == scope[s]
           g == [f EXCEPT !.at = "run", !.from = NoKey]
<1>1. f \in Frame /\ f.browser \in Browser
  BY Context DEF SignInThrows
<1>2. OthersKeepTypes /\ jar' = jar
  BY <1>1, OthersAlone, ExcuseType DEF SignInThrows, OthersKeepTypes, Inv, TypeOK
<1>3. g \in Frame /\ g.at # "free" /\ g.browser = f.browser /\ KeysOf(g) \subseteq KeysOf(f) \cup {NoKey, Same}
  BY <1>1, FrameFields DEF Frame, KeysOf, MaybeKey
<1>4. scope' = [scope EXCEPT ![s] = g] /\ f.at # "free"
  BY DEF SignInThrows, Move
<1> HIDE DEF g
<1> QED BY <1>1, <1>2, <1>3, <1>4, FrameStep, KeyAssumption DEF Old

LEMMA MigrateKeeps == ASSUME Inv, NEW s \in Scope, Migrate(s) PROVE Inv'
<1> DEFINE f == scope[s]
           g == [f EXCEPT !.at = "finish"]
<1>1. f \in Frame /\ f.browser \in Browser
  BY Context DEF Migrate
<1>2. OthersKeepTypes /\ jar' = jar
  <2>1. data \in [Key -> SUBSET Item] /\ gone \subseteq Key BY DEF Inv, TypeOK
  <2>2. f.from # NoKey => f.from \in Key BY <1>1, FrameFields DEF MaybeKey
  <2>3. data' \in [Key -> SUBSET Item] /\ gone' \subseteq Key
    BY <2>1, <2>2 DEF Migrate
  <2> QED BY <2>3 DEF Migrate, OthersKeepTypes, Inv, TypeOK
<1>3. g \in Frame /\ g.at # "free" /\ g.browser = f.browser /\ KeysOf(g) = KeysOf(f)
  BY <1>1, FrameFields DEF Frame, KeysOf
<1>4. scope' = [scope EXCEPT ![s] = g] /\ f.at # "free"
  BY DEF Migrate, Move
<1> HIDE DEF g
<1> QED BY <1>1, <1>2, <1>3, <1>4, FrameStep, KeyAssumption DEF Old

LEMMA FinishSignInKeeps == ASSUME Inv, NEW s \in Scope, FinishSignIn(s) PROVE Inv'
<1> DEFINE f == scope[s]
           g == [f EXCEPT !.at = "run", !.key = f.to, !.auth = TRUE, !.est = TRUE,
                         !.setAnon = NoKey, !.setAuth = f.to,
                         !.from = NoKey, !.to = NoKey]
<1>1. f \in Frame /\ f.browser \in Browser
  BY Context DEF FinishSignIn
<1>2. OthersKeepTypes /\ jar' = jar
  BY <1>1, OthersAlone, ExcuseType DEF FinishSignIn, OthersKeepTypes, Inv, TypeOK
<1>3. g \in Frame /\ g.at # "free" /\ g.browser = f.browser /\ KeysOf(g) \subseteq KeysOf(f) \cup {NoKey, Same}
  BY <1>1, FrameFields DEF Frame, KeysOf, MaybeKey
<1>4. scope' = [scope EXCEPT ![s] = g] /\ f.at # "free"
  BY DEF FinishSignIn, Move
<1> HIDE DEF g
<1> QED BY <1>1, <1>2, <1>3, <1>4, FrameStep, KeyAssumption DEF Old

LEMMA SignOutNothingKeeps == ASSUME Inv, NEW s \in Scope, SignOutNothing(s) PROVE Inv'
<1> DEFINE f == scope[s]
           g == [f EXCEPT !.setAuth = NoKey]
<1>1. f \in Frame /\ f.browser \in Browser /\ f.at = "run"
  BY Context DEF SignOutNothing, MaySign
<1>2. OthersKeepTypes /\ jar' = jar
  BY <1>1, OthersAlone, ExcuseType DEF SignOutNothing, OthersKeepTypes, Inv, TypeOK
<1>3. g \in Frame /\ g.at # "free" /\ g.browser = f.browser /\ KeysOf(g) \subseteq KeysOf(f) \cup {NoKey, Same}
  BY <1>1, FrameFields DEF Frame, KeysOf, MaybeKey
<1>4. scope' = [scope EXCEPT ![s] = g] /\ f.at # "free"
  BY DEF SignOutNothing, Move, MaySign
<1> HIDE DEF g
<1> QED BY <1>1, <1>2, <1>3, <1>4, FrameStep, KeyAssumption DEF Old

LEMMA SignOutKeeps == ASSUME Inv, NEW s \in Scope, SignOut(s) PROVE Inv'
<1> DEFINE f == scope[s]
           g == [f EXCEPT !.at = "clear"]
<1>1. f \in Frame /\ f.browser \in Browser
  BY Context DEF SignOut, MaySign
<1>2. OthersKeepTypes /\ jar' = jar
  <2>1. /\ data \in [Key -> SUBSET Item] /\ gone \subseteq Key /\ kept \subseteq Item
        /\ TypeOK
    BY DEF Inv, TypeOK
  <2>2. KeyToClear(f) # NoKey => KeyToClear(f) \in Key
    BY <1>1, FrameFields DEF KeyToClear, MaybeKey
  <2>3. /\ data' \in [Key -> SUBSET Item] /\ gone' \subseteq Key
        /\ kept' \subseteq Item
    BY <2>1, <2>2 DEF SignOut
  <2>4. excused' \subseteq Browser BY <1>1, <2>1, ExcuseType DEF SignOut
  <2> QED BY <2>3, <2>4 DEF SignOut, OthersKeepTypes, Inv, TypeOK
<1>3. g \in Frame /\ g.at # "free" /\ g.browser = f.browser /\ KeysOf(g) = KeysOf(f)
  BY <1>1, FrameFields DEF Frame, KeysOf
<1>4. scope' = [scope EXCEPT ![s] = g] /\ f.at # "free"
  BY DEF SignOut, Move, MaySign
<1> HIDE DEF g
<1> QED BY <1>1, <1>2, <1>3, <1>4, FrameStep, KeyAssumption DEF Old

LEMMA ClearSessionKeeps == ASSUME Inv, NEW s \in Scope, ClearSession(s) PROVE Inv'
<1> DEFINE f == scope[s]
           g == [f EXCEPT !.at = "run", !.key = NoKey, !.auth = FALSE, !.est = FALSE,
                         !.setAnon = NoKey, !.setAuth = NoKey]
<1>1. f \in Frame /\ f.browser \in Browser
  BY Context DEF ClearSession
<1>2. OthersKeepTypes /\ jar' = jar
  BY <1>1, OthersAlone, ExcuseType DEF ClearSession, OthersKeepTypes, Inv, TypeOK
<1>3. g \in Frame /\ g.at # "free" /\ g.browser = f.browser /\ KeysOf(g) \subseteq KeysOf(f) \cup {NoKey, Same}
  BY <1>1, FrameFields DEF Frame, KeysOf, MaybeKey
<1>4. scope' = [scope EXCEPT ![s] = g] /\ f.at # "free"
  BY DEF ClearSession, Move
<1> HIDE DEF g
<1> QED BY <1>1, <1>2, <1>3, <1>4, FrameStep, KeyAssumption DEF Old

-----------------------------------------------------------------------------
(* The steps that bring a new key.                                         *)
LEMMA GenerateKeeps == ASSUME Inv, NEW s \in Scope, Generate(s) PROVE Inv'
<1> DEFINE f == scope[s]
           g(k) == [WriteSessionKey(f, k) EXCEPT !.at = "run", !.key = k, !.est = TRUE]
<1>1. f \in Frame /\ f.browser \in Browser /\ f.at = "generate"
  BY Context DEF Generate
<1>2. PICK k \in Key : Unused(k) /\ scope' = [scope EXCEPT ![s] = g(k)] /\ gone' = gone \ {k}
  BY DEF Generate, Move
<1>3. OthersKeepTypes /\ jar' = jar
  BY <1>2 DEF Generate, OthersKeepTypes, Inv, TypeOK
<1>4. g(k) \in Frame /\ g(k).at = "run" /\ g(k).browser = f.browser
      /\ KeysOf(g(k)) \subseteq KeysOf(f) \cup {k}
  <2> DEFINE h == WriteSessionKey(f, k)
  <2>1. h \in Frame /\ h.browser = f.browser /\ KeysOf(h) \subseteq KeysOf(f) \cup {k}
    <3>1. CASE f.started BY <1>1, <3>1 DEF WriteSessionKey
    <3>2. CASE ~f.started
      <4>1. h = [f EXCEPT !.setAnon = k] BY <3>2 DEF WriteSessionKey
      <4> QED BY <1>1, <4>1 DEF Frame, KeysOf, MaybeKey
    <3> QED BY <3>1, <3>2
  <2> HIDE DEF h
  <2> DEFINE e == [h EXCEPT !.at = "run", !.key = k, !.est = TRUE]
  <2>2. g(k) = e BY DEF h
  <2>3. e \in Frame /\ e.at = "run" /\ e.browser = h.browser
    BY <2>1 DEF Frame, MaybeKey
  <2>4. KeysOf(e) \subseteq KeysOf(h) \cup {k} BY <2>1 DEF Frame, KeysOf
  <2> HIDE DEF g, h, e
  <2> QED BY <2>1, <2>2, <2>3, <2>4
<1> HIDE DEF g
<1> QED BY <1>1, <1>2, <1>3, <1>4, FrameStep DEF Old

LEMMA GenerateAuthenticatedKeeps ==
    ASSUME Inv, NEW s \in Scope, GenerateAuthenticated(s) PROVE Inv'
<1> DEFINE f == scope[s]
           g(k) == [f EXCEPT !.at = "migrate", !.to = k]
<1>1. f \in Frame /\ f.browser \in Browser /\ f.at = "transition"
  BY Context DEF GenerateAuthenticated
<1>2. PICK k \in Key : /\ Unused(k) \/ k = f.from
                       /\ scope' = [scope EXCEPT ![s] = g(k)]
                       /\ gone' = IF k = f.from THEN gone ELSE gone \ {k}
  BY DEF GenerateAuthenticated, Move
<1>3. OthersKeepTypes /\ jar' = jar
  BY <1>2 DEF GenerateAuthenticated, OthersKeepTypes, Inv, TypeOK
<1>4. g(k) \in Frame /\ g(k).at = "migrate" /\ g(k).browser = f.browser
      /\ KeysOf(g(k)) \subseteq KeysOf(f) \cup {k}
  BY <1>1, FrameFields DEF Frame, KeysOf, MaybeKey
<1>5. f.from \in KeysOf(f) BY DEF KeysOf
<1> HIDE DEF g
<1> QED BY <1>1, <1>2, <1>3, <1>4, <1>5, FrameStep DEF Old

(* The ends of a scope.                                                    *)
LEMMA EndKeeps == ASSUME Inv, NEW s \in Scope, End(s) \/ Abort(s) PROVE Inv'
<1>1. scope[s] \in Frame /\ scope[s].browser \in Browser /\ scope[s].at = "run"
  BY Context DEF End, Abort
<1>2. OthersKeepTypes /\ jar' = jar
  BY <1>1, OthersAlone, ExcuseType DEF End, Abort, OthersKeepTypes, Inv, TypeOK
<1>3. scope' = [scope EXCEPT ![s] = FreeFrame]
  BY DEF End, Abort, Move, FreedFrame
<1>4. KeysOf(FreeFrame) \cap Key = {}
  BY KeyAssumption DEF KeysOf, FreeFrame, EmptyJar
<1> HIDE DEF FreeFrame
<1> QED BY <1>1, <1>2, <1>3, <1>4, FreeFrameType, FrameStep

(* A write touches no frame and no cookie.                                 *)
LEMMA WriteKeeps == ASSUME Inv, NEW s \in Scope, Write(s) PROVE Inv'
<1>1. scope[s] \in Frame /\ scope[s].browser \in Browser
  BY Context DEF Write
<1>2. PICK i \in Item : /\ data' = [data EXCEPT ![scope[s].key] = @ \cup {i}]
                        /\ wrote' = [wrote EXCEPT ![i] = scope[s].browser]
                        /\ kept' = kept \cup {i}
  BY DEF Write
<1>3. TypeOK' BY <1>1, <1>2, ExcuseType DEF Write, Inv, TypeOK
<1>4. FreeIsEmpty' BY DEF Write, Inv, FreeIsEmpty
<1>5. SessionsAreApart' BY DEF Write, Inv, SessionsAreApart, Knows
<1> QED BY <1>3, <1>4, <1>5 DEF Inv

(* A new scope knows what the browser sends.                               *)
LEMMA OpenKeeps ==
    ASSUME Inv, NEW s \in Scope, NEW b \in Browser, NEW isCircuit \in BOOLEAN,
           Open(s, b, isCircuit)
    PROVE  Inv'
<1> DEFINE f == scope[s]
           g == [f EXCEPT !.at = "establish", !.browser = b, !.circuit = isCircuit,
                          !.saw = jar[b], !.started = isCircuit]
<1>1. f \in Frame /\ f = FreeFrame /\ jar[b] \in Jar
  BY DEF Open, Inv, TypeOK, FreeIsEmpty
<1>2. scope' = [scope EXCEPT ![s] = g] /\ jar' = jar /\ OthersKeepTypes
  BY OthersAlone DEF Open, Move, Inv
<1>3. g \in Frame /\ g.at = "establish" /\ g.browser = b
      /\ KeysOf(g) \subseteq KeysOf(f) \cup {jar[b].anon, jar[b].auth}
  BY <1>1 DEF Frame, KeysOf
<1>4. KeysOf(f) \cap Key = {}
  BY <1>1, KeyAssumption DEF KeysOf, FreeFrame, EmptyJar
<1> HIDE DEF g
<1>5. TypeOK' BY <1>2, <1>3 DEF Inv, TypeOK, OthersKeepTypes
<1>6. FreeIsEmpty'
  <2>1. scope \in [Scope -> Frame] BY DEF Inv, TypeOK
  <2>2. scope'[s] = g /\ \A t \in Scope : t # s => scope'[t] = scope[t] BY <1>2, <2>1
  <2>3. \A t \in Scope : IF scope[t].at = "free" THEN scope[t] = FreeFrame
                                                 ELSE scope[t].browser \in Browser
    BY DEF Inv, FreeIsEmpty
  <2>4. FreeFrame = FreeFrame' BY DEF FreeFrame, EmptyJar
  <2> HIDE DEF FreeFrame
  <2>5. \A t \in Scope : IF scope'[t].at = "free" THEN scope'[t] = FreeFrame
                                                  ELSE scope'[t].browser \in Browser
    BY <1>3, <2>2, <2>3
  <2> QED BY <2>4, <2>5 DEF FreeIsEmpty
<1>7. \A k \in Key : k \in KeysOf(g) \cup {jar'[b].anon, jar'[b].auth} => Knows(b, k)
  BY <1>2, <1>3, <1>4 DEF Knows
<1>8. SessionsAreApart' BY <1>2, <1>3, <1>7, StepKeepsApart
<1> QED BY <1>5, <1>6, <1>8 DEF Inv

(* What a response sets was in the scope's frame.                          *)
LEMMA StartResponseKeeps == ASSUME Inv, NEW s \in Scope, StartResponse(s) PROVE Inv'
<1> DEFINE f == scope[s]
           b == f.browser
           g == [f EXCEPT !.started = TRUE, !.setAnon = Same, !.setAuth = Same]
           j == [anon |-> Taken(jar[b].anon, f.setAnon), auth |-> Taken(jar[b].auth, f.setAuth)]
<1>1. f \in Frame /\ b \in Browser /\ f.at = "run" /\ jar \in [Browser -> Jar]
  BY Context DEF StartResponse
<1>2. scope' = [scope EXCEPT ![s] = g] /\ jar' = [jar EXCEPT ![b] = j] /\ OthersKeepTypes
  BY OthersAlone DEF StartResponse, Move, Inv
<1>3. g \in Frame /\ g.at = "run" /\ g.browser = b /\ KeysOf(g) \subseteq KeysOf(f) \cup {Same}
  BY <1>1 DEF Frame, KeysOf
<1>4. j \in Jar /\ {j.anon, j.auth} \subseteq {jar[b].anon, jar[b].auth} \cup KeysOf(f)
  BY <1>1, FrameFields DEF Jar, Taken, KeysOf
<1> HIDE DEF g, j
<1>5. jar' \in [Browser -> Jar] /\ jar'[b] = j /\ \A c \in Browser : c # b => jar'[c] = jar[c]
  BY <1>1, <1>2, <1>4
<1>6. TypeOK' BY <1>2, <1>3, <1>5 DEF Inv, TypeOK, OthersKeepTypes
<1>7. FreeIsEmpty'
  <2>1. scope \in [Scope -> Frame] BY DEF Inv, TypeOK
  <2>2. scope'[s] = g /\ \A t \in Scope : t # s => scope'[t] = scope[t] BY <1>2, <2>1
  <2>3. \A t \in Scope : IF scope[t].at = "free" THEN scope[t] = FreeFrame
                                                 ELSE scope[t].browser \in Browser
    BY DEF Inv, FreeIsEmpty
  <2>4. FreeFrame = FreeFrame' BY DEF FreeFrame, EmptyJar
  <2> HIDE DEF FreeFrame
  <2>5. \A t \in Scope : IF scope'[t].at = "free" THEN scope'[t] = FreeFrame
                                                  ELSE scope'[t].browser \in Browser
    BY <1>1, <1>3, <2>2, <2>3
  <2> QED BY <2>4, <2>5 DEF FreeIsEmpty
<1>8. \A k \in Key : k \in KeysOf(g) \cup {jar'[b].anon, jar'[b].auth} => Knows(b, k)
  BY <1>3, <1>4, <1>5, KeyAssumption DEF Knows
<1>9. SessionsAreApart' BY <1>1, <1>2, <1>3, <1>5, <1>8, StepKeepsApart
<1> QED BY <1>6, <1>7, <1>9 DEF Inv

-----------------------------------------------------------------------------
LEMMA InitInv == Init => Inv
<1> SUFFICES ASSUME Init PROVE Inv OBVIOUS
<1>1. TypeOK BY FreeFrameType DEF Init, TypeOK, Jar, EmptyJar, MaybeKey
<1>2. FreeIsEmpty BY DEF Init, FreeIsEmpty, FreeFrame
<1>3. \A b \in Browser, k \in Key : ~Knows(b, k)
  BY KeyAssumption DEF Init, Knows, KeysOf, FreeFrame, EmptyJar
<1> QED BY <1>1, <1>2, <1>3 DEF Inv, SessionsAreApart

LEMMA NextInv == Inv /\ [Next]_vars => Inv'
<1> SUFFICES ASSUME Inv, [Next]_vars PROVE Inv' OBVIOUS
<1>1. CASE UNCHANGED vars
  BY <1>1 DEF Inv, vars, history, TypeOK, FreeIsEmpty, FreeFrame, SessionsAreApart, Knows
<1>2. CASE Next
  <2> PICK s \in Scope :
        \/ \E b \in Browser, isCircuit \in BOOLEAN : Open(s, b, isCircuit)
        \/ Establish(s) \/ Generate(s) \/ GenerateThrows(s) \/ Write(s)
        \/ SignIn(s) \/ SignInAgain(s) \/ GenerateAuthenticated(s) \/ SignInThrows(s)
        \/ Migrate(s) \/ FinishSignIn(s)
        \/ SignOutNothing(s) \/ SignOut(s) \/ ClearSession(s)
        \/ StartResponse(s) \/ End(s) \/ Abort(s)
    BY <1>2 DEF Next
  <2> QED
    BY OpenKeeps, EstablishKeeps, GenerateKeeps, GenerateThrowsKeeps, WriteKeeps,
       SignInKeeps, SignInAgainKeeps, GenerateAuthenticatedKeeps, SignInThrowsKeeps,
       MigrateKeeps, FinishSignInKeeps, SignOutNothingKeeps, SignOutKeeps,
       ClearSessionKeeps, StartResponseKeeps, EndKeeps
<1> QED BY <1>1, <1>2

LEMMA SpecInv == Spec => []Inv
BY InitInv, NextInv, PTL DEF Spec

(* The variables keep their types: a context never holds what is no key,   *)
(* and every scope serves one browser.                                     *)
THEOREM TypeCorrect == Spec => []TypeOK
<1>1. Inv => TypeOK BY DEF Inv
<1> QED BY <1>1, SpecInv, PTL

(* However many browsers, requests, circuits, sign-ins and lost responses  *)
(* there are, no key is ever known to two browsers.                        *)
THEOREM BrowsersAreApart == Spec => []SessionsAreApart
<1>1. Inv => SessionsAreApart BY DEF Inv
<1> QED BY <1>1, SpecInv, PTL
=============================================================================
