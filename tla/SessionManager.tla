--------------------------- MODULE SessionManager ---------------------------
(***************************************************************************)
(* Which session a scope belongs to: SessionAndStateSessionManager with    *)
(* the context of each scope, the cookies, the authentication events, the  *)
(* middleware and the circuit handler.  A scope serves a request or a      *)
(* circuit of a browser and sees the cookies the browser had when it sent  *)
(* the request; what it changes reaches the browser when the response      *)
(* starts.  The keys come from the application's generator: a new key is   *)
(* unused, but an authenticated session may go on under the anonymous key. *)
(* The history variables wrote, kept, gone and excused say what the data   *)
(* should be; no step of the code reads them.                              *)
(***************************************************************************)
EXTENDS Naturals

CONSTANTS
    Browser,
    Scope,      \* slots for requests and circuits
    Key,
    Item,       \* values, each written once and forgotten once it is gone
    NoKey,      \* also: no browser, and a cookie that is deleted
    Same        \* a cookie the response leaves alone

ASSUME KeyAssumption == NoKey \notin Key \cup Browser /\ Same \notin Key \cup {NoKey}

VARIABLES
    jar,        \* per browser: the anonymous cookie and the authentication
                \* cookie's key claim
    scope,      \* per slot: what it serves, what it saw, its SessionStateContext
                \* and the cookies its response will set
    data,       \* per key: what the backend holds
    wrote,      \* per item: the browser that wrote it
    kept,       \* the items that no sign-out of their browser has covered
    gone,       \* the keys whose session was migrated or signed out
    excused     \* the browsers whose requests got in each other's way

history == <<wrote, kept, gone, excused>>
vars == <<jar, scope, data, history>>

MaybeKey == Key \cup {NoKey}
Jar == [anon : MaybeKey, auth : MaybeKey]

(* browser, circuit: what is served.  saw: its cookies.  key, auth, est:   *)
(* _sessionKey, _isAuthenticated, _isEstablished.  started: HasStarted.    *)
(* from, to: the keys of a transition.  setAnon, setAuth: the response.    *)
Frame == [at : {"free", "establish", "generate", "run", "transition", "migrate",
                "finish", "clear"},
          browser : Browser \cup {NoKey}, circuit : BOOLEAN, saw : Jar,
          key : MaybeKey, auth : BOOLEAN, est : BOOLEAN, started : BOOLEAN,
          from : MaybeKey, to : MaybeKey,
          setAnon : MaybeKey \cup {Same}, setAuth : MaybeKey \cup {Same}]

TypeOK ==
    /\ jar \in [Browser -> Jar]
    /\ scope \in [Scope -> Frame]
    /\ data \in [Key -> SUBSET Item]
    /\ wrote \in [Item -> Browser \cup {NoKey}]
    /\ kept \subseteq Item
    /\ gone \subseteq Key
    /\ excused \subseteq Browser

EmptyJar == [anon |-> NoKey, auth |-> NoKey]

FreeFrame ==
    [at |-> "free", browser |-> NoKey, circuit |-> FALSE, saw |-> EmptyJar,
     key |-> NoKey, auth |-> FALSE, est |-> FALSE, started |-> FALSE,
     from |-> NoKey, to |-> NoKey, setAnon |-> Same, setAuth |-> Same]

Init ==
    /\ jar = [b \in Browser |-> EmptyJar]
    /\ scope = [s \in Scope |-> FreeFrame]
    /\ data = [k \in Key |-> {}]
    /\ wrote = [i \in Item |-> NoKey]
    /\ kept = {} /\ gone = {} /\ excused = {}

-----------------------------------------------------------------------------
Move(s, f) == scope' = [scope EXCEPT ![s] = f]

(* The key of the session a browser is in: the claim goes first.           *)
KeyOf(b) == IF jar[b].auth # NoKey THEN jar[b].auth ELSE jar[b].anon

KeysOf(f) == {f.key, f.saw.anon, f.saw.auth, f.from, f.to, f.setAnon, f.setAuth}
Unused(k) ==
    /\ data[k] = {}
    /\ \A b \in Browser : k \notin {jar[b].anon, jar[b].auth}
    /\ \A s \in Scope : k \notin KeysOf(scope[s])

(* A request is changing the browser's session from the moment it sets out *)
(* to until its response carries the cookies.                              *)
Changing(s) ==
    \/ scope[s].at \in {"generate", "transition", "migrate", "finish", "clear"}
    \/ {scope[s].setAnon, scope[s].setAuth} # {Same}

Settled(b) == \A s \in Scope : scope[s].browser = b => ~Changing(s)

(* A request gets in another's way if it sets out to change the session    *)
(* when the browser's cookies are no longer those it saw, or while another *)
(* one is changing it.                                                     *)
InTheWay(s) ==
    \/ scope[s].saw # jar[scope[s].browser]
    \/ \E t \in Scope \ {s} : scope[t].browser = scope[s].browser /\ Changing(t)

Excuse(s, cond) ==
    excused' = IF cond THEN excused \cup {scope[s].browser} ELSE excused

-----------------------------------------------------------------------------
(* Faulty variants, substituted for the steps below to try the properties. *)

(* A key is generated even if the response has started.                    *)
CreateAnyway(s) ==
    LET f == scope[s] IN
    /\ f.saw.auth = NoKey /\ f.saw.anon = NoKey
    /\ Move(s, [f EXCEPT !.at = "generate"])
    /\ Excuse(s, InTheWay(s))

(* The anonymous cookie survives the sign-in.                              *)
FinishKeepingCookie(s) ==
    LET f == scope[s] IN
    /\ f.at = "finish"
    /\ Move(s, [f EXCEPT !.at = "run", !.key = f.to, !.auth = TRUE, !.est = TRUE,
                         !.setAuth = f.to, !.from = NoKey, !.to = NoKey])
    /\ UNCHANGED <<jar, data, history>>

(* The transition looks for the anonymous key in the cookie alone.         *)
AnonymousKeyFromCookie(f) == f.saw.anon

(* One context for all scopes: the next one finds what this one left.      *)
FreedWithContext(s) ==
    [FreeFrame EXCEPT !.key = scope[s].key, !.auth = scope[s].auth, !.est = scope[s].est]

(* A sign-out removes what the anonymous cookie stands for.                *)
SignOutOfCookie(s) ==
    LET f == scope[s]  k == KeyOf(f.browser) IN
    /\ f.at = "run" /\ ~f.started /\ f.setAuth = Same /\ k # NoKey
    /\ data' = [j \in Key |-> IF j = f.saw.anon THEN {} ELSE data[j]]
    /\ kept' = {i \in kept : wrote[i] # f.browser}
    /\ gone' = gone \cup {k}
    /\ Move(s, [f EXCEPT !.at = "clear"])
    /\ Excuse(s, InTheWay(s))
    /\ UNCHANGED <<jar, wrote>>

(* The key is not validated: what is no key gets into the context.         *)
GenerateBlank(s) ==
    LET f == scope[s] IN
    /\ f.at = "generate"
    /\ Move(s, [f EXCEPT !.at = "run", !.key = Same, !.est = TRUE])
    /\ UNCHANGED <<jar, data, history>>

-----------------------------------------------------------------------------
(* A request of a browser comes in, or a circuit is opened over one, whose *)
(* response has long started.                                              *)
Open(s, b, isCircuit) ==
    /\ scope[s].at = "free"
    /\ Move(s, [scope[s] EXCEPT !.at = "establish", !.browser = b, !.circuit = isCircuit,
                                !.saw = jar[b], !.started = isCircuit])
    /\ UNCHANGED <<jar, data, history>>

(* EstablishSessionAsync, called by the middleware or OnCircuitOpenedAsync *)
(* and before that, for a request with a claim, by ValidatePrincipal:      *)
(* nothing more if the context is established; else the claim, then the    *)
(* cookie, ...                                                             *)
AlreadyEstablished(s) == scope[s].est /\ Move(s, [scope[s] EXCEPT !.at = "run"])

EstablishFromClaim(s) ==
    LET f == scope[s] IN
    /\ ~f.est /\ f.saw.auth # NoKey
    /\ Move(s, [f EXCEPT !.at = IF f.circuit THEN "run" ELSE "establish",
                         !.key = f.saw.auth, !.auth = TRUE, !.est = TRUE])

EstablishFromCookie(s) ==
    LET f == scope[s] IN
    /\ ~f.est /\ f.saw.auth = NoKey /\ f.saw.anon # NoKey
    /\ Move(s, [f EXCEPT !.at = "run", !.key = f.saw.anon, !.est = TRUE])

(* ... and with neither no session if the response has started, or a key   *)
(* to be generated.                                                        *)
EstablishNone(s) ==
    LET f == scope[s] IN
    /\ ~f.est /\ f.saw.auth = NoKey /\ f.saw.anon = NoKey
    /\ f.started
    /\ Move(s, [f EXCEPT !.at = "run", !.est = TRUE])

EstablishNew(s) ==
    LET f == scope[s] IN
    /\ f.saw.auth = NoKey /\ f.saw.anon = NoKey
    /\ ~f.est /\ ~f.started
    /\ Move(s, [f EXCEPT !.at = "generate"])
    /\ Excuse(s, InTheWay(s))

Establish(s) ==
    /\ scope[s].at = "establish"
    /\ \/ /\ AlreadyEstablished(s) \/ EstablishFromClaim(s)
             \/ EstablishFromCookie(s) \/ EstablishNone(s)
          /\ UNCHANGED excused
       \/ EstablishNew(s)
    /\ UNCHANGED <<jar, data, wrote, kept, gone>>

(* The generator has answered; the key goes into the cookie, unless it is  *)
(* too late for that, and into the context.                                *)
WriteSessionKey(f, k) == IF f.started THEN f ELSE [f EXCEPT !.setAnon = k]

Generate(s) ==
    LET f == scope[s] IN
    /\ f.at = "generate"
    /\ \E k \in Key :
         /\ Unused(k)
         /\ Move(s, [WriteSessionKey(f, k) EXCEPT !.at = "run", !.key = k, !.est = TRUE])
         /\ gone' = gone \ {k}
    /\ UNCHANGED <<jar, data, wrote, kept, excused>>

(* It has thrown: the middleware lets the request go on without a session. *)
GenerateThrows(s) ==
    /\ scope[s].at = "generate"
    /\ Move(s, [scope[s] EXCEPT !.at = "run"])
    /\ UNCHANGED <<jar, data, history>>

-----------------------------------------------------------------------------
(* The scope writes a value under its key.  Nothing tells it that the      *)
(* session of the key is over: then it is in the way of whoever ended it.  *)
Write(s) ==
    LET f == scope[s] IN
    /\ f.at = "run" /\ f.key # NoKey
    /\ \E i \in Item \ (kept \cup UNION {data[k] : k \in Key}) :
         /\ data' = [data EXCEPT ![f.key] = @ \cup {i}]
         /\ wrote' = [wrote EXCEPT ![i] = f.browser]
         /\ kept' = kept \cup {i}
    /\ Excuse(s, f.key \in gone)
    /\ UNCHANGED <<jar, scope, gone>>

(* SigningIn, with a principal that has no key yet:                        *)
(* TransitionToAuthenticatedAsync looks for an anonymous session ...       *)
AnonymousKey(f) ==
    IF f.est /\ ~f.auth /\ f.key # NoKey THEN f.key ELSE f.saw.anon

MaySign(f) == f.at = "run" /\ ~f.started /\ f.setAuth = Same

SignIn(s) ==
    LET f == scope[s] IN
    /\ MaySign(f)
    /\ Move(s, [f EXCEPT !.at = "transition", !.from = AnonymousKey(f)])
    /\ Excuse(s, InTheWay(s) \/ f.saw.auth # NoKey)
    /\ UNCHANGED <<jar, data, wrote, kept, gone>>

(* ... and nothing is done for one that brings the claim along.            *)
SignInAgain(s) ==
    LET f == scope[s] IN
    /\ MaySign(f) /\ f.saw.auth # NoKey
    /\ Move(s, [f EXCEPT !.setAuth = f.saw.auth])
    /\ Excuse(s, InTheWay(s))
    /\ UNCHANGED <<jar, data, wrote, kept, gone>>

GenerateAuthenticated(s) ==
    LET f == scope[s] IN
    /\ f.at = "transition"
    /\ \E k \in Key :
         /\ Unused(k) \/ k = f.from
         /\ Move(s, [f EXCEPT !.at = "migrate", !.to = k])
         /\ gone' = IF k = f.from THEN gone ELSE gone \ {k}
    /\ UNCHANGED <<jar, data, wrote, kept, excused>>

SignInThrows(s) ==
    /\ scope[s].at = "transition"
    /\ Move(s, [scope[s] EXCEPT !.at = "run", !.from = NoKey])
    /\ UNCHANGED <<jar, data, history>>

(* MigrateSessionAsync, if there is something to migrate.                  *)
Migrate(s) ==
    LET f == scope[s] IN
    /\ f.at = "migrate"
    /\ IF f.from \in {NoKey, f.to}
       THEN UNCHANGED <<data, gone>>
       ELSE /\ data' = [data EXCEPT ![f.to] = @ \cup data[f.from], ![f.from] = {}]
            /\ gone' = gone \cup {f.from}
    /\ Move(s, [f EXCEPT !.at = "finish"])
    /\ UNCHANGED <<jar, wrote, kept, excused>>

(* The anonymous cookie is deleted, the context set and the claim added.   *)
FinishSignIn(s) ==
    LET f == scope[s] IN
    /\ f.at = "finish"
    /\ Move(s, [f EXCEPT !.at = "run", !.key = f.to, !.auth = TRUE, !.est = TRUE,
                         !.setAnon = NoKey, !.setAuth = f.to,
                         !.from = NoKey, !.to = NoKey])
    /\ UNCHANGED <<jar, data, history>>

-----------------------------------------------------------------------------
(* SigningOut: the key is that of the user's claim, or else the context's; *)
(* with neither, only the authentication cookie goes.                      *)
KeyToClear(f) == IF f.saw.auth # NoKey THEN f.saw.auth ELSE f.key

SignOutNothing(s) ==
    LET f == scope[s] IN
    /\ MaySign(f) /\ KeyToClear(f) = NoKey
    /\ Move(s, [f EXCEPT !.setAuth = NoKey])
    /\ Excuse(s, InTheWay(s))
    /\ UNCHANGED <<jar, data, wrote, kept, gone>>

(* RemoveAllForKeyAsync, and the events ...                                *)
SignOut(s) ==
    LET f == scope[s]  k == KeyToClear(f) IN
    /\ MaySign(f) /\ k # NoKey
    /\ data' = [data EXCEPT ![k] = {}]
    /\ kept' = {i \in kept : wrote[i] # f.browser}
    /\ gone' = gone \cup {k}
    /\ Move(s, [f EXCEPT !.at = "clear"])
    /\ Excuse(s, InTheWay(s))
    /\ UNCHANGED <<jar, wrote>>

(* ... then ClearSession, and the authentication cookie goes.              *)
ClearSession(s) ==
    LET f == scope[s] IN
    /\ f.at = "clear"
    /\ Move(s, [f EXCEPT !.at = "run", !.key = NoKey, !.auth = FALSE, !.est = FALSE,
                         !.setAnon = NoKey, !.setAuth = NoKey])
    /\ UNCHANGED <<jar, data, history>>

-----------------------------------------------------------------------------
(* The response starts, and the browser takes in its cookies.              *)
Taken(old, set) == IF set = Same THEN old ELSE set

StartResponse(s) ==
    LET f == scope[s]  b == f.browser IN
    /\ f.at = "run" /\ ~f.started
    /\ jar' = [jar EXCEPT ![b] = [anon |-> Taken(@.anon, f.setAnon),
                                  auth |-> Taken(@.auth, f.setAuth)]]
    /\ Move(s, [f EXCEPT !.started = TRUE, !.setAnon = Same, !.setAuth = Same])
    /\ UNCHANGED <<data, history>>

(* The scope is disposed of, and its context with it.                      *)
FreedFrame(s) == FreeFrame

(* A request whose response has started ends; a circuit is closed.         *)
End(s) ==
    /\ scope[s].at = "run" /\ scope[s].started
    /\ Move(s, FreedFrame(s))
    /\ UNCHANGED <<jar, data, history>>

(* The connection breaks and the browser never gets the response.          *)
Abort(s) ==
    /\ scope[s].at = "run" /\ ~scope[s].started
    /\ Move(s, FreedFrame(s))
    /\ Excuse(s, Changing(s))
    /\ UNCHANGED <<jar, data, wrote, kept, gone>>

Next ==
    \E s \in Scope :
      \/ \E b \in Browser, isCircuit \in BOOLEAN : Open(s, b, isCircuit)
      \/ Establish(s) \/ Generate(s) \/ GenerateThrows(s) \/ Write(s)
      \/ SignIn(s) \/ SignInAgain(s) \/ GenerateAuthenticated(s) \/ SignInThrows(s)
      \/ Migrate(s) \/ FinishSignIn(s)
      \/ SignOutNothing(s) \/ SignOut(s) \/ ClearSession(s)
      \/ StartResponse(s) \/ End(s) \/ Abort(s)

Spec == Init /\ [][Next]_vars

-----------------------------------------------------------------------------
(* No key is known to two browsers, in their cookies or in a scope that    *)
(* serves them: nobody reads or writes another browser's session.          *)
Knows(b, k) ==
    \/ k \in {jar[b].anon, jar[b].auth}
    \/ \E s \in Scope : scope[s].browser = b /\ k \in KeysOf(scope[s])
SessionsAreApart ==
    \A b, c \in Browser, k \in Key : b # c => ~(Knows(b, k) /\ Knows(c, k))

(* Whatever a browser's scopes wrote is in the session it is in, through   *)
(* first requests, sign-ins and circuits that stay open, unless its        *)
(* requests got in each other's way.                                       *)
NothingIsLost ==
    \A b \in Browser \ excused : Settled(b) =>
      \A i \in kept : wrote[i] = b => KeyOf(b) # NoKey /\ i \in data[KeyOf(b)]

(* What a browser had written before it signed out is in no session.       *)
SignOutLeavesNothing ==
    \A b \in Browser \ excused, k \in Key : \A i \in data[k] \ kept : wrote[i] # b

(* A browser that is signed in has no anonymous session to fall back to    *)
(* when it signs out.                                                      *)
SignedInHasOneKey ==
    \A b \in Browser \ excused : jar[b].auth # NoKey => jar[b].anon = NoKey

(* All requests and circuits that saw the browser's present cookies share  *)
(* its session, or have none as long as it has none; only a scope whose    *)
(* session was ended behind its back stays with the old key.               *)
ScopesShareTheSession ==
    \A s \in Scope :
      LET f == scope[s] IN
      (/\ f.at = "run" /\ f.est /\ f.browser \notin excused
       /\ Settled(f.browser) /\ f.saw = jar[f.browser] /\ f.key \notin gone)
          => f.key = KeyOf(f.browser)
=============================================================================
