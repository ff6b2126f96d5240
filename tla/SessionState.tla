----------------------------- MODULE SessionState -----------------------------
(***************************************************************************)
(* DefaultSessionState<T>, SessionStateCache<T> and the dispatch of        *)
(* SessionStateEventDispatcher, for one state type T: every scope (a       *)
(* browser tab's circuit or an HTTP request) caches the value of its       *)
(* session, and a write in one scope invalidates the caches of the others. *)
(*                                                                         *)
(* The backend is one atomic map here, by AtomicStore, which SessionStore  *)
(* implements; it stores references, so scopes share the stored object.    *)
(***************************************************************************)
EXTENDS Naturals

CONSTANTS
    Scope,      \* service scopes
    Key,        \* session keys
    Obj,        \* objects of type T
    Call,       \* threads
    Track,      \* options.TrackPropertyChanges
    AutoPersist,\* options.AutoPersistOnPropertyChange
    Races,      \* what the instance lets happen, see RacesAssumption
    NoScope, NoKey, NoObj, NoProc

(* "overlap": a load or an auto-persist may overlap a write of its key;    *)
(* "evict": a load may find the entry expired; "reenter": Changed handlers *)
(* may read the state; "rekey": a scope's session key may change.          *)
ASSUME RacesAssumption ==
    /\ Races \subseteq {"overlap", "evict", "reenter", "rekey"}
    /\ Track \in BOOLEAN
    /\ AutoPersist \in BOOLEAN

ASSUME NullAssumption ==
    /\ NoScope \notin Scope
    /\ NoKey \notin Key
    /\ NoObj \notin Obj
    /\ NoProc \notin Call \X {1, 2}

VARIABLES
    backend,    \* the object stored for each key
    session,    \* the session key of each scope
    stage,      \* "live"; "closing": the state is disposed; "gone": the cache too
    cache,      \* SessionStateCache<T> of each scope
    subs,       \* the PropertyChanged handlers of each object
    lock,       \* who is inside _asyncLock of each scope
    call        \* the frames: <<c, 1>> is a call of thread c, <<c, 2>> the
                \* read that a Changed handler makes in the middle of it

vars == <<backend, session, stage, cache, subs, lock, call>>

Proc == Call \X {1, 2}

Cache == [value : Obj \cup {NoObj}, loaded : BOOLEAN, key : Key \cup {NoKey},
          hook : Key \cup {NoKey}]

Pc == {"idle", "check", "empty", "value", "lock", "get", "fill", "compare", "put",
       "cache", "test", "clear", "remove", "notify", "invalidate", "handler",
       "change", "persist"}

Frame == [op : {"none", "read", "set", "clear", "expire", "change"}, pc : Pc,
          scope : Scope \cup {NoScope}, key : Key \cup {NoKey},
          value : Obj \cup {NoObj}, got : Obj \cup {NoObj},
          peer : Scope \cup {NoScope}, todo : SUBSET (Scope \X Key)]

Idle == [op |-> "none", pc |-> "idle", scope |-> NoScope, key |-> NoKey,
         value |-> NoObj, got |-> NoObj, peer |-> NoScope, todo |-> {}]

TypeOK ==
    /\ backend \in [Key -> Obj \cup {NoObj}]
    /\ session \in [Scope -> Key \cup {NoKey}]
    /\ stage \in [Scope -> {"live", "closing", "gone"}]
    /\ cache \in [Scope -> Cache]
    /\ subs \in [Obj -> SUBSET (Scope \X Key)]
    /\ lock \in [Scope -> Proc \cup {NoProc}]
    /\ call \in [Proc -> Frame]
    /\ \A p \in Proc : call[p].op \in {"set", "clear"} => call[p].key # NoKey

Init ==
    /\ backend = [k \in Key |-> NoObj]
    /\ session = [s \in Scope |-> NoKey]
    /\ stage = [s \in Scope |-> "live"]
    /\ cache = [s \in Scope |-> [value |-> NoObj, loaded |-> FALSE,
                                 key |-> NoKey, hook |-> NoKey]]
    /\ subs = [o \in Obj |-> {}]
    /\ lock = [s \in Scope |-> NoProc]
    /\ call = [p \in Proc |-> Idle]

-----------------------------------------------------------------------------
(* Frame p is at label pc, and no handler is running on top of it.         *)
At(p, pc) == call[p].pc = pc /\ (p[2] = 1 => call[<<p[1], 2>>].pc = "idle")

Become(p, f) == call' = [call EXCEPT ![p] = f]
Goto(p, pc) == Become(p, [call[p] EXCEPT !.pc = pc])

Mine(p) == cache[call[p].scope]

(* _asyncLock.Release.  On a disposed semaphore it throws, and the call    *)
(* ends all the same: nobody enters a disposed semaphore again.            *)
Free(p) == lock' = [lock EXCEPT ![call[p].scope] = NoProc]

(* The handler of a cache is removed from the object it was added to.      *)
Unhooked(s) ==
    IF cache[s].value = NoObj \/ cache[s].hook = NoKey THEN subs
    ELSE [subs EXCEPT ![cache[s].value] = @ \ {<<s, cache[s].hook>>}]

(* SessionStateCache.Set, with a handler if changes are tracked.           *)
CacheSet(s, k, v) ==
    LET hook == IF Track /\ v # NoObj THEN k ELSE NoKey IN
      /\ cache' = [cache EXCEPT ![s] = [value |-> v, loaded |-> TRUE,
                                        key |-> k, hook |-> hook]]
      /\ subs' = IF hook = NoKey THEN Unhooked(s)
                 ELSE [Unhooked(s) EXCEPT ![v] = @ \cup {<<s, k>>}]

(* The caches that hear a BackendOperation event about k.  In-memory       *)
(* events name no source instance, so the cache of the sender is one.      *)
Audience(k) == {s \in Scope : stage[s] # "gone"} \X {k}

(* What may not overlap in an instance without "overlap".                  *)
Loading(k) == \E p \in Proc : call[p].key = k /\ call[p].pc \in {"fill", "persist"}
Writing(k) == \E p \in Proc : /\ call[p].key = k
                              /\ call[p].op \in {"set", "clear", "expire"}
                              /\ call[p].pc \in {"cache", "notify", "invalidate", "handler"}
MayLoad(k) == "overlap" \in Races \/ ~Writing(k)
MayWrite(k) == "overlap" \in Races \/ ~Loading(k)

-----------------------------------------------------------------------------
(* Faulty variants of the steps below, which no action uses: each is what  *)
(* a step becomes under a plausible slip, to see which property notices.   *)

(* SetAsync and ClearAsync do not look whether there is a session.         *)
WriteWithoutSession(c) ==
    /\ At(<<c, 1>>, "idle")
    /\ \E s \in Scope :
         /\ stage[s] = "live"
         /\ \E f \in {[Idle EXCEPT !.op = "clear"]}
                    \cup {[Idle EXCEPT !.op = "set", !.value = o] : o \in Obj} :
              Become(<<c, 1>>, [f EXCEPT !.pc = "lock", !.scope = s,
                                         !.key = session[s]])
    /\ UNCHANGED <<backend, session, stage, cache, subs, lock>>

(* The early return of SetAsync leaves the semaphore taken.                *)
SkipKeepsLock(p) ==
    /\ At(p, "compare")
    /\ \/ Mine(p).value # NoObj /\ Become(p, Idle)
       \/ Mine(p).value # call[p].value /\ Goto(p, "put")
    /\ UNCHANGED <<backend, session, stage, cache, subs, lock>>

(* The early return of ClearAsync does.                                    *)
EmptyKeepsLock(p) ==
    /\ At(p, "test")
    /\ IF Mine(p).value = NoObj THEN Become(p, Idle) ELSE Goto(p, "clear")
    /\ UNCHANGED <<backend, session, stage, cache, subs, lock>>

(* The cache of the sender skips the event, as if it named its source.     *)
CacheSkipsItself(p) ==
    /\ At(p, "cache")
    /\ CacheSet(call[p].scope, call[p].key, call[p].value)
    /\ Become(p, [call[p] EXCEPT !.pc = "notify",
                     !.todo = Audience(call[p].key) \ {<<call[p].scope, call[p].key>>}])
    /\ UNCHANGED <<backend, session, stage, lock>>

(* Invalidate and Clear forget the value but not its handler.              *)
DropKeepsHandler(s, loaded, k) ==
    /\ cache' = [cache EXCEPT ![s] = [value |-> NoObj, loaded |-> loaded,
                                      key |-> k, hook |-> NoKey]]
    /\ UNCHANGED subs

-----------------------------------------------------------------------------
(* Clear, Invalidate and MarkLoadedEmpty: Clear and Invalidate leave       *)
(* _sessionKey alone.                                                      *)
CacheDrop(s, loaded, k) ==
    /\ cache' = [cache EXCEPT ![s] = [value |-> NoObj, loaded |-> loaded,
                                      key |-> k, hook |-> NoKey]]
    /\ subs' = Unhooked(s)

(* Value, HasValue and TryGetValue: EnsureLoadedSync, then the cached      *)
(* value.  Neither looks at _disposed.                                     *)
ReadFrame(s) == [Idle EXCEPT !.op = "read", !.pc = "check", !.scope = s]

ReadStart(c) ==
    /\ At(<<c, 1>>, "idle")
    /\ \E s \in Scope : Become(<<c, 1>>, ReadFrame(s))
    /\ UNCHANGED <<backend, session, stage, cache, subs, lock>>

(* A loaded cache is used as it is, whatever key it was loaded for; one    *)
(* that is not is loaded if the scope has a session ...                    *)
ReadCheck(p) ==
    /\ At(p, "check")
    /\ LET k == session[call[p].scope] IN
         \/ Mine(p).loaded /\ Goto(p, "value")
         \/ ~Mine(p).loaded /\ k = NoKey /\ Goto(p, "empty")
         \/ ~Mine(p).loaded /\ k # NoKey
              /\ Become(p, [call[p] EXCEPT !.pc = "lock", !.key = k])
    /\ UNCHANGED <<backend, session, stage, cache, subs, lock>>

(* ... and marked loaded and empty if it had none, without the lock: even  *)
(* if it has a session and a value by now.                                 *)
ReadEmpty(p) ==
    /\ At(p, "empty")
    /\ CacheDrop(call[p].scope, TRUE, NoKey)
    /\ Goto(p, "value")
    /\ UNCHANGED <<backend, session, stage, lock>>

(* _cache.Value or _cache.TryGetValue(), what the caller gets.             *)
ReadValue(p) ==
    /\ At(p, "value")
    /\ Become(p, Idle)
    /\ UNCHANGED <<backend, session, stage, cache, subs, lock>>

-----------------------------------------------------------------------------
(* _asyncLock.Wait and WaitAsync, and the IsLoaded test that follows: what *)
(* the call does next with a loaded cache, the load otherwise.             *)
Loaded(op) == CASE op = "read" -> "value" [] op = "set" -> "compare"
                [] op = "clear" -> "test"

Lock(p) ==
    /\ At(p, "lock")
    /\ stage[call[p].scope] = "live"
    /\ lock[call[p].scope] = NoProc
    /\ IF Mine(p).loaded
       THEN /\ Goto(p, Loaded(call[p].op))
            /\ IF call[p].op = "read" THEN UNCHANGED lock
               ELSE lock' = [lock EXCEPT ![call[p].scope] = p]
       ELSE /\ Goto(p, "get")
            /\ lock' = [lock EXCEPT ![call[p].scope] = p]
    /\ UNCHANGED <<backend, session, stage, cache, subs>>

(* A semaphore that is disposed refuses new callers.  One that was queued  *)
(* before may not hear of it: it stays at "lock".                          *)
LockRefused(p) ==
    /\ At(p, "lock")
    /\ stage[call[p].scope] # "live"
    /\ Become(p, Idle)
    /\ UNCHANGED <<backend, session, stage, cache, subs, lock>>

(* LoadCoreAsync: backend.GetAsync, which removes an entry it finds        *)
(* expired without raising an event ...                                    *)
LoadGet(p) ==
    /\ At(p, "get")
    /\ MayLoad(call[p].key)
    /\ \/ /\ Become(p, [call[p] EXCEPT !.pc = "fill", !.got = backend[call[p].key]])
          /\ UNCHANGED backend
       \/ /\ "evict" \in Races
          /\ Goto(p, "fill")
          /\ backend' = [backend EXCEPT ![call[p].key] = NoObj]
    /\ UNCHANGED <<session, stage, cache, subs, lock>>

(* ... and the cache is filled with what came back, whatever has happened  *)
(* to the cache since.  A read then releases the lock.                     *)
LoadFill(p) ==
    /\ At(p, "fill")
    /\ CacheSet(call[p].scope, call[p].key, call[p].got)
    /\ Become(p, [call[p] EXCEPT !.pc = Loaded(call[p].op), !.got = NoObj])
    /\ IF call[p].op = "read" THEN Free(p) ELSE UNCHANGED lock
    /\ UNCHANGED <<backend, session, stage>>

-----------------------------------------------------------------------------
(* SetAsync and ClearAsync, on a state that is not disposed and a scope    *)
(* that has a session: SetAsync throws and ClearAsync returns without one. *)
WriteStart(c) ==
    /\ At(<<c, 1>>, "idle")
    /\ \E s \in Scope :
         /\ stage[s] = "live" /\ session[s] # NoKey
         /\ \E f \in {[Idle EXCEPT !.op = "clear"]}
                    \cup {[Idle EXCEPT !.op = "set", !.value = o] : o \in Obj} :
              Become(<<c, 1>>, [f EXCEPT !.pc = "lock", !.scope = s,
                                         !.key = session[s]])
    /\ UNCHANGED <<backend, session, stage, cache, subs, lock>>

(* SetAsync does nothing if the cached value equals the new one: the type  *)
(* has its own Equals, which another object may satisfy, the same one does.*)
SetCompare(p) ==
    /\ At(p, "compare")
    /\ \/ Mine(p).value # NoObj /\ Become(p, Idle) /\ Free(p)
       \/ Mine(p).value # call[p].value /\ Goto(p, "put") /\ UNCHANGED lock
    /\ UNCHANGED <<backend, session, stage, cache, subs>>

SetPut(p) ==
    /\ At(p, "put")
    /\ MayWrite(call[p].key)
    /\ backend' = [backend EXCEPT ![call[p].key] = call[p].value]
    /\ Goto(p, "cache")
    /\ UNCHANGED <<session, stage, cache, subs, lock>>

(* The cache takes the new value, and the event is raised under the lock.  *)
SetCache(p) ==
    /\ At(p, "cache")
    /\ CacheSet(call[p].scope, call[p].key, call[p].value)
    /\ Become(p, [call[p] EXCEPT !.pc = "notify", !.todo = Audience(call[p].key)])
    /\ UNCHANGED <<backend, session, stage, lock>>

(* ClearAsync does nothing if the cached value is null.                    *)
ClearTest(p) ==
    /\ At(p, "test")
    /\ IF Mine(p).value = NoObj
       THEN Become(p, Idle) /\ Free(p)
       ELSE Goto(p, "clear") /\ UNCHANGED lock
    /\ UNCHANGED <<backend, session, stage, cache, subs>>

(* The cache is emptied first, then the backend.                           *)
ClearCache(p) ==
    /\ At(p, "clear")
    /\ CacheDrop(call[p].scope, TRUE, Mine(p).key)
    /\ Goto(p, "remove")
    /\ UNCHANGED <<backend, session, stage, lock>>

ClearRemove(p) ==
    /\ At(p, "remove")
    /\ MayWrite(call[p].key)
    /\ backend' = [backend EXCEPT ![call[p].key] = NoObj]
    /\ Become(p, [call[p] EXCEPT !.pc = "notify", !.todo = Audience(call[p].key)])
    /\ UNCHANGED <<session, stage, cache, subs, lock>>

(* RemoveExpiredAsync by the clean-up service, and ClearSessionAsync of a  *)
(* sign-out: an entry is removed, and then its event is raised.            *)
ExpireStart(c) ==
    /\ At(<<c, 1>>, "idle")
    /\ \E k \in Key :
         /\ backend[k] # NoObj
         /\ MayWrite(k)
         /\ backend' = [backend EXCEPT ![k] = NoObj]
         /\ Become(<<c, 1>>, [Idle EXCEPT !.op = "expire", !.pc = "notify",
                                         !.key = k, !.todo = Audience(k)])
    /\ UNCHANGED <<session, stage, cache, subs, lock>>

-----------------------------------------------------------------------------
(* SafeInvoke of BackendOperation, and OnBackendOperation of each cache    *)
(* that was subscribed: a cache of another key, or a disposed one, does    *)
(* not care ...                                                            *)
Notify(p) ==
    /\ At(p, "notify")
    /\ \E e \in call[p].todo :
         IF stage[e[1]] # "gone" /\ cache[e[1]].key = e[2]
         THEN Become(p, [call[p] EXCEPT !.pc = "invalidate", !.peer = e[1],
                                        !.todo = @ \ {e}])
         ELSE Become(p, [call[p] EXCEPT !.todo = @ \ {e}])
    /\ UNCHANGED <<backend, session, stage, cache, subs, lock>>

(* ... the others forget their value, the sender's included, and           *)
(* OnCacheInvalidated raises Changed for the handlers of that scope.       *)
Invalidate(p) ==
    /\ At(p, "invalidate")
    /\ LET d == call[p].peer IN
         /\ CacheDrop(d, FALSE, cache[d].key)
         /\ IF stage[d] = "live"
            THEN Goto(p, "handler")
            ELSE Become(p, [call[p] EXCEPT !.pc = "notify", !.peer = NoScope])
    /\ UNCHANGED <<backend, session, stage, lock>>

(* A Changed handler may read the state it was told of, on this thread ... *)
HandlerRead(c) ==
    /\ "reenter" \in Races
    /\ At(<<c, 1>>, "handler")
    /\ Become(<<c, 2>>, ReadFrame(call[<<c, 1>>].peer))
    /\ UNCHANGED <<backend, session, stage, cache, subs, lock>>

(* ... and returns.                                                        *)
HandlerReturn(p) ==
    /\ At(p, "handler")
    /\ Become(p, [call[p] EXCEPT !.pc = "notify", !.peer = NoScope])
    /\ UNCHANGED <<backend, session, stage, cache, subs, lock>>

(* SetAsync and ClearAsync then release the lock.  Their own Changed event *)
(* follows; a handler that reads in it is a read made after the call.      *)
NotifyEnd(p) ==
    /\ At(p, "notify")
    /\ call[p].todo = {}
    /\ Become(p, Idle)
    /\ IF call[p].op = "expire" THEN UNCHANGED lock ELSE Free(p)
    /\ UNCHANGED <<backend, session, stage, cache, subs>>

-----------------------------------------------------------------------------
(* A property of an object changes: its PropertyChanged handlers run, one  *)
(* after the other.                                                        *)
Mutate(c) ==
    /\ At(<<c, 1>>, "idle")
    /\ \E o \in Obj :
         /\ subs[o] # {}
         /\ Become(<<c, 1>>, [Idle EXCEPT !.op = "change", !.pc = "change",
                                         !.todo = subs[o]])
    /\ UNCHANGED <<backend, session, stage, cache, subs, lock>>

(* A handler that finds a value in its cache persists it, under the key it *)
(* was created for (PersistCurrentValueAsync): without the lock, and       *)
(* without an event.                                                       *)
Change(p) ==
    /\ At(p, "change")
    /\ \E e \in call[p].todo :
         LET v == cache[e[1]].value
             f == [call[p] EXCEPT !.todo = @ \ {e}]
         IN IF AutoPersist /\ stage[e[1]] = "live" /\ v # NoObj
            THEN /\ MayLoad(e[2])
                 /\ Become(p, [f EXCEPT !.pc = "persist", !.key = e[2], !.value = v])
            ELSE Become(p, f)
    /\ UNCHANGED <<backend, session, stage, cache, subs, lock>>

Persist(p) ==
    /\ At(p, "persist")
    /\ backend' = [backend EXCEPT ![call[p].key] = call[p].value]
    /\ Become(p, [call[p] EXCEPT !.pc = "change", !.key = NoKey, !.value = NoObj])
    /\ UNCHANGED <<session, stage, cache, subs, lock>>

ChangeEnd(p) ==
    /\ At(p, "change")
    /\ call[p].todo = {}
    /\ Become(p, Idle)
    /\ UNCHANGED <<backend, session, stage, cache, subs, lock>>

-----------------------------------------------------------------------------
(* SessionStateContext gets its session key, another one, or loses it.     *)
SessionChanges(s) ==
    /\ stage[s] = "live"
    /\ session[s] = NoKey \/ "rekey" \in Races
    /\ \E k \in Key \cup {NoKey} : session' = [session EXCEPT ![s] = k]
    /\ UNCHANGED <<backend, stage, cache, subs, lock, call>>

(* The end of a scope disposes the state and then the cache it depends on, *)
(* whatever calls are still inside.                                        *)
DisposeState(s) ==
    /\ stage[s] = "live"
    /\ stage' = [stage EXCEPT ![s] = "closing"]
    /\ UNCHANGED <<backend, session, cache, subs, lock, call>>

(* The cache drops its handler, not its value.                             *)
DisposeCache(s) ==
    /\ stage[s] = "closing"
    /\ stage' = [stage EXCEPT ![s] = "gone"]
    /\ subs' = Unhooked(s)
    /\ cache' = [cache EXCEPT ![s].hook = NoKey]
    /\ UNCHANGED <<backend, session, lock, call>>

Start(c) == ReadStart(c) \/ WriteStart(c) \/ ExpireStart(c) \/ Mutate(c)

Continue(p) ==
    \/ ReadCheck(p) \/ ReadEmpty(p) \/ ReadValue(p) \/ Lock(p) \/ LoadGet(p) \/ LoadFill(p)
    \/ SetCompare(p) \/ SetPut(p) \/ SetCache(p)
    \/ ClearTest(p) \/ ClearCache(p) \/ ClearRemove(p)
    \/ Notify(p) \/ Invalidate(p) \/ HandlerReturn(p) \/ NotifyEnd(p)
    \/ Change(p) \/ Persist(p) \/ ChangeEnd(p)

Environment(s) == SessionChanges(s) \/ DisposeState(s) \/ DisposeCache(s)

Next ==
    \/ \E c \in Call : Start(c) \/ HandlerRead(c)
    \/ \E p \in Proc : Continue(p) \/ LockRefused(p)
    \/ \E s \in Scope : Environment(s)

Spec == Init /\ [][Next]_vars

(* A thread inside a call keeps running; the semaphore is not fair.        *)
FairSpec == Spec /\ \A p \in Proc : WF_vars(Continue(p))

-----------------------------------------------------------------------------
(* The call of frame p is between its WaitAsync and its Release.           *)
Inside(p) ==
    \/ call[p].pc \in {"get", "fill", "compare", "put", "cache", "test",
                       "clear", "remove"}
    \/ call[p].op \in {"set", "clear"} /\ call[p].pc \in {"notify", "invalidate", "handler"}

(* The lock of a scope is taken exactly while one call is inside: no path, *)
(* early return or disposal leaves it taken, none lets two calls in.       *)
LockMeansInside ==
    \A s \in Scope, p \in Proc :
      lock[s] = p <=> call[p].scope = s /\ Inside(p)

(* An object has the handlers of exactly the caches that hold it: no       *)
(* handler stays on an object a cache has let go of, which would persist   *)
(* the old object, or another one, on every later change.                  *)
HandlersFollowCaches ==
    \A o \in Obj : subs[o] =
      {h \in Scope \X Key : cache[h[1]].value = o /\ cache[h[1]].hook = h[2]}

(* A write that has changed key k and still has to tell the cache of s.    *)
StillToTell(p, s, k) ==
    /\ call[p].key = k
    /\ \/ call[p].pc = "cache"
       \/ call[p].pc = "remove" /\ call[p].scope = s
       \/ call[p].pc = "notify" /\ <<s, k>> \in call[p].todo
       \/ call[p].pc = "invalidate" /\ (call[p].peer = s \/ <<s, k>> \in call[p].todo)
       \/ call[p].pc = "handler" /\ <<s, k>> \in call[p].todo

(* A loaded cache has what the backend has, unless a write on its way will *)
(* still invalidate it: once SetAsync, ClearAsync or the clean-up is over, *)
(* no scope goes on serving the old value (SessionState.InvalidateCache:   *)
(* forcing the next access to reload from the backend).                    *)
Coherent ==
    \A s \in Scope, k \in Key :
      /\ stage[s] # "gone" /\ cache[s].loaded
      /\ cache[s].key = k /\ cache[s].value # backend[k]
      => \E p \in Proc : StillToTell(p, s, k)

(* No thread waits for a lock that it has itself.                          *)
NeverWaitsForItself ==
    \A c \in Call : call[<<c, 2>>].pc = "lock" =>
      lock[call[<<c, 2>>].scope] # <<c, 1>>

(* As long as no Changed handler reads the state, calls come to an end     *)
(* once no new one is made: except those that were queued at a lock when   *)
(* its scope ended.                                                        *)
CallsReturn ==
    /\ [](\A c \in Call : call[<<c, 2>>].pc = "idle")
    /\ <>[][~\E c \in Call : Start(c)]_vars
    => <>[](\A p \in Proc :
             At(p, "idle") \/ (At(p, "lock") /\ stage[call[p].scope] # "live"))
=============================================================================
