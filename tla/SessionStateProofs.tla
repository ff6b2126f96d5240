--------------------------- MODULE SessionStateProofs ---------------------------
(* Proofs about SessionState, for any scopes, keys, objects and threads, and *)
(* for every choice of what Races allows unless a theorem says otherwise.    *)
EXTENDS SessionState, TLAPS

-----------------------------------------------------------------------------
(* Which call a frame can be, and what it knows, at each of its labels.    *)
FrameOK(f) ==
    /\ f \in Frame
    /\ f.pc \in {"check", "empty", "value"} => f.op = "read"
    /\ f.pc \in {"lock", "get", "fill"} => f.op \in {"read", "set", "clear"}
    /\ f.pc \in {"compare", "put", "cache"} => f.op = "set"
    /\ f.pc \in {"test", "clear", "remove"} => f.op = "clear"
    /\ f.pc \in {"notify", "invalidate", "handler"} => f.op \in {"set", "clear", "expire"}
    /\ f.pc \in {"change", "persist"} => f.op = "change"
    /\ f.op \in {"read", "set", "clear"} => f.scope \in Scope
    /\ f.op \in {"set", "clear", "expire"} => f.key \in Key
    /\ f.pc \in {"lock", "get", "fill", "persist"} => f.key \in Key
    /\ f.op = "set" => f.value \in Obj
    /\ f.pc \in {"invalidate", "handler"} => f.peer \in Scope
    /\ f.pc = "persist" => f.value \in Obj

StateTyped ==
    /\ backend \in [Key -> Obj \cup {NoObj}]
    /\ session \in [Scope -> Key \cup {NoKey}]
    /\ stage \in [Scope -> {"live", "closing", "gone"}]
    /\ cache \in [Scope -> Cache]
    /\ subs \in [Obj -> SUBSET (Scope \X Key)]
    /\ lock \in [Scope -> Proc \cup {NoProc}]

CallTyped ==
    /\ call \in [Proc -> Frame]
    /\ \A p \in Proc : FrameOK(call[p])

Typed == StateTyped /\ CallTyped

LEMMA FramesOf ==
    ASSUME NEW c \in Call
    PROVE  <<c, 1>> \in Proc /\ <<c, 2>> \in Proc
BY DEF Proc

LEMMA IdleOK == FrameOK(Idle)
<1>1. /\ NoScope \in Scope \cup {NoScope}
      /\ NoKey \in Key \cup {NoKey}
      /\ NoObj \in Obj \cup {NoObj}
      /\ {} \in SUBSET (Scope \X Key)
  OBVIOUS
<1> QED BY <1>1 DEF Idle, Frame, FrameOK, Pc

LEMMA ReadFrameOK == \A s \in Scope : FrameOK(ReadFrame(s))
<1> SUFFICES ASSUME NEW s \in Scope PROVE FrameOK(ReadFrame(s))
  OBVIOUS
<1>1. Idle \in Frame
  BY IdleOK DEF FrameOK
<1>2. ReadFrame(s) \in Frame
  BY <1>1 DEF ReadFrame, Frame, Pc
<1>3. ReadFrame(s).op = "read" /\ ReadFrame(s).pc = "check" /\ ReadFrame(s).scope = s
  BY <1>1 DEF ReadFrame, Frame
<1> QED BY <1>2, <1>3 DEF FrameOK

LEMMA BecomeOK ==
    ASSUME CallTyped, NEW p \in Proc, NEW f, FrameOK(f), Become(p, f)
    PROVE  CallTyped'
<1>1. f \in Frame
  BY DEF FrameOK
<1>2. call' = [call EXCEPT ![p] = f] /\ call \in [Proc -> Frame]
  BY DEF Become, CallTyped
<1>3. ASSUME NEW q \in Proc PROVE FrameOK(call'[q])
  <2>1. CASE q = p BY <1>2, <2>1
  <2>2. CASE q # p BY <1>2, <2>2 DEF CallTyped
  <2> QED BY <2>1, <2>2
<1> QED BY <1>1, <1>2, <1>3 DEF CallTyped

(* Unhooked, CacheSet and CacheDrop keep the cache and the handlers typed. *)
LEMMA UnhookedTyped ==
    ASSUME StateTyped, NEW s \in Scope
    PROVE  Unhooked(s) \in [Obj -> SUBSET (Scope \X Key)]
BY DEF StateTyped, Unhooked, Cache

LEMMA CacheSetTyped ==
    ASSUME StateTyped, NEW s \in Scope, NEW k \in Key, NEW v \in Obj \cup {NoObj},
           CacheSet(s, k, v)
    PROVE  cache' \in [Scope -> Cache] /\ subs' \in [Obj -> SUBSET (Scope \X Key)]
<1> DEFINE hook == IF Track /\ v # NoObj THEN k ELSE NoKey
<1>1. /\ cache' = [cache EXCEPT ![s] = [value |-> v, loaded |-> TRUE,
                                        key |-> k, hook |-> hook]]
      /\ subs' = IF hook = NoKey THEN Unhooked(s)
                 ELSE [Unhooked(s) EXCEPT ![v] = @ \cup {<<s, k>>}]
  BY Zenon DEF CacheSet
<1>2. [value |-> v, loaded |-> TRUE, key |-> k, hook |-> hook] \in Cache
  BY DEF Cache
<1>3. cache' \in [Scope -> Cache]
  BY <1>1, <1>2 DEF StateTyped
<1>4. hook # NoKey => v \in Obj
  OBVIOUS
<1> HIDE DEF hook
<1>5. subs' \in [Obj -> SUBSET (Scope \X Key)]
  BY <1>1, <1>4, UnhookedTyped
<1> QED BY <1>3, <1>5

LEMMA CacheDropTyped ==
    ASSUME StateTyped, NEW s \in Scope, NEW loaded \in BOOLEAN, NEW k \in Key \cup {NoKey},
           CacheDrop(s, loaded, k)
    PROVE  cache' \in [Scope -> Cache] /\ subs' \in [Obj -> SUBSET (Scope \X Key)]
BY UnhookedTyped DEF CacheDrop, StateTyped, Cache

LEMMA FreeTyped ==
    ASSUME StateTyped, NEW p \in Proc, Free(p)
    PROVE  lock' \in [Scope -> Proc \cup {NoProc}]
BY DEF StateTyped, Free

-----------------------------------------------------------------------------
LEMMA ReadTyped ==
    ASSUME Typed, NEW p \in Proc,
           ReadCheck(p) \/ ReadEmpty(p) \/ ReadValue(p) \/ Lock(p) \/ LockRefused(p)
    PROVE  Typed'
<1> DEFINE f == call[p]
<1>0. f \in Frame /\ FrameOK(f)
  BY DEF Typed, CallTyped
<1>1. CASE ReadCheck(p)
  <2>1. f.scope \in Scope /\ f.op = "read"
    BY <1>0, <1>1 DEF ReadCheck, At, FrameOK
  <2>2. FrameOK([f EXCEPT !.pc = "value"]) /\ FrameOK([f EXCEPT !.pc = "empty"])
    BY <1>0, <2>1 DEF FrameOK, Frame, Pc
  <2>3. session[f.scope] # NoKey =>
          FrameOK([f EXCEPT !.pc = "lock", !.key = session[f.scope]])
    BY <1>0, <2>1 DEF FrameOK, Frame, Pc, Typed, StateTyped
  <2>4. StateTyped'
    BY <1>1 DEF ReadCheck, Typed, StateTyped
  <2>5. CallTyped'
    BY <1>1, <2>2, <2>3, BecomeOK DEF ReadCheck, Goto, Typed
  <2> QED BY <2>4, <2>5 DEF Typed
<1>2. CASE ReadEmpty(p)
  <2>1. f.scope \in Scope /\ f.op = "read"
    BY <1>0, <1>2 DEF ReadEmpty, At, FrameOK
  <2>2. FrameOK([f EXCEPT !.pc = "value"])
    BY <1>0, <2>1 DEF FrameOK, Frame, Pc
  <2>3. CacheDrop(f.scope, TRUE, NoKey) /\ UNCHANGED <<backend, session, stage, lock>>
    BY <1>2 DEF ReadEmpty
  <2>4. StateTyped'
    BY <2>1, <2>3, CacheDropTyped DEF Typed, StateTyped
  <2>5. CallTyped'
    BY <1>2, <2>2, BecomeOK DEF ReadEmpty, Goto, Typed
  <2> QED BY <2>4, <2>5 DEF Typed
<1>3. CASE ReadValue(p)
  <2>1. StateTyped'
    BY <1>3 DEF ReadValue, Typed, StateTyped
  <2>2. CallTyped'
    BY <1>3, IdleOK, BecomeOK DEF ReadValue, Typed
  <2> QED BY <2>1, <2>2 DEF Typed
<1>4. CASE Lock(p)
  <2>1. /\ f.scope \in Scope /\ f.op \in {"read", "set", "clear"} /\ f.pc = "lock"
        /\ f.key \in Key
    BY <1>0, <1>4 DEF Lock, At, FrameOK
  <2>2. FrameOK([f EXCEPT !.pc = Loaded(f.op)]) /\ FrameOK([f EXCEPT !.pc = "get"])
    BY <1>0, <2>1 DEF FrameOK, Frame, Pc, Loaded
  <2>3. StateTyped'
    BY <1>4, <2>1 DEF Lock, Typed, StateTyped
  <2>4. CallTyped'
    BY <1>4, <2>2, BecomeOK DEF Lock, Goto, Typed
  <2> QED BY <2>3, <2>4 DEF Typed
<1>5. CASE LockRefused(p)
  <2>1. StateTyped'
    BY <1>5 DEF LockRefused, Typed, StateTyped
  <2>2. CallTyped'
    BY <1>5, IdleOK, BecomeOK DEF LockRefused, Typed
  <2> QED BY <2>1, <2>2 DEF Typed
<1> QED BY <1>1, <1>2, <1>3, <1>4, <1>5

LEMMA LoadTyped ==
    ASSUME Typed, NEW p \in Proc, LoadGet(p) \/ LoadFill(p)
    PROVE  Typed'
<1> DEFINE f == call[p]
<1>0. f \in Frame /\ FrameOK(f)
  BY DEF Typed, CallTyped
<1>1. CASE LoadGet(p)
  <2>1. f.key \in Key /\ f.op \in {"read", "set", "clear"}
    BY <1>0, <1>1 DEF LoadGet, At, FrameOK
  <2>2. backend[f.key] \in Obj \cup {NoObj}
    BY <2>1 DEF Typed, StateTyped
  <2>3. ASSUME NEW v \in Obj \cup {NoObj}
        PROVE  FrameOK([f EXCEPT !.pc = "fill", !.got = v])
    <3> DEFINE g == [f EXCEPT !.pc = "fill", !.got = v]
    <3>1. g \in Frame
      BY <1>0 DEF Frame, Pc
    <3>2. g.pc = "fill" /\ g.op = f.op /\ g.key = f.key /\ g.scope = f.scope /\ g.value = f.value
      BY <1>0 DEF Frame
    <3> HIDE DEF g
    <3>3. FrameOK(g)
      BY <1>0, <2>1, <3>1, <3>2 DEF FrameOK
    <3> QED BY <3>3 DEF g
  <2>6. FrameOK([f EXCEPT !.pc = "fill"])
    BY <1>0, <2>1 DEF FrameOK, Frame, Pc
  <2>4. StateTyped'
    BY <1>1, <2>1 DEF LoadGet, Typed, StateTyped
  <2>5. CallTyped'
    BY <1>1, <2>2, <2>3, <2>6, BecomeOK DEF LoadGet, Goto, Typed
  <2> QED BY <2>4, <2>5 DEF Typed
<1>2. CASE LoadFill(p)
  <2>1. /\ f.key \in Key /\ f.op \in {"read", "set", "clear"} /\ f.scope \in Scope
        /\ f.got \in Obj \cup {NoObj}
    BY <1>0, <1>2 DEF LoadFill, At, FrameOK, Frame
  <2>2. FrameOK([f EXCEPT !.pc = Loaded(f.op), !.got = NoObj])
    <3> DEFINE g == [f EXCEPT !.pc = Loaded(f.op), !.got = NoObj]
    <3>1. Loaded(f.op) \in {"value", "compare", "test"}
      BY <2>1 DEF Loaded
    <3>2. g \in Frame
      BY <1>0, <3>1 DEF Frame, Pc
    <3>3. /\ g.pc = Loaded(f.op) /\ g.op = f.op
          /\ g.scope = f.scope /\ g.key = f.key /\ g.value = f.value
      BY <1>0 DEF Frame
    <3> HIDE DEF g
    <3>4. FrameOK(g)
      BY <1>0, <2>1, <3>2, <3>3 DEF FrameOK, Loaded
    <3> QED BY <3>4 DEF g
  <2>3. CacheSet(f.scope, f.key, f.got) /\ UNCHANGED <<backend, session, stage>>
    BY <1>2 DEF LoadFill
  <2>4. lock' \in [Scope -> Proc \cup {NoProc}]
    BY <1>2, FreeTyped DEF LoadFill, Typed, StateTyped
  <2>5. StateTyped'
    BY <2>1, <2>3, <2>4, CacheSetTyped DEF Typed, StateTyped
  <2>6. CallTyped'
    BY <1>2, <2>2, BecomeOK DEF LoadFill, Typed
  <2> QED BY <2>5, <2>6 DEF Typed
<1> QED BY <1>1, <1>2

LEMMA AudienceTyped ==
    ASSUME NEW k \in Key
    PROVE  Audience(k) \in SUBSET (Scope \X Key)
BY DEF Audience

LEMMA WriteStartTyped ==
    ASSUME Typed, NEW c \in Call, WriteStart(c)
    PROVE  Typed'
<1>1. PICK s \in Scope : 
        /\ session[s] # NoKey
        /\ \E f \in {[Idle EXCEPT !.op = "clear"]}
                    \cup {[Idle EXCEPT !.op = "set", !.value = o] : o \in Obj} :
             Become(<<c, 1>>, [f EXCEPT !.pc = "lock", !.scope = s, !.key = session[s]])
  BY DEF WriteStart
<1>2. session[s] \in Key
  BY <1>1 DEF Typed, StateTyped
<1>3. ASSUME NEW f \in {[Idle EXCEPT !.op = "clear"]}
                       \cup {[Idle EXCEPT !.op = "set", !.value = o] : o \in Obj}
      PROVE  FrameOK([f EXCEPT !.pc = "lock", !.scope = s, !.key = session[s]])
  <2>1. f \in Frame /\ f.op \in {"set", "clear"} /\ (f.op = "set" => f.value \in Obj)
    <3>1. CASE f = [Idle EXCEPT !.op = "clear"]
      BY <3>1, IdleOK DEF FrameOK, Frame, Idle
    <3>2. ASSUME NEW o \in Obj, f = [Idle EXCEPT !.op = "set", !.value = o]
          PROVE  f \in Frame /\ f.op = "set" /\ f.value \in Obj
      BY <3>2, IdleOK DEF FrameOK, Frame, Idle
    <3> QED BY <3>1, <3>2
  <2> DEFINE g == [f EXCEPT !.pc = "lock", !.scope = s, !.key = session[s]]
  <2>2. g \in Frame
    BY <1>2, <2>1 DEF Frame, Pc
  <2>3. g.pc = "lock" /\ g.op = f.op /\ g.scope = s /\ g.key = session[s] /\ g.value = f.value
    BY <2>1 DEF Frame
  <2> HIDE DEF g
  <2>4. FrameOK(g)
    BY <1>2, <2>1, <2>2, <2>3 DEF FrameOK
  <2> QED BY <2>4 DEF g
<1>4. CallTyped'
  BY <1>1, <1>3, FramesOf, BecomeOK DEF Typed
<1>5. StateTyped'
  BY DEF WriteStart, Typed, StateTyped
<1> QED BY <1>4, <1>5 DEF Typed

LEMMA SetTyped ==
    ASSUME Typed, NEW p \in Proc, SetCompare(p) \/ SetPut(p) \/ SetCache(p)
    PROVE  Typed'
<1> DEFINE f == call[p]
<1>0. f \in Frame /\ FrameOK(f)
  BY DEF Typed, CallTyped
<1>1. f.op = "set" /\ f.scope \in Scope /\ f.key \in Key /\ f.value \in Obj
  BY <1>0 DEF SetCompare, SetPut, SetCache, At, FrameOK
<1>2. CASE SetCompare(p)
  <2>1. FrameOK([f EXCEPT !.pc = "put"])
    BY <1>0, <1>1 DEF FrameOK, Frame, Pc
  <2>2. StateTyped'
    BY <1>2, FreeTyped DEF SetCompare, Typed, StateTyped
  <2>3. CallTyped'
    BY <1>2, <2>1, IdleOK, BecomeOK DEF SetCompare, Goto, Typed
  <2> QED BY <2>2, <2>3 DEF Typed
<1>3. CASE SetPut(p)
  <2>1. FrameOK([f EXCEPT !.pc = "cache"])
    BY <1>0, <1>1 DEF FrameOK, Frame, Pc
  <2>2. StateTyped'
    BY <1>3, <1>1 DEF SetPut, Typed, StateTyped
  <2>3. CallTyped'
    BY <1>3, <2>1, BecomeOK DEF SetPut, Goto, Typed
  <2> QED BY <2>2, <2>3 DEF Typed
<1>4. CASE SetCache(p)
  <2>1. FrameOK([f EXCEPT !.pc = "notify", !.todo = Audience(f.key)])
    <3> DEFINE g == [f EXCEPT !.pc = "notify", !.todo = Audience(f.key)]
    <3>1. g \in Frame
      BY <1>0, <1>1, AudienceTyped DEF Frame, Pc
    <3>2. /\ g.pc = "notify" /\ g.op = f.op
          /\ g.scope = f.scope /\ g.key = f.key /\ g.value = f.value
      BY <1>0, <1>1, AudienceTyped DEF Frame
    <3> HIDE DEF g
    <3>3. FrameOK(g)
      BY <1>0, <1>1, <3>1, <3>2 DEF FrameOK
    <3> QED BY <3>3 DEF g
  <2>2. CacheSet(f.scope, f.key, f.value) /\ UNCHANGED <<backend, session, stage, lock>>
    BY <1>4 DEF SetCache
  <2>3. StateTyped'
    BY <1>1, <2>2, CacheSetTyped DEF Typed, StateTyped
  <2>4. CallTyped'
    BY <1>4, <2>1, BecomeOK DEF SetCache, Typed
  <2> QED BY <2>3, <2>4 DEF Typed
<1> QED BY <1>2, <1>3, <1>4

LEMMA ClearTyped ==
    ASSUME Typed, NEW p \in Proc, ClearTest(p) \/ ClearCache(p) \/ ClearRemove(p)
    PROVE  Typed'
<1> DEFINE f == call[p]
<1>0. f \in Frame /\ FrameOK(f)
  BY DEF Typed, CallTyped
<1>1. f.op = "clear" /\ f.scope \in Scope /\ f.key \in Key
  BY <1>0 DEF ClearTest, ClearCache, ClearRemove, At, FrameOK
<1>2. CASE ClearTest(p)
  <2>1. FrameOK([f EXCEPT !.pc = "clear"])
    BY <1>0, <1>1 DEF FrameOK, Frame, Pc
  <2>2. StateTyped'
    BY <1>2, FreeTyped DEF ClearTest, Typed, StateTyped
  <2>3. CallTyped'
    BY <1>2, <2>1, IdleOK, BecomeOK DEF ClearTest, Goto, Typed
  <2> QED BY <2>2, <2>3 DEF Typed
<1>3. CASE ClearCache(p)
  <2>1. FrameOK([f EXCEPT !.pc = "remove"])
    BY <1>0, <1>1 DEF FrameOK, Frame, Pc
  <2>2. CacheDrop(f.scope, TRUE, cache[f.scope].key) /\ UNCHANGED <<backend, session, stage, lock>>
    BY <1>3 DEF ClearCache, Mine
  <2>3. cache[f.scope].key \in Key \cup {NoKey}
    BY <1>1 DEF Typed, StateTyped, Cache
  <2>4. StateTyped'
    BY <1>1, <2>2, <2>3, CacheDropTyped DEF Typed, StateTyped
  <2>5. CallTyped'
    BY <1>3, <2>1, BecomeOK DEF ClearCache, Goto, Typed
  <2> QED BY <2>4, <2>5 DEF Typed
<1>4. CASE ClearRemove(p)
  <2>1. FrameOK([f EXCEPT !.pc = "notify", !.todo = Audience(f.key)])
    <3> DEFINE g == [f EXCEPT !.pc = "notify", !.todo = Audience(f.key)]
    <3>1. g \in Frame
      BY <1>0, <1>1, AudienceTyped DEF Frame, Pc
    <3>2. /\ g.pc = "notify" /\ g.op = f.op
          /\ g.scope = f.scope /\ g.key = f.key /\ g.value = f.value
      BY <1>0, <1>1, AudienceTyped DEF Frame
    <3> HIDE DEF g
    <3>3. FrameOK(g)
      BY <1>0, <1>1, <3>1, <3>2 DEF FrameOK
    <3> QED BY <3>3 DEF g
  <2>2. StateTyped'
    BY <1>4, <1>1 DEF ClearRemove, Typed, StateTyped
  <2>3. CallTyped'
    BY <1>4, <2>1, BecomeOK DEF ClearRemove, Typed
  <2> QED BY <2>2, <2>3 DEF Typed
<1> QED BY <1>2, <1>3, <1>4

LEMMA ExpireStartTyped ==
    ASSUME Typed, NEW c \in Call, ExpireStart(c)
    PROVE  Typed'
<1>1. PICK k \in Key :
        /\ backend' = [backend EXCEPT ![k] = NoObj]
        /\ Become(<<c, 1>>, [Idle EXCEPT !.op = "expire", !.pc = "notify",
                                         !.key = k, !.todo = Audience(k)])
  BY DEF ExpireStart
<1>2. FrameOK([Idle EXCEPT !.op = "expire", !.pc = "notify",
                           !.key = k, !.todo = Audience(k)])
  BY IdleOK, AudienceTyped DEF FrameOK, Frame, Pc, Idle
<1>3. StateTyped'
  BY <1>1 DEF ExpireStart, Typed, StateTyped
<1>4. CallTyped'
  BY <1>1, <1>2, FramesOf, BecomeOK DEF Typed
<1> QED BY <1>3, <1>4 DEF Typed

LEMMA NotifyTyped ==
    ASSUME Typed, NEW p \in Proc,
           Notify(p) \/ Invalidate(p) \/ HandlerReturn(p) \/ NotifyEnd(p)
    PROVE  Typed'
<1> DEFINE f == call[p]
<1>0. f \in Frame /\ FrameOK(f)
  BY DEF Typed, CallTyped
<1>1. f.pc \in {"notify", "invalidate", "handler"} /\ f.op \in {"set", "clear", "expire"}
  BY <1>0 DEF Notify, Invalidate, HandlerReturn, NotifyEnd, At, FrameOK
<1>2. FrameOK([f EXCEPT !.pc = "notify", !.peer = NoScope])
  <2> DEFINE g == [f EXCEPT !.pc = "notify", !.peer = NoScope]
  <2>1. g \in Frame
    BY <1>0 DEF Frame, Pc
  <2>2. /\ g.pc = "notify" /\ g.op = f.op
        /\ g.scope = f.scope /\ g.key = f.key /\ g.value = f.value
    BY <1>0 DEF Frame
  <2> HIDE DEF g
  <2>3. FrameOK(g)
    BY <1>0, <1>1, <2>1, <2>2 DEF FrameOK
  <2> QED BY <2>3 DEF g
<1>3. CASE Notify(p)
  <2>1. PICK e \in f.todo :
          \/ Become(p, [f EXCEPT !.pc = "invalidate", !.peer = e[1], !.todo = @ \ {e}])
          \/ Become(p, [f EXCEPT !.todo = @ \ {e}])
    BY <1>3 DEF Notify
  <2>2. e[1] \in Scope
    BY <1>0 DEF Frame
  <2>3. FrameOK([f EXCEPT !.pc = "invalidate", !.peer = e[1], !.todo = @ \ {e}])
    <3> DEFINE g == [f EXCEPT !.pc = "invalidate", !.peer = e[1], !.todo = @ \ {e}]
    <3>0. f.todo \ {e} \in SUBSET (Scope \X Key)
      BY <1>0 DEF Frame
    <3>1. g \in Frame
      BY <1>0, <2>2, <3>0 DEF Frame, Pc
    <3>2. /\ g.pc = "invalidate" /\ g.op = f.op /\ g.peer = e[1]
          /\ g.scope = f.scope /\ g.key = f.key /\ g.value = f.value
      BY <1>0, <2>2 DEF Frame
    <3> HIDE DEF g
    <3>3. FrameOK(g)
      BY <1>0, <1>1, <2>2, <3>1, <3>2 DEF FrameOK
    <3> QED BY <3>3 DEF g
  <2>6. FrameOK([f EXCEPT !.todo = @ \ {e}])
    <3> DEFINE g == [f EXCEPT !.todo = @ \ {e}]
    <3>0. f.todo \ {e} \in SUBSET (Scope \X Key)
      BY <1>0 DEF Frame
    <3>1. g \in Frame
      BY <1>0, <3>0 DEF Frame, Pc
    <3>2. /\ g.pc = f.pc /\ g.op = f.op /\ g.peer = f.peer
          /\ g.scope = f.scope /\ g.key = f.key /\ g.value = f.value
      BY <1>0 DEF Frame
    <3> HIDE DEF g
    <3>3. FrameOK(g)
      BY <1>0, <1>1, <3>1, <3>2 DEF FrameOK
    <3> QED BY <3>3 DEF g
  <2>4. StateTyped'
    BY <1>3 DEF Notify, Typed, StateTyped
  <2>5. CallTyped'
    BY <2>1, <2>3, <2>6, BecomeOK DEF Typed
  <2> QED BY <2>4, <2>5 DEF Typed
<1>4. CASE Invalidate(p)
  <2>1. f.peer \in Scope
    BY <1>0, <1>4 DEF Invalidate, At, FrameOK
  <2>2. FrameOK([f EXCEPT !.pc = "handler"])
    BY <1>0, <1>1, <2>1 DEF FrameOK, Frame, Pc
  <2>3. CacheDrop(f.peer, FALSE, cache[f.peer].key) /\ UNCHANGED <<backend, session, stage, lock>>
    BY <1>4 DEF Invalidate
  <2>4. cache[f.peer].key \in Key \cup {NoKey}
    BY <2>1 DEF Typed, StateTyped, Cache
  <2>5. StateTyped'
    BY <2>1, <2>3, <2>4, CacheDropTyped DEF Typed, StateTyped
  <2>6. CallTyped'
    BY <1>4, <1>2, <2>2, BecomeOK DEF Invalidate, Goto, Typed
  <2> QED BY <2>5, <2>6 DEF Typed
<1>5. CASE HandlerReturn(p)
  <2>1. StateTyped'
    BY <1>5 DEF HandlerReturn, Typed, StateTyped
  <2>2. CallTyped'
    BY <1>5, <1>2, BecomeOK DEF HandlerReturn, Typed
  <2> QED BY <2>1, <2>2 DEF Typed
<1>6. CASE NotifyEnd(p)
  <2>1. StateTyped'
    BY <1>6, FreeTyped DEF NotifyEnd, Typed, StateTyped
  <2>2. CallTyped'
    BY <1>6, IdleOK, BecomeOK DEF NotifyEnd, Typed
  <2> QED BY <2>1, <2>2 DEF Typed
<1> QED BY <1>3, <1>4, <1>5, <1>6

LEMMA MutateTyped ==
    ASSUME Typed, NEW c \in Call, Mutate(c)
    PROVE  Typed'
<1>1. PICK o \in Obj : Become(<<c, 1>>, [Idle EXCEPT !.op = "change", !.pc = "change",
                                                     !.todo = subs[o]])
  BY DEF Mutate
<1>2. subs[o] \in SUBSET (Scope \X Key)
  BY DEF Typed, StateTyped
<1>3. FrameOK([Idle EXCEPT !.op = "change", !.pc = "change", !.todo = subs[o]])
  BY <1>2, IdleOK DEF FrameOK, Frame, Pc, Idle
<1>4. StateTyped'
  BY DEF Mutate, Typed, StateTyped
<1>5. CallTyped'
  BY <1>1, <1>3, FramesOf, BecomeOK DEF Typed
<1> QED BY <1>4, <1>5 DEF Typed

LEMMA ChangeTyped ==
    ASSUME Typed, NEW p \in Proc, Change(p) \/ Persist(p) \/ ChangeEnd(p)
    PROVE  Typed'
<1> DEFINE f == call[p]
<1>0. f \in Frame /\ FrameOK(f)
  BY DEF Typed, CallTyped
<1>1. f.op = "change"
  BY <1>0 DEF Change, Persist, ChangeEnd, At, FrameOK
<1>2. CASE Change(p)
  <2>1. PICK e \in f.todo :
          LET v == cache[e[1]].value
              g == [f EXCEPT !.todo = @ \ {e}]
          IN  \/ v # NoObj /\ Become(p, [g EXCEPT !.pc = "persist", !.key = e[2], !.value = v])
              \/ Become(p, g)
    BY <1>2 DEF Change
  <2>2. e[1] \in Scope /\ e[2] \in Key
    BY <1>0 DEF Frame
  <2>3. cache[e[1]].value \in Obj \cup {NoObj}
    BY <2>2 DEF Typed, StateTyped, Cache
  <2>4. FrameOK([f EXCEPT !.todo = @ \ {e}])
    BY <1>0, <1>1, <1>2 DEF FrameOK, Frame, Pc, Change, At
  <2>5. cache[e[1]].value # NoObj =>
          FrameOK([[f EXCEPT !.todo = @ \ {e}] EXCEPT !.pc = "persist", !.key = e[2],
                                                      !.value = cache[e[1]].value])
    BY <1>0, <1>1, <2>2, <2>3 DEF FrameOK, Frame, Pc
  <2>6. StateTyped'
    BY <1>2 DEF Change, Typed, StateTyped
  <2>7. CallTyped'
    BY <2>1, <2>4, <2>5, BecomeOK DEF Typed
  <2> QED BY <2>6, <2>7 DEF Typed
<1>3. CASE Persist(p)
  <2>1. f.key \in Key /\ f.value \in Obj
    BY <1>0, <1>3 DEF Persist, At, FrameOK
  <2>2. FrameOK([f EXCEPT !.pc = "change", !.key = NoKey, !.value = NoObj])
    <3> DEFINE g == [f EXCEPT !.pc = "change", !.key = NoKey, !.value = NoObj]
    <3>1. NoKey \in Key \cup {NoKey} /\ NoObj \in Obj \cup {NoObj}
      OBVIOUS
    <3>2. g \in Frame
      BY <1>0, <3>1 DEF Frame, Pc
    <3>3. g.pc = "change" /\ g.op = f.op
      BY <1>0 DEF Frame
    <3> HIDE DEF g
    <3>4. FrameOK(g)
      BY <1>1, <3>2, <3>3 DEF FrameOK
    <3> QED BY <3>4 DEF g
  <2>3. StateTyped'
    BY <1>3, <2>1 DEF Persist, Typed, StateTyped
  <2>4. CallTyped'
    BY <1>3, <2>2, BecomeOK DEF Persist, Typed
  <2> QED BY <2>3, <2>4 DEF Typed
<1>4. CASE ChangeEnd(p)
  <2>1. StateTyped'
    BY <1>4 DEF ChangeEnd, Typed, StateTyped
  <2>2. CallTyped'
    BY <1>4, IdleOK, BecomeOK DEF ChangeEnd, Typed
  <2> QED BY <2>1, <2>2 DEF Typed
<1> QED BY <1>2, <1>3, <1>4

LEMMA EnvironmentTyped ==
    ASSUME Typed, NEW s \in Scope, Environment(s)
    PROVE  Typed'
<1>1. UNCHANGED call
  BY DEF Environment, SessionChanges, DisposeState, DisposeCache
<1>2. CallTyped'
  BY <1>1 DEF Typed, CallTyped
<1>3. CASE SessionChanges(s)
  BY <1>2, <1>3 DEF SessionChanges, Typed, StateTyped
<1>4. CASE DisposeState(s)
  BY <1>2, <1>4 DEF DisposeState, Typed, StateTyped
<1>5. CASE DisposeCache(s)
  <2>1. cache' \in [Scope -> Cache]
    <3>1. [cache[s] EXCEPT !.hook = NoKey] \in Cache
      BY DEF Typed, StateTyped, Cache
    <3>2. cache' = [cache EXCEPT ![s] = [cache[s] EXCEPT !.hook = NoKey]]
      BY <1>5 DEF DisposeCache
    <3> QED BY <3>1, <3>2 DEF Typed, StateTyped
  <2> QED BY <1>2, <1>5, <2>1, UnhookedTyped DEF DisposeCache, Typed, StateTyped
<1> QED BY <1>3, <1>4, <1>5 DEF Environment

LEMMA TypedKept == Typed /\ [Next]_vars => Typed'
<1> SUFFICES ASSUME Typed, [Next]_vars PROVE Typed'
  OBVIOUS
<1>1. ASSUME NEW c \in Call, ReadStart(c) \/ HandlerRead(c) PROVE Typed'
  <2>1. StateTyped'
    BY <1>1 DEF ReadStart, HandlerRead, Typed, StateTyped
  <2>2. CASE ReadStart(c)
    <3>1. CallTyped'
      BY <2>2, ReadFrameOK, FramesOf, BecomeOK DEF ReadStart, Typed
    <3> QED BY <2>1, <3>1 DEF Typed
  <2>3. CASE HandlerRead(c)
    <3>1. call[<<c, 1>>].peer \in Scope
      BY <2>3, FramesOf DEF HandlerRead, At, Typed, CallTyped, FrameOK
    <3>2. CallTyped'
      BY <2>3, <3>1, ReadFrameOK, FramesOf, BecomeOK DEF HandlerRead, Typed
    <3> QED BY <2>1, <3>2 DEF Typed
  <2> QED BY <1>1, <2>2, <2>3
<1>2. ASSUME NEW c \in Call, Start(c) PROVE Typed'
  BY <1>1, <1>2, WriteStartTyped, ExpireStartTyped, MutateTyped DEF Start
<1>3. ASSUME NEW p \in Proc, Continue(p) \/ LockRefused(p) PROVE Typed'
  BY <1>3, ReadTyped, LoadTyped, SetTyped, ClearTyped, NotifyTyped, ChangeTyped
     DEF Continue
<1>4. ASSUME NEW s \in Scope, Environment(s) PROVE Typed'
  BY <1>4, EnvironmentTyped
<1>5. CASE UNCHANGED vars
  BY <1>5 DEF vars, Typed, StateTyped, CallTyped
<1> QED BY <1>1, <1>2, <1>3, <1>4, <1>5 DEF Next

LEMMA TypedInit == Init => Typed
<1> SUFFICES ASSUME Init PROVE Typed
  OBVIOUS
<1>1. StateTyped
  BY DEF Init, StateTyped, Cache
<1>2. CallTyped
  <2>1. call = [p \in Proc |-> Idle]
    BY DEF Init
  <2>2. Idle \in Frame
    BY IdleOK DEF FrameOK
  <2> QED BY <2>1, <2>2, IdleOK DEF CallTyped
<1> QED BY <1>1, <1>2 DEF Typed

(* The variables keep their types, and a write always has a session key.   *)
THEOREM TypeCorrect == Spec => []TypeOK
<1>1. Typed => TypeOK
  BY NullAssumption DEF Typed, StateTyped, CallTyped, TypeOK, FrameOK
<1> QED BY <1>1, TypedInit, TypedKept, PTL DEF Spec

-----------------------------------------------------------------------------
(* Inside(p), said of the frame of p.                                      *)
InsideFrame(f) ==
    \/ f.pc \in {"get", "fill", "compare", "put", "cache", "test", "clear", "remove"}
    \/ f.op \in {"set", "clear"} /\ f.pc \in {"notify", "invalidate", "handler"}

(* A step of frame p moves it about inside or outside, lets it in, or lets *)
(* it out.                                                                 *)
LEMMA LockSame ==
    ASSUME Typed, LockMeansInside, NEW p \in Proc, NEW f, Become(p, f), lock' = lock,
           InsideFrame(f) <=> InsideFrame(call[p]),
           InsideFrame(f) => f.scope = call[p].scope
    PROVE  LockMeansInside'
BY DEF Typed, CallTyped, LockMeansInside, Inside, InsideFrame, Become

LEMMA LockTaken ==
    ASSUME Typed, LockMeansInside, NEW p \in Proc, NEW f, Become(p, f),
           f.scope \in Scope, lock[f.scope] = NoProc,
           lock' = [lock EXCEPT ![f.scope] = p],
           InsideFrame(f), ~InsideFrame(call[p])
    PROVE  LockMeansInside'
<1>1. NoProc \notin Proc
  BY NullAssumption DEF Proc
<1>2. \A s \in Scope : lock'[s] = IF s = f.scope THEN p ELSE lock[s]
  BY DEF Typed, StateTyped
<1>3. \A q \in Proc : call'[q] = IF q = p THEN f ELSE call[q]
  BY DEF Typed, CallTyped, Become
<1>4. ASSUME NEW s \in Scope, NEW q \in Proc
      PROVE  lock'[s] = q <=> call'[q].scope = s /\ InsideFrame(call'[q])
  BY <1>1, <1>2, <1>3 DEF LockMeansInside, Inside, InsideFrame
<1> QED BY <1>4 DEF LockMeansInside, Inside, InsideFrame

LEMMA LockFreed ==
    ASSUME Typed, LockMeansInside, NEW p \in Proc, NEW f, Become(p, f), Free(p),
           call[p].scope \in Scope, InsideFrame(call[p]), ~InsideFrame(f)
    PROVE  LockMeansInside'
<1>1. NoProc \notin Proc
  BY NullAssumption DEF Proc
<1>2. \A s \in Scope : lock'[s] = IF s = call[p].scope THEN NoProc ELSE lock[s]
  BY DEF Typed, StateTyped, Free
<1>3. \A q \in Proc : call'[q] = IF q = p THEN f ELSE call[q]
  BY DEF Typed, CallTyped, Become
<1>4. ASSUME NEW s \in Scope, NEW q \in Proc
      PROVE  lock'[s] = q <=> call'[q].scope = s /\ InsideFrame(call'[q])
  <2>1. lock[call[p].scope] = p
    BY DEF LockMeansInside, Inside, InsideFrame
  <2> QED BY <1>1, <1>2, <1>3, <2>1 DEF LockMeansInside, Inside, InsideFrame
<1> QED BY <1>4 DEF LockMeansInside, Inside, InsideFrame

LEMMA IdleOutside == ~InsideFrame(Idle)
BY DEF InsideFrame, Idle

LEMMA LockKept ==
    ASSUME Typed, LockMeansInside, [Next]_vars
    PROVE  LockMeansInside'
<1>1. ASSUME NEW c \in Call, Start(c) \/ HandlerRead(c) PROVE LockMeansInside'
  <2>1. <<c, 1>> \in Proc /\ <<c, 2>> \in Proc /\ lock' = lock
    BY <1>1, FramesOf DEF Start, ReadStart, WriteStart, ExpireStart, Mutate, HandlerRead
  <2>2. ASSUME NEW p \in {<<c, 1>>, <<c, 2>>}, NEW f, Become(p, f),
               call[p].pc = "idle", ~InsideFrame(f)
        PROVE  LockMeansInside'
    BY <2>1, <2>2, LockSame DEF InsideFrame
  <2>3. \A s : ~InsideFrame(ReadFrame(s))
    BY DEF ReadFrame, Idle, InsideFrame
  <2>4. CASE ReadStart(c)
    BY <2>2, <2>3, <2>4 DEF ReadStart, At
  <2>5. CASE HandlerRead(c)
    BY <2>2, <2>3, <2>5 DEF HandlerRead, At
  <2>6. CASE WriteStart(c)
    <3>1. PICK s \in Scope :
            \E f \in {[Idle EXCEPT !.op = "clear"]}
                     \cup {[Idle EXCEPT !.op = "set", !.value = o] : o \in Obj} :
               Become(<<c, 1>>, [f EXCEPT !.pc = "lock", !.scope = s, !.key = session[s]])
      BY <2>6 DEF WriteStart
    <3>2. ASSUME NEW f \in {[Idle EXCEPT !.op = "clear"]}
                     \cup {[Idle EXCEPT !.op = "set", !.value = o] : o \in Obj}
          PROVE  ~InsideFrame([f EXCEPT !.pc = "lock", !.scope = s, !.key = session[s]])
      BY DEF Idle, InsideFrame
    <3> QED BY <2>2, <2>6, <3>1, <3>2 DEF WriteStart, At
  <2>7. CASE ExpireStart(c)
    <3>1. PICK k \in Key : Become(<<c, 1>>, [Idle EXCEPT !.op = "expire", !.pc = "notify",
                                                         !.key = k, !.todo = Audience(k)])
      BY <2>7 DEF ExpireStart
    <3>2. ~InsideFrame([Idle EXCEPT !.op = "expire", !.pc = "notify",
                                    !.key = k, !.todo = Audience(k)])
      BY DEF Idle, InsideFrame
    <3> QED BY <2>2, <2>7, <3>1, <3>2 DEF ExpireStart, At
  <2>8. CASE Mutate(c)
    <3>1. PICK o \in Obj : Become(<<c, 1>>, [Idle EXCEPT !.op = "change", !.pc = "change",
                                                         !.todo = subs[o]])
      BY <2>8 DEF Mutate
    <3>2. ~InsideFrame([Idle EXCEPT !.op = "change", !.pc = "change", !.todo = subs[o]])
      BY DEF Idle, InsideFrame
    <3> QED BY <2>2, <2>8, <3>1, <3>2 DEF Mutate, At
  <2> QED BY <1>1, <2>4, <2>5, <2>6, <2>7, <2>8 DEF Start
<1>2. ASSUME NEW p \in Proc, Continue(p) \/ LockRefused(p) PROVE LockMeansInside'
  <2> DEFINE f == call[p]
  <2>0. f \in Frame /\ FrameOK(f)
    BY DEF Typed, CallTyped
  <2>1. CASE ReadCheck(p)
    <3>1. f.pc = "check" /\ lock' = lock
      BY <2>1 DEF ReadCheck, At
    <3>2. ~InsideFrame(f)
      BY <3>1 DEF InsideFrame
    <3>3. /\ ~InsideFrame([f EXCEPT !.pc = "value"]) /\ ~InsideFrame([f EXCEPT !.pc = "empty"])
          /\ \A k : ~InsideFrame([f EXCEPT !.pc = "lock", !.key = k])
      BY <2>0 DEF InsideFrame, Frame
    <3> QED BY <2>1, <3>1, <3>2, <3>3, LockSame DEF ReadCheck, Goto
  <2>2. CASE ReadEmpty(p)
    <3>1. ~InsideFrame([f EXCEPT !.pc = "value"]) /\ ~InsideFrame(f)
      BY <2>0, <2>2 DEF InsideFrame, Frame, ReadEmpty, At
    <3> QED BY <2>2, <3>1, LockSame DEF ReadEmpty, Goto
  <2>3. CASE ReadValue(p)
    <3>1. ~InsideFrame(f)
      BY <2>3 DEF InsideFrame, ReadValue, At
    <3> QED BY <2>3, <3>1, IdleOutside, LockSame DEF ReadValue
  <2>4. CASE Lock(p)
    <3>1. /\ f.scope \in Scope /\ f.op \in {"read", "set", "clear"} /\ ~InsideFrame(f)
          /\ lock[f.scope] = NoProc
      BY <2>0, <2>4 DEF Lock, At, FrameOK, InsideFrame
    <3>2. CASE Mine(p).loaded /\ f.op = "read"
      <4>1. ~InsideFrame([f EXCEPT !.pc = "value"])
        BY <2>0 DEF InsideFrame, Frame
      <4> QED BY <2>4, <3>1, <3>2, <4>1, LockSame DEF Lock, Goto, Loaded
    <3>3. CASE Mine(p).loaded /\ f.op # "read"
      <4>1. InsideFrame([f EXCEPT !.pc = Loaded(f.op)])
        BY <2>0, <3>1, <3>3 DEF InsideFrame, Frame, Loaded
      <4>2. [f EXCEPT !.pc = Loaded(f.op)].scope = f.scope
        BY <2>0 DEF Frame
      <4> QED BY <2>4, <3>1, <3>3, <4>1, <4>2, LockTaken DEF Lock, Goto
    <3>4. CASE ~Mine(p).loaded
      <4>1. InsideFrame([f EXCEPT !.pc = "get"]) /\ [f EXCEPT !.pc = "get"].scope = f.scope
        BY <2>0 DEF InsideFrame, Frame
      <4> QED BY <2>4, <3>1, <3>4, <4>1, LockTaken DEF Lock, Goto
    <3> QED BY <3>2, <3>3, <3>4
  <2>5. CASE LockRefused(p)
    <3>1. ~InsideFrame(f)
      BY <2>5 DEF InsideFrame, LockRefused, At
    <3> QED BY <2>5, <3>1, IdleOutside, LockSame DEF LockRefused
  <2>6. CASE LoadGet(p)
    <3>1. InsideFrame(f) /\ lock' = lock
      BY <2>6 DEF InsideFrame, LoadGet, At
    <3>2. \A v : /\ InsideFrame([f EXCEPT !.pc = "fill", !.got = v])
                 /\ [f EXCEPT !.pc = "fill", !.got = v].scope = f.scope
      BY <2>0 DEF InsideFrame, Frame
    <3>3. InsideFrame([f EXCEPT !.pc = "fill"]) /\ [f EXCEPT !.pc = "fill"].scope = f.scope
      BY <2>0 DEF InsideFrame, Frame
    <3> QED BY <2>6, <3>1, <3>2, <3>3, LockSame DEF LoadGet, Goto
  <2>7. CASE LoadFill(p)
    <3> DEFINE g == [f EXCEPT !.pc = Loaded(f.op), !.got = NoObj]
    <3>1. InsideFrame(f) /\ f.op \in {"read", "set", "clear"} /\ f.scope \in Scope /\ Become(p, g)
      BY <2>0, <2>7 DEF InsideFrame, LoadFill, At, FrameOK
    <3>2. g.scope = f.scope /\ (InsideFrame(g) <=> f.op # "read")
      BY <2>0, <3>1 DEF InsideFrame, Frame, Loaded
    <3> HIDE DEF g
    <3>3. CASE f.op = "read"
      BY <2>7, <3>1, <3>2, <3>3, LockFreed DEF LoadFill
    <3>4. CASE f.op # "read"
      BY <2>7, <3>1, <3>2, <3>4, LockSame DEF LoadFill
    <3> QED BY <3>3, <3>4
  <2>8. CASE SetCompare(p) \/ ClearTest(p)
    <3>1. InsideFrame(f) /\ f.scope \in Scope
      BY <2>0, <2>8 DEF InsideFrame, SetCompare, ClearTest, At, FrameOK
    <3>2. /\ \A pc \in {"put", "clear"} : /\ InsideFrame([f EXCEPT !.pc = pc])
                                          /\ [f EXCEPT !.pc = pc].scope = f.scope
      BY <2>0 DEF InsideFrame, Frame
    <3>3. (Become(p, Idle) /\ Free(p)) \/ (\E pc \in {"put", "clear"} : Goto(p, pc) /\ lock' = lock)
      BY <2>8 DEF SetCompare, ClearTest
    <3> QED BY <3>1, <3>2, <3>3, IdleOutside, LockFreed, LockSame DEF Goto
  <2>9. CASE SetPut(p) \/ ClearCache(p)
    <3>1. InsideFrame(f)
      BY <2>9 DEF InsideFrame, SetPut, ClearCache, At
    <3>2. /\ \A pc \in {"cache", "remove"} : /\ InsideFrame([f EXCEPT !.pc = pc])
                                             /\ [f EXCEPT !.pc = pc].scope = f.scope
      BY <2>0 DEF InsideFrame, Frame
    <3>3. \E pc \in {"cache", "remove"} : Goto(p, pc) /\ lock' = lock
      BY <2>9 DEF SetPut, ClearCache
    <3> QED BY <3>1, <3>2, <3>3, LockSame DEF Goto
  <2>10. CASE SetCache(p) \/ ClearRemove(p)
    <3> DEFINE g == [f EXCEPT !.pc = "notify", !.todo = Audience(f.key)]
    <3>1. InsideFrame(f) /\ f.op \in {"set", "clear"} /\ lock' = lock /\ Become(p, g)
      BY <2>0, <2>10 DEF InsideFrame, SetCache, ClearRemove, At, FrameOK
    <3>2. InsideFrame(g) /\ g.scope = f.scope
      BY <2>0, <3>1 DEF InsideFrame, Frame
    <3> QED BY <3>1, <3>2, LockSame
  <2>11. CASE Notify(p) \/ Invalidate(p) \/ HandlerReturn(p)
    <3>1. f.pc \in {"notify", "invalidate", "handler"} /\ lock' = lock
      BY <2>11 DEF Notify, Invalidate, HandlerReturn, At
    <3>2. ASSUME NEW g, Become(p, g), g.pc \in {"notify", "invalidate", "handler"},
                 g.op = f.op, g.scope = f.scope
          PROVE  LockMeansInside'
      BY <3>1, <3>2, LockSame DEF InsideFrame
    <3>3. CASE Notify(p)
      <4>1. PICK e \in f.todo :
              \/ Become(p, [f EXCEPT !.pc = "invalidate", !.peer = e[1], !.todo = @ \ {e}])
              \/ Become(p, [f EXCEPT !.todo = @ \ {e}])
        BY <3>3 DEF Notify
      <4>2. ASSUME NEW t, NEW s, NEW g \in {[f EXCEPT !.todo = t],
                     [f EXCEPT !.pc = "invalidate", !.peer = s, !.todo = t]}
            PROVE  /\ g.pc \in {"notify", "invalidate", "handler"}
                   /\ g.op = f.op /\ g.scope = f.scope
        BY <2>0, <3>1 DEF Frame
      <4> QED BY <3>2, <4>1, <4>2
    <3>4. CASE Invalidate(p) \/ HandlerReturn(p)
      <4>1. ASSUME NEW g \in {[f EXCEPT !.pc = "handler"],
                              [f EXCEPT !.pc = "notify", !.peer = NoScope]}
            PROVE  /\ g.pc \in {"notify", "invalidate", "handler"}
                   /\ g.op = f.op /\ g.scope = f.scope
        BY <2>0 DEF Frame
      <4> QED BY <3>2, <3>4, <4>1 DEF Invalidate, HandlerReturn, Goto
    <3> QED BY <2>11, <3>3, <3>4
  <2>12. CASE NotifyEnd(p)
    <3>1. f.pc = "notify" /\ f.op \in {"set", "clear", "expire"} /\ Become(p, Idle)
      BY <2>0, <2>12 DEF NotifyEnd, At, FrameOK
    <3>2. CASE f.op = "expire"
      BY <2>12, <3>1, <3>2, IdleOutside, LockSame DEF NotifyEnd, InsideFrame
    <3>3. CASE f.op # "expire"
      <4>1. InsideFrame(f) /\ f.scope \in Scope /\ Free(p)
        BY <2>0, <2>12, <3>1, <3>3 DEF NotifyEnd, InsideFrame, FrameOK
      <4> QED BY <3>1, <4>1, IdleOutside, LockFreed
    <3> QED BY <3>2, <3>3
  <2>13. CASE Change(p) \/ Persist(p) \/ ChangeEnd(p)
    <3>1. f.pc \in {"change", "persist"} /\ f.op = "change" /\ lock' = lock
      BY <2>0, <2>13 DEF Change, Persist, ChangeEnd, At, FrameOK
    <3>2. PICK g : Become(p, g) /\ ~InsideFrame(g)
      <4>1. CASE Change(p)
        <5>1. PICK e \in f.todo :
                \/ Become(p, [[f EXCEPT !.todo = @ \ {e}] EXCEPT !.pc = "persist",
                                 !.key = e[2], !.value = cache[e[1]].value])
                \/ Become(p, [f EXCEPT !.todo = @ \ {e}])
          BY <4>1 DEF Change
        <5>2. ASSUME NEW t
              PROVE  /\ ~InsideFrame([f EXCEPT !.todo = t])
                     /\ [f EXCEPT !.todo = t].op = "change"
          BY <2>0, <3>1 DEF InsideFrame, Frame
        <5>3. ASSUME NEW t, NEW k, NEW v
              PROVE  ~InsideFrame([[f EXCEPT !.todo = t]
                                     EXCEPT !.pc = "persist", !.key = k, !.value = v])
          BY <2>0, <3>1 DEF InsideFrame, Frame
        <5> QED BY <5>1, <5>2, <5>3
      <4>2. CASE Persist(p)
        <5>1. ~InsideFrame([f EXCEPT !.pc = "change", !.key = NoKey, !.value = NoObj])
          BY <2>0 DEF InsideFrame, Frame
        <5> QED BY <4>2, <5>1 DEF Persist
      <4>3. CASE ChangeEnd(p)
        BY <4>3, IdleOutside DEF ChangeEnd
      <4> QED BY <2>13, <4>1, <4>2, <4>3
    <3> QED BY <3>1, <3>2, LockSame DEF InsideFrame
  <2> QED BY <1>2, <2>1, <2>2, <2>3, <2>4, <2>5, <2>6, <2>7, <2>8, <2>9, <2>10, <2>11,
             <2>12, <2>13 DEF Continue
<1>3. ASSUME NEW s \in Scope, Environment(s) PROVE LockMeansInside'
  BY <1>3 DEF Environment, SessionChanges, DisposeState, DisposeCache,
              LockMeansInside, Inside
<1>4. CASE UNCHANGED vars
  BY <1>4 DEF vars, LockMeansInside, Inside
<1> QED BY <1>1, <1>2, <1>3, <1>4 DEF Next

LEMMA LockInit == Init => LockMeansInside
<1>1. NoProc \notin Proc
  BY NullAssumption DEF Proc
<1> QED BY <1>1 DEF Init, LockMeansInside, Inside, Idle

(* The semaphore of a scope is taken exactly by the call inside, in every   *)
(* interleaving, with every race allowed and through every early return.   *)
THEOREM LockIsInside == Spec => []LockMeansInside
BY TypedInit, TypedKept, LockInit, LockKept, PTL DEF Spec

-----------------------------------------------------------------------------
(* The handlers that follow from a cache c.                                *)
HandlersOf(c, o) == {h \in Scope \X Key : c[h[1]].value = o /\ c[h[1]].hook = h[2]}

(* Unhooked takes away the handler of s, and no other.                     *)
LEMMA UnhookedExact ==
    ASSUME Typed, HandlersFollowCaches, NEW s \in Scope, NEW o \in Obj
    PROVE  Unhooked(s)[o] = {h \in HandlersOf(cache, o) : h[1] # s}
<1>1. subs[o] = HandlersOf(cache, o) /\ subs \in [Obj -> SUBSET (Scope \X Key)]
  BY DEF HandlersFollowCaches, HandlersOf, Typed, StateTyped
<1>2. \A h \in HandlersOf(cache, o) : /\ h = <<h[1], h[2]>> /\ h[2] \in Key
                                      /\ cache[h[1]].value = o /\ cache[h[1]].hook = h[2]
  BY DEF HandlersOf
<1>3. cache[s] \in Cache
  BY DEF Typed, StateTyped
<1>4. CASE cache[s].value = NoObj \/ cache[s].hook = NoKey
  <2>1. \A h \in HandlersOf(cache, o) : h[1] # s
    BY <1>2, <1>4, NullAssumption
  <2> QED BY <1>1, <1>4, <2>1 DEF Unhooked
<1>5. CASE cache[s].value # NoObj /\ cache[s].hook # NoKey
  <2>1. Unhooked(s) = [subs EXCEPT ![cache[s].value] = @ \ {<<s, cache[s].hook>>}]
    BY <1>5 DEF Unhooked
  <2>2. CASE cache[s].value = o
    <3>1. Unhooked(s)[o] = HandlersOf(cache, o) \ {<<s, cache[s].hook>>}
      BY <1>1, <2>1, <2>2
    <3>2. \A h \in HandlersOf(cache, o) : h = <<s, cache[s].hook>> <=> h[1] = s
      BY <1>2
    <3> QED BY <3>1, <3>2
  <2>3. CASE cache[s].value # o
    <3>1. Unhooked(s)[o] = HandlersOf(cache, o)
      BY <1>1, <2>1, <2>3
    <3>2. \A h \in HandlersOf(cache, o) : h[1] # s
      BY <1>2, <2>3
    <3> QED BY <3>1, <3>2
  <2> QED BY <2>2, <2>3
<1> QED BY <1>4, <1>5

(* A cache without a handler has none, whatever else it holds.             *)
LEMMA DropFollows ==
    ASSUME Typed, HandlersFollowCaches, NEW s \in Scope, subs' = Unhooked(s),
           NEW e, e.hook = NoKey, cache' = [cache EXCEPT ![s] = e]
    PROVE  HandlersFollowCaches'
<1>1. ASSUME NEW o \in Obj PROVE subs'[o] = HandlersOf(cache', o)
  <2>1. \A t \in Scope : cache'[t] = IF t = s THEN e ELSE cache[t]
    BY DEF Typed, StateTyped
  <2>2. HandlersOf(cache', o) = {h \in HandlersOf(cache, o) : h[1] # s}
    BY <2>1, NullAssumption DEF HandlersOf
  <2> QED BY <2>2, UnhookedExact
<1> QED BY <1>1 DEF HandlersFollowCaches, HandlersOf

LEMMA SetFollows ==
    ASSUME Typed, HandlersFollowCaches, NEW s \in Scope, NEW k \in Key,
           NEW v \in Obj \cup {NoObj}, CacheSet(s, k, v)
    PROVE  HandlersFollowCaches'
<1> DEFINE hook == IF Track /\ v # NoObj THEN k ELSE NoKey
           e == [value |-> v, loaded |-> TRUE, key |-> k, hook |-> hook]
<1>1. /\ cache' = [cache EXCEPT ![s] = e]
      /\ subs' = IF hook = NoKey THEN Unhooked(s)
                 ELSE [Unhooked(s) EXCEPT ![v] = @ \cup {<<s, k>>}]
  BY Zenon DEF CacheSet
<1>2. e.hook = hook /\ e.value = v
  OBVIOUS
<1>3. k # NoKey /\ (hook = k \/ hook = NoKey) /\ (hook = k => v \in Obj)
  BY NullAssumption
<1> HIDE DEF hook, e
<1>4. CASE hook = NoKey
  BY <1>1, <1>2, <1>4, DropFollows
<1>5. CASE hook = k
  <2>1. v \in Obj /\ subs' = [Unhooked(s) EXCEPT ![v] = @ \cup {<<s, k>>}]
    BY <1>1, <1>3, <1>5
  <2>2. ASSUME NEW o \in Obj PROVE subs'[o] = HandlersOf(cache', o)
    <3>1. \A t \in Scope : cache'[t] = IF t = s THEN e ELSE cache[t]
      BY <1>1 DEF Typed, StateTyped
    <3>2. subs'[o] = IF o = v THEN Unhooked(s)[o] \cup {<<s, k>>} ELSE Unhooked(s)[o]
      BY <2>1, UnhookedTyped DEF Typed
    <3>3. HandlersOf(cache', o) = {h \in HandlersOf(cache, o) : h[1] # s}
                                  \cup (IF o = v THEN {<<s, k>>} ELSE {})
      <4>1. ASSUME NEW h \in Scope \X Key
            PROVE  h \in HandlersOf(cache', o)
                     <=> \/ h \in HandlersOf(cache, o) /\ h[1] # s
                         \/ o = v /\ h = <<s, k>>
        BY <1>2, <1>5, <3>1 DEF HandlersOf
      <4>2. <<s, k>> \in Scope \X Key
        OBVIOUS
      <4> QED BY <4>1, <4>2 DEF HandlersOf
    <3> QED BY <3>2, <3>3, UnhookedExact
  <2> QED BY <2>2 DEF HandlersFollowCaches, HandlersOf
<1> QED BY <1>3, <1>4, <1>5

LEMMA CacheDropFollows ==
    ASSUME Typed, HandlersFollowCaches, NEW s \in Scope, NEW loaded, NEW k,
           CacheDrop(s, loaded, k)
    PROVE  HandlersFollowCaches'
BY DropFollows DEF CacheDrop

LEMMA HandlersKept ==
    ASSUME Typed, HandlersFollowCaches, [Next]_vars
    PROVE  HandlersFollowCaches'
<1>1. ASSUME NEW p \in Proc, LoadFill(p) PROVE HandlersFollowCaches'
  <2>1. /\ call[p].scope \in Scope /\ call[p].key \in Key
        /\ call[p].got \in Obj \cup {NoObj}
    BY <1>1 DEF LoadFill, At, Typed, CallTyped, FrameOK, Frame
  <2> QED BY <1>1, <2>1, SetFollows DEF LoadFill
<1>2. ASSUME NEW p \in Proc, SetCache(p) PROVE HandlersFollowCaches'
  <2>1. /\ call[p].scope \in Scope /\ call[p].key \in Key /\ call[p].value \in Obj
    BY <1>2 DEF SetCache, At, Typed, CallTyped, FrameOK
  <2> QED BY <1>2, <2>1, SetFollows DEF SetCache
<1>3. ASSUME NEW p \in Proc, ReadEmpty(p) \/ ClearCache(p) PROVE HandlersFollowCaches'
  <2>1. call[p].scope \in Scope
    BY <1>3 DEF ReadEmpty, ClearCache, At, Typed, CallTyped, FrameOK
  <2> QED BY <1>3, <2>1, CacheDropFollows DEF ReadEmpty, ClearCache
<1>4. ASSUME NEW p \in Proc, Invalidate(p) PROVE HandlersFollowCaches'
  <2>1. call[p].peer \in Scope
    BY <1>4 DEF Invalidate, At, Typed, CallTyped, FrameOK
  <2> QED BY <1>4, <2>1, CacheDropFollows DEF Invalidate
<1>5. ASSUME NEW s \in Scope, DisposeCache(s) PROVE HandlersFollowCaches'
  <2>1. cache' = [cache EXCEPT ![s] = [cache[s] EXCEPT !.hook = NoKey]]
    BY <1>5 DEF DisposeCache
  <2>2. [cache[s] EXCEPT !.hook = NoKey].hook = NoKey
    BY DEF Typed, StateTyped, Cache
  <2> QED BY <1>5, <2>1, <2>2, DropFollows DEF DisposeCache
<1>6. ASSUME UNCHANGED <<cache, subs>> PROVE HandlersFollowCaches'
  BY <1>6 DEF HandlersFollowCaches
<1>7. ASSUME NEW c \in Call, Start(c) \/ HandlerRead(c) PROVE HandlersFollowCaches'
  BY <1>6, <1>7 DEF Start, ReadStart, WriteStart, ExpireStart, Mutate, HandlerRead
<1>8. ASSUME NEW p \in Proc, Continue(p) \/ LockRefused(p) PROVE HandlersFollowCaches'
  BY <1>1, <1>2, <1>3, <1>4, <1>6, <1>8
     DEF Continue, ReadCheck, ReadValue, Lock, LockRefused, LoadGet, SetCompare, SetPut,
         ClearTest, ClearRemove, Notify, HandlerReturn, NotifyEnd, Change, Persist, ChangeEnd
<1>9. ASSUME NEW s \in Scope, Environment(s) PROVE HandlersFollowCaches'
  BY <1>5, <1>6, <1>9 DEF Environment, SessionChanges, DisposeState
<1>10. CASE UNCHANGED vars
  BY <1>6, <1>10 DEF vars
<1> QED BY <1>7, <1>8, <1>9, <1>10 DEF Next

LEMMA HandlersInit == Init => HandlersFollowCaches
BY NullAssumption DEF Init, HandlersFollowCaches

(* An object has the handlers of exactly the caches that hold it, whatever *)
(* races, disposals and changes of session key there are.                  *)
THEOREM HandlersFollow == Spec => []HandlersFollowCaches
BY TypedInit, TypedKept, HandlersInit, HandlersKept, PTL DEF Spec

-----------------------------------------------------------------------------
(* Coherence, when loads and writes of a key do not overlap, loads find no *)
(* expired entry and a scope keeps its key.  Coherent is not inductive: a  *)
(* load that is about to fill a cache must hold what the backend has, and  *)
(* so must an auto-persist, which writes back what a cache had; a cache    *)
(* that ClearAsync has emptied must stay empty until the backend is.       *)
LoadingFrame(f, k) == f.key = k /\ f.pc \in {"fill", "persist"}
WritingFrame(f, k) == /\ f.key = k
                      /\ f.op \in {"set", "clear", "expire"}
                      /\ f.pc \in {"cache", "notify", "invalidate", "handler"}
Tells(f, s, k) ==
    /\ f.key = k
    /\ \/ f.pc = "cache"
       \/ f.pc = "remove" /\ f.scope = s
       \/ f.pc = "notify" /\ <<s, k>> \in f.todo
       \/ f.pc = "invalidate" /\ (f.peer = s \/ <<s, k>> \in f.todo)
       \/ f.pc = "handler" /\ <<s, k>> \in f.todo

(* A scope has one key in all its life: its cache, its calls and the       *)
(* handlers of its cache are for that one.                                 *)
KeyCache(e, k) == /\ e.key \in {NoKey, k} /\ e.hook \in {NoKey, k}
                  /\ e.value # NoObj => e.loaded /\ e.key # NoKey
KeyFrame(f) ==
    /\ f.pc \in {"lock", "get", "fill"} \/ f.op \in {"set", "clear"}
         => f.key = session[f.scope]
    /\ f.op = "change" => \A e \in f.todo : e[2] = session[e[1]]

OneKey == /\ \A s \in Scope : KeyCache(cache[s], session[s])
          /\ \A p \in Proc : KeyFrame(call[p])

NoOverlap == \A p, q \in Proc, k \in Key :
               ~(LoadingFrame(call[p], k) /\ WritingFrame(call[q], k))

FreshFrame(f) ==
    /\ f.pc = "fill" => f.got = backend[f.key]
    /\ f.pc = "persist" => f.value = backend[f.key]
    /\ f.pc = "remove" => cache[f.scope].value = NoObj

Fresh == \A p \in Proc : FreshFrame(call[p])

Quiet == Typed /\ LockMeansInside /\ HandlersFollowCaches
           /\ OneKey /\ NoOverlap /\ Fresh /\ Coherent

LEMMA FramesSay ==
    /\ \A k : Loading(k) <=> \E p \in Proc : LoadingFrame(call[p], k)
    /\ \A k : Writing(k) <=> \E p \in Proc : WritingFrame(call[p], k)
    /\ \A p, s, k : StillToTell(p, s, k) <=> Tells(call[p], s, k)
BY DEF Loading, LoadingFrame, Writing, WritingFrame, StillToTell, Tells

(* A step that changes a frame and nothing else of what the caches and the *)
(* backend hold.                                                           *)
LEMMA FrameStep ==
    ASSUME Quiet, NEW p \in Proc, NEW f, Become(p, f),
           UNCHANGED <<backend, session, stage, cache>>,
           KeyFrame(f), FreshFrame(f),
           \A k \in Key : LoadingFrame(f, k) => LoadingFrame(call[p], k) \/ ~Writing(k),
           \A k \in Key : WritingFrame(f, k) => WritingFrame(call[p], k),
           \A s \in Scope, k \in Key :
             Tells(call[p], s, k)
               => Tells(f, s, k) \/ stage[s] = "gone" \/ cache[s].key # k
    PROVE  OneKey' /\ NoOverlap' /\ Fresh' /\ Coherent'
<1>1. \A q \in Proc : call'[q] = IF q = p THEN f ELSE call[q]
  BY DEF Quiet, Typed, CallTyped, Become
<1>2. OneKey'
  BY <1>1 DEF Quiet, OneKey, KeyFrame
<1>3. NoOverlap'
  <2>1. SUFFICES ASSUME NEW q \in Proc, NEW r \in Proc, NEW k \in Key,
                        LoadingFrame(call'[q], k), WritingFrame(call'[r], k)
                 PROVE  FALSE
    BY DEF NoOverlap
  <2>2. WritingFrame(call[r], k)
    BY <1>1, <2>1
  <2>3. ~LoadingFrame(call[q], k)
    BY <2>2 DEF Quiet, NoOverlap
  <2>4. ~Writing(k)
    BY <1>1, <2>1, <2>3
  <2> QED BY <2>2, <2>4, FramesSay
<1>4. Fresh'
  BY <1>1 DEF Quiet, Fresh, FreshFrame
<1>5. Coherent'
  <2>1. SUFFICES ASSUME NEW s \in Scope, NEW k \in Key, stage[s] # "gone", cache[s].loaded,
                        cache[s].key = k, cache[s].value # backend[k]
                 PROVE  \E q \in Proc : Tells(call'[q], s, k)
    BY DEF Coherent, StillToTell, Tells
  <2>2. PICK q \in Proc : Tells(call[q], s, k)
    BY <2>1, FramesSay DEF Quiet, Coherent
  <2>3. Tells(call'[q], s, k)
    BY <1>1, <2>1, <2>2
  <2> QED BY <2>3
<1> QED BY <1>2, <1>3, <1>4, <1>5

(* A step that changes the cache of s, of the call inside unless it leaves *)
(* it empty.                                                               *)
LEMMA CacheStep ==
    ASSUME Quiet, NEW p \in Proc, NEW f, Become(p, f), NEW s \in Scope, NEW e,
           cache' = [cache EXCEPT ![s] = e], UNCHANGED <<backend, session, stage>>,
           KeyCache(e, session[s]), KeyFrame(f),
           e.value = NoObj \/ (InsideFrame(call[p]) /\ call[p].scope = s),
           f.pc \notin {"fill", "persist"},
           f.pc = "remove" => f.scope = s /\ e.value = NoObj,
           \A k \in Key : WritingFrame(f, k) => WritingFrame(call[p], k),
           \A k \in Key : stage[s] # "gone" /\ e.loaded /\ e.key = k /\ e.value # backend[k]
             => Tells(f, s, k),
           \A t \in Scope \ {s}, k \in Key :
             Tells(call[p], t, k) => Tells(f, t, k) \/ stage[t] = "gone"
    PROVE  OneKey' /\ NoOverlap' /\ Fresh' /\ Coherent'
<1>1. \A q \in Proc : call'[q] = IF q = p THEN f ELSE call[q]
  BY DEF Quiet, Typed, CallTyped, Become
<1>2. \A t \in Scope : cache'[t] = IF t = s THEN e ELSE cache[t]
  BY DEF Quiet, Typed, StateTyped
<1>3. OneKey'
  <2>1. \A t \in Scope : KeyCache(cache'[t], session[t])
    BY <1>2 DEF Quiet, OneKey
  <2>2. \A q \in Proc : KeyFrame(call'[q])
    BY <1>1 DEF Quiet, OneKey
  <2> QED BY <2>1, <2>2 DEF OneKey, KeyFrame, KeyCache
<1>4. NoOverlap'
  BY <1>1 DEF Quiet, NoOverlap, LoadingFrame
<1>5. Fresh'
  <2>1. SUFFICES ASSUME NEW q \in Proc PROVE FreshFrame(call[q])'
    BY DEF Fresh, FreshFrame
  <2>2. CASE q = p
    BY <1>1, <1>2, <2>2 DEF FreshFrame
  <2>3. CASE q # p
    <3>1. FreshFrame(call[q]) /\ call'[q] = call[q]
      BY <1>1, <2>3 DEF Quiet, Fresh
    <3>2. ASSUME call[q].pc = "remove" PROVE cache'[call[q].scope].value = NoObj
      <4>1. call[q].scope \in Scope /\ Inside(q)
        BY <3>2 DEF Quiet, Typed, CallTyped, FrameOK, Inside
      <4>2. lock[call[q].scope] = q
        BY <4>1 DEF Quiet, LockMeansInside
      <4>3. e.value = NoObj \/ call[q].scope # s
        BY <2>3, <4>2 DEF Quiet, LockMeansInside, Inside, InsideFrame
      <4> QED BY <1>2, <3>1, <3>2, <4>1, <4>3 DEF FreshFrame
    <3> QED BY <3>1, <3>2 DEF FreshFrame
  <2> QED BY <2>2, <2>3
<1>6. Coherent'
  <2>1. SUFFICES ASSUME NEW t \in Scope, NEW k \in Key, stage[t] # "gone", cache'[t].loaded,
                        cache'[t].key = k, cache'[t].value # backend[k]
                 PROVE  \E q \in Proc : Tells(call'[q], t, k)
    BY DEF Coherent, StillToTell, Tells
  <2>2. CASE t = s
    BY <1>1, <1>2, <2>1, <2>2
  <2>3. CASE t # s
    <3>1. PICK q \in Proc : Tells(call[q], t, k)
      BY <1>2, <2>1, <2>3, FramesSay DEF Quiet, Coherent
    <3> QED BY <1>1, <2>1, <2>3, <3>1
  <2> QED BY <2>2, <2>3
<1> QED BY <1>3, <1>4, <1>5, <1>6

(* A step that changes the backend at k, which nobody is loading, and has  *)
(* every cache still to tell.                                              *)
LEMMA WriteStep ==
    ASSUME Quiet, NEW p \in Proc, NEW f, Become(p, f), NEW k \in Key, NEW v,
           backend' = [backend EXCEPT ![k] = v], UNCHANGED <<session, stage, cache>>,
           ~Loading(k), KeyFrame(f), f.key = k,
           f.pc \notin {"fill", "persist", "remove"},
           \A s \in Scope, j \in Key : Tells(call[p], s, j) => j = k,
           \A s \in Scope : stage[s] # "gone" => Tells(f, s, k)
    PROVE  OneKey' /\ NoOverlap' /\ Fresh' /\ Coherent'
<1>1. \A q \in Proc : call'[q] = IF q = p THEN f ELSE call[q]
  BY DEF Quiet, Typed, CallTyped, Become
<1>2. \A j \in Key : backend'[j] = IF j = k THEN v ELSE backend[j]
  BY DEF Quiet, Typed, StateTyped
<1>3. OneKey'
  BY <1>1 DEF Quiet, OneKey, KeyFrame
<1>4. \A q \in Proc : ~LoadingFrame(call[q], k)
  BY FramesSay
<1>5. NoOverlap'
  <2>1. SUFFICES ASSUME NEW q \in Proc, NEW r \in Proc, NEW j \in Key,
                        LoadingFrame(call'[q], j), WritingFrame(call'[r], j)
                 PROVE  FALSE
    BY DEF NoOverlap
  <2>2. q # p /\ LoadingFrame(call[q], j) /\ j # k
    BY <1>1, <1>4, <2>1 DEF LoadingFrame
  <2>3. r # p
    BY <1>1, <2>1, <2>2 DEF WritingFrame
  <2> QED BY <1>1, <2>1, <2>2, <2>3 DEF Quiet, NoOverlap
<1>6. Fresh'
  <2>1. SUFFICES ASSUME NEW q \in Proc PROVE FreshFrame(call[q])'
    BY DEF Fresh, FreshFrame
  <2>2. CASE q = p
    BY <1>1, <2>2 DEF FreshFrame
  <2>3. CASE q # p
    <3>1. FreshFrame(call[q]) /\ call'[q] = call[q] /\ FrameOK(call[q])
      BY <1>1, <2>3 DEF Quiet, Fresh, Typed, CallTyped
    <3>2. call[q].pc \in {"fill", "persist"} => backend'[call[q].key] = backend[call[q].key]
      BY <1>2, <1>4, <3>1 DEF LoadingFrame, FrameOK
    <3> QED BY <3>1, <3>2 DEF FreshFrame
  <2> QED BY <2>2, <2>3
<1>7. Coherent'
  <2>1. SUFFICES ASSUME NEW s \in Scope, NEW j \in Key, stage[s] # "gone", cache[s].loaded,
                        cache[s].key = j, cache[s].value # backend'[j]
                 PROVE  \E q \in Proc : Tells(call'[q], s, j)
    BY DEF Coherent, StillToTell, Tells
  <2>2. CASE j = k
    BY <1>1, <2>1, <2>2
  <2>3. CASE j # k
    <3>1. PICK q \in Proc : Tells(call[q], s, j)
      BY <1>2, <2>1, <2>3, FramesSay DEF Quiet, Coherent
    <3> QED BY <1>1, <2>3, <3>1
  <2> QED BY <2>2, <2>3
<1> QED BY <1>3, <1>5, <1>6, <1>7

(* The calls that begin.                                                   *)
LEMMA StartQuiet ==
    ASSUME Quiet, "overlap" \notin Races, NEW c \in Call, Start(c) \/ HandlerRead(c)
    PROVE  OneKey' /\ NoOverlap' /\ Fresh' /\ Coherent'
<1>0. <<c, 1>> \in Proc /\ <<c, 2>> \in Proc /\ Idle \in Frame
  BY FramesOf, IdleOK DEF FrameOK
<1>1. ASSUME NEW p \in {<<c, 1>>, <<c, 2>>}, call[p].pc = "idle"
      PROVE  \A s, k : ~Tells(call[p], s, k)
  BY <1>1 DEF Tells
<1>2. ASSUME NEW p \in {<<c, 1>>, <<c, 2>>}, call[p].pc = "idle", NEW f, Become(p, f),
             f.pc \in {"check", "lock", "change"}, KeyFrame(f),
             UNCHANGED <<backend, session, stage, cache>>
      PROVE  OneKey' /\ NoOverlap' /\ Fresh' /\ Coherent'
  BY <1>0, <1>1, <1>2, FrameStep DEF FreshFrame, LoadingFrame, WritingFrame
<1>3. ASSUME NEW s PROVE ReadFrame(s).pc = "check" /\ KeyFrame(ReadFrame(s))
  BY DEF ReadFrame, Idle, KeyFrame
<1>4. CASE ReadStart(c)
  BY <1>2, <1>3, <1>4 DEF ReadStart, At
<1>5. CASE HandlerRead(c)
  BY <1>2, <1>3, <1>5 DEF HandlerRead, At
<1>6. CASE WriteStart(c)
  <2>1. PICK s \in Scope :
          \E f \in {[Idle EXCEPT !.op = "clear"]}
                   \cup {[Idle EXCEPT !.op = "set", !.value = o] : o \in Obj} :
             Become(<<c, 1>>, [f EXCEPT !.pc = "lock", !.scope = s, !.key = session[s]])
    BY <1>6 DEF WriteStart
  <2>2. ASSUME NEW f \in {[Idle EXCEPT !.op = "clear"]}
                   \cup {[Idle EXCEPT !.op = "set", !.value = o] : o \in Obj}
        PROVE  /\ [f EXCEPT !.pc = "lock", !.scope = s, !.key = session[s]].pc = "lock"
               /\ KeyFrame([f EXCEPT !.pc = "lock", !.scope = s, !.key = session[s]])
    BY DEF Idle, KeyFrame
  <2> QED BY <1>2, <1>6, <2>1, <2>2 DEF WriteStart, At
<1>7. CASE ExpireStart(c)
  <2>1. PICK k \in Key :
          /\ MayWrite(k)
          /\ backend' = [backend EXCEPT ![k] = NoObj]
          /\ Become(<<c, 1>>, [Idle EXCEPT !.op = "expire", !.pc = "notify",
                                           !.key = k, !.todo = Audience(k)])
    BY <1>7 DEF ExpireStart
  <2> DEFINE f == [Idle EXCEPT !.op = "expire", !.pc = "notify",
                               !.key = k, !.todo = Audience(k)]
  <2>2. f.op = "expire" /\ f.pc = "notify" /\ f.key = k /\ f.todo = Audience(k)
    BY <1>0 DEF Idle
  <2> HIDE DEF f
  <2>3. ~Loading(k)
    BY <2>1 DEF MayWrite
  <2>4. \A s \in Scope : stage[s] # "gone" => Tells(f, s, k)
    BY <2>2 DEF Tells, Audience
  <2>5. call[<<c, 1>>].pc = "idle" /\ UNCHANGED <<session, stage, cache>>
    BY <1>7 DEF ExpireStart, At
  <2>6. KeyFrame(f)
    BY <2>2 DEF KeyFrame
  <2>7. Become(<<c, 1>>, f)
    BY <2>1 DEF f
  <2> QED BY <1>0, <1>1, <2>1, <2>2, <2>3, <2>4, <2>5, <2>6, <2>7, WriteStep
<1>8. CASE Mutate(c)
  <2>1. PICK o \in Obj : Become(<<c, 1>>, [Idle EXCEPT !.op = "change", !.pc = "change",
                                                       !.todo = subs[o]])
    BY <1>8 DEF Mutate
  <2> DEFINE f == [Idle EXCEPT !.op = "change", !.pc = "change", !.todo = subs[o]]
  <2>2. f.op = "change" /\ f.pc = "change" /\ f.todo = subs[o]
    BY DEF Idle
  <2> HIDE DEF f
  <2>3. ASSUME NEW h \in subs[o] PROVE h[2] = session[h[1]]
    <3>1. h[1] \in Scope /\ h[2] \in Key /\ cache[h[1]].hook = h[2]
      BY DEF Quiet, HandlersFollowCaches
    <3> QED BY <3>1, NullAssumption DEF Quiet, OneKey, KeyCache
  <2>4. KeyFrame(f)
    BY <2>2, <2>3 DEF KeyFrame
  <2>5. Become(<<c, 1>>, f)
    BY <2>1 DEF f
  <2> QED BY <1>2, <1>8, <2>2, <2>4, <2>5 DEF Mutate, At
<1> QED BY <1>4, <1>5, <1>6, <1>7, <1>8 DEF Start

(* A step of a call that only moves its frame on, and tells nobody.        *)
LEMMA MoveOn ==
    ASSUME Quiet, NEW p \in Proc, NEW f, Become(p, f),
           UNCHANGED <<backend, session, stage, cache>>,
           \A s, k : ~Tells(call[p], s, k), KeyFrame(f),
           f.pc \notin {"fill", "persist", "remove", "cache", "notify", "invalidate", "handler"}
    PROVE  OneKey' /\ NoOverlap' /\ Fresh' /\ Coherent'
BY FrameStep DEF FreshFrame, LoadingFrame, WritingFrame

LEMMA ReadQuiet ==
    ASSUME Quiet, NEW p \in Proc,
           ReadCheck(p) \/ ReadEmpty(p) \/ ReadValue(p) \/ Lock(p) \/ LockRefused(p)
    PROVE  OneKey' /\ NoOverlap' /\ Fresh' /\ Coherent'
<1> DEFINE f == call[p]
<1>0. f \in Frame /\ FrameOK(f) /\ KeyFrame(f)
  BY DEF Quiet, Typed, CallTyped, OneKey
<1>1. \A s, k : ~Tells(f, s, k)
  BY DEF Tells, ReadCheck, ReadEmpty, ReadValue, Lock, LockRefused, At
<1>2. KeyFrame(Idle) /\ Idle.pc = "idle"
  BY DEF KeyFrame, Idle
<1>3. CASE ReadCheck(p)
  <2>1. f.op = "read"
    BY <1>0, <1>3 DEF ReadCheck, At, FrameOK
  <2>2. ASSUME NEW pc \in {"value", "empty"}
        PROVE  [f EXCEPT !.pc = pc].pc = pc /\ KeyFrame([f EXCEPT !.pc = pc])
    BY <1>0, <2>1 DEF KeyFrame, Frame
  <2>3. /\ [f EXCEPT !.pc = "lock", !.key = session[f.scope]].pc = "lock"
        /\ KeyFrame([f EXCEPT !.pc = "lock", !.key = session[f.scope]])
    BY <1>0, <2>1 DEF KeyFrame, Frame
  <2> QED BY <1>1, <1>3, <2>2, <2>3, MoveOn DEF ReadCheck, Goto
<1>4. CASE ReadEmpty(p)
  <2> DEFINE g == [f EXCEPT !.pc = "value"]
             e == [value |-> NoObj, loaded |-> TRUE, key |-> NoKey, hook |-> NoKey]
  <2>1. f.op = "read" /\ f.scope \in Scope
    BY <1>0, <1>4 DEF ReadEmpty, At, FrameOK
  <2>2. g.pc = "value" /\ KeyFrame(g)
    BY <1>0, <2>1 DEF KeyFrame, Frame
  <2>3. /\ e.value = NoObj /\ \A k \in Key : e.key # k
        /\ KeyCache(e, session[f.scope])
    BY NullAssumption DEF KeyCache
  <2>4. Become(p, g) /\ cache' = [cache EXCEPT ![f.scope] = e]
        /\ UNCHANGED <<backend, session, stage>>
    BY <1>4 DEF ReadEmpty, Goto, CacheDrop
  <2> HIDE DEF g, e
  <2>5. \A k \in Key : WritingFrame(g, k) => WritingFrame(call[p], k)
    BY <2>2 DEF WritingFrame
  <2>6. g.pc \notin {"fill", "persist"} /\ (g.pc = "remove" => g.scope = f.scope /\ e.value = NoObj)
    BY <2>2
  <2>7. \A k \in Key : stage[f.scope] # "gone" /\ e.loaded /\ e.key = k /\ e.value # backend[k]
                         => Tells(g, f.scope, k)
    BY <2>3
  <2>8. \A t \in Scope \ {f.scope}, k \in Key :
          Tells(call[p], t, k) => Tells(g, t, k) \/ stage[t] = "gone"
    BY <1>1
  <2> QED BY <2>1, <2>2, <2>3, <2>4, <2>5, <2>6, <2>7, <2>8, CacheStep, Zenon
<1>5. CASE ReadValue(p) \/ LockRefused(p)
  BY <1>1, <1>2, <1>5, MoveOn DEF ReadValue, LockRefused
<1>6. CASE Lock(p)
  <2>1. f.op \in {"read", "set", "clear"} /\ f.pc = "lock"
    BY <1>0, <1>6 DEF Lock, At, FrameOK
  <2>2. ASSUME NEW pc \in {"value", "compare", "test", "get"}
        PROVE  [f EXCEPT !.pc = pc].pc = pc /\ KeyFrame([f EXCEPT !.pc = pc])
    BY <1>0, <2>1 DEF KeyFrame, Frame
  <2>3. Loaded(f.op) \in {"value", "compare", "test"}
    BY <2>1 DEF Loaded
  <2> QED BY <1>1, <1>6, <2>2, <2>3, MoveOn DEF Lock, Goto
<1> QED BY <1>3, <1>4, <1>5, <1>6

LEMMA LoadQuiet ==
    ASSUME Quiet, "overlap" \notin Races, "evict" \notin Races,
           NEW p \in Proc, LoadGet(p) \/ LoadFill(p)
    PROVE  OneKey' /\ NoOverlap' /\ Fresh' /\ Coherent'
<1> DEFINE f == call[p]
<1>0. f \in Frame /\ FrameOK(f) /\ KeyFrame(f) /\ FreshFrame(f)
  BY DEF Quiet, Typed, CallTyped, OneKey, Fresh
<1>1. \A s, k : ~Tells(f, s, k)
  BY DEF Tells, LoadGet, LoadFill, At
<1>2. CASE LoadGet(p)
  <2> DEFINE g == [f EXCEPT !.pc = "fill", !.got = backend[f.key]]
  <2>1. /\ ~Writing(f.key) /\ f.pc = "get" /\ f.op \in {"read", "set", "clear"}
        /\ Become(p, g) /\ UNCHANGED <<backend, session, stage, cache>>
    BY <1>0, <1>2 DEF LoadGet, MayLoad, At, FrameOK
  <2>2. /\ g.pc = "fill" /\ g.op = f.op /\ g.key = f.key /\ g.scope = f.scope
        /\ g.got = backend[f.key] /\ g.todo = f.todo
    BY <1>0 DEF Frame
  <2> HIDE DEF g
  <2>3. KeyFrame(g) /\ FreshFrame(g)
    BY <1>0, <2>1, <2>2 DEF KeyFrame, FreshFrame
  <2> QED BY <1>1, <2>1, <2>2, <2>3, FrameStep DEF LoadingFrame, WritingFrame
<1>3. CASE LoadFill(p)
  <2> DEFINE g == [f EXCEPT !.pc = Loaded(f.op), !.got = NoObj]
             hook == IF Track /\ f.got # NoObj THEN f.key ELSE NoKey
             e == [value |-> f.got, loaded |-> TRUE, key |-> f.key, hook |-> hook]
  <2>1. /\ f.pc = "fill" /\ f.op \in {"read", "set", "clear"} /\ f.key \in Key
        /\ f.scope \in Scope /\ Become(p, g)
    BY <1>0, <1>3 DEF LoadFill, At, FrameOK
  <2>2. cache' = [cache EXCEPT ![f.scope] = e] /\ UNCHANGED <<backend, session, stage>>
    BY <1>3, Zenon DEF LoadFill, CacheSet
  <2>3. f.key = session[f.scope] /\ f.got = backend[f.key]
    BY <1>0, <2>1 DEF KeyFrame, FreshFrame
  <2>4. Loaded(f.op) \in {"value", "compare", "test"}
    BY <2>1 DEF Loaded
  <2>5. g.pc = Loaded(f.op) /\ g.op = f.op /\ g.key = f.key /\ g.scope = f.scope /\ g.todo = f.todo
    BY <1>0 DEF Frame
  <2>6. KeyCache(e, session[f.scope])
    BY <2>1, <2>3, NullAssumption DEF KeyCache
  <2>7. e.key = f.key /\ e.value = backend[f.key]
    BY <2>3
  <2> HIDE DEF g, e, hook
  <2>8. KeyFrame(g)
    BY <1>0, <2>1, <2>5 DEF KeyFrame
  <2>9. InsideFrame(f)
    BY <2>1 DEF InsideFrame
  <2>10. \A k \in Key : WritingFrame(g, k) => WritingFrame(call[p], k)
    BY <2>4, <2>5 DEF WritingFrame
  <2>11. g.pc \notin {"fill", "persist"} /\ (g.pc = "remove" => g.scope = f.scope /\ e.value = NoObj)
    BY <2>4, <2>5
  <2>12. \A k \in Key : stage[f.scope] # "gone" /\ e.loaded /\ e.key = k /\ e.value # backend[k]
                          => Tells(g, f.scope, k)
    BY <2>7
  <2>13. \A t \in Scope \ {f.scope}, k \in Key :
           Tells(call[p], t, k) => Tells(g, t, k) \/ stage[t] = "gone"
    BY <1>1
  <2> QED BY <2>1, <2>2, <2>6, <2>8, <2>9, <2>10, <2>11, <2>12, <2>13, CacheStep, Zenon
<1> QED BY <1>2, <1>3

LEMMA SetQuiet ==
    ASSUME Quiet, "overlap" \notin Races, NEW p \in Proc,
           SetCompare(p) \/ SetPut(p) \/ SetCache(p)
    PROVE  OneKey' /\ NoOverlap' /\ Fresh' /\ Coherent'
<1> DEFINE f == call[p]
<1>0. f \in Frame /\ FrameOK(f) /\ KeyFrame(f)
  BY DEF Quiet, Typed, CallTyped, OneKey
<1>1. /\ f.op = "set" /\ f.scope \in Scope /\ f.key \in Key /\ f.value \in Obj
      /\ f.key = session[f.scope]
  BY <1>0 DEF SetCompare, SetPut, SetCache, At, FrameOK, KeyFrame
<1>2. CASE SetCompare(p)
  <2>1. \A s, k : ~Tells(f, s, k)
    BY <1>2 DEF Tells, SetCompare, At
  <2>2. [f EXCEPT !.pc = "put"].pc = "put" /\ KeyFrame([f EXCEPT !.pc = "put"])
    BY <1>0, <1>1 DEF KeyFrame, Frame
  <2>3. Idle.pc = "idle" /\ KeyFrame(Idle)
    BY DEF Idle, KeyFrame
  <2> QED BY <1>2, <2>1, <2>2, <2>3, MoveOn DEF SetCompare, Goto
<1>3. CASE SetPut(p)
  <2> DEFINE g == [f EXCEPT !.pc = "cache"]
  <2>1. /\ ~Loading(f.key) /\ f.pc = "put" /\ Become(p, g)
        /\ backend' = [backend EXCEPT ![f.key] = f.value]
        /\ UNCHANGED <<session, stage, cache>>
    BY <1>3 DEF SetPut, MayWrite, At, Goto
  <2>2. g.pc = "cache" /\ g.op = "set" /\ g.key = f.key /\ g.scope = f.scope
    BY <1>0, <1>1 DEF Frame
  <2> HIDE DEF g
  <2>3. KeyFrame(g)
    BY <1>1, <2>2 DEF KeyFrame
  <2>4. g.pc \notin {"fill", "persist", "remove"}
    BY <2>2
  <2>5. \A s \in Scope, j \in Key : Tells(call[p], s, j) => j = f.key
    BY <2>1 DEF Tells
  <2>6. \A s \in Scope : stage[s] # "gone" => Tells(g, s, f.key)
    BY <2>2 DEF Tells
  <2> QED BY <1>1, <2>1, <2>2, <2>3, <2>4, <2>5, <2>6, WriteStep, Zenon
<1>4. CASE SetCache(p)
  <2> DEFINE g == [f EXCEPT !.pc = "notify", !.todo = Audience(f.key)]
             hook == IF Track /\ f.value # NoObj THEN f.key ELSE NoKey
             e == [value |-> f.value, loaded |-> TRUE, key |-> f.key, hook |-> hook]
  <2>1. f.pc = "cache" /\ Become(p, g) /\ UNCHANGED <<backend, session, stage>>
    BY <1>4 DEF SetCache, At
  <2>2. cache' = [cache EXCEPT ![f.scope] = e]
    BY <1>4, Zenon DEF SetCache, CacheSet
  <2>3. /\ g.pc = "notify" /\ g.op = "set" /\ g.key = f.key /\ g.scope = f.scope
        /\ g.todo = Audience(f.key)
    BY <1>0, <1>1 DEF Frame
  <2>4. KeyCache(e, session[f.scope]) /\ e.key = f.key
    BY <1>1, NullAssumption DEF KeyCache
  <2> HIDE DEF g, e, hook
  <2>5. KeyFrame(g)
    BY <1>1, <2>3 DEF KeyFrame
  <2>6. InsideFrame(call[p]) /\ call[p].scope = f.scope
    BY <2>1 DEF InsideFrame
  <2>7. g.pc \notin {"fill", "persist"} /\ (g.pc = "remove" => g.scope = f.scope /\ e.value = NoObj)
    BY <2>3
  <2>8. \A k \in Key : WritingFrame(g, k) => WritingFrame(call[p], k)
    BY <1>1, <2>1, <2>3 DEF WritingFrame
  <2>9. \A s \in Scope : stage[s] # "gone" => Tells(g, s, f.key)
    BY <2>3 DEF Tells, Audience
  <2>10. \A k \in Key : stage[f.scope] # "gone" /\ e.loaded /\ e.key = k /\ e.value # backend[k]
                          => Tells(g, f.scope, k)
    BY <1>1, <2>4, <2>9
  <2>11. \A t \in Scope \ {f.scope}, k \in Key :
           Tells(call[p], t, k) => Tells(g, t, k) \/ stage[t] = "gone"
    <3>1. \A t \in Scope, k \in Key : Tells(call[p], t, k) => k = f.key
      BY DEF Tells
    <3> QED BY <2>9, <3>1
  <2> QED BY <1>1, <2>1, <2>2, <2>4, <2>5, <2>6, <2>7, <2>8, <2>10, <2>11, CacheStep, Zenon
<1> QED BY <1>2, <1>3, <1>4

LEMMA ClearQuiet ==
    ASSUME Quiet, "overlap" \notin Races, NEW p \in Proc,
           ClearTest(p) \/ ClearCache(p) \/ ClearRemove(p)
    PROVE  OneKey' /\ NoOverlap' /\ Fresh' /\ Coherent'
<1> DEFINE f == call[p]
<1>0. f \in Frame /\ FrameOK(f) /\ KeyFrame(f)
  BY DEF Quiet, Typed, CallTyped, OneKey
<1>1. f.op = "clear" /\ f.scope \in Scope /\ f.key \in Key /\ f.key = session[f.scope]
  BY <1>0 DEF ClearTest, ClearCache, ClearRemove, At, FrameOK, KeyFrame
<1>2. CASE ClearTest(p)
  <2>1. \A s, k : ~Tells(f, s, k)
    BY <1>2 DEF Tells, ClearTest, At
  <2>2. [f EXCEPT !.pc = "clear"].pc = "clear" /\ KeyFrame([f EXCEPT !.pc = "clear"])
    BY <1>0, <1>1 DEF KeyFrame, Frame
  <2>3. Idle.pc = "idle" /\ KeyFrame(Idle)
    BY DEF Idle, KeyFrame
  <2> QED BY <1>2, <2>1, <2>2, <2>3, MoveOn DEF ClearTest, Goto
<1>3. CASE ClearCache(p)
  <2> DEFINE g == [f EXCEPT !.pc = "remove"]
             e == [value |-> NoObj, loaded |-> TRUE, key |-> cache[f.scope].key, hook |-> NoKey]
  <2>1. /\ f.pc = "clear" /\ Become(p, g) /\ UNCHANGED <<backend, session, stage>>
        /\ cache' = [cache EXCEPT ![f.scope] = e]
    BY <1>3 DEF ClearCache, At, Goto, CacheDrop, Mine
  <2>2. g.pc = "remove" /\ g.op = "clear" /\ g.key = f.key /\ g.scope = f.scope
    BY <1>0, <1>1 DEF Frame
  <2>3. cache[f.scope].key \in {NoKey, f.key}
    BY <1>1 DEF Quiet, OneKey, KeyCache
  <2>4. KeyCache(e, session[f.scope]) /\ e.value = NoObj /\ e.key \in {NoKey, f.key}
    BY <1>1, <2>3 DEF KeyCache
  <2> HIDE DEF g, e
  <2>5. KeyFrame(g)
    BY <1>1, <2>2 DEF KeyFrame
  <2>6. g.pc \notin {"fill", "persist"} /\ (g.pc = "remove" => g.scope = f.scope /\ e.value = NoObj)
    BY <2>2, <2>4
  <2>7. \A k \in Key : WritingFrame(g, k) => WritingFrame(call[p], k)
    BY <2>2 DEF WritingFrame
  <2>8. \A k \in Key : stage[f.scope] # "gone" /\ e.loaded /\ e.key = k /\ e.value # backend[k]
                         => Tells(g, f.scope, k)
    BY <2>2, <2>4, NullAssumption DEF Tells
  <2>9. \A t \in Scope \ {f.scope}, k \in Key :
          Tells(call[p], t, k) => Tells(g, t, k) \/ stage[t] = "gone"
    BY <2>1 DEF Tells
  <2> QED BY <1>1, <2>1, <2>4, <2>5, <2>6, <2>7, <2>8, <2>9, CacheStep, Zenon
<1>4. CASE ClearRemove(p)
  <2> DEFINE g == [f EXCEPT !.pc = "notify", !.todo = Audience(f.key)]
  <2>1. /\ ~Loading(f.key) /\ f.pc = "remove" /\ Become(p, g)
        /\ backend' = [backend EXCEPT ![f.key] = NoObj]
        /\ UNCHANGED <<session, stage, cache>>
    BY <1>4 DEF ClearRemove, MayWrite, At
  <2>2. /\ g.pc = "notify" /\ g.op = "clear" /\ g.key = f.key /\ g.scope = f.scope
        /\ g.todo = Audience(f.key)
    BY <1>0, <1>1 DEF Frame
  <2> HIDE DEF g
  <2>3. KeyFrame(g)
    BY <1>1, <2>2 DEF KeyFrame
  <2>4. g.pc \notin {"fill", "persist", "remove"}
    BY <2>2
  <2>5. \A s \in Scope, j \in Key : Tells(call[p], s, j) => j = f.key
    BY <2>1 DEF Tells
  <2>6. \A s \in Scope : stage[s] # "gone" => Tells(g, s, f.key)
    BY <2>2 DEF Tells, Audience
  <2> QED BY <1>1, <2>1, <2>2, <2>3, <2>4, <2>5, <2>6, WriteStep, Zenon
<1> QED BY <1>2, <1>3, <1>4

(* Event dispatch: a cache that is passed over is of another key or gone.  *)
LEMMA NotifyQuiet ==
    ASSUME Quiet, NEW p \in Proc,
           Notify(p) \/ Invalidate(p) \/ HandlerReturn(p) \/ NotifyEnd(p)
    PROVE  OneKey' /\ NoOverlap' /\ Fresh' /\ Coherent'
<1> DEFINE f == call[p]
<1>0. f \in Frame /\ FrameOK(f) /\ KeyFrame(f)
  BY DEF Quiet, Typed, CallTyped, OneKey
<1>1. f.op \in {"set", "clear", "expire"} /\ f.key \in Key
  BY <1>0 DEF Notify, Invalidate, HandlerReturn, NotifyEnd, At, FrameOK
<1>2. ASSUME NEW g, Become(p, g), UNCHANGED <<backend, session, stage, cache>>,
             g.pc \in {"notify", "invalidate", "handler"}, g.op = f.op, g.key = f.key,
             g.scope = f.scope, f.pc \in {"notify", "invalidate", "handler"},
             \A s \in Scope, k \in Key :
               Tells(f, s, k) => Tells(g, s, k) \/ stage[s] = "gone" \/ cache[s].key # k
      PROVE  OneKey' /\ NoOverlap' /\ Fresh' /\ Coherent'
  <2>1. KeyFrame(g)
    BY <1>0, <1>1, <1>2 DEF KeyFrame
  <2>2. FreshFrame(g)
    BY <1>2 DEF FreshFrame
  <2>3. \A k \in Key : LoadingFrame(g, k) => LoadingFrame(call[p], k) \/ ~Writing(k)
    BY <1>2 DEF LoadingFrame
  <2>4. \A k \in Key : WritingFrame(g, k) => WritingFrame(call[p], k)
    BY <1>1, <1>2 DEF WritingFrame
  <2> QED BY <1>2, <2>1, <2>2, <2>3, <2>4, FrameStep, Zenon
<1>3. CASE Notify(p)
  <2>1. PICK e \in f.todo :
          IF stage[e[1]] # "gone" /\ cache[e[1]].key = e[2]
          THEN Become(p, [f EXCEPT !.pc = "invalidate", !.peer = e[1], !.todo = @ \ {e}])
          ELSE Become(p, [f EXCEPT !.todo = @ \ {e}])
    BY <1>3 DEF Notify
  <2>2. f.pc = "notify" /\ UNCHANGED <<backend, session, stage, cache>>
    BY <1>3 DEF Notify, At
  <2>3. CASE stage[e[1]] # "gone" /\ cache[e[1]].key = e[2]
    <3> DEFINE g == [f EXCEPT !.pc = "invalidate", !.peer = e[1], !.todo = @ \ {e}]
    <3>1. /\ g.pc = "invalidate" /\ g.op = f.op /\ g.key = f.key /\ g.scope = f.scope
          /\ g.peer = e[1] /\ g.todo = f.todo \ {e}
      BY <1>0 DEF Frame
    <3>2. Become(p, g)
      BY <2>1, <2>3
    <3> HIDE DEF g
    <3>3. \A s \in Scope, k \in Key : Tells(f, s, k) => Tells(g, s, k)
      BY <2>2, <3>1 DEF Tells
    <3> QED BY <1>2, <2>2, <3>1, <3>2, <3>3
  <2>4. CASE ~(stage[e[1]] # "gone" /\ cache[e[1]].key = e[2])
    <3> DEFINE g == [f EXCEPT !.todo = @ \ {e}]
    <3>1. /\ g.pc = "notify" /\ g.op = f.op /\ g.key = f.key /\ g.scope = f.scope
          /\ g.todo = f.todo \ {e}
      BY <1>0, <2>2 DEF Frame
    <3>2. Become(p, g)
      BY <2>1, <2>4
    <3> HIDE DEF g
    <3>3. \A s \in Scope, k \in Key :
            Tells(f, s, k) => Tells(g, s, k) \/ stage[s] = "gone" \/ cache[s].key # k
      BY <2>2, <2>4, <3>1 DEF Tells
    <3> QED BY <1>2, <2>2, <3>1, <3>2, <3>3
  <2> QED BY <2>3, <2>4
<1>4. CASE Invalidate(p)
  <2>1. f.pc = "invalidate" /\ f.peer \in Scope /\ UNCHANGED <<backend, session, stage>>
    BY <1>0, <1>4 DEF Invalidate, At, FrameOK
  <2> DEFINE d == f.peer
             e == [value |-> NoObj, loaded |-> FALSE, key |-> cache[d].key, hook |-> NoKey]
  <2>2. cache' = [cache EXCEPT ![d] = e]
    BY <1>4 DEF Invalidate, CacheDrop
  <2>3. KeyCache(e, session[d]) /\ e.value = NoObj /\ ~e.loaded
    BY <2>1 DEF Quiet, OneKey, KeyCache
  <2> HIDE DEF e
  <2>4. ASSUME NEW g \in {[f EXCEPT !.pc = "handler"],
                          [f EXCEPT !.pc = "notify", !.peer = NoScope]}, Become(p, g)
        PROVE  OneKey' /\ NoOverlap' /\ Fresh' /\ Coherent'
    <3>1. /\ g.pc \in {"handler", "notify"} /\ g.op = f.op /\ g.key = f.key
          /\ g.scope = f.scope /\ g.todo = f.todo
      BY <1>0 DEF Frame
    <3>2. KeyFrame(g)
      BY <1>0, <1>1, <3>1 DEF KeyFrame
    <3>3. g.pc \notin {"fill", "persist"} /\ (g.pc = "remove" => g.scope = d /\ e.value = NoObj)
      BY <3>1
    <3>4. \A k \in Key : WritingFrame(g, k) => WritingFrame(call[p], k)
      BY <2>1, <3>1 DEF WritingFrame
    <3>5. \A k \in Key : stage[d] # "gone" /\ e.loaded /\ e.key = k /\ e.value # backend[k]
                           => Tells(g, d, k)
      BY <2>3
    <3>6. \A t \in Scope \ {d}, k \in Key :
            Tells(call[p], t, k) => Tells(g, t, k) \/ stage[t] = "gone"
      BY <2>1, <3>1 DEF Tells
    <3> QED BY <2>1, <2>2, <2>3, <2>4, <3>2, <3>3, <3>4, <3>5, <3>6, CacheStep, Zenon
  <2> QED BY <1>4, <2>4 DEF Invalidate, Goto
<1>5. CASE HandlerReturn(p)
  <2> DEFINE g == [f EXCEPT !.pc = "notify", !.peer = NoScope]
  <2>1. /\ f.pc = "handler" /\ Become(p, g) /\ UNCHANGED <<backend, session, stage, cache>>
    BY <1>5 DEF HandlerReturn, At
  <2>2. /\ g.pc = "notify" /\ g.op = f.op /\ g.key = f.key /\ g.scope = f.scope
        /\ g.todo = f.todo
    BY <1>0 DEF Frame
  <2> HIDE DEF g
  <2>3. \A s \in Scope, k \in Key : Tells(f, s, k) => Tells(g, s, k)
    BY <2>1, <2>2 DEF Tells
  <2> QED BY <1>2, <2>1, <2>2, <2>3
<1>6. CASE NotifyEnd(p)
  <2>1. /\ f.pc = "notify" /\ f.todo = {} /\ Become(p, Idle)
        /\ UNCHANGED <<backend, session, stage, cache>>
    BY <1>6 DEF NotifyEnd, At
  <2>2. \A s, k : ~Tells(f, s, k)
    BY <2>1 DEF Tells
  <2>3. Idle.pc = "idle" /\ KeyFrame(Idle)
    BY DEF Idle, KeyFrame
  <2> QED BY <2>1, <2>2, <2>3, MoveOn
<1> QED BY <1>3, <1>4, <1>5, <1>6

(* Auto-persist writes back what the backend has already: what a cache     *)
(* holds is what the backend holds, when nobody is writing.                *)
LEMMA ChangeQuiet ==
    ASSUME Quiet, "overlap" \notin Races, NEW p \in Proc,
           Change(p) \/ Persist(p) \/ ChangeEnd(p)
    PROVE  OneKey' /\ NoOverlap' /\ Fresh' /\ Coherent'
<1> DEFINE f == call[p]
<1>0. f \in Frame /\ FrameOK(f) /\ KeyFrame(f) /\ FreshFrame(f)
  BY DEF Quiet, Typed, CallTyped, OneKey, Fresh
<1>1. f.op = "change" /\ \A s, k : ~Tells(f, s, k)
  BY <1>0 DEF Change, Persist, ChangeEnd, At, FrameOK, Tells
<1>2. \A e \in f.todo : e[1] \in Scope /\ e[2] \in Key /\ e[2] = session[e[1]]
  BY <1>0, <1>1 DEF KeyFrame, Frame
<1>3. CASE Change(p)
  <2>1. PICK e \in f.todo :
          \/ /\ stage[e[1]] = "live" /\ cache[e[1]].value # NoObj /\ MayLoad(e[2])
             /\ Become(p, [[f EXCEPT !.todo = @ \ {e}] EXCEPT !.pc = "persist",
                             !.key = e[2], !.value = cache[e[1]].value])
          \/ Become(p, [f EXCEPT !.todo = @ \ {e}])
    BY <1>3 DEF Change
  <2>2. f.pc = "change" /\ UNCHANGED <<backend, session, stage, cache>>
    BY <1>3 DEF Change, At
  <2>3. CASE Become(p, [f EXCEPT !.todo = @ \ {e}])
    <3> DEFINE g == [f EXCEPT !.todo = @ \ {e}]
    <3>1. g.pc = "change" /\ g.op = "change" /\ g.todo = f.todo \ {e}
      BY <1>0, <1>1, <2>2 DEF Frame
    <3>2. Become(p, g)
      BY <2>3
    <3> HIDE DEF g
    <3>3. KeyFrame(g)
      BY <1>2, <3>1 DEF KeyFrame
    <3> QED BY <1>1, <2>2, <3>1, <3>2, <3>3, MoveOn
  <2>4. CASE /\ stage[e[1]] = "live" /\ cache[e[1]].value # NoObj /\ MayLoad(e[2])
             /\ Become(p, [[f EXCEPT !.todo = @ \ {e}] EXCEPT !.pc = "persist",
                             !.key = e[2], !.value = cache[e[1]].value])
    <3> DEFINE g == [[f EXCEPT !.todo = @ \ {e}] EXCEPT !.pc = "persist",
                       !.key = e[2], !.value = cache[e[1]].value]
               v == cache[e[1]].value
    <3>1. /\ g.pc = "persist" /\ g.op = "change" /\ g.todo = f.todo \ {e}
          /\ g.key = e[2] /\ g.value = v
      BY <1>0, <1>1 DEF Frame
    <3>2. Become(p, g)
      BY <2>4
    <3> HIDE DEF g
    <3>3. ~Writing(e[2])
      BY <2>4 DEF MayLoad
    <3>4. cache[e[1]].loaded /\ cache[e[1]].key = e[2]
      BY <1>2, <2>4 DEF Quiet, OneKey, KeyCache
    <3>5. ASSUME NEW q \in Proc PROVE ~Tells(call[q], e[1], e[2])
      <4>1. FrameOK(call[q]) /\ FreshFrame(call[q])
        BY DEF Quiet, Typed, CallTyped, Fresh
      <4>2. ~WritingFrame(call[q], e[2])
        BY <3>3, FramesSay
      <4> QED BY <2>4, <4>1, <4>2 DEF Tells, WritingFrame, FrameOK, FreshFrame
    <3>6. v = backend[e[2]]
      BY <1>2, <2>4, <3>4, <3>5, FramesSay DEF Quiet, Coherent
    <3>7. KeyFrame(g)
      BY <1>2, <3>1 DEF KeyFrame
    <3>8. FreshFrame(g)
      BY <3>1, <3>6 DEF FreshFrame
    <3>9. \A k \in Key : LoadingFrame(g, k) => LoadingFrame(call[p], k) \/ ~Writing(k)
      BY <3>1, <3>3 DEF LoadingFrame
    <3>10. \A k \in Key : WritingFrame(g, k) => WritingFrame(call[p], k)
      BY <3>1 DEF WritingFrame
    <3>11. \A s \in Scope, k \in Key :
             Tells(call[p], s, k) => Tells(g, s, k) \/ stage[s] = "gone" \/ cache[s].key # k
      BY <1>1
    <3> QED BY <2>2, <3>2, <3>7, <3>8, <3>9, <3>10, <3>11, FrameStep, Zenon
  <2> QED BY <2>1, <2>3, <2>4
<1>4. CASE Persist(p)
  <2> DEFINE g == [f EXCEPT !.pc = "change", !.key = NoKey, !.value = NoObj]
  <2>1. /\ f.pc = "persist" /\ f.key \in Key /\ f.value = backend[f.key]
        /\ backend' = [backend EXCEPT ![f.key] = f.value] /\ Become(p, g)
        /\ UNCHANGED <<session, stage, cache>>
    BY <1>0, <1>4 DEF Persist, At, FrameOK, FreshFrame
  <2>2. UNCHANGED <<backend, session, stage, cache>>
    BY <2>1 DEF Quiet, Typed, StateTyped
  <2>3. g.pc = "change" /\ g.op = "change" /\ g.todo = f.todo
    BY <1>0, <1>1 DEF Frame
  <2> HIDE DEF g
  <2>4. KeyFrame(g)
    BY <1>2, <2>3 DEF KeyFrame
  <2> QED BY <1>1, <2>1, <2>2, <2>3, <2>4, MoveOn
<1>5. CASE ChangeEnd(p)
  <2>1. Idle.pc = "idle" /\ KeyFrame(Idle)
    BY DEF Idle, KeyFrame
  <2> QED BY <1>1, <1>5, <2>1, MoveOn DEF ChangeEnd
<1> QED BY <1>3, <1>4, <1>5

LEMMA EnvironmentQuiet ==
    ASSUME Quiet, "rekey" \notin Races, NEW s \in Scope, Environment(s)
    PROVE  OneKey' /\ NoOverlap' /\ Fresh' /\ Coherent'
<1>1. CASE SessionChanges(s)
  <2>1. session[s] = NoKey /\ UNCHANGED <<backend, stage, cache, call>>
    BY <1>1 DEF SessionChanges
  <2>2. \A t \in Scope \ {s} : session'[t] = session[t]
    BY <1>1 DEF SessionChanges, Quiet, Typed, StateTyped
  <2>3. ASSUME NEW t \in Scope PROVE KeyCache(cache[t], session'[t])
    BY <2>1, <2>2 DEF Quiet, OneKey, KeyCache
  <2>4. ASSUME NEW p \in Proc PROVE KeyFrame(call[p])'
    <3>1. call[p] \in Frame /\ FrameOK(call[p]) /\ KeyFrame(call[p])
      BY DEF Quiet, Typed, CallTyped, OneKey
    <3>2. ASSUME call[p].pc \in {"lock", "get", "fill"} \/ call[p].op \in {"set", "clear"}
          PROVE  call[p].key = session'[call[p].scope]
      <4>1. call[p].key \in Key /\ call[p].scope \in Scope
        BY <3>1, <3>2 DEF FrameOK
      <4> QED BY <2>1, <2>2, <3>1, <3>2, <4>1, NullAssumption DEF KeyFrame
    <3>3. ASSUME call[p].op = "change", NEW e \in call[p].todo
          PROVE  e[2] = session'[e[1]]
      <4>1. e[1] \in Scope /\ e[2] \in Key
        BY <3>1 DEF Frame
      <4> QED BY <2>1, <2>2, <3>1, <3>3, <4>1, NullAssumption DEF KeyFrame
    <3> QED BY <2>1, <3>2, <3>3 DEF KeyFrame
  <2>5. OneKey'
    BY <2>1, <2>3, <2>4 DEF OneKey
  <2>6. NoOverlap' /\ Fresh' /\ Coherent'
    BY <2>1 DEF Quiet, NoOverlap, Fresh, FreshFrame, Coherent, StillToTell
  <2> QED BY <2>5, <2>6
<1>2. CASE DisposeState(s)
  <2>1. /\ UNCHANGED <<backend, session, cache, call>>
        /\ \A t \in Scope : stage'[t] # "gone" => stage[t] # "gone"
    BY <1>2 DEF DisposeState, Quiet, Typed, StateTyped
  <2>2. OneKey' /\ NoOverlap' /\ Fresh'
    BY <2>1 DEF Quiet, OneKey, KeyFrame, NoOverlap, Fresh, FreshFrame
  <2>3. Coherent'
    BY <2>1 DEF Quiet, Coherent, StillToTell
  <2> QED BY <2>2, <2>3
<1>3. CASE DisposeCache(s)
  <2>1. /\ UNCHANGED <<backend, session, call>>
        /\ stage' = [stage EXCEPT ![s] = "gone"]
        /\ cache' = [cache EXCEPT ![s] = [cache[s] EXCEPT !.hook = NoKey]]
    BY <1>3 DEF DisposeCache
  <2>2. ASSUME NEW t \in Scope
        PROVE  /\ cache'[t].value = cache[t].value /\ cache'[t].loaded = cache[t].loaded
               /\ cache'[t].key = cache[t].key /\ cache'[t].hook \in {NoKey, cache[t].hook}
    BY <2>1 DEF Quiet, Typed, StateTyped, Cache
  <2>3. \A t \in Scope : stage'[t] # "gone" => stage[t] # "gone"
    BY <2>1 DEF Quiet, Typed, StateTyped
  <2>4. OneKey'
    BY <2>1, <2>2 DEF Quiet, OneKey, KeyFrame, KeyCache
  <2>5. Fresh'
    <3>1. ASSUME NEW p \in Proc PROVE FreshFrame(call[p])'
      <4>1. FreshFrame(call[p]) /\ FrameOK(call[p])
        BY DEF Quiet, Typed, CallTyped, Fresh
      <4>2. call[p].pc = "remove" => call[p].scope \in Scope
        BY <4>1 DEF FrameOK
      <4> QED BY <2>1, <2>2, <4>1, <4>2 DEF FreshFrame
    <3> QED BY <3>1 DEF Fresh
  <2>6. NoOverlap'
    BY <2>1 DEF Quiet, NoOverlap
  <2>7. Coherent'
    BY <2>1, <2>2, <2>3 DEF Quiet, Coherent, StillToTell
  <2> QED BY <2>4, <2>5, <2>6, <2>7
<1> QED BY <1>1, <1>2, <1>3 DEF Environment

LEMMA QuietKept ==
    ASSUME "overlap" \notin Races, "evict" \notin Races, "rekey" \notin Races,
           Quiet, [Next]_vars
    PROVE  Quiet'
<1>1. Typed' /\ LockMeansInside' /\ HandlersFollowCaches'
  BY TypedKept, LockKept, HandlersKept DEF Quiet
<1>2. ASSUME NEW c \in Call, Start(c) \/ HandlerRead(c)
      PROVE  OneKey' /\ NoOverlap' /\ Fresh' /\ Coherent'
  BY <1>2, StartQuiet
<1>3. ASSUME NEW p \in Proc, Continue(p) \/ LockRefused(p)
      PROVE  OneKey' /\ NoOverlap' /\ Fresh' /\ Coherent'
  BY <1>3, ReadQuiet, LoadQuiet, SetQuiet, ClearQuiet, NotifyQuiet, ChangeQuiet DEF Continue
<1>4. ASSUME NEW s \in Scope, Environment(s)
      PROVE  OneKey' /\ NoOverlap' /\ Fresh' /\ Coherent'
  BY <1>4, EnvironmentQuiet
<1>5. ASSUME UNCHANGED vars PROVE OneKey' /\ NoOverlap' /\ Fresh' /\ Coherent'
  BY <1>5 DEF vars, Quiet, OneKey, KeyFrame, NoOverlap, Fresh, FreshFrame, Coherent,
              StillToTell
<1>6. OneKey' /\ NoOverlap' /\ Fresh' /\ Coherent'
  BY <1>2, <1>3, <1>4, <1>5 DEF Next
<1> QED BY <1>1, <1>6 DEF Quiet

LEMMA QuietInit == Init => Quiet
<1> SUFFICES ASSUME Init PROVE Quiet
  OBVIOUS
<1>1. Typed /\ LockMeansInside /\ HandlersFollowCaches
  BY TypedInit, LockInit, HandlersInit
<1>2. \A p \in Proc : call[p] = Idle
  BY DEF Init
<1>3. OneKey
  BY <1>2 DEF Init, OneKey, KeyCache, KeyFrame, Idle
<1>4. NoOverlap /\ Fresh
  BY <1>2 DEF NoOverlap, LoadingFrame, Fresh, FreshFrame, Idle
<1>5. Coherent
  BY DEF Init, Coherent
<1> QED BY <1>1, <1>3, <1>4, <1>5 DEF Quiet

(* When loads do not overlap writes, no load finds an expired entry and    *)
(* scopes keep their keys, no cache goes on serving a value that the       *)
(* backend no longer has, for any number of scopes and threads, with       *)
(* handlers that read the state and scopes that end at any time.           *)
THEOREM CachesAreCoherent ==
    ASSUME "overlap" \notin Races, "evict" \notin Races, "rekey" \notin Races
    PROVE  Spec => []Coherent
<1>1. Quiet /\ [Next]_vars => Quiet'
  BY QuietKept
<1>2. Quiet => Coherent
  BY DEF Quiet
<1> QED BY <1>1, <1>2, QuietInit, PTL DEF Spec
=============================================================================
