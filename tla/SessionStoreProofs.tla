------------------------- MODULE SessionStoreProofs -------------------------
(***************************************************************************)
(* Proofs about SessionStore, for every set of keys, types, values and     *)
(* threads, every clock bound and all expiration limits.                   *)
(***************************************************************************)
EXTENDS SessionStore, TLAPS

-----------------------------------------------------------------------------
(* The locals a method has set by the time it reaches a label.             *)
HasSlot == {"get.read", "get.check", "get.evict", "get.touch", "set.read",
            "set.write", "refresh.read", "refresh.touch", "sweep.remove",
            "migrate.put"}
HasSeen == {"get.check", "get.touch", "refresh.touch", "sweep.remove",
            "migrate.put"}

FrameOK(f) ==
    /\ f \in Frame
    /\ f.pc \in HasSlot => f.slot \in Slot
    /\ f.pc \in HasSeen => f.seen \in Entry
    /\ f.pc \in {"set.read", "set.write"} => f.value \in Value
    /\ f.pc \in {"migrate.take", "migrate.put"} => f.dest \in Key
    /\ f.pc = "sweep.remove" => Expired(f.seen, f.slot[2], f.at)
    /\ f.pc \in {"get.touch", "refresh.touch"} => ~Expired(f.seen, f.slot[2], f.at)

Typed ==
    /\ store \in [Slot -> Entry \cup {NoEntry}]
    /\ now \in Time
    /\ call \in [Call -> Frame]
    /\ \A c \in Call : FrameOK(call[c])

LEMMA IdleOK == FrameOK(Idle)
<1>1. /\ NoSlot \in Slot \cup {NoSlot}
      /\ NoValue \in Value \cup {NoValue}
      /\ NoEntry \in Entry \cup {NoEntry}
      /\ NoKey \in Key \cup {NoKey}
      /\ {} \in SUBSET Slot
      /\ "idle" \in Pc
      /\ 0 \in Time
  BY MaxTimeAssumption DEF Pc, Time
<1> QED BY <1>1 DEF Idle, Frame, FrameOK, HasSlot, HasSeen

(* What a step may do to the store and to its thread, types aside.         *)
LEMMA BecomeOK ==
    ASSUME Typed, NEW c \in Call, NEW f, FrameOK(f), Become(c, f)
    PROVE  call' \in [Call -> Frame] /\ \A d \in Call : FrameOK(call'[d])
<1>1. f \in Frame
  BY DEF FrameOK
<1>2. call' = [call EXCEPT ![c] = f] /\ call \in [Call -> Frame]
  BY DEF Become, Typed
<1>3. ASSUME NEW d \in Call PROVE FrameOK(call'[d])
  <2>1. CASE d = c BY <1>2, <2>1
  <2>2. CASE d # c BY <1>2, <2>2 DEF Typed
  <2> QED BY <2>1, <2>2
<1> QED BY <1>1, <1>2, <1>3

LEMMA StepOK ==
    ASSUME Typed, NEW c \in Call, NEW f, FrameOK(f), Become(c, f),
           store' = store \/ \E s \in Slot, e \in Entry \cup {NoEntry} : Put(s, e),
           now' = now
    PROVE  Typed'
<1>1. store' \in [Slot -> Entry \cup {NoEntry}]
  BY DEF Typed, Put
<1> QED BY <1>1, BecomeOK DEF Typed

-----------------------------------------------------------------------------
(* An allocated object is well formed and nothing referred to its id.      *)
LEMMA NewRefFresh ==
    ASSUME CanAllocate
    PROVE  NewRef \in Ref /\ NewRef \notin Used
BY DEF CanAllocate, NewRef

LEMMA TouchedEntry ==
    ASSUME CanAllocate, NEW e \in Entry, NEW t \in Time
    PROVE  WithLastAccessed(e, t) \in Entry
BY NewRefFresh DEF WithLastAccessed, Entry

LEMMA WrittenEntry ==
    ASSUME CanAllocate, NEW f \in Frame, f.value \in Value
    PROVE  NewEntry(f) \in Entry
BY NewRefFresh DEF NewEntry, Entry, Frame

LEMMA GetTyped ==
    ASSUME Typed, NEW c \in Call,
           \/ GetStart(c) \/ GetRead(c) \/ GetCheck(c) \/ GetEvict(c)
           \/ GetTouch(c) \/ GetRetry(c)
    PROVE  Typed'
<1> DEFINE f == call[c]
<1>0. f \in Frame /\ FrameOK(f) /\ f.seen \in Entry \cup {NoEntry} /\ f.at \in Time
  BY DEF Typed, Frame
<1>1. CASE GetStart(c)
  <2>1. PICK s \in Slot : Become(c, [Idle EXCEPT !.pc = "get.read", !.slot = s])
    BY <1>1 DEF GetStart
  <2>2. FrameOK([Idle EXCEPT !.pc = "get.read", !.slot = s])
    BY IdleOK DEF FrameOK, Frame, Pc, HasSlot, HasSeen
  <2> QED BY <1>1, <2>1, <2>2, StepOK DEF GetStart
<1>2. CASE GetRead(c)
  <2>1. f.slot \in Slot
    BY <1>0, <1>2 DEF GetRead, At, FrameOK, HasSlot
  <2>2. store[f.slot] # NoEntry =>
          FrameOK([f EXCEPT !.pc = "get.check", !.seen = store[f.slot]])
    <3>1. store[f.slot] \in Entry \cup {NoEntry}
      BY <2>1 DEF Typed
    <3> QED BY <1>0, <2>1, <3>1 DEF FrameOK, Frame, Pc, HasSlot, HasSeen
  <2> QED BY <1>2, <2>2, IdleOK, StepOK DEF GetRead
<1>3. CASE GetCheck(c)
  <2>1. f.slot \in Slot /\ f.seen \in Entry /\ now \in Time
    BY <1>0, <1>3 DEF GetCheck, At, FrameOK, HasSlot, HasSeen, Typed
  <2>2. FrameOK([f EXCEPT !.pc = "get.evict", !.seen = NoEntry])
    BY <1>0, <2>1 DEF FrameOK, Frame, Pc, HasSlot, HasSeen
  <2>3. ~Expired(f.seen, f.slot[2], now)
          => FrameOK([f EXCEPT !.pc = "get.touch", !.at = now])
    BY <1>0, <2>1 DEF FrameOK, Frame, Pc, HasSlot, HasSeen
  <2> QED BY <1>3, <2>2, <2>3, StepOK DEF GetCheck
<1>4. CASE GetEvict(c)
  BY <1>4, <1>0, StepOK, IdleOK DEF GetEvict, At, FrameOK, HasSlot
<1>5. CASE GetTouch(c)
  <2>1. f.slot \in Slot /\ f.seen \in Entry
    BY <1>0, <1>5 DEF GetTouch, At, FrameOK, HasSlot, HasSeen
  <2> QED BY <1>5, <1>0, <2>1, TouchedEntry, StepOK, IdleOK DEF GetTouch
<1>6. CASE GetRetry(c)
  <2>1. f.slot \in Slot
    BY <1>0, <1>6 DEF GetRetry, At, FrameOK, HasSlot
  <2>2. FrameOK([Idle EXCEPT !.pc = "get.read", !.slot = f.slot])
    BY IdleOK, <2>1 DEF FrameOK, Frame, Pc, HasSlot, HasSeen
  <2> QED BY <1>6, <2>2, StepOK DEF GetRetry
<1> QED BY <1>1, <1>2, <1>3, <1>4, <1>5, <1>6

LEMMA SetTyped ==
    ASSUME Typed, NEW c \in Call,
           \/ SetStart(c) \/ SetRead(c) \/ SetWrite(c) \/ SetRetry(c)
    PROVE  Typed'
<1> DEFINE f == call[c]
<1>0. f \in Frame /\ FrameOK(f) /\ now \in Time
  BY DEF Typed, Frame
<1>1. CASE SetStart(c)
  <2>1. PICK s \in Slot, v \in Value :
          Become(c, [Idle EXCEPT !.pc = "set.read", !.slot = s, !.value = v, !.at = now])
    BY <1>1 DEF SetStart
  <2>2. FrameOK([Idle EXCEPT !.pc = "set.read", !.slot = s, !.value = v, !.at = now])
    <3>1. Idle \in Frame /\ now \in Time
      BY <1>0, IdleOK DEF FrameOK
    <3> QED BY <3>1 DEF FrameOK, Frame, Pc, HasSlot, HasSeen
  <2> QED BY <1>1, <2>1, <2>2, StepOK DEF SetStart
<1>2. CASE SetRead(c)
  <2>1. f.slot \in Slot /\ f.value \in Value
    BY <1>0, <1>2 DEF SetRead, At, FrameOK, HasSlot
  <2>2. store[f.slot] \in Entry \cup {NoEntry}
    BY <2>1 DEF Typed
  <2>3. FrameOK([f EXCEPT !.pc = "set.write", !.seen = store[f.slot]])
    BY <1>0, <2>1, <2>2 DEF FrameOK, Frame, Pc, HasSlot, HasSeen
  <2> QED BY <1>2, <2>3, StepOK DEF SetRead
<1>3. CASE SetWrite(c)
  <2>1. f.slot \in Slot /\ f.value \in Value
    BY <1>0, <1>3 DEF SetWrite, At, FrameOK, HasSlot
  <2> QED BY <1>0, <1>3, <2>1, WrittenEntry, StepOK, IdleOK DEF SetWrite
<1>4. CASE SetRetry(c)
  <2>1. f.slot \in Slot /\ f.value \in Value
    BY <1>0, <1>4 DEF SetRetry, At, FrameOK, HasSlot
  <2>2. FrameOK([f EXCEPT !.pc = "set.read", !.seen = NoEntry])
    BY <1>0, <2>1 DEF FrameOK, Frame, Pc, HasSlot, HasSeen
  <2> QED BY <1>4, <2>2, StepOK DEF SetRetry
<1> QED BY <1>1, <1>2, <1>3, <1>4

LEMMA RefreshTyped ==
    ASSUME Typed, NEW c \in Call,
           \/ RefreshStart(c) \/ RefreshRead(c) \/ RefreshTouch(c) \/ RefreshRetry(c)
    PROVE  Typed'
<1> DEFINE f == call[c]
<1>0. f \in Frame /\ FrameOK(f) /\ f.at \in Time /\ now \in Time
  BY DEF Typed, Frame
<1>1. CASE RefreshStart(c)
  <2>1. PICK s \in Slot :
          Become(c, [Idle EXCEPT !.pc = "refresh.read", !.slot = s, !.at = now])
    BY <1>1 DEF RefreshStart
  <2> DEFINE g == [Idle EXCEPT !.pc = "refresh.read", !.slot = s, !.at = now]
  <2>2. g \in Frame /\ g.pc = "refresh.read" /\ g.slot = s
    BY <1>0, IdleOK DEF FrameOK, Frame, Pc
  <2> HIDE DEF g
  <2>3. FrameOK(g)
    BY <2>2 DEF FrameOK, HasSlot, HasSeen
  <2> QED BY <1>1, <2>1, <2>3, StepOK DEF RefreshStart, g
<1>2. CASE RefreshRead(c)
  <2>1. f.slot \in Slot
    BY <1>0, <1>2 DEF RefreshRead, At, FrameOK, HasSlot
  <2>2. store[f.slot] # NoEntry /\ ~Expired(store[f.slot], f.slot[2], f.at) =>
          FrameOK([f EXCEPT !.pc = "refresh.touch", !.seen = store[f.slot]])
    <3>1. store[f.slot] \in Entry \cup {NoEntry}
      BY <2>1 DEF Typed
    <3> QED BY <1>0, <2>1, <3>1 DEF FrameOK, Frame, Pc, HasSlot, HasSeen
  <2> QED BY <1>2, <2>2, IdleOK, StepOK DEF RefreshRead
<1>3. CASE RefreshTouch(c)
  <2>1. f.slot \in Slot /\ f.seen \in Entry
    BY <1>0, <1>3 DEF RefreshTouch, At, FrameOK, HasSlot, HasSeen
  <2> QED BY <1>3, <1>0, <2>1, TouchedEntry, StepOK, IdleOK DEF RefreshTouch
<1>4. CASE RefreshRetry(c)
  <2>1. f.slot \in Slot
    BY <1>0, <1>4 DEF RefreshRetry, At, FrameOK, HasSlot
  <2>2. FrameOK([f EXCEPT !.pc = "refresh.read", !.seen = NoEntry])
    BY <1>0, <2>1 DEF FrameOK, Frame, Pc, HasSlot, HasSeen
  <2> QED BY <1>4, <2>2, StepOK DEF RefreshRetry
<1> QED BY <1>1, <1>2, <1>3, <1>4

LEMMA RemoveTyped ==
    ASSUME Typed, NEW c \in Call, Remove(c)
    PROVE  Typed'
BY DEF Typed, Remove, Put

LEMMA SweepTyped ==
    ASSUME Typed, NEW c \in Call, SweepStart(c) \/ SweepVisit(c) \/ SweepRemove(c)
    PROVE  Typed'
<1> DEFINE f == call[c]
<1>0. f \in Frame /\ FrameOK(f) /\ f.todo \in SUBSET Slot /\ now \in Time
  BY DEF Typed, Frame
<1>1. CASE SweepStart(c)
  <2> DEFINE g == [Idle EXCEPT !.pc = "sweep.visit", !.at = now, !.todo = Slot]
  <2>1. g \in Frame /\ g.pc = "sweep.visit"
    BY <1>0, IdleOK DEF FrameOK, Frame, Pc
  <2> HIDE DEF g
  <2>2. FrameOK(g)
    BY <2>1 DEF FrameOK, HasSlot, HasSeen
  <2> QED BY <1>1, <2>2, StepOK DEF SweepStart, g
<1>2. CASE SweepVisit(c)
  <2>1. PICK s \in f.todo :
          IF store[s] # NoEntry /\ Expired(store[s], s[2], f.at)
          THEN Become(c, [f EXCEPT !.pc = "sweep.remove", !.slot = s,
                                   !.seen = store[s], !.todo = f.todo \ {s}])
          ELSE Become(c, [f EXCEPT !.todo = f.todo \ {s}])
    BY <1>2 DEF SweepVisit
  <2>2. s \in Slot /\ store[s] \in Entry \cup {NoEntry} /\ f.pc = "sweep.visit"
    BY <1>0, <1>2 DEF Typed, SweepVisit, At
  <2>3. store[s] # NoEntry /\ Expired(store[s], s[2], f.at) =>
          FrameOK([f EXCEPT !.pc = "sweep.remove", !.slot = s,
                            !.seen = store[s], !.todo = f.todo \ {s}])
    <3> DEFINE g == [f EXCEPT !.pc = "sweep.remove", !.slot = s,
                              !.seen = store[s], !.todo = f.todo \ {s}]
    <3>1. g \in Frame
      BY <1>0, <2>2 DEF Frame, Pc
    <3>2. g.pc = "sweep.remove" /\ g.slot = s /\ g.seen = store[s] /\ g.at = f.at
      BY <1>0 DEF Frame
    <3> HIDE DEF g
    <3>3. store[s] # NoEntry /\ Expired(store[s], s[2], f.at) => FrameOK(g)
      BY <2>2, <3>1, <3>2 DEF FrameOK, HasSlot, HasSeen
    <3> QED BY <3>3 DEF g
  <2>4. FrameOK([f EXCEPT !.todo = f.todo \ {s}])
    BY <1>0, <2>2 DEF FrameOK, Frame, HasSlot, HasSeen
  <2> QED BY <1>2, <2>1, <2>3, <2>4, StepOK DEF SweepVisit
<1>3. CASE SweepRemove(c)
  <2>1. f.slot \in Slot
    BY <1>0, <1>3 DEF SweepRemove, At, FrameOK, HasSlot
  <2>2. FrameOK([f EXCEPT !.pc = "sweep.visit", !.slot = NoSlot, !.seen = NoEntry])
    <3> DEFINE g == [f EXCEPT !.pc = "sweep.visit", !.slot = NoSlot, !.seen = NoEntry]
    <3>1. g \in Frame /\ g.pc = "sweep.visit"
      BY <1>0 DEF Frame, Pc
    <3> HIDE DEF g
    <3>2. FrameOK(g)
      BY <3>1 DEF FrameOK, HasSlot, HasSeen
    <3> QED BY <3>2 DEF g
  <2> QED BY <1>3, <2>1, <2>2, StepOK DEF SweepRemove
<1> QED BY <1>1, <1>2, <1>3

LEMMA ClearTyped ==
    ASSUME Typed, NEW c \in Call, ClearStart(c) \/ ClearRemove(c) \/ LoopEnd(c)
    PROVE  Typed'
<1> DEFINE f == call[c]
<1>0. f \in Frame /\ FrameOK(f) /\ f.todo \in SUBSET Slot
  BY DEF Typed, Frame
<1>1. CASE ClearStart(c)
  <2>1. PICK k \in Key :
          Become(c, [Idle EXCEPT !.pc = "clear.remove",
                                 !.todo = {s \in Slot : s[1] = k /\ store[s] # NoEntry}])
    BY <1>1 DEF ClearStart
  <2>2. ASSUME NEW S \in SUBSET Slot
        PROVE  FrameOK([Idle EXCEPT !.pc = "clear.remove", !.todo = S])
    BY IdleOK DEF FrameOK, Frame, Pc, HasSlot, HasSeen
  <2> QED BY <1>1, <2>1, <2>2, StepOK DEF ClearStart
<1>2. CASE ClearRemove(c)
  <2>1. PICK s \in f.todo : Put(s, NoEntry) /\ Become(c, [f EXCEPT !.todo = @ \ {s}])
    BY <1>2 DEF ClearRemove
  <2>2. FrameOK([f EXCEPT !.todo = @ \ {s}])
    BY <1>0, <1>2 DEF FrameOK, Frame, HasSlot, HasSeen, ClearRemove, At
  <2> QED BY <1>0, <1>2, <2>1, <2>2, StepOK DEF ClearRemove
<1>3. CASE LoopEnd(c)
  BY <1>3, StepOK, IdleOK DEF LoopEnd
<1> QED BY <1>1, <1>2, <1>3

LEMMA MigrateTyped ==
    ASSUME Typed, NEW c \in Call, MigrateStart(c) \/ MigrateTake(c) \/ MigratePut(c)
    PROVE  Typed'
<1> DEFINE f == call[c]
<1>0. f \in Frame /\ FrameOK(f) /\ f.todo \in SUBSET Slot
  BY DEF Typed, Frame
<1>1. CASE MigrateStart(c)
  <2>1. PICK k \in Key, d \in Key :
          Become(c, [Idle EXCEPT !.pc = "migrate.take", !.dest = d,
                                 !.todo = {s \in Slot : s[1] = k /\ store[s] # NoEntry}])
    BY <1>1 DEF MigrateStart
  <2>2. ASSUME NEW S \in SUBSET Slot
        PROVE  FrameOK([Idle EXCEPT !.pc = "migrate.take", !.dest = d, !.todo = S])
    BY IdleOK DEF FrameOK, Frame, Pc, HasSlot, HasSeen
  <2> QED BY <1>1, <2>1, <2>2, StepOK DEF MigrateStart
<1>2. CASE MigrateTake(c)
  <2>1. PICK s \in f.todo :
          /\ Put(s, NoEntry)
          /\ IF store[s] = NoEntry
             THEN Become(c, [f EXCEPT !.todo = @ \ {s}])
             ELSE Become(c, [f EXCEPT !.pc = "migrate.put", !.slot = s,
                                      !.seen = store[s], !.todo = @ \ {s}])
    BY <1>2 DEF MigrateTake
  <2>2. s \in Slot /\ store[s] \in Entry \cup {NoEntry} /\ f.pc = "migrate.take"
    BY <1>0, <1>2 DEF Typed, MigrateTake, At
  <2>3. FrameOK([f EXCEPT !.todo = @ \ {s}])
    BY <1>0, <2>2 DEF FrameOK, Frame, HasSlot, HasSeen
  <2>4. store[s] # NoEntry =>
          FrameOK([f EXCEPT !.pc = "migrate.put", !.slot = s,
                            !.seen = store[s], !.todo = @ \ {s}])
    BY <1>0, <2>2 DEF FrameOK, Frame, Pc, HasSlot, HasSeen
  <2> QED BY <1>2, <2>1, <2>2, <2>3, <2>4, StepOK DEF MigrateTake
<1>3. CASE MigratePut(c)
  <2>1. /\ f.slot \in Slot /\ f.dest \in Key /\ f.seen \in Entry
        /\ f.pc = "migrate.put"
    BY <1>0, <1>3 DEF MigratePut, At, FrameOK, HasSlot, HasSeen
  <2>2. Destination(c) \in Slot
    BY <2>1 DEF Destination, Slot
  <2>3. FrameOK([f EXCEPT !.pc = "migrate.take", !.slot = NoSlot, !.seen = NoEntry])
    BY <1>0, <2>1 DEF FrameOK, Frame, Pc, HasSlot, HasSeen
  <2> QED BY <1>3, <2>1, <2>2, <2>3, StepOK DEF MigratePut
<1> QED BY <1>1, <1>2, <1>3

LEMMA TypedInductive == Typed /\ [Next]_vars => Typed'
<1> SUFFICES ASSUME Typed, [Next]_vars PROVE Typed'
  OBVIOUS
<1>1. CASE Tick
  BY <1>1, MaxTimeAssumption DEF Tick, Typed, Time
<1>2. ASSUME NEW c \in Call, Start(c) \/ Continue(c) PROVE Typed'
  BY <1>2, GetTyped, SetTyped, RefreshTyped, RemoveTyped, SweepTyped,
     ClearTyped, MigrateTyped DEF Start, Continue
<1>3. CASE UNCHANGED vars
  BY <1>3 DEF vars, Typed
<1> QED BY <1>1, <1>2, <1>3 DEF Next

LEMMA TypedInitially == Init => Typed
BY IdleOK, MaxTimeAssumption DEF Init, Typed, FrameOK, Time

(* The variables keep their types, and every method reaches each of its    *)
(* steps with the locals that step needs.                                  *)
THEOREM TypeCorrect == Spec => []TypeOK
<1>1. Typed => TypeOK
  BY DEF Typed, TypeOK
<1> QED BY <1>1, TypedInitially, TypedInductive, PTL DEF Spec
-----------------------------------------------------------------------------
(* What identities are for.  Held is every entry something refers to; two  *)
(* references with one identity are references to one object, so an entry  *)
(* that passes the comparison of TryUpdate or TryRemove is, field by       *)
(* field, the entry the thread looked at.                                  *)
Held == {store[s] : s \in Slot} \cup {call[c].seen : c \in Call}

Identity == \A e, f \in Held : e.id = f.id => e = f

(* No thread works with a time that is still to come.                      *)
NoFuture == \A c \in Call : call[c].at <= now

Inv == Typed /\ Identity /\ SingleHome /\ NoFuture

LEMMA HeldTyped ==
    ASSUME Typed
    PROVE  Held \subseteq Entry \cup {NoEntry}
BY DEF Typed, Held, Frame

LEMMA UsedAreHeld ==
    ASSUME NEW e \in Held
    PROVE  e.id \in Used
BY DEF Held, Used

LEMMA OnlyNoEntryIsNull ==
    ASSUME NEW e \in Entry \cup {NoEntry}, e.id = NoRef
    PROVE  e = NoEntry
BY NullAssumption DEF Entry, NoEntry

LEMMA SeenIsCurrent ==
    ASSUME Typed, Identity, NEW c \in Call, call[c].slot \in Slot, StillSeen(c)
    PROVE  store[call[c].slot] = call[c].seen
BY DEF Identity, StillSeen, Held

(* The steps that carry no entry from slot to slot: thread c ends with     *)
(* frame f, holding nothing it could not already refer to, and at most one *)
(* slot is emptied or given a newly allocated object.                      *)
Plain(c, f) ==
    /\ f \in Frame
    /\ Become(c, f)
    /\ f.pc # "migrate.put"
    /\ f.at <= now
    /\ f.seen \in Held \cup {NoEntry}
    /\ now' = now
    /\ \/ store' = store
       \/ \E s \in Slot : Put(s, NoEntry)
       \/ \E s \in Slot, n \in Entry : n.id \notin Used /\ Put(s, n)

LEMMA PlainIdentity ==
    ASSUME Typed, Identity, NEW c \in Call, NEW f, Plain(c, f)
    PROVE  Identity'
<1>1. ASSUME NEW X, X \subseteq Entry \cup {NoEntry},
             NEW n \in Entry \cup {NoEntry}, n = NoEntry \/ n.id \notin Used,
             X \subseteq Held \cup {NoEntry, n},
             NEW e \in X, NEW g \in X, e.id = g.id
      PROVE  e = g
  <2>1. n \in Entry => n.id # NoRef
    BY NullAssumption DEF Entry
  <2>2. NoEntry.id = NoRef
    BY DEF NoEntry
  <2> QED BY <1>1, <2>1, <2>2, OnlyNoEntryIsNull, UsedAreHeld, HeldTyped DEF Identity
<1>2. \A d \in Call : call'[d].seen \in Held \cup {NoEntry}
  <2>1. ASSUME NEW d \in Call PROVE call'[d].seen \in Held \cup {NoEntry}
    <3>1. CASE d = c BY <3>1 DEF Plain, Become, Typed
    <3>2. CASE d # c BY <3>2 DEF Plain, Become, Typed, Held
    <3> QED BY <3>1, <3>2
  <2> QED BY <2>1
<1>3. \E n \in Entry \cup {NoEntry} :
        /\ n = NoEntry \/ n.id \notin Used
        /\ \A s \in Slot : store'[s] \in Held \cup {NoEntry, n}
  <2>1. CASE store' = store BY <2>1 DEF Held
  <2>2. CASE \E s \in Slot : Put(s, NoEntry)
    <3>1. \A s \in Slot : store'[s] \in Held \cup {NoEntry, NoEntry}
      BY <2>2 DEF Put, Typed, Held
    <3> QED BY <3>1
  <2>3. CASE \E s \in Slot, n \in Entry : n.id \notin Used /\ Put(s, n)
    <3>1. PICK r \in Slot, n \in Entry : n.id \notin Used /\ Put(r, n)
      BY <2>3
    <3>2. \A s \in Slot : store'[s] \in Held \cup {NoEntry, n}
      BY <3>1 DEF Put, Typed, Held
    <3> QED BY <3>1, <3>2
  <2> QED BY <2>1, <2>2, <2>3 DEF Plain
<1>4. PICK n \in Entry \cup {NoEntry} :
        /\ n = NoEntry \/ n.id \notin Used
        /\ \A s \in Slot : store'[s] \in Held \cup {NoEntry, n}
  BY <1>3
<1>5. Held' \subseteq Held \cup {NoEntry, n}
  BY <1>2, <1>4 DEF Held
<1>6. Held' \subseteq Entry \cup {NoEntry}
  BY <1>5, HeldTyped
<1> QED BY <1>1, <1>4, <1>5, <1>6 DEF Identity

LEMMA PlainHome ==
    ASSUME Typed, SingleHome, NEW c \in Call, NEW f, Plain(c, f)
    PROVE  SingleHome'
<1>1. \A d \in Call : At(d, "migrate.put")' =>
         d # c /\ At(d, "migrate.put") /\ call'[d] = call[d]
  BY DEF Plain, Become, Typed, At
<1>2. CASE store' = store
  BY <1>1, <1>2 DEF SingleHome, At
<1>3. CASE \E s \in Slot : Put(s, NoEntry)
  <2>1. PICK r \in Slot : Put(r, NoEntry)
    BY <1>3
  <2>2. \A s \in Slot : store'[s] = IF s = r THEN NoEntry ELSE store[s]
    BY <2>1 DEF Put, Typed
  <2>3. \A d \in Call : At(d, "migrate.put") => call[d].seen.id # NoRef
    BY NullAssumption DEF Typed, FrameOK, HasSeen, At, Entry
  <2>4. NoEntry.id = NoRef
    BY DEF NoEntry
  <2>5. ASSUME NEW s \in Slot, NEW u \in Slot, s # u, store'[s] # NoEntry
        PROVE  store'[s].id # store'[u].id
    <3>1. store'[s] = store[s] /\ store[s] \in Entry
      BY <2>2, <2>5 DEF Typed
    <3>2. store[s].id # NoRef
      BY <3>1, NullAssumption DEF Entry
    <3> QED BY <2>2, <2>4, <2>5, <3>1, <3>2 DEF SingleHome
  <2>6. ASSUME NEW d \in Call, At(d, "migrate.put")'
        PROVE  /\ \A s \in Slot : store'[s].id # call'[d].seen.id
               /\ \A e \in Call \ {d} :
                    At(e, "migrate.put")' => call'[e].seen.id # call'[d].seen.id
    BY <1>1, <2>2, <2>3, <2>4, <2>6 DEF SingleHome
  <2> QED BY <2>5, <2>6 DEF SingleHome, At
<1>4. CASE \E s \in Slot, n \in Entry : n.id \notin Used /\ Put(s, n)
  <2>1. PICK r \in Slot, n \in Entry : n.id \notin Used /\ Put(r, n)
    BY <1>4
  <2>2. \A s \in Slot : store'[s] = IF s = r THEN n ELSE store[s]
    BY <2>1 DEF Put, Typed
  <2>3. /\ \A s \in Slot : store[s].id # n.id
        /\ \A d \in Call : call[d].seen.id # n.id
    BY <2>1 DEF Used
  <2> QED BY <1>1, <2>2, <2>3 DEF SingleHome, At
<1> QED BY <1>2, <1>3, <1>4 DEF Plain

LEMMA PlainNoFuture ==
    ASSUME Typed, NoFuture, NEW c \in Call, NEW f, Plain(c, f)
    PROVE  NoFuture'
BY DEF Plain, Become, Typed, NoFuture
-----------------------------------------------------------------------------
(* Every step of a thread but the two that move an entry is plain.         *)
Moves(c) == MigrateTake(c) \/ MigratePut(c)

LEMMA StorePlain ==
    ASSUME NEW c \in Call, NEW f \in Frame, Become(c, f),
           f.pc # "migrate.put", f.at <= now, f.seen \in Held \cup {NoEntry},
           now' = now,
           \/ store' = store
           \/ \E s \in Slot : Put(s, NoEntry)
           \/ \E s \in Slot, n \in Entry : n.id \notin Used /\ Put(s, n)
    PROVE  \E g : Plain(c, g)
BY DEF Plain

LEMMA IdlePlain ==
    ASSUME Typed
    PROVE  /\ Idle \in Frame
           /\ Idle.pc = "idle" /\ Idle.at = 0 /\ Idle.seen = NoEntry
           /\ 0 <= now
BY IdleOK, MaxTimeAssumption DEF Idle, FrameOK, Typed, Time

LEMMA NewEntryFresh ==
    ASSUME CanAllocate, NEW e \in Entry, e.id = NewRef
    PROVE  e.id \notin Used
BY NewRefFresh

LEMMA GetPlain ==
    ASSUME Typed, NoFuture, NEW c \in Call,
           \/ GetStart(c) \/ GetRead(c) \/ GetCheck(c) \/ GetEvict(c)
           \/ GetTouch(c) \/ GetRetry(c)
    PROVE  \E g : Plain(c, g)
<1> DEFINE f == call[c]
<1>0. /\ f \in Frame /\ FrameOK(f) /\ f.seen \in Held /\ f.at <= now
      /\ f.at \in Time /\ now \in Time /\ now <= now
  BY MaxTimeAssumption DEF Typed, Held, NoFuture, Time, Frame
<1>1. CASE GetStart(c)
  BY <1>1, IdlePlain, StorePlain DEF GetStart, Frame, Pc
<1>2. CASE GetRead(c)
  <2>1. f.slot \in Slot /\ store[f.slot] \in Held /\ store[f.slot] \in Entry \cup {NoEntry}
    BY <1>0, <1>2 DEF GetRead, At, FrameOK, HasSlot, Held, Typed
  <2> DEFINE g == [f EXCEPT !.pc = "get.check", !.seen = store[f.slot]]
  <2>2. g \in Frame /\ g.pc = "get.check" /\ g.at = f.at /\ g.seen = store[f.slot]
    BY <1>0, <2>1 DEF Frame, Pc
  <2> HIDE DEF g
  <2>3. CASE Become(c, g)
    BY <1>0, <1>2, <2>1, <2>2, <2>3, StorePlain DEF GetRead
  <2> QED BY <1>2, <2>3, IdlePlain, StorePlain DEF GetRead, g
<1>3. CASE GetCheck(c)
  <2> DEFINE g == [f EXCEPT !.pc = "get.evict", !.seen = NoEntry]
             h == [f EXCEPT !.pc = "get.touch", !.at = now]
  <2>1. g \in Frame /\ g.pc = "get.evict" /\ g.at = f.at /\ g.seen = NoEntry
    BY <1>0 DEF Frame, Pc
  <2>2. h \in Frame /\ h.pc = "get.touch" /\ h.at = now /\ h.seen = f.seen
    BY <1>0 DEF Frame, Pc
  <2>3. Become(c, g) \/ Become(c, h)
    BY <1>3 DEF GetCheck
  <2> HIDE DEF g, h
  <2> QED BY <1>0, <1>3, <2>1, <2>2, <2>3, StorePlain DEF GetCheck
<1>4. CASE GetEvict(c)
  BY <1>4, <1>0, IdlePlain, StorePlain DEF GetEvict, At, FrameOK, HasSlot
<1>5. CASE GetTouch(c)
  <2>1. f.slot \in Slot /\ f.seen \in Entry
    BY <1>0, <1>5 DEF GetTouch, At, FrameOK, HasSlot, HasSeen
  <2> DEFINE n == WithLastAccessed(f.seen, f.at)
  <2>2. n \in Entry /\ n.id = NewRef
    BY <1>0, <1>5, <2>1, TouchedEntry DEF GetTouch, WithLastAccessed, Entry
  <2>3. Put(f.slot, n) /\ n.id \notin Used
    BY <1>5, <2>2, NewEntryFresh DEF GetTouch
  <2> HIDE DEF n
  <2> QED BY <1>5, <2>1, <2>2, <2>3, IdlePlain, StorePlain DEF GetTouch
<1>6. CASE GetRetry(c)
  <2>1. f.slot \in Slot
    BY <1>0, <1>6 DEF GetRetry, At, FrameOK, HasSlot
  <2> QED BY <1>6, <2>1, IdlePlain, StorePlain DEF GetRetry, Frame, Pc
<1> QED BY <1>1, <1>2, <1>3, <1>4, <1>5, <1>6

LEMMA SetPlain ==
    ASSUME Typed, NoFuture, NEW c \in Call,
           \/ SetStart(c) \/ SetRead(c) \/ SetWrite(c) \/ SetRetry(c)
    PROVE  \E g : Plain(c, g)
<1> DEFINE f == call[c]
<1>0. /\ f \in Frame /\ FrameOK(f) /\ f.seen \in Held /\ f.at <= now
      /\ f.at \in Time /\ now \in Time /\ now <= now
  BY MaxTimeAssumption DEF Typed, Held, NoFuture, Time, Frame
<1>1. CASE SetStart(c)
  <2>1. PICK s \in Slot, v \in Value :
          Become(c, [Idle EXCEPT !.pc = "set.read", !.slot = s, !.value = v, !.at = now])
    BY <1>1 DEF SetStart
  <2> DEFINE g == [Idle EXCEPT !.pc = "set.read", !.slot = s, !.value = v, !.at = now]
  <2>2. g \in Frame /\ g.pc = "set.read" /\ g.at = now /\ g.seen = NoEntry
    BY <1>0, IdlePlain DEF Frame, Pc
  <2> HIDE DEF g
  <2> QED BY <1>0, <1>1, <2>1, <2>2, StorePlain DEF SetStart, g
<1>2. CASE SetRead(c)
  <2>1. f.slot \in Slot /\ store[f.slot] \in Held /\ store[f.slot] \in Entry \cup {NoEntry}
    BY <1>0, <1>2 DEF SetRead, At, FrameOK, HasSlot, Held, Typed
  <2> DEFINE g == [f EXCEPT !.pc = "set.write", !.seen = store[f.slot]]
  <2>2. g \in Frame /\ g.pc = "set.write" /\ g.at = f.at /\ g.seen = store[f.slot]
    BY <1>0, <2>1 DEF Frame, Pc
  <2>3. Become(c, g)
    BY <1>2 DEF SetRead
  <2> HIDE DEF g
  <2> QED BY <1>0, <1>2, <2>1, <2>2, <2>3, StorePlain DEF SetRead
<1>3. CASE SetWrite(c)
  <2>1. f.slot \in Slot /\ f.value \in Value
    BY <1>0, <1>3 DEF SetWrite, At, FrameOK, HasSlot
  <2> DEFINE n == NewEntry(f)
  <2>2. n \in Entry /\ n.id = NewRef
    BY <1>0, <1>3, <2>1, WrittenEntry DEF SetWrite, NewEntry
  <2>3. Put(f.slot, n) /\ n.id \notin Used
    BY <1>3, <2>2, NewEntryFresh DEF SetWrite
  <2> HIDE DEF n
  <2> QED BY <1>3, <2>1, <2>2, <2>3, IdlePlain, StorePlain DEF SetWrite
<1>4. CASE SetRetry(c)
  <2> DEFINE g == [f EXCEPT !.pc = "set.read", !.seen = NoEntry]
  <2>1. g \in Frame /\ g.pc = "set.read" /\ g.at = f.at /\ g.seen = NoEntry
    BY <1>0 DEF Frame, Pc
  <2>2. Become(c, g)
    BY <1>4 DEF SetRetry
  <2> HIDE DEF g
  <2> QED BY <1>0, <1>4, <2>1, <2>2, StorePlain DEF SetRetry
<1> QED BY <1>1, <1>2, <1>3, <1>4

LEMMA RefreshPlain ==
    ASSUME Typed, NoFuture, NEW c \in Call,
           \/ RefreshStart(c) \/ RefreshRead(c) \/ RefreshTouch(c) \/ RefreshRetry(c)
    PROVE  \E g : Plain(c, g)
<1> DEFINE f == call[c]
<1>0. /\ f \in Frame /\ FrameOK(f) /\ f.seen \in Held /\ f.at <= now
      /\ f.at \in Time /\ now \in Time /\ now <= now
  BY MaxTimeAssumption DEF Typed, Held, NoFuture, Time, Frame
<1>1. CASE RefreshStart(c)
  <2>1. PICK s \in Slot :
          Become(c, [Idle EXCEPT !.pc = "refresh.read", !.slot = s, !.at = now])
    BY <1>1 DEF RefreshStart
  <2> DEFINE g == [Idle EXCEPT !.pc = "refresh.read", !.slot = s, !.at = now]
  <2>2. g \in Frame /\ g.pc = "refresh.read" /\ g.at = now /\ g.seen = NoEntry
    BY <1>0, IdlePlain DEF Frame, Pc
  <2> HIDE DEF g
  <2> QED BY <1>0, <1>1, <2>1, <2>2, StorePlain DEF RefreshStart, g
<1>2. CASE RefreshRead(c)
  <2>1. f.slot \in Slot /\ store[f.slot] \in Held /\ store[f.slot] \in Entry \cup {NoEntry}
    BY <1>0, <1>2 DEF RefreshRead, At, FrameOK, HasSlot, Held, Typed
  <2> DEFINE g == [f EXCEPT !.pc = "refresh.touch", !.seen = store[f.slot]]
  <2>2. g \in Frame /\ g.pc = "refresh.touch" /\ g.at = f.at /\ g.seen = store[f.slot]
    BY <1>0, <2>1 DEF Frame, Pc
  <2>3. Become(c, g) \/ Become(c, Idle)
    BY <1>2 DEF RefreshRead
  <2> HIDE DEF g
  <2> QED BY <1>0, <1>2, <2>1, <2>2, <2>3, IdlePlain, StorePlain DEF RefreshRead
<1>3. CASE RefreshTouch(c)
  <2>1. f.slot \in Slot /\ f.seen \in Entry
    BY <1>0, <1>3 DEF RefreshTouch, At, FrameOK, HasSlot, HasSeen
  <2> DEFINE n == WithLastAccessed(f.seen, f.at)
  <2>2. n \in Entry /\ n.id = NewRef
    BY <1>0, <1>3, <2>1, TouchedEntry DEF RefreshTouch, WithLastAccessed, Entry
  <2>3. Put(f.slot, n) /\ n.id \notin Used
    BY <1>3, <2>2, NewEntryFresh DEF RefreshTouch
  <2> HIDE DEF n
  <2> QED BY <1>3, <2>1, <2>2, <2>3, IdlePlain, StorePlain DEF RefreshTouch
<1>4. CASE RefreshRetry(c)
  <2> DEFINE g == [f EXCEPT !.pc = "refresh.read", !.seen = NoEntry]
  <2>1. g \in Frame /\ g.pc = "refresh.read" /\ g.at = f.at /\ g.seen = NoEntry
    BY <1>0 DEF Frame, Pc
  <2>2. Become(c, g)
    BY <1>4 DEF RefreshRetry
  <2> HIDE DEF g
  <2> QED BY <1>0, <1>4, <2>1, <2>2, StorePlain DEF RefreshRetry
<1> QED BY <1>1, <1>2, <1>3, <1>4
LEMMA LoopPlain ==
    ASSUME Typed, NoFuture, NEW c \in Call,
           \/ Remove(c) \/ SweepStart(c) \/ SweepVisit(c) \/ SweepRemove(c)
           \/ ClearStart(c) \/ ClearRemove(c) \/ MigrateStart(c) \/ LoopEnd(c)
    PROVE  \E g : Plain(c, g)
<1> DEFINE f == call[c]
<1>0. /\ f \in Frame /\ FrameOK(f) /\ f.seen \in Held /\ f.at <= now
      /\ f.at \in Time /\ now \in Time /\ now <= now /\ f.todo \in SUBSET Slot
  BY MaxTimeAssumption DEF Typed, Held, NoFuture, Time, Frame
<1>1. CASE Remove(c)
  <2>1. Become(c, f)
    BY <1>1 DEF Remove, Become, Typed
  <2> QED BY <1>0, <1>1, <2>1, StorePlain DEF Remove, At
<1>2. CASE SweepStart(c)
  <2> DEFINE g == [Idle EXCEPT !.pc = "sweep.visit", !.at = now, !.todo = Slot]
  <2>1. g \in Frame /\ g.pc = "sweep.visit" /\ g.at = now /\ g.seen = NoEntry
    BY <1>0, IdlePlain DEF Frame, Pc
  <2>2. Become(c, g)
    BY <1>2 DEF SweepStart
  <2> HIDE DEF g
  <2> QED BY <1>0, <1>2, <2>1, <2>2, StorePlain DEF SweepStart
<1>3. CASE SweepVisit(c)
  <2>1. PICK s \in f.todo :
          \/ Become(c, [f EXCEPT !.pc = "sweep.remove", !.slot = s,
                                 !.seen = store[s], !.todo = f.todo \ {s}])
          \/ Become(c, [f EXCEPT !.todo = f.todo \ {s}])
    BY <1>3 DEF SweepVisit
  <2> DEFINE g == [f EXCEPT !.pc = "sweep.remove", !.slot = s,
                            !.seen = store[s], !.todo = f.todo \ {s}]
             h == [f EXCEPT !.todo = f.todo \ {s}]
  <2>2. s \in Slot /\ store[s] \in Held /\ store[s] \in Entry \cup {NoEntry}
    BY <1>0 DEF Held, Typed
  <2>3. g \in Frame /\ g.pc = "sweep.remove" /\ g.at = f.at /\ g.seen = store[s]
    BY <1>0, <2>2 DEF Frame, Pc
  <2>4. h \in Frame /\ h.pc = "sweep.visit" /\ h.at = f.at /\ h.seen = f.seen
    BY <1>0, <1>3 DEF Frame, SweepVisit, At
  <2>5. Become(c, g) \/ Become(c, h)
    BY <2>1
  <2> HIDE DEF g, h
  <2> QED BY <1>0, <1>3, <2>2, <2>3, <2>4, <2>5, StorePlain DEF SweepVisit
<1>4. CASE SweepRemove(c)
  <2> DEFINE g == [f EXCEPT !.pc = "sweep.visit", !.slot = NoSlot, !.seen = NoEntry]
  <2>1. g \in Frame /\ g.pc = "sweep.visit" /\ g.at = f.at /\ g.seen = NoEntry
    BY <1>0 DEF Frame, Pc
  <2>2. Become(c, g) /\ f.slot \in Slot
    BY <1>0, <1>4 DEF SweepRemove, At, FrameOK, HasSlot
  <2> HIDE DEF g
  <2> QED BY <1>0, <1>4, <2>1, <2>2, StorePlain DEF SweepRemove
<1>5. CASE ClearStart(c)
  <2>1. PICK S \in SUBSET Slot : Become(c, [Idle EXCEPT !.pc = "clear.remove", !.todo = S])
    BY <1>5 DEF ClearStart
  <2> DEFINE g == [Idle EXCEPT !.pc = "clear.remove", !.todo = S]
  <2>2. g \in Frame /\ g.pc = "clear.remove" /\ g.at = 0 /\ g.seen = NoEntry
    BY IdlePlain DEF Frame, Pc
  <2> HIDE DEF g
  <2> QED BY <1>5, <2>1, <2>2, IdlePlain, StorePlain DEF ClearStart, g
<1>6. CASE ClearRemove(c)
  <2>1. PICK s \in f.todo : Put(s, NoEntry) /\ Become(c, [f EXCEPT !.todo = @ \ {s}])
    BY <1>6 DEF ClearRemove
  <2> DEFINE g == [f EXCEPT !.todo = @ \ {s}]
  <2>2. g \in Frame /\ g.pc = "clear.remove" /\ g.at = f.at /\ g.seen = f.seen
    BY <1>0, <1>6 DEF Frame, ClearRemove, At
  <2>3. Become(c, g)
    BY <2>1
  <2> HIDE DEF g
  <2> QED BY <1>0, <1>6, <2>1, <2>2, <2>3, StorePlain DEF ClearRemove
<1>7. CASE MigrateStart(c)
  <2>1. PICK d \in Key, S \in SUBSET Slot :
          Become(c, [Idle EXCEPT !.pc = "migrate.take", !.dest = d, !.todo = S])
    BY <1>7 DEF MigrateStart
  <2> DEFINE g == [Idle EXCEPT !.pc = "migrate.take", !.dest = d, !.todo = S]
  <2>2. g \in Frame /\ g.pc = "migrate.take" /\ g.at = 0 /\ g.seen = NoEntry
    BY IdlePlain DEF Frame, Pc
  <2> HIDE DEF g
  <2> QED BY <1>7, <2>1, <2>2, IdlePlain, StorePlain DEF MigrateStart, g
<1>8. CASE LoopEnd(c)
  BY <1>8, IdlePlain, StorePlain DEF LoopEnd
<1> QED BY <1>1, <1>2, <1>3, <1>4, <1>5, <1>6, <1>7, <1>8

LEMMA NextPlain ==
    ASSUME Typed, NoFuture, NEW c \in Call, Start(c) \/ Continue(c), ~Moves(c)
    PROVE  \E g : Plain(c, g)
BY GetPlain, SetPlain, RefreshPlain, LoopPlain DEF Start, Continue, Moves

-----------------------------------------------------------------------------
(* The two steps that move an entry, from its slot to the migrating        *)
(* thread's hand and from there to the destination slot.                   *)
LEMMA TakeIdentity ==
    ASSUME Typed, Identity, NEW c \in Call, Moves(c)
    PROVE  Identity'
<1> DEFINE f == call[c]
<1>0. f \in Frame /\ FrameOK(f) /\ f.seen \in Held /\ f.todo \in SUBSET Slot
  BY DEF Typed, Held, Frame
<1>1. /\ \A s \in Slot : store'[s] \in Held \cup {NoEntry}
      /\ \A d \in Call : call'[d].seen \in Held \cup {NoEntry}
  <2>1. CASE MigrateTake(c)
    <3>1. PICK s \in Slot :
            /\ Put(s, NoEntry)
            /\ \/ Become(c, [f EXCEPT !.todo = @ \ {s}])
               \/ Become(c, [f EXCEPT !.pc = "migrate.put", !.slot = s,
                                      !.seen = store[s], !.todo = @ \ {s}])
      BY <1>0, <2>1 DEF MigrateTake
    <3>2. call'[c].seen = f.seen \/ call'[c].seen = store[s]
      BY <1>0, <3>1 DEF Become, Typed, Frame
    <3>3. \A d \in Call \ {c} : call'[d] = call[d]
      BY <3>1 DEF Become, Typed
    <3> QED BY <1>0, <3>1, <3>2, <3>3 DEF Put, Typed, Held
  <2>2. CASE MigratePut(c)
    <3>1. \A s \in Slot : store'[s] = store[s] \/ store'[s] = f.seen
      BY <2>2 DEF MigratePut, Put, Typed
    <3>2. call'[c].seen = NoEntry
      BY <1>0, <2>2 DEF MigratePut, Become, Typed, Frame
    <3>3. \A d \in Call \ {c} : call'[d] = call[d]
      BY <2>2 DEF MigratePut, Become, Typed
    <3> QED BY <1>0, <3>1, <3>2, <3>3 DEF Held
  <2> QED BY <2>1, <2>2 DEF Moves
<1>2. Held' \subseteq Held \cup {NoEntry}
  BY <1>1 DEF Held
<1>3. NoEntry.id = NoRef
  BY DEF NoEntry
<1> QED BY <1>2, <1>3, OnlyNoEntryIsNull, HeldTyped DEF Identity

LEMMA MoveNoFuture ==
    ASSUME Typed, NoFuture, NEW c \in Call, Moves(c)
    PROVE  NoFuture'
<1>1. call[c] \in Frame /\ now' = now
  BY DEF Typed, Moves, MigrateTake, MigratePut
<1>2. call'[c].at = call[c].at /\ \A d \in Call \ {c} : call'[d] = call[d]
  BY <1>1 DEF Moves, MigrateTake, MigratePut, Become, Typed, Frame
<1> QED BY <1>1, <1>2 DEF NoFuture

LEMMA TakeHome ==
    ASSUME Typed, SingleHome, NEW c \in Call, MigrateTake(c)
    PROVE  SingleHome'
<1> DEFINE f == call[c]
<1>0. f \in Frame /\ FrameOK(f) /\ f.todo \in SUBSET Slot /\ f.pc = "migrate.take"
  BY DEF Typed, Frame, MigrateTake, At
<1>1. PICK r \in Slot :
        /\ Put(r, NoEntry)
        /\ IF store[r] = NoEntry
           THEN Become(c, [f EXCEPT !.todo = @ \ {r}])
           ELSE Become(c, [f EXCEPT !.pc = "migrate.put", !.slot = r,
                                    !.seen = store[r], !.todo = @ \ {r}])
  BY <1>0 DEF MigrateTake
<1>2. \A s \in Slot : store'[s] = IF s = r THEN NoEntry ELSE store[s]
  BY <1>1 DEF Put, Typed
<1>3. \A d \in Call \ {c} : call'[d] = call[d]
  BY <1>1 DEF Become, Typed
<1>4. call'[c].pc = "migrate.put" => store[r] # NoEntry /\ call'[c].seen = store[r]
  BY <1>0, <1>1 DEF Become, Typed, Frame
<1>5. NoEntry.id = NoRef /\ \A e \in Entry : e.id # NoRef
  BY NullAssumption DEF NoEntry, Entry
<1>6. \A s \in Slot : store[s] \in Entry \cup {NoEntry}
  BY DEF Typed
<1>7. \A d \in Call : At(d, "migrate.put") => call[d].seen \in Entry
  BY DEF At, Typed, FrameOK, HasSeen
<1>8. ASSUME NEW s \in Slot, NEW u \in Slot, s # u, store'[s] # NoEntry
      PROVE  store'[s].id # store'[u].id
  BY <1>2, <1>5, <1>6, <1>8 DEF SingleHome
<1>9. ASSUME NEW d \in Call, call'[d].pc = "migrate.put"
      PROVE  /\ \A s \in Slot : store'[s].id # call'[d].seen.id
             /\ \A e \in Call \ {d} :
                  call'[e].pc = "migrate.put" => call'[e].seen.id # call'[d].seen.id
  <2>1. CASE d = c
    <3>1. call'[c].seen = store[r] /\ store[r] \in Entry
      BY <1>4, <1>6, <1>9, <2>1
    <3>2. \A s \in Slot : store'[s].id # store[r].id
      BY <1>2, <1>5, <1>6, <3>1 DEF SingleHome
    <3>3. \A e \in Call \ {c} : At(e, "migrate.put") => call[e].seen.id # store[r].id
      BY DEF SingleHome
    <3> QED BY <1>3, <2>1, <3>1, <3>2, <3>3 DEF At
  <2>2. CASE d # c
    <3>1. call'[d] = call[d] /\ At(d, "migrate.put")
      BY <1>3, <1>9, <2>2 DEF At
    <3>2. \A s \in Slot : store'[s].id # call[d].seen.id
      BY <1>2, <1>5, <1>7, <3>1 DEF SingleHome
    <3>3. ASSUME NEW e \in Call \ {d}, call'[e].pc = "migrate.put"
          PROVE  call'[e].seen.id # call[d].seen.id
      <4>1. CASE e = c
        BY <1>4, <3>1, <3>3, <4>1 DEF SingleHome
      <4>2. CASE e # c
        BY <1>3, <3>1, <3>3, <4>2 DEF SingleHome, At
      <4> QED BY <4>1, <4>2
    <3> QED BY <3>1, <3>2, <3>3
  <2> QED BY <2>1, <2>2
<1> QED BY <1>8, <1>9 DEF SingleHome, At

LEMMA PutHome ==
    ASSUME Typed, SingleHome, NEW c \in Call, MigratePut(c)
    PROVE  SingleHome'
<1> DEFINE f == call[c]
           r == Destination(c)
<1>0. /\ f \in Frame /\ f.pc = "migrate.put" /\ f.seen \in Entry
      /\ f.slot \in Slot /\ f.dest \in Key
  BY DEF Typed, MigratePut, At, FrameOK, HasSeen, HasSlot
<1>1. r \in Slot
  BY <1>0 DEF Destination, Slot
<1> HIDE DEF r
<1>2. \/ store' = store
      \/ \A s \in Slot : store'[s] = IF s = r THEN f.seen ELSE store[s]
  BY DEF MigratePut, Put, Typed, r
<1>3. \A d \in Call \ {c} : call'[d] = call[d]
  BY DEF MigratePut, Become, Typed
<1>4. call'[c].pc = "migrate.take"
  BY <1>0 DEF MigratePut, Become, Typed, Frame
<1>5. /\ \A s \in Slot : store[s].id # f.seen.id
      /\ \A d \in Call \ {c} : At(d, "migrate.put") => call[d].seen.id # f.seen.id
  BY <1>0 DEF SingleHome, At
<1> QED BY <1>1, <1>2, <1>3, <1>4, <1>5 DEF SingleHome, At

LEMMA MoveBecomes ==
    ASSUME NEW c \in Call, Moves(c)
    PROVE  \E g : Become(c, g)
BY DEF Moves, MigrateTake, MigratePut

LEMMA InvInductive == Inv /\ [Next]_vars => Inv'
<1> SUFFICES ASSUME Inv, [Next]_vars PROVE Inv'
  OBVIOUS
<1> USE DEF Inv
<1>1. CASE Tick
  <2>1. Identity' /\ SingleHome'
    BY <1>1 DEF Tick, Identity, Held, SingleHome, At
  <2>2. NoFuture'
    BY <1>1, MaxTimeAssumption DEF Tick, NoFuture, Typed, Frame, Time
  <2> QED BY <2>1, <2>2, TypedInductive
<1>2. ASSUME NEW c \in Call, Start(c) \/ Continue(c), ~Moves(c) PROVE Inv'
  BY <1>2, NextPlain, PlainIdentity, PlainHome, PlainNoFuture, TypedInductive
<1>3. ASSUME NEW c \in Call, Moves(c) PROVE Inv'
  BY <1>3, TakeIdentity, TakeHome, PutHome, MoveNoFuture, TypedInductive DEF Moves
<1>4. CASE UNCHANGED vars
  BY <1>4, TypedInductive DEF vars, Identity, Held, SingleHome, NoFuture, At
<1> QED BY <1>1, <1>2, <1>3, <1>4 DEF Next

LEMMA InvInitially == Init => Inv
<1> SUFFICES ASSUME Init PROVE Inv
  OBVIOUS
<1>1. \A s \in Slot : store[s] = NoEntry
  BY DEF Init
<1>2. \A c \in Call : call[c].seen = NoEntry /\ call[c].pc = "idle" /\ call[c].at = 0
  BY DEF Init, Idle
<1> QED BY <1>1, <1>2, TypedInitially DEF Inv, Init, Identity, Held, SingleHome, At, NoFuture

LEMMA Invariance == Spec => []Inv
BY InvInitially, InvInductive, PTL DEF Spec

(* An entry object is in at most one slot or in one migration's hand.      *)
THEOREM EntriesHaveOneHome == Spec => []SingleHome
BY Invariance, PTL DEF Inv
-----------------------------------------------------------------------------
(* The action properties.  A touch, a write and a sweep change a slot only *)
(* when it holds the very entry the thread has seen, so what is known of   *)
(* that entry is known of the slot.                                        *)

LEMMA ExpiredStays ==
    ASSUME NEW e \in Entry, NEW ty \in Type, NEW t \in Time, t <= now, now \in Time,
           Expired(e, ty, t)
    PROVE  Expired(e, ty, now)
<1>1. /\ Sliding[ty] \in Nat \cup {NoLimit} /\ Absolute[ty] \in Nat \cup {NoLimit}
      /\ e.created \in Nat /\ e.accessed \in Nat /\ t \in Nat /\ now \in Nat
  BY ExpirationAssumption, MaxTimeAssumption DEF Entry, Time
<1>2. ASSUME NEW l \in Nat \cup {NoLimit}, NEW b \in Nat, Past(l, b, t)
      PROVE  Past(l, b, now)
  BY <1>1, <1>2 DEF Past
<1> QED BY <1>1, <1>2 DEF Expired

(* The clean-up spares an entry that was used after it was found expired.  *)
THEOREM CleanupSparesLive == Spec => SweepSparesLive
<1>1. ASSUME Inv, [Next]_vars, NEW c \in Call, NEW s \in Slot,
             Leaves(c, "sweep.remove"), store[s] # NoEntry, store'[s] = NoEntry
      PROVE  Expired(store[s], s[2], now)
  <2> DEFINE f == call[c]
  <2>1. /\ f \in Frame /\ f.pc = "sweep.remove" /\ f.slot \in Slot /\ f.seen \in Entry
        /\ Expired(f.seen, f.slot[2], f.at) /\ f.at <= now /\ f.at \in Time /\ now \in Time
    BY <1>1 DEF Inv, Typed, FrameOK, HasSlot, HasSeen, Leaves, At, NoFuture, Frame
  <2>2. SweepRemove(c)
    <3>1. ASSUME NEW d \in Call, d # c, Start(d) \/ Continue(d) PROVE call'[c] = call[c]
      <4>1. (\E g : Become(d, g)) \/ call' = call
        BY <3>1, MoveBecomes, NextPlain, <1>1 DEF Inv, Plain
      <4> QED BY <3>1, <4>1, <1>1 DEF Become, Inv, Typed
    <3>2. Start(c) \/ Continue(c)
      BY <1>1, <3>1 DEF Next, Tick, vars, Leaves
    <3> QED BY <2>1, <3>2 DEF Start, Continue, At, GetStart, GetRead, GetCheck,
            GetEvict, GetTouch, GetRetry, SetStart, SetRead, SetWrite, SetRetry, Remove,
            RefreshStart, RefreshRead, RefreshTouch, RefreshRetry, SweepStart,
            SweepVisit, ClearStart, ClearRemove, MigrateStart, MigrateTake,
            MigratePut, LoopEnd
  <2>3. StillSeen(c) /\ s = f.slot
    BY <1>1, <2>2 DEF SweepRemove, Put, Inv, Typed
  <2>4. store[s] = f.seen
    BY <1>1, <2>1, <2>3, SeenIsCurrent DEF Inv
  <2>5. f.slot[2] \in Type
    BY <2>1 DEF Slot
  <2> QED BY <2>1, <2>3, <2>4, <2>5, ExpiredStays
<1>2. Inv /\ [Next]_vars =>
        [\A c \in Call, s \in Slot :
           Leaves(c, "sweep.remove") /\ store[s] # NoEntry /\ store'[s] = NoEntry
             => Expired(store[s], s[2], now)]_vars
  BY <1>1
<1> QED BY <1>2, Invariance, PTL DEF Spec, SweepSparesLive

-----------------------------------------------------------------------------
(* How each kind of step changes one slot.                                 *)
LEMMA TouchKeeps ==
    ASSUME Typed, Identity, NEW c \in Call, GetTouch(c) \/ RefreshTouch(c),
           NEW s \in Slot
    PROVE  /\ call[c].slot \in Slot /\ store[call[c].slot] = call[c].seen
           /\ store'[s].value = store[s].value
           /\ store'[s].created = store[s].created
           /\ s # call[c].slot => store'[s] = store[s]
<1> DEFINE n == WithLastAccessed(call[c].seen, call[c].at)
<1>1. call[c].slot \in Slot /\ StillSeen(c) /\ call[c].seen \in Entry
  BY DEF GetTouch, RefreshTouch, At, Typed, FrameOK, HasSlot, HasSeen
<1>2. store[call[c].slot] = call[c].seen
  BY <1>1, SeenIsCurrent
<1>3. n.value = call[c].seen.value /\ n.created = call[c].seen.created
  BY <1>1 DEF WithLastAccessed, Entry
<1>4. store' = [store EXCEPT ![call[c].slot] = n]
  BY DEF GetTouch, RefreshTouch, Put
<1> HIDE DEF n
<1> QED BY <1>1, <1>2, <1>3, <1>4 DEF Typed

LEMMA WriteKeeps ==
    ASSUME Typed, Identity, NEW c \in Call, SetWrite(c), NEW s \in Slot
    PROVE  /\ call[c].slot \in Slot /\ store[call[c].slot] = call[c].seen
           /\ store'[s] = IF s = call[c].slot THEN NewEntry(call[c]) ELSE store[s]
           /\ store[s] # NoEntry => store'[s].created = store[s].created
<1> DEFINE n == NewEntry(call[c])
<1>1. call[c].slot \in Slot /\ StillSeen(c)
  BY DEF SetWrite, At, Typed, FrameOK, HasSlot
<1>2. store[call[c].slot] = call[c].seen
  BY <1>1, SeenIsCurrent
<1>3. call[c].seen # NoEntry => n.created = call[c].seen.created
  BY DEF NewEntry
<1>4. store' = [store EXCEPT ![call[c].slot] = n]
  BY DEF SetWrite, Put
<1> HIDE DEF n
<1>5. store'[s] = IF s = call[c].slot THEN n ELSE store[s]
  BY <1>4 DEF Typed
<1> QED BY <1>1, <1>2, <1>3, <1>5 DEF n

(* The other steps leave a slot as it is, or empty it, or are the one that *)
(* puts a migrated entry down.                                             *)
LEMMA OtherSteps ==
    ASSUME Typed, NEW c \in Call, Start(c) \/ Continue(c),
           ~GetTouch(c), ~RefreshTouch(c), ~SetWrite(c), ~MigratePut(c),
           NEW s \in Slot
    PROVE  store'[s] = store[s] \/ store'[s] = NoEntry
<1>1. store' = store \/ \E r : Put(r, NoEntry)
  BY DEF Start, Continue, GetStart, GetRead, GetCheck, GetEvict, GetRetry,
         SetStart, SetRead, SetRetry, Remove, RefreshStart, RefreshRead,
         RefreshRetry, SweepStart, SweepVisit, SweepRemove, ClearStart,
         ClearRemove, MigrateStart, MigrateTake, LoopEnd
<1> QED BY <1>1 DEF Put, Typed

(* Nothing moves the creation time of an occupied slot.                    *)
THEOREM BirthsAreKept == Spec => BirthIsKept
<1>1. ASSUME Inv, [Next]_vars, NEW s \in Slot, store[s] # NoEntry, store'[s] # NoEntry
      PROVE  store'[s].created = store[s].created
  <2> USE <1>1 DEF Inv
  <2>0. store \in [Slot -> Entry \cup {NoEntry}] /\ store[s] \in Entry
    BY DEF Typed
  <2>1. CASE UNCHANGED store
    BY <2>1
  <2>2. ASSUME NEW c \in Call, GetTouch(c) \/ RefreshTouch(c)
        PROVE  store'[s].created = store[s].created
    BY <2>2, TouchKeeps
  <2>3. ASSUME NEW c \in Call, SetWrite(c)
        PROVE  store'[s].created = store[s].created
    BY <2>3, WriteKeeps
  <2>4. ASSUME NEW c \in Call, MigratePut(c)
        PROVE  store'[s] = store[s]
    BY <2>0, <2>4 DEF MigratePut, Put
  <2>5. ASSUME NEW c \in Call, Start(c) \/ Continue(c), ~GetTouch(c),
               ~RefreshTouch(c), ~SetWrite(c), ~MigratePut(c)
        PROVE  store'[s] = store[s]
    BY <2>5, OtherSteps
  <2> QED BY <2>1, <2>2, <2>3, <2>4, <2>5 DEF Next, Tick, vars
<1>2. Inv /\ [Next]_vars =>
        [\A s \in Slot : store[s] # NoEntry /\ store'[s] # NoEntry
           => store'[s].created = store[s].created]_vars
  BY <1>1
<1> QED BY <1>2, Invariance, PTL DEF Spec, BirthIsKept

(* A slot gets a new value only from a write of it or a migration.         *)
THEOREM OnlyWritersGiveValues == Spec => ValuesComeFromWriters
<1>1. ASSUME Inv, [Next]_vars, NEW s \in Slot,
             store'[s] # NoEntry, store'[s].value # store[s].value
      PROVE  \E c \in Call :
               \/ /\ Leaves(c, "set.write")
                  /\ call[c].slot = s
                  /\ call[c].value = store'[s].value
               \/ /\ Leaves(c, "migrate.put")
                  /\ store[s] = NoEntry
                  /\ s[1] = call[c].dest
                  /\ store'[s] = call[c].seen
  <2> USE <1>1 DEF Inv
  <2>0. store \in [Slot -> Entry \cup {NoEntry}] /\ call \in [Call -> Frame]
    BY DEF Typed
  <2>1. ~UNCHANGED store
    OBVIOUS
  <2>2. ASSUME NEW c \in Call, GetTouch(c) \/ RefreshTouch(c)
        PROVE  FALSE
    BY <2>2, TouchKeeps
  <2>3. ASSUME NEW c \in Call, SetWrite(c)
        PROVE  /\ Leaves(c, "set.write")
               /\ call[c].slot = s
               /\ call[c].value = store'[s].value
    <3>1. store'[s] = IF s = call[c].slot THEN NewEntry(call[c]) ELSE store[s]
      BY <2>3, WriteKeeps
    <3>2. call[c].pc = "set.write" /\ call'[c].pc = "idle"
      BY <2>0, <2>3 DEF SetWrite, Become, At, Idle
    <3> QED BY <3>1, <3>2 DEF NewEntry, Leaves, At
  <2>4. ASSUME NEW c \in Call, MigratePut(c)
        PROVE  /\ Leaves(c, "migrate.put")
               /\ store[s] = NoEntry
               /\ s[1] = call[c].dest
               /\ store'[s] = call[c].seen
    <3>1. call[c] \in Frame /\ call[c].pc = "migrate.put" /\ call'[c].pc = "migrate.take"
      BY <2>0, <2>4 DEF MigratePut, Become, At, Frame
    <3>2. Put(Destination(c), call[c].seen) /\ store[Destination(c)] = NoEntry
      BY <2>1, <2>4 DEF MigratePut
    <3>3. s = Destination(c)
      BY <2>0, <3>2 DEF Put
    <3> QED BY <2>0, <3>1, <3>2, <3>3 DEF Put, Destination, Leaves, At
  <2>5. ASSUME NEW c \in Call, Start(c) \/ Continue(c), ~GetTouch(c),
               ~RefreshTouch(c), ~SetWrite(c), ~MigratePut(c)
        PROVE  FALSE
    BY <2>5, OtherSteps
  <2> QED BY <2>1, <2>2, <2>3, <2>4, <2>5 DEF Next, Tick, vars
<1>2. Inv /\ [Next]_vars =>
        [\A s \in Slot :
           store'[s] # NoEntry /\ store'[s].value # store[s].value =>
             \E c \in Call :
               \/ /\ Leaves(c, "set.write")
                  /\ call[c].slot = s
                  /\ call[c].value = store'[s].value
               \/ /\ Leaves(c, "migrate.put")
                  /\ store[s] = NoEntry
                  /\ s[1] = call[c].dest
                  /\ store'[s] = call[c].seen]_vars
  BY <1>1
<1> QED BY <1>2, Invariance, PTL DEF Spec, ValuesComeFromWriters
-----------------------------------------------------------------------------
(* SessionStore implements AtomicStore.                                    *)
Lives == [s \in Slot |-> Strip(store[s])]
Hand == [c \in Call |-> IF At(c, "migrate.put") THEN Strip(call[c].seen)
                                               ELSE Strip(NoEntry)]

LEMMA StripTyped ==
    /\ Strip(NoEntry) = Atomic!NoLife
    /\ \A e \in Entry : Strip(e) # Atomic!NoLife
BY NullAssumption DEF Strip, NoEntry, Entry, Atomic!NoLife

LEMMA LivesAfterPut ==
    ASSUME Typed, NEW r \in Slot, NEW e, Put(r, e)
    PROVE  Lives' = [Lives EXCEPT ![r] = Strip(e)]
BY DEF Typed, Put, Lives

LEMMA HandAfterPlain ==
    ASSUME Typed, NEW c \in Call, NEW f, Plain(c, f), ~At(c, "migrate.put")
    PROVE  Hand' = Hand
<1>1. \A d \in Call : At(d, "migrate.put")' <=> At(d, "migrate.put")
  BY DEF Plain, Become, Typed, At
<1>2. \A d \in Call : At(d, "migrate.put") => call'[d] = call[d]
  BY DEF Plain, Become, Typed
<1> QED BY <1>1, <1>2 DEF Hand

LEMMA PlainKeepsHand ==
    ASSUME Typed, NoFuture, NEW c \in Call, Start(c) \/ Continue(c), ~Moves(c)
    PROVE  Hand' = Hand /\ now' = now
<1>1. PICK f : Plain(c, f)
  BY NextPlain
<1>2. ~At(c, "migrate.put")
  BY DEF Start, Continue, Moves, At, GetStart, GetRead, GetCheck,
         GetEvict, GetTouch, GetRetry, SetStart, SetRead, SetWrite, SetRetry, Remove,
         RefreshStart, RefreshRead, RefreshTouch, RefreshRetry, SweepStart,
         SweepVisit, SweepRemove, ClearStart, ClearRemove, MigrateStart, LoopEnd
<1> QED BY <1>1, <1>2, HandAfterPlain DEF Plain

LEMMA TouchIsUse ==
    ASSUME Inv, NEW c \in Call, GetTouch(c) \/ RefreshTouch(c)
    PROVE  Atomic!Use(call[c].slot, call[c].at)
<1> DEFINE f == call[c]
           n == WithLastAccessed(f.seen, f.at)
<1>1. /\ f.slot \in Slot /\ f.seen \in Entry /\ f.at <= now
      /\ ~Expired(f.seen, f.slot[2], f.at)
  BY DEF GetTouch, RefreshTouch, At, Inv, Typed, FrameOK, HasSlot, HasSeen, NoFuture
<1>2. store[f.slot] = f.seen
  BY <1>1, TouchKeeps DEF Inv
<1>3. Lives[f.slot] = Strip(f.seen)
  BY <1>1, <1>2 DEF Lives
<1>4. Strip(n) = [Strip(f.seen) EXCEPT !.accessed = f.at]
  BY <1>1 DEF Strip, WithLastAccessed, Entry
<1>5. Lives' = [Lives EXCEPT ![f.slot] = Strip(n)]
  BY <1>1, LivesAfterPut DEF GetTouch, RefreshTouch, Inv
<1> HIDE DEF n
<1>6. Lives' = [Lives EXCEPT ![f.slot].accessed = f.at]
  BY <1>3, <1>4, <1>5
<1>7. Lives[f.slot] # Atomic!NoLife
  BY <1>1, <1>3, StripTyped
<1>8. ~Atomic!Ended(Lives[f.slot], f.slot[2], f.at)
  BY <1>1, <1>3 DEF Atomic!Ended, Expired, Past, Strip
<1>9. Hand' = Hand /\ now' = now
  BY PlainKeepsHand DEF Continue, Moves, Inv, GetTouch, RefreshTouch, MigrateTake,
     MigratePut, At
<1> QED BY <1>1, <1>6, <1>7, <1>8, <1>9 DEF Atomic!Use, Lives, Hand
LEMMA SetWriteIsWrite ==
    ASSUME Inv, NEW c \in Call, SetWrite(c)
    PROVE  Atomic!Write(call[c].slot, call[c].value, call[c].at)
<1> DEFINE f == call[c]
           n == NewEntry(f)
<1>1. f.slot \in Slot /\ f.at <= now /\ store[f.slot] \in Entry \cup {NoEntry}
  BY DEF SetWrite, At, Inv, Typed, FrameOK, HasSlot, NoFuture
<1>2. store[f.slot] = f.seen
  BY <1>1, WriteKeeps DEF Inv
<1>3. Lives[f.slot] = Strip(f.seen)
  BY <1>1, <1>2 DEF Lives
<1>4. f.seen = NoEntry <=> Strip(f.seen) = Atomic!NoLife
  BY <1>1, <1>2, StripTyped
<1>5. Strip(n) = [value |-> f.value, accessed |-> f.at,
                  created |-> IF Strip(f.seen) = Atomic!NoLife
                              THEN f.at ELSE Strip(f.seen).created]
  BY <1>4 DEF Strip, NewEntry
<1>6. Lives' = [Lives EXCEPT ![f.slot] = Strip(n)]
  BY <1>1, LivesAfterPut DEF SetWrite, Inv
<1> HIDE DEF n
<1>7. Lives' = [Lives EXCEPT ![f.slot] =
                  [value |-> f.value, accessed |-> f.at,
                   created |-> IF @ = Atomic!NoLife THEN f.at ELSE @.created]]
  BY <1>3, <1>5, <1>6
<1>8. Hand' = Hand /\ now' = now
  BY PlainKeepsHand DEF Continue, Moves, Inv, SetWrite, MigrateTake, MigratePut, At
<1> QED BY <1>1, <1>7, <1>8 DEF Atomic!Write, Lives, Hand

LEMMA TakeIsPickUp ==
    ASSUME Inv, NEW c \in Call, MigrateTake(c)
    PROVE  \/ UNCHANGED <<Lives, Hand, now>>
           \/ \E s \in Slot : Atomic!PickUp(c, s)
<1> DEFINE f == call[c]
<1>0. f \in Frame /\ f.todo \in SUBSET Slot /\ f.pc = "migrate.take"
  BY DEF Inv, Typed, Frame, MigrateTake, At
<1>1. PICK r \in Slot :
        /\ Put(r, NoEntry)
        /\ IF store[r] = NoEntry
           THEN Become(c, [f EXCEPT !.todo = @ \ {r}])
           ELSE Become(c, [f EXCEPT !.pc = "migrate.put", !.slot = r,
                                    !.seen = store[r], !.todo = @ \ {r}])
  BY <1>0 DEF MigrateTake
<1>2. Lives' = [Lives EXCEPT ![r] = Atomic!NoLife] /\ Lives[r] = Strip(store[r])
  BY <1>1, LivesAfterPut, StripTyped DEF Inv, Lives
<1>3. now' = now /\ Hand[c] = Atomic!NoLife
  BY <1>0, StripTyped DEF MigrateTake, Hand, At
<1>4. \A d \in Call \ {c} : call'[d] = call[d]
  BY <1>1 DEF Become, Inv, Typed
<1>5. CASE store[r] = NoEntry
  <2>1. call'[c].pc = "migrate.take"
    BY <1>0, <1>1, <1>5 DEF Become, Inv, Typed, Frame
  <2>2. Hand' = Hand
    BY <1>0, <1>4, <2>1 DEF Hand, At
  <2>3. Lives' = Lives
    BY <1>2, <1>5, StripTyped DEF Lives
  <2> QED BY <1>3, <2>2, <2>3
<1>6. CASE store[r] # NoEntry
  <2>1. call'[c].pc = "migrate.put" /\ call'[c].seen = store[r]
    BY <1>0, <1>1, <1>6 DEF Become, Inv, Typed, Frame
  <2>2. Hand' = [Hand EXCEPT ![c] = Lives[r]]
    BY <1>2, <1>4, <2>1 DEF Hand, At
  <2>3. Lives[r] # Atomic!NoLife
    BY <1>2, <1>6, StripTyped DEF Inv, Typed
  <2> QED BY <1>2, <1>3, <2>2, <2>3 DEF Atomic!PickUp, Lives, Hand
<1> QED BY <1>5, <1>6

LEMMA PutIsPutDown ==
    ASSUME Inv, NEW c \in Call, MigratePut(c)
    PROVE  \E s \in Slot : Atomic!PutDown(c, s)
<1> DEFINE f == call[c]
           r == Destination(c)
<1>0. /\ f \in Frame /\ f.pc = "migrate.put" /\ f.seen \in Entry
      /\ f.slot \in Slot /\ f.dest \in Key
  BY DEF Inv, Typed, MigratePut, At, FrameOK, HasSeen, HasSlot
<1>1. r \in Slot
  BY <1>0 DEF Destination, Slot
<1>2. IF store[r] = NoEntry THEN Put(r, f.seen) ELSE UNCHANGED store
  BY DEF MigratePut
<1>3. call' = [call EXCEPT ![c] = [f EXCEPT !.pc = "migrate.take", !.slot = NoSlot,
                                            !.seen = NoEntry]]
      /\ now' = now
  BY DEF MigratePut, Become
<1> HIDE DEF r
<1>4. Hand[c] = Strip(f.seen) /\ Hand[c] # Atomic!NoLife
  BY <1>0, StripTyped DEF Hand, At
<1>5. Hand' = [Hand EXCEPT ![c] = Atomic!NoLife]
  <2>1. call'[c].pc = "migrate.take" /\ \A d \in Call \ {c} : call'[d] = call[d]
    BY <1>0, <1>3 DEF Inv, Typed, Frame
  <2> QED BY <2>1, StripTyped DEF Hand, At
<1>6. Lives' = IF Lives[r] = Atomic!NoLife THEN [Lives EXCEPT ![r] = Hand[c]] ELSE Lives
  <2>1. Lives[r] = Strip(store[r]) /\ store[r] \in Entry \cup {NoEntry}
    BY <1>1 DEF Lives, Inv, Typed
  <2>2. Lives[r] = Atomic!NoLife <=> store[r] = NoEntry
    BY <2>1, StripTyped
  <2>3. store' = store => Lives' = Lives
    BY DEF Lives
  <2> QED BY <1>1, <1>2, <1>4, <2>2, <2>3, LivesAfterPut DEF Inv
<1> QED BY <1>1, <1>3, <1>4, <1>5, <1>6 DEF Atomic!PutDown, Lives, Hand

LEMMA OtherIsDrop ==
    ASSUME Inv, NEW c \in Call, Start(c) \/ Continue(c), ~Moves(c),
           ~GetTouch(c), ~RefreshTouch(c), ~SetWrite(c)
    PROVE  \/ UNCHANGED <<Lives, Hand, now>>
           \/ \E s \in Slot : Atomic!Drop(s)
<1>1. Hand' = Hand /\ now' = now
  BY PlainKeepsHand DEF Inv
<1>2. store' = store \/ \E r \in Slot : Put(r, NoEntry)
  BY DEF Start, Continue, GetStart, GetRead, GetCheck, GetEvict, GetRetry,
         SetStart, SetRead, SetRetry, Remove, RefreshStart, RefreshRead,
         RefreshRetry, SweepStart, SweepVisit, SweepRemove, ClearStart,
         ClearRemove, MigrateStart, LoopEnd, Moves, Inv, Typed, FrameOK, HasSlot,
         At, Frame
<1>3. store' = store => Lives' = Lives
  BY DEF Lives
<1>4. ASSUME NEW r \in Slot, Put(r, NoEntry) PROVE Atomic!Drop(r)
  BY <1>1, <1>4, LivesAfterPut, StripTyped DEF Inv, Atomic!Drop, Lives, Hand
<1> QED BY <1>1, <1>2, <1>3, <1>4

(* Every step of every method is a step of AtomicStore or changes nothing  *)
(* there: the methods act on the slots as atomic operations.               *)
THEOREM StoreIsAtomic == Spec => ImplementsAtomicStore
<1>1. Init => Atomic!AInit
  <2> SUFFICES ASSUME Init PROVE Atomic!AInit
    OBVIOUS
  <2>1. \A s \in Slot : store[s] = NoEntry
    BY DEF Init
  <2>2. \A c \in Call : ~At(c, "migrate.put")
    BY DEF Init, Idle, At
  <2> QED BY <2>1, <2>2, StripTyped DEF Atomic!AInit, Atomic!Slots, Slot, Init
<1>2. ASSUME Inv, [Next]_vars PROVE [Atomic!ANext]_(Atomic!avars)
  <2>1. ASSUME NEW c \in Call, Start(c) \/ Continue(c)
        PROVE  Atomic!ANext \/ UNCHANGED <<Lives, Hand, now>>
    <3>0. Atomic!Slots = Slot /\ Time = 0 .. MaxTime
      BY DEF Atomic!Slots, Slot, Time
    <3>1. CASE GetTouch(c) \/ RefreshTouch(c)
      <4>1. call[c].slot \in Slot /\ call[c].at \in Time
        BY <1>2, <3>1 DEF GetTouch, RefreshTouch, At, Inv, Typed, FrameOK, HasSlot, Frame
      <4> QED BY <1>2, <3>0, <3>1, <4>1, TouchIsUse DEF Atomic!ANext
    <3>2. CASE SetWrite(c)
      <4>1. call[c].slot \in Slot /\ call[c].at \in Time /\ call[c].value \in Value
        BY <1>2, <3>2 DEF SetWrite, At, Inv, Typed, FrameOK, HasSlot, Frame
      <4> QED BY <1>2, <3>0, <3>2, <4>1, SetWriteIsWrite DEF Atomic!ANext
    <3>3. CASE Moves(c)
      BY <1>2, <3>0, <3>3, TakeIsPickUp, PutIsPutDown DEF Atomic!ANext, Moves
    <3>4. CASE ~Moves(c) /\ ~GetTouch(c) /\ ~RefreshTouch(c) /\ ~SetWrite(c)
      BY <1>2, <2>1, <3>0, <3>4, OtherIsDrop DEF Atomic!ANext
    <3> QED BY <3>1, <3>2, <3>3, <3>4
  <2>2. ASSUME Tick PROVE Atomic!Pass
    BY <2>2 DEF Tick, Atomic!Pass, At
  <2>3. UNCHANGED vars => UNCHANGED <<Lives, Hand, now>>
    BY DEF vars, Lives, Hand, At
  <2> QED BY <1>2, <2>1, <2>2, <2>3 DEF Next, Atomic!ANext, Atomic!avars, Lives, Hand
<1> QED BY <1>1, <1>2, Invariance, PTL DEF Spec, ImplementsAtomicStore, Atomic!ASpec
=============================================================================
