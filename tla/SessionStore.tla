---------------------------- MODULE SessionStore ----------------------------
(***************************************************************************)
(* InMemorySessionAndStateBackend: session entries in one                  *)
(* ConcurrentDictionary, keyed by (session key, state type), shared by     *)
(* every circuit, every HTTP request and the clean-up service.             *)
(*                                                                         *)
(* A dictionary operation (TryGetValue, TryAdd, TryUpdate, TryRemove, the  *)
(* Keys snapshot) is one atomic step; a backend method is the sequence of  *)
(* the steps it makes, and the steps of different calls interleave.        *)
(* SessionStateEntry has no Equals, so TryUpdate and TryRemove(pair)       *)
(* compare object identity: every entry carries an identity `id', fresh    *)
(* when the object is allocated and free again once nothing refers to it.  *)
(***************************************************************************)
EXTENDS Naturals

CONSTANTS
    Key,        \* session keys
    Type,       \* state types, the T of GetAsync<T>
    Value,      \* values of those types
    Call,       \* threads that run backend methods
    Ref,        \* object identities of entries
    MaxTime,    \* bound on the clock
    Sliding,    \* T.SlidingExpiration, per type
    Absolute,   \* T.AbsoluteExpiration, per type
    NoLimit,    \* Expiration.None
    NoRef, NoValue, NoSlot, NoKey

ASSUME MaxTimeAssumption == MaxTime \in Nat

ASSUME ExpirationAssumption ==
    /\ NoLimit \notin Nat
    /\ Sliding \in [Type -> (Nat \ {0}) \cup {NoLimit}]
    /\ Absolute \in [Type -> (Nat \ {0}) \cup {NoLimit}]

ASSUME NullAssumption ==
    /\ NoRef \notin Ref
    /\ NoValue \notin Value
    /\ NoSlot \notin Key \X Type
    /\ NoKey \notin Key

VARIABLES
    store,      \* _store: the entry of each slot, or NoEntry
    now,        \* what _timeProvider.GetUtcNow() returns
    call        \* for each thread, the method it is in and its locals

vars == <<store, now, call>>

Slot == Key \X Type
Time == 0 .. MaxTime

Entry == [id : Ref, value : Value, created : Time, accessed : Time]
NoEntry == [id |-> NoRef, value |-> NoValue, created |-> 0, accessed |-> 0]

Pc == {"idle", "get.read", "get.check", "get.evict", "get.touch",
       "set.read", "set.write", "refresh.read", "refresh.touch",
       "sweep.visit", "sweep.remove", "clear.remove",
       "migrate.take", "migrate.put"}

Frame == [pc : Pc, slot : Slot \cup {NoSlot}, value : Value \cup {NoValue},
          at : Time, seen : Entry \cup {NoEntry}, todo : SUBSET Slot,
          dest : Key \cup {NoKey}]

Idle == [pc |-> "idle", slot |-> NoSlot, value |-> NoValue, at |-> 0,
         seen |-> NoEntry, todo |-> {}, dest |-> NoKey]

TypeOK ==
    /\ store \in [Slot -> Entry \cup {NoEntry}]
    /\ now \in Time
    /\ call \in [Call -> Frame]

-----------------------------------------------------------------------------
(* Expiration.IsExpired: strictly after start + duration, never for None.  *)
Past(limit, start, t) == limit # NoLimit /\ t > start + limit

(* SessionStateEntry.IsExpired of an entry of type ty at time t.           *)
Expired(e, ty, t) ==
    \/ Past(Absolute[ty], e.created, t)
    \/ Past(Sliding[ty], e.accessed, t)

(* A newly allocated object has an identity nothing refers to; which one   *)
(* does not matter.                                                        *)
Used == {store[s].id : s \in Slot} \cup {call[c].seen.id : c \in Call}
CanAllocate == Ref \ Used # {}
NewRef == CHOOSE r \in Ref : r \notin Used

(* SessionStateEntry.WithLastAccessed.                                     *)
WithLastAccessed(e, t) == [e EXCEPT !.id = NewRef, !.accessed = t]

(* Thread c is at label pc; it moves on to frame f.                        *)
At(c, pc) == call[c].pc = pc
Become(c, f) == call' = [call EXCEPT ![c] = f]

(* TryUpdate and TryAdd succeed iff the slot still holds what c has seen   *)
(* (NoEntry for TryAdd).                                                   *)
StillSeen(c) == store[call[c].slot].id = call[c].seen.id

Put(s, e) == store' = [store EXCEPT ![s] = e]

-----------------------------------------------------------------------------
(* Faulty variants of the steps below.  No action uses them: each is what   *)
(* the step becomes under a plausible slip in the code, and is substituted  *)
(* for it to see that the property aimed at that slip notices.              *)

(* GetAsync stores the touched copy with the indexer, not with TryUpdate.   *)
TouchWithoutCompare(c) ==
    /\ At(c, "get.touch")
    /\ CanAllocate
    /\ Put(call[c].slot, WithLastAccessed(call[c].seen, call[c].at))
    /\ Become(c, Idle)
    /\ UNCHANGED now

(* GetAsync reads the entry once, before its retry loop.                    *)
RetryWithoutReread(c) ==
    /\ At(c, "get.touch")
    /\ ~StillSeen(c)
    /\ Become(c, [call[c] EXCEPT !.pc = "get.check"])
    /\ UNCHANGED <<store, now>>

(* SetAsync stores what its factory built with the indexer.                 *)
WriteWithoutCompare(c) ==
    /\ At(c, "set.write")
    /\ CanAllocate
    /\ Put(call[c].slot,
             [id |-> NewRef, value |-> call[c].value, accessed |-> call[c].at,
              created |-> IF call[c].seen = NoEntry THEN call[c].at
                                                    ELSE call[c].seen.created])
    /\ Become(c, Idle)
    /\ UNCHANGED now

(* RemoveExpiredAsync removes by key, as GetAsync does.                     *)
SweepByKey(c) ==
    /\ At(c, "sweep.remove")
    /\ Put(call[c].slot, NoEntry)
    /\ Become(c, [call[c] EXCEPT !.pc = "sweep.visit", !.slot = NoSlot,
                                 !.seen = NoEntry])
    /\ UNCHANGED now

(* RefreshAsync does not look whether TryGetValue found an entry.           *)
RefreshUnchecked(c) ==
    /\ At(c, "refresh.read")
    /\ LET e == store[call[c].slot] IN
         IF Expired(e, call[c].slot[2], call[c].at)
         THEN Become(c, Idle)
         ELSE Become(c, [call[c] EXCEPT !.pc = "refresh.touch", !.seen = e])
    /\ UNCHANGED <<store, now>>

(* RefreshAsync leaves its loop without returning once the entry is gone.   *)
RefreshWaits(c) ==
    /\ At(c, "refresh.read")
    /\ LET e == store[call[c].slot] IN
         /\ e # NoEntry
         /\ ~Expired(e, call[c].slot[2], call[c].at)
         /\ Become(c, [call[c] EXCEPT !.pc = "refresh.touch", !.seen = e])
    /\ UNCHANGED <<store, now>>

(* MigrateSessionAsync looks the entry up instead of removing it.           *)
TakeByLookup(c) ==
    /\ At(c, "migrate.take")
    /\ \E s \in call[c].todo :
         IF store[s] = NoEntry
         THEN Become(c, [call[c] EXCEPT !.todo = @ \ {s}])
         ELSE Become(c, [call[c] EXCEPT !.pc = "migrate.put", !.slot = s,
                                        !.seen = store[s], !.todo = @ \ {s}])
    /\ UNCHANGED <<store, now>>

(* MigrateSessionAsync overwrites the destination.                          *)
PutOverwrites(c) ==
    /\ At(c, "migrate.put")
    /\ Put(<<call[c].dest, call[c].slot[2]>>, call[c].seen)
    /\ Become(c, [call[c] EXCEPT !.pc = "migrate.take", !.slot = NoSlot,
                                 !.seen = NoEntry])
    /\ UNCHANGED now

-----------------------------------------------------------------------------
(* GetAsync: look the entry up; an expired one is removed by key, a live   *)
(* one is replaced by a copy with a new access time, or the call retries.  *)
GetStart(c) ==
    /\ At(c, "idle")
    /\ \E s \in Slot : Become(c, [Idle EXCEPT !.pc = "get.read", !.slot = s])
    /\ UNCHANGED <<store, now>>

GetRead(c) ==
    /\ At(c, "get.read")
    /\ LET e == store[call[c].slot] IN
         IF e = NoEntry
         THEN Become(c, Idle)
         ELSE Become(c, [call[c] EXCEPT !.pc = "get.check", !.seen = e])
    /\ UNCHANGED <<store, now>>

GetCheck(c) ==
    /\ At(c, "get.check")
    /\ IF Expired(call[c].seen, call[c].slot[2], now)
       THEN Become(c, [call[c] EXCEPT !.pc = "get.evict", !.seen = NoEntry])
       ELSE Become(c, [call[c] EXCEPT !.pc = "get.touch", !.at = now])
    /\ UNCHANGED <<store, now>>

GetEvict(c) ==
    /\ At(c, "get.evict")
    /\ Put(call[c].slot, NoEntry)
    /\ Become(c, Idle)
    /\ UNCHANGED now

GetTouch(c) ==
    /\ At(c, "get.touch")
    /\ StillSeen(c)
    /\ CanAllocate
    /\ Put(call[c].slot, WithLastAccessed(call[c].seen, call[c].at))
    /\ Become(c, Idle)
    /\ UNCHANGED now

GetRetry(c) ==
    /\ At(c, "get.touch")
    /\ ~StillSeen(c)
    /\ Become(c, [Idle EXCEPT !.pc = "get.read", !.slot = call[c].slot])
    /\ UNCHANGED <<store, now>>

-----------------------------------------------------------------------------
(* SetAsync: the time is sampled once, before AddOrUpdate; the update      *)
(* factory keeps the CreatedAt of the entry it saw, expired or not.        *)
SetStart(c) ==
    /\ At(c, "idle")
    /\ \E s \in Slot, v \in Value :
         Become(c, [Idle EXCEPT !.pc = "set.read", !.slot = s,
                                !.value = v, !.at = now])
    /\ UNCHANGED <<store, now>>

SetRead(c) ==
    /\ At(c, "set.read")
    /\ Become(c, [call[c] EXCEPT !.pc = "set.write",
                                 !.seen = store[call[c].slot]])
    /\ UNCHANGED <<store, now>>

(* The entry the add or the update factory builds.                         *)
NewEntry(f) ==
    [id |-> NewRef, value |-> f.value, accessed |-> f.at,
     created |-> IF f.seen = NoEntry THEN f.at ELSE f.seen.created]

SetWrite(c) ==
    /\ At(c, "set.write")
    /\ StillSeen(c)
    /\ CanAllocate
    /\ Put(call[c].slot, NewEntry(call[c]))
    /\ Become(c, Idle)
    /\ UNCHANGED now

SetRetry(c) ==
    /\ At(c, "set.write")
    /\ ~StillSeen(c)
    /\ Become(c, [call[c] EXCEPT !.pc = "set.read", !.seen = NoEntry])
    /\ UNCHANGED <<store, now>>

(* RemoveAsync is the single TryRemove(key).                               *)
Remove(c) ==
    /\ At(c, "idle")
    /\ \E s \in Slot : Put(s, NoEntry)
    /\ UNCHANGED <<now, call>>

-----------------------------------------------------------------------------
(* RefreshAsync: the time is sampled once, before the retry loop.          *)
RefreshStart(c) ==
    /\ At(c, "idle")
    /\ \E s \in Slot :
         Become(c, [Idle EXCEPT !.pc = "refresh.read", !.slot = s, !.at = now])
    /\ UNCHANGED <<store, now>>

RefreshRead(c) ==
    /\ At(c, "refresh.read")
    /\ LET e == store[call[c].slot] IN
         IF e = NoEntry \/ Expired(e, call[c].slot[2], call[c].at)
         THEN Become(c, Idle)
         ELSE Become(c, [call[c] EXCEPT !.pc = "refresh.touch", !.seen = e])
    /\ UNCHANGED <<store, now>>

RefreshTouch(c) ==
    /\ At(c, "refresh.touch")
    /\ StillSeen(c)
    /\ CanAllocate
    /\ Put(call[c].slot, WithLastAccessed(call[c].seen, call[c].at))
    /\ Become(c, Idle)
    /\ UNCHANGED now

RefreshRetry(c) ==
    /\ At(c, "refresh.touch")
    /\ ~StillSeen(c)
    /\ Become(c, [call[c] EXCEPT !.pc = "refresh.read", !.seen = NoEntry])
    /\ UNCHANGED <<store, now>>

-----------------------------------------------------------------------------
(* RemoveExpiredAsync: the enumerator walks the buckets without a          *)
(* snapshot; a pair that was expired at the sampled time is removed only   *)
(* if the dictionary still holds that very object.                         *)
SweepStart(c) ==
    /\ At(c, "idle")
    /\ Become(c, [Idle EXCEPT !.pc = "sweep.visit", !.at = now, !.todo = Slot])
    /\ UNCHANGED <<store, now>>

SweepVisit(c) ==
    /\ At(c, "sweep.visit")
    /\ \E s \in call[c].todo :
         LET e == store[s]
             left == call[c].todo \ {s}
         IN IF e # NoEntry /\ Expired(e, s[2], call[c].at)
            THEN Become(c, [call[c] EXCEPT !.pc = "sweep.remove", !.slot = s,
                                           !.seen = e, !.todo = left])
            ELSE Become(c, [call[c] EXCEPT !.todo = left])
    /\ UNCHANGED <<store, now>>

SweepRemove(c) ==
    /\ At(c, "sweep.remove")
    /\ IF StillSeen(c) THEN Put(call[c].slot, NoEntry) ELSE UNCHANGED store
    /\ Become(c, [call[c] EXCEPT !.pc = "sweep.visit", !.slot = NoSlot,
                                 !.seen = NoEntry])
    /\ UNCHANGED now

(* RemoveAllForKeyAsync: the keys are a snapshot, the removals are not.    *)
ClearStart(c) ==
    /\ At(c, "idle")
    /\ \E k \in Key :
         Become(c, [Idle EXCEPT !.pc = "clear.remove",
                                !.todo = {s \in Slot : s[1] = k /\ store[s] # NoEntry}])
    /\ UNCHANGED <<store, now>>

ClearRemove(c) ==
    /\ At(c, "clear.remove")
    /\ \E s \in call[c].todo :
         /\ Put(s, NoEntry)
         /\ Become(c, [call[c] EXCEPT !.todo = @ \ {s}])
    /\ UNCHANGED now

-----------------------------------------------------------------------------
(* MigrateSessionAsync: each entry of the snapshot is taken out of its     *)
(* source slot and then added to the destination, unless that is occupied. *)
MigrateStart(c) ==
    /\ At(c, "idle")
    /\ \E k \in Key : \E d \in Key \ {k} :
         Become(c, [Idle EXCEPT !.pc = "migrate.take", !.dest = d,
                                !.todo = {s \in Slot : s[1] = k /\ store[s] # NoEntry}])
    /\ UNCHANGED <<store, now>>

MigrateTake(c) ==
    /\ At(c, "migrate.take")
    /\ \E s \in call[c].todo :
         /\ Put(s, NoEntry)
         /\ IF store[s] = NoEntry
            THEN Become(c, [call[c] EXCEPT !.todo = @ \ {s}])
            ELSE Become(c, [call[c] EXCEPT !.pc = "migrate.put", !.slot = s,
                                           !.seen = store[s], !.todo = @ \ {s}])
    /\ UNCHANGED now

Destination(c) == <<call[c].dest, call[c].slot[2]>>

MigratePut(c) ==
    /\ At(c, "migrate.put")
    /\ IF store[Destination(c)] = NoEntry
       THEN Put(Destination(c), call[c].seen)
       ELSE UNCHANGED store
    /\ Become(c, [call[c] EXCEPT !.pc = "migrate.take", !.slot = NoSlot,
                                 !.seen = NoEntry])
    /\ UNCHANGED now

(* The three loops over keys return when nothing is left to visit.         *)
LoopEnd(c) ==
    /\ call[c].pc \in {"sweep.visit", "clear.remove", "migrate.take"}
    /\ call[c].todo = {}
    /\ Become(c, Idle)
    /\ UNCHANGED <<store, now>>

-----------------------------------------------------------------------------
Tick ==
    /\ now < MaxTime
    /\ now' = now + 1
    /\ UNCHANGED <<store, call>>

Start(c) ==
    \/ GetStart(c) \/ SetStart(c) \/ Remove(c) \/ RefreshStart(c)
    \/ SweepStart(c) \/ ClearStart(c) \/ MigrateStart(c)

Continue(c) ==
    \/ GetRead(c) \/ GetCheck(c) \/ GetEvict(c) \/ GetTouch(c) \/ GetRetry(c)
    \/ SetRead(c) \/ SetWrite(c) \/ SetRetry(c)
    \/ RefreshRead(c) \/ RefreshTouch(c) \/ RefreshRetry(c)
    \/ SweepVisit(c) \/ SweepRemove(c)
    \/ ClearRemove(c)
    \/ MigrateTake(c) \/ MigratePut(c)
    \/ LoopEnd(c)

Init ==
    /\ store = [s \in Slot |-> NoEntry]
    /\ now = 0
    /\ call = [c \in Call |-> Idle]

Next == Tick \/ \E c \in Call : Start(c) \/ Continue(c)

Spec == Init /\ [][Next]_vars

(* A thread inside a backend method keeps running.                         *)
FairSpec == Spec /\ \A c \in Call : WF_vars(Continue(c))
-----------------------------------------------------------------------------
(* Thread c makes the step that leaves label pc.                           *)
Leaves(c, pc) == At(c, pc) /\ call'[c] # call[c]

(* An entry object is in one place: in one slot, or in the hand of the one *)
(* migration that took it out (MigrateSessionAsync: "Atomically remove     *)
(* from old key").  Two concurrent migrations cannot both move it.         *)
SingleHome ==
    /\ \A s, t \in Slot :
         s # t /\ store[s] # NoEntry => store[s].id # store[t].id
    /\ \A c \in Call : At(c, "migrate.put") =>
         /\ \A s \in Slot : store[s].id # call[c].seen.id
         /\ \A d \in Call \ {c} :
              At(d, "migrate.put") => call[d].seen.id # call[c].seen.id

(* The clean-up never removes an entry that somebody read, refreshed or    *)
(* wrote after it was found expired (RemoveExpiredAsync, TryRemove(pair)). *)
SweepSparesLive ==
    [][\A c \in Call, s \in Slot :
         Leaves(c, "sweep.remove") /\ store[s] # NoEntry /\ store'[s] = NoEntry
           => Expired(store[s], s[2], now)]_vars

(* A slot gets a value it did not hold only from a SetAsync of that value, *)
(* or from a migration into an empty slot: a read or a refresh that races  *)
(* a removal, a sign-out or a write never brings the old value back.       *)
ValuesComeFromWriters ==
    [][\A s \in Slot :
         store'[s] # NoEntry /\ store'[s].value # store[s].value =>
           \E c \in Call :
             \/ /\ Leaves(c, "set.write")
                /\ call[c].slot = s
                /\ call[c].value = store'[s].value
             \/ /\ Leaves(c, "migrate.put")
                /\ store[s] = NoEntry
                /\ s[1] = call[c].dest
                /\ store'[s] = call[c].seen]_vars

(* As long as a slot stays occupied its CreatedAt stands still, whatever   *)
(* reads and writes race in it: nothing pushes the absolute expiration     *)
(* back (ISessionStateType.AbsoluteExpiration: "Absolute maximum lifetime  *)
(* regardless of activity").                                               *)
BirthIsKept ==
    [][\A s \in Slot :
         store[s] # NoEntry /\ store'[s] # NoEntry
           => store'[s].created = store[s].created]_vars

(* Every backend method, its races and its retries included, acts on the   *)
(* slots as one atomic operation of AtomicStore at a time.                 *)
Strip(e) == [value |-> e.value, created |-> e.created, accessed |-> e.accessed]

Atomic == INSTANCE AtomicStore WITH
    lives <- [s \in Slot |-> Strip(store[s])],
    hand  <- [c \in Call |-> IF At(c, "migrate.put") THEN Strip(call[c].seen)
                                                     ELSE Strip(NoEntry)],
    clock <- now

ImplementsAtomicStore == Atomic!ASpec

(* The compare-and-swap loops of GetAsync, SetAsync and RefreshAsync end:  *)
(* once no new call is made, every call in progress returns.               *)
CallsReturn ==
    <>[][~\E c \in Call : Start(c)]_vars => <>[](\A c \in Call : At(c, "idle"))

(* And they are lock-free: however many calls keep coming, a call is in    *)
(* progress forever only while other calls return, since a thread retries  *)
(* only because another one's operation on the slot took effect.           *)
SomeCallReturns ==
    \/ []<>(\A c \in Call : At(c, "idle"))
    \/ []<><<\E c \in Call : ~At(c, "idle") /\ call'[c] = Idle>>_vars

(* A GetAsync that removes an entry removes an expired one                 *)
(* (ISessionStateType.SlidingExpiration: "resets on each access").         *)
GetEvictsOnlyExpired ==
    [][\A c \in Call, s \in Slot :
         Leaves(c, "get.evict") /\ store[s] # NoEntry /\ store'[s] = NoEntry
           => Expired(store[s], s[2], now)]_vars
=============================================================================
