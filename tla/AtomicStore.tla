----------------------------- MODULE AtomicStore -----------------------------
(***************************************************************************)
(* What the in-memory backend promises its callers, without object         *)
(* identities, retries or locals: a map from slots to lives that changes   *)
(* one slot at a time.  A life is a value with the time it was created and *)
(* the time it was last used.  A life that is being migrated is in the     *)
(* hand of the thread that moves it, and in no slot.                       *)
(***************************************************************************)
EXTENDS Naturals

CONSTANTS Key, Type, Value, Call, MaxTime, Sliding, Absolute, NoLimit, NoValue

VARIABLES
    lives,      \* the life in each slot, or NoLife
    hand,       \* the life each thread is moving, or NoLife
    clock

avars == <<lives, hand, clock>>

Slots == Key \X Type
Life == [value : Value, created : 0 .. MaxTime, accessed : 0 .. MaxTime]
NoLife == [value |-> NoValue, created |-> 0, accessed |-> 0]

Ended(life, ty, t) ==
    \/ Absolute[ty] # NoLimit /\ t > life.created + Absolute[ty]
    \/ Sliding[ty] # NoLimit /\ t > life.accessed + Sliding[ty]

(* Writing keeps the life's age; it starts a new life in an empty slot.    *)
Write(s, v, t) ==
    /\ t <= clock
    /\ lives' = [lives EXCEPT ![s] =
                   [value |-> v, accessed |-> t,
                    created |-> IF @ = NoLife THEN t ELSE @.created]]
    /\ UNCHANGED <<hand, clock>>

(* Reading or refreshing marks a life that had not ended, and only marks.  *)
Use(s, t) ==
    /\ t <= clock
    /\ lives[s] # NoLife
    /\ ~Ended(lives[s], s[2], t)
    /\ lives' = [lives EXCEPT ![s].accessed = t]
    /\ UNCHANGED <<hand, clock>>

(* A life ends by being removed, whatever the reason.                      *)
Drop(s) ==
    /\ lives' = [lives EXCEPT ![s] = NoLife]
    /\ UNCHANGED <<hand, clock>>

(* A migration takes a life out of its slot ...                            *)
PickUp(m, s) ==
    /\ hand[m] = NoLife
    /\ lives[s] # NoLife
    /\ hand' = [hand EXCEPT ![m] = lives[s]]
    /\ lives' = [lives EXCEPT ![s] = NoLife]
    /\ UNCHANGED clock

(* ... and puts it in an empty one, or lets it go where one is taken.      *)
PutDown(m, s) ==
    /\ hand[m] # NoLife
    /\ lives' = IF lives[s] = NoLife THEN [lives EXCEPT ![s] = hand[m]] ELSE lives
    /\ hand' = [hand EXCEPT ![m] = NoLife]
    /\ UNCHANGED clock

Pass ==
    /\ clock < MaxTime
    /\ clock' = clock + 1
    /\ UNCHANGED <<lives, hand>>

AInit ==
    /\ lives = [s \in Slots |-> NoLife]
    /\ hand = [m \in Call |-> NoLife]
    /\ clock = 0

ANext ==
    \/ \E s \in Slots, v \in Value, t \in 0 .. MaxTime : Write(s, v, t)
    \/ \E s \in Slots, t \in 0 .. MaxTime : Use(s, t)
    \/ \E s \in Slots : Drop(s)
    \/ \E m \in Call, s \in Slots : PickUp(m, s) \/ PutDown(m, s)
    \/ Pass

ASpec == AInit /\ [][ANext]_avars
=============================================================================
