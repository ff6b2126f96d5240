-------------------------- MODULE LockManagerProofs --------------------------
(* The locks of LockManager exclude each other, for any number of threads  *)
(* and names, as long as no handle is released again after its name has    *)
(* been taken anew.                                                        *)
EXTENDS LockManager, TLAPS

(* A taken name has one holder, and only taken names are held.  Neither    *)
(* half is inductive alone: AcquireAdd looks at the table to keep holders  *)
(* apart, Release needs the holders apart to keep the table right.         *)
Inv == TypeOK /\ MutualExclusion /\ IsLockedTells

LEMMA Initially == Init => Inv
BY DEF Init, Inv, TypeOK, MutualExclusion, IsLockedTells

LEMMA TypesKept == TypeOK /\ [Next]_vars => TypeOK'
<1> SUFFICES ASSUME TypeOK, [Next]_vars PROVE TypeOK'
  OBVIOUS
<1> USE DEF TypeOK
<1>1. ASSUME NEW t \in Thread, AcquireStart(t) PROVE TypeOK'
  BY <1>1 DEF AcquireStart
<1>2. ASSUME NEW t \in Thread, AcquireAdd(t) PROVE TypeOK'
  BY <1>2 DEF AcquireAdd
<1>3. ASSUME NEW t \in Thread, Release(t) PROVE TypeOK'
  BY <1>3 DEF Release
<1>4. ASSUME NEW t \in Thread, ReleaseAgain(t) PROVE TypeOK'
  BY <1>4 DEF ReleaseAgain
<1>5. ASSUME DisposeFlag \/ DisposeClear \/ UNCHANGED vars PROVE TypeOK'
  BY <1>5 DEF DisposeFlag, DisposeClear, vars
<1> QED BY <1>1, <1>2, <1>3, <1>4, <1>5 DEF Next

LEMMA Inductive ==
    ASSUME ~Late, Inv, [Next]_vars
    PROVE  Inv'
<1>1. TypeOK /\ TypeOK'
  BY TypesKept DEF Inv
<1>2. ASSUME NEW t \in Thread, AcquireAdd(t) PROVE MutualExclusion' /\ IsLockedTells'
  <2>1. CASE want[t] \in locks
    BY <1>2, <2>1 DEF AcquireAdd, Inv, MutualExclusion, IsLockedTells
  <2>2. CASE want[t] \notin locks
    <3>1. /\ locks' = locks \cup {want[t]} /\ scope' = scope
          /\ \A u \in Thread : held'[u] = IF u = t THEN held[t] \cup {want[t]} ELSE held[u]
      BY <1>1, <1>2, <2>2 DEF AcquireAdd, TypeOK
    <3>2. scope # "cleared" => \A u \in Thread : want[t] \notin held[u]
      BY <2>2 DEF Inv, IsLockedTells
    <3> QED BY <3>1, <3>2 DEF Inv, MutualExclusion, IsLockedTells
  <2> QED BY <2>1, <2>2
<1>3. ASSUME NEW t \in Thread, Release(t) PROVE MutualExclusion' /\ IsLockedTells'
  <2>1. PICK n \in held[t] :
          /\ locks' = locks \ {n} /\ scope' = scope
          /\ \A u \in Thread : held'[u] = IF u = t THEN held[t] \ {n} ELSE held[u]
    BY <1>1, <1>3 DEF Release, TypeOK
  <2>2. scope # "cleared" => \A u \in Thread \ {t} : n \notin held[u]
    BY <2>1 DEF Inv, MutualExclusion
  <2> QED BY <2>1, <2>2 DEF Inv, MutualExclusion, IsLockedTells
<1>4. ASSUME NEW t \in Thread, AcquireStart(t) PROVE MutualExclusion' /\ IsLockedTells'
  BY <1>4 DEF AcquireStart, Inv, MutualExclusion, IsLockedTells
<1>5. ASSUME DisposeFlag \/ DisposeClear \/ UNCHANGED vars
      PROVE  MutualExclusion' /\ IsLockedTells'
  BY <1>5 DEF DisposeFlag, DisposeClear, vars, Inv, MutualExclusion, IsLockedTells
<1>6. ASSUME NEW t \in Thread, ReleaseAgain(t) PROVE MutualExclusion' /\ IsLockedTells'
  BY <1>6 DEF ReleaseAgain, Inv, MutualExclusion, IsLockedTells
<1> QED BY <1>1, <1>2, <1>3, <1>4, <1>5, <1>6 DEF Next, Inv

(* The variables of the named locks keep their types, late releases        *)
(* included.                                                               *)
THEOREM TypeCorrect == Spec => []TypeOK
<1>1. Init => TypeOK BY Initially DEF Inv
<1> QED BY <1>1, TypesKept, PTL DEF Spec

LEMMA Guarded ==
    ASSUME ~Late
    PROVE  Spec => []Inv
<1>1. Inv /\ [Next]_vars => Inv'
  BY Inductive
<1> QED BY <1>1, Initially, PTL DEF Spec

(* When no handle is released late, no two threads of a scope that is not  *)
(* cleared hold one name.                                                  *)
THEOREM LocksExclude ==
    ASSUME ~Late
    PROVE  Spec => []MutualExclusion
<1>1. Inv => MutualExclusion BY DEF Inv
<1> QED BY <1>1, Guarded, PTL

(* ... and IsLocked is true of exactly the names somebody holds: no name   *)
(* stays locked after its holder, and none that is held can be acquired.   *)
THEOREM TableTells ==
    ASSUME ~Late
    PROVE  Spec => []IsLockedTells
<1>1. Inv => IsLockedTells BY DEF Inv
<1> QED BY <1>1, Guarded, PTL
=============================================================================
