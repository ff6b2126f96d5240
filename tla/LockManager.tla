----------------------------- MODULE LockManager -----------------------------
(***************************************************************************)
(* SessionStateLockManager and SessionStateLock: the named locks of one    *)
(* scope.  The manager is a dictionary of the names that are taken; a lock *)
(* handle is a copyable struct that knows its name and nothing else, so    *)
(* releasing a handle removes the name whoever put it there.               *)
(***************************************************************************)
EXTENDS Naturals

CONSTANTS
    Name,       \* lock names
    Thread,     \* threads of the scope
    Late,       \* whether a handle may be released again after its name
                \* has been taken anew
    NoName

ASSUME LateAssumption == Late \in BOOLEAN
ASSUME NoNameAssumption == NoName \notin Name

VARIABLES
    locks,      \* keys of _locks
    scope,      \* "live"; "disposed": _disposed is set; "cleared": Dispose is over
    want,       \* the name a thread has passed the _disposed check for, or NoName
    held,       \* the names a thread holds an unreleased handle for
    spent       \* the names a thread still keeps a released handle for

vars == <<locks, scope, want, held, spent>>

TypeOK ==
    /\ locks \subseteq Name
    /\ scope \in {"live", "disposed", "cleared"}
    /\ want \in [Thread -> Name \cup {NoName}]
    /\ held \in [Thread -> SUBSET Name]
    /\ spent \in [Thread -> SUBSET Name]

Init ==
    /\ locks = {}
    /\ scope = "live"
    /\ want = [t \in Thread |-> NoName]
    /\ held = [t \in Thread |-> {}]
    /\ spent = [t \in Thread |-> {}]

-----------------------------------------------------------------------------
(* Faulty variants, substituted for the steps below to try the properties. *)

(* The name is stored with the indexer, not with TryAdd.                   *)
AddUnconditionally(t) ==
    /\ want[t] # NoName
    /\ locks' = locks \cup {want[t]}
    /\ held' = [held EXCEPT ![t] = @ \cup {want[t]}]
    /\ want' = [want EXCEPT ![t] = NoName]
    /\ UNCHANGED <<scope, spent>>

(* Releasing the last handle of a thread leaves the name in the table.     *)
ReleaseNothing(t) ==
    /\ want[t] = NoName
    /\ \E n \in held[t] :
         /\ held' = [held EXCEPT ![t] = @ \ {n}]
         /\ spent' = [spent EXCEPT ![t] = @ \cup {n}]
    /\ UNCHANGED <<locks, scope, want>>

(* A call without a name gets past the argument check.                     *)
AddWithoutName(t) ==
    /\ want[t] \notin locks
    /\ locks' = locks \cup {want[t]}
    /\ held' = [held EXCEPT ![t] = @ \cup {want[t]}]
    /\ want' = [want EXCEPT ![t] = NoName]
    /\ UNCHANGED <<scope, spent>>

-----------------------------------------------------------------------------
(* TryAcquireLock, TryAcquireLockAsync (the timeout of either is ignored)  *)
(* and AcquireLockAsync: the _disposed check, which a call may not get     *)
(* past ...                                                                *)
AcquireStart(t) ==
    /\ want[t] = NoName
    /\ scope = "live"
    /\ \E n \in Name : want' = [want EXCEPT ![t] = n]
    /\ UNCHANGED <<locks, scope, held, spent>>

(* ... and the TryAdd.  A taken name is refused at once: AcquireLockAsync  *)
(* throws, the others return the empty handle, and nothing has changed.    *)
AcquireAdd(t) ==
    /\ want[t] # NoName
    /\ IF want[t] \in locks
       THEN UNCHANGED <<locks, held>>
       ELSE /\ locks' = locks \cup {want[t]}
            /\ held' = [held EXCEPT ![t] = @ \cup {want[t]}]
    /\ want' = [want EXCEPT ![t] = NoName]
    /\ UNCHANGED <<scope, spent>>

(* SessionStateLock.Release or Dispose of a handle, for the first time ... *)
Release(t) ==
    /\ want[t] = NoName
    /\ \E n \in held[t] :
         /\ locks' = locks \ {n}
         /\ held' = [held EXCEPT ![t] = @ \ {n}]
         /\ spent' = [spent EXCEPT ![t] = @ \cup {n}]
    /\ UNCHANGED <<scope, want>>

(* ... and again: the handle still says IsAcquired.                        *)
ReleaseAgain(t) ==
    /\ want[t] = NoName
    /\ \E n \in spent[t] :
         /\ Late \/ n \notin locks
         /\ locks' = locks \ {n}
    /\ UNCHANGED <<scope, want, held, spent>>

(* Dispose of the manager, at the end of the scope: the flag, then Clear.  *)
DisposeFlag ==
    /\ scope = "live"
    /\ scope' = "disposed"
    /\ UNCHANGED <<locks, want, held, spent>>

DisposeClear ==
    /\ scope = "disposed"
    /\ scope' = "cleared"
    /\ locks' = {}
    /\ UNCHANGED <<want, held, spent>>

Next ==
    \/ \E t \in Thread :
         AcquireStart(t) \/ AcquireAdd(t) \/ Release(t) \/ ReleaseAgain(t)
    \/ DisposeFlag
    \/ DisposeClear

Spec == Init /\ [][Next]_vars

-----------------------------------------------------------------------------
(* Until the scope is cleared, two threads never hold the same name        *)
(* (ISessionStateLockManager: "preventing concurrent operations on the     *)
(* same resource").                                                        *)
MutualExclusion ==
    scope # "cleared" =>
      \A t, u \in Thread : t # u => held[t] \cap held[u] = {}

(* Until the scope is cleared, IsLocked(n) tells the truth: the table has  *)
(* exactly the names somebody holds, so that a refused call always has a   *)
(* holder that will let it in, and no name is locked for good by nobody.   *)
IsLockedTells ==
    scope # "cleared" => locks = UNION {held[t] : t \in Thread}
=============================================================================
