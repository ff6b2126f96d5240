# SessionAndState: specifications, model checks and proofs

This directory specifies the library `SessionAndState` (C# and a script, under
`src/SessionAndState/` in the repository): server-side session state for Blazor,
shared by all browser tabs and requests of one session; the scripts of its
example application; and the build that publishes its packages. `P` below stands
for `src/SessionAndState/src/SessionAndState/`.

## 1. Inventory

| Component | State it keeps | Operations | Talks to |
|---|---|---|---|
| In-memory backend, `P/Internal/Backends/InMemorySessionAndStateBackend.cs` | one `ConcurrentDictionary` from (session key, type) to immutable entries with `CreatedAt` and `LastAccessed` | get, set, remove, refresh, remove expired, remove all for a key, migrate | called by all threads of the process |
| Named locks, `DefaultSessionStateLockManager.cs`, `SessionStateLock.cs` | a table of taken names, handles with an owner | try-acquire, acquire, release, dispose | application code, on the threads of one scope |
| Session state and its cache, `DefaultSessionState.cs`, `SessionStateCache.cs` | per scope: value, loaded flag, key, `PropertyChanged` handler, semaphore | read, `SetAsync`, `ClearAsync`, `RefreshAsync`, auto-persist, invalidate, dispose | backend; events of other scopes; `Changed` handlers |
| Event dispatch, `Internal/Events/` | subscribers of `BackendOperation` and four value events | raise, one subscriber after another | caches and observers, on the caller's thread |
| Clean-up service | a timer | sweep, then raise `Expired` | backend, dispatcher |
| Session manager, context, cookies, authentication events, middleware, circuit handler | key and kind of session per scope, a cookie per browser, an `AsyncLocal` holder | establish, transition, clear, sign in and out | backend (migration), cookies, response |
| Keep-alive, `SessionAndStateScripts.cs`, `session-and-state.js` | timer, listeners and activity flag in the page; a module reference and a flag in the component | import, init, tick, dispose | page and component through the circuit; an HTTP endpoint that answers 200 |
| Reconnect dialog of the example, `ReconnectModal.razor.js` | whether it is open, a listener, calls under way | state changes, retry, resume | Blazor's client; reloads the page |
| Transport detector of the example, `transport-detector.js` | none (a preference in local storage) | detect, store | the browser's log of requests |
| Expiration values, `Expiration.cs` | none | parse, format, `IsExpired` | backend, options |
| Configuration builder | flags set once at start-up | `With...` methods | none at run time |
| Publishing build, `src/build`, `.github/workflows/ci.yml` | tags on the server, a package feed; per job a clone, what needs a build, what was published | detect changes, order, version, push, tag | git, NuGet, other jobs through tags and feed |
| Other examples | none | pages that use the library | |

Calls into one scope's state are serialised by its `_asyncLock`; the cache has a
lock of its own for each access; the backend has none and relies on the
dictionary's compare-and-swap. Events are synchronous: a write in one scope runs
the invalidation of all other scopes' caches, and the `Changed` handlers of
those scopes, on its own thread while it still holds its own `_asyncLock`.

The session manager runs once per request and per circuit. A browser may have
many of both at once, each with the cookies of the moment it was sent; the browser
takes cookies over when a response starts, which a circuit's never does again.
The page's scripts outlive links and circuits, and the circuit's components
outlive links: what one has told the other may be lost in between. Publishing
jobs run at once in clones of their own.

What is hard: steps of several threads between two dictionary operations; loads
that overlap writes; handlers that run in the middle of a call of another scope;
scopes that end with calls inside; session keys that change under live scopes;
requests that overlap a sign-in; links, circuits and servers that come and go
with calls in flight; jobs that break off between two side effects.
`PROJECT.json` lists the hazards, each at its line, with the properties that
watch it.

What makes each component right:

* backend: it behaves as one atomic map of values with a lifetime; an entry is
  in one place; the clean-up and the touching of entries undo no write;
* named locks: one holder per name, and the table tells who is locked;
* session state: the semaphore is taken exactly by the call that is inside;
  handlers follow cached objects; no scope goes on serving a value that was
  replaced; calls return;
* session manager: no two browsers share a key; a scope uses the session its browser
  is in; a sign-in takes the data along; a sign-out leaves none behind;
* keep-alive: one timer per page, no component without one, none that its owner
  wanted stopped; activity reaches a server that can be reached;
* reconnect dialog: a stranded page finds its way back, a connected one is left
  alone;
* publishing: what is tagged was pushed, a package is bound to what its commit had, a
  finished job has left no content out.

## 2. Plan

1. `SessionStore` with `AtomicStore` above it, and `SessionStoreProofs`. *Done.*
2. `LockManager` and `LockManagerProofs`. *Done.*
3. `SessionState` over an atomic backend, and `SessionStateProofs`. *Done.*
4. `SessionManager`: establish, transition, cookies, sign-in and sign-out,
   middleware and circuits, and `SessionManagerProofs`, `SessionDataProofs`. *Done.*
5. `KeepAlive` and `Reconnect` over `Circuit`, composed in `BrowserPage`,
   and `BrowserPageProofs`, `KeepAliveProofs`. *Done.*
6. `Publish` with `TopologicalSorter`, and `PublishProofs`. *Done.*

Every safety and action property that a passing run checks is now also proved; section 6
says what is out of the prover's reach.

`AtomicStore` is what the backend promises and what `SessionState` and
`SessionManager` build on.

## 3. Modules

### `SessionStore`, `AtomicStore`

`store` is `_store`: for each slot (key, type) an entry with an identity (`ref`), a
value, `created` and `accessed`. Identity matters: `TryUpdate` and
`TryRemove(pair)` compare references, which `StillSeen` says. Each method is cut at
its dictionary operations, and nowhere else: `GetStart`, `GetRead`, `GetCheck`,
then `GetEvict` or `GetTouch`, with `GetRetry` when the compare-and-swap fails;
likewise for the other methods. `AddOrUpdate` (`SetRead`, `SetWrite`, `SetRetry`)
runs its factory before the swap. The enumerations of the sweep, of
`RemoveAllForKeyAsync` and of `MigrateSessionAsync` visit slots one by one: what
the dictionary's enumerator promises. `now` is the clock, which `Tick` moves on.

`AtomicStore` has no identities, retries or threads: `Write`, `Use`, `Drop`, and
a migration in two steps (`PickUp`, `PutDown`). A use may carry any earlier time,
since the code samples the clock before it swaps. `ImplementsAtomicStore` is the
refinement, with the mapping at the end of `SessionStore`.

### `LockManager`

`locks` is the dictionary of names; `held` the names a thread's handles were
given for; `spent` those it has released, and may release again, as a released
handle does not know it (`Late` lets that happen also after the name has a new
holder). The time-out parameters have no effect in the code and none here.

### `SessionState`

One state type, several scopes, several threads. A frame `call[<<c, 1>>]` is the call
thread `c` is in; `<<c, 2>>` is a read that a `Changed` handler makes in the middle of
it. Labels are the points between which other threads may run: awaits, lock
acquisitions and separate accesses of the cache. The backend is one atomic step
per call, by `AtomicStore`; its `Drop` shows as `"evict"`. A `Changed` handler is the
application's: it may do nothing or read the state.

`Races` names what an instance lets happen, so that a run says what it depends on:

* `"overlap"`: a load or an auto-persist may overlap a write of its key;
* `"evict"`: a load may find its entry expired and remove it;
* `"reenter"`: `Changed` handlers may read the state;
* `"rekey"`: a scope's session key may change after it was set.

With `Races = {}` the model is a *restriction* of the code; the runs and theorems
that use it say what is true under that restriction, and the runs `stale_load`
and `reentry` show that the restriction is needed.

`PersistCurrentValueAsync` and property changes are `Mutate`, `Change`, `Persist`. The
objects are shared by all scopes (the backend stores references), so one change
runs the handlers of all caches that hold the object.

### `SessionManager`

A scope (`scope[s]`) is a request or a circuit that is being served. Its frame holds the
cookies it came with (`saw`), its `SessionStateContext` (`key`, `auth`, `est`), whether
its response has started, and the cookies the response will set. `Establish` is
`EstablishSessionAsync` in its four outcomes (claim, cookie, new key, nothing);
`Generate` is the step after the awaited key generator; `SignIn`,
`GenerateAuthenticated`, `Migrate` and `FinishSignIn` are the steps of
`TransitionToAuthenticatedAsync` between its awaits; `SignOut` and `ClearSession` those
of a sign-out. `StartResponse` hands the cookies to the browser, `Abort` loses
them. `data` is the backend, one atomic step per call.

The generator is the application's: a new key is unused, except that an
authenticated session may keep its anonymous key. A generator that gives one key
to a user on all devices makes sessions shared by design and is outside the model.

Four history variables say what the data should be, and no step of the code reads
them: who wrote an item, which items no sign-out has covered, which keys are
finished, and `excused`: the browsers whose own requests got in each other's way (a
change of the session that sets out with cookies that are out of date or while
another is under way, a sign-in of a user who is signed in, a write under a key
whose session is over, a response with new cookies that was lost).
For those the code promises nothing, and the properties that speak of data except
them; `SessionsAreApart` excepts nobody.

### `BrowserPage`: `Circuit`, `KeepAlive`, `Reconnect`

`Circuit` is Blazor's part, external to the repository: a link, a circuit the server
keeps for a while, a server that can be reached or not. `KeepAlive` has both ends
of the keep-alive: `OnAfterRenderAsync` cut at its two awaits (`Render`,
`ImportArrives`, `InitArrives`), `DisposeAsync`, and the functions of the page module;
`toPage` and `answers` are the calls and results in flight, in order. A component has
its timer under its own name, so that "whose timer" can be said: the module itself
has only `intervalId`. A layout has one such component; a second instance is the one
of a circuit that replaces the first, or of a layout that is rendered again.

`Tick` resets the flag and sends a request, as the timer's function does without waiting
for the outcome; `RequestArrives` and `RequestFails` are the outcome, by whether the
server can be reached at that moment. Which activity a request reports cannot be told
from the flag, so a history variable, `report`, follows one activity, picked at any time,
from `onActivity` to the server: due, sent, then arrived or lost. The code does not
repeat a request that failed, and the property says no more than that: activity of a
page that is served arrives unless the server goes away first.

`Reconnect` is the dialog: `handleReconnectStateChanged` as an operator on states,
`retry` and `resume` cut at their awaits, any number of calls at once (the button and
the visibility event both start one). `crossed` is history: a retry began when it was
not alone, or when there was nothing to retry; from then on the code does reload
or listen when it need not. The two share `link` and `circuit` in `BrowserPage`:
`LinkLost` loses the keep-alive's calls and opens the dialog, `DropCircuit` takes the
components, `Load` all of the page. The user's own reloads, and time-outs
of the calls to the page, are left out.

### `Publish`, `TopologicalSorter`

`main`, `feed` and `tags` are shared; `job[j]` is a job with its commit, the tags of its
clone, `ProjectsNeedingBuild` still to do and `PublishedVersions`. What a job does in
its clone alone is one step with the shared step next to it: `Start` clones and finds
out what needs a build, `Publish` packs, pushes and records one project, `PushTags`
creates the tags and pushes them (a tag that exists on the server is rejected and
fails the job), `End` is a job that is over or breaks off anywhere. A job may start
for any commit of main, as the workflow can be run again.

`main` holds the tree that each commit leaves: per project one of a few contents. A
version counts the commits that touched the project (`git rev-list --count`,
`VersionAt`); whether a project changed is whether the trees of its last tag and of the
job's commit differ (`git diff`, `Changed`). The two disagree when a commit brings a
content back: the count grows and, if the jobs in between broke off, the trees are
equal, so the project is not built and its new version never published. What holds
is therefore stated by content (`HasContentOf`): a package is bound to versions that
contain what its commit had, and a job that ends well leaves that content tagged and on
the feed, under the version of whichever commit brought it.

A dependency is bound to the version that the job published, or to its last tag
(`Bindings`). When neither is found the build only warns, and `SwapProjectRefsForPack`
in `src/Directory.Build.targets` keeps the project reference: such a package depends on
the project's own fallback version, which no job publishes (`Kept`; `told` says whether
git had listed the tags then). `NothingDangles` says that this happens only where git
failed to list them.

`Fails` names what may fail unnoticed: the git commands, which `GitHelper` turns into an
empty answer, and the search for the packed file, after which the build goes on and
records nothing (`Passed`). Version files do not change, and main has no merges.

`TopologicalSorter` is the sort, recursive as in the code. Its assumption `SortIsRight`
makes TLC compare it with a reference definition on every graph of three projects.
`Publish` takes any order that lists dependencies first; `MCPublish` gives it what
`Sort` returns.

### Faulty variants

Each module has a few actions that nothing uses, placed before the step they
distort (`TakeByLookup`, `SkipKeepsLock`, ...). Each is what the step becomes under a
plausible slip; exchanging it for the step makes the named property fail. They
document what each property notices.

## 4. Runs

| Run | Instance | What it shows |
|---|---|---|
| `store` | 2 keys, 1 type, 1 value, 2 threads, clock to 2 | types; `SingleHome`; values only from writers; the refinement to `AtomicStore` |
| `store_slot` | 1 slot, 2 values, 2 threads | the sweep spares what came alive; `CreatedAt` never moves; calls return, and one does even if the others starve it |
| `get_evicts` | as `store_slot` | *violated*: `GetAsync` removes only expired entries |
| `lock` | 3 threads, 2 names | mutual exclusion, `IsLocked` |
| `lock_release` | the same with `Late` | *violated*: mutual exclusion, by a handle released twice |
| `state` | 2 scopes, 1 key, 2 objects, 2 threads, `Races = {"reenter"}` | the handlers, coherence of caches |
| `state_races` | 1 scope, 2 keys, 1 object, 2 threads, all other races | the lock survives every race, and calls return |
| `stale_load` | `Races = {"overlap"}` | *violated*: coherence |
| `reentry` | `Races = {"reenter"}` | *violated*: no thread waits for itself |
| `page` | 2 components, 2 dialog calls | timers, the way back of a stranded page, rest of a connected one, activity arrives at the server |
| `sessions` | 2 browsers, 2 scopes, 3 keys, 1 item | sessions stay apart; nothing lost at sign-in, nothing left at sign-out; scopes share their browser's session |
| `publish` | 2 projects with 2 contents, 2 jobs, 3 commits, listing of tags may fail | nothing dangles, packages fit, finished jobs deliver |

Bounds. Two threads are enough for every pairwise race of the backend, whose
methods touch one slot at a time; the third thread in `lock` is the
one that gets in when two others fight over a release. Two keys give a migration both directions; two objects tell an old value
from a new one and let a handler stay on the wrong one; a clock of 0..2 with
limits of 1 lets an entry be fresh, touched once and expired. Reference numbers
are reused once nothing refers to them, which is what a garbage collector
does. In `page` two components are the old and the new one of every race, and are
reused once nothing of them is left; two dialog calls are the button and the
visibility event. In `sessions` two scopes give every pair of requests and circuits of one
browser, and of two; three keys are an old, a new and another's. In `publish`
three commits let a project be ahead of, at and behind a job's commit, and with two
contents bring one back. Contents are compared for equality only. Jobs, contents, threads, objects and scopes are symmetric and no run with a liveness
property uses symmetry. Deadlock is not checked in `lock` (disposal ends everything) and in the
runs where a disposed scope strands its queue or a handler waits for itself,
since the code really stops there.

Fairness. `FairSpec` is weak fairness of a thread that is inside a call: the .NET
scheduler runs runnable threads. No fairness is assumed for starting calls, for
the environment or for the order of waiters: `SemaphoreSlim` promises none, so
`CallsReturn` is claimed for the case that no new calls keep coming. In `page` the
browser runs its timer (`Tick`) and delivers a request while the server can be reached
(`RequestArrives`), Blazor's promises are answered one way or the
other, and the user returns to the page now and then; links, circuits and the
server are free to do as they like, and `ComesBack` has as its premise that the
server is reachable from some time on.

## 5. Findings

* `get_evicts`: `GetAsync` removes an expired entry by key, whatever the slot holds
  by then; a concurrent `SetAsync` is lost.
* `lock_release`: "Safe to call multiple times" is untrue once the name has a new
  holder.
* `stale_load`: a load that overlaps another scope's write fills its cache after the
  invalidation has passed.
* `reentry`: `BackendOperation` is raised under `_asyncLock`, to the sender's own cache
  too; a `Changed` handler that reads the state blocks on its own thread's lock.

One more disagreement is not a run, as the property would be about a handler that does
nothing: `KeepAliveDemo.razor:31` of the examples says that the keep-alive endpoint
"refreshes all session state entries for the current session", and the endpoint
(`SessionAndStateApplicationBuilderExtensions.cs:85`) only answers 200. A ping renews the
cookie of an authenticated user, if the authentication does so, but no entry.

What the models show to be lost or wrong by design of the code, and which the
properties except by name: values written under a key whose session is over, first
requests or sign-ins of one browser that overlap, retries that cross, activity whose
request failed, a `git diff` or `git rev-list` that fails (`Fails` with `"diff"` or
`"count"` breaks `PackagesFitTogether` and `JobsDeliver`, not `NothingDangles`) and a packed
file that is not found (`"pack"` breaks all three).

## 6. Proofs

All theorems hold for any finite or infinite sets of keys, types, values, threads,
scopes and objects, and any clock bound, under the named assumptions of the
modules (`NullAssumption`, `NoCompAssumption`, `KeyAssumption`: the null values are no
members of the sets they are added to; `ExpirationAssumption`, `RacesAssumption`,
`NoNameAssumption`: the constants have their types).

`SessionStoreProofs`. The inductive invariant is `Inv`:

* `Typed` strengthens `TypeOK` by `FrameOK`: which slot, entry and time a thread
  carries at each label, e.g. that a thread about to remove in a sweep has seen its
  entry expired at the time it looked;
* `Identity`: entries with one reference number are one entry, wherever they are
  held. This is what makes the comparison by reference in `TryUpdate` and
  `TryRemove(pair)` tell that a slot was not written in between;
* `SingleHome`: an entry is in one slot or in the hand of one migration;
* `NoFuture`: no thread has a time later than the clock, so what has expired at the
  thread's time has expired.

`EntriesHaveOneHome`, `CleanupSparesLive`, `BirthsAreKept`, `OnlyWritersGiveValues` and
`StoreIsAtomic` follow from `Inv` step by step. `StoreIsAtomic` is the refinement
to `AtomicStore` itself: each action maps to an abstract step or to a stutter.

`LockManagerProofs`. `MutualExclusion` is not inductive: a release removes the
name whoever put it there. Together with `IsLockedTells` and without late releases
it is. `TypeCorrect` needs no such assumption; `LocksExclude` and `TableTells` assume
`~Late`, and `lock_release` shows that they must.

`SessionStateProofs`.

* `TypeCorrect`, `LockIsInside` and `HandlersFollow` hold for *every* `Races`. `Typed`
  says what a frame knows at each label, e.g. that a write has a session key.
* `CachesAreCoherent` assumes that `"overlap"`, `"evict"` and `"rekey"` are not in
  `Races`; handlers that read may be. `Coherent` alone is not inductive; `Quiet` adds
  `OneKey` (a scope's cache and calls are for its one key), `NoOverlap` (nobody fills
  or persists while a write of the key is told) and `Fresh`: a load about to fill holds
  what the backend has, an auto-persist writes back what it has, and a cache that
  `ClearAsync` has emptied stays empty until the backend is. `stale_load` shows
  that the first assumption is needed.

`SessionManagerProofs`. `SessionsAreApart` speaks of all a scope holds - the cookies it
saw, its key, the keys of its transition, the cookies it will set - and is inductive
with `FreeIsEmpty`: a free scope holds nothing. New keys are unused, and every other
step moves keys within one browser, which is what the lemma `StepKeepsApart` says.

`SessionDataProofs`. None of the four properties about data, sign-outs and sharing is
inductive: while a request establishes a session, signs in or signs out, the cookies, the
context and the data disagree for a few steps, and the cookies may go on disagreeing while
the response that sets them is under way. The invariant `SessionInv` names what does not
change: each browser that is not `excused` has *one* session `k`, so that

* `Frames`: what any of its scopes holds is `k`, nothing, or a key whose session is over
  (`gone`), and the parts of a scope fit together (`Shape`: the cookies it saw, its
  context, the cookies it will set, the step it is at);
* `OneIsBusy`: at most one of its requests is changing the session, it saw the present
  cookies, and `HomeOf` tells from the step it is at that it works towards `k`;
* `Items`: what the browser wrote is in `k` and nowhere else, or, if a sign-out covered
  it, nowhere;
* without a busy request the cookies stand for `k`; one cookie is set at a time.

`k` is chosen anew in three kinds of step only: a first request (anonymous or
signed in) generates it, a sign-in moves the anonymous key's data to it, a sign-out leaves none. The lemma `Own`
collects what such a step must do to its own browser, `Elsewhere` what it must leave to
the others (there `SessionsAreApart` is used: moving or removing data under one browser's
key touches no item of another's), `Quiet` covers all steps that leave data and cookies
alone.

`KeepAliveProofs`. `TimerHasOwner` and `InitialisedMeansTimer` speak of the page and the
server at once, and what connects them is the order of the calls between them.
`KeepAliveInv` says:

* `ImportOnce`, `CallsFit`: a component has at most one `import` under way, as a call or as
  an answer, and what is under way fits how far `OnAfterRenderAsync` has come;
* `OneAlive`: a layout has one live component at most;
* `InOrder`: each `dispose` under way has the live component's `import` behind it, and the
  `init` of a component that has told the page to stop has its `dispose` behind it;
* `Timed`: a live component whose `init` was served has a timer, and the timer of one that
  told the page to stop has its `dispose` under way.

The first part of `InOrder` is why a late `dispose` of the previous component never stops
the timer that a later, initialised component relies on although `init` did nothing for
it: the page serves that `dispose` before the later component's `import`. Queues are
told of by `Has`, `Once` and `Behind`, and the lemmas `Taken` and `Put` say what a
step at either end of a queue does to those.

`BrowserPageProofs`. For the keep-alive, `TimerInv` adds to `OneTimer` that `cleanup` is the
timer's own. For the dialog, `DialogInv` joins `DialogTellsLink` (open exactly without a
link), `Shown` (Blazor hides it exactly with a link), `StrandedIsArmed` and `Orderly`: while
calls have not crossed, at most one is under way and it belongs to what is shown.
`ConnectedIsAtRest` and `ReloadsAreNeeded` follow.

`PublishProofs`. `NothingEverDangles` assumes that packed files are found (`"pack" \notin
Fails`), and nothing of the git commands. It adds `JobsAreHonest`: a clone's tags are tags
of the server, what a job has recorded is on the feed, and each project is still to be
published by it, or was, or has a tag (`Accounted`). With the order, in which what is
first has no dependency left to do (`DependenciesFirst`), a dependency without a version
is one whose tags git did not list. `PackagesFit` and `DoneJobsDeliver` assume `Fails
\subseteq {"tag"}` and add `VersionInv`: a tag and a package have the version of their
commit, a package is bound to what that commit contained, and a project that a job
does not publish has a last tag with the content of the job's commit (`Covers`), which is
all that an empty diff tells. Histories only grow (`HistoryGrows`), so the versions and
contents of old commits stay.

Each invariant was checked with TLC as an invariant of the small instances before
it was proved. Not proved, only model-checked: the liveness properties (`CallsReturn`,
`SomeCallReturns`, `ActivityIsReported`, `ComesBack`), as fairness and `ENABLED` are beyond
the prover; the sort of `TopologicalSorter`, which is recursive; and
what the runs that expect a violation refute, which is false.

## 7. Not modelled

* Time in `SessionState` (`"evict"` stands for it), several state types there (caches
  ignore events of other types), `RefreshAsync` (only `SessionStore` sees its effect),
  `InvalidateCache` (no caller), observers of the value events.
* Exceptions of backends other than the in-memory one.
* Cancellation: a cancelled wait ends before it has changed anything.
* A cache that outlives a change of its scope's key: `state_races` has the change,
  `SessionManager` the rules, no property claims coherence across it.
* Encryption and compression of cookies, their attributes, the `AsyncLocal` holder of
  the key and the HTTP handler that forwards it.
* Scopes that the session manager leaves without a session for reasons outside the
  model: a circuit without an `HttpContext`
  (`P/Internal/Session/SessionAndStateSessionManager.cs:57-62`), an application without
  anonymous cookies (99-103), a user who was authenticated by something that adds no
  claim (249-252). All three call `SetNoSession`, as `EstablishNone` does; such a scope
  knows no key, so it reads and writes no data.
* A second sign-in or sign-out in one request (`MaySign`): the code has no guard, and a
  second sign-in of a principal without a claim would generate another key and leave
  the data under the first. A generator that gives a user one key on all devices, as
  `DemoKeyGenerator` of the examples does: its sessions are shared by design.
* Between the test of `IsLoaded` and the read of the key in `EnsureLoadedSync` other
  threads may run in the code; `ReadCheck` is one step.
* Time-outs of calls to the page. The transport detector of the example: it guesses from
  the browser's log of requests, to which every attempt of the dialog to reconnect, one
  each two seconds, adds a negotiation; three of them within ten seconds are taken for
  long polling. That its answer is the page's transport is not true of the code.
* Dry runs of the build, its second search for a packed file (any `*.version.nupkg`),
  changes of version files, merges, the tests before publishing.
* Parsing and formatting of expirations: functions of one string, enumerated by the
  repository's tests. Configuration and the other examples: start-up code and
  demonstration pages.
