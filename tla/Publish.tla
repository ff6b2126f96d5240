------------------------------ MODULE Publish -------------------------------
(***************************************************************************)
(* The target PublishToGitHub of the build and the workflow that runs it   *)
(* on every push to main: several jobs at once, each in a clone of its own *)
(* with the tags of the moment it was made.  A job packs the projects that *)
(* changed since their last tag and those that depend on them, pushes the  *)
(* packages to the feed one by one, tags them, and pushes the tags.  It    *)
(* may break off anywhere.  A project's version is the number of commits   *)
(* that touched it; whether it changed is a difference of two trees.  The  *)
(* two disagree when a commit brings back what a project once contained.   *)
(***************************************************************************)
EXTENDS Naturals, FiniteSets, Sequences

CONSTANTS
    Project,
    Content,    \* what the directory of a project may contain, compared only
                \* with other contents of the same project
    Dep,        \* per project: those it references
    Order,      \* the projects as TopologicalSorter.Sort lists them
    Job,        \* jobs that may run at once
    MaxCommits, \* bound on the history
    Fails       \* what may fail unnoticed: the git commands, which GitHelper
                \* then reads as an empty answer ("tag", "diff", "count"), and
                \* the search for the packed file ("pack")

Before(p, q) == \E i, k \in 1..Len(Order) : i < k /\ Order[i] = p /\ Order[k] = q

ASSUME DepAssumption == Dep \in [Project -> SUBSET Project]
ASSUME OrderAssumption ==
    /\ Order \in Seq(Project)
    /\ \A p \in Project : \A d \in Dep[p] : Before(d, p)
ASSUME MaxCommitsAssumption == MaxCommits \in Nat
ASSUME FailsAssumption == Fails \subseteq {"tag", "diff", "count", "pack"}

VARIABLES
    main,       \* the commits on main, in order: the tree each of them leaves
    feed,       \* the packages; they cannot be replaced
    tags,       \* the tags on the server
    job         \* per job: where it is, its commit, the tags of its clone,
                \* ProjectsNeedingBuild still to do, and PublishedVersions

vars == <<main, feed, tags, job>>

Version == [project : Project, version : Nat]
Tag == [project : Project, version : Nat, commit : Nat]
Tree == [Project -> Content]
(* A reference that is kept, and whether git had told the project's tags.  *)
Reference == [project : Project, told : BOOLEAN]
Package == [project : Project, version : Nat, commit : Nat,
            deps : SUBSET Version, kept : SUBSET Reference]
JobState == [at : {"idle", "publish", "done"}, head : Nat, tags : SUBSET Tag,
             todo : SUBSET Project, published : SUBSET Version]

TypeOK ==
    /\ main \in Seq(Tree)
    /\ feed \subseteq Package
    /\ tags \subseteq Tag
    /\ job \in [Job -> JobState]

NoJob == [at |-> "idle", head |-> 0, tags |-> {}, todo |-> {}, published |-> {}]

Init ==
    /\ \E c \in Content : main = <<[p \in Project |-> c]>>
    /\ feed = {} /\ tags = {}
    /\ job = [j \in Job |-> NoJob]

-----------------------------------------------------------------------------
(* GetCommitCount and CalculateVersion: git rev-list --count.              *)
Touches(i, p) == i = 1 \/ main[i][p] # main[i - 1][p]
VersionAt(p, h) == Cardinality({i \in 1..h : Touches(i, p)})

(* GetLastTagForProject: the greatest version.                             *)
TagsOf(ts, p) == {t \in ts : t.project = p}
IsLastTag(t, ts) == t \in ts /\ \A u \in TagsOf(ts, t.project) : u.version <= t.version

Exists(x, xs) == \E y \in xs : y.project = x.project /\ y.version = x.version

(* The projects for which something fails.                                 *)
Failing(command) == IF command \in Fails THEN SUBSET Project ELSE {{}}

-----------------------------------------------------------------------------
(* Faulty variants, substituted for the steps below to try the properties. *)

(* A change is one made by the commit that started the job.                *)
ChangedByCommit(p, f) == Touches(f.head, p)

(* The last tags go before what the job has published.                     *)
BindToTags(p, f, noTag) ==
    {[project |-> t.project, version |-> t.version] :
       t \in {t \in f.tags : t.project \in Dep[p] /\ IsLastTag(t, f.tags)}}

(* A package that is not found is taken for published.                     *)
PushNothing(pkg) == UNCHANGED feed

(* The version is not taken out of the tag's name.                         *)
VersionIsTag(p, f, noTag) == {t \in f.tags : t.project \in Dep[p]}

-----------------------------------------------------------------------------
(* git diff --name-only: the trees of the last tag and of the job's commit *)
(* differ in the project's directory.                                      *)
Changed(p, f) ==
    \A t \in TagsOf(f.tags, p) :
      IsLastTag(t, f.tags) => main[t.commit][p] # main[f.head][p]

(* PropagateDependencies: nothing is left out that depends on what is in.  *)
Closed(T) == \A p \in Project : Dep[p] \cap T # {} => p \in T
Propagate(S) ==
    {p \in Project : \A T \in SUBSET Project : S \subseteq T /\ Closed(T) => p \in T}

(* The versions that a package is bound to: those the job has published,   *)
(* or else the last tags.                                                  *)
Bindings(p, f, noTag) ==
    {v \in f.published : v.project \in Dep[p]}
      \cup {[project |-> t.project, version |-> t.version] :
              t \in {t \in f.tags : /\ t.project \in Dep[p] \ noTag
                                    /\ IsLastTag(t, f.tags)
                                    /\ TagsOf(f.published, t.project) = {}}}

(* The dependencies for which no version is found: SwapProjectRefsForPack  *)
(* keeps the project reference, and the package depends on a version that  *)
(* no job makes.                                                           *)
Kept(p, f, noTag) ==
    {[project |-> d, told |-> d \notin noTag] :
       d \in {d \in Dep[p] : /\ TagsOf(f.published, d) = {}
                             /\ d \in noTag \/ TagsOf(f.tags, d) = {}}}

-----------------------------------------------------------------------------
Go(j, f) == job' = [job EXCEPT ![j] = f]

Commit ==
    /\ Len(main) < MaxCommits
    /\ \E tree \in Tree : tree # main[Len(main)] /\ main' = Append(main, tree)
    /\ UNCHANGED <<feed, tags, job>>

(* A job starts, or is run again, for a commit of main: it makes its clone *)
(* and finds out what needs a build, in the clone alone.                   *)
Clone(h) ==
    [at |-> "publish", head |-> h, tags |-> tags, todo |-> {}, published |-> {}]

DetectChanges(f, noTag, noDiff) ==
    {p \in Project : \/ p \in noTag \/ TagsOf(f.tags, p) = {}
                     \/ p \notin noDiff /\ Changed(p, f)}

Start(j) ==
    /\ job[j].at = "idle"
    /\ \E h \in 1..Len(main), noTag \in Failing("tag"), noDiff \in Failing("diff") :
         Go(j, [Clone(h) EXCEPT !.todo = Propagate(DetectChanges(Clone(h), noTag, noDiff))])
    /\ UNCHANGED <<main, feed, tags>>

(* PublishPackagesAsync, the next project in order: pack, push and record, *)
(* or only go on when no packed file is found.                             *)
Packed(p, v, f, noTag) ==
    [project |-> p, version |-> v, commit |-> f.head,
     deps |-> Bindings(p, f, noTag), kept |-> Kept(p, f, noTag)]
Push(pkg) == feed' = IF Exists(pkg, feed) THEN feed ELSE feed \cup {pkg}

Passed(p, f) == [f EXCEPT !.todo = @ \ {p}]
Recorded(p, v, f) == [Passed(p, f) EXCEPT !.published = @ \cup {[project |-> p, version |-> v]}]

Publish(j) ==
    LET f == job[j] IN
    /\ f.at = "publish"
    /\ \E p \in f.todo, noCount \in Failing("count"), noTag \in Failing("tag"),
          noFile \in Failing("pack") :
         LET v == IF p \in noCount THEN 0 ELSE VersionAt(p, f.head) IN
         /\ \A q \in f.todo : ~Before(q, p)
         /\ IF p \in noFile
            THEN UNCHANGED feed /\ Go(j, Passed(p, f))
            ELSE Push(Packed(p, v, f, noTag)) /\ Go(j, Recorded(p, v, f))
    /\ UNCHANGED <<main, tags>>

(* CreateTags, for what has no tag in the clone, and git push --tags: a    *)
(* tag that another job has made in the meantime is rejected, and the job  *)
(* fails when the others are pushed.                                       *)
PushTags(j) ==
    LET f == job[j]
        made == {[project |-> v.project, version |-> v.version, commit |-> f.head] :
                   v \in {v \in f.published : ~Exists(v, f.tags)}}
        rejected == {t \in made : Exists(t, tags)}
    IN
    /\ f.at = "publish" /\ f.todo = {}
    /\ tags' = tags \cup (made \ rejected)
    /\ Go(j, IF rejected = {} THEN [f EXCEPT !.at = "done"] ELSE NoJob)
    /\ UNCHANGED <<main, feed>>

(* A job is over, or breaks off: a command throws, such as the creation of *)
(* a tag whose existence git could not tell, or the runner is lost.        *)
End(j) ==
    /\ job[j].at # "idle"
    /\ Go(j, NoJob)
    /\ UNCHANGED <<main, feed, tags>>

Next ==
    \/ Commit
    \/ \E j \in Job :
         Start(j) \/ Publish(j) \/ PushTags(j) \/ End(j)

Spec == Init /\ [][Next]_vars

-----------------------------------------------------------------------------
(* What a version of a project contains is what commit h has.              *)
HasContentOf(v, h) ==
    \E i \in 1..Len(main) : /\ VersionAt(v.project, i) = v.version
                            /\ main[i][v.project] = main[h][v.project]

(* Wherever jobs broke off, a tag or the version a package is bound to is  *)
(* on the feed, and a package has only lost the version of a dependency,   *)
(* which keeps its project reference, where git failed to list the tags:   *)
(* what was never tagged is published before what depends on it.           *)
NothingDangles ==
    /\ \A t \in tags : Exists(t, feed)
    /\ \A pkg \in feed : /\ \A d \in pkg.deps : Exists(d, feed)
                         /\ \A r \in pkg.kept : ~r.told

(* A package has the version of the commit it was built from, and is bound *)
(* to versions that contain what its dependencies contained at that        *)
(* commit, whichever job published them and however often contents came    *)
(* and went in between.                                                    *)
PackagesFitTogether ==
    \A pkg \in feed :
      /\ pkg.version = VersionAt(pkg.project, pkg.commit)
      /\ \A d \in pkg.deps : HasContentOf(d, pkg.commit)

(* After a job that ends well each project has a tag, and a package of its *)
(* version, with what the project contains at the job's commit, whatever   *)
(* earlier jobs left half done and others do meanwhile.                    *)
JobsDeliver ==
    \A j \in Job : job[j].at = "done" =>
      \A p \in Project : \E t \in TagsOf(tags, p) :
        HasContentOf(t, job[j].head) /\ Exists(t, feed)
=============================================================================
