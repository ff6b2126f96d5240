--------------------------- MODULE PublishProofs ----------------------------
(* Theorems about Publish, for any projects and references, any number of  *)
(* jobs and any history.                                                   *)
EXTENDS Publish, FiniteSetTheorems, TLAPS

LEMMA VersionType ==
    ASSUME NEW p, NEW h \in Nat
    PROVE  VersionAt(p, h) \in Nat
<1> DEFINE T == {i \in 1..h : Touches(i, p)}
<1>1. IsFiniteSet(1..h) BY FS_Interval
<1>2. T \in SUBSET (1..h) OBVIOUS
<1>3. IsFiniteSet(T) BY <1>1, <1>2, FS_Subset
<1> QED BY <1>3, FS_CardinalityType DEF VersionAt

LEMMA InitTyped == Init => TypeOK
<1> SUFFICES ASSUME Init PROVE TypeOK
  OBVIOUS
<1>1. main \in Seq(Tree) BY DEF Init, Tree
<1>2. NoJob \in JobState BY DEF NoJob, JobState
<1> QED BY <1>1, <1>2 DEF Init, TypeOK

LEMMA BindingsType ==
    ASSUME NEW p \in Project, NEW f \in JobState, NEW noTag
    PROVE  /\ Bindings(p, f, noTag) \subseteq Version
           /\ Kept(p, f, noTag) \subseteq Reference
<1>1. Bindings(p, f, noTag) \subseteq Version
  BY DEF Bindings, JobState, Version, Tag
<1>2. Dep[p] \subseteq Project BY DepAssumption
<1>3. ASSUME NEW r \in Kept(p, f, noTag) PROVE r \in Reference
  <2>1. PICK d \in Dep[p] : r = [project |-> d, told |-> d \notin noTag] BY DEF Kept
  <2>2. (d \notin noTag) \in BOOLEAN OBVIOUS
  <2> QED BY <1>2, <2>1, <2>2 DEF Reference
<1> QED BY <1>1, <1>3

(* What Start leaves in the job, field by field.                           *)
Starts(j, h, noTag, noDiff) ==
    LET g == job'[j] IN
    /\ g.at = "publish" /\ g.head = h /\ g.tags = tags /\ g.published = {}
    /\ g.todo = Propagate(DetectChanges(Clone(h), noTag, noDiff))
    /\ \A k \in Job \ {j} : job'[k] = job[k]

LEMMA StartCases ==
    ASSUME TypeOK, NEW j \in Job, Start(j)
    PROVE  /\ \E h \in 1..Len(main), noTag \in Failing("tag"), noDiff \in Failing("diff") :
                Starts(j, h, noTag, noDiff)
           /\ job' \in [Job -> JobState] /\ UNCHANGED <<main, feed, tags>>
<1>1. PICK h \in 1..Len(main), noTag \in Failing("tag"), noDiff \in Failing("diff") :
        Go(j, [Clone(h) EXCEPT !.todo = Propagate(DetectChanges(Clone(h), noTag, noDiff))])
  BY DEF Start
<1>2. PICK S : S = Propagate(DetectChanges(Clone(h), noTag, noDiff)) OBVIOUS
<1>3. S \subseteq Project BY <1>2 DEF Propagate
<1>4. Clone(h) \in JobState
  <2>1. h \in Nat BY DEF TypeOK
  <2> QED BY <2>1 DEF Clone, JobState, TypeOK
<1>5. /\ Clone(h).at = "publish" /\ Clone(h).head = h /\ Clone(h).tags = tags
      /\ Clone(h).published = {}
  BY DEF Clone
<1>6. PICK f \in JobState : f = Clone(h) BY <1>4
<1>7. job' = [job EXCEPT ![j] = [f EXCEPT !.todo = S]] BY <1>1, <1>2, <1>6 DEF Go
<1>8. job \in [Job -> JobState] BY DEF TypeOK
<1>9. [f EXCEPT !.todo = S] \in JobState BY <1>3 DEF JobState
<1>10. /\ [f EXCEPT !.todo = S].at = f.at /\ [f EXCEPT !.todo = S].head = f.head
       /\ [f EXCEPT !.todo = S].tags = f.tags
       /\ [f EXCEPT !.todo = S].published = f.published
       /\ [f EXCEPT !.todo = S].todo = S
  BY DEF JobState
<1>11. job' \in [Job -> JobState] BY <1>7, <1>8, <1>9
<1>12. job'[j] = [f EXCEPT !.todo = S] BY <1>7, <1>8
<1>13. \A k \in Job \ {j} : job'[k] = job[k] BY <1>7, <1>8
<1>14. Starts(j, h, noTag, noDiff)
  BY <1>2, <1>5, <1>6, <1>10, <1>12, <1>13 DEF Starts
<1> QED BY <1>11, <1>14 DEF Start

LEMMA StartTyped ==
    ASSUME TypeOK, NEW j \in Job, Start(j)
    PROVE  TypeOK'
BY StartCases DEF TypeOK

(* What is known of the two ways a step of Publish may go on.              *)
PassesOver(j, p) ==
    "pack" \in Fails /\ UNCHANGED feed /\ Go(j, Passed(p, job[j]))

Publishes(j, p) ==
    \E v, noTag : /\ \/ v = VersionAt(p, job[j].head)
                     \/ v = 0 /\ "count" \in Fails
                  /\ Push(Packed(p, v, job[j], noTag))
                  /\ Go(j, Recorded(p, v, job[j]))

LEMMA PublishCases ==
    ASSUME NEW j \in Job, Publish(j)
    PROVE  \E p \in job[j].todo : /\ \A q \in job[j].todo : ~Before(q, p)
                                  /\ PassesOver(j, p) \/ Publishes(j, p)
<1> DEFINE f == job[j]
<1>1. PICK p \in f.todo, noCount \in Failing("count"), noTag \in Failing("tag"),
           noFile \in Failing("pack") :
        LET v == IF p \in noCount THEN 0 ELSE VersionAt(p, f.head) IN
        /\ \A q \in f.todo : ~Before(q, p)
        /\ IF p \in noFile
           THEN UNCHANGED feed /\ Go(j, Passed(p, f))
           ELSE Push(Packed(p, v, f, noTag)) /\ Go(j, Recorded(p, v, f))
  BY DEF Publish
<1>2. PICK v : v = IF p \in noCount THEN 0 ELSE VersionAt(p, f.head) OBVIOUS
<1>3. v = VersionAt(p, f.head) \/ (v = 0 /\ "count" \in Fails) BY <1>2 DEF Failing
<1>4. CASE p \in noFile
  <2>1. "pack" \in Fails BY <1>4 DEF Failing
  <2> QED BY <1>1, <1>4, <2>1 DEF PassesOver
<1>5. CASE p \notin noFile
  <2>1. Push(Packed(p, v, f, noTag)) /\ Go(j, Recorded(p, v, f)) BY <1>1, <1>2, <1>5
  <2>2. Publishes(j, p) BY <1>3, <2>1 DEF Publishes
  <2> QED BY <1>1, <2>2
<1> QED BY <1>4, <1>5

LEMMA PassedJob ==
    ASSUME NEW p, NEW f \in JobState
    PROVE  /\ Passed(p, f) \in JobState
           /\ Passed(p, f).at = f.at /\ Passed(p, f).head = f.head
           /\ Passed(p, f).tags = f.tags /\ Passed(p, f).published = f.published
           /\ Passed(p, f).todo = f.todo \ {p}
BY DEF Passed, JobState

LEMMA RecordedJob ==
    ASSUME NEW p \in Project, NEW v \in Nat, NEW f \in JobState
    PROVE  LET g == Recorded(p, v, f) IN
           /\ g \in JobState
           /\ g.at = f.at /\ g.head = f.head /\ g.tags = f.tags
           /\ g.todo = f.todo \ {p}
           /\ g.published = f.published \cup {[project |-> p, version |-> v]}
<1> DEFINE new == [project |-> p, version |-> v]
<1>1. new \in Version BY DEF Version
<1>2. PICK h \in JobState : h = Passed(p, f) BY PassedJob
<1>3. Recorded(p, v, f) = [h EXCEPT !.published = @ \cup {new}] BY <1>2 DEF Recorded
<1> HIDE DEF new
<1>4. /\ [h EXCEPT !.published = @ \cup {new}] \in JobState
      /\ [h EXCEPT !.published = @ \cup {new}].at = h.at
      /\ [h EXCEPT !.published = @ \cup {new}].head = h.head
      /\ [h EXCEPT !.published = @ \cup {new}].tags = h.tags
      /\ [h EXCEPT !.published = @ \cup {new}].todo = h.todo
      /\ [h EXCEPT !.published = @ \cup {new}].published = h.published \cup {new}
  BY <1>1 DEF JobState
<1> QED BY <1>2, <1>3, <1>4, PassedJob DEF new

LEMMA PackedFields ==
    ASSUME NEW p, NEW v, NEW f, NEW noTag
    PROVE  LET pkg == Packed(p, v, f, noTag) IN
           /\ pkg.project = p /\ pkg.version = v /\ pkg.commit = f.head
           /\ pkg.deps = Bindings(p, f, noTag) /\ pkg.kept = Kept(p, f, noTag)
BY DEF Packed

LEMMA PublishTyped ==
    ASSUME TypeOK, NEW j \in Job, Publish(j)
    PROVE  TypeOK'
<1> DEFINE f == job[j]
<1>1. f \in JobState BY DEF TypeOK
<1>2. PICK p \in f.todo : PassesOver(j, p) \/ Publishes(j, p) BY PublishCases
<1>3. p \in Project /\ f.head \in Nat BY <1>1, <1>2 DEF JobState
<1>4. UNCHANGED <<main, tags>> BY DEF Publish
<1>5. CASE PassesOver(j, p)
  BY <1>1, <1>4, <1>5, PassedJob DEF PassesOver, Go, TypeOK
<1>6. CASE Publishes(j, p)
  <2>1. PICK v, noTag : /\ v = VersionAt(p, f.head) \/ v = 0
                        /\ Push(Packed(p, v, f, noTag)) /\ Go(j, Recorded(p, v, f))
    BY <1>6 DEF Publishes
  <2>2. v \in Nat BY <1>3, <2>1, VersionType
  <2>3. Bindings(p, f, noTag) \subseteq Version /\ Kept(p, f, noTag) \subseteq Reference
    BY <1>1, <1>3, BindingsType
  <2>4. Packed(p, v, f, noTag) \in Package BY <1>3, <2>2, <2>3 DEF Packed, Package
  <2>5. feed' \subseteq Package BY <2>1, <2>4 DEF Push, TypeOK
  <2>6. Recorded(p, v, f) \in JobState BY <1>1, <1>3, <2>2, RecordedJob
  <2>7. job' \in [Job -> JobState] BY <2>1, <2>6 DEF Go, TypeOK
  <2> QED BY <1>4, <2>5, <2>7 DEF TypeOK
<1> QED BY <1>2, <1>5, <1>6

LEMMA PushTagsTyped ==
    ASSUME TypeOK, NEW j \in Job, PushTags(j)
    PROVE  TypeOK'
<1> DEFINE f == job[j]
           made == {[project |-> v.project, version |-> v.version, commit |-> f.head] :
                      v \in {v \in f.published : ~Exists(v, f.tags)}}
<1>1. f \in JobState BY DEF TypeOK
<1>2. made \subseteq Tag BY <1>1 DEF JobState, Version, Tag
<1>3. tags' \subseteq Tag BY <1>2 DEF PushTags, TypeOK
<1>4. [f EXCEPT !.at = "done"] \in JobState /\ NoJob \in JobState
  BY <1>1 DEF JobState, NoJob
<1>5. job' \in [Job -> JobState] BY <1>4 DEF PushTags, Go, TypeOK
<1> QED BY <1>3, <1>5 DEF PushTags, TypeOK

LEMMA TypesKept == TypeOK /\ [Next]_vars => TypeOK'
<1> SUFFICES ASSUME TypeOK, [Next]_vars PROVE TypeOK'
  OBVIOUS
<1>1. CASE Commit
  <2>1. PICK tree \in Tree : main' = Append(main, tree) BY <1>1 DEF Commit
  <2>2. main' \in Seq(Tree) BY <2>1 DEF TypeOK
  <2> QED BY <1>1, <2>2 DEF Commit, TypeOK
<1>2. ASSUME NEW j \in Job, End(j) PROVE TypeOK'
  <2>1. NoJob \in JobState BY DEF NoJob, JobState
  <2> QED BY <1>2, <2>1 DEF End, Go, TypeOK
<1>3. CASE UNCHANGED vars BY <1>3 DEF vars, TypeOK
<1> QED BY <1>1, <1>2, <1>3, StartTyped, PublishTyped, PushTagsTyped DEF Next

(* The variables of the build keep their types.                            *)
THEOREM TypeCorrect == Spec => []TypeOK
BY InitTyped, TypesKept, PTL DEF Spec

-----------------------------------------------------------------------------
(* What is known of a job: its clone has tags of the server, what it has   *)
(* recorded is on the feed, and each project is still to be published, or  *)
(* has been, or has a tag.                                                 *)
Accounted(f) ==
    \A p \in Project : p \in f.todo \/ TagsOf(f.published, p) # {} \/ TagsOf(f.tags, p) # {}

JobsAreHonest ==
    \A j \in Job : /\ job[j].tags \subseteq tags
                   /\ \A v \in job[j].published : Exists(v, feed)
                   /\ job[j].at # "idle" => Accounted(job[j])

FeedInv == NothingDangles /\ JobsAreHonest

LEMMA FeedInit == Init => FeedInv
BY DEF Init, FeedInv, NothingDangles, JobsAreHonest, NoJob

LEMMA FeedStart ==
    ASSUME TypeOK, FeedInv, NEW j \in Job, Start(j)
    PROVE  FeedInv'
<1>1. PICK h, noTag, noDiff : Starts(j, h, noTag, noDiff) BY StartCases
<1>2. UNCHANGED <<main, feed, tags>> BY StartCases
<1>3. job'[j].tags = tags /\ job'[j].published = {} BY <1>1 DEF Starts
<1>4. \A k \in Job \ {j} : job'[k] = job[k] BY <1>1 DEF Starts
<1>5. Accounted(job'[j])
  <2> SUFFICES ASSUME NEW p \in Project, p \notin job'[j].todo
               PROVE  TagsOf(tags, p) # {}
    BY <1>3 DEF Accounted
  <2>1. p \notin Propagate(DetectChanges(Clone(h), noTag, noDiff)) BY <1>1 DEF Starts
  <2>2. p \notin DetectChanges(Clone(h), noTag, noDiff) BY <2>1 DEF Propagate
  <2>3. PICK c : c = Clone(h) OBVIOUS
  <2>4. TagsOf(c.tags, p) # {} BY <2>2, <2>3 DEF DetectChanges
  <2>5. c.tags = tags BY <2>3 DEF Clone
  <2> QED BY <2>4, <2>5
<1>6. NothingDangles' BY <1>2 DEF FeedInv, NothingDangles, Exists
<1>7. JobsAreHonest'
  BY <1>2, <1>3, <1>4, <1>5 DEF FeedInv, JobsAreHonest, Exists
<1> QED BY <1>6, <1>7 DEF FeedInv

(* A dependency comes before its dependent, so it is no longer to be       *)
(* published when the dependent is packed.                                 *)
LEMMA DependenciesFirst ==
    ASSUME NEW p \in Project, NEW d \in Dep[p], NEW S, p \in S,
           \A q \in S : ~Before(q, p)
    PROVE  d \in Project /\ d \notin S
BY DepAssumption, OrderAssumption

LEMMA FeedPublish ==
    ASSUME "pack" \notin Fails, TypeOK, FeedInv, NEW j \in Job, Publish(j)
    PROVE  FeedInv'
<1> DEFINE f == job[j]
<1>1. f \in JobState /\ DOMAIN job = Job BY DEF TypeOK
<1>2. PICK p \in f.todo : /\ \A q \in f.todo : ~Before(q, p)
                          /\ PassesOver(j, p) \/ Publishes(j, p)
  BY PublishCases
<1>3. Publishes(j, p) BY <1>2 DEF PassesOver
<1>4. PICK v, noTag : /\ v = VersionAt(p, f.head) \/ v = 0
                      /\ Push(Packed(p, v, f, noTag)) /\ Go(j, Recorded(p, v, f))
  BY <1>3 DEF Publishes
<1>5. p \in Project /\ f.head \in Nat BY <1>1 DEF JobState
<1>6. v \in Nat BY <1>4, <1>5, VersionType
<1>7. PICK g : g = Recorded(p, v, f) OBVIOUS
<1>8. PICK pkg : pkg = Packed(p, v, f, noTag) OBVIOUS
<1>9. PICK new : new = [project |-> p, version |-> v] OBVIOUS
<1>10. new.project = p /\ new.version = v BY <1>9
<1>11. /\ g.at = f.at /\ g.tags = f.tags /\ g.todo = f.todo \ {p}
       /\ g.published = f.published \cup {new}
  BY <1>1, <1>5, <1>6, <1>7, <1>9, RecordedJob
<1>12. job'[j] = g /\ \A k \in Job \ {j} : job'[k] = job[k]
  BY <1>1, <1>4, <1>7 DEF Go
<1>13. /\ pkg.project = p /\ pkg.version = v
       /\ pkg.deps = Bindings(p, f, noTag) /\ pkg.kept = Kept(p, f, noTag)
  BY <1>8, PackedFields
<1>14. Push(pkg) BY <1>4, <1>8
<1>15. feed \subseteq feed' /\ feed' \subseteq feed \cup {pkg} BY <1>14 DEF Push
<1>16. Exists(new, feed)' BY <1>10, <1>13, <1>14 DEF Push, Exists
<1>17. UNCHANGED <<main, tags>> /\ f.at = "publish" BY DEF Publish
<1>18. \A d \in pkg.deps : Exists(d, feed)
  BY <1>13 DEF Bindings, FeedInv, NothingDangles, JobsAreHonest, Exists
<1>19. \A r \in pkg.kept : ~r.told
  <2> SUFFICES ASSUME NEW r \in Kept(p, f, noTag) PROVE ~r.told
    BY <1>13
  <2>1. PICK d \in Dep[p] : /\ r = [project |-> d, told |-> d \notin noTag]
                            /\ TagsOf(f.published, d) = {}
                            /\ d \in noTag \/ TagsOf(f.tags, d) = {}
    BY DEF Kept
  <2>2. d \in Project /\ d \notin f.todo BY <1>2, <1>5, DependenciesFirst
  <2>3. Accounted(f) BY <1>17 DEF FeedInv, JobsAreHonest
  <2>4. d \in noTag BY <2>1, <2>2, <2>3 DEF Accounted
  <2>5. r.told = (d \notin noTag) BY <2>1
  <2> QED BY <2>4, <2>5
<1>20. NothingDangles'
  <2>1. \A d : Exists(d, feed) => Exists(d, feed') BY <1>15 DEF Exists
  <2>2. \A t \in tags' : Exists(t, feed') BY <2>1, <1>17 DEF FeedInv, NothingDangles
  <2>3. ASSUME NEW x \in feed'
        PROVE  (\A d \in x.deps : Exists(d, feed')) /\ (\A r \in x.kept : ~r.told)
    <3>1. CASE x \in feed BY <3>1, <2>1 DEF FeedInv, NothingDangles
    <3>2. CASE x = pkg BY <3>2, <2>1, <1>18, <1>19
    <3> QED BY <3>1, <3>2, <1>15
  <2> QED BY <2>2, <2>3 DEF NothingDangles
<1>21. Accounted(g)
  <2>1. Accounted(f) BY <1>17 DEF FeedInv, JobsAreHonest
  <2> QED BY <2>1, <1>10, <1>11 DEF Accounted, TagsOf
<1>22. JobsAreHonest'
  <2>1. ASSUME NEW k \in Job, NEW w \in job'[k].published PROVE Exists(w, feed)'
    <3>1. CASE k = j /\ w = new BY <3>1, <1>16
    <3>2. CASE w \in job[k].published BY <3>2, <1>15 DEF FeedInv, JobsAreHonest, Exists
    <3> QED BY <3>1, <3>2, <1>11, <1>12
  <2>2. \A k \in Job : job'[k].tags \subseteq tags'
    BY <1>11, <1>12, <1>17 DEF FeedInv, JobsAreHonest
  <2>3. ASSUME NEW k \in Job, job'[k].at # "idle" PROVE Accounted(job'[k])
    BY <2>3, <1>12, <1>21 DEF FeedInv, JobsAreHonest
  <2> QED BY <2>1, <2>2, <2>3 DEF JobsAreHonest, Accounted
<1> QED BY <1>20, <1>22 DEF FeedInv

LEMMA FeedPushTags ==
    ASSUME TypeOK, FeedInv, NEW j \in Job, PushTags(j)
    PROVE  FeedInv'
<1> DEFINE f == job[j]
           made == {[project |-> v.project, version |-> v.version, commit |-> f.head] :
                      v \in {v \in f.published : ~Exists(v, f.tags)}}
<1>1. f \in JobState BY DEF TypeOK
<1>2. \A t \in made : Exists(t, feed) BY DEF FeedInv, JobsAreHonest, Exists
<1>3. tags \subseteq tags' /\ tags' \subseteq tags \cup made BY DEF PushTags
<1>4. /\ \/ job'[j] = NoJob
         \/ /\ job'[j].tags = f.tags /\ job'[j].published = f.published
            /\ job'[j].todo = f.todo
      /\ \A k \in Job \ {j} : job'[k] = job[k]
  BY <1>1 DEF PushTags, Go, JobState, TypeOK
<1>5. NoJob.at = "idle" /\ NoJob.tags = {} /\ NoJob.published = {} BY DEF NoJob
<1>6. UNCHANGED <<main, feed>> /\ f.at = "publish" BY DEF PushTags
<1> HIDE DEF made
<1>7. NothingDangles'
  BY <1>2, <1>3, <1>6 DEF FeedInv, NothingDangles, Exists
<1>8. JobsAreHonest'
  <2>1. ASSUME NEW k \in Job
        PROVE  /\ job'[k].tags \subseteq tags'
               /\ \A v \in job'[k].published : Exists(v, feed)'
    BY <1>3, <1>4, <1>5, <1>6 DEF FeedInv, JobsAreHonest, Exists
  <2>2. ASSUME NEW k \in Job, job'[k].at # "idle" PROVE Accounted(job'[k])
    BY <2>2, <1>4, <1>5, <1>6 DEF FeedInv, JobsAreHonest, Accounted
  <2> QED BY <2>1, <2>2 DEF JobsAreHonest, Accounted
<1> QED BY <1>7, <1>8 DEF FeedInv

LEMMA FeedKept ==
    ASSUME "pack" \notin Fails
    PROVE  TypeOK /\ FeedInv /\ [Next]_vars => FeedInv'
<1> SUFFICES ASSUME TypeOK, FeedInv, [Next]_vars PROVE FeedInv'
  OBVIOUS
<1>1. CASE Commit \/ UNCHANGED vars
  BY <1>1 DEF Commit, vars, FeedInv, NothingDangles, JobsAreHonest, Accounted, Exists
<1>2. ASSUME NEW j \in Job, End(j) PROVE FeedInv'
  <2>1. /\ job'[j].tags = {} /\ job'[j].published = {} /\ job'[j].at = "idle"
        /\ \A k \in Job \ {j} : job'[k] = job[k]
    BY <1>2 DEF End, Go, NoJob, TypeOK
  <2>2. UNCHANGED <<main, feed, tags>> BY <1>2 DEF End
  <2>3. JobsAreHonest' BY <2>1, <2>2 DEF FeedInv, JobsAreHonest, Accounted, Exists
  <2> QED BY <2>2, <2>3 DEF FeedInv, NothingDangles, Exists
<1> QED BY <1>1, <1>2, FeedStart, FeedPublish, FeedPushTags DEF Next

(* When every packed file is found: CreateTags comes after all pushes, and *)
(* what was never tagged is published before what depends on it.  So       *)
(* nothing refers to what is not on the feed, however many jobs run at     *)
(* once, wherever they break off and whatever git commands fail; only a    *)
(* failure to list tags makes a package keep a project reference.          *)
THEOREM NothingEverDangles ==
    ASSUME "pack" \notin Fails
    PROVE  Spec => []NothingDangles
<1>1. TypeOK /\ FeedInv /\ [Next]_vars => FeedInv' BY FeedKept
<1>2. TypeOK /\ FeedInv => NothingDangles BY DEF FeedInv
<1> QED BY <1>1, <1>2, InitTyped, TypesKept, FeedInit, PTL DEF Spec

-----------------------------------------------------------------------------
(* When git tells changes and counts commits right and packed files are    *)
(* found: a tag and a package have the version of their commit, a package  *)
(* is bound to what its dependencies contained there, and a job leaves no  *)
(* project out: it will publish it, or has, or its last tag has the same   *)
(* content.                                                                *)
TagInv(t) == t.commit \in 1..Len(main) /\ t.version = VersionAt(t.project, t.commit)

PackageInv(x) ==
    /\ x.commit \in 1..Len(main) /\ x.version = VersionAt(x.project, x.commit)
    /\ \A d \in x.deps : HasContentOf(d, x.commit)

Tagged(p, f) ==
    \E t \in TagsOf(f.tags, p) :
      IsLastTag(t, f.tags) /\ main[t.commit][p] = main[f.head][p]

Covers(f) ==
    \A p \in Project : p \in f.todo \/ TagsOf(f.published, p) # {} \/ Tagged(p, f)

JobInv(f) ==
    f.at # "idle" =>
      /\ f.head \in 1..Len(main)
      /\ \A v \in f.published : v.version = VersionAt(v.project, f.head)
      /\ Covers(f)
      /\ f.at = "done" => f.todo = {} /\ \A v \in f.published : Exists(v, tags)

VersionInv ==
    /\ \A t \in tags : TagInv(t)
    /\ \A x \in feed : PackageInv(x)
    /\ \A j \in Job : JobInv(job[j])

(* Commits are only appended.                                              *)
Grows ==
    /\ Len(main) \in Nat /\ Len(main') \in Nat /\ Len(main) <= Len(main')
    /\ \A i \in 1..Len(main) : main'[i] = main[i]
    /\ \A p, h : h \in 1..Len(main) => VersionAt(p, h)' = VersionAt(p, h)

LEMMA HistoryGrows ==
    ASSUME TypeOK, [Next]_vars
    PROVE  Grows
<1>1. CASE UNCHANGED main
  <2>1. \A p, h : VersionAt(p, h)' = VersionAt(p, h) BY <1>1 DEF VersionAt, Touches
  <2> QED BY <1>1, <2>1 DEF Grows, TypeOK
<1>2. CASE Commit
  <2>1. PICK tree \in Tree : main' = Append(main, tree) BY <1>2 DEF Commit
  <2>2. Len(main) \in Nat /\ Len(main') = Len(main) + 1 BY <2>1 DEF TypeOK
  <2>3. \A i \in 1..Len(main) : main'[i] = main[i] BY <2>1 DEF TypeOK
  <2>4. ASSUME NEW p, NEW h \in 1..Len(main) PROVE VersionAt(p, h)' = VersionAt(p, h)
    <3>1. ASSUME NEW i \in 1..h PROVE Touches(i, p)' <=> Touches(i, p)
      <4>1. i \in 1..Len(main) /\ (i # 1 => i - 1 \in 1..Len(main)) BY <2>2
      <4> QED BY <4>1, <2>3 DEF Touches
    <3>2. {i \in 1..h : Touches(i, p)} = {i \in 1..h : Touches(i, p)'} BY <3>1
    <3> QED BY <3>2 DEF VersionAt
  <2> QED BY <2>2, <2>3, <2>4 DEF Grows
<1> QED BY <1>1, <1>2 DEF Next, Start, Publish, PushTags, End, vars

LEMMA ContentStays ==
    ASSUME Grows, NEW v, NEW h \in 1..Len(main), HasContentOf(v, h)
    PROVE  HasContentOf(v, h)'
<1>1. PICK i \in 1..Len(main) : /\ VersionAt(v.project, i) = v.version
                                /\ main[i][v.project] = main[h][v.project]
  BY DEF HasContentOf
<1>2. i \in 1..Len(main') BY DEF Grows
<1>3. VersionAt(v.project, i)' = v.version BY <1>1 DEF Grows
<1>4. main'[i] = main[i] /\ main'[h] = main[h] BY DEF Grows
<1> QED BY <1>1, <1>2, <1>3, <1>4 DEF HasContentOf

LEMMA TagStays == ASSUME Grows, NEW t, TagInv(t) PROVE TagInv(t)'
<1>1. t.commit \in 1..Len(main') BY DEF TagInv, Grows
<1>2. VersionAt(t.project, t.commit)' = t.version BY DEF TagInv, Grows
<1> QED BY <1>1, <1>2 DEF TagInv

LEMMA PackageStays == ASSUME Grows, NEW x, PackageInv(x) PROVE PackageInv(x)'
<1>1. x.commit \in 1..Len(main) BY DEF PackageInv
<1>2. x.commit \in 1..Len(main') BY <1>1 DEF Grows
<1>3. VersionAt(x.project, x.commit)' = x.version BY <1>1 DEF PackageInv, Grows
<1>4. \A d \in x.deps : HasContentOf(d, x.commit)' BY <1>1, ContentStays DEF PackageInv
<1> QED BY <1>2, <1>3, <1>4 DEF PackageInv

LEMMA JobStays ==
    ASSUME Grows, tags \subseteq tags', \A t \in tags : TagInv(t),
           NEW f, f.tags \subseteq tags, JobInv(f)
    PROVE  JobInv(f)'
<1> SUFFICES ASSUME f.at # "idle" PROVE JobInv(f)'
  BY DEF JobInv
<1>1. f.head \in 1..Len(main) /\ f.head \in 1..Len(main') BY DEF JobInv, Grows
<1>2. \A v \in f.published : v.version = VersionAt(v.project, f.head)'
  BY <1>1 DEF JobInv, Grows
<1>3. ASSUME NEW p, Tagged(p, f) PROVE Tagged(p, f)'
  <2>1. PICK t \in TagsOf(f.tags, p) :
          IsLastTag(t, f.tags) /\ main[t.commit][p] = main[f.head][p]
    BY <1>3 DEF Tagged
  <2>2. t.commit \in 1..Len(main) BY <2>1 DEF TagsOf, TagInv
  <2>3. main'[t.commit] = main[t.commit] /\ main'[f.head] = main[f.head]
    BY <1>1, <2>2 DEF Grows
  <2> QED BY <2>1, <2>3 DEF Tagged
<1>4. Covers(f)' BY <1>3 DEF JobInv, Covers
<1>5. f.at = "done" => f.todo = {} /\ \A v \in f.published : Exists(v, tags)'
  BY DEF JobInv, Exists
<1> QED BY <1>1, <1>2, <1>4, <1>5 DEF JobInv

LEMMA VersionInit == Init => VersionInv
BY DEF Init, VersionInv, JobInv, NoJob

(* The last tags of a project have one version.                            *)
LEMMA LastTagIsOne ==
    ASSUME NEW f \in JobState, NEW t, NEW u, IsLastTag(t, f.tags), IsLastTag(u, f.tags),
           t.project = u.project
    PROVE  t.version = u.version
<1>1. t.version \in Nat /\ u.version \in Nat BY DEF IsLastTag, JobState, Tag
<1>2. t.version <= u.version /\ u.version <= t.version BY DEF IsLastTag, TagsOf
<1> QED BY <1>1, <1>2

LEMMA JobOnStart ==
    ASSUME TypeOK, VersionInv, Fails \subseteq {"tag"}, NEW j \in Job, Start(j)
    PROVE  JobInv(job'[j])
<1>1. PICK h \in 1..Len(main), noTag \in Failing("tag"), noDiff \in Failing("diff") :
        Starts(j, h, noTag, noDiff)
  BY StartCases
<1>2. noDiff = {} BY DEF Failing
<1>3. PICK c : c = Clone(h) OBVIOUS
<1>4. c.tags = tags /\ c.head = h BY <1>3 DEF Clone
<1>5. PICK g : g = job'[j] OBVIOUS
<1>6. /\ g.at = "publish" /\ g.head = h /\ g.tags = tags /\ g.published = {}
      /\ g.todo = Propagate(DetectChanges(c, noTag, noDiff))
  BY <1>1, <1>3, <1>5 DEF Starts
<1>7. Covers(g)
  <2> SUFFICES ASSUME NEW p \in Project, p \notin g.todo PROVE Tagged(p, g)
    BY DEF Covers
  <2>1. p \notin DetectChanges(c, noTag, noDiff) BY <1>6 DEF Propagate
  <2>2. ~Changed(p, c) BY <2>1, <1>2 DEF DetectChanges
  <2> QED BY <2>2, <1>4, <1>6 DEF Changed, Tagged
<1>8. JobInv(g) BY <1>6, <1>7 DEF JobInv
<1> QED BY <1>5, <1>8

(* A package is bound to what its dependencies contain at its commit.      *)
LEMMA BindingsFit ==
    ASSUME TypeOK, FeedInv, VersionInv, NEW j \in Job, job[j].at # "idle",
           NEW p \in job[j].todo, \A q \in job[j].todo : ~Before(q, p),
           NEW noTag, NEW d \in Bindings(p, job[j], noTag)
    PROVE  HasContentOf(d, job[j].head)
<1> DEFINE f == job[j]
<1>1. f \in JobState BY DEF TypeOK
<1>2. JobInv(f) BY DEF VersionInv
<1>3. f.head \in 1..Len(main) BY <1>2 DEF JobInv
<1>4. CASE d \in f.published
  <2>1. d.version = VersionAt(d.project, f.head) BY <1>2, <1>4 DEF JobInv
  <2> QED BY <1>3, <2>1 DEF HasContentOf
<1>5. CASE d \notin f.published
  <2>1. PICK t \in f.tags :
          /\ d = [project |-> t.project, version |-> t.version]
          /\ t.project \in Dep[p] /\ IsLastTag(t, f.tags)
          /\ TagsOf(f.published, t.project) = {}
    BY <1>5 DEF Bindings
  <2>2. d.project = t.project /\ d.version = t.version BY <2>1
  <2>3. p \in Project BY <1>1 DEF JobState
  <2>4. t.project \in Project /\ t.project \notin f.todo BY <2>1, <2>3, DependenciesFirst
  <2>5. Tagged(t.project, f) BY <1>2, <2>1, <2>4 DEF JobInv, Covers
  <2>6. PICK u \in f.tags : /\ u.project = t.project /\ IsLastTag(u, f.tags)
                            /\ main[u.commit][t.project] = main[f.head][t.project]
    BY <2>5 DEF Tagged, TagsOf
  <2>7. t.version = u.version BY <1>1, <2>1, <2>6, LastTagIsOne
  <2>8. u \in tags BY <2>6 DEF FeedInv, JobsAreHonest
  <2>9. u.commit \in 1..Len(main) /\ u.version = VersionAt(u.project, u.commit)
    BY <2>8 DEF VersionInv, TagInv
  <2> QED BY <2>2, <2>6, <2>7, <2>9 DEF HasContentOf
<1> QED BY <1>4, <1>5

(* Neither the history nor the tags change in a step of Publish, so what   *)
(* it leaves is looked at in the state it starts from.                     *)
LEMMA PublishStep ==
    ASSUME TypeOK, FeedInv, VersionInv, Fails \subseteq {"tag"}, NEW j \in Job, Publish(j)
    PROVE  /\ \A x \in feed' : PackageInv(x)
           /\ JobInv(job'[j]) /\ job'[j].tags \subseteq tags
           /\ \A k \in Job \ {j} : job'[k] = job[k]
<1> DEFINE f == job[j]
<1>1. f \in JobState /\ DOMAIN job = Job BY DEF TypeOK
<1>2. f.at = "publish" BY DEF Publish
<1>3. PICK p \in f.todo : /\ \A q \in f.todo : ~Before(q, p)
                          /\ PassesOver(j, p) \/ Publishes(j, p)
  BY PublishCases
<1>4. Publishes(j, p) BY <1>3 DEF PassesOver
<1>5. PICK v, noTag : /\ v = VersionAt(p, f.head)
                      /\ Push(Packed(p, v, f, noTag)) /\ Go(j, Recorded(p, v, f))
  BY <1>4 DEF Publishes
<1>6. p \in Project /\ f.head \in Nat BY <1>1 DEF JobState
<1>7. v \in Nat BY <1>5, <1>6, VersionType
<1>8. PICK g : g = Recorded(p, v, f) OBVIOUS
<1>9. PICK x : x = Packed(p, v, f, noTag) OBVIOUS
<1>10. PICK new : new = [project |-> p, version |-> v] OBVIOUS
<1>11. new.project = p /\ new.version = v BY <1>10
<1>12. /\ g.at = f.at /\ g.head = f.head /\ g.tags = f.tags /\ g.todo = f.todo \ {p}
       /\ g.published = f.published \cup {new}
  BY <1>1, <1>6, <1>7, <1>8, <1>10, RecordedJob
<1>13. job'[j] = g /\ \A k \in Job \ {j} : job'[k] = job[k] BY <1>1, <1>5, <1>8 DEF Go
<1>14. /\ x.project = p /\ x.version = v /\ x.commit = f.head
       /\ x.deps = Bindings(p, f, noTag)
  BY <1>9, PackedFields
<1>15. feed' \subseteq feed \cup {x} BY <1>5, <1>9 DEF Push
<1>16. JobInv(f) BY DEF VersionInv
<1>17. PackageInv(x)
  <2>1. \A d \in x.deps : HasContentOf(d, x.commit) BY <1>2, <1>3, <1>14, BindingsFit
  <2> QED BY <2>1, <1>2, <1>5, <1>14, <1>16 DEF PackageInv, JobInv
<1>18. Covers(g)
  <2>1. Covers(f) BY <1>2, <1>16 DEF JobInv
  <2> QED BY <2>1, <1>11, <1>12 DEF Covers, Tagged, TagsOf
<1>19. JobInv(g)
  BY <1>2, <1>5, <1>11, <1>12, <1>16, <1>18 DEF JobInv
<1>20. g.tags \subseteq tags BY <1>12 DEF FeedInv, JobsAreHonest
<1>21. \A y \in feed' : PackageInv(y) BY <1>15, <1>17 DEF VersionInv
<1> QED BY <1>13, <1>19, <1>20, <1>21

LEMMA VersionPublish ==
    ASSUME TypeOK, FeedInv, VersionInv, Fails \subseteq {"tag"}, Grows,
           NEW j \in Job, Publish(j)
    PROVE  VersionInv'
<1>1. UNCHANGED <<main, tags>> BY DEF Publish
<1>2. /\ \A x \in feed' : PackageInv(x)
      /\ JobInv(job'[j]) /\ job'[j].tags \subseteq tags
      /\ \A k \in Job \ {j} : job'[k] = job[k]
  BY PublishStep
<1>3. \A t \in tags' : TagInv(t)' BY <1>1, TagStays DEF VersionInv
<1>4. \A x \in feed' : PackageInv(x)' BY <1>2, PackageStays
<1>5. ASSUME NEW k \in Job PROVE JobInv(job[k])'
  <2>1. PICK f : f = job'[k] OBVIOUS
  <2>2. JobInv(f) /\ f.tags \subseteq tags
    BY <1>2, <2>1 DEF VersionInv, FeedInv, JobsAreHonest
  <2>3. JobInv(f)' BY <1>1, <2>2, JobStays DEF VersionInv
  <2> QED BY <2>1, <2>3 DEF JobInv, Covers, Tagged
<1> QED BY <1>3, <1>4, <1>5 DEF VersionInv

LEMMA VersionStart ==
    ASSUME TypeOK, FeedInv, VersionInv, Fails \subseteq {"tag"}, Grows,
           NEW j \in Job, Start(j)
    PROVE  VersionInv'
<1>1. PICK h, noTag, noDiff : Starts(j, h, noTag, noDiff) BY StartCases
<1>2. UNCHANGED <<main, feed, tags>> BY StartCases
<1>3. job'[j].tags = tags /\ \A k \in Job \ {j} : job'[k] = job[k] BY <1>1 DEF Starts
<1>4. JobInv(job'[j]) BY JobOnStart
<1>5. \A t \in tags' : TagInv(t)' BY <1>2, TagStays DEF VersionInv
<1>6. \A x \in feed' : PackageInv(x)' BY <1>2, PackageStays DEF VersionInv
<1>7. ASSUME NEW k \in Job PROVE JobInv(job[k])'
  <2>1. PICK f : f = job'[k] OBVIOUS
  <2>2. JobInv(f) /\ f.tags \subseteq tags
    BY <1>3, <1>4, <2>1 DEF VersionInv, FeedInv, JobsAreHonest
  <2>3. JobInv(f)' BY <1>2, <2>2, JobStays DEF VersionInv
  <2> QED BY <2>1, <2>3 DEF JobInv, Covers, Tagged
<1> QED BY <1>5, <1>6, <1>7 DEF VersionInv

LEMMA VersionPushTags ==
    ASSUME TypeOK, FeedInv, VersionInv, Grows, NEW j \in Job, PushTags(j)
    PROVE  VersionInv'
<1> DEFINE f == job[j]
           made == {[project |-> v.project, version |-> v.version, commit |-> f.head] :
                      v \in {v \in f.published : ~Exists(v, f.tags)}}
           rejected == {t \in made : Exists(t, tags)}
<1>1. f \in JobState /\ DOMAIN job = Job BY DEF TypeOK
<1>2. /\ tags' = tags \cup (made \ rejected) /\ UNCHANGED <<main, feed>>
      /\ f.at = "publish" /\ f.todo = {}
      /\ job' = [job EXCEPT ![j] = IF rejected = {} THEN [f EXCEPT !.at = "done"] ELSE NoJob]
  BY DEF PushTags, Go
<1>3. \A k \in Job \ {j} : job'[k] = job[k] BY <1>1, <1>2
<1>4. \/ job'[j] = NoJob
      \/ /\ rejected = {} /\ job'[j].at = "done" /\ job'[j].head = f.head
         /\ job'[j].tags = f.tags /\ job'[j].todo = {} /\ job'[j].published = f.published
  BY <1>1, <1>2 DEF JobState
<1>5. JobInv(f) BY DEF VersionInv
<1>6. \A t \in made : TagInv(t)
  BY <1>2, <1>5 DEF JobInv, TagInv
<1>7. rejected = {} => \A v \in f.published : Exists(v, tags')
  <2> SUFFICES ASSUME rejected = {}, NEW v \in f.published PROVE Exists(v, tags')
    OBVIOUS
  <2>1. CASE Exists(v, f.tags) BY <2>1, <1>2 DEF FeedInv, JobsAreHonest, Exists
  <2>2. CASE ~Exists(v, f.tags)
    <3>1. [project |-> v.project, version |-> v.version, commit |-> f.head] \in tags'
      BY <2>2, <1>2
    <3> QED BY <3>1 DEF Exists
  <2> QED BY <2>1, <2>2
<1>8. tags \subseteq tags' /\ tags' \subseteq tags \cup made BY <1>2
<1> HIDE DEF made, rejected
<1>9. \A t \in tags' : TagInv(t)' BY <1>6, <1>8, TagStays DEF VersionInv
<1>10. \A x \in feed' : PackageInv(x)' BY <1>2, PackageStays DEF VersionInv
<1>11. ASSUME NEW k \in Job PROVE JobInv(job[k])'
  <2>1. PICK e : e = job[k] OBVIOUS
  <2>2. PICK g : g = job'[k] OBVIOUS
  <2>3. JobInv(e) /\ e.tags \subseteq tags
    BY <2>1 DEF VersionInv, FeedInv, JobsAreHonest
  <2>4. JobInv(e)' BY <1>8, <2>3, JobStays DEF VersionInv
  <2>5. \/ g = e \/ g = NoJob
        \/ /\ g.at = "done" /\ g.head = e.head /\ g.tags = e.tags /\ g.todo = {}
           /\ g.published = e.published /\ e.at = "publish" /\ e.todo = {}
           /\ \A v \in e.published : Exists(v, tags')
    <3>1. CASE k = j BY <3>1, <2>1, <2>2, <1>2, <1>4, <1>7
    <3>2. CASE k # j BY <3>2, <2>1, <2>2, <1>3
    <3> QED BY <3>1, <3>2
  <2>6. CASE g = NoJob BY <2>6, <2>2 DEF JobInv, NoJob
  <2>7. CASE g = e BY <2>7, <2>2, <2>4 DEF JobInv, Covers, Tagged
  <2>8. CASE /\ g.at = "done" /\ g.head = e.head /\ g.tags = e.tags /\ g.todo = {}
             /\ g.published = e.published /\ e.at = "publish" /\ e.todo = {}
             /\ \A v \in e.published : Exists(v, tags')
    BY <2>8, <2>2, <2>4 DEF JobInv, Covers, Tagged
  <2> QED BY <2>5, <2>6, <2>7, <2>8
<1> QED BY <1>9, <1>10, <1>11 DEF VersionInv

(* A new commit changes no earlier one, and no job reads it; a job that    *)
(* ends leaves nothing to say.                                             *)
LEMMA VersionRest ==
    ASSUME TypeOK, FeedInv, VersionInv, Grows, UNCHANGED <<feed, tags>>,
           \A k \in Job : job'[k] = job[k] \/ job'[k] = NoJob
    PROVE  VersionInv'
<1>1. \A t \in tags' : TagInv(t)' BY TagStays DEF VersionInv
<1>2. \A x \in feed' : PackageInv(x)' BY PackageStays DEF VersionInv
<1>3. ASSUME NEW k \in Job PROVE JobInv(job[k])'
  <2>1. PICK f : f = job'[k] OBVIOUS
  <2>2. CASE f = NoJob BY <2>1, <2>2 DEF JobInv, NoJob
  <2>3. CASE f = job[k]
    <3>1. JobInv(f) /\ f.tags \subseteq tags BY <2>3 DEF VersionInv, FeedInv, JobsAreHonest
    <3>2. JobInv(f)' BY <3>1, JobStays DEF VersionInv
    <3> QED BY <2>1, <3>2 DEF JobInv, Covers, Tagged
  <2> QED BY <2>1, <2>2, <2>3
<1> QED BY <1>1, <1>2, <1>3 DEF VersionInv

LEMMA VersionKept ==
    ASSUME Fails \subseteq {"tag"}
    PROVE  TypeOK /\ FeedInv /\ VersionInv /\ [Next]_vars => VersionInv'
<1> SUFFICES ASSUME TypeOK, FeedInv, VersionInv, [Next]_vars PROVE VersionInv'
  OBVIOUS
<1>1. Grows BY HistoryGrows
<1>2. CASE Commit \/ UNCHANGED vars
  <2>1. UNCHANGED <<feed, tags, job>> BY <1>2 DEF Commit, vars
  <2> QED BY <1>1, <2>1, VersionRest
<1>3. ASSUME NEW j \in Job, End(j) PROVE VersionInv'
  <2>1. UNCHANGED <<feed, tags>> BY <1>3 DEF End
  <2>2. \A k \in Job : job'[k] = job[k] \/ job'[k] = NoJob BY <1>3 DEF End, Go, TypeOK
  <2> QED BY <1>1, <2>1, <2>2, VersionRest
<1> QED BY <1>1, <1>2, <1>3, VersionStart, VersionPublish, VersionPushTags DEF Next

(* When git tells changes and counts commits and packed files are found -  *)
(* git may still fail to list the tags - a package is bound to versions    *)
(* that contain what its dependencies contained at its commit, whichever   *)
(* jobs published them and whatever was changed and brought back.          *)
THEOREM PackagesFit ==
    ASSUME Fails \subseteq {"tag"}
    PROVE  Spec => []PackagesFitTogether
<1>1. TypeOK /\ FeedInv /\ VersionInv /\ [Next]_vars => VersionInv' BY VersionKept
<1>2. TypeOK /\ FeedInv /\ [Next]_vars => FeedInv' BY FeedKept
<1>3. VersionInv => PackagesFitTogether
  BY DEF VersionInv, PackageInv, PackagesFitTogether
<1> QED BY <1>1, <1>2, <1>3, InitTyped, TypesKept, FeedInit, VersionInit, PTL DEF Spec

(* Under the same assumption, what a job that ends well did not publish    *)
(* was tagged with the content of its commit, and what it published is     *)
(* tagged by the job or was by another: all of it is on the feed.          *)
THEOREM DoneJobsDeliver ==
    ASSUME Fails \subseteq {"tag"}
    PROVE  Spec => []JobsDeliver
<1>1. TypeOK /\ FeedInv /\ VersionInv /\ [Next]_vars => VersionInv' BY VersionKept
<1>2. TypeOK /\ FeedInv /\ [Next]_vars => FeedInv' BY FeedKept
<1>3. FeedInv /\ VersionInv => JobsDeliver
  <2> SUFFICES ASSUME FeedInv, VersionInv, NEW j \in Job, job[j].at = "done", NEW p \in Project
               PROVE  \E t \in TagsOf(tags, p) :
                        HasContentOf(t, job[j].head) /\ Exists(t, feed)
    BY DEF JobsDeliver
  <2>1. PICK f : f = job[j] OBVIOUS
  <2>2. JobInv(f) /\ f.at = "done" BY <2>1 DEF VersionInv
  <2>3. f.head \in 1..Len(main) /\ Covers(f) /\ f.todo = {} BY <2>2 DEF JobInv
  <2>4. \A t \in tags : TagInv(t) /\ Exists(t, feed)
    BY DEF VersionInv, FeedInv, NothingDangles
  <2>5. CASE Tagged(p, f)
    <3>1. PICK t \in f.tags : t.project = p /\ main[t.commit][p] = main[f.head][p]
      BY <2>5 DEF Tagged, TagsOf
    <3>2. t \in tags BY <2>1, <3>1 DEF FeedInv, JobsAreHonest
    <3>3. HasContentOf(t, f.head) BY <2>4, <3>1, <3>2 DEF TagInv, HasContentOf
    <3> QED BY <2>1, <2>4, <3>1, <3>2, <3>3 DEF TagsOf
  <2>6. CASE TagsOf(f.published, p) # {}
    <3>1. PICK v \in f.published : v.project = p BY <2>6 DEF TagsOf
    <3>2. v.version = VersionAt(p, f.head) BY <2>2, <3>1 DEF JobInv
    <3>3. PICK t \in tags : t.project = p /\ t.version = v.version
      BY <2>2, <3>1 DEF JobInv, Exists
    <3>4. HasContentOf(t, f.head) BY <2>3, <3>2, <3>3 DEF HasContentOf
    <3> QED BY <2>1, <2>4, <3>3, <3>4 DEF TagsOf
  <2> QED BY <2>3, <2>5, <2>6 DEF Covers
<1> QED BY <1>1, <1>2, <1>3, InitTyped, TypesKept, FeedInit, VersionInit, PTL DEF Spec
=============================================================================
