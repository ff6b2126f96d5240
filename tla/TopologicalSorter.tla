-------------------------- MODULE TopologicalSorter --------------------------
(***************************************************************************)
(* TopologicalSorter.Sort: a depth-first search over the projects in the   *)
(* order of the solution, listing each after the ones it references.       *)
(***************************************************************************)
EXTENDS Naturals, Sequences, FiniteSets

(* Visit: what is visited and listed so far goes from call to call.        *)
RECURSIVE Visit(_, _, _), VisitAll(_, _, _)
Visit(name, deps, st) ==
    IF name \in st.visited \/ name \notin DOMAIN deps THEN st
    ELSE LET inner == VisitAll(deps[name], deps, [st EXCEPT !.visited = @ \cup {name}])
         IN  [inner EXCEPT !.result = Append(@, name)]

VisitAll(names, deps, st) ==
    IF names = <<>> THEN st
    ELSE VisitAll(Tail(names), deps, Visit(Head(names), deps, st))

Sort(projects, deps) == VisitAll(projects, deps, [visited |-> {}, result |-> <<>>]).result

-----------------------------------------------------------------------------
(* A reference definition: each project once, after those it references.   *)
Position(p, list) == CHOOSE i \in 1..Len(list) : list[i] = p
Sorted(list, deps) ==
    /\ {list[i] : i \in 1..Len(list)} = DOMAIN deps
    /\ Len(list) = Cardinality(DOMAIN deps)
    /\ \A p \in DOMAIN deps : \A i \in 1..Len(deps[p]) :
         deps[p][i] \in DOMAIN deps => Position(deps[p][i], list) < Position(p, list)

(* No project reaches itself: some numbering goes down along references.   *)
Acyclic(deps) ==
    \E rank \in [DOMAIN deps -> 1..Cardinality(DOMAIN deps)] :
      \A p \in DOMAIN deps : \A i \in 1..Len(deps[p]) :
        deps[p][i] \in DOMAIN deps => rank[deps[p][i]] < rank[p]

(* All ways for three projects to reference up to two of themselves, or    *)
(* one that is not there, in any order: what is acyclic is sorted.         *)
References == {<<>>} \cup {<<x>> : x \in {"a", "b", "c", "other"}}
                \cup {<<x, y>> : x, y \in {"a", "b", "c"}}

ASSUME SortIsRight ==
    \A deps \in [{"a", "b", "c"} -> References] :
      Acyclic(deps) => Sorted(Sort(<<"a", "b", "c">>, deps), deps)
=============================================================================
