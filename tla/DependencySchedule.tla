------------------------- MODULE DependencySchedule -------------------------
(***************************************************************************)
(* The order in which the rows of a reviewed comparison are written:       *)
(* plan_execution_rows and schedule_dependencies.                          *)
(*                                                                         *)
(* A row is its rank.  A field to be written is a record                   *)
(* [owner, refs, hard]: the row it belongs to, the rows it refers to (none *)
(* for a plain value) and whether the record cannot be made without it.    *)
(* Only references that resolve to one row of the right model are here.    *)
(***************************************************************************)
EXTENDS Integers, SequencesExt

(* A reference waits for a row only if that row is still to be created.    *)
Edges(creates, fields) == {e \in creates \X fields : e[1] \in e[2].refs}
Dependency(e) == e[1]
Owner(e) == e[2].owner
Within(S, E) == {e \in E : {Dependency(e), Owner(e)} \subseteq S}
Owners(S, E) == {Owner(e) : e \in {d \in E : Dependency(d) \in S}}

(* The rows that wait for a row of S, in any number of steps, S included:  *)
(* the least set that holds S and whoever waits for one of its rows.       *)
Reach(S, E) ==
  LET near == S \cup {Owner(e) : e \in E}
  IN {r \in near : \A T \in SUBSET near : S \subseteq T /\ Owners(T, E) \subseteq T => r \in T}

OnCycle(r, E) == r \in Reach(Owners({r}, E), E)
StrongComponent(r, E) == {q \in Reach({r}, E) : r \in Reach({q}, E)}

(* The rows of S that wait for no row of S that is not done.               *)
Ready(done, S, E) ==
  {r \in S \ done : \A e \in Within(S, E) : Owner(e) = r => Dependency(e) \in done}

(* Kahn's order of the rows S, the lowest rank first among the ready ones. *)
Extended(order, S, E) ==
  LET next == Ready(ToSet(order), S, E)
  IN IF next = {} THEN order ELSE Append(order, Min(next))

Order(S, E) ==
  LET order[n \in Nat] == IF n = 0 THEN <<>> ELSE Extended(order[n - 1], S, E)
  IN order[Cardinality(S)]

PlaceIn(order, r) == CHOOSE i \in DOMAIN order : order[i] = r

(* Fault: a group stays open whatever its rows wait for.                   *)
NeverSplit(order, E) == <<ToSet(order)>>

(* The groups: levels never fall along the order, so that a row opens a    *)
(* new one exactly when it waits for a row of the last.                    *)
Grouped(groups, r, E) ==
  LET last == Len(groups)
  IN IF groups = <<>> \/ \E e \in E : Owner(e) = r /\ Dependency(e) \in groups[last]
     THEN Append(groups, {r})
     ELSE [groups EXCEPT ![last] = @ \cup {r}]

Groups(order, E) ==
  LET groups[n \in Nat] == IF n = 0 THEN <<>> ELSE Grouped(groups[n - 1], order[n], E)
  IN groups[Len(order)]

(* Fault: the reference forward is kept and the one back is put off.       *)
DeferForward(E) ==
  {e \in E : /\ ~e[2].hard
             /\ Owner(e) \in StrongComponent(Dependency(e), E)
             /\ LET component == StrongComponent(Dependency(e), E)
                    order == Order(component, {d \in E : d[2].hard})
                IN PlaceIn(order, Dependency(e)) <= PlaceIn(order, Owner(e))}

(* On a cycle an optional reference is put off when it points back in the  *)
(* order that the required references of its component leave.              *)
DeferBack(E) ==
  {e \in E : /\ ~e[2].hard
             /\ Owner(e) \in StrongComponent(Dependency(e), E)
             /\ LET component == StrongComponent(Dependency(e), E)
                    order == Order(component, {d \in E : d[2].hard})
                IN PlaceIn(order, Dependency(e)) >= PlaceIn(order, Owner(e))}

(* A cycle of required references blocks its rows and all that wait for    *)
(* them; the rest is ordered and grouped.                                  *)
Schedule(creates, fields) ==
  LET edges == Edges(creates, fields)
      rows == creates \cup {f.owner : f \in fields}
      hard == {e \in edges : e[2].hard}
      blocked == Reach({r \in rows : OnCycle(r, hard)}, edges)
      usable == Within(rows \ blocked, edges)
      deferred == DeferBack(usable)
      order == Order(rows \ blocked, usable \ deferred)
  IN [creates |-> creates, updates |-> rows \ creates, fields |-> fields,
      blocked |-> blocked, deferred |-> {e[2] : e \in deferred},
      order |-> order, groups |-> Groups(order, usable \ deferred)]

---------------------------------------------------------------------------
(* What a schedule has to be, from the references alone.                   *)
RowsOf(plan) == plan.creates \cup plan.updates
FieldsOf(plan, r) == {f \in plan.fields : f.owner = r}
DeferredOf(plan, r) == FieldsOf(plan, r) \cap plan.deferred
NeedsOf(plan, r) == UNION {f.refs : f \in FieldsOf(plan, r) \ plan.deferred}
GroupOf(plan, r) == CHOOSE i \in DOMAIN plan.groups : r \in plan.groups[i]

(* Every row that is not blocked is in one group, behind the new records   *)
(* that its first write needs; only optional references on a cycle are put *)
(* off; and a row is blocked only behind a cycle of required references.   *)
IsSchedule(plan) ==
  LET usable == RowsOf(plan) \ plan.blocked
      edges == Edges(plan.creates, plan.fields)
      closed(S) == \A r \in S : \E e \in edges : Owner(e) = r /\ Dependency(e) \in S
  IN
  /\ \A r \in usable : Cardinality({i \in DOMAIN plan.groups : r \in plan.groups[i]}) = 1
  /\ UNION {plan.groups[i] : i \in DOMAIN plan.groups} = usable
  /\ \A r \in usable : \A p \in NeedsOf(plan, r) \cap plan.creates :
       GroupOf(plan, p) < GroupOf(plan, r)
  /\ \A f \in plan.deferred :
       ~f.hard /\ \E p \in f.refs : f.owner \in StrongComponent(p, edges)
  /\ plan.blocked # {} => \E S \in SUBSET plan.blocked : S # {} /\ closed(S)
=============================================================================
