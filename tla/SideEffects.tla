----------------------------- MODULE SideEffects ----------------------------
(***************************************************************************)
(* The loop of _create_side_effects_for_change_log (publishing/api.py),    *)
(* one pop of its work list per step.  ChangeLogs, and with it Publishing, *)
(* takes the outcome in one step as the set of all transitive dependents;  *)
(* here it comes out of the traversal the code really makes, in whatever   *)
(* order the database returns rows that no query orders.                   *)
(***************************************************************************)
EXTENDS ChangeLogs

CONSTANT Graphs         \* the dependency graphs to start from: for each entity, what
                        \* its current version depends on ({} when it is deleted)

ASSUME GraphsAssumption == Graphs \subseteq [Entities -> SUBSET Entities]

VARIABLES
    graph,         \* the branch's dependencies, which the loop does not change
    originals,     \* entities with a record in the log when the loop starts
    todo,          \* those of them the for loop has still to take
    changes,       \* changes_and_affected, a stack of <<cause, affected>>
    processed,     \* processed_entity_ids
    recorded,      \* entities with a record in the log
    toUpdate,      \* branch_objs_to_update_with_side_effects
    repointed,     \* rows that were repointed to the log's record
    effects        \* DraftSideEffect / PublishSideEffect rows, <<cause, effect>>

vars == <<graph, originals, todo, changes, processed, recorded, toUpdate, repointed, effects>>

Init ==
    /\ graph \in Graphs
    /\ originals \in (SUBSET Entities) \ {{}}
    /\ todo = originals
    /\ changes = << >>
    /\ processed = {}
    /\ recorded = originals
    /\ toUpdate = {}
    /\ repointed = {}
    /\ effects = {}

\* branch_cls.objects.filter(version__dependencies=e)
AffectedBy(e) == {a \in Entities : e \in graph[a]}

\* The work for cause e and the rows in A, in any order.
Worklists(e, A) == SetToSeqs({<<e, a>> : a \in A})

\* The head of the for loop: the next original change and the rows it affects.
TakeOriginal ==
    /\ changes = << >>
    /\ toUpdate = {}
    /\ \E e \in todo :
          /\ todo' = todo \ {e}
          /\ changes' \in Worklists(e, AffectedBy(e))
    /\ UNCHANGED <<graph, originals, processed, recorded, toUpdate, repointed, effects>>

\* Mutant: no guard against entities already dealt with.
NextLayer_Unguarded(affected, done) == AffectedBy(affected)

\* Mutant: follows what the row depends on, not what depends on it.
NextLayer_WrongWay(affected, done) == graph[affected] \ done

\* next_layer_of_affected, without the entities that have been a cause.
NextLayer(affected, done) == AffectedBy(affected) \ done

\* Mutant: the cause recorded is the original change, not the one a layer below.
SideEffect_FromOriginal(cause, affected) ==
    <<CHOOSE e \in originals \ todo : TRUE, affected>>

\* The side effect of one turn of the loop.
SideEffect(cause, affected) == <<cause, affected>>

\* One turn of the while loop: get_or_create the record of the affected row, note
\* the row for repointing unless it points at the log already, record the side
\* effect and stack the next layer.
PopChange ==
    /\ changes # << >>
    /\ LET cause    == changes[Len(changes)][1]
           affected == changes[Len(changes)][2]
           done     == processed \cup {cause}
       IN  /\ recorded' = recorded \cup {affected}
           /\ toUpdate' = toUpdate \cup ({affected} \ (originals \cup repointed))
           /\ effects' = effects \cup {SideEffect(cause, affected)}
           /\ processed' = done
           /\ \E more \in Worklists(affected, NextLayer(affected, done)) :
                 changes' = SubSeq(changes, 1, Len(changes) - 1) \o more
    /\ UNCHANGED <<graph, originals, todo, repointed>>

\* Mutant: the rows gathered in a round are dropped when the next one starts.
BulkUpdate_Dropped ==
    /\ changes = << >>
    /\ toUpdate # {}
    /\ repointed' = IF todo = {} THEN repointed \cup toUpdate ELSE repointed
    /\ toUpdate' = {}
    /\ UNCHANGED <<graph, originals, todo, changes, processed, recorded, effects>>

\* The bulk_update that ends a round.
BulkUpdate ==
    /\ changes = << >>
    /\ toUpdate # {}
    /\ repointed' = repointed \cup toUpdate
    /\ toUpdate' = {}
    /\ UNCHANGED <<graph, originals, todo, changes, processed, recorded, effects>>

Next == TakeOriginal \/ PopChange \/ BulkUpdate

\* One call runs the loop to its end: nothing in it waits for anything else.
Spec == Init /\ [][Next]_vars /\ WF_vars(Next)

Finished == todo = {} /\ changes = << >> /\ toUpdate = {}

-----------------------------------------------------------------------------
(***************************************************************************)
(* Properties                                                              *)
(***************************************************************************)
\* The rows are entities, and only entities that are affected are ever stacked.
TypeOK ==
    /\ graph \in [Entities -> SUBSET Entities]
    /\ todo \subseteq originals
    /\ \A i \in 1 .. Len(changes) :
          changes[i][1] \in recorded /\ changes[i][2] \in AffectedBy(changes[i][1])
    /\ UNION {originals, processed, repointed, toUpdate} \subseteq recorded
    /\ recorded \subseteq Entities
    /\ effects \subseteq recorded \X recorded

\* The branch the loop ran on, as ChangeLogs describes it: every entity at its
\* only version, the originals with a record in log 1.
Branch ==
    [EmptyBranch EXCEPT
        !.version = [e \in Entities |-> 1],
        !.records = [e \in Entities |->
            IF e \in originals THEN <<[log |-> 1, old |-> None, new |-> 1]>> ELSE << >>]]

\* The traversal ends with what WithSideEffectRecords says in one step: a record
\* for exactly the originals and everything that depends on them, directly or
\* not, and each of their rows pointing at it.
ReachesAffectedRows ==
    Finished =>
        LET affected == originals \cup AffectedRows([e \in Entities |-> <<graph[e]>>], Branch, 1)
        IN  recorded = affected /\ originals \cup repointed = affected

\* "Side-effects are recorded in a collapsed form that only captures one level":
\* an effect depends on its cause directly, and every record that is there only
\* as a side effect has a cause in the log.
EffectsAreOneLevel ==
    /\ \A p \in effects : p[1] \in graph[p[2]]
    /\ \A e \in recorded \ originals : \E p \in effects : p[2] = e

\* The loop ends, cyclic graphs included: processed_entity_ids "also guards
\* against infinite parent-child relationship loops".
Terminates == <>Finished

\* "We will record side-effects on a parent container whenever a child changes":
\* every pair of a changed entity and a row of the log that depends on it.
EffectsAreComplete ==
    Finished =>
        \A e \in recorded : \A c \in graph[e] \cap recorded : <<c, e>> \in effects

=============================================================================
