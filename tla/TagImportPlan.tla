--------------------------- MODULE TagImportPlan ---------------------------
(***************************************************************************)
(* TagImportPlan and its actions (import_export/import_plan.py and         *)
(* actions.py): from the items of a file and the tags as they are now, a   *)
(* list of actions, each validated against the database and the actions    *)
(* before it; then their execution, one after the other, in a transaction. *)
(*                                                                         *)
(* A plan is a record: its actions, and whether no action has an error.    *)
(* The names and messages of errors are left out.                          *)
(***************************************************************************)
EXTENDS TagTrees

Action(name, id, value, parent) ==
    [name |-> name, id |-> id, value |-> value, parent |-> parent]

\* The earlier actions of a kind: indexed_actions[name].
Indexed(earlier, name) == {a \in ToSet(earlier) : a.name = name}

(***************************************************************************)
(* Validations                                                             *)
(***************************************************************************)
ParentIsDefined(tags, earlier, a) ==
    \/ a.parent = None
    \/ ByExternalId(tags, a.parent) # {}
    \/ \E b \in Indexed(earlier, "create") : b.id = a.parent

\* A value that some tag to be deleted has is free in the database.
ValueIsFree(tags, earlier, a) ==
    /\ \/ \E b \in Indexed(earlier, "delete") : b.value = a.value
       \/ WithValue(tags, a.value) = {}
    /\ ~ \E b \in Indexed(earlier, "create") \cup Indexed(earlier, "rename") : b.value = a.value

IdIsFree(earlier, a) == ~ \E b \in Indexed(earlier, "create") : b.id = a.id

IsValid(tags, earlier, a) ==
    CASE a.name = "create"        -> /\ IdIsFree(earlier, a)
                                     /\ ValueIsFree(tags, earlier, a)
                                     /\ ParentIsDefined(tags, earlier, a)
      [] a.name = "update_parent" -> ParentIsDefined(tags, earlier, a)
      [] a.name = "rename"        -> ValueIsFree(tags, earlier, a)
      [] OTHER                    -> TRUE

\* _build_action of one after the other: an action is added whether it is valid
\* or not.
BuildActions(tags, as) ==
    [actions |-> as,
     valid   |-> \A i \in DOMAIN as : IsValid(tags, SubSeq(as, 1, i - 1), as[i])]

(***************************************************************************)
(* generate_actions                                                        *)
(***************************************************************************)
\* What a replacing import may delete of the tags that the file leaves out.
\* They come from a query without an order into a dict by their ids, which
\* keeps one tag of each id.
TagsToDelete(tags, items) ==
    LET left   == {t \in DOMAIN tags : ~ \E i \in DOMAIN items : items[i].id = ExportId(tags, t)}
        ids(S) == {ExportId(tags, t) : t \in S}
    IN  {gone \in SUBSET left : ids(gone) = ids(left) /\ IdsDiffer(tags, gone)}

\* Children of tags that go whose ids are not in the dict.
ChildrenLeft(tags, gone) ==
    {t \in ChildrenOf(tags, gone) : \A g \in gone : ExportId(tags, g) # ExportId(tags, t)}

\* The orders in which _build_delete_actions gets to them: the children of a
\* tag, as a query without an order gives them, and then the tag itself.
DeletionOrders(tags, gone) ==
    {order \in SetToSeqs(gone \cup ChildrenLeft(tags, gone)) :
        \A i \in DOMAIN order : order[i] \notin gone =>
            /\ i < Len(order)
            /\ LET parent == tags[order[i]].parent
                   next   == order[i + 1]
               IN  next = parent \/ (next \notin gone /\ tags[next].parent = parent)}

\* Mutant: children are left to the cascade.
DeleteActions_ChildrenLeft(tags, gone, order, i) ==
    LET t == order[i]
    IN  IF t \in gone THEN << Action("delete", tags[t].externalId, tags[t].value, None) >>
        ELSE << >>

\* A tag that goes is deleted.  A child that stays is made a root before, unless
\* _search_parent_update takes an earlier child whose external_id is this one's
\* id for it: then it is left to the cascade.
DeleteActions(tags, gone, order, i) ==
    LET t == order[i]
        isTaken == \E j \in 1 .. i - 1 :
                      /\ order[j] \notin gone
                      /\ tags[order[j]].externalId = ExportId(tags, t)
    IN  CASE t \in gone -> << Action("delete", tags[t].externalId, tags[t].value, None) >>
          [] t \notin gone /\ ~isTaken ->
               << Action("update_parent", tags[t].externalId, tags[t].value, None) >>
          [] OTHER -> << >>

\* The external_id of a tag's parent, null for a root.
ParentId(tags, t) ==
    IF tags[t].parent = None THEN None ELSE tags[tags[t].parent].externalId

\* Mutant: an item without a parent leaves its tag where it is.
Moves_NeverToRoot(tags, item) ==
    /\ item.parent # None
    /\ \E t \in ByExternalId(tags, item.id) : ParentId(tags, t) # item.parent

\* Whether an item moves its tag, or gives it a value.
Moves(tags, item) == \E t \in ByExternalId(tags, item.id) : ParentId(tags, t) # item.parent
Renames(tags, item) == \E t \in ByExternalId(tags, item.id) : tags[t].value # item.value

\* The actions that apply for an item, in the order of available_actions.
\* They are chosen by the tags as they are now, not as earlier actions will
\* leave them.
ActionsFor(tags, item) ==
    LET given(test, name) ==
            IF test THEN << Action(name, item.id, item.value, item.parent) >> ELSE << >>
        applicable == given(Moves(tags, item), "update_parent")
                        \o given(Renames(tags, item), "rename")
                        \o given(ByExternalId(tags, item.id) = {}, "create")
    IN  IF applicable = << >> THEN given(TRUE, "without_changes") ELSE applicable

\* The plans generate_actions can make of a file.
Plans(tags, items, replace) ==
    LET gones == IF replace THEN TagsToDelete(tags, items) ELSE {{}}
        deletions(gone, order) ==
            FlattenSeq([i \in DOMAIN order |-> DeleteActions(tags, gone, order, i)])
        changes == FlattenSeq([i \in DOMAIN items |-> ActionsFor(tags, items[i])])
    IN  UNION {{BuildActions(tags, deletions(gone, order) \o changes) :
                   order \in DeletionOrders(tags, gone)} : gone \in gones}

(***************************************************************************)
(* execute: the state is the table, the last primary key and whether no    *)
(* action has raised so far.                                               *)
(***************************************************************************)
\* _get_tag: by external_id if there is one, else by value.
GetTag(tags, a) ==
    LET found == IF a.id = None THEN {} ELSE ByExternalId(tags, a.id)
    IN  IF found # {} THEN found
        ELSE {t \in WithValue(tags, a.value) : tags[t].externalId = None}

ParentsOf(tags, a) == IF a.parent = None THEN {None} ELSE ByExternalId(tags, a.parent)

\* The tables an action may leave, none when it raises.
Executed(tags, pk, a) ==
    CASE a.name = "create" ->
           {Put(tags, pk, Row(a.value, p, a.id)) : p \in ParentsOf(tags, a)}
      [] a.name = "update_parent" ->
           {[tags EXCEPT ![t].parent = p] : t \in GetTag(tags, a), p \in ParentsOf(tags, a)}
      [] a.name = "rename" ->
           {[tags EXCEPT ![t].value = a.value] : t \in GetTag(tags, a)}
      [] a.name = "delete" -> {Delete(tags, GetTag(tags, a))}
      [] OTHER -> {tags}

ExecuteAction(s, a) ==
    LET pk   == s.lastTag + 1
        left == {new \in Executed(s.tags, pk, a) : IsTable(new)}
    IN  IF ~s.ok \/ left = {}
          THEN [s EXCEPT !.ok = FALSE]
          ELSE [s EXCEPT !.tags = CHOOSE new \in left : TRUE,
                         !.lastTag = IF a.name = "create" THEN pk ELSE @]

Execute(tags, lastTag, actions) ==
    LET after[i \in 0 .. Len(actions)] ==
          IF i = 0 THEN [tags |-> tags, lastTag |-> lastTag, ok |-> TRUE]
                   ELSE ExecuteAction(after[i - 1], actions[i])
    IN  after[Len(actions)]

=============================================================================
