------------------------------ MODULE TagTrees ------------------------------
(***************************************************************************)
(* The Tags of one closed taxonomy, and what the tagging API does to them  *)
(* (openedx_tagging/core/tagging/models/base.py).                          *)
(*                                                                         *)
(* A table maps the primary key of each Tag to its row.  A table can break *)
(* the unique constraints only between a statement and the check the       *)
(* database makes of it: a statement is modelled as the table it would     *)
(* leave, guarded by IsTable.                                              *)
(***************************************************************************)
EXTENDS Naturals, FiniteSets, Sequences, SequencesExt

CONSTANTS Values,       \* tag values, compared without case
          ExternalIds,  \* the ids of tags in import files
          None          \* null

ASSUME NullAssumption == None \notin ExternalIds /\ None \notin Nat

Rows == [value : Values, parent : Nat \cup {None}, externalId : ExternalIds \cup Nat \cup {None}]

Row(value, parent, externalId) ==
    [value |-> value, parent |-> parent, externalId |-> externalId]

NoTags == << >>

\* The table with a row saved under a primary key.
Put(table, pk, row) ==
    [key \in DOMAIN table \cup {pk} |-> IF key = pk THEN row ELSE table[key]]

WithValue(tags, v) == {t \in DOMAIN tags : tags[t].value = v}
ByExternalId(tags, x) == {t \in DOMAIN tags : tags[t].externalId = x}
ChildrenOf(tags, S) == {t \in DOMAIN tags : tags[t].parent \in S}

\* What holds of every row and between rows: parents exist, and the unique
\* constraints (taxonomy, external_id), where null is never equal to null,
\* and (taxonomy, value).
IsTable(tags) ==
    /\ tags \in [DOMAIN tags -> Rows]
    /\ \A t \in DOMAIN tags : tags[t].parent \in DOMAIN tags \cup {None}
    /\ \A t, u \in DOMAIN tags :
         t # u => /\ tags[t].value # tags[u].value
                  /\ tags[t].externalId # tags[u].externalId \/ tags[t].externalId = None

(***************************************************************************)
(* Up and down the tree.  The foreign key alone does not keep a tag from   *)
(* being its own ancestor.                                                 *)
(***************************************************************************)
\* parent_id, null of null.
ParentPk(tags, t) == IF t = None THEN None ELSE tags[t].parent

\* get_lineage and depth end: no tags have all their parents among themselves.
IsHierarchy(tags) ==
    \A X \in SUBSET DOMAIN tags : (\A t \in X : tags[t].parent \in X) => X = {}

\* The rows that go with S: the parent's foreign key cascades.
Cascade(tags, S) ==
    {t \in DOMAIN tags : \A C \in SUBSET DOMAIN tags :
        S \subseteq C /\ ChildrenOf(tags, C) \subseteq C => t \in C}

Delete(tags, S) == Restrict(tags, DOMAIN tags \ Cascade(tags, S))

(***************************************************************************)
(* Taxonomy.add_tag, update_tag, delete_tags: the table after a call that  *)
(* succeeds, in a singleton set, and the empty set after one that raises.  *)
(***************************************************************************)
\* The parent is given by its value, if one is given.
ParentByValue(tags, parentValue) ==
    IF parentValue = None THEN {None} ELSE WithValue(tags, parentValue)

AddTag(tags, pk, v, parentValue, x) ==
    {new \in {Put(tags, pk, Row(v, p, x)) : p \in ParentByValue(tags, parentValue)} :
        IsTable(new)}

\* Mutant: the value is unique by add_tag's check alone.
UpdateTag_NotUnique(tags, v, newValue) ==
    {[tags EXCEPT ![t].value = newValue] : t \in WithValue(tags, v)}

UpdateTag(tags, v, newValue) ==
    {new \in {[tags EXCEPT ![t].value = newValue] : t \in WithValue(tags, v)} :
        IsTable(new)}

\* Tags are given by their values; one without a tag fails the call, and so
\* does one with children, unless they are to be deleted too.
DeleteTags(tags, V, withSubtags) ==
    LET S == {t \in DOMAIN tags : tags[t].value \in V}
    IN  IF Cardinality(S) = Cardinality(V) /\ (withSubtags \/ ChildrenOf(tags, S) = {})
          THEN {Delete(tags, S)}
          ELSE {}

(***************************************************************************)
(* get_filtered_tags() and the export made from it.                        *)
(***************************************************************************)
\* The tags that are listed: those of the first TAXONOMY_MAX_DEPTH levels, which are
\* three, though nothing keeps tags from being added below.
Listed(tags) == {t \in DOMAIN tags : ParentPk(tags, ParentPk(tags, ParentPk(tags, t))) = None}

\* They are sorted by their lineage, which begins with that of their parent.  How
\* values are sorted is left open.
InTreeOrder(tags, order) ==
    \A i \in DOMAIN order :
        tags[order[i]].parent # None =>
            \E j \in 1 .. i - 1 : order[j] = tags[order[i]].parent

Item(id, value, parent) == [id |-> id, value |-> value, parent |-> parent]

\* Mutant: the parent is named by its external_id or not at all.
ExportId_NeverPk(tags, t) == IF t = None THEN None ELSE tags[t].externalId

\* The external_id, or else the primary key, as text.
ExportId(tags, t) ==
    CASE t = None -> None
      [] t # None /\ tags[t].externalId # None -> tags[t].externalId
      [] OTHER -> t

\* Whether an id is of one tag of S only.  An external_id may be written like
\* the primary key of another tag, which has none.
IdsDiffer(tags, S) == \A t, u \in S : ExportId(tags, t) = ExportId(tags, u) => t = u

\* _load_tags_for_export
ExportOf(tags, order) ==
    [i \in DOMAIN order |-> Item(ExportId(tags, order[i]),
                                 tags[order[i]].value,
                                 ExportId(tags, tags[order[i]].parent))]

Exports(tags) ==
    {ExportOf(tags, order) :
        order \in {o \in SetToSeqs(Listed(tags)) : InTreeOrder(tags, o)}}

=============================================================================
