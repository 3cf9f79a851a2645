----------------------------- MODULE ObjectTags -----------------------------
(***************************************************************************)
(* The tags of objects (openedx_tagging/core/tagging/api.py and ObjectTag  *)
(* in models/base.py): rows that link an object with a Tag of a closed     *)
(* taxonomy or hold a free text, and keep the value and the taxonomy's     *)
(* export_id for the time after the Tag or the taxonomy is deleted.        *)
(*                                                                         *)
(* tag_object reads first and writes later, in a transaction: a session    *)
(* keeps what it read, and other calls come between.  Other calls are one  *)
(* step each.  A step of tag_object that raises in the transaction, and a  *)
(* call that raises before it writes, leave the database as it was.        *)
(***************************************************************************)
EXTENDS TagImportPlan

CONSTANTS Objects,      \* ids of objects
          Closed,       \* the export_id of a closed taxonomy
          FreeText,     \* the export_id of one that allows free text
          SingleTag,    \* taxonomies that do not allow_multiple
          Empty,        \* the empty text
          TagLimit,     \* tags per object, 100 in the code
          Sessions,     \* threads that call tag_object
          Requests,     \* lists of tags to call it with
          Files,        \* files to import into the closed taxonomy
          InitialTags,  \* tables of the closed taxonomy to start from
          MaxRows,      \* bound on the primary keys of object tags
          MaxEdits      \* bound on the calls other than tag_object

\* What parsers.py lets through.
ASSUME FilesAssumption ==
    Files \subseteq Seq([id : ExternalIds, value : Values, parent : ExternalIds \cup {None}])

\* The primary keys are the first numbers.
ASSUME InitialTagsAssumption == \A table \in InitialTags : table \in Seq(Rows) /\ IsTable(table)

\* Lists of values that are not blank; tag_object removes duplicates.
ASSUME RequestsAssumption ==
    /\ Empty \notin Values
    /\ \A asked \in Requests : asked \in Seq(Values) /\ IsInjective(asked)

ASSUME TaxonomiesAssumption == Closed # FreeText /\ None \notin {Closed, FreeText}

ASSUME BoundsAssumption == {TagLimit, MaxRows, MaxEdits} \subseteq Nat

VARIABLES
    taxonomies, \* the taxonomies there are
    tags,       \* the Tags of the closed one
    lastTag,    \* the last primary key given to one
    objectTags, \* the ObjectTag rows by primary key
    lastRow,    \* the last primary key given to one
    calls,      \* the call of tag_object of each session, and what it read
    edits       \* the number of other calls

vars == << taxonomies, tags, lastTag, objectTags, lastRow, calls, edits >>

AllTaxonomies == {Closed, FreeText}

ObjectTag(object, taxonomy, exportId, tag, value, copied) ==
    [object |-> object, taxonomy |-> taxonomy, exportId |-> exportId,
     tag |-> tag, value |-> value, copied |-> copied]

NoCall == << >>

ObjectTagsInit ==
    /\ taxonomies = AllTaxonomies
    /\ tags \in InitialTags
    /\ lastTag = Cardinality(DOMAIN tags)
    /\ objectTags = << >>
    /\ lastRow = 0
    /\ calls = [s \in Sessions |-> NoCall]
    /\ edits = 0

(***************************************************************************)
(* Rows                                                                    *)
(***************************************************************************)
RowsOf(rows, o) == {p \in DOMAIN rows : rows[p].object = o}

\* The value property, and ~is_deleted.
ValueOf(table, row) == IF row.tag = None THEN row.value ELSE table[row.tag].value
IsShown(row) == row.taxonomy # None /\ (row.taxonomy = Closed => row.tag # None)

\* unique_together; nothing is equal to null.
IsUnique(rows) ==
    \A p, q \in DOMAIN rows :
        /\ p # q
        /\ rows[p].object = rows[q].object
        /\ rows[p].taxonomy = rows[q].taxonomy
        /\ rows[p].taxonomy # None
        => /\ rows[p].value # rows[q].value
           /\ rows[p].tag # rows[q].tag \/ rows[p].tag = None

\* Deleting Tags or a taxonomy sets the links to them to null.
Unlinked(rows, table, exist) ==
    [p \in DOMAIN rows |->
        [rows[p] EXCEPT !.tag = IF @ \in DOMAIN table THEN @ ELSE None,
                        !.taxonomy = IF @ \in exist THEN @ ELSE None]]

(***************************************************************************)
(* resync                                                                  *)
(***************************************************************************)
\* Mutant: the stored value is left as it is.
Resynced_KeepsValue(row, table, exist) ==
    LET x == IF row.taxonomy = None /\ row.exportId \in exist
               THEN row.exportId ELSE row.taxonomy
        found == IF x = Closed THEN WithValue(table, row.value) ELSE {}
    IN  [row EXCEPT !.exportId = IF row.taxonomy # None THEN row.taxonomy ELSE @,
                    !.taxonomy = x,
                    !.tag = IF @ = None /\ found # {} THEN CHOOSE t \in found : TRUE ELSE @]

\* A row with a taxonomy takes its export_id, and one without takes the
\* taxonomy with its export_id; one of a closed taxonomy without a Tag takes
\* the Tag of its value; one with a Tag takes the Tag's value.
Resynced(row, table, exist) ==
    LET x == IF row.taxonomy = None /\ row.exportId \in exist
               THEN row.exportId ELSE row.taxonomy
        found == IF x = Closed THEN WithValue(table, row.value) ELSE {}
    IN  [row EXCEPT !.exportId = IF row.taxonomy # None THEN row.taxonomy ELSE @,
                    !.taxonomy = x,
                    !.tag = IF @ = None /\ found # {} THEN CHOOSE t \in found : TRUE ELSE @,
                    !.value = ValueOf(table, row)]

OutOfSync(rows, S, table, exist) ==
    {p \in S : Resynced(rows[p], table, exist) # rows[p]}

SaveResynced(result, p, table, exist) ==
    LET new == [result.rows EXCEPT ![p] = Resynced(@, table, exist)]
    IN  IF result.ok /\ IsUnique(new)
          THEN [rows |-> new, ok |-> TRUE]
          ELSE [result EXCEPT !.ok = FALSE]

\* The rows that resync_object_tags may leave: it saves the rows that change
\* one by one, in any order, up to one that is not unique.
ResyncOrders(rows, S, table, exist) ==
    LET save(result, p) == SaveResynced(result, p, table, exist)
    IN  {FoldLeft(save, [rows |-> rows, ok |-> TRUE], order).rows :
            order \in SetToSeqs(OutOfSync(rows, S, table, exist))}

\* Resynchronising the rows of the closed taxonomy, which is all rows if it
\* has none: "if not object_tags".
ResyncClosed(rows, table) ==
    LET S == {p \in DOMAIN rows : rows[p].taxonomy = Closed}
    IN  ResyncOrders(rows, IF S = {} THEN DOMAIN rows ELSE S, table, taxonomies)

(***************************************************************************)
(* tag_object                                                              *)
(***************************************************************************)
\* The rows a call replaces: those of its taxonomy, or if it is given only an
\* export_id, those that have it.
CurrentTags(call) ==
    {p \in DOMAIN call.rows :
        IF call.taxonomy # None THEN call.rows[p].taxonomy = call.taxonomy
                                ELSE call.rows[p].exportId = call.exportId}

TagForValue(call, v) == IF call.taxonomy = Closed THEN WithValue(call.tags, v) ELSE {}

\* The row that is already there for a value.
RowFor(call, v) ==
    {p \in CurrentTags(call) :
        \/ call.rows[p].tag \in TagForValue(call, v)
        \/ call.taxonomy = FreeText /\ call.rows[p].value = v}

\* What is to be saved for a value: << primary key or None, row >>, or nothing.
SaveFor(call, v) ==
    LET p == CHOOSE p \in RowFor(call, v) : TRUE
        t == IF TagForValue(call, v) = {} THEN None
             ELSE CHOOSE t \in TagForValue(call, v) : TRUE
    IN  CASE RowFor(call, v) = {} ->
               << << None, ObjectTag(call.object, call.taxonomy, call.exportId, t, v, FALSE) >> >>
          [] RowFor(call, v) # {} /\ call.rows[p].value # v ->
               << << p, [call.rows[p] EXCEPT !.value = v] >> >>
          [] OTHER -> << >>

\* Mutant: rows whose Tag was deleted are not among the old ones.
OldTags_HiddenStay(call) ==
    {p \in CurrentTags(call) \ UNION {RowFor(call, v) : v \in ToSet(call.asked)} :
        IsShown(call.rows[p])}

OldTags(call) == CurrentTags(call) \ UNION {RowFor(call, v) : v \in ToSet(call.asked)}

\* Mutant: rows are saved without validate_unique and its constraints.
IsClean_NotUnique(rows, p, row) ==
    /\ row.tag \in DOMAIN tags \cup {None}
    /\ p # None /\ row.tag # None => tags[row.tag].value = row.value
    /\ row.tag = None => row.value # Empty

\* full_clean.  A row that was read has its Tag looked up now, a new one has
\* it from tag_for_value.
IsClean(rows, p, row) ==
    /\ row.tag \in DOMAIN tags \cup {None}
    /\ p # None /\ row.tag # None => tags[row.tag].value = row.value
    /\ row.tag = None => row.value # Empty
    /\ IsUnique(rows)

\* save: a row that was read and is gone is inserted again.
SaveRow(result, save) ==
    LET p   == IF save[1] = None THEN result.last + 1 ELSE save[1]
        new == Put(result.rows, p, save[2])
    IN  IF result.ok /\ IsClean(new, save[1], save[2])
          THEN [rows |-> new, last |-> IF save[1] = None THEN p ELSE result.last, ok |-> TRUE]
          ELSE [result EXCEPT !.ok = FALSE]

Transaction(call) ==
    FoldLeft(SaveRow,
             [rows |-> Restrict(objectTags, DOMAIN objectTags \ OldTags(call)),
              last |-> lastRow, ok |-> TRUE],
             FlattenSeq([i \in DOMAIN call.asked |-> SaveFor(call, call.asked[i])]))

RowsRead(o) == Restrict(objectTags, RowsOf(objectTags, o))

\* The count and the values are checked before the transaction; a value that
\* has no Tag is accepted if create_invalid is set.
ReadTags(s) ==
    /\ calls[s] = NoCall
    /\ \E o \in Objects, x \in taxonomies \cup {None}, exportId \in AllTaxonomies,
          asked \in Requests, createInvalid \in BOOLEAN :
         LET call == [object |-> o, taxonomy |-> x, exportId |-> exportId,
                      asked |-> asked, tags |-> tags, rows |-> RowsRead(o)]
         IN  /\ x # None => exportId = x
             /\ Cardinality(DOMAIN call.rows \ CurrentTags(call)) + Len(asked) <= TagLimit
             /\ x \in SingleTag => Len(asked) <= 1
             /\ x = Closed /\ ~createInvalid =>
                  \A v \in ToSet(asked) : WithValue(tags, v) # {}
             /\ calls' = [calls EXCEPT ![s] = call]
    /\ UNCHANGED << taxonomies, tags, lastTag, objectTags, lastRow, edits >>

WriteTags(s) ==
    /\ calls[s] # NoCall
    /\ LET end == Transaction(calls[s])
       IN  \/ /\ end.ok
              /\ end.last <= MaxRows
              /\ objectTags' = end.rows
              /\ lastRow' = end.last
           \/ /\ ~end.ok
              /\ UNCHANGED << objectTags, lastRow >>
    /\ calls' = [calls EXCEPT ![s] = NoCall]
    /\ UNCHANGED << taxonomies, tags, lastTag, edits >>

(***************************************************************************)
(* Calls on the taxonomy                                                   *)
(***************************************************************************)
\* The Tag is saved before the rows are, and stays if a row cannot be.
AddTagToTaxonomy ==
    /\ Closed \in taxonomies
    /\ \E v \in Values, parentValue \in Values \cup {None} :
         tags' \in AddTag(tags, lastTag + 1, v, parentValue, None)
    /\ lastTag' = lastTag + 1
    /\ objectTags' \in ResyncClosed(objectTags, tags')
    /\ UNCHANGED << taxonomies, lastRow >>

UpdateTagInTaxonomy ==
    /\ \E v, newValue \in Values : tags' \in UpdateTag(tags, v, newValue)
    /\ objectTags' \in ResyncClosed(objectTags, tags')
    /\ UNCHANGED << taxonomies, lastTag, lastRow >>

\* Mutant: the rows go with their Tag.
DeleteTagsFromTaxonomy_Cascades ==
    /\ \E V \in SUBSET Values, withSubtags \in BOOLEAN :
         tags' \in DeleteTags(tags, V, withSubtags)
    /\ objectTags' =
         Restrict(objectTags, {p \in DOMAIN objectTags :
                                 objectTags[p].tag \in DOMAIN tags' \cup {None}})
    /\ UNCHANGED << taxonomies, lastTag, lastRow >>

DeleteTagsFromTaxonomy ==
    /\ \E V \in SUBSET Values, withSubtags \in BOOLEAN :
         tags' \in DeleteTags(tags, V, withSubtags)
    /\ objectTags' = Unlinked(objectTags, tags', taxonomies)
    /\ UNCHANGED << taxonomies, lastTag, lastRow >>

\* update_import, or create_import when there is no such taxonomy: an import
\* that succeeds is followed by resync_object_tags of every row.
ImportTags ==
    /\ \E file \in Files :
         \E plan \in Plans(tags, file, Closed \in taxonomies) :
            LET end == Execute(tags, lastTag, plan.actions)
            IN  /\ plan.valid /\ end.ok
                /\ tags' = end.tags
                /\ lastTag' = end.lastTag
    /\ taxonomies' = taxonomies \cup {Closed}
    /\ objectTags' \in LET rows == Unlinked(objectTags, tags', taxonomies)
                       IN  ResyncOrders(rows, DOMAIN rows, tags', taxonomies')
    /\ UNCHANGED lastRow

\* create_taxonomy, which resynchronises nothing.
CreateTaxonomy ==
    /\ \E x \in AllTaxonomies \ taxonomies : taxonomies' = taxonomies \cup {x}
    /\ UNCHANGED << tags, lastTag, objectTags, lastRow >>

\* A taxonomy is deleted with its Tags, while no call has it.
DeleteTaxonomy ==
    /\ \A s \in Sessions : calls[s] = NoCall
    /\ \E x \in taxonomies :
         /\ taxonomies' = taxonomies \ {x}
         /\ tags' = IF x = Closed THEN NoTags ELSE tags
    /\ objectTags' = Unlinked(objectTags, tags', taxonomies')
    /\ UNCHANGED << lastTag, lastRow >>

ResyncObjectTags ==
    /\ objectTags' \in ResyncOrders(objectTags, DOMAIN objectTags, tags, taxonomies)
    /\ UNCHANGED << taxonomies, tags, lastTag, lastRow >>

(***************************************************************************)
(* Calls on an object                                                      *)
(***************************************************************************)
DeleteObjectTags ==
    /\ \E o \in Objects :
         objectTags' = Restrict(objectTags, DOMAIN objectTags \ RowsOf(objectTags, o))
    /\ UNCHANGED << taxonomies, tags, lastTag, lastRow >>

\* Mutant: a row that is there already is left as it is.
CopyRow_NotMarked(result, dest, row) ==
    LET found == {p \in RowsOf(result.rows, dest) :
                    result.rows[p].taxonomy = row.taxonomy /\ result.rows[p].tag = row.tag}
        value == IF row.tag = None THEN Empty ELSE tags[row.tag].value
        p     == IF found = {} THEN result.last + 1 ELSE CHOOSE p \in found : TRUE
        new   == IF found = {}
                   THEN Put(result.rows, p,
                            ObjectTag(dest, row.taxonomy, row.taxonomy, row.tag, value, TRUE))
                   ELSE result.rows
    IN  IF result.ok /\ Cardinality(found) <= 1 /\ IsUnique(new)
          THEN [rows |-> new, last |-> IF found = {} THEN p ELSE result.last, ok |-> TRUE]
          ELSE [result EXCEPT !.ok = FALSE]

\* update_or_create by object, taxonomy and tag: a new row takes its value
\* from the Tag, and no value from a free text.
CopyRow(result, dest, row) ==
    LET found == {p \in RowsOf(result.rows, dest) :
                    result.rows[p].taxonomy = row.taxonomy /\ result.rows[p].tag = row.tag}
        value == IF row.tag = None THEN Empty ELSE tags[row.tag].value
        p     == IF found = {} THEN result.last + 1 ELSE CHOOSE p \in found : TRUE
        new   == IF found = {}
                   THEN Put(result.rows, p,
                            ObjectTag(dest, row.taxonomy, row.taxonomy, row.tag, value, TRUE))
                   ELSE [result.rows EXCEPT ![p].copied = TRUE]
    IN  IF result.ok /\ Cardinality(found) <= 1 /\ IsUnique(new)
          THEN [rows |-> new, last |-> IF found = {} THEN p ELSE result.last, ok |-> TRUE]
          ELSE [result EXCEPT !.ok = FALSE]

\* The source's tags are read after the copies of the destination are deleted.
\* Their order decides nothing but primary keys.
CopyTags(source, dest) ==
    /\ LET kept  == Restrict(objectTags, {p \in DOMAIN objectTags :
                        ~(objectTags[p].object = dest /\ objectTags[p].copied)})
           shown == {p \in RowsOf(kept, source) : IsShown(kept[p])}
           end   == FoldLeft(LAMBDA result, p : CopyRow(result, dest, kept[p]),
                             [rows |-> kept, last |-> lastRow, ok |-> TRUE], SetToSeq(shown))
       IN  /\ end.ok
           /\ end.last <= MaxRows
           /\ objectTags' = end.rows
           /\ lastRow' = end.last
    /\ UNCHANGED << taxonomies, tags, lastTag >>

UnmarkCopiedTags ==
    /\ \E o \in Objects :
         objectTags' = [p \in DOMAIN objectTags |->
                          [objectTags[p] EXCEPT !.copied = @ /\ objectTags[p].object # o]]
    /\ UNCHANGED << taxonomies, tags, lastTag, lastRow >>

EditTaxonomy ==
    \/ AddTagToTaxonomy \/ UpdateTagInTaxonomy \/ DeleteTagsFromTaxonomy
    \/ ImportTags \/ CreateTaxonomy \/ DeleteTaxonomy \/ ResyncObjectTags

ObjectTagsNext ==
    \/ \E s \in Sessions : ReadTags(s) \/ WriteTags(s)
    \/ /\ edits < MaxEdits
       /\ edits' = edits + 1
       /\ \/ EditTaxonomy
          \/ DeleteObjectTags
          \/ \E source, dest \in Objects : CopyTags(source, dest)
          \/ UnmarkCopiedTags
       /\ UNCHANGED calls

ObjectTagsSpec == ObjectTagsInit /\ [][ObjectTagsNext]_vars

(***************************************************************************)
(* Properties                                                              *)
(***************************************************************************)
\* Rows link objects with Tags and taxonomies that exist, Tags only with their
\* own taxonomy, and satisfy the unique constraints.  A row has the export_id
\* of its taxonomy, as that is never edited here.
ObjectTagsTypeOK ==
    /\ taxonomies \subseteq AllTaxonomies
    /\ IsTable(tags) /\ DOMAIN tags \subseteq 1 .. lastTag
    /\ Closed \notin taxonomies => tags = NoTags
    /\ IsUnique(objectTags) /\ DOMAIN objectTags \subseteq 1 .. lastRow
    /\ \A p \in DOMAIN objectTags :
         LET row == objectTags[p]
         IN  /\ row \in [object : Objects, taxonomy : taxonomies \cup {None},
                         exportId : AllTaxonomies, tag : DOMAIN tags \cup {None},
                         value : Values \cup {Empty}, copied : BOOLEAN]
             /\ row.taxonomy \in {row.exportId, None}
             /\ row.tag # None => row.taxonomy = Closed

\* The rows that a call of tag_object is about.
Addressed(call, rows) ==
    {p \in RowsOf(rows, call.object) :
        IF call.taxonomy # None THEN rows[p].taxonomy = call.taxonomy
                                ELSE rows[p].exportId = call.exportId}

StoredValuesAgree(rows) ==
    \A p \in DOMAIN rows : rows[p].value = ValueOf(tags, rows[p])

\* "Replaces the existing ObjectTag entries for the given taxonomy + object_id
\* with the given list of tags" (api.py:333), when nothing the call read has
\* changed since: it can fail only over a stored value that is not its Tag's,
\* and if it does not, the object has one row for each tag of the list, shown
\* with that value where there is a Tag of it, no more than TagLimit rows in
\* all, and nothing else is touched.
TagObjectSetsTheTags ==
    [][\A s \in Sessions :
        LET call == calls[s]
            mine == Addressed(call, objectTags')
        IN  WriteTags(s) /\ call.tags = tags /\ call.rows = RowsRead(call.object) =>
              /\ StoredValuesAgree(call.rows) => Transaction(call).ok
              /\ Transaction(call).ok =>
                   /\ {objectTags'[p].value : p \in mine} = ToSet(call.asked)
                   /\ Cardinality(mine) = Len(call.asked)
                   /\ call.taxonomy = Closed =>
                        {objectTags'[p].tag : p \in mine} \ {None}
                          = UNION {WithValue(tags, v) : v \in ToSet(call.asked)}
                   /\ Cardinality(RowsOf(objectTags', call.object)) <= TagLimit
                   /\ LET others(rows) == Restrict(rows, DOMAIN rows \ Addressed(call, rows))
                      IN  others(objectTags') = others(objectTags)
      ]_vars

\* A row whose taxonomy exists is linked with it; in the closed taxonomy, a row
\* with a Tag stores its value, and one without has a value that no Tag has.
InStep(row) ==
    /\ row.exportId \in taxonomies => row.taxonomy # None
    /\ row.taxonomy = Closed =>
         IF row.tag # None THEN row.value = tags[row.tag].value
                           ELSE WithValue(tags, row.value) = {}

\* q has the value that p would store, or the Tag that p would be linked with.
Takes(q, p) ==
    \/ q.value = ValueOf(tags, p)
    \/ p.tag = None /\ q.tag \in WithValue(tags, p.value)

\* "Resync all related ObjectTags" (api.py:449, 468): after Tags are added,
\* renamed or imported, a row of the closed taxonomy is out of step with them
\* only if some row could not be saved, that one or another on its way to its
\* taxonomy: its object has a row there with what it was to take.  The Tags
\* stay changed all the same.
ResyncedRowsAgree ==
    [][LET added   == DOMAIN tags' \ DOMAIN tags
           renamed == {t \in DOMAIN tags \cap DOMAIN tags' : tags'[t].value # tags[t].value}
           stale   == {p \in DOMAIN objectTags : ~InStep(objectTags[p])}
       IN  /\ added \cup renamed # {}
           /\ (\E p \in stale : objectTags[p].taxonomy = Closed)'
           => (\E p \in stale, q \in DOMAIN objectTags :
                 /\ q # p
                 /\ objectTags[q].object = objectTags[p].object
                 /\ objectTags[q].taxonomy = objectTags[p].exportId
                 /\ Takes(objectTags[q], objectTags[p]))'
      ]_vars

\* What is done to a taxonomy never takes a tag from an object while the Tag
\* is there, and rows outlive their Tag and their taxonomy with the value they
\* stored ("we guard against the deletion of Taxonomies and Tags",
\* models/base.py:761).
TaxonomyEditsKeepObjectTags ==
    [][<< taxonomies, tags >>' # << taxonomies, tags >> =>
        /\ DOMAIN objectTags' = DOMAIN objectTags
        /\ \A p \in DOMAIN objectTags :
             LET row == objectTags[p]
                 new == objectTags'[p]
             IN  /\ new.object = row.object
                 /\ row.tag \in DOMAIN tags' => new.tag = row.tag
                 /\ row.tag \notin DOMAIN tags' => new.value = row.value
      ]_vars

\* "This keeps all not-copied tags and delete all previous copied tags of the
\* dest object.  If there are not-copied tags that also are in source, then
\* they become copied" (api.py:493).  That is so of Tags.  Free texts have no
\* Tag and are told apart by their taxonomy alone: however many of them the
\* source shows, the destination has one copied row for all, which is blank,
\* or its own one whatever it says; a destination with two is not copied to.
CopiesAreTheSourcesTags ==
    [][\A source, dest \in Objects : CopyTags(source, dest) /\ source # dest =>
        LET link(row) == << row.taxonomy, row.tag >>
            shown  == {link(objectTags[p]) :
                         p \in {p \in RowsOf(objectTags, source) : IsShown(objectTags[p])}}
            own    == {p \in RowsOf(objectTags, dest) : ~ objectTags[p].copied}
            theirs == RowsOf(objectTags', dest)
        IN  /\ \A l \in shown : \E p \in theirs :
                 /\ objectTags'[p].copied
                 /\ \A q \in theirs : link(objectTags'[q]) = l <=> q = p
            /\ own \subseteq theirs
            /\ \A p \in own :
                 objectTags'[p] = [objectTags[p] EXCEPT !.copied = link(objectTags[p]) \in shown]
            /\ \A p \in theirs \ own :
                 LET new == objectTags'[p]
                 IN  /\ link(new) \in shown /\ new.copied /\ new.exportId = new.taxonomy
                     /\ new.value = IF new.tag = None THEN Empty ELSE tags[new.tag].value
            /\ \A o \in Objects \ {dest} : (RowsRead(o))' = RowsRead(o)
      ]_vars

=============================================================================
