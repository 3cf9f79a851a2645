# A verification project for Open edX Learning Core

TLA+ modules that model the core of `openedx_learning` and `openedx_tagging`,
the TLC instances that check them, and proofs checked by TLAPS.  Paths are
relative to the repository; `publishing/` stands for
`openedx_learning/apps/authoring/publishing/`.

Check a run with `tlc -config <cfg> <module>` (section 3 pairs them) and the
proofs of a module named `...Proofs` with `tlapm <module>.tla` (section 4).

## 1. The system

Learning Core is a set of Django apps that an LMS calls in process.  It stores
courseware as *publishable entities* of *learning packages*.  There are no
servers or messages inside it: every operation is an API function that runs in
one database transaction, and what can go wrong lies in long sequences of
calls, in calls that overlap, and in calls that fail half-way.

| Component | State it keeps | Operations | Works with | Hard behaviour | What makes it correct |
|---|---|---|---|---|---|
| **Publishing** (`publishing/api.py`, `models/`) | entities, versions and their dependencies; for each entity a `Draft` and a `Published` row; `DraftChangeLog(Record)`, `PublishLog(Record)` with side effects and digests | create a version, `set_draft_version`, `soft_delete_draft`, `reset_drafts_to_published`, `publish_from_drafts`, `publish_all_drafts`, `contains_unpublished_changes` | everything below is built on it | history in two branches that move apart and together again; side effects that spread through the dependency graph; cached digests | the logs replay to the rows; a log lists what it changed; digests tell exactly which entities differ; publishing takes dependencies along |
| **Bulk draft changes** (`publishing/contextmanagers.py`) | a stack of open `DraftChangeLog`s per context of execution | enter, exit with callbacks | decides which log `set_draft_version` writes; its exit runs the side effects | collapsing and cancelling changes, nesting, exceptions | one record per entity and log; undone changes leave nothing |
| **Side effects** (`_create_side_effects_for_change_log`) | a work list and a set of processed entities; `DraftSideEffect`/`PublishSideEffect` rows | one traversal per log | called at the end of a publish, of a bulk context, of a single draft change | work list grows while consumed; rows come in any order; cycles | ends, and reaches exactly the dependents of what changed |
| **Containers** (`publishing/models/container.py`, `entity_list.py`, `units/`, `subsections/`, `sections/`) | entity lists of pinned and unpinned rows, container versions | create, next version with replace/append/remove of children, `get_entities_in_container` as draft, as published, as of a log | unpinned children become dependencies | `latest` is not the draft; forced version numbers | the children asked for; as-of reads give the past |
| **Components** (`components/`) | component types, versions, content by key | create, next version with content merged or replaced | versions are publishable entity versions; content rows | a version exists before its content | carried-over content, nothing left by a failure |
| **Contents** (`contents/`) | `Content` rows, unique by package, media type and hash; files in a storage | get or create as text or file | used by components | the storage takes no part in the transaction | a content with a file has its file |
| **Collections** (`collections/`) | sets of entities, soft deletion | create, update, delete, restore, add, remove, set | refer to entities | modified dates of what changed | exactly the collections touched are marked |
| **Backup and restore** (`backup_restore/`) | a zip archive; look-up maps while restoring | dump, load | replays a package through the publishing API: published versions, a publish, then drafts | forced version numbers, existing versions skipped, transaction over all | the restored branches are those that were saved |
| **Taxonomies and object tags** (`openedx_tagging/core/tagging/api.py`, `models/`) | taxonomies, tags in a tree, object tags that cache the value of their tag | tag an object, rename, delete, resync, copy tags | the host application names objects | cached values, free text, unique constraints | object tags agree with their tags; limits kept |
| **Tag import and export** (`import_export/`) | `TagImportTask` rows with a status and a log; a plan of actions | plan, validate, execute | run by a task queue | overlapping imports, a worker that dies, actions validated in one order and run in another | one import at a time; the plan runs or nothing changes |
| **REST API, rules, media server, importer, admin, migrations, `lib`** | none of their own | requests, permissions, file serving | the APIs above | I/O and glue | |

What interacts: a container's version declares its unpinned children as
dependencies; changing a child's draft therefore changes the state of every
container above it, which is recorded as side-effect records in the same log
and as a new `dependencies_hash_digest` on each.  Publishing copies draft
versions to the published branch and runs the same traversal there.
`contains_unpublished_changes` compares the digests of the two branches, so it
is right only if each was canonical when it was stored.

The hazards that follow from this, each at its line, are in `PROJECT.json`.

## 2. Modules

| Module | Models |
|---|---|
| `ChangeLogs` | pure operators shared by both branches: log records, collapsing of changes, dependencies and dependents, side-effect records, `hash_for_log_record` |
| `Publishing` | the API calls of one session on one learning package, bulk contexts included: the state machine |
| `SideEffects` | the traversal of `_create_side_effects_for_change_log`, one pop of the work list per step |
| `Releases` | what publishing promises without any log: drafts, published versions, and past releases that can be read for ever |
| `ConcurrentEdits` | `set_draft_version` and `publish_from_drafts` of several sessions at once, statement by statement; extends `Publishing` |
| `Containers` | Units, Subsections and Sections: entity lists, pins, version numbers and every reader of children; extends `Publishing` |
| `ComponentVersions` | what `create_next_component_version` promises: edits of one step each |
| `Components` | sessions that edit a Component and store contents, over a database with transactions and a file storage without; implements `ComponentVersions` |
| `Collections` | sets of entities, soft and hard deletion, modified dates |
| `BackupRestore` | a package that is edited, dumped, perhaps damaged, and restored call by call; extends `Containers` and `Collections` |
| `TagTrees` | pure operators on the table of a taxonomy's tags: constraints, trees, add, update, delete, listing |
| `TagImportPlan` | pure operators: parsing items, planning and validating actions, executing them, exporting |
| `TagImport` | workers that import files into one taxonomy while its tags are edited, and that may die |
| `ObjectTags` | tags of objects, their stored values, and everything that brings them up to date |
| `MC...` | instances of the modules for TLC |
| `PublishingProofs`, `SideEffectsProofs`, `ConcurrentEditsProofs`, `BackupRestoreProofs` (for `Containers` and `Collections` too), `ComponentsProofs`, `TagImportPlanProofs`, `TagImportProofs`, `ObjectTagsProofs` | theorems, see section 4 |

### From the tables to the variables

`Publishing` has six variables.  `dependencies[e]` is the sequence of versions of
entity `e`, each given by the set of entities it depends on, so that version
numbers are positions.  `draft` and `published` are two records of the same
shape, as the code runs the same functions on `Draft`/`DraftChangeLogRecord`
and `Published`/`PublishLogRecord`: `version` (the row's version, `None` for null
and for a row that does not exist), `logRecord` (the log of the record the row
points at), `records` (the entity's log records in the order they were created)
and `digest`.  A record is identified by its log, as `(log, entity)` is unique.
`lastDraftLog`, `lastPublishLog` count the logs and `openLogs` is the stack of
`DraftChangeLogContext`.

One action is one call, with everything the call changes:

| Action | Code |
|---|---|
| `CreateVersion(e, D)` | `create_publishable_entity_version`, which sets the draft to the new version |
| `SetDraftVersion(e, v)` | `set_draft_version`; `v = None` is `soft_delete_draft` |
| `ResetDraftsToPublished` | `reset_drafts_to_published` |
| `BeginBulk`, `EndBulk` | `DraftChangeLogContext.__enter__`, `__exit__` |
| `PublishFromDrafts(S, withDependencies, filtered)` | `publish_from_drafts` with a queryset over `S`, which may itself filter on `with_unpublished_changes()` |
| `PublishAllDrafts` | `publish_all_drafts` |

`ChangeDrafts` is the part of `set_draft_version` the first three share: nothing if
nothing differs, a record in the innermost open log, or a log of its own with its
side effects at once.  A log's records and rows follow `AddToChangeLog`,
`RepointedLog` and `WithSideEffects`.  Querysets are lazy in the code, and
`DraftsToPublish` keeps that: the layers of dependencies embed the caller's
queryset, which runs again after its rows have been published.

`hash_for_log_record` joins, for each dependency that is not deleted, the id of
its version and its own digest, and hashes the text.  The model keeps the set of
those triples in place of the hash, and the empty set in place of the blank
string; a digest is recomputed for records of the log at hand and read as stored
for others, like the code's `untrusted_record_id_set`.

`Releases` is the abstract specification.  It has no logs: an edit changes the
draft of one entity, a discard all drafts, and a release publishes some drafts and
adds what is published to the sequence of releases.  `Publishing` implements it
under the mapping that drops the logs and obtains `releases` by reading the
records as `get_published_version_as_of` does, for each `PublishLog`
(`ReleasesRead`).  That function is how a published Unit, Subsection or Section is
read as of an earlier publish.

`SideEffects` has the variables of the function itself (`changes` is
`changes_and_affected`, `processed` is `processed_entity_ids`, `toUpdate` is
`branch_objs_to_update_with_side_effects`) and lets the database return rows in
any order.  `Publishing` takes the same traversal in one step, as a least set
closed under "depends on"; `ReachesAffectedRows` is what justifies that.

`ConcurrentEdits` keeps the variables of `Publishing` for what is committed and adds
a transaction per session: its log, its records, the rows it repoints and those it
holds locks on, its digests, and its next statement.  A session reads what is
committed and its own writes (READ COMMITTED), `draft.save()`, `update_or_create`
and `bulk_update` wait for rows another open transaction has written, and any
statement may fail.  `FindAffected` and `UpdateDigests` apply the operators of
`ChangeLogs` to the session's view, so both modules run the same algorithm.

`Containers` adds `rows[c]`, the `EntityListRow`s of each version of container `c`, and
`versionNums[e]`; versions stay positions, so that a forced number is data and
`latest` is found by number.  The dependencies a container version hands to
`Publishing` are its unpinned children (`UnpinnedEntities`).  The three apps are one
model: they differ in the type of their children, which `Level` gives.
`CreateNextVersion` has `create_next_container_version` with replace, append, remove,
a new title alone, and a forced number.  `DraftContents`, `PublishedContents`,
`ContentsAsOf` and `ContainersWithEntity` are the readers.  The first two raise, as
`get_entities_in_container` does, for an unpinned child without a row on their branch
(`Read`, `Raises`); the third finds no record for such a child and leaves it out.

`Components` runs one statement of `create_next_component_version` or
`get_or_create_*_content` per step.  `versions` and `contents` are committed rows,
`tx` holds the uncommitted ones, and `files` is the storage.  A row that would
collide with an uncommitted one waits; `Fail` drops a transaction's rows at any
statement and keeps its files.  `storage` is the kind of storage the site has: a file
system may break off in the middle of a file and does not write over one, an object
store has a file whole or not at all.  Nothing changes it.

`Collections` has the rows and, as `modified`, the collections the last call dated.
`BackupRestore` uses the variables of `Containers` and `Collections` twice: for the
package that is dumped and, from loading on, for the new one, which starts empty.
Each step of `_save` is one call of those modules (`SaveEntity`, `SavePublishedVersion`,
`PublishRestored`, `SaveDraftVersion`, collections in between), in the two bulk
contexts of the code; `saved` remembers what readers of the old package saw.
`Losses` are files that go missing from the archive.

`TagTrees` maps primary keys to rows of `Tag`; a statement is guarded by the
constraints its result must satisfy (`IsTable`).  Calls are operators that give the
set of tables they may leave, empty when they raise.  `TagImportPlan` builds a plan
item by item, as `generate_actions` does, with a nondeterministic order where a
query has none.  In `TagImport` a worker checks for an open task, creates its own,
parses, plans, executes in a transaction and ends its task; any exception leads to
the error status and `Die` to none at all.  In `ObjectTags` a call of `tag_object`
reads in one step and writes in another (`calls` keeps what it read); every other
call is one step.  `ResyncOrders` lets the resync take rows in any order and stop
at one that cannot be saved.

## 3. What the runs check

| Run (cfg) | Expected | Instance | Distinct states |
|---|---|---|---|
| `publishing` (`Publishing`) | pass | one Component, Unit, Subsection; from an empty package, single calls: 2 versions each, 4 draft logs, 2 publishes; and from a published course, bulk contexts with one more draft log and publish | 275,983 |
| `side_effects` (`SideEffects`) | pass | every acyclic graph of four entities and every graph, cyclic or not, of three; every set of original changes; every order | 402,993 |
| `concurrent_edits` (`ConcurrentEdits`) | pass | two sessions on two Components, one of them in both Units of a Subsection; two more draft logs, two more publishes | 96,638 |
| `containers` (`Containers`) | pass | two Components, a Unit that lists them in four rows, one pinned and two the same, and a Subsection, published as a whole or not at all; a list of one child and one of a pinned and an unpinned child to append, remove or replace with; numbers 1 to 3; two more draft logs, one more publish | 25,524 |
| `components` (`Components`) | pass | either storage, two sessions, two keys whose files have the same bytes, five kinds of calls, numbers up to 3 | 661,602 |
| `backup_restore` (`BackupRestore`) | pass | two Components of one local key, a Unit, a Subsection, a collection; any three calls, then a dump, with or without a lost file, and a restore | 313,004 |
| `tag_import` (`TagImport`) | pass | two workers, eight files with and without replacing, trees of three and four tags and one with two tags of one id, two tasks, one edit | 294,226 |
| `object_tags` (`ObjectTags`) | pass | two objects, a closed and a free-text taxonomy, three requests, two files, at most two tags per object, three rows, two other calls | 643,172 |
| `side_effects_complete` (`SideEffectsComplete`) | violation | a Component in two Units of a Subsection of a Section | |
| `publishing_nested` (`PublishingNested`) | violation | a Unit with a Component, two nested contexts | |
| `publishing_filtered` (`PublishingFiltered`) | violation | a Unit with a Component, querysets that filter on unpublished changes | |
| `containers_deleted_child` (`ContainersDeletedChild`) | violation | the instance of `containers` | |

Properties of the passing runs.  `publishing`:

- `DraftHistoryReplays`, `PublishHistoryReplays`: the log records of an entity form
  a chain from nothing to the version its row has, and the row points at the last
  of them.  Updating, deleting and repointing records while changes of a bulk
  context collapse must keep this.
- `DigestsTellUnpublishedChanges`: outside of bulk contexts two digests agree
  exactly when the two branches agree on the entity and everything live below it.
- `DraftLogIsExact`, `PublishLogIsComplete`: the last log lists every entity whose
  state, descendants included, it changed; a draft log lists no other.
- `PublishCoversDependencies` (action property): after publishing with
  dependencies nothing at or below the published drafts differs.
- `ImplementsReleases` (refinement): the versions change as `Releases` says, and every
  past release reads the same however much is published, deleted or affected later.
- `ResetDiscardsEverything` (action property): after a reset nothing differs, by
  versions and by digests.

`side_effects`: `ReachesAffectedRows`, `EffectsAreOneLevel`, `Terminates`: the traversal
ends, with a record and a repointed row for exactly the dependents of the
originals, and every effect one level from its cause.

`concurrent_edits`: `DigestsSeeAllSessions`, which is `DigestsTellUnpublishedChanges` for
what sessions have committed.  Two sessions that change different children of a
Unit each compute the Unit's digest; the second must see the first one's child.
It does, since the `bulk_update` of the Unit's row waits for the first session
before the digests are computed; the mutant that computes them first loses one.

`containers`:

- `NextVersionNumIsFree`: a version number that is not forced never collides.
- `NoUnpublishedChangesMeansSameContents`: when `contains_unpublished_changes` says no,
  readers of both branches get the same children, at every level below, or one of them
  raises; the reader of the published container only for a child that is not on the
  draft either and was never published.
- `UsersAreTold`: what a log lists is closed under `get_containers_with_entity`.
- `PastContentsStay`: a container as of a `PublishLog` reads as it did right after
  that publish, for ever.
- `AppendAndRemoveKeepTheRest`: appending and removing do that to what readers of the
  draft see of the latest version, and nothing else, with pins, repeats and deleted
  children in the list, whichever version the draft is at.

`components`:

- `FilesAreThere`: a committed `Content` with a file has it, in an object store whole;
  on a file system a part of it may be left of a write that broke off, see below.
- `AssetsStay`: the answer to a request for a file of a version never changes.
- `ImplementsEdits` (refinement): whatever sessions do at once, versions are made by
  edits of one step each, with content carried over from the version they say.

`backup_restore`:

- `PackageIsRestored`: a restore ends with the entities, versions, children, branches
  and collections that were dumped, under a free key; a dump is refused only
  for the reasons stated.
- `ContentsAreRestored`: components have the contents they had, on both branches.
- `UnpublishedChangesAreRestored`: containers with unpublished changes have them
  again and those without have none, though all digests are new.
- `ChangesAreDated`: a collection's date moves whenever its set of entities does.

`tag_import`:

- `UnfinishedTasksHaveWorkers`: a task that has not ended has a worker that is at it
  or died over it.
- `ImportsAreNotBlockedForever` (liveness): unless a worker dies, again and again an
  import may start.
- `ImportsDoWhatTheFileSays`: an import whose tags are as it planned gives the tags
  of its file their values and parents; the others are gone or untouched.  No two
  tags may share an id, see below.
- `HierarchyStays`: no edit, and no import of a file with parents first and every id
  once, makes a tag its own ancestor; left out are files that want a tag at the top
  whose parent has no external id, see below.
- `ExportsRecreateTheListedTags`: an export read into an empty taxonomy gives back
  what was listed, in whatever order tags with the same parent are sorted, unless two
  listed tags share an id.

`object_tags`:

- `TagObjectSetsTheTags`: when nothing it read has changed, a call of `tag_object`
  leaves exactly the tags asked for, within the limit, and touches nothing else.
- `ResyncedRowsAgree`: after tags are added, renamed or imported, a row is out of
  step only if a row of the same object stood in the way of some row.
- `TaxonomyEditsKeepObjectTags`: no edit of a taxonomy takes a tag off an object, and
  rows outlive their tag with the value they stored.
- `CopiesAreTheSourcesTags`: after a copy the destination has one copied row for each
  Tag and each free-text taxonomy the source shows, with the Tag's value; its own rows
  are marked if they are among these and stay as they are if not.  Of free text that
  is less than the docstring of `copy_tags` says, see below.

`TypeOK`, `ContainersTypeOK`, `ComponentsTypeOK`, `ImportTypeOK` and `ObjectTagsTypeOK` hold the
types and the constraints of the tables.

The runs that end in a violation are disagreements between the code and what it
says of itself:

- `EffectsAreComplete`.  `models/draft_log.py` says that side effects are recorded
  "on a parent container whenever a child changes".  Entities that were a cause
  are skipped when the next layer is queued, so with a Component shared by two
  Units of one Subsection, the turn of the second Unit stops below the Subsection
  and the row (Unit, Subsection) or (Subsection, Section) it should write is
  never written when the Subsection was a cause before.  The records themselves
  are all there (`ReachesAffectedRows`).
- `DraftRowMatchesItsRecord`.  A Unit is edited in an outer bulk context, then in
  a nested one, and one of its Components in the outer: leaving the outer context
  repoints the Unit's row to the outer record, whose `new_version` is older than
  the draft, and digests computed from there hash the wrong version.  A comment
  in `set_draft_version` says that nested contexts have not been thought through;
  this is a state they lead to.
- `PublishCoversDependencies` with filtering querysets.  `publish_from_drafts` "will
  also publish all dependencies", but when the caller's queryset filters on
  `with_unpublished_changes()` it finds nothing any more once its rows have been
  published, and no dependency of theirs is.
- `DeletedChildrenAreLeftOut`.  `get_entities_in_container` leaves children out that are
  deleted, "As long as this hasn't been soft-deleted", and units may contain such.
  A child that was deleted before any publish has no `Published` row: once its Unit is
  published, reading the published Unit raises, for its other children too.  All the
  while `contains_unpublished_changes` may say no of that Unit.

### Seen on the way

Met while modelling, with no run of their own.  First what a comment, a docstring or
a test of the repository says and the code does not do:

- *Unpublished changes.*  "A container that was created and then immediately soft-deleted
  does not contain any unpublished changes" (`publishing/api.py:1879-1880`): for one
  that was never published `contains_unpublished_changes` raises at line 1877 already, where
  it reads the missing `Published` row.
- *Partial files.*  `Content.write_file` reckons with a file of which "only part [...]
  was written" (`contents/models.py:361-363`) and calls `storage.save`.  Django's file
  system storage never writes over a file: the whole one goes to another name, and the
  part stays where readers look.  `FilesAreThere` claims a whole file of an object
  store only.
- *Text that should have a file.*  `get_or_create_file_content` is the function "to store
  any Content that you want to be downloadable" (`contents/api.py:148-150`).  If the same
  bytes were stored as text it returns that Content, which has no file; likewise
  `create_file=True` does nothing for a text that is there (`contents/api.py:98-100`).
  The model's sessions do the same, and a version's answer is then "no download file"
  for ever.
- *Copies of free text.*  `copy_tags` is to "Copy all tags", and only tags "that also are
  in 'source_object_id'" are to become copied (`openedx_tagging/core/tagging/api.py:491-497`).
  It looks rows up by Tag, which free text has none of.  A text that is not on the
  destination arrives blank, several become one row, and a row of the destination in
  that taxonomy is marked as copied whatever it says; with two such rows the call
  raises.  The test (`tests/openedx_tagging/core/tagging/test_api.py:1019-1024`) has the
  same text on both.
- *Exports.*  `Parser.export` "Returns all tags in taxonomy", to recreate it
  (`import_export/parsers.py:76-77`).  Listing stops at the third level, so deeper tags are
  not in the file, and a replacing import of it deletes them.
- *Ids.*  `generate_actions` "creates the delete action for tags that are in the existing
  taxonomy but not the new tags list" (`import_export/import_plan.py:145-146`).  It keeps
  them in a dict by external id, or by primary key for tags without one.  If a tag's
  external id is spelled like the primary key of another, one of the two takes the
  place of the other: it is not deleted, or, if it is a child that stays, it may be taken
  for one that is moved or goes, and is lost in the cascade.  `TagsToDelete` and
  `DeleteActions` do the same, and the run has such a table; the properties leave it
  out (`IdsDiffer`).

And what the repository says nothing about, or asks callers to avoid:

- *Containers.*  `create_entity_list_with_rows` collects pins in a dict keyed by the
  version's id, so of several rows pinned to one version only the last is checked
  (`publishing/api.py:1429`).  Appending starts from `latest`, which is the highest number,
  not "the most recently created" version and not the draft.
- *Concurrency.*  Two edits of one entity at once break the chain of `old_version`s,
  and the later of two publishes may move an entity back to an older version.
  When a Unit is edited while one of its Components is, the side-effect record made
  from the older version of the Unit may be the one its `Draft` row ends at, and its
  digest is then of that version; `Edited` with the Unit in it shows this.
  Under REPEATABLE READ the digests of `concurrent_edits` would be wrong.
- *Contents.*  The media server's view uses an attribute (`raw_content`) that
  `ComponentVersionContent` does not have.
- *Imports.*  A file may list a child before its parent or parents in a cycle;
  validation accepts both.  Even a file with parents first and every id once can make
  a cycle: an item without a parent does not move a tag whose parent has no external
  id, as `applies_for` compares null with null.  With tags x, a tag without an id below
  x, and y below that, the items "y" and "x under y" leave y where it is and move x
  below it.  Two unfinished imports can overlap, as the check and
  the creation of a task are two statements, and the task of a worker that dies blocks
  its taxonomy for good.
  An export names tags without an external id by primary key, which an import
  takes for new tags of the same values and refuses.
- *Object tags.*  An empty queryset makes the resync take all rows.  One row that
  cannot be saved stops a resync, and the taxonomy stays changed; renames that swap
  or chain values run into this.  Overlapping calls may exceed the limit of tags, and
  may write back what they read before a Tag was renamed.
- *Backup.*  Pins and deletions of drafts are not in the archive.  A component whose
  local key is not its own slug, or shares it with an earlier one of its type,
  comes back without contents.  The package's own dump is refused
  when a component has a ".toml" file or a version an empty title.

### Bounds

Each bound is a CONSTANT whose comment says so, and a guard of the actions that
create something.

*Publishing.*  Two versions let a draft move forwards, backwards and to a version
with other dependencies; a third entity gives a transitive dependency, so that
layers, side effects of side effects and digests of digests all occur; four logs
and two publishes let the branches part, meet and part again.  For bulk contexts
the start state stands for the many calls that lead to a published course: it is
one that `Publishing`'s own actions reach, the entities being created in one bulk
context and published whole.  One context holds any number of changes.  Histories
and releases are proved for every bound.  Four entities are the fewest with a
diamond, and three with every kind of cycle; the traversal is proved for all.

*Containers, BackupRestore* start at such a course too, with the number 2 for its
versions so that numbers below and above can be forced.  In `containers` the Unit's
list has a child three times, once pinned, and another one between, so that one
version more on top of it is made by removing from, or appending to, pins, repeats
and several rows; a forced number below makes the draft another version than the
latest, and so do deletions and resets, for which there are two more draft logs.  The
course is published as a whole or not at all, which leaves children without a
`Published` row when some of it is published first.
Three calls before a dump reach every combination of draft and published version
(same, other, deleted, reset, forced to an older number) in one entity, or one
change in each of three.

*ConcurrentEdits* has two sessions, as locks are between two; the Components share
one Unit and not the other, and the Subsection sees changes through both.  Sessions
are symmetric.  *Components*: two sessions, as locks are between two; each number
is made once, so three numbers give a chain of edits with a forced number in it.  Both
kinds of storage are initial states of the one run.

*TagImport*: two workers race, one task each is enough for one to block the other,
and an edit can come between any two of their steps.  Files create, rename, move,
swap and leave out tags, list children first and make a cycle; the trees are deep
enough for a cascade over two levels and for tags below the listed ones, and in one a
tag has another one's primary key for its external id.
*ObjectTags*: two tags, two objects and a limit of two are the fewest for swaps of
values, copies and the limit; a row can be stale, unlinked or copied before the call
that meets it, as two other calls may come before or inside one of `tag_object`.
One session is enough for that: what another session's call would do is to the
rows what `copy_tags`, deletions and imports do.

Runs whose system stops when the bounded calls are used up, or when a function
returns, have `CHECK_DEADLOCK FALSE`: `side_effects` and its violation run,
`concurrent_edits`, `backup_restore`, `tag_import`, `object_tags`.  The others never deadlock, as some call that changes
nothing is always possible.

### Fairness

`SideEffects` assumes weak fairness of its next step: one call runs the loop to
its end in one thread, and nothing in it waits for another.  `TagImport` assumes that a
worker that has started an import goes on unless it dies: the call runs in one
thread and waits for nobody.  `Fairness` says so with the enabling condition of
`Work(w)` written out.  Nothing obliges anyone to start an import, and nothing a
worker to live.  The other modules assume none, as nothing obliges anybody to call
the API, and state no liveness.

## 4. What is proved

For every value of the constants that the assumptions allow, unless said otherwise:

| Theorem | States |
|---|---|
| `TypeCorrect` (`PublishingProofs`) | `Spec => []TypeOK`: besides the types, both branches point only at versions that exist and dependencies go down in rank |
| `DraftHistoriesReplay` | if `MaxNesting <= 1`, `Spec => []DraftHistoryReplays` |
| `PublishHistoriesReplay` | `Spec => []PublishHistoryReplays`, nested or not |
| `PublishingImplementsReleases` | `Spec => ImplementsReleases`, nested or not |
| `PublishLogMissesNothing` | `Spec => []PublishLogIsComplete`, nested or not |
| `DraftLogsAreExact` | if `MaxNesting <= 1`, `Spec => []DraftLogIsExact` |
| `PublishingCoversDependencies` | if `FilteredQuerysets = FALSE`, `Spec => PublishCoversDependencies` |
| `DigestsTellTheTruth` | if `MaxNesting <= 1`, `Spec => []DigestsTellUnpublishedChanges` |
| `ResettingDiscardsEverything` | if `MaxNesting <= 1`, `Spec => ResetDiscardsEverything` |
| `LoopReachesAffectedRows`, `EffectsAreAlwaysOneLevel`, `LoopTypeCorrect` (`SideEffectsProofs`) | for finitely many entities and any graph, `Spec => []ReachesAffectedRows`, `[]EffectsAreOneLevel`, `[]TypeOK` |
| `ContainersImplementPublishing`, `ContainersPublishHistoriesReplay` (`BackupRestoreProofs`) | `ContainersSpec => Spec` of `Publishing`, so that what is proved there holds of containers |
| `NextVersionNumbersAreFree`, `UsersAreAlwaysTold` | `ContainersSpec => []NextVersionNumIsFree`, `[]UsersAreTold` |
| `NoUnpublishedChangesShowTheSame` | `ContainersSpec => []NoUnpublishedChangesMeansSameContents` |
| `PastContentsAlwaysStay` | `ContainersSpec => PastContentsStay` |
| `ContainersTypeCorrect`, `AppendAndRemoveAlwaysKeepTheRest` | if `PinsAgree`, `ContainersSpec => []ContainersTypeOK`, `=> AppendAndRemoveKeepTheRest` |
| `EditsAreAtomic` (`ComponentsProofs`) | `ComponentsSpec => ImplementsEdits` |
| `CommittedContentsHaveFiles`, `ComponentsTypeCorrect`, `AssetsAlwaysStay` | `ComponentsSpec => []FilesAreThere`, `[]ComponentsTypeOK`, `=> AssetsStay`, over either storage |
| `TasksAreNotAbandoned`, `ImportTypeCorrect` (`TagImportProofs`) | `ImportSpec => []UnfinishedTasksHaveWorkers`, `[]ImportTypeOK` |
| `HierarchyAlwaysStays` | `ImportSpec => HierarchyStays` |
| `ImportsAlwaysDoWhatTheFileSays` | `ImportSpec => ImportsDoWhatTheFileSays` |
| `ExportsAlwaysRecreateTheListedTags` | `ImportSpec => []ExportsRecreateTheListedTags` |
| `ObjectTagsTypeCorrect` (`ObjectTagsProofs`) | `ObjectTagsSpec => []ObjectTagsTypeOK` |
| `TaxonomyEditsAlwaysKeepObjectTags`, `ResyncedRowsAlwaysAgree` | `ObjectTagsSpec => TaxonomyEditsKeepObjectTags`, `=> ResyncedRowsAgree` |
| `CopiesAreAlwaysTheSourcesTags`, `TagObjectAlwaysSetsTheTags` | `ObjectTagsSpec => CopiesAreTheSourcesTags`, `=> TagObjectSetsTheTags` |
| `CollectionsTypeCorrect`, `CollectionChangesAreDated` (`BackupRestoreProofs`) | `CollectionsSpec => []CollectionsTypeOK`, `=> ChangesAreDated` |
| `RestoredCollectionsAreDated` | `BackupSpec => ChangesAreDated` |
| `PackagesAreRestored`, `ContentsOfPackagesAreRestored` | `BackupSpec => []PackageIsRestored`, `=> []ContentsAreRestored` |
| `UnpublishedChangesAreAlwaysRestored` | if `MaxNesting <= 1`, `BackupSpec => []UnpublishedChangesAreRestored` |
| `AllSessionsAreSeen` (`ConcurrentEditsProofs`) | `ConcurrentSpec => []DigestsSeeAllSessions` |
| `CallsLeaveBranchesAtRest` | if `MaxNesting <= 1`, `Spec` of `Publishing` `=> [](openLogs = << >> => BranchesAtRest)` |

Assumptions: those the modules declare by name (`LevelAssumption`, entities have
ranks; `BoundsAssumption`, bounds are numbers; and the like), and those a theorem
states itself.  `MaxNesting <= 1` is not a convenience: `publishing_nested` shows an
instance with two levels that leaves the rows inconsistent.  `FilteredQuerysets =
FALSE` is what `publishing_filtered` violates.
`HashAssumption` says that no name of a package is another one's slug with its hash, and
`EntityOrder` is the list of the entities by their keys.
That no two tags share an id (`IdsDiffer`) is part of the two properties of imports and
exports.  Nothing in the code makes it so: a tag without an external id goes by its
primary key (`import_export/parsers.py:176`, `import_plan.py:95-105`), and another tag may have
that number for its external id.
`PinsAgree` says that no list gives one pinned version two entities.  The code checks
only the last row of such a version (`publishing/api.py:1429`); the functions of units,
subsections and sections take the entity from the version, so their lists satisfy it.

*Histories.*  That they replay is not inductive.  A call that changes an
entity already in the open log rewrites that log's record wherever it stands, and
in the middle of a history this breaks the chain.  The invariant adds two things.
`Sound(branch, last)`: for each entity, version and pointer follow from the
history, and no record is of a log after `last`.  `WritesLastLog`: the open log, if
there is one, is the last one made.  Together they say that the open log's record,
if the entity has one, is the last of its history (`RecordIsLast`).  Three lemmas
about one history then cover all calls: appending a record (`AppendConsistent`),
replacing or deleting the last one (`ChangeConsistent`, from `PrefixProperties`),
and doing either through `AddToChangeLog` (`AddConsistent`).  `RepointSound`,
`SideEffectsSound` and `RecordPublishSound` lift them to branches;
`DraftHistoriesConsistent` and `PublishHistoriesConsistent` go through the
actions.  A publish always writes a log of its own, so the published branch
needs no second part.

*The refinement* (`PublishingProofs`).  A publish and its side effects append to each
history one record of the new log or nothing (`PublishAppends`), so histories are
ordered by their logs (`PublishedInOrder`).  Reading as of an earlier log does not
see the new record (`AsOfEarlier`); reading as of the new log gives the last record
(`AsOfCurrent`), whose version is the published one by `PublishedIInv`.  So the
sequence of releases grows by exactly what was published
(`PublishAppendsRelease`).  Draft changes map to edits and discards, and entering or
leaving a bulk context to stutters.

*The traversal* (`SideEffectsProofs`).  Two halves meet in the last state.  Nothing is
missed: a row that depends on a recorded entity is recorded or on the work list,
unless the `for` loop has still to take that entity; an entity enters
`processed_entity_ids` only once it is recorded, so skipping it loses nothing
(`NothingIsMissed`).  Nothing is extra: what is recorded lies in every set closed
under "depends on" that has the originals (`NothingIsExtra`).  `WorklistsAreComplete` says
that whatever order the database gives, each row is on the list.  When the list is
empty the recorded rows are such a closed set and the least one, which is how
`ChangeLogs` defines `AffectedRows` (`AffectedIsLeastClosed`).

*Logs* (`PublishingProofs`).  That a log misses nothing is not inductive as it is stated, over
trees of versions before and after.  That it is closed is: whatever depends on an entity
in the log is in the log (`PublishedClosed`).  Side effects make it so
(`SideEffectsCloseTheLog`), and new versions do not change the dependencies of those a
branch points at (`NewVersionsKeepClosed`).  What is below an entity outside a closed
set is outside of it too (`NothingOfAClosedSetBelow`), so no version there changed, and
branches that agree on all that is below an entity on one of them have the same below it
(`AgreeBelow`).  That lemma also gives the theorem on publishing with dependencies.
For the converse on drafts, a log that is being written must consist of direct changes,
each to another version (`DirectLog`, kept by `AddKeepsDirect`: the record of a change
that is undone goes).  The entities that share something changed below them, before the
log and after it, are closed under "depends on": either the dependent changed itself, or
it depends on the same entities before and after (`DirectLogIsExact`).  So all side
effects are among them.

*Digests* (`PublishingProofs`).  The invariant (`DigestsIInv`) is that digests are canonical
except for what the log at hand still has to recompute: the digest of an entity outside
of it is `hash` of its version's dependencies as the branch is, and a branch as it was
before the log explains the stored digests the log has not come to.  `hash` is a recursive
function; that there is one is shown by hand, an entity of least rank for which there is
none (`WFMin`) in place of an induction.  At the end of a log its records are closed
under "depends on", so whatever is outside has the same entities at the same versions
below it as before, and its stored digest is still right.  Two comparisons make the
theorem: branches that agree at and below an entity give it the same digest, and where
digests are equal the sets of triples are, so versions and digests agree one level down,
and so on to the bottom.  `MaxNesting <= 1` is needed as for drafts' histories.
A reset leaves the versions of both branches the same, and so by the theorem the digests.

*Containers* (`BackupRestoreProofs`).  Numbers: each entity's versions have a highest number
(`HasHighest`), which is what the `CHOOSE` in `Latest` needs and what appending any number
keeps; that callers may force numbers below it does not matter.  Users: rows and
dependencies have the same versions, and the dependencies of a version are the unpinned
entities of its rows (`RowsIInv`), so a container that readers find for an entity depends
on it, and closed logs have it.  Contents: when the digests agree the versions of the
unpinned children do, and so at every level; a child with a published version has a
`Published` row, so one without has no version on either branch.  Releases point at
versions that existed and lists are only appended to the list of lists, so what a
release held stays.  Removals are about lists with entries left out (`OnlyIn`, a fold over
the list); that it keeps the others in their order is shown by a shortest list for which
it fails.

*Edits of components* (`ComponentsProofs`).  The mapping to `ComponentVersions` is the
identity on the committed versions: a transaction is its commit.  What must hold
until then is that what it will commit is still made from the version it says
(`StillMade`, `MadeStays`: committed versions stay) and that its number is still free,
since the uncommitted row holds the unique key against the other sessions
(`HoldersOfNumbers`).  For the types and for the answers to requests, `StoreInv` keeps the rows
of open transactions apart: what a session has inserted is nobody else's and not committed,
and whatever a version refers to is committed or in the same transaction.  For the files, a transaction that says a
content has its file wrote it, or found it written, before it commits, and no step
takes away what a finished write left (`FilesStay`, `CommittedFilesAreThere`).  The kind of
storage only decides what that may be (`LeftByWrite`).

*Imports* (`TagImportPlanProofs` for the operators, `TagImportProofs` for the workers).  A worker holds the number of its own task from the step
that creates it to the step that ends it, or dies with it; a worker that has not
created its task holds none, which is what the invariant has to add.  The rest rests on
the states an execution goes through (`IsExecution`), which `Execute` is the last of.
Each is a table with the constraints (`RunsAreOfStates`), whatever the actions.  That no
cycle is made is about all actions of a plan, which follow its file (`FollowsFile`): first
deletions, which only take tags away or to the top, then what applies for each item, in
their order.  At any point an item is settled, its tag at the top or under the tag of
an earlier item, or its move is still to come (`GoesWell`).  When an item moves, all
earlier ones are settled (`EarlierAreSettled`), so on a cycle the tag of the least item
would have a parent that belongs to an even earlier one (`MovedInHierarchy`).  The
invariant adds that a worker about to execute has the actions of a plan of its file.

That an import does what its file says takes both parts of a plan.  The deletions come in
any order, and a cascade may take a tag before its own deletion, which then finds
nothing.  Before the first deletion of their parent, children that stay are moved to the
top, and what is at the top or has its parents among what stays survives any cascade
(`KeepsClosed`); so just the tags that are to go are gone (`DeletionsLeaveOthers`).  The
actions of items were chosen by the table before all that.  After the deletions each item has
its tag, value and parent, or an action still to come that gives them to it
(`IsUnderway`); a tag that lost its parent counts as settled if its item names what was
deleted.  An action for the item brings it on (`OwnStepGoesOn`), and one for another item
leaves it, as each finds its tag by the id (`OtherStepGoesOn`); for ids that a file has
twice nothing is claimed.  At the end nothing is to come (`ItemsHold`).

Where no two tags share an id, the dict of tags to delete has just those that the file
leaves out (`GoneWhenIdsDiffer`), and no child is taken for another (`NoneIsTaken`).

An export of listed tags that share no id has each id and value once and parents first,
in whatever order siblings are sorted (`ExportsAreExports`).  Its plan for an empty taxonomy is
one creation for each item, none refused (`PlansOfExports`, `ExportsAreValid`), and after k
of them there are the tags of the first k items (`Rebuilt`, `ExportsAreExecuted`).

*Object tags* (`ObjectTagsProofs`).  The inductive invariant (`TagsInv`) is the type
invariant with what a call between its two halves holds: rows and a table that were
those of the database when it read them, with Tags and taxonomies that may be gone by
now, and keys that were given out.  Three loops have to be followed over any number of
rows, in any order the database gives; each is a fold, which is unfolded into a sequence
of results, one per row (`FoldsExist`), along which a fact is carried from step to step.
In the loop of `resync_object_tags` a row that was saved agrees with its taxonomy and its
Tag; one that was not is stale, and either the loop stopped at it, or before it, because
another row of its object has the value or the Tag it would take (`StaleRowsTaken`).
Rows never go in it and only their links and values change (`RowsStay`), so every edit
of a taxonomy comes down to unlinking and resynchronising (`Edited`).  In the loop of
`tag_object` each save puts in a row that agrees with what the call read, under the key
it was read with or a new one (`SaveStep`, `SavedRows`).  In the loop of `copy_tags` each
step leaves one marked row for the Tag, or the free-text taxonomy, at hand and no marked
row for anything the source does not show, with the Tag's value if the row is new, and
keeps the rows that were there but for the mark (`CopyStep`, `CopiesGoOn`); the copies that
were there went before it.

What a call of `tag_object` ends with, when nothing has changed since it read, needs more
of the loop (`SavesDone`): the rows it started with are as they were or as they were saved,
each save without a key has a row, and each row that is new has a save of its own.  Saves
are for the values of the list, no two for the same one (`AreSavesOf`), so the rows the
call is about are those for its values (`RowsAtEnd`), one each: by the unique constraint
if the call has a taxonomy, by their saves if it has only an `export_id`
(`OneRowAtEnd`).  That a call can fail only over a stale value is shown save by save:
without one every save is of a new row, its value and its Tag differ from those of the
rows that are kept and of the rows saved before (`RowsForOtherValues`, `SaveIsClean`).

*Collections* (`BackupRestoreProofs`).  The collections `set_collections` dates are computed
before the rows are written; they are exactly those whose set of entities differs
afterwards (`SetCollectionsIsDated`).  A dump writes enabled collections of entities of
the package, and a restore dates what it writes.

*Backup and restore* (`BackupRestoreProofs`).  That a package comes back follows from an
invariant over the whole of a restore (`RestoreIInv`), in three parts.  `PackageIInv`:
the tables of the package fit each other, a version for each number and no number twice,
so that a number tells the version (`NumberTells`).  `ArchivedIInv`: what the archive
holds is what readers saw when it was dumped, lost files apart, and only a dump writes it.
`Progress`: at each stage of the restore, what is no longer on the list is there as the
archive has it, and what is still on the list has not been touched.  The list is in order
(`InOrder`): entities before versions and by levels, so that the children a version
refers to exist by the time it is saved (`HasEntitiesBelow`), and nothing is on it twice.
The second loop is the delicate one: a draft version that is also the published one is
not saved again, and one that is its own is saved over a published version whose contents
it must not take over (`ignore_previous_content`, `VersionIsSaved`).  For the contents, a
folder that is found by a `local_key` must be of that Component: names that share a slug
have a hash at the end (`FolderTells`), and `HashAssumption` says that no name of the
package is spelled like one.  A restore that is refused adds nothing and leaves the
reason in the archive (`RefusalKeeps`).

That unpublished changes come back needs more, since no digest is in the archive
(`UnpublishedIInv`).  Before the dump and after the restore the digests are those of two
packages with logs of their own; both tell whether the branches differ at or below a
container (`DigestsTell`), as all that makes them right is kept by every call, in a bulk
context too, and holds anew when the package is emptied (`PublishingIInv`).  That in turn
can be read off what readers see: a number tells the version, and when nothing is pinned
the children are the dependencies (`UnpublishedIsSeen`).  Numbers and children are what an
archive without losses restores; from the dump on no child is pinned (`NoPins`).

*Concurrent edits* (`ConcurrentEditsProofs`).  `ConcurrentSpec` starts from any package at
rest (`BranchesAtRest`: rows at records of their versions, digests those of the
dependencies as they are) and lets any call of `Publishing` run while no session does;
that calls leave a package at rest is a theorem of its own, so this start leaves out no
state of one session.  The inductive invariant is `SessionsIInv`.  It says of every open
transaction (`SessionFits`) what its own view would be if it committed now, whatever the
others have committed since it began: its log is fresh on the branch; once it has
looked for affected containers its rows are closed under "depends on"; and once it has
computed its digests they are those of its view.  Of two transactions on a branch it
says that their logs and locked rows differ (`AreApart`).  The hard step is another
session's commit between a session's digests and its own commit.  Both have locked all
they repoint, so the rows are disjoint; what the other committed is closed under
"depends on", so no entity a locked container depends on is in it; so the digest a
session computed from its view is still right.  That a session's closure is still closed
needs that sessions do not change what containers depend on: `Edited` are entities
without dependencies, and Components are such.

*Only model-checked*: `Terminates` and `ImportsAreNotBlockedForever`, which are liveness
under fairness, and the prover does not reach that.  Nor does it do induction over data.  Where one is needed the
proofs take the least number, the shortest list or an entity of least rank for which
something fails.

## 5. What is left out

- *Publishing.*  `set_draft_version` is called with a version of the entity itself, or
  null, and on entities that have a version; the function does not check the
  former, and no caller in the repository breaks it.  Dependencies have no cycles
  (`Level`): `set_version_dependencies` asks for that and does not check it.  The
  traversal is checked and proved with cycles; the digests would not end.  The
  hash is injective; it is four bytes long in the code.  A draft log left empty is
  deleted at the end of its context; the model only has a gap in the numbers.
  Deletion of rows by database cascades, the backfill of digests, and bulk contexts
  left by an exception or of another package are not modelled.
- *ConcurrentEdits.*  Creating versions, resets and bulk contexts of several sessions,
  and publishing with dependencies, which reads the same rows in more queries.  Calls of
  one session come between (`CallInTurn`), in the theorem and not in the run.
- *Containers.*  Checks of the type and package of the children;
  `get_container_children_count`.
- *Components, contents.*  Component types, `create_component_version_content` on its
  own, the removal of contents; how the media server answers.
- *Collections.*  `set_collections`' check that entity and collections are of one package.
- *Tagging.*  Case and white space of values, disabled taxonomies and counts; edits of a
  taxonomy's `export_id`, which a resync would pass on to its rows (`Resynced` does, and
  finds nothing to do, so that a row's `exportId` stays); deleting
  a taxonomy while a call of `tag_object` is open;
  system-defined taxonomies (languages, users), which override where tags
  come from; permissions (`rules.py`) and the REST API, which turn requests into the
  calls above.
- *Not modelled at all*: `lib` (fields, collations, validators), the media server's
  views, importer and `load_components` commands, admin pages, migrations.  They keep
  no state of their own.
- Titles, users, dates, messages, keys and UUIDs, wherever no property is about them.

## 6. Plan

Done of the plan of this project: publishing, bulk contexts and side effects;
releases; containers; contents and components; collections; backup and restore;
imports, tag trees and object tags; concurrent edits.  What is left, in this order:

1. `ConcurrentEdits` with bulk contexts and new versions of several sessions, and with
   exceptions that leave a context open.
2. System-defined taxonomies.
