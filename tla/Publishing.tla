----------------------------- MODULE Publishing -----------------------------
(***************************************************************************)
(* Editing, discarding and publishing the PublishableEntities of one       *)
(* learning package: publishing/api.py with the DraftChangeLogContext of   *)
(* publishing/contextmanagers.py.                                          *)
(*                                                                         *)
(* Every action is one API call.  A call runs in one database transaction; *)
(* this module is about what a sequence of calls by one session, nested    *)
(* bulk_draft_changes_for contexts included, does to the two branches.     *)
(***************************************************************************)
EXTENDS ChangeLogs, FiniteSets

CONSTANTS
    Level,               \* rank of an entity: dependencies go strictly down
    MaxVersions,         \* bound: versions created per entity
    MaxDraftLogs,        \* bound: DraftChangeLogs created
    MaxPublishLogs,      \* bound: PublishLogs created
    MaxNesting,          \* bound: bulk_draft_changes_for contexts open at once
    FilteredQuerysets    \* may a caller's draft_qset itself filter on
                         \* with_unpublished_changes()?

\* "Do not create circular dependencies" (set_version_dependencies).
ASSUME LevelAssumption == Level \in [Entities -> Nat]
ASSUME BoundsAssumption ==
    /\ {MaxVersions, MaxDraftLogs, MaxPublishLogs, MaxNesting} \subseteq Nat
    /\ FilteredQuerysets \in BOOLEAN

VARIABLES
    dependencies,    \* PublishableEntityVersion: for each entity, the dependencies of
                     \* its versions 1, 2, ... in the order they were created
    draft,           \* the Draft branch
    published,       \* the Published branch
    lastDraftLog,    \* DraftChangeLogs created so far
    lastPublishLog,  \* PublishLogs created so far
    openLogs         \* DraftChangeLogContext._draft_change_logs, a stack

vars == <<dependencies, draft, published, lastDraftLog, lastPublishLog, openLogs>>

Init ==
    /\ dependencies = [e \in Entities |-> << >>]
    /\ draft = EmptyBranch
    /\ published = EmptyBranch
    /\ lastDraftLog = 0
    /\ lastPublishLog = 0
    /\ openLogs = << >>

(***************************************************************************)
(* Draft changes                                                           *)
(***************************************************************************)
\* A Draft row is created with the entity's first version.
HasDraft(e) == dependencies[e] # << >>

\* set_draft_version on every entity whose version differs from target[e],
\* inside the change log `log`, before any side effects.
Repoint(br, log, target) ==
    LET history(e) == AddToChangeLog(br.records[e], log, br.version[e], target[e])
        changed == {e \in Entities : target[e] # br.version[e]}
    IN  [ version   |-> target,
          logRecord |-> [e \in Entities |->
              IF e \in changed THEN RepointedLog(history(e), log) ELSE br.logRecord[e]],
          records   |-> [e \in Entities |->
              IF e \in changed THEN history(e) ELSE br.records[e]],
          digest    |-> br.digest ]

\* The common part of set_draft_version and reset_drafts_to_published: nothing
\* when there is nothing to change, a record in the innermost open log when there
\* is one, and otherwise a log of its own with its side effects.
ChangeDrafts(target) ==
    \/ /\ target = draft.version
       /\ UNCHANGED <<draft, lastDraftLog>>
    \/ /\ target # draft.version
       /\ openLogs # << >>
       /\ draft' = Repoint(draft, openLogs[Len(openLogs)], target)
       /\ UNCHANGED lastDraftLog
    \/ /\ target # draft.version
       /\ openLogs = << >>
       /\ lastDraftLog < MaxDraftLogs
       /\ lastDraftLog' = lastDraftLog + 1
       /\ draft' = WithSideEffects(dependencies',
                                   Repoint(draft, lastDraftLog + 1, target),
                                   lastDraftLog + 1)

\* create_publishable_entity_version: the next version of e, depending on D,
\* becomes the draft.
CreateVersion(e, D) ==
    /\ Len(dependencies[e]) < MaxVersions
    /\ dependencies' = [dependencies EXCEPT ![e] = Append(@, D)]
    /\ ChangeDrafts([draft.version EXCEPT ![e] = Len(dependencies[e]) + 1])
    /\ UNCHANGED <<published, lastPublishLog, openLogs>>

\* set_draft_version to one of e's versions, or soft_delete_draft (v = None).
SetDraftVersion(e, v) ==
    /\ HasDraft(e)
    /\ v \in {None} \cup DOMAIN dependencies[e]
    /\ UNCHANGED dependencies
    /\ ChangeDrafts([draft.version EXCEPT ![e] = v])
    /\ UNCHANGED <<published, lastPublishLog, openLogs>>

\* Mutant: an entity that was never published is left as it is.
ResetDraftsToPublished_KeepsNew ==
    /\ UNCHANGED <<dependencies, published, lastPublishLog, openLogs>>
    /\ ChangeDrafts([e \in Entities |->
          IF published.version[e] = None THEN draft.version[e] ELSE published.version[e]])

\* reset_drafts_to_published: every Draft whose version is not the published
\* one, a missing Published row counting as None.
ResetDraftsToPublished ==
    /\ UNCHANGED <<dependencies, published, lastPublishLog, openLogs>>
    /\ ChangeDrafts(published.version)

(***************************************************************************)
(* bulk_draft_changes_for                                                  *)
(***************************************************************************)
\* DraftChangeLogContext.__enter__
BeginBulk ==
    /\ Len(openLogs) < MaxNesting
    /\ lastDraftLog < MaxDraftLogs
    /\ lastDraftLog' = lastDraftLog + 1
    /\ openLogs' = Append(openLogs, lastDraftLog + 1)
    /\ UNCHANGED <<dependencies, draft, published, lastPublishLog>>

\* DraftChangeLogContext.__exit__: the side effects of everything in the log; a
\* log that is left without records is deleted, which leaves no trace here.
EndBulk ==
    /\ openLogs # << >>
    /\ draft' = WithSideEffects(dependencies, draft, openLogs[Len(openLogs)])
    /\ openLogs' = SubSeq(openLogs, 1, Len(openLogs) - 1)
    /\ UNCHANGED <<dependencies, published, lastDraftLog, lastPublishLog>>

(***************************************************************************)
(* Publishing                                                              *)
(***************************************************************************)
\* DraftQuerySet.with_unpublished_changes: null, missing and None are the same.
UnpublishedChanges == {e \in Entities : draft.version[e] # published.version[e]}

\* The rows of the caller's draft_qset over S, when `unpublished` is what it
\* would find with_unpublished_changes.
QuerysetRows(S, filtered, unpublished) == IF filtered THEN S \cap unpublished ELSE S

\* Mutant: only the immediate dependencies are published along.
DraftsToPublish_OneLayer(S, withDependencies, filtered) ==
    LET first == QuerysetRows(S, filtered, UnpublishedChanges)
        left  == UnpublishedChanges \ first
    IN  IF withDependencies
          THEN first \cup (DependenciesOf(dependencies, draft,
                                          QuerysetRows(S, filtered, left)) \cap left)
          ELSE first

\* The drafts publish_from_drafts goes through: those of the caller's queryset,
\* then the layers of _get_dependencies_with_unpublished_changes.  The layers
\* are lazy: they embed the caller's queryset as a subquery that runs again
\* once its own rows have been published.
DraftsToPublish(S, withDependencies, filtered) ==
    LET first == QuerysetRows(S, filtered, UnpublishedChanges)
        left  == UnpublishedChanges \ first
    IN  IF withDependencies
          THEN first \cup (Descendants(dependencies, draft,
                                       QuerysetRows(S, filtered, left)) \cap left)
          ELSE first

\* Mutant: old_version is read after the Published row was updated.
RecordPublish_OldReadLate(br, log, P) ==
    [ version   |-> [e \in Entities |->
          IF e \in P THEN draft.version[e] ELSE br.version[e]],
      logRecord |-> [e \in Entities |-> IF e \in P THEN log ELSE br.logRecord[e]],
      records   |-> [e \in Entities |->
          IF e \in P
            THEN Append(br.records[e],
                        [log |-> log, old |-> draft.version[e], new |-> draft.version[e]])
            ELSE br.records[e]],
      digest    |-> br.digest ]

\* A PublishLogRecord for each draft in P and the Published row that points at
\* it, whether or not the version changes.
RecordPublish(br, log, P) ==
    [ version   |-> [e \in Entities |->
          IF e \in P THEN draft.version[e] ELSE br.version[e]],
      logRecord |-> [e \in Entities |-> IF e \in P THEN log ELSE br.logRecord[e]],
      records   |-> [e \in Entities |->
          IF e \in P
            THEN Append(br.records[e],
                        [log |-> log, old |-> br.version[e], new |-> draft.version[e]])
            ELSE br.records[e]],
      digest    |-> br.digest ]

\* publish_from_drafts
PublishFromDrafts(S, withDependencies, filtered) ==
    /\ S \subseteq {e \in Entities : HasDraft(e)}
    /\ lastPublishLog < MaxPublishLogs
    /\ lastPublishLog' = lastPublishLog + 1
    /\ published' = WithSideEffects(
                        dependencies,
                        RecordPublish(published, lastPublishLog + 1,
                                      DraftsToPublish(S, withDependencies, filtered)),
                        lastPublishLog + 1)
    /\ UNCHANGED <<dependencies, draft, lastDraftLog, openLogs>>

\* publish_all_drafts
PublishAllDrafts == PublishFromDrafts({e \in Entities : HasDraft(e)}, TRUE, TRUE)

\* Mutant: versions are not created bottom-up, dependencies may go in circles.
Next_AnyDependencies ==
    \/ \E e \in Entities :
         \/ \E D \in SUBSET (Entities \ {e}) : CreateVersion(e, D)
         \/ \E v \in 0 .. MaxVersions : SetDraftVersion(e, v)
    \/ ResetDraftsToPublished
    \/ BeginBulk
    \/ EndBulk
    \/ PublishAllDrafts
    \/ \E S \in SUBSET Entities, withDependencies \in BOOLEAN,
          filtered \in {FALSE, FilteredQuerysets} :
         PublishFromDrafts(S, withDependencies, filtered)

Next ==
    \/ \E e \in Entities :
         \/ \E D \in SUBSET {d \in Entities : Level[d] < Level[e]} : CreateVersion(e, D)
         \/ \E v \in 0 .. MaxVersions : SetDraftVersion(e, v)
    \/ ResetDraftsToPublished
    \/ BeginBulk
    \/ EndBulk
    \/ PublishAllDrafts
    \/ \E S \in SUBSET Entities, withDependencies \in BOOLEAN,
          filtered \in {FALSE, FilteredQuerysets} :
         PublishFromDrafts(S, withDependencies, filtered)

Spec == Init /\ [][Next]_vars

(***************************************************************************)
(* What callers are told before they publish or discard                    *)
(***************************************************************************)
\* get_all_drafts
AllDrafts == {e \in Entities : draft.version[e] # None}

\* filter_publishable_entities, for either value of each of its filters.
FilterPublishableEntities(hasDraft, hasPublished) ==
    {e \in Entities : /\ (draft.version[e] # None) = hasDraft
                      /\ (published.version[e] # None) = hasPublished}

\* get_entities_with_unpublished_changes: the exclusion of equal versions drops no
\* row in which one is null, NULL = NULL not being true.
EntitiesWithUnpublishedChanges(includeDeletedDrafts) ==
    LET equal   == {e \in AllDrafts : draft.version[e] = published.version[e]}
        deleted == IF includeDeletedDrafts
                     THEN FilterPublishableEntities(FALSE, FALSE)
                     ELSE Entities \ AllDrafts
    IN  (Entities \ equal) \ deleted

\* get_entities_with_unpublished_deletes
EntitiesWithUnpublishedDeletes == FilterPublishableEntities(FALSE, TRUE)

\* VersioningHelper.has_unpublished_changes
HasUnpublishedChanges(e) == draft.version[e] # published.version[e]

\* Nothing is left to publish, by any of them.
NothingToPublish ==
    /\ EntitiesWithUnpublishedChanges(TRUE) = {}
    /\ EntitiesWithUnpublishedDeletes = {}
    /\ \A e \in Entities : ~ HasUnpublishedChanges(e)

-----------------------------------------------------------------------------
(***************************************************************************)
(* Properties                                                              *)
(***************************************************************************)
BranchTypeOK(br) ==
    /\ br.version \in [Entities -> Nat]
    /\ br.logRecord \in [Entities -> Nat]
    /\ br.records \in [Entities -> Seq(LogRecord)]
    /\ \A e \in Entities : br.version[e] \in {None} \cup DOMAIN dependencies[e]

\* Every table has rows of its type, a branch points only at versions that were
\* created, and versions depend only on entities below theirs.
TypeOK ==
    /\ dependencies \in [Entities -> Seq(SUBSET Entities)]
    /\ \A e \in Entities : \A v \in DOMAIN dependencies[e] :
          \A d \in dependencies[e][v] : Level[d] < Level[e]
    /\ BranchTypeOK(draft)
    /\ BranchTypeOK(published)
    /\ lastDraftLog \in Nat
    /\ lastPublishLog \in Nat
    /\ openLogs \in Seq(1 .. lastDraftLog)

\* The records of an entity in creation order are a chain: the first starts
\* from nothing, each starts where the one before ended, in a later log.
IsChain(h) ==
    /\ h # << >> => h[1].old = None
    /\ \A i \in 1 .. Len(h) - 1 : h[i + 1].old = h[i].new /\ h[i].log < h[i + 1].log

\* Replaying an entity's log records gives the version its branch row points at,
\* and that row points at the last record: what _add_to_existing_draft_change_log
\* keeps true when it collapses and cancels changes, and what
\* get_published_version_as_of reads back.
HistoryReplaysToBranch(br) ==
    \A e \in Entities :
        LET h == br.records[e]
        IN  /\ IsChain(h)
            /\ br.logRecord[e] = LatestLog(h)
            /\ br.version[e] = IF h = << >> THEN None ELSE h[Len(h)].new

DraftHistoryReplays == HistoryReplaysToBranch(draft)
PublishHistoryReplays == HistoryReplaysToBranch(published)

\* What get_published_version_as_of reads off the records for each PublishLog.
ReleasesRead ==
    [log \in 1 .. lastPublishLog |->
        [e \in Entities |-> VersionAsOf(published.records[e], log)]]

R == INSTANCE Releases WITH
        draft <- draft.version, published <- published.version, releases <- ReleasesRead

\* Publishing does what Releases promises: every call changes the branches as one
\* of its actions does, and reading the records as of a PublishLog gives what was
\* published then, whatever was published, deleted or affected later.
ImplementsReleases == R!Spec

\* The versions that make up the state of e on a branch: its own and those of all
\* its descendants that are not soft-deleted.
LiveTree(br, e) ==
    {<<d, br.version[d]>> : d \in
        {x \in {e} \cup Descendants(dependencies, br, {e}) : br.version[x] # None}}

\* Has contains_unpublished_changes an answer, i.e. are there log records on both
\* sides to compare?
IsOnBothBranches(e) == draft.logRecord[e] # NoLog /\ published.logRecord[e] # NoLog

\* contains_unpublished_changes, for such an entity.
ContainsUnpublishedChanges(e) ==
    \/ draft.version[e] # published.version[e]
    \/ StoredDigest(draft, e, draft.logRecord[e])
         # StoredDigest(published, e, published.logRecord[e])

\* "The dependencies_hash_digest captures the state of all descendants": outside
\* of bulk contexts the stored digests say exactly whether anything at or
\* below an entity differs between draft and published, whatever mix of edits,
\* deletions, restorations, resets and partial publishes led there.
DigestsTellUnpublishedChanges ==
    openLogs = << >> =>
        \A e \in Entities : IsOnBothBranches(e) =>
            (ContainsUnpublishedChanges(e) <=> LiveTree(draft, e) # LiveTree(published, e))

\* What a branch was before the log: the old versions of its records.
VersionBefore(br, log) ==
    [e \in Entities |->
        IF InLog(br.records[e], log) = {} THEN br.version[e]
        ELSE br.records[e][CHOOSE i \in InLog(br.records[e], log) : TRUE].old]

BranchBefore(br, log) == [br EXCEPT !.version = VersionBefore(br, log)]

\* The last completed DraftChangeLog has a record for an entity exactly when the
\* entity's draft or that of one of its descendants changed in it: no container
\* is missed, none is listed for a change that was undone or that happens under
\* a version it no longer has.
DraftLogIsExact ==
    openLogs = << >> /\ lastDraftLog > 0 =>
        \A e \in Entities :
            e \in ChangedIn(draft, lastDraftLog)
              <=> LiveTree(draft, e) # LiveTree(BranchBefore(draft, lastDraftLog), e)

\* The last PublishLog has a record for every entity whose published state, or
\* that of one of its descendants, it changed (publish_from_drafts can be asked
\* to publish what has not changed, so the converse does not hold).
PublishLogIsComplete ==
    lastPublishLog > 0 =>
        \A e \in Entities :
            LiveTree(published, e) # LiveTree(BranchBefore(published, lastPublishLog), e)
              => e \in ChangedIn(published, lastPublishLog)

\* publish_from_drafts "will also publish all dependencies": afterwards nothing
\* at or below the drafts it published has unpublished changes, and after
\* publish_all_drafts none of the queries finds anything to publish.
PublishCoversDependencies ==
    [][/\ PublishAllDrafts =>
            /\ NothingToPublish'
            /\ \A e \in Entities : (LiveTree(draft, e) = LiveTree(published, e))'
       /\ \A S \in SUBSET Entities, filtered \in {FALSE, FilteredQuerysets} :
            PublishFromDrafts(S, TRUE, filtered) =>
                \A e \in QuerysetRows(S, filtered, UnpublishedChanges) :
                    (LiveTree(draft, e) = LiveTree(published, e))']_vars

\* "Discard my unpublished changes": after reset_drafts_to_published none of the
\* queries finds an entity that differs from what is published, and outside a bulk
\* context the digests agree too, including those of containers published without
\* their children.
ResetDiscardsEverything ==
    [][ResetDraftsToPublished =>
        /\ NothingToPublish'
        /\ openLogs = << >> => \A e \in Entities :
              (IsOnBothBranches(e) => ~ ContainsUnpublishedChanges(e))']_vars

\* Outside of bulk contexts the record a Draft row points at ends at the row's
\* version.  hash_for_log_record reads a dependency's version off that record.
DraftRowMatchesItsRecord ==
    openLogs = << >> =>
        \A e \in Entities :
            draft.logRecord[e] # NoLog =>
                NewVersionIn(draft, e, draft.logRecord[e]) = draft.version[e]

=============================================================================
