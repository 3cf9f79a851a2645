-------------------------- MODULE ConcurrentEdits --------------------------
(***************************************************************************)
(* Sessions that edit, delete and publish entities of one learning package *)
(* at the same time: the transactions of set_draft_version and             *)
(* publish_from_drafts in publishing/api.py, statement by statement, where *)
(* Publishing takes each call as one step.                                 *)
(*                                                                         *)
(* The database is one that Django runs at its default, READ COMMITTED: a  *)
(* query sees the rows that are committed and those of its own             *)
(* transaction, and an UPDATE of a row waits for the transaction that      *)
(* updated it before.  A transaction may fail at any statement (a          *)
(* deadlock, a lost connection, an exception), and leaves nothing.         *)
(***************************************************************************)
EXTENDS Publishing

CONSTANTS
    Sessions,
    Idle,
    Edited          \* the entities whose drafts the sessions edit and publish

\* Components, which declare no dependencies (create_component_version).
ASSUME EditedAssumption == Edited \subseteq {e \in Entities : Level[e] = 0}

VARIABLE tx     \* each session's transaction

concurrentVars == <<vars, tx>>

Running(s) == tx[s] # Idle

\* Mutant: the digests are computed before the rows that depend on the change are
\* updated.
Statements_DigestsFirst == <<"save", "side effects", "digests", "update", "commit">>

\* What follows the first statements of a call.
Statements == <<"save", "side effects", "update", "digests", "commit">>

At(s, statement) == Running(s) /\ Statements[tx[s].next] = statement

\* A transaction: its log, the log's records, the entities whose version it sets,
\* the branch rows it repoints at its records and those of them it has sent to the
\* database, the digests of the records, and its next statement.
Transaction(onDraft, log, records) ==
    [ onDraft |-> onDraft, log |-> log, records |-> records, changed |-> DOMAIN records,
      rows |-> {}, locks |-> {}, digest |-> << >>, next |-> 1 ]

Branch(onDraft) == IF onDraft THEN draft ELSE published

\* The branch as s sees it: the committed one with what s has written.
View(s) ==
    LET t == tx[s]
        br == Branch(t.onDraft)
        own(e) == e \in DOMAIN t.records
    IN  [ version   |-> [e \in Entities |->
              IF e \in t.rows \cap t.changed THEN t.records[e].new ELSE br.version[e]],
          logRecord |-> [e \in Entities |-> IF e \in t.rows THEN t.log ELSE br.logRecord[e]],
          records   |-> [e \in Entities |->
              IF own(e) THEN Append(br.records[e], t.records[e]) ELSE br.records[e]],
          digest    |-> [e \in Entities |->
              IF e \in DOMAIN t.digest
                THEN [l \in (DOMAIN br.digest[e]) \cup {t.log} |->
                        IF l = t.log THEN t.digest[e] ELSE br.digest[e][l]]
                ELSE br.digest[e]] ]

\* An UPDATE of these rows does not have to wait.
AreFree(s, rows) ==
    \A other \in Sessions \ {s} :
        Running(other) /\ tx[other].onDraft = tx[s].onDraft => tx[other].locks \cap rows = {}

(***************************************************************************)
(* The first statements of a call                                          *)
(***************************************************************************)
Start(s, transaction) ==
    /\ ~ Running(s)
    /\ tx' = [tx EXCEPT ![s] = transaction]

\* set_draft_version: the Draft row is read without a lock, and the log and its
\* record are written from it.
ReadDraft(s, e, v) ==
    /\ v \in {None} \cup DOMAIN dependencies[e]
    /\ v # draft.version[e]
    /\ lastDraftLog < MaxDraftLogs
    /\ lastDraftLog' = lastDraftLog + 1
    /\ LET log == lastDraftLog + 1
       IN  Start(s, Transaction(TRUE, log,
                        [x \in {e} |-> [log |-> log, old |-> draft.version[e], new |-> v]]))
    /\ UNCHANGED <<dependencies, draft, published, lastPublishLog, openLogs>>

\* publish_from_drafts: one query reads the drafts with their published versions.
ReadDraftsToPublish(s, S) ==
    /\ S # {}
    /\ lastPublishLog < MaxPublishLogs
    /\ lastPublishLog' = lastPublishLog + 1
    /\ LET log == lastPublishLog + 1
       IN  Start(s, Transaction(FALSE, log,
                        [x \in S |-> [log |-> log, old |-> published.version[x],
                                      new |-> draft.version[x]]]))
    /\ UNCHANGED <<dependencies, draft, published, lastDraftLog, openLogs>>

(***************************************************************************)
(* The statements that both calls go through                               *)
(***************************************************************************)
\* draft.save(), Published.objects.update_or_create: version and log record.
SaveRows(s) ==
    /\ At(s, "save")
    /\ AreFree(s, tx[s].changed)
    /\ tx' = [tx EXCEPT ![s].rows = tx[s].changed,
                        ![s].locks = tx[s].changed,
                        ![s].next = @ + 1]
    /\ UNCHANGED vars

\* The records of a log, by entity.
RecordsOf(br, log) ==
    [e \in ChangedIn(br, log) |->
        br.records[e][CHOOSE i \in InLog(br.records[e], log) : TRUE]]

\* _create_side_effects_for_change_log up to its bulk_update: the rows that depend
\* on the saved ones get a record of the version they are read with.
FindAffected(s) ==
    /\ At(s, "side effects")
    /\ LET log == tx[s].log
           br == WithSideEffectRecords(dependencies, View(s), log)
       IN  tx' = [tx EXCEPT ![s].records = RecordsOf(br, log),
                            ![s].rows = ChangedIn(br, log),
                            ![s].next = @ + 1]
    /\ UNCHANGED vars

\* bulk_update: the rows that depend on the saved ones are repointed.
UpdateRows(s) ==
    /\ At(s, "update")
    /\ AreFree(s, tx[s].rows)
    /\ tx' = [tx EXCEPT ![s].locks = tx[s].rows, ![s].next = @ + 1]
    /\ UNCHANGED vars

\* update_dependencies_hash_digests_for_log
UpdateDigests(s) ==
    /\ At(s, "digests")
    /\ LET log == tx[s].log
           br == WithDigests(dependencies, View(s), log)
       IN  tx' = [tx EXCEPT ![s].digest =
                                [e \in {x \in Entities : log \in DOMAIN br.digest[x]} |->
                                    br.digest[e][log]],
                            ![s].next = @ + 1]
    /\ UNCHANGED vars

Commit(s) ==
    /\ At(s, "commit")
    /\ IF tx[s].onDraft THEN draft' = View(s) /\ UNCHANGED published
                        ELSE published' = View(s) /\ UNCHANGED draft
    /\ tx' = [tx EXCEPT ![s] = Idle]
    /\ UNCHANGED <<dependencies, lastDraftLog, lastPublishLog, openLogs>>

\* The transaction is rolled back.
Fail(s) ==
    /\ Running(s)
    /\ tx' = [tx EXCEPT ![s] = Idle]
    /\ UNCHANGED vars

ConcurrentNext ==
    \E s \in Sessions :
        \/ \E e \in Edited, v \in 0 .. MaxVersions : ReadDraft(s, e, v)
        \/ \E S \in SUBSET Edited : ReadDraftsToPublish(s, S)
        \/ SaveRows(s)
        \/ FindAffected(s)
        \/ UpdateRows(s)
        \/ UpdateDigests(s)
        \/ Commit(s)
        \/ Fail(s)

\* What calls leave behind: no row, record or digest of a later log than the last,
\* each row at a record of its version, and the digest of that record the one of its
\* live dependencies as they are.
AtRest(deps, br, last) ==
    \A e \in Entities :
        /\ br.logRecord[e] \in 0 .. last
        /\ \A i \in 1 .. Len(br.records[e]) : br.records[e][i].log \in 1 .. last
        /\ DOMAIN br.digest[e] \subseteq 1 .. last
        /\ NewVersionIn(br, e, br.logRecord[e]) = br.version[e]
        /\ StoredDigest(br, e, br.logRecord[e]) =
              {<<d, br.version[d], StoredDigest(br, d, br.logRecord[d])>> :
                  d \in LiveDependencies(deps, br, e, br.version[e])}

BranchesAtRest ==
    /\ AtRest(dependencies, draft, lastDraftLog)
    /\ AtRest(dependencies, published, lastPublishLog)

\* A package that nobody is changing.
ConcurrentInit ==
    /\ TypeOK
    /\ openLogs = << >>
    /\ BranchesAtRest
    /\ tx = [s \in Sessions |-> Idle]

\* While no session runs, any call of Publishing outside of bulk contexts.
CallInTurn ==
    /\ \A s \in Sessions : ~ Running(s)
    /\ Next
    /\ openLogs' = << >>
    /\ UNCHANGED tx

ConcurrentSpec == ConcurrentInit /\ [][ConcurrentNext \/ CallInTurn]_concurrentVars

-----------------------------------------------------------------------------
(***************************************************************************)
(* Properties                                                              *)
(***************************************************************************)
\* A container's digest takes in what other sessions did to its other descendants
\* before: when sessions edit, delete and publish Components, the committed digests
\* of a draft and a published container differ exactly when the committed versions at
\* or below it do, although no session sees what the others have not committed.  (A
\* container that is edited itself while its child is may keep the record of its
\* older version, which FindAffected read; that is not what Edited has here.)
DigestsSeeAllSessions == DigestsTellUnpublishedChanges

=============================================================================
