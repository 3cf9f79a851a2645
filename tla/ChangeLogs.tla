----------------------------- MODULE ChangeLogs -----------------------------
(***************************************************************************)
(* The bookkeeping shared by the two branches of a learning package, Draft *)
(* and Published: which version of each PublishableEntity a branch points  *)
(* at, the log records that brought it there, the side effects that a      *)
(* change has on everything that depends on it, and the                    *)
(* dependencies_hash_digest of each record.  publishing/api.py runs the    *)
(* same code on DraftChangeLog and PublishLog; so do these operators.      *)
(*                                                                         *)
(* A branch is a record of four tables:                                    *)
(*   version[e]    the version_num Draft/Published points at, None if null *)
(*   logRecord[e]  the log of the record it points at, NoLog if null       *)
(*   records[e]    its log records, in the order they were created         *)
(*   digest[e]     log |-> dependencies_hash_digest, for the records that  *)
(*                 have one other than the blank default                   *)
(* A version is its version_num (1, 2, ...); a record is identified by its *)
(* log, since (log, entity) is unique.  deps[e][v] is the set of entities  *)
(* that version v of e declares as dependencies.                           *)
(***************************************************************************)
EXTENDS Naturals, Sequences, SequencesExt

CONSTANT Entities       \* PublishableEntities of one learning package

None == 0               \* a null version
NoLog == 0              \* a null log record
Blank == {}             \* the default digest, ''

LogRecord == [log : Nat, old : Nat, new : Nat]

EmptyBranch ==
    [ version   |-> [e \in Entities |-> None],
      logRecord |-> [e \in Entities |-> NoLog],
      records   |-> [e \in Entities |-> << >>],
      digest    |-> [e \in Entities |-> << >>] ]

(***************************************************************************)
(* Log records                                                             *)
(***************************************************************************)
\* Positions in the history h of the record of `log`: one at most.
InLog(h, log) == {i \in 1 .. Len(h) : h[i].log = log}

LatestLog(h) == IF h = << >> THEN NoLog ELSE h[Len(h)].log

\* The entities with a record in `log` (change_log.records).
ChangedIn(br, log) == {e \in Entities : InLog(br.records[e], log) # {}}

\* Mutant: the change of an entity already in the log overwrites old_version.
AddToChangeLog_LosesOldVersion(h, log, old, new) ==
    IF InLog(h, log) = {}
      THEN Append(h, [log |-> log, old |-> old, new |-> new])
      ELSE LET i == CHOOSE i \in InLog(h, log) : TRUE
           IN  IF h[i].old = new
                 THEN RemoveAt(h, i)
                 ELSE [h EXCEPT ![i] = [log |-> log, old |-> old, new |-> new]]

\* Mutant: a change that undoes the earlier ones keeps its record.
AddToChangeLog_KeepsUndone(h, log, old, new) ==
    IF InLog(h, log) = {}
      THEN Append(h, [log |-> log, old |-> old, new |-> new])
      ELSE LET i == CHOOSE i \in InLog(h, log) : TRUE
           IN  [h EXCEPT ![i] = [log |-> log, old |-> h[i].old, new |-> new]]

\* _add_to_existing_draft_change_log: one record per entity and log, which
\* keeps its first old_version; a change that undoes the others deletes it.
AddToChangeLog(h, log, old, new) ==
    IF InLog(h, log) = {}
      THEN Append(h, [log |-> log, old |-> old, new |-> new])
      ELSE LET i == CHOOSE i \in InLog(h, log) : TRUE
           IN  IF h[i].old = new
                 THEN RemoveAt(h, i)
                 ELSE [h EXCEPT ![i] = [log |-> log, old |-> h[i].old, new |-> new]]

\* The record a changed Draft row points at afterwards: the one of the log or,
\* when the change undid it, the entity's most recently created one.
RepointedLog(h, log) == IF InLog(h, log) = {} THEN LatestLog(h) ELSE log

\* Mutant: the first record found, whatever its log.
VersionAsOf_Unordered(h, log) ==
    LET upTo == {h[i] : i \in {j \in 1 .. Len(h) : h[j].log <= log}}
    IN  IF upTo = {} THEN None ELSE (CHOOSE r \in upTo : \A q \in upTo : r.log <= q.log).new

\* get_published_version_as_of: what the latest record up to `log` leads to.
VersionAsOf(h, log) ==
    LET upTo == {h[i] : i \in {j \in 1 .. Len(h) : h[j].log <= log}}
    IN  IF upTo = {} THEN None ELSE (CHOOSE r \in upTo : \A q \in upTo : q.log <= r.log).new

(***************************************************************************)
(* Dependencies of the current versions of a branch                        *)
(***************************************************************************)
\* What the current versions of the entities in X depend on.
DependenciesOf(deps, br, X) ==
    UNION {deps[e][br.version[e]] : e \in {x \in X : br.version[x] # None}}

\* Rows of the branch whose version has one of X as a dependency.
DependentsOf(deps, br, X) ==
    {e \in Entities : /\ br.version[e] # None
                      /\ deps[e][br.version[e]] \cap X # {}}

\* All transitive dependencies of X: the least set closed under DependenciesOf.
Descendants(deps, br, X) ==
    {e \in Entities : \A R \in SUBSET Entities :
        DependenciesOf(deps, br, X \cup R) \subseteq R => e \in R}

\* All rows that X affects, directly or through others: the least set closed
\* under DependentsOf.
Ancestors(deps, br, X) ==
    {e \in Entities : \A R \in SUBSET Entities :
        DependentsOf(deps, br, X \cup R) \subseteq R => e \in R}

(***************************************************************************)
(* Side effects and digests                                                *)
(***************************************************************************)
\* Mutant: only the direct parents of a change are affected.
AffectedRows_OneLayer(deps, br, log) ==
    DependentsOf(deps, br, ChangedIn(br, log))

\* The rows the loop of _create_side_effects_for_change_log reaches.
AffectedRows(deps, br, log) == Ancestors(deps, br, ChangedIn(br, log))

\* Each affected row gets a record in the log, with old = new, unless it has
\* one, and is repointed to it.
WithSideEffectRecords(deps, br, log) ==
    LET affected == AffectedRows(deps, br, log)
    IN  [ version   |-> br.version,
          logRecord |-> [e \in Entities |->
              IF e \in affected THEN log ELSE br.logRecord[e]],
          records   |-> [e \in Entities |->
              IF e \in affected /\ InLog(br.records[e], log) = {}
                THEN Append(br.records[e],
                            [log |-> log, old |-> br.version[e], new |-> br.version[e]])
                ELSE br.records[e]],
          digest    |-> br.digest ]

\* The new_version of the record of `log` of entity e.
NewVersionIn(br, e, log) ==
    IF InLog(br.records[e], log) = {} THEN None
    ELSE br.records[e][CHOOSE i \in InLog(br.records[e], log) : TRUE].new

StoredDigest(br, e, log) ==
    IF log \in DOMAIN br.digest[e] THEN br.digest[e][log] ELSE Blank

\* Dependencies of version v of e that are not soft-deleted on the branch.
LiveDependencies(deps, br, e, v) ==
    IF v = None THEN {} ELSE {d \in deps[e][v] : br.version[d] # None}

\* Mutant: a dependency's own state is left out, only its version is hashed.
HashForLogRecord_Shallow(deps, br, log) ==
    [e \in Entities |->
        {<<d, NewVersionIn(br, d, br.logRecord[d]), Blank>> :
            d \in LiveDependencies(deps, br, e, NewVersionIn(br, e, log))}]

\* Mutant: the digests of other records of this log are read as stored, before
\* they have been recomputed.
HashForLogRecord_TrustsStored(deps, br, log) ==
    [e \in Entities |->
        {<<d, NewVersionIn(br, d, br.logRecord[d]), StoredDigest(br, d, br.logRecord[d])>> :
            d \in LiveDependencies(deps, br, e, NewVersionIn(br, e, log))}]

\* hash_for_log_record, for the record of each entity in `log`: its live
\* dependencies, each with the version and the digest of the record its row
\* points at, recomputed when that record is in this log and read otherwise.
\* The hash of the joined text is taken to be injective, so the set stands for
\* it; '' is the hash of no dependencies.
HashForLogRecord(deps, br, log) ==
    LET hash[e \in Entities] ==
          {<<d, NewVersionIn(br, d, br.logRecord[d]),
             IF br.logRecord[d] = log THEN hash[d] ELSE StoredDigest(br, d, br.logRecord[d])>> :
                d \in LiveDependencies(deps, br, e, NewVersionIn(br, e, log))}
    IN  hash

\* update_dependencies_hash_digests_for_log: written for the records of the log
\* that have live dependencies.
WithDigests(deps, br, log) ==
    LET hash == HashForLogRecord(deps, br, log)
        stale == {e \in ChangedIn(br, log) :
                    LiveDependencies(deps, br, e, NewVersionIn(br, e, log)) # {}}
    IN  [ version   |-> br.version,
          logRecord |-> br.logRecord,
          records   |-> br.records,
          digest    |-> [e \in Entities |->
              IF e \in stale
                THEN [l \in (DOMAIN br.digest[e]) \cup {log} |->
                        IF l = log THEN hash[e] ELSE br.digest[e][l]]
                ELSE br.digest[e]] ]

\* _create_side_effects_for_change_log, run on the branch once all the direct
\* changes of the log have been recorded.
WithSideEffects(deps, br, log) ==
    WithDigests(deps, WithSideEffectRecords(deps, br, log), log)

=============================================================================
