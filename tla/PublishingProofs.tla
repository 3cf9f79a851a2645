-------------------------- MODULE PublishingProofs --------------------------
(***************************************************************************)
(* Proofs about Publishing, for every set of entities, every ranking and   *)
(* every bound; those about the Draft branch's history and about digests   *)
(* assume that bulk_draft_changes_for contexts are not nested.             *)
(*                                                                         *)
(* Histories come first; then what change logs tell of the containers      *)
(* above a change; then what the stored digests tell.                      *)
(*                                                                         *)
(* The argument about histories is about one entity on one branch.  Its    *)
(* version and log record are determined by its history, and no record of  *)
(* the history is of a later log than the last one made; so the record of  *)
(* the log that is being written, when there is one, is the last of the    *)
(* history, and appending, updating or deleting it keeps the rest a chain. *)
(***************************************************************************)
EXTENDS Publishing, SequenceTheorems, WellFoundedInduction, TLAPS

\* The history, version and log record of one entity agree, and no record is of
\* a log after `last`.
Consistent(h, version, log, last) ==
    /\ h \in Seq(LogRecord)
    /\ IsChain(h)
    /\ log = LatestLog(h)
    /\ version = (IF h = << >> THEN None ELSE h[Len(h)].new)
    /\ \A i \in 1 .. Len(h) : h[i].log \in 1 .. last

\* The tables of a branch have rows of their types.
Tables(br) ==
    /\ br.version \in [Entities -> Nat]
    /\ br.logRecord \in [Entities -> Nat]
    /\ br.records \in [Entities -> Seq(LogRecord)]

\* Every entity of a branch has a consistent history.
Sound(br, last) ==
    \A e \in Entities : Consistent(br.records[e], br.version[e], br.logRecord[e], last)

-----------------------------------------------------------------------------
(***************************************************************************)
(* One history                                                             *)
(***************************************************************************)
\* A record of a log that the history has no record of yet goes to its end.
LEMMA AppendConsistent ==
    ASSUME NEW h, NEW version \in Nat, NEW ptr, NEW last \in Nat, NEW log \in Nat \ {0},
           NEW new \in Nat,
           Consistent(h, version, ptr, last), last <= log, InLog(h, log) = {}
    PROVE  Consistent(Append(h, [log |-> log, old |-> version, new |-> new]), new, log, log)
<1> DEFINE r == [log |-> log, old |-> version, new |-> new]
           g == Append(h, r)
<1>1. h \in Seq(LogRecord) /\ r \in LogRecord
  BY DEF Consistent, LogRecord
<1>2. /\ g \in Seq(LogRecord)
      /\ Len(g) = Len(h) + 1
      /\ g[Len(h) + 1] = r
      /\ \A i \in 1 .. Len(h) : g[i] = h[i]
  BY <1>1, AppendProperties
<1>3. Len(h) \in Nat /\ g # << >>
  BY <1>1, <1>2, LenProperties, EmptySeq
<1>4. \A i \in 1 .. Len(h) : h[i] \in LogRecord /\ h[i].log \in 1 .. last /\ h[i].log # log
  BY <1>1, ElementOfSeq DEF Consistent, InLog
<1>5. \A i \in 1 .. Len(h) : h[i].log < log
  BY <1>4 DEF LogRecord
<1>6. IsChain(g)
  <2>1. g[1].old = None
    <3>1. CASE h = << >>
      BY <3>1, <1>2 DEF Consistent
    <3>2. CASE h # << >>
      <4>1. 1 \in 1 .. Len(h)
        BY <3>2, <1>1, <1>3, EmptySeq
      <4>2. QED
        BY <4>1, <3>2, <1>2 DEF Consistent, IsChain
    <3>3. QED
      BY <3>1, <3>2
  <2>2. ASSUME NEW i \in 1 .. Len(g) - 1
        PROVE  g[i + 1].old = g[i].new /\ g[i].log < g[i + 1].log
    <3>1. CASE i = Len(h)
      BY <3>1, <1>2, <1>3, <1>5 DEF Consistent
    <3>2. CASE i # Len(h)
      <4>1. i \in 1 .. Len(h) - 1 /\ i \in 1 .. Len(h) /\ i + 1 \in 1 .. Len(h)
        BY <3>2, <1>2, <1>3
      <4>2. h[i + 1].old = h[i].new /\ h[i].log < h[i + 1].log
        BY <4>1 DEF Consistent, IsChain
      <4>3. QED
        BY <4>1, <4>2, <1>2
    <3>3. QED
      BY <3>1, <3>2
  <2>3. QED
    BY <2>1, <2>2 DEF IsChain
<1>7. LatestLog(g) = log /\ g[Len(g)].new = new
  BY <1>2, <1>3 DEF LatestLog
<1>8. \A i \in 1 .. Len(g) : g[i].log \in 1 .. log
  BY <1>2, <1>3, <1>5, <1>4
<1>9. QED
  BY <1>2, <1>3, <1>6, <1>7, <1>8 DEF Consistent

\* When no record is of a later log, the log's own record is the last one.
LEMMA RecordIsLast ==
    ASSUME NEW h, NEW version, NEW ptr, NEW last \in Nat, NEW log \in Nat,
           Consistent(h, version, ptr, last), last <= log, InLog(h, log) # {}
    PROVE  /\ Len(h) \in Nat \ {0}
           /\ InLog(h, log) = {Len(h)}
           /\ \A i \in 1 .. Len(h) - 1 : h[i].log < log
<1>1. h \in Seq(LogRecord) /\ Len(h) \in Nat
  BY LenProperties DEF Consistent
<1>2. \A i \in 1 .. Len(h) : h[i].log \in Nat /\ h[i].log <= log
  BY <1>1 DEF Consistent
<1>3. \A i \in 1 .. Len(h) - 1 : h[i].log < h[i + 1].log /\ i + 1 \in 1 .. Len(h) /\ i \in 1 .. Len(h)
  BY <1>1 DEF Consistent, IsChain
<1>4. \A i \in 1 .. Len(h) - 1 : h[i].log < log
  BY <1>1, <1>2, <1>3
<1>5. InLog(h, log) \subseteq {Len(h)}
  BY <1>1, <1>2, <1>4 DEF InLog
<1>6. QED
  BY <1>1, <1>4, <1>5 DEF InLog

\* What is left of a history when its end is cut off.
LEMMA PrefixProperties ==
    ASSUME NEW S, NEW h, NEW m \in Nat, \A i \in 1 .. m : h[i] \in S
    PROVE  /\ SubSeq(h, 1, m) \in Seq(S)
           /\ Len(SubSeq(h, 1, m)) = m
           /\ \A i \in 1 .. m : SubSeq(h, 1, m)[i] = h[i]
<1>1. /\ SubSeq(h, 1, m) \in Seq(S)
      /\ Len(SubSeq(h, 1, m)) = (IF 1 <= m THEN m - 1 + 1 ELSE 0)
      /\ \A i \in 1 .. m - 1 + 1 : SubSeq(h, 1, m)[i] = h[1 + i - 1]
  BY SubSeqProperties, 1 \in Int, m \in Int, Z3
<1>2. QED
  BY <1>1

\* A change to an entity that is in the log already replaces or deletes that
\* last record.
LEMMA ChangeConsistent ==
    ASSUME NEW h, NEW version, NEW ptr, NEW last \in Nat, NEW log \in Nat \ {0},
           NEW new \in Nat,
           Consistent(h, version, ptr, last), last <= log, InLog(h, log) # {}
    PROVE  LET g == AddToChangeLog(h, log, version, new)
           IN  Consistent(g, new, RepointedLog(g, log), log)
<1>1. PICK m \in Nat : /\ Len(h) = m + 1
                       /\ InLog(h, log) = {m + 1}
                       /\ \A i \in 1 .. m : h[i].log < log
  <2>1. Len(h) - 1 \in Nat /\ Len(h) = (Len(h) - 1) + 1
    BY RecordIsLast
  <2>2. QED
    BY <2>1, RecordIsLast
<1> DEFINE n == m + 1
           g == AddToChangeLog(h, log, version, new)
           r == [log |-> log, old |-> h[n].old, new |-> new]
<1>2. /\ h \in Seq(LogRecord)
      /\ \A i \in 1 .. n : h[i] \in LogRecord /\ h[i].log \in 1 .. last
  BY <1>1, ElementOfSeq DEF Consistent
<1>3. /\ h[1].old = None
      /\ \A i \in 1 .. m : h[i + 1].old = h[i].new /\ h[i].log < h[i + 1].log
  BY <1>1, <1>2, EmptySeq DEF Consistent, IsChain
<1>4. g = IF h[n].old = new THEN RemoveAt(h, n) ELSE [h EXCEPT ![n] = r]
  <2>1. (CHOOSE i \in InLog(h, log) : TRUE) = n
    BY <1>1
  <2>2. QED
    BY <1>1, <2>1 DEF AddToChangeLog
<1>5. CASE h[n].old = new
  <2>1. /\ SubSeq(h, 1, m) \in Seq(LogRecord)
        /\ Len(SubSeq(h, 1, m)) = m
        /\ \A i \in 1 .. m : SubSeq(h, 1, m)[i] = h[i]
    BY <1>2, PrefixProperties
  <2>2. g = SubSeq(h, 1, m)
    <3>1. SubSeq(h, n + 1, n) = << >>
      BY SubSeqEmpty
    <3>2. n - 1 = m /\ Len(h) = n
      BY <1>1
    <3>3. QED
      BY <1>4, <1>5, <2>1, <3>1, <3>2, ConcatEmptySeq DEF RemoveAt
  <2> HIDE DEF g
  <2>3. g \in Seq(LogRecord) /\ Len(g) = m /\ \A i \in 1 .. m : g[i] = h[i]
    BY <2>1, <2>2
  <2>4. IsChain(g)
    <3>1. ASSUME g # << >>
          PROVE  g[1].old = None
      BY <3>1, <1>3, <2>3, EmptySeq
    <3>2. ASSUME NEW i \in 1 .. Len(g) - 1
          PROVE  g[i + 1].old = g[i].new /\ g[i].log < g[i + 1].log
      <4>1. i \in 1 .. m /\ i + 1 \in 1 .. m
        BY <2>3
      <4>2. QED
        BY <4>1, <1>3, <2>3
    <3>3. QED
      BY <3>1, <3>2 DEF IsChain
  <2>5. RepointedLog(g, log) = LatestLog(g)
    BY <1>1, <2>3 DEF RepointedLog, InLog
  <2>6. new = IF g = << >> THEN None ELSE g[Len(g)].new
    <3>1. CASE m = 0
      BY <3>1, <1>3, <1>5, <2>3, EmptySeq
    <3>2. CASE m # 0
      <4>1. m \in 1 .. m
        BY <3>2
      <4>2. h[n].old = h[m].new /\ g[m] = h[m] /\ g # << >>
        BY <4>1, <1>3, <2>3, <3>2, EmptySeq
      <4>3. QED
        BY <4>2, <1>5, <2>3
    <3>3. QED
      BY <3>1, <3>2
  <2>7. \A i \in 1 .. Len(g) : g[i].log \in 1 .. log
    BY <1>2, <2>3
  <2>8. QED
    BY <2>3, <2>4, <2>5, <2>6, <2>7 DEF Consistent, g
<1>6. CASE h[n].old # new
  <2>1. r \in LogRecord
    BY <1>2 DEF LogRecord
  <2>2. /\ g \in Seq(LogRecord)
        /\ Len(g) = n
        /\ \A i \in 1 .. n : g[i] = IF i = n THEN r ELSE h[i]
    BY <1>1, <1>2, <1>4, <1>6, <2>1, ExceptSeq
  <2> HIDE DEF g
  <2>3. g # << >> /\ g[n] = r /\ \A i \in 1 .. m : g[i] = h[i]
    BY <2>2, EmptySeq
  <2>4. IsChain(g)
    <3>1. g[1].old = None
      BY <1>3, <2>2
    <3>2. ASSUME NEW i \in 1 .. m
          PROVE  g[i + 1].old = g[i].new /\ g[i].log < g[i + 1].log
      BY <1>1, <1>3, <2>2
    <3>3. Len(g) - 1 = m
      BY <2>2
    <3>4. QED
      BY <3>1, <3>2, <3>3 DEF IsChain
  <2>5. RepointedLog(g, log) = log /\ LatestLog(g) = log
    BY <2>2, <2>3 DEF RepointedLog, InLog, LatestLog
  <2>6. \A i \in 1 .. Len(g) : g[i].log \in 1 .. log
    BY <1>2, <2>2
  <2>7. QED
    BY <2>2, <2>3, <2>4, <2>5, <2>6 DEF Consistent, g
<1>7. QED
  BY <1>5, <1>6

\* Either way the history stays consistent: _add_to_existing_draft_change_log.
LEMMA AddConsistent ==
    ASSUME NEW h, NEW version \in Nat, NEW ptr, NEW last \in Nat, NEW log \in Nat \ {0},
           NEW new \in Nat,
           Consistent(h, version, ptr, last), last <= log
    PROVE  LET g == AddToChangeLog(h, log, version, new)
           IN  Consistent(g, new, RepointedLog(g, log), log)
<1>1. CASE InLog(h, log) = {}
  <2> DEFINE g == Append(h, [log |-> log, old |-> version, new |-> new])
  <2>1. Consistent(g, new, log, log)
    BY <1>1, AppendConsistent
  <2>2. RepointedLog(g, log) = log
    BY <2>1 DEF RepointedLog, Consistent
  <2>3. AddToChangeLog(h, log, version, new) = g
    BY <1>1 DEF AddToChangeLog
  <2>4. QED
    BY <2>1, <2>2, <2>3
<1>2. CASE InLog(h, log) # {}
  BY <1>2, ChangeConsistent
<1>3. QED
  BY <1>1, <1>2

\* A later log does not disturb a history that is not in it.
LEMMA ConsistentLater ==
    ASSUME NEW h, NEW version, NEW ptr, NEW last \in Nat, NEW log \in Nat,
           Consistent(h, version, ptr, last), last <= log
    PROVE  Consistent(h, version, ptr, log)
  BY DEF Consistent

\* The row of an entity that has a record in the current log points at it.
LEMMA PointsAtCurrent ==
    ASSUME NEW h, NEW version, NEW ptr, NEW last \in Nat, NEW log \in Nat,
           Consistent(h, version, ptr, last), last <= log, InLog(h, log) # {}
    PROVE  ptr = log
<1>1. Len(h) \in InLog(h, log)
  BY RecordIsLast
<1>2. Len(h) # 0 /\ h[Len(h)].log = log
  BY <1>1 DEF InLog
<1>3. QED
  BY <1>2 DEF Consistent, LatestLog

-----------------------------------------------------------------------------
(***************************************************************************)
(* Types                                                                   *)
(***************************************************************************)
\* The latest log of a history is a log or NoLog.
LEMMA LatestLogType ==
    ASSUME NEW h \in Seq(LogRecord)
    PROVE  LatestLog(h) \in Nat
<1>1. CASE h = << >>
  BY <1>1 DEF LatestLog, NoLog
<1>2. CASE h # << >>
  <2>1. Len(h) \in 1 .. Len(h)
    BY <1>2, EmptySeq, LenProperties
  <2>2. h[Len(h)] \in LogRecord
    BY <2>1, ElementOfSeq
  <2>3. QED
    BY <1>2, <2>2 DEF LatestLog, LogRecord
<1>3. QED
  BY <1>1, <1>2

\* _add_to_existing_draft_change_log leaves a history of records.
LEMMA AddToChangeLogType ==
    ASSUME NEW h \in Seq(LogRecord), NEW log \in Nat, NEW old \in Nat, NEW new \in Nat
    PROVE  AddToChangeLog(h, log, old, new) \in Seq(LogRecord)
<1>1. CASE InLog(h, log) = {}
  BY <1>1, AppendProperties DEF AddToChangeLog, LogRecord
<1>2. CASE InLog(h, log) # {}
  <2>1. PICK i \in 1 .. Len(h) : i = (CHOOSE k \in InLog(h, log) : TRUE)
    BY <1>2 DEF InLog
  <2>2. h[i] \in LogRecord /\ i \in Nat /\ Len(h) \in Nat
    BY ElementOfSeq, LenProperties
  <2>3. [h EXCEPT ![i] = [log |-> log, old |-> h[i].old, new |-> new]] \in Seq(LogRecord)
    BY <2>2, ExceptSeq DEF LogRecord
  <2>4. RemoveAt(h, i) \in Seq(LogRecord)
    <3>1. \A j \in 1 .. Len(h) : h[j] \in LogRecord
      BY ElementOfSeq
    <3>2. SubSeq(h, 1, i - 1) \in Seq(LogRecord)
      BY <2>2, <3>1, SubSeqProperties
    <3>3. SubSeq(h, i + 1, Len(h)) \in Seq(LogRecord)
      BY <2>2, <3>1, SubSeqProperties
    <3>4. QED
      BY <3>2, <3>3, ConcatProperties DEF RemoveAt
  <2>5. QED
    BY <1>2, <2>1, <2>3, <2>4 DEF AddToChangeLog
<1>3. QED
  BY <1>1, <1>2

\* Repoint leaves the branch at its target.
LEMMA RepointTables ==
    ASSUME NEW br, NEW log \in Nat, NEW target \in [Entities -> Nat], Tables(br)
    PROVE  Tables(Repoint(br, log, target)) /\ Repoint(br, log, target).version = target
<1> DEFINE g(e) == AddToChangeLog(br.records[e], log, br.version[e], target[e])
<1>1. \A e \in Entities : g(e) \in Seq(LogRecord)
  BY AddToChangeLogType DEF Tables
<1>2. \A e \in Entities : RepointedLog(g(e), log) \in Nat
  BY <1>1, LatestLogType DEF RepointedLog
<1> HIDE DEF g
<1>3. QED
  BY <1>1, <1>2 DEF Tables, Repoint, g

\* Side effects leave it where it is.
LEMMA SideEffectsTables ==
    ASSUME NEW deps, NEW br, NEW log \in Nat, Tables(br)
    PROVE  Tables(WithSideEffects(deps, br, log)) /\ WithSideEffects(deps, br, log).version = br.version
<1> DEFINE r(e) == [log |-> log, old |-> br.version[e], new |-> br.version[e]]
<1>1. \A e \in Entities : Append(br.records[e], r(e)) \in Seq(LogRecord)
  BY AppendProperties DEF Tables, LogRecord
<1>2. Tables(WithSideEffectRecords(deps, br, log))
      /\ WithSideEffectRecords(deps, br, log).version = br.version
  BY <1>1 DEF Tables, WithSideEffectRecords
<1>3. QED
  BY <1>2 DEF Tables, WithSideEffects, WithDigests

\* The rows publish_from_drafts writes have their types.
LEMMA RecordPublishTables ==
    ASSUME NEW br, NEW log \in Nat, NEW P, Tables(br), Tables(draft)
    PROVE  Tables(RecordPublish(br, log, P))
<1> DEFINE r(e) == [log |-> log, old |-> br.version[e], new |-> draft.version[e]]
<1>1. \A e \in Entities : Append(br.records[e], r(e)) \in Seq(LogRecord)
  BY AppendProperties DEF Tables, LogRecord
<1>2. QED
  BY <1>1 DEF Tables, RecordPublish

\* A change of drafts, in a log of its own or in the open one, ends at its target.
LEMMA ChangeDraftsTables ==
    ASSUME TypeOK, NEW target \in [Entities -> Nat], ChangeDrafts(target)
    PROVE  /\ Tables(draft')
           /\ draft'.version = target
           /\ lastDraftLog' \in Nat
           /\ lastDraftLog <= lastDraftLog'
<1>1. Tables(draft) /\ lastDraftLog \in Nat
  BY DEF TypeOK, BranchTypeOK, Tables
<1>2. CASE target = draft.version /\ UNCHANGED <<draft, lastDraftLog>>
  BY <1>1, <1>2
<1>3. CASE /\ openLogs # << >>
           /\ draft' = Repoint(draft, openLogs[Len(openLogs)], target)
           /\ UNCHANGED lastDraftLog
  <2>1. openLogs[Len(openLogs)] \in Nat
    <3>1. Len(openLogs) \in 1 .. Len(openLogs) /\ openLogs \in Seq(1 .. lastDraftLog)
      BY <1>3, EmptySeq, LenProperties DEF TypeOK
    <3>2. openLogs[Len(openLogs)] \in 1 .. lastDraftLog
      BY <3>1, ElementOfSeq
    <3>3. QED
      BY <3>2
  <2>2. PICK log \in Nat : log = openLogs[Len(openLogs)]
    BY <2>1
  <2>3. Tables(Repoint(draft, log, target)) /\ Repoint(draft, log, target).version = target
    BY <1>1, RepointTables
  <2>4. QED
    BY <1>1, <1>3, <2>2, <2>3
<1>4. CASE /\ lastDraftLog' = lastDraftLog + 1
           /\ draft' = WithSideEffects(dependencies', Repoint(draft, lastDraftLog + 1, target),
                                       lastDraftLog + 1)
  <2>1. lastDraftLog + 1 \in Nat
    BY <1>1
  <2>2. /\ Tables(Repoint(draft, lastDraftLog + 1, target))
        /\ Repoint(draft, lastDraftLog + 1, target).version = target
    BY <1>1, <2>1, RepointTables
  <2>3. QED
    BY <1>1, <1>4, <2>1, <2>2, SideEffectsTables
<1>5. QED
  BY <1>2, <1>3, <1>4 DEF ChangeDrafts

\* Versions are never deleted, so a pointer to one stays good when a version is
\* added to some entity.
LEMMA VersionsGrow ==
    ASSUME TypeOK, NEW e \in Entities, NEW D \in SUBSET Entities, NEW x \in Entities,
           dependencies' = [dependencies EXCEPT ![e] = Append(@, D)]
    PROVE  /\ DOMAIN dependencies[x] = 1 .. Len(dependencies[x])
           /\ DOMAIN dependencies[x] \subseteq DOMAIN dependencies'[x]
           /\ x = e => Len(dependencies[e]) + 1 \in DOMAIN dependencies'[e]
<1>1. dependencies \in [Entities -> Seq(SUBSET Entities)]
  BY DEF TypeOK
<1>2. \A y \in Entities : /\ Len(dependencies[y]) \in Nat
                          /\ DOMAIN dependencies[y] = 1 .. Len(dependencies[y])
  BY <1>1, LenProperties
<1>3. Append(dependencies[e], D) \in Seq(SUBSET Entities)
      /\ Len(Append(dependencies[e], D)) = Len(dependencies[e]) + 1
  BY <1>1, AppendProperties
<1>4. DOMAIN Append(dependencies[e], D) = 1 .. Len(dependencies[e]) + 1
  BY <1>3, LenProperties
<1>5. dependencies'[x] = IF x = e THEN Append(dependencies[e], D) ELSE dependencies[x]
  BY <1>1
<1>6. CASE x = e
  BY <1>2, <1>4, <1>5, <1>6
<1>7. CASE x # e
  BY <1>2, <1>5, <1>7
<1>8. QED
  BY <1>6, <1>7

-----------------------------------------------------------------------------
(***************************************************************************)
(* Type correctness                                                        *)
(***************************************************************************)
\* TypeOK and a version to go to: what every draft-changing call has in common.
LEMMA ChangeDraftsType ==
    ASSUME TypeOK, NEW target \in [Entities -> Nat], ChangeDrafts(target),
           dependencies' \in [Entities -> Seq(SUBSET Entities)],
           \A e \in Entities : \A v \in DOMAIN dependencies'[e] :
              \A d \in dependencies'[e][v] : Level[d] < Level[e],
           \A e \in Entities : target[e] \in {None} \cup DOMAIN dependencies'[e],
           \A e \in Entities : DOMAIN dependencies[e] \subseteq DOMAIN dependencies'[e],
           UNCHANGED <<published, lastPublishLog, openLogs>>
    PROVE  TypeOK'
<1>1. /\ Tables(draft')
      /\ draft'.version = target
      /\ lastDraftLog' \in Nat
      /\ lastDraftLog <= lastDraftLog'
  BY ChangeDraftsTables
<1>2. BranchTypeOK(draft)'
  BY <1>1 DEF BranchTypeOK, Tables
<1>3. BranchTypeOK(published)'
  BY DEF TypeOK, BranchTypeOK
<1>4. openLogs' \in Seq(1 .. lastDraftLog')
  <2>1. openLogs \in Seq(1 .. lastDraftLog) /\ 1 .. lastDraftLog \subseteq 1 .. lastDraftLog'
    BY <1>1 DEF TypeOK
  <2>2. QED
    BY <2>1, SeqMonotonic
<1>5. QED
  BY <1>1, <1>2, <1>3, <1>4 DEF TypeOK

\* No call leaves a branch pointing at a version that its entity does not have.
LEMMA NextKeepsType ==
    ASSUME TypeOK, [Next]_vars
    PROVE  TypeOK'
<1> USE DEF None
<1>0. /\ dependencies \in [Entities -> Seq(SUBSET Entities)]
      /\ draft.version \in [Entities -> Nat]
      /\ published.version \in [Entities -> Nat]
      /\ \A e \in Entities : Len(dependencies[e]) \in Nat
                            /\ DOMAIN dependencies[e] = 1 .. Len(dependencies[e])
  BY LenProperties DEF TypeOK, BranchTypeOK
<1>1. ASSUME NEW e \in Entities,
             NEW D \in SUBSET {d \in Entities : Level[d] < Level[e]},
             CreateVersion(e, D)
      PROVE  TypeOK'
  <2> DEFINE target == [draft.version EXCEPT ![e] = Len(dependencies[e]) + 1]
  <2>1. /\ ChangeDrafts(target)
        /\ dependencies' = [dependencies EXCEPT ![e] = Append(@, D)]
        /\ UNCHANGED <<published, lastPublishLog, openLogs>>
    BY <1>1 DEF CreateVersion
  <2>2. target \in [Entities -> Nat]
    BY <1>0
  <2>3. Append(dependencies[e], D) \in Seq(SUBSET Entities)
    BY <1>0, AppendProperties
  <2>4. dependencies' \in [Entities -> Seq(SUBSET Entities)]
    BY <2>1, <2>3, <1>0
  <2>5. \A x \in Entities : \A v \in DOMAIN dependencies'[x] :
           \A d \in dependencies'[x][v] : Level[d] < Level[x]
    <3> SUFFICES ASSUME NEW x \in Entities, NEW v \in DOMAIN dependencies'[x],
                        NEW d \in dependencies'[x][v]
                 PROVE  Level[d] < Level[x]
      OBVIOUS
    <3>1. CASE x # e
      BY <3>1, <2>1, <1>0 DEF TypeOK
    <3>2. CASE x = e /\ v \in 1 .. Len(dependencies[e])
      <4>1. dependencies'[x][v] = dependencies[e][v]
        BY <3>2, <2>1, <1>0, AppendProperties
      <4>2. QED
        BY <4>1, <3>2, <1>0 DEF TypeOK
    <3>3. CASE x = e /\ v = Len(dependencies[e]) + 1
      <4>1. dependencies'[x][v] = D
        BY <3>3, <2>1, <1>0, AppendProperties
      <4>2. QED
        BY <4>1, <3>3
    <3>4. x = e => v \in 1 .. Len(dependencies[e]) + 1
      <4>1. Len(Append(dependencies[e], D)) = Len(dependencies[e]) + 1
        BY <1>0, AppendProperties
      <4>2. DOMAIN Append(dependencies[e], D) = 1 .. Len(dependencies[e]) + 1
        BY <4>1, <2>3, LenProperties
      <4>3. QED
        BY <4>2, <2>1, <1>0
    <3>5. QED
      BY <3>1, <3>2, <3>3, <3>4, <1>0
  <2>6. \A x \in Entities : /\ DOMAIN dependencies[x] \subseteq DOMAIN dependencies'[x]
                            /\ x = e => Len(dependencies[e]) + 1 \in DOMAIN dependencies'[e]
    BY <2>1, VersionsGrow
  <2>7. \A x \in Entities : target[x] \in {None} \cup DOMAIN dependencies'[x]
    BY <2>6, <1>0 DEF TypeOK, BranchTypeOK
  <2> HIDE DEF target
  <2>8. QED
    BY <2>1, <2>2, <2>4, <2>5, <2>6, <2>7, ChangeDraftsType
<1>2. ASSUME NEW e \in Entities, NEW v \in 0 .. MaxVersions, SetDraftVersion(e, v)
      PROVE  TypeOK'
  <2> DEFINE target == [draft.version EXCEPT ![e] = v]
  <2>1. target \in [Entities -> Nat]
    BY <1>0, BoundsAssumption
  <2>2. \A x \in Entities : target[x] \in {None} \cup DOMAIN dependencies[x]
    BY <1>2, <1>0 DEF SetDraftVersion, TypeOK, BranchTypeOK
  <2>3. /\ ChangeDrafts(target)
        /\ UNCHANGED <<dependencies, published, lastPublishLog, openLogs>>
    BY <1>2 DEF SetDraftVersion
  <2> HIDE DEF target
  <2>4. QED
    BY <2>1, <2>2, <2>3, ChangeDraftsType DEF TypeOK
<1>3. CASE ResetDraftsToPublished
  <2>1. /\ ChangeDrafts(published.version)
        /\ UNCHANGED <<dependencies, published, lastPublishLog, openLogs>>
    BY <1>3 DEF ResetDraftsToPublished
  <2>2. \A x \in Entities : published.version[x] \in {None} \cup DOMAIN dependencies[x]
    BY DEF TypeOK, BranchTypeOK
  <2>3. QED
    BY <1>0, <2>1, <2>2, ChangeDraftsType DEF TypeOK
<1>4. CASE BeginBulk
  <2>1. /\ openLogs \in Seq(1 .. lastDraftLog + 1)
        /\ lastDraftLog + 1 \in 1 .. lastDraftLog + 1
    <3>1. 1 .. lastDraftLog \subseteq 1 .. lastDraftLog + 1
      BY DEF TypeOK
    <3>2. QED
      BY <3>1, SeqMonotonic DEF TypeOK
  <2>2. openLogs' \in Seq(1 .. lastDraftLog')
    BY <1>4, <2>1, AppendProperties DEF BeginBulk
  <2>3. QED
    BY <1>4, <2>2 DEF BeginBulk, TypeOK, BranchTypeOK
<1>5. CASE EndBulk
  <2>1. Len(openLogs) \in 1 .. Len(openLogs) /\ Len(openLogs) \in Nat
    BY <1>5, EmptySeq, LenProperties DEF EndBulk, TypeOK
  <2>2. PICK log \in Nat : log = openLogs[Len(openLogs)]
    <3>1. openLogs[Len(openLogs)] \in 1 .. lastDraftLog
      BY <2>1, ElementOfSeq DEF TypeOK
    <3>2. QED
      BY <3>1
  <2>3. openLogs' \in Seq(1 .. lastDraftLog')
    <3>1. \A i \in 1 .. Len(openLogs) - 1 : openLogs[i] \in 1 .. lastDraftLog
      BY <2>1, ElementOfSeq DEF TypeOK
    <3>2. SubSeq(openLogs, 1, Len(openLogs) - 1) \in Seq(1 .. lastDraftLog)
      BY <2>1, <3>1, SubSeqProperties
    <3>3. QED
      BY <1>5, <3>2 DEF EndBulk
  <2>4. Tables(draft)
    BY DEF TypeOK, BranchTypeOK, Tables
  <2>5. Tables(WithSideEffects(dependencies, draft, log))
        /\ WithSideEffects(dependencies, draft, log).version = draft.version
    BY <2>4, SideEffectsTables
  <2>6. BranchTypeOK(draft)'
    BY <1>5, <2>2, <2>5 DEF EndBulk, TypeOK, BranchTypeOK, Tables
  <2>7. QED
    BY <1>5, <2>3, <2>6 DEF EndBulk, TypeOK, BranchTypeOK
<1>6. ASSUME NEW S, NEW withDependencies, NEW filtered,
             PublishFromDrafts(S, withDependencies, filtered)
      PROVE  TypeOK'
  <2> DEFINE log == lastPublishLog + 1
             P   == DraftsToPublish(S, withDependencies, filtered)
             br  == RecordPublish(published, log, P)
  <2>1. Tables(draft) /\ Tables(published) /\ log \in Nat
    BY DEF TypeOK, BranchTypeOK, Tables
  <2>2. Tables(br)
    BY <2>1, RecordPublishTables
  <2>3. \A e \in Entities : br.version[e] \in {None} \cup DOMAIN dependencies[e]
    BY DEF RecordPublish, TypeOK, BranchTypeOK
  <2>4. /\ published' = WithSideEffects(dependencies, br, log)
        /\ lastPublishLog' = log
        /\ UNCHANGED <<dependencies, draft, lastDraftLog, openLogs>>
    BY <1>6 DEF PublishFromDrafts
  <2> HIDE DEF br, P
  <2>5. Tables(published') /\ published'.version = br.version
    BY <2>1, <2>2, <2>4, SideEffectsTables
  <2>6. BranchTypeOK(published)'
    BY <2>3, <2>4, <2>5 DEF BranchTypeOK, Tables
  <2>7. QED
    BY <2>1, <2>4, <2>6 DEF TypeOK, BranchTypeOK
<1>7. CASE UNCHANGED vars
  BY <1>7 DEF vars, TypeOK, BranchTypeOK
<1>8. QED
  BY <1>1, <1>2, <1>3, <1>4, <1>5, <1>6, <1>7 DEF Next, PublishAllDrafts

\* The initial tables are typed.
LEMMA InitIsTyped == Init => TypeOK
<1> SUFFICES ASSUME Init PROVE TypeOK
  OBVIOUS
<1>1. Tables(EmptyBranch) /\ \A e \in Entities : EmptyBranch.version[e] = None
  BY EmptySeq DEF Tables, EmptyBranch, None, NoLog
<1>2. dependencies \in [Entities -> Seq(SUBSET Entities)]
      /\ \A e \in Entities : DOMAIN dependencies[e] = {}
  BY EmptySeq DEF Init
<1>3. openLogs \in Seq(1 .. lastDraftLog)
  BY EmptySeq DEF Init
<1>4. QED
  BY <1>1, <1>2, <1>3 DEF Init, TypeOK, BranchTypeOK, Tables

\* Type correctness, for every set of entities, ranking and bound, nested bulk
\* contexts included: no call leaves a branch pointing at a version that its
\* entity does not have.
THEOREM TypeCorrect == Spec => []TypeOK
<1>1. TypeOK /\ [Next]_vars => TypeOK'
  BY NextKeepsType
<1>2. QED
  BY <1>1, InitIsTyped, PTL DEF Spec

-----------------------------------------------------------------------------
(***************************************************************************)
(* Consistent histories                                                    *)
(***************************************************************************)
\* set_draft_version and reset_drafts_to_published keep every entity's history
\* consistent in a log that is the last one.
LEMMA RepointSound ==
    ASSUME NEW br, NEW last \in Nat, NEW log \in Nat \ {0}, NEW target \in [Entities -> Nat],
           Tables(br), Sound(br, last), last <= log
    PROVE  Sound(Repoint(br, log, target), log)
<1> DEFINE after == Repoint(br, log, target)
<1> SUFFICES ASSUME NEW e \in Entities
             PROVE  Consistent(after.records[e], after.version[e], after.logRecord[e], log)
  BY DEF Sound
<1> DEFINE h == br.records[e]
           g == AddToChangeLog(h, log, br.version[e], target[e])
<1>1. Consistent(h, br.version[e], br.logRecord[e], last) /\ br.version[e] \in Nat
  BY DEF Sound, Tables
<1>2. CASE target[e] = br.version[e]
  <2>1. Consistent(h, br.version[e], br.logRecord[e], log)
    BY <1>1, ConsistentLater
  <2>2. after.records[e] = h /\ after.version[e] = br.version[e]
        /\ after.logRecord[e] = br.logRecord[e]
    BY <1>2 DEF Repoint
  <2>3. QED
    BY <2>1, <2>2
<1>3. CASE target[e] # br.version[e]
  <2>1. Consistent(g, target[e], RepointedLog(g, log), log)
    BY <1>1, AddConsistent
  <2>2. after.records[e] = g /\ after.version[e] = target[e]
        /\ after.logRecord[e] = RepointedLog(g, log)
    BY <1>3 DEF Repoint
  <2>3. QED
    BY <2>1, <2>2
<1>4. QED
  BY <1>2, <1>3

\* _create_side_effects_for_change_log does too.
LEMMA SideEffectsSound ==
    ASSUME NEW deps, NEW br, NEW last \in Nat, NEW log \in Nat \ {0},
           Tables(br), Sound(br, last), last <= log
    PROVE  Sound(WithSideEffects(deps, br, log), log)
<1> DEFINE after == WithSideEffects(deps, br, log)
           affected == AffectedRows(deps, br, log)
<1> SUFFICES ASSUME NEW e \in Entities
             PROVE  Consistent(after.records[e], after.version[e], after.logRecord[e], log)
  BY DEF Sound
<1> DEFINE h == br.records[e]
           v == br.version[e]
           g == Append(h, [log |-> log, old |-> v, new |-> v])
<1>1. Consistent(h, v, br.logRecord[e], last) /\ v \in Nat
  BY DEF Sound, Tables
<1>2. Consistent(h, v, br.logRecord[e], log)
  BY <1>1, ConsistentLater
<1>3. /\ after.version[e] = v
      /\ after.logRecord[e] = IF e \in affected THEN log ELSE br.logRecord[e]
      /\ after.records[e] = IF e \in affected /\ InLog(h, log) = {} THEN g ELSE h
  BY DEF WithSideEffects, WithDigests, WithSideEffectRecords
<1>4. CASE e \notin affected
  BY <1>2, <1>3, <1>4
<1>5. CASE e \in affected /\ InLog(h, log) = {}
  <2>1. Consistent(g, v, log, log)
    BY <1>1, <1>5, AppendConsistent
  <2>2. QED
    BY <1>3, <1>5, <2>1
<1>6. CASE e \in affected /\ InLog(h, log) # {}
  <2>1. br.logRecord[e] = log
    BY <1>1, <1>6, PointsAtCurrent
  <2>2. QED
    BY <1>2, <1>3, <1>6, <2>1
<1>7. QED
  BY <1>4, <1>5, <1>6

\* And so does publishing, whose log is always a new one.
LEMMA RecordPublishSound ==
    ASSUME NEW br, NEW last \in Nat, NEW P, Tables(br), Tables(draft), Sound(br, last)
    PROVE  Sound(RecordPublish(br, last + 1, P), last + 1)
<1> DEFINE log == last + 1
           after == RecordPublish(br, log, P)
<1> SUFFICES ASSUME NEW e \in Entities
             PROVE  Consistent(after.records[e], after.version[e], after.logRecord[e], log)
  BY DEF Sound
<1> DEFINE h == br.records[e]
           new == draft.version[e]
           g == Append(h, [log |-> log, old |-> br.version[e], new |-> new])
<1>1. Consistent(h, br.version[e], br.logRecord[e], last) /\ br.version[e] \in Nat /\ new \in Nat
  BY DEF Sound, Tables
<1>2. CASE e \notin P
  <2>1. Consistent(h, br.version[e], br.logRecord[e], log)
    BY <1>1, ConsistentLater
  <2>2. QED
    BY <1>2, <2>1 DEF RecordPublish
<1>3. CASE e \in P
  <2>1. InLog(h, log) = {}
    BY <1>1 DEF Consistent, InLog
  <2>2. Consistent(g, new, log, log)
    BY <1>1, <2>1, AppendConsistent
  <2>3. QED
    BY <1>3, <2>2 DEF RecordPublish
<1>4. QED
  BY <1>2, <1>3

\* A sound branch replays.
LEMMA SoundReplays ==
    ASSUME NEW br, NEW last, Sound(br, last)
    PROVE  HistoryReplaysToBranch(br)
  BY DEF Sound, Consistent, HistoryReplaysToBranch

-----------------------------------------------------------------------------
(***************************************************************************)
(* The inductive invariant                                                 *)
(***************************************************************************)
\* HistoryReplaysToBranch is not inductive: nothing in it keeps the records of
\* the log being written at the ends of the histories.  Sound does, as long as
\* that log is the last one made, which is so when bulk contexts do not nest.
WritesLastLog == openLogs = << >> \/ (openLogs = <<lastDraftLog>> /\ lastDraftLog # 0)

IInv == Sound(draft, lastDraftLog) /\ WritesLastLog

\* The log that publish_from_drafts writes is always a new one.
PublishedIInv == Sound(published, lastPublishLog)

\* The calls that change drafts, in the open log or in one of their own.
LEMMA ChangeDraftsSound ==
    ASSUME TypeOK, IInv, NEW target \in [Entities -> Nat], ChangeDrafts(target),
           UNCHANGED <<published, lastPublishLog, openLogs>>
    PROVE  IInv'
<1>1. Tables(draft) /\ lastDraftLog \in Nat
  BY DEF TypeOK, BranchTypeOK, Tables
<1>2. Sound(draft', lastDraftLog') /\ WritesLastLog'
  <2>1. CASE UNCHANGED <<draft, lastDraftLog>>
    BY <2>1 DEF IInv, WritesLastLog
  <2>2. CASE /\ openLogs # << >>
             /\ draft' = Repoint(draft, openLogs[Len(openLogs)], target)
             /\ UNCHANGED lastDraftLog
    <3>1. openLogs = <<lastDraftLog>> /\ lastDraftLog # 0
      BY <2>2 DEF IInv, WritesLastLog
    <3>2. draft' = Repoint(draft, lastDraftLog, target)
      BY <2>2, <3>1
    <3>3. Sound(Repoint(draft, lastDraftLog, target), lastDraftLog)
      BY <1>1, <3>1, RepointSound DEF IInv
    <3>4. QED
      BY <2>2, <3>2, <3>3 DEF IInv, WritesLastLog
  <2>3. CASE /\ openLogs = << >>
             /\ lastDraftLog' = lastDraftLog + 1
             /\ draft' = WithSideEffects(dependencies', Repoint(draft, lastDraftLog + 1, target),
                                         lastDraftLog + 1)
    <3> DEFINE log == lastDraftLog + 1
               br  == Repoint(draft, log, target)
    <3>1. log \in Nat \ {0} /\ lastDraftLog <= log
      BY <1>1
    <3>2. Tables(br)
      BY <1>1, <3>1, RepointTables
    <3>3. Sound(br, log)
      BY <1>1, <3>1, RepointSound DEF IInv
    <3> HIDE DEF br
    <3>4. Sound(WithSideEffects(dependencies', br, log), log)
      <4> HIDE DEF log
      <4>1. log <= log
        BY <3>1
      <4>2. QED
        BY <3>1, <3>2, <3>3, <4>1, SideEffectsSound
    <3>5. QED
      BY <2>3, <3>4 DEF WritesLastLog, br
  <2>4. QED
    BY <2>1, <2>2, <2>3 DEF ChangeDrafts
<1>3. QED
  BY <1>2 DEF IInv

\* One bulk context is open at most.
NotNested == Len(openLogs) <= 1

\* No bulk context is open at first.
LEMMA InitIsNotNested == Init => NotNested
BY DEF Init, NotNested

\* No step opens one in another, when MaxNesting says so.
LEMMA NotNestedStep ==
    ASSUME MaxNesting <= 1
    PROVE  TypeOK /\ NotNested /\ [Next]_vars => NotNested'
<1>. SUFFICES ASSUME TypeOK, NotNested, [Next]_vars PROVE NotNested'
  OBVIOUS
<1>1. openLogs \in Seq(1 .. lastDraftLog) /\ Len(openLogs) \in Nat
  BY LenProperties DEF TypeOK
<1>2. CASE BeginBulk
  <2>1. Len(openLogs) = 0
    BY <1>1, <1>2, BoundsAssumption DEF BeginBulk
  <2>2. openLogs = << >>
    BY <1>1, <2>1
  <2>3. openLogs' = <<lastDraftLog + 1>>
    BY <1>2, <2>2 DEF BeginBulk
  <2>4. QED
    BY <2>3 DEF NotNested
<1>3. CASE EndBulk
  <2>1. Len(openLogs) = 1
    <3>1. openLogs # << >>
      BY <1>3 DEF EndBulk
    <3>2. Len(openLogs) # 0
      BY <1>1, <3>1, EmptySeq
    <3>3. PICK n \in Nat : n = Len(openLogs)
      BY <1>1
    <3>4. n <= 1
      BY <3>3 DEF NotNested
    <3>5. n = 1
      BY <3>2, <3>3, <3>4
    <3>6. QED
      BY <3>3, <3>5
  <2>2. openLogs' = SubSeq(openLogs, 1, 0)
    BY <1>3, <2>1 DEF EndBulk
  <2>3. Len(SubSeq(openLogs, 1, 0)) = 0
    BY SubSeqEmpty
  <2>4. QED
    BY <2>2, <2>3 DEF NotNested
<1>4. CASE openLogs' = openLogs
  BY <1>4 DEF NotNested
<1>5. QED
  BY <1>2, <1>3, <1>4 DEF Next, CreateVersion, SetDraftVersion, ResetDraftsToPublished,
                          PublishAllDrafts, PublishFromDrafts, vars

\* That is so when MaxNesting says so.
LEMMA NestingIsBounded ==
    ASSUME MaxNesting <= 1
    PROVE  Spec => []NotNested
BY InitIsNotNested, NotNestedStep, TypeCorrect, PTL DEF Spec

\* The histories of a new package are consistent.
LEMMA InitIsConsistent == Init => IInv
<1> SUFFICES ASSUME Init PROVE IInv
  OBVIOUS
<1>1. Sound(EmptyBranch, 0)
  BY EmptySeq DEF Sound, Consistent, EmptyBranch, IsChain, LatestLog, NoLog, None
<1>2. QED
  BY <1>1 DEF Init, IInv, WritesLastLog

\* Every step keeps those of the drafts so, unless it nests bulk contexts.
LEMMA ConsistentStep ==
    TypeOK /\ IInv /\ NotNested' /\ [Next]_vars => IInv'
<1> SUFFICES ASSUME TypeOK, IInv, NotNested', [Next]_vars PROVE IInv'
  OBVIOUS
<1>1. /\ dependencies \in [Entities -> Seq(SUBSET Entities)]
      /\ draft.version \in [Entities -> Nat]
      /\ published.version \in [Entities -> Nat]
      /\ \A e \in Entities : Len(dependencies[e]) \in Nat
      /\ Tables(draft) /\ Tables(published)
      /\ lastDraftLog \in Nat /\ lastPublishLog \in Nat
  BY LenProperties DEF TypeOK, BranchTypeOK, Tables
<1>2. ASSUME NEW e \in Entities,
             NEW D \in SUBSET {d \in Entities : Level[d] < Level[e]},
             CreateVersion(e, D)
      PROVE  IInv'
  <2> DEFINE target == [draft.version EXCEPT ![e] = Len(dependencies[e]) + 1]
  <2>1. target \in [Entities -> Nat]
    BY <1>1
  <2>2. ChangeDrafts(target) /\ UNCHANGED <<published, lastPublishLog, openLogs>>
    BY <1>2 DEF CreateVersion
  <2> HIDE DEF target
  <2>3. QED
    BY <2>1, <2>2, ChangeDraftsSound
<1>3. ASSUME NEW e \in Entities, NEW v \in 0 .. MaxVersions, SetDraftVersion(e, v)
      PROVE  IInv'
  <2> DEFINE target == [draft.version EXCEPT ![e] = v]
  <2>1. target \in [Entities -> Nat]
    BY <1>1, BoundsAssumption
  <2>2. ChangeDrafts(target) /\ UNCHANGED <<published, lastPublishLog, openLogs>>
    BY <1>3 DEF SetDraftVersion
  <2> HIDE DEF target
  <2>3. QED
    BY <2>1, <2>2, ChangeDraftsSound
<1>4. CASE ResetDraftsToPublished
  BY <1>1, <1>4, ChangeDraftsSound DEF ResetDraftsToPublished
<1>5. CASE BeginBulk
  <2>1. openLogs = << >>
    <3>1. Len(openLogs) < 1
      BY <1>5 DEF BeginBulk, TypeOK, NotNested
    <3>2. QED
      BY <3>1 DEF IInv, WritesLastLog
  <2>2. openLogs' = <<lastDraftLog'>> /\ lastDraftLog' = lastDraftLog + 1
    BY <1>5, <2>1 DEF BeginBulk
  <2>3. Sound(draft, lastDraftLog')
    BY <1>1, <2>2, ConsistentLater DEF IInv, Sound
  <2>4. WritesLastLog'
    BY <1>1, <2>2 DEF WritesLastLog
  <2>5. Sound(draft', lastDraftLog')
    BY <1>5, <2>3 DEF BeginBulk
  <2>6. QED
    BY <2>4, <2>5 DEF IInv
<1>6. CASE EndBulk
  <2>1. openLogs = <<lastDraftLog>> /\ lastDraftLog \in Nat \ {0} /\ lastDraftLog <= lastDraftLog
    BY <1>1, <1>6 DEF EndBulk, IInv, WritesLastLog
  <2>2. openLogs' = << >>
    BY <1>6, <2>1 DEF EndBulk
  <2>3. draft' = WithSideEffects(dependencies, draft, lastDraftLog)
    BY <1>6, <2>1 DEF EndBulk
  <2>4. Sound(draft', lastDraftLog)
    BY <1>1, <2>1, <2>3, SideEffectsSound DEF IInv
  <2>5. QED
    BY <1>6, <2>2, <2>4 DEF EndBulk, IInv, WritesLastLog
<1>7. ASSUME NEW S, NEW withDependencies, NEW filtered,
             PublishFromDrafts(S, withDependencies, filtered)
      PROVE  IInv'
  BY <1>7 DEF PublishFromDrafts, IInv, WritesLastLog
<1>8. CASE UNCHANGED vars
  BY <1>8 DEF vars, IInv, WritesLastLog
<1>9. QED
  BY <1>2, <1>3, <1>4, <1>5, <1>6, <1>7, <1>8 DEF Next, PublishAllDrafts

\* It holds as long as bulk contexts do not nest.
LEMMA ConsistentUntilNested == Spec /\ []NotNested => []IInv
BY InitIsConsistent, ConsistentStep, TypeCorrect, PTL DEF Spec

\* So it holds in every reachable state when contexts cannot nest.
THEOREM DraftHistoriesConsistent ==
    ASSUME MaxNesting <= 1
    PROVE  Spec => []IInv
BY NestingIsBounded, ConsistentUntilNested, PTL

\* Without nested bulk contexts the records of every entity's drafts replay to
\* its draft version, whatever was collapsed or cancelled on the way.
THEOREM DraftHistoriesReplay ==
    ASSUME MaxNesting <= 1
    PROVE  Spec => []DraftHistoryReplays
<1>1. IInv => DraftHistoryReplays
  BY SoundReplays DEF IInv, DraftHistoryReplays
<1>2. QED
  BY <1>1, DraftHistoriesConsistent, PTL

\* The histories of an empty published branch are consistent.
LEMMA InitIsPublishedConsistent == Init => PublishedIInv
<1> SUFFICES ASSUME Init PROVE PublishedIInv
  OBVIOUS
<1>1. Sound(EmptyBranch, 0)
  BY EmptySeq DEF Sound, Consistent, EmptyBranch, IsChain, LatestLog, NoLog, None
<1>2. QED
  BY <1>1 DEF Init, PublishedIInv

\* Every step keeps them so, nested bulk contexts included.
LEMMA PublishedConsistentStep ==
    TypeOK /\ PublishedIInv /\ [Next]_vars => PublishedIInv'
<1> SUFFICES ASSUME TypeOK, PublishedIInv, [Next]_vars PROVE PublishedIInv'
  OBVIOUS
<1>1. CASE UNCHANGED <<published, lastPublishLog>>
  BY <1>1 DEF PublishedIInv
<1>2. ASSUME NEW S, NEW withDependencies, NEW filtered,
             PublishFromDrafts(S, withDependencies, filtered)
      PROVE  PublishedIInv'
  <2>1. PICK P : P = DraftsToPublish(S, withDependencies, filtered)
    OBVIOUS
  <2>2. PICK log \in Nat \ {0} : log = lastPublishLog + 1 /\ log <= log
    BY DEF TypeOK
  <2>3. PICK br : br = RecordPublish(published, log, P)
    OBVIOUS
  <2>4. Tables(br)
    BY <2>3, RecordPublishTables DEF TypeOK, BranchTypeOK, Tables
  <2>5. Sound(br, log)
    <3>1. Tables(draft) /\ Tables(published) /\ lastPublishLog \in Nat
      BY DEF TypeOK, BranchTypeOK, Tables
    <3>2. Sound(RecordPublish(published, lastPublishLog + 1, P), lastPublishLog + 1)
      BY <3>1, RecordPublishSound DEF PublishedIInv
    <3>3. QED
      BY <2>2, <2>3, <3>2
  <2>6. Sound(WithSideEffects(dependencies, br, log), log)
    BY <2>2, <2>4, <2>5, SideEffectsSound
  <2>7. QED
    BY <1>2, <2>1, <2>2, <2>3, <2>6 DEF PublishFromDrafts, PublishedIInv
<1>3. QED
  BY <1>1, <1>2 DEF Next, vars, CreateVersion, SetDraftVersion, ResetDraftsToPublished,
                    BeginBulk, EndBulk, PublishAllDrafts

\* The histories of the published branch are consistent, nested bulk contexts
\* included.
THEOREM PublishHistoriesConsistent == Spec => []PublishedIInv
BY InitIsPublishedConsistent, PublishedConsistentStep, TypeCorrect, PTL DEF Spec

\* The publish log replays to what is published, which is what
\* get_published_version_as_of relies on.
THEOREM PublishHistoriesReplay == Spec => []PublishHistoryReplays
<1>1. PublishedIInv => PublishHistoryReplays
  BY SoundReplays DEF PublishedIInv, PublishHistoryReplays
<1>2. QED
  BY <1>1, PublishHistoriesConsistent, PTL

-----------------------------------------------------------------------------
(***************************************************************************)
(* Publishing implements Releases: reading the log records of the          *)
(* published branch as of a PublishLog gives what was published then.      *)
(*                                                                         *)
(* A publish, and the side effects it has, only appends records of its own *)
(* log.  Records of earlier logs are left alone, so earlier releases read  *)
(* the same; and the record that decides the version as of the new log is  *)
(* the last one, which the published version agrees with.                  *)
(***************************************************************************)
\* The records of a history are in the order of their logs.
Ordered(h) == \A i, j \in 1 .. Len(h) : i < j => h[i].log < h[j].log

PublishedOrdered == \A e \in Entities : Ordered(published.records[e])

-----------------------------------------------------------------------------
(***************************************************************************)
(* Reading one history                                                     *)
(***************************************************************************)
\* As of a log that no record is later than, an entity has its last version.
LEMMA AsOfCurrent ==
    ASSUME NEW h \in Seq(LogRecord), Ordered(h), NEW log \in Nat,
           \A i \in 1 .. Len(h) : h[i].log <= log
    PROVE  VersionAsOf(h, log) = IF h = << >> THEN None ELSE h[Len(h)].new
<1> DEFINE upTo == {h[i] : i \in {j \in 1 .. Len(h) : h[j].log <= log}}
           last == CHOOSE r \in upTo : \A q \in upTo : q.log <= r.log
<1>1. Len(h) \in Nat /\ \A i \in 1 .. Len(h) : h[i].log \in Nat
  <2>1. Len(h) \in Nat /\ \A i \in 1 .. Len(h) : h[i] \in LogRecord
    BY LenProperties, ElementOfSeq
  <2>2. QED
    BY <2>1 DEF LogRecord
<1>2. upTo = {h[i] : i \in 1 .. Len(h)}
  OBVIOUS
<1>3. CASE h = << >>
  <2>1. Len(h) = 0
    BY <1>3, EmptySeq
  <2>2. upTo = {}
    BY <1>2, <2>1
  <2>3. QED
    BY <1>3, <2>2 DEF VersionAsOf
<1>4. CASE h # << >>
  <2>1. Len(h) \in 1 .. Len(h)
    BY <1>1, <1>4, EmptySeq
  <2>2. h[Len(h)] \in upTo
    BY <1>2, <2>1
  <2>3. \A q \in upTo : q.log <= h[Len(h)].log
    <3> SUFFICES ASSUME NEW i \in 1 .. Len(h)
                 PROVE  h[i].log <= h[Len(h)].log
      BY <1>2
    <3>1. i < Len(h) \/ i = Len(h)
      BY <1>1
    <3>2. QED
      BY <1>1, <2>1, <3>1 DEF Ordered
  <2>4. last \in upTo /\ \A q \in upTo : q.log <= last.log
    BY <2>2, <2>3
  <2>5. PICK i \in 1 .. Len(h) : last = h[i]
    BY <1>2, <2>4
  <2>6. ~ (i < Len(h))
    <3>1. h[Len(h)].log <= h[i].log
      BY <2>2, <2>4, <2>5
    <3>2. QED
      BY <1>1, <2>1, <3>1 DEF Ordered
  <2>7. last = h[Len(h)]
    BY <1>1, <2>5, <2>6
  <2>8. VersionAsOf(h, log) = last.new
    BY <2>2 DEF VersionAsOf
  <2>9. QED
    BY <1>4, <2>7, <2>8
<1>5. QED
  BY <1>3, <1>4

\* A record of a later log changes nothing as of an earlier one.
LEMMA AsOfEarlier ==
    ASSUME NEW h \in Seq(LogRecord), NEW r \in LogRecord, NEW log \in Nat, log < r.log
    PROVE  VersionAsOf(Append(h, r), log) = VersionAsOf(h, log)
<1> DEFINE g == Append(h, r)
           upTo(s) == {s[i] : i \in {j \in 1 .. Len(s) : s[j].log <= log}}
<1>1. /\ Len(h) \in Nat /\ Len(g) = Len(h) + 1 /\ g[Len(h) + 1] = r
      /\ \A i \in 1 .. Len(h) : g[i] = h[i]
  BY AppendProperties, LenProperties
<1>2. ~ (r.log <= log)
  BY DEF LogRecord
<1> HIDE DEF g
<1>3. {j \in 1 .. Len(g) : g[j].log <= log} = {j \in 1 .. Len(h) : h[j].log <= log}
  BY <1>1, <1>2
<1>4. upTo(g) = upTo(h)
  BY <1>1, <1>3
<1>5. ASSUME NEW s
      PROVE  VersionAsOf(s, log) = IF upTo(s) = {} THEN None
                 ELSE (CHOOSE q \in upTo(s) : \A p \in upTo(s) : p.log <= q.log).new
  BY DEF VersionAsOf
<1> HIDE DEF upTo
<1>6. VersionAsOf(g, log) = VersionAsOf(h, log)
  BY <1>4, <1>5
<1>7. QED
  BY <1>6 DEF g

-----------------------------------------------------------------------------
(***************************************************************************)
(* What a publish does to the published branch                             *)
(***************************************************************************)
\* A publish appends to each history one record of its own log or nothing, and
\* sets the versions of some entities to those of their drafts.
LEMMA PublishAppends ==
    ASSUME TypeOK, NEW S, NEW withDependencies, NEW filtered,
           PublishFromDrafts(S, withDependencies, filtered)
    PROVE  /\ lastPublishLog' = lastPublishLog + 1
           /\ \A e \in Entities :
                 \/ published'.records[e] = published.records[e]
                 \/ \E r \in LogRecord :
                       /\ r.log = lastPublishLog'
                       /\ published'.records[e] = Append(published.records[e], r)
           /\ \E P \in SUBSET Entities :
                 published'.version = [e \in Entities |->
                     IF e \in P THEN draft.version[e] ELSE published.version[e]]
<1> DEFINE log == lastPublishLog + 1
           P   == DraftsToPublish(S, withDependencies, filtered)
           br  == RecordPublish(published, log, P)
<1>1. /\ lastPublishLog' = log /\ log \in Nat
      /\ published' = WithSideEffects(dependencies, br, log)
  BY DEF PublishFromDrafts, TypeOK
<1>2. /\ Tables(published) /\ draft.version \in [Entities -> Nat]
  BY DEF TypeOK, BranchTypeOK, Tables
<1>3. published'.version = br.version
  BY <1>1 DEF WithSideEffects, WithDigests, WithSideEffectRecords
<1>4. \E Q \in SUBSET Entities :
         published'.version = [e \in Entities |->
             IF e \in Q THEN draft.version[e] ELSE published.version[e]]
  <2>1. br.version = [e \in Entities |->
            IF e \in P \cap Entities THEN draft.version[e] ELSE published.version[e]]
    <3> HIDE DEF P
    <3>1. QED
      BY DEF RecordPublish
  <2>2. QED
    BY <1>3, <2>1
<1>5. ASSUME NEW e \in Entities
      PROVE  \/ published'.records[e] = published.records[e]
             \/ \E r \in LogRecord :
                   r.log = log /\ published'.records[e] = Append(published.records[e], r)
  <2> DEFINE h == published.records[e]
             r == [log |-> log, old |-> published.version[e], new |-> draft.version[e]]
             s == [log |-> log, old |-> br.version[e], new |-> br.version[e]]
  <2>1. h \in Seq(LogRecord) /\ r \in LogRecord /\ br.version[e] \in Nat
    <3> HIDE DEF P
    <3>1. QED
      BY <1>1, <1>2 DEF Tables, LogRecord, RecordPublish
  <2>2. s \in LogRecord
    BY <1>1, <2>1 DEF LogRecord
  <2>3. \/ published'.records[e] = br.records[e]
        \/ InLog(br.records[e], log) = {} /\ published'.records[e] = Append(br.records[e], s)
    <3> HIDE DEF br, log
    <3>1. QED
      BY <1>1 DEF WithSideEffects, WithDigests, WithSideEffectRecords
  <2>4. CASE e \notin P
    <3>1. br.records[e] = h
      BY <2>4 DEF RecordPublish
    <3>2. QED
      BY <2>2, <2>3, <3>1
  <2>5. CASE e \in P
    <3>1. br.records[e] = Append(h, r)
      BY <2>5 DEF RecordPublish
    <3>2. InLog(Append(h, r), log) # {}
      <4>1. /\ Len(h) + 1 \in 1 .. Len(Append(h, r))
            /\ Append(h, r)[Len(h) + 1].log = log
        BY <2>1, AppendProperties, LenProperties
      <4>2. QED
        BY <4>1 DEF InLog
    <3>3. QED
      BY <2>1, <2>3, <3>1, <3>2
  <2>6. QED
    BY <2>4, <2>5
<1>6. QED
  BY <1>1, <1>4, <1>5

\* So the records of every published history stay in the order of their logs.
LEMMA PublishedInOrder == Spec => []PublishedOrdered
<1>1. Init => PublishedOrdered
  BY EmptySeq DEF Init, PublishedOrdered, Ordered, EmptyBranch
<1>2. TypeOK /\ PublishedIInv /\ PublishedOrdered /\ [Next]_vars => PublishedOrdered'
  <2> SUFFICES ASSUME TypeOK, PublishedIInv, PublishedOrdered, [Next]_vars
               PROVE  PublishedOrdered'
    OBVIOUS
  <2>1. CASE UNCHANGED published
    BY <2>1 DEF PublishedOrdered
  <2>2. ASSUME NEW S, NEW withDependencies, NEW filtered,
               PublishFromDrafts(S, withDependencies, filtered),
               NEW e \in Entities
        PROVE  Ordered(published'.records[e])
    <3> DEFINE h == published.records[e]
    <3>1. /\ h \in Seq(LogRecord) /\ Ordered(h) /\ Len(h) \in Nat /\ lastPublishLog \in Nat
          /\ \A i \in 1 .. Len(h) : h[i].log \in 1 .. lastPublishLog
      BY LenProperties DEF PublishedIInv, Sound, Consistent, PublishedOrdered, TypeOK
    <3>2. CASE published'.records[e] = h
      BY <3>1, <3>2
    <3>3. ASSUME NEW r \in LogRecord, r.log = lastPublishLog + 1,
                 published'.records[e] = Append(h, r)
          PROVE  Ordered(Append(h, r))
      <4>1. /\ Len(Append(h, r)) = Len(h) + 1 /\ Append(h, r)[Len(h) + 1] = r
            /\ \A i \in 1 .. Len(h) : Append(h, r)[i] = h[i]
        BY <3>1, AppendProperties
      <4> SUFFICES ASSUME NEW i \in 1 .. Len(h) + 1, NEW j \in 1 .. Len(h) + 1, i < j
                   PROVE  Append(h, r)[i].log < Append(h, r)[j].log
        BY <4>1 DEF Ordered
      <4>2. i \in 1 .. Len(h)
        BY <3>1
      <4>3. CASE j = Len(h) + 1
        BY <3>1, <3>3, <4>1, <4>2, <4>3
      <4>4. CASE j # Len(h) + 1
        <5>1. j \in 1 .. Len(h)
          BY <3>1, <4>4
        <5>2. QED
          BY <3>1, <4>1, <4>2, <5>1 DEF Ordered
      <4>5. QED
        BY <4>3, <4>4
    <3>4. \/ published'.records[e] = h
          \/ \E r \in LogRecord :
                r.log = lastPublishLog + 1 /\ published'.records[e] = Append(h, r)
      BY <2>2, PublishAppends
    <3>5. QED
      BY <3>2, <3>3, <3>4
  <2>3. QED
    BY <2>1, <2>2 DEF Next, vars, CreateVersion, SetDraftVersion, ResetDraftsToPublished,
                      BeginBulk, EndBulk, PublishAllDrafts, PublishedOrdered
<1>3. QED
  BY <1>1, <1>2, TypeCorrect, PublishHistoriesConsistent, PTL DEF Spec

-----------------------------------------------------------------------------
(***************************************************************************)
(* The refinement                                                          *)
(***************************************************************************)
\* A publish leaves earlier releases as they read, and its own release reads as
\* what it published.
LEMMA PublishAppendsRelease ==
    ASSUME TypeOK, PublishedIInv, PublishedOrdered, PublishedIInv', PublishedOrdered',
           NEW S, NEW withDependencies, NEW filtered,
           PublishFromDrafts(S, withDependencies, filtered)
    PROVE  ReleasesRead' = Append(ReleasesRead, published'.version)
<1> DEFINE n == lastPublishLog
           release(log) == [e \in Entities |-> VersionAsOf(published.records[e], log)]
           releaseAfter(log) == [e \in Entities |-> VersionAsOf(published'.records[e], log)]
<1>1. n \in Nat /\ lastPublishLog' = n + 1
  BY PublishAppends DEF TypeOK
<1>2. ASSUME NEW log \in 1 .. n
      PROVE  releaseAfter(log) = release(log)
  <2> SUFFICES ASSUME NEW e \in Entities
               PROVE  VersionAsOf(published'.records[e], log) = VersionAsOf(published.records[e], log)
    OBVIOUS
  <2>1. published.records[e] \in Seq(LogRecord)
    BY DEF TypeOK, BranchTypeOK
  <2>2. CASE published'.records[e] = published.records[e]
    BY <2>2
  <2>3. ASSUME NEW r \in LogRecord, r.log = n + 1,
               published'.records[e] = Append(published.records[e], r)
        PROVE  VersionAsOf(published'.records[e], log) = VersionAsOf(published.records[e], log)
    <3>1. log \in Nat /\ log < r.log
      BY <1>1, <2>3
    <3>2. QED
      BY <2>1, <2>3, <3>1, AsOfEarlier
  <2>4. QED
    BY <1>1, <2>2, <2>3, PublishAppends
<1>3. releaseAfter(n + 1) = published'.version
  <2>1. ASSUME NEW e \in Entities
        PROVE  VersionAsOf(published'.records[e], n + 1) = published'.version[e]
    <3> DEFINE h == published'.records[e]
    <3>1. /\ h \in Seq(LogRecord) /\ Ordered(h)
          /\ \A i \in 1 .. Len(h) : h[i].log \in 1 .. n + 1
          /\ published'.version[e] = IF h = << >> THEN None ELSE h[Len(h)].new
      BY <1>1 DEF PublishedIInv, Sound, Consistent, PublishedOrdered
    <3>2. n + 1 \in Nat /\ \A i \in 1 .. Len(h) : h[i].log <= n + 1
      BY <1>1, <3>1
    <3> HIDE DEF h
    <3>3. VersionAsOf(h, n + 1) = IF h = << >> THEN None ELSE h[Len(h)].new
      BY <3>1, <3>2, AsOfCurrent
    <3>4. QED
      BY <3>1, <3>3 DEF h
  <2>2. published'.version = [e \in Entities |-> published'.version[e]]
    BY PublishAppends
  <2>3. QED
    BY <2>1, <2>2
<1>4. ReleasesRead = [log \in 1 .. n |-> release(log)]
      /\ ReleasesRead' = [log \in 1 .. n + 1 |-> releaseAfter(log)]
  BY <1>1 DEF ReleasesRead
<1> HIDE DEF release, releaseAfter
<1>5. Append(ReleasesRead, published'.version)
        = [log \in 1 .. n + 1 |-> IF log = n + 1 THEN published'.version ELSE release(log)]
  BY <1>1, <1>4
<1>6. QED
  BY <1>1, <1>2, <1>3, <1>4, <1>5

\* Publishing implements Releases: every call is an edit, a discard, a release or
\* nothing on the branches' versions, and get_published_version_as_of reads every
\* release back unchanged.
THEOREM PublishingImplementsReleases == Spec => ImplementsReleases
<1>1. Init => R!Init
  <2> SUFFICES ASSUME Init PROVE R!Init
    OBVIOUS
  <2>1. ReleasesRead = << >>
    BY DEF Init, ReleasesRead
  <2>2. draft.version = R!Nothing /\ published.version = R!Nothing
    BY DEF Init, EmptyBranch, R!Nothing, R!None, None
  <2>3. QED
    BY <2>1, <2>2 DEF R!Init
<1>2. TypeOK /\ PublishedIInv /\ PublishedOrdered /\ TypeOK' /\ PublishedIInv'
        /\ PublishedOrdered' /\ [Next]_vars => [R!Next]_(R!vars)
  <2> SUFFICES ASSUME TypeOK, PublishedIInv, PublishedOrdered,
                      TypeOK', PublishedIInv', PublishedOrdered', [Next]_vars
               PROVE  [R!Next]_(R!vars)
    OBVIOUS
  <2>1. /\ draft.version \in [Entities -> Nat] /\ draft'.version \in [Entities -> Nat]
        /\ published.version \in [Entities -> Nat]
    BY DEF TypeOK, BranchTypeOK
  <2>2. ASSUME NEW target, ChangeDrafts(target)
        PROVE  draft'.version = target
    <3>1. \A deps, br, log : WithSideEffects(deps, br, log).version = br.version
      BY DEF WithSideEffects, WithDigests, WithSideEffectRecords
    <3>2. \A br, log : Repoint(br, log, target).version = target
      BY DEF Repoint
    <3>3. QED
      BY <2>2, <3>1, <3>2 DEF ChangeDrafts
  <2>3. ASSUME UNCHANGED <<published, lastPublishLog>>
        PROVE  UNCHANGED <<published.version, ReleasesRead>>
    BY <2>3 DEF ReleasesRead
  <2>4. ASSUME NEW e \in Entities, NEW v, ChangeDrafts([draft.version EXCEPT ![e] = v]),
               UNCHANGED <<published, lastPublishLog>>
        PROVE  R!Edit
    <3>1. draft'.version = [draft.version EXCEPT ![e] = v]
      BY <2>2, <2>4
    <3>2. \A x \in Entities \ {e} : draft'.version[x] = draft.version[x]
      BY <2>1, <3>1
    <3>3. QED
      BY <2>1, <2>3, <2>4, <3>2 DEF R!Edit
  <2>5. ASSUME NEW e \in Entities, NEW D, CreateVersion(e, D)
        PROVE  R!Edit
    BY <2>4, <2>5 DEF CreateVersion
  <2>6. ASSUME NEW e \in Entities, NEW v, SetDraftVersion(e, v)
        PROVE  R!Edit
    BY <2>4, <2>6 DEF SetDraftVersion
  <2>7. CASE ResetDraftsToPublished
    BY <2>2, <2>3, <2>7 DEF ResetDraftsToPublished, R!Discard, R!Next
  <2>8. CASE BeginBulk
    BY <2>3, <2>8 DEF BeginBulk, R!vars
  <2>9. CASE EndBulk
    <3>1. draft'.version = draft.version
      BY <2>9 DEF EndBulk, WithSideEffects, WithDigests, WithSideEffectRecords
    <3>2. QED
      BY <2>3, <2>9, <3>1 DEF EndBulk, R!vars
  <2>10. ASSUME NEW S, NEW withDependencies, NEW filtered,
                PublishFromDrafts(S, withDependencies, filtered)
         PROVE  R!Release
    <3>1. ReleasesRead' = Append(ReleasesRead, published'.version)
      BY <2>10, PublishAppendsRelease
    <3>2. \E P \in SUBSET Entities :
             published'.version = [e \in Entities |->
                 IF e \in P THEN draft.version[e] ELSE published.version[e]]
      BY <2>10, PublishAppends
    <3>3. draft' = draft
      BY <2>10 DEF PublishFromDrafts
    <3>4. QED
      BY <3>1, <3>2, <3>3 DEF R!Release
  <2>11. CASE UNCHANGED vars
    BY <2>3, <2>11 DEF vars, R!vars
  <2>12. QED
    BY <2>5, <2>6, <2>7, <2>8, <2>9, <2>10, <2>11 DEF Next, PublishAllDrafts, R!Next
<1>3. QED
  BY <1>1, <1>2, TypeCorrect, PublishHistoriesConsistent, PublishedInOrder, PTL
     DEF Spec, R!Spec, ImplementsReleases

-----------------------------------------------------------------------------
(***************************************************************************)
(* What change logs tell of the containers above a change. The PublishLog  *)
(* misses nothing, the DraftChangeLog is exact, and publishing with        *)
(* dependencies covers them.                                               *)
(*                                                                         *)
(* All of them come down to two facts. A log, once its side effects have   *)
(* been made, is closed: whatever depends on something in it is in it. And *)
(* when two branches agree on everything below an entity on one of them,   *)
(* they agree on what is below it.                                         *)
(***************************************************************************)
\* LiveTree for given dependencies.
TreeOf(deps, br, e) ==
    {<<d, br.version[d]>> : d \in
        {x \in {e} \cup Descendants(deps, br, {e}) : br.version[x] # None}}

\* The branch points at versions that were created.
Points(deps, br) == \A e \in Entities : br.version[e] \in {None} \cup DOMAIN deps[e]

\* Everything that depends on something in X on the branch is in X.
IsClosed(deps, br, X) == DependentsOf(deps, br, X) \subseteq X

-----------------------------------------------------------------------------
(***************************************************************************)
(* Below an entity                                                         *)
(***************************************************************************)
\* Versions depend on entities.
LEMMA VersionDependsOnEntities ==
    ASSUME NEW deps \in [Entities -> Seq(SUBSET Entities)], NEW br, Points(deps, br),
           NEW x \in Entities, br.version[x] # None
    PROVE  deps[x][br.version[x]] \in SUBSET Entities
<1>1. deps[x] \in Seq(SUBSET Entities)
  OBVIOUS
<1>2. br.version[x] \in DOMAIN deps[x]
  BY DEF Points
<1>3. QED
  BY <1>1, <1>2

\* The descendants of an entity are the least set that has its dependencies and
\* their own.
LEMMA DescendantsAreLeast ==
    ASSUME NEW deps, NEW br, NEW e \in Entities
    PROVE  LET D == Descendants(deps, br, {e})
           IN  /\ D \subseteq Entities
               /\ \A x \in {e} \cup D :
                     br.version[x] # None => deps[x][br.version[x]] \cap Entities \subseteq D
               /\ \A T \in SUBSET Entities :
                     (\A x \in {e} \cup T :
                         br.version[x] # None => deps[x][br.version[x]] \subseteq T)
                       => D \subseteq T
<1>. DEFINE D == Descendants(deps, br, {e})
            Under(T) == \A x \in {e} \cup T :
                           br.version[x] # None => deps[x][br.version[x]] \subseteq T
<1>1. \A T : DependenciesOf(deps, br, {e} \cup T) \subseteq T <=> Under(T)
  BY DEF DependenciesOf
<1>2. D \subseteq Entities
  BY DEF Descendants
<1>3. \A y \in Entities : y \in D <=> \A T \in SUBSET Entities : Under(T) => y \in T
  BY <1>1 DEF Descendants
<1>. HIDE DEF D
<1>4. ASSUME NEW x \in {e} \cup D, br.version[x] # None,
             NEW y \in deps[x][br.version[x]] \cap Entities
      PROVE  y \in D
  <2>1. ASSUME NEW T \in SUBSET Entities, Under(T) PROVE y \in T
    <3>1. x \in {e} \cup T
      BY <1>2, <1>3, <1>4, <2>1
    <3>2. QED
      BY <1>4, <2>1, <3>1
  <2>. HIDE DEF Under
  <2>2. QED
    BY <1>3, <1>4, <2>1
<1>5. \A T \in SUBSET Entities : Under(T) => D \subseteq T
  <2>. HIDE DEF Under
  <2>1. QED
    BY <1>2, <1>3
<1>6. \A x \in {e} \cup D :
         br.version[x] # None => deps[x][br.version[x]] \cap Entities \subseteq D
  BY <1>4
<1>7. QED
  BY <1>2, <1>5, <1>6 DEF D

\* What is below a dependency of x is below x.
LEMMA BelowADependency ==
    ASSUME NEW deps \in [Entities -> Seq(SUBSET Entities)], NEW br, Points(deps, br),
           NEW x \in Entities, br.version[x] # None, NEW y \in deps[x][br.version[x]]
    PROVE  /\ y \in Entities
           /\ {y} \cup Descendants(deps, br, {y}) \subseteq Descendants(deps, br, {x})
<1>. DEFINE D == Descendants(deps, br, {x})
            F == Descendants(deps, br, {y})
<1>1. y \in Entities
  BY VersionDependsOnEntities
<1>2. /\ D \subseteq Entities
      /\ \A z \in {x} \cup D : br.version[z] # None => deps[z][br.version[z]] \subseteq D
  BY DescendantsAreLeast, VersionDependsOnEntities
<1>3. \A T \in SUBSET Entities :
         (\A z \in {y} \cup T : br.version[z] # None => deps[z][br.version[z]] \subseteq T)
           => F \subseteq T
  BY <1>1, DescendantsAreLeast
<1>. HIDE DEF D, F
<1>4. y \in D
  BY <1>2
<1>5. F \subseteq D
  BY <1>2, <1>3, <1>4
<1>6. QED
  BY <1>1, <1>4, <1>5 DEF D, F

\* Branches that agree on everything below e on the first have the same below it.
LEMMA AgreeBelow ==
    ASSUME NEW deps \in [Entities -> Seq(SUBSET Entities)], NEW br, NEW other,
           Points(deps, br), NEW e \in Entities,
           \A d \in {e} \cup Descendants(deps, br, {e}) : br.version[d] = other.version[d]
    PROVE  TreeOf(deps, br, e) = TreeOf(deps, other, e)
<1>. DEFINE D == Descendants(deps, br, {e})
            F == Descendants(deps, other, {e})
<1>1. /\ D \subseteq Entities
      /\ \A x \in {e} \cup D : br.version[x] # None => deps[x][br.version[x]] \subseteq D
      /\ \A T \in SUBSET Entities :
            (\A x \in {e} \cup T : br.version[x] # None => deps[x][br.version[x]] \subseteq T)
              => D \subseteq T
  BY DescendantsAreLeast, VersionDependsOnEntities
<1>2. /\ F \subseteq Entities
      /\ \A x \in {e} \cup F :
            other.version[x] # None => deps[x][other.version[x]] \cap Entities \subseteq F
      /\ \A T \in SUBSET Entities :
            (\A x \in {e} \cup T : other.version[x] # None => deps[x][other.version[x]] \subseteq T)
              => F \subseteq T
  BY DescendantsAreLeast
<1>3. \A d \in {e} \cup D : br.version[d] = other.version[d]
  OBVIOUS
<1>. HIDE DEF D, F
<1>4. F \subseteq D
  <2>1. \A x \in {e} \cup D : other.version[x] # None => deps[x][other.version[x]] \subseteq D
    BY <1>1, <1>3
  <2>2. QED
    BY <1>1, <1>2, <2>1
<1>5. D \subseteq F
  <2>1. \A x \in {e} \cup F : br.version[x] # None => deps[x][br.version[x]] \subseteq F
    BY <1>1, <1>2, <1>3, <1>4
  <2>2. QED
    BY <1>1, <1>2, <2>1
<1>6. D = F
  BY <1>4, <1>5
<1>7. TreeOf(deps, br, e) = {<<d, br.version[d]>> : d \in {x \in {e} \cup D : br.version[x] # None}}
  BY DEF TreeOf, D
<1>8. TreeOf(deps, other, e)
        = {<<d, other.version[d]>> : d \in {x \in {e} \cup F : other.version[x] # None}}
  BY DEF TreeOf, F
<1>9. QED
  BY <1>3, <1>6, <1>7, <1>8

\* An entity outside a closed set has nothing of the set below it.
LEMMA NothingOfAClosedSetBelow ==
    ASSUME NEW deps \in [Entities -> Seq(SUBSET Entities)], NEW br, Points(deps, br),
           NEW X, IsClosed(deps, br, X), NEW e \in Entities \ X
    PROVE  \A d \in {e} \cup Descendants(deps, br, {e}) : d \in Entities \ X
<1>. DEFINE T == Entities \ X
<1>1. \A x \in {e} \cup T : br.version[x] # None => deps[x][br.version[x]] \subseteq T
  <2>. SUFFICES ASSUME NEW x \in Entities \ X, br.version[x] # None,
                       NEW y \in deps[x][br.version[x]]
                PROVE  y \in Entities \ X
    OBVIOUS
  <2>1. y \in Entities
    BY VersionDependsOnEntities
  <2>2. y \notin X
    BY DEF IsClosed, DependentsOf
  <2>3. QED
    BY <2>1, <2>2
<1>2. Descendants(deps, br, {e}) \subseteq T
  <2>1. T \in SUBSET Entities
    OBVIOUS
  <2>. HIDE DEF T
  <2>2. QED
    BY <1>1, <2>1, DescendantsAreLeast
<1>3. QED
  BY <1>2

\* The affected rows are the least set that has what depends on X and on them.
LEMMA AncestorsAreLeast ==
    ASSUME NEW deps, NEW br, NEW X
    PROVE  LET A == Ancestors(deps, br, X)
           IN  /\ A \subseteq Entities
               /\ DependentsOf(deps, br, X \cup A) \subseteq A
               /\ \A T \in SUBSET Entities :
                     DependentsOf(deps, br, X \cup T) \subseteq T => A \subseteq T
<1>. DEFINE A == Ancestors(deps, br, X)
            Over(T) == DependentsOf(deps, br, X \cup T) \subseteq T
<1>1. A \subseteq Entities
  BY DEF Ancestors
<1>2. \A y \in Entities : y \in A <=> \A T \in SUBSET Entities : Over(T) => y \in T
  BY DEF Ancestors
<1>. HIDE DEF A
<1>3. ASSUME NEW x \in DependentsOf(deps, br, X \cup A) PROVE x \in A
  <2>1. x \in Entities /\ br.version[x] # None
    BY <1>3 DEF DependentsOf
  <2>2. PICK y \in deps[x][br.version[x]] : y \in X \cup A
    BY <1>3 DEF DependentsOf
  <2>3. ASSUME NEW T \in SUBSET Entities, Over(T) PROVE x \in T
    <3>1. y \in X \cup T
      <4>. HIDE DEF Over
      <4>1. QED
        BY <1>1, <1>2, <2>2, <2>3
    <3>2. x \in DependentsOf(deps, br, X \cup T)
      BY <2>1, <2>2, <3>1 DEF DependentsOf
    <3>3. QED
      BY <2>3, <3>2
  <2>. HIDE DEF Over
  <2>4. QED
    BY <1>2, <2>1, <2>3
<1>4. \A T \in SUBSET Entities : Over(T) => A \subseteq T
  <2>. HIDE DEF Over
  <2>1. QED
    BY <1>1, <1>2
<1>5. QED
  BY <1>1, <1>3, <1>4 DEF A

-----------------------------------------------------------------------------
(***************************************************************************)
(* Logs with their side effects                                            *)
(***************************************************************************)
\* An entity is in the log if it has a record of it.
LEMMA AppendedIsInLog ==
    ASSUME NEW h \in Seq(LogRecord), NEW log \in Nat, NEW old \in Nat, NEW new \in Nat,
           InLog(h, log) = {}
    PROVE  LET r == [log |-> log, old |-> old, new |-> new]
           IN  InLog(Append(h, r), log) = {Len(h) + 1} /\ Append(h, r)[Len(h) + 1] = r
<1>. DEFINE r == [log |-> log, old |-> old, new |-> new]
            g == Append(h, r)
<1>1. r \in LogRecord
  BY DEF LogRecord
<1>2. /\ Len(h) \in Nat
      /\ Len(g) = Len(h) + 1
      /\ g[Len(h) + 1] = r
      /\ \A i \in 1 .. Len(h) : g[i] = h[i]
  BY <1>1, AppendProperties, LenProperties
<1>3. \A i \in 1 .. Len(h) : h[i].log # log
  BY DEF InLog
<1>. HIDE DEF g
<1>4. g[Len(h) + 1].log = log
  BY <1>2
<1>5. InLog(g, log) = {Len(h) + 1}
  BY <1>2, <1>3, <1>4 DEF InLog
<1>6. QED
  BY <1>2, <1>5 DEF g

\* The version of one entity before the log.
Before(h, version, log) ==
    IF InLog(h, log) = {} THEN version ELSE h[CHOOSE i \in InLog(h, log) : TRUE].old

\* Side effects add the affected rows to the log, change no version and nothing
\* of what the versions were before the log, and leave the log closed.
LEMMA SideEffectsCloseTheLog ==
    ASSUME NEW deps, NEW br, NEW log \in Nat, Tables(br)
    PROVE  LET after == WithSideEffects(deps, br, log)
           IN  /\ "version" \in DOMAIN after
               /\ after.version = br.version
               /\ ChangedIn(after, log)
                    = ChangedIn(br, log) \cup Ancestors(deps, br, ChangedIn(br, log))
               /\ VersionBefore(after, log) = VersionBefore(br, log)
               /\ IsClosed(deps, after, ChangedIn(after, log))
<1>. DEFINE after == WithSideEffects(deps, br, log)
            C == ChangedIn(br, log)
            A == Ancestors(deps, br, C)
            v(e) == br.version[e]
            g(e) == Append(br.records[e], [log |-> log, old |-> v(e), new |-> v(e)])
<1>1. "version" \in DOMAIN after /\ after.version = br.version
  BY DEF WithSideEffects, WithDigests, WithSideEffectRecords
<1>2. \A e \in Entities :
         after.records[e] = IF e \in A /\ InLog(br.records[e], log) = {} THEN g(e)
                            ELSE br.records[e]
  BY DEF WithSideEffects, WithDigests, WithSideEffectRecords, AffectedRows
<1>3. \A e \in Entities : e \in C <=> InLog(br.records[e], log) # {}
  BY DEF ChangedIn
<1>4. /\ A \subseteq Entities
      /\ DependentsOf(deps, br, C \cup A) \subseteq A
  BY AncestorsAreLeast
<1>5. ASSUME NEW e \in Entities
      PROVE  /\ InLog(after.records[e], log) # {} <=> e \in C \cup A
             /\ Before(after.records[e], v(e), log) = Before(br.records[e], v(e), log)
  <2>1. br.records[e] \in Seq(LogRecord) /\ v(e) \in Nat
    BY DEF Tables
  <2>2. CASE e \in A /\ InLog(br.records[e], log) = {}
    <3>1. /\ InLog(g(e), log) = {Len(br.records[e]) + 1}
          /\ g(e)[Len(br.records[e]) + 1] = [log |-> log, old |-> v(e), new |-> v(e)]
      <4>1. PICK h, w : h = br.records[e] /\ w = br.version[e]
        OBVIOUS
      <4>. HIDE DEF after, C, A
      <4>2. h \in Seq(LogRecord) /\ w \in Nat /\ InLog(h, log) = {}
        BY <2>1, <2>2, <4>1
      <4>3. LET r == [log |-> log, old |-> w, new |-> w]
            IN  InLog(Append(h, r), log) = {Len(h) + 1} /\ Append(h, r)[Len(h) + 1] = r
        BY <4>2, AppendedIsInLog, Zenon
      <4>4. QED  BY <4>1, <4>3
    <3>. HIDE DEF g, v
    <3>2. (CHOOSE i \in InLog(g(e), log) : TRUE) = Len(br.records[e]) + 1
      BY <3>1
    <3>3. Before(g(e), v(e), log) = v(e)
      BY <3>1, <3>2 DEF Before
    <3>4. after.records[e] = g(e)
      BY <1>2, <2>2
    <3>5. QED
      BY <2>2, <3>1, <3>3, <3>4 DEF Before
  <2>3. CASE ~ (e \in A /\ InLog(br.records[e], log) = {})
    <3>1. after.records[e] = br.records[e]
      BY <1>2, <2>3
    <3>2. QED
      BY <1>3, <2>3, <3>1
  <2>4. QED
    BY <2>2, <2>3
<1>6. ChangedIn(after, log) = C \cup A
  <2>1. C \subseteq Entities
    BY DEF ChangedIn
  <2>. HIDE DEF C, A, after
  <2>2. QED
    BY <1>4, <1>5, <2>1 DEF ChangedIn
<1>7. VersionBefore(after, log) = VersionBefore(br, log)
  <2>1. \A h, version : Before(h, version, log)
          = IF InLog(h, log) = {} THEN version ELSE h[CHOOSE i \in InLog(h, log) : TRUE].old
    BY DEF Before
  <2>. HIDE DEF after
  <2>2. VersionBefore(after, log)
          = [e \in Entities |-> Before(after.records[e], after.version[e], log)]
    BY DEF VersionBefore, Before
  <2>3. VersionBefore(br, log) = [e \in Entities |-> Before(br.records[e], br.version[e], log)]
    BY DEF VersionBefore, Before
  <2>4. QED
    BY <1>1, <1>5, <2>2, <2>3
<1>8. IsClosed(deps, after, ChangedIn(after, log))
  <2>1. DependentsOf(deps, after, C \cup A) = DependentsOf(deps, br, C \cup A)
    BY <1>1 DEF DependentsOf
  <2>2. QED
    BY <1>4, <1>6, <2>1 DEF IsClosed
<1>9. QED
  BY <1>1, <1>6, <1>7, <1>8

\* An entity whose live tree changed with the log is in it, when the log is closed.
LEMMA ClosedLogIsComplete ==
    ASSUME NEW deps \in [Entities -> Seq(SUBSET Entities)], NEW br, NEW log,
           "version" \in DOMAIN br, Points(deps, br),
           IsClosed(deps, br, ChangedIn(br, log)), NEW e \in Entities,
           TreeOf(deps, br, e) # TreeOf(deps, BranchBefore(br, log), e)
    PROVE  e \in ChangedIn(br, log)
<1>. SUFFICES ASSUME e \notin ChangedIn(br, log)
              PROVE  TreeOf(deps, br, e) = TreeOf(deps, BranchBefore(br, log), e)
  OBVIOUS
<1>1. \A d \in {e} \cup Descendants(deps, br, {e}) : d \in Entities \ ChangedIn(br, log)
  BY NothingOfAClosedSetBelow
<1>2. BranchBefore(br, log).version = VersionBefore(br, log)
  BY DEF BranchBefore
<1>3. \A d \in Entities \ ChangedIn(br, log) : VersionBefore(br, log)[d] = br.version[d]
  BY DEF VersionBefore, ChangedIn
<1>4. \A d \in {e} \cup Descendants(deps, br, {e}) :
         br.version[d] = BranchBefore(br, log).version[d]
  BY <1>1, <1>2, <1>3
<1>5. QED
  BY <1>4, AgreeBelow

-----------------------------------------------------------------------------
(***************************************************************************)
(* Publishing                                                              *)
(***************************************************************************)
\* PublishLogIsComplete says what the last log has; that it is closed, the
\* dependencies of published versions being what they are, is what every step
\* keeps.
PublishedClosed ==
    /\ "version" \in DOMAIN published
    /\ lastPublishLog > 0 =>
          IsClosed(dependencies, published, ChangedIn(published, lastPublishLog))

\* Dependencies of the versions a branch points at do not change: versions are
\* only added.
LEMMA NewVersionsKeepClosed ==
    ASSUME NEW deps \in [Entities -> Seq(SUBSET Entities)], NEW br, Points(deps, br),
           NEW e \in Entities, NEW D \in SUBSET Entities, NEW X, IsClosed(deps, br, X)
    PROVE  IsClosed([deps EXCEPT ![e] = Append(@, D)], br, X)
<1>. DEFINE more == [deps EXCEPT ![e] = Append(@, D)]
<1>1. \A x \in Entities : br.version[x] # None => more[x][br.version[x]] = deps[x][br.version[x]]
  <2>. SUFFICES ASSUME NEW x \in Entities, br.version[x] # None
                PROVE  more[x][br.version[x]] = deps[x][br.version[x]]
    OBVIOUS
  <2>1. deps[x] \in Seq(SUBSET Entities) /\ br.version[x] \in DOMAIN deps[x]
    BY DEF Points
  <2>2. br.version[x] \in 1 .. Len(deps[x])
    BY <2>1
  <2>3. more[x] = IF x = e THEN Append(deps[x], D) ELSE deps[x]
    OBVIOUS
  <2>4. \A i \in 1 .. Len(deps[x]) : Append(deps[x], D)[i] = deps[x][i]
    BY <2>1, AppendProperties
  <2>5. QED
    BY <2>2, <2>3, <2>4
<1>. HIDE DEF more
<1>2. DependentsOf(more, br, X) = DependentsOf(deps, br, X)
  BY <1>1 DEF DependentsOf
<1>3. QED
  BY <1>2 DEF IsClosed, more

\* Both branches point at versions that were created.
LEMMA TypePoints ==
    ASSUME TypeOK
    PROVE  /\ dependencies \in [Entities -> Seq(SUBSET Entities)]
           /\ Points(dependencies, draft) /\ Points(dependencies, published)
           /\ Tables(draft) /\ Tables(published)
           /\ lastPublishLog \in Nat /\ lastDraftLog \in Nat
  BY DEF TypeOK, BranchTypeOK, Points, Tables

\* What publish_from_drafts does once it knows the drafts it goes through.
Publishes(P) ==
    /\ published' = WithSideEffects(dependencies,
                                    RecordPublish(published, lastPublishLog + 1, P),
                                    lastPublishLog + 1)
    /\ lastPublishLog' = lastPublishLog + 1
    /\ dependencies' = dependencies
    /\ draft' = draft

\* It leaves these drafts published and the other versions as before, and its log
\* closed.
LEMMA PublishResult ==
    ASSUME TypeOK, NEW P, Publishes(P)
    PROVE  /\ "version" \in DOMAIN published'
           /\ published'.version = [e \in Entities |->
                 IF e \in P THEN draft.version[e] ELSE published.version[e]]
           /\ IsClosed(dependencies', published', ChangedIn(published', lastPublishLog'))
<1>. DEFINE log == lastPublishLog + 1
            br  == RecordPublish(published, log, P)
<1>1. /\ published' = WithSideEffects(dependencies, br, log)
      /\ lastPublishLog' = log
      /\ dependencies' = dependencies
  BY DEF Publishes
<1>2. log \in Nat /\ Tables(br)
  BY TypePoints, RecordPublishTables
<1>3. br.version = [e \in Entities |->
                       IF e \in P THEN draft.version[e] ELSE published.version[e]]
  BY DEF RecordPublish
<1>. HIDE DEF br, log
<1>4. LET after == WithSideEffects(dependencies, br, log)
      IN  /\ "version" \in DOMAIN after
          /\ after.version = br.version
          /\ IsClosed(dependencies, after, ChangedIn(after, log))
  BY <1>2, SideEffectsCloseTheLog
<1>5. QED
  BY <1>1, <1>3, <1>4

\* The published branch is always closed.
LEMMA PublishedAlwaysClosed == Spec => []PublishedClosed
<1>1. Init => PublishedClosed
  BY DEF Init, PublishedClosed, EmptyBranch
<1>2. TypeOK /\ PublishedClosed /\ [Next]_vars => PublishedClosed'
  <2>. SUFFICES ASSUME TypeOK, PublishedClosed, [Next]_vars PROVE PublishedClosed'
    OBVIOUS
  <2>1. CASE UNCHANGED <<dependencies, published, lastPublishLog>>
    BY <2>1 DEF PublishedClosed, IsClosed, DependentsOf, ChangedIn
  <2>2. ASSUME NEW e \in Entities,
               NEW D \in SUBSET {d \in Entities : Level[d] < Level[e]},
               CreateVersion(e, D)
        PROVE  PublishedClosed'
    <3>1. /\ dependencies' = [dependencies EXCEPT ![e] = Append(@, D)]
          /\ UNCHANGED <<published, lastPublishLog>>
      BY <2>2 DEF CreateVersion
    <3>2. D \in SUBSET Entities
      OBVIOUS
    <3>3. \A X : IsClosed(dependencies, published, X)
                   => IsClosed([dependencies EXCEPT ![e] = Append(@, D)], published, X)
      BY <3>2, TypePoints, NewVersionsKeepClosed
    <3>4. QED
      BY <3>1, <3>3 DEF PublishedClosed
  <2>3. ASSUME NEW S, NEW withDependencies, NEW filtered,
               PublishFromDrafts(S, withDependencies, filtered)
        PROVE  PublishedClosed'
    <3>1. Publishes(DraftsToPublish(S, withDependencies, filtered))
      BY <2>3 DEF PublishFromDrafts, Publishes
    <3>2. QED
      BY <3>1, PublishResult DEF PublishedClosed
  <2>4. QED
    BY <2>1, <2>2, <2>3 DEF Next, vars, SetDraftVersion, ResetDraftsToPublished,
                            BeginBulk, EndBulk, PublishAllDrafts
<1>3. QED
  BY <1>1, <1>2, TypeCorrect, PTL DEF Spec

\* The last PublishLog has a record for every entity whose published state, or
\* that of something below it, the publish changed.
THEOREM PublishLogMissesNothing == Spec => []PublishLogIsComplete
<1>1. TypeOK /\ PublishedClosed => PublishLogIsComplete
  <2>. SUFFICES ASSUME TypeOK, PublishedClosed, lastPublishLog > 0, NEW e \in Entities,
                       LiveTree(published, e)
                         # LiveTree(BranchBefore(published, lastPublishLog), e)
                PROVE  e \in ChangedIn(published, lastPublishLog)
    BY DEF PublishLogIsComplete
  <2>1. /\ "version" \in DOMAIN published
        /\ IsClosed(dependencies, published, ChangedIn(published, lastPublishLog))
    BY DEF PublishedClosed
  <2>2. \A br : LiveTree(br, e) = TreeOf(dependencies, br, e)
    BY DEF LiveTree, TreeOf
  <2>3. TreeOf(dependencies, published, e)
          # TreeOf(dependencies, BranchBefore(published, lastPublishLog), e)
    BY <2>2
  <2>4. QED
    BY <2>1, <2>3, TypePoints, ClosedLogIsComplete
<1>2. QED
  BY <1>1, PublishedAlwaysClosed, TypeCorrect, PTL

\* publish_all_drafts goes through every draft that differs: an entity without
\* versions has nothing on either branch.
LEMMA PublishAllIsAll ==
    ASSUME TypeOK, PublishAllDrafts
    PROVE  \A e \in Entities : draft'.version[e] = published'.version[e]
<1>. DEFINE S == {e \in Entities : HasDraft(e)}
<1>1. UnpublishedChanges \subseteq S
  <2>. SUFFICES ASSUME NEW e \in Entities, dependencies[e] = << >>
                PROVE  draft.version[e] = published.version[e]
    BY DEF UnpublishedChanges, HasDraft
  <2>1. DOMAIN dependencies[e] = {}
    OBVIOUS
  <2>2. QED
    BY <2>1, TypePoints DEF Points
<1>. DEFINE P == DraftsToPublish(S, TRUE, TRUE)
<1>2. UnpublishedChanges \subseteq P
  BY <1>1 DEF DraftsToPublish, QuerysetRows
<1>3. Publishes(P)
  BY DEF PublishAllDrafts, PublishFromDrafts, Publishes
<1>. HIDE DEF P
<1>4. published'.version = [e \in Entities |->
          IF e \in P THEN draft.version[e] ELSE published.version[e]]
  BY <1>3, PublishResult
<1>5. QED
  BY <1>2, <1>3, <1>4 DEF Publishes, UnpublishedChanges

\* A queryset that is not itself about unpublished changes has the same rows when
\* it runs again, so that everything below them is published.
LEMMA PublishReachesBelow ==
    ASSUME TypeOK, NEW S \in SUBSET Entities, PublishFromDrafts(S, TRUE, FALSE),
           NEW e \in S
    PROVE  \A d \in {e} \cup Descendants(dependencies, draft, {e}) :
              draft'.version[d] = published'.version[d]
<1>. DEFINE P == DraftsToPublish(S, TRUE, FALSE)
<1>1. S \subseteq P
  BY DEF DraftsToPublish, QuerysetRows
<1>2. Descendants(dependencies, draft, S) \cap UnpublishedChanges \subseteq P
  BY DEF DraftsToPublish, QuerysetRows
<1>3. Descendants(dependencies, draft, {e}) \subseteq Descendants(dependencies, draft, S)
  <2>1. \A T : DependenciesOf(dependencies, draft, {e} \cup T)
                 \subseteq DependenciesOf(dependencies, draft, S \cup T)
    BY DEF DependenciesOf
  <2>2. QED
    BY <2>1 DEF Descendants
<1>4. Publishes(P)
  BY DEF PublishFromDrafts, Publishes
<1>5. Descendants(dependencies, draft, {e}) \subseteq Entities
  BY DescendantsAreLeast
<1>. HIDE DEF P
<1>6. SUFFICES ASSUME NEW d \in {e} \cup Descendants(dependencies, draft, {e})
               PROVE  draft'.version[d] = published'.version[d]
  OBVIOUS
<1>7. d \in Entities /\ (d \in P \/ d \notin UnpublishedChanges)
  BY <1>1, <1>2, <1>3, <1>5
<1>8. published'.version = [x \in Entities |->
          IF x \in P THEN draft.version[x] ELSE published.version[x]]
  BY <1>4, PublishResult
<1>9. QED
  BY <1>4, <1>7, <1>8 DEF Publishes, UnpublishedChanges

\* publish_from_drafts publishes everything at and below the drafts it was given,
\* and publish_all_drafts leaves nothing to publish, when the querysets callers
\* pass do not themselves filter on unpublished changes (those that do run again
\* over fewer rows: the run that allows them is a counterexample).
THEOREM PublishingCoversDependencies ==
    ASSUME FilteredQuerysets = FALSE
    PROVE  Spec => PublishCoversDependencies
<1>1. \A e : LiveTree(draft, e)' = TreeOf(dependencies', draft', e)
            /\ LiveTree(published, e)' = TreeOf(dependencies', published', e)
  BY DEF LiveTree, TreeOf
<1>2. TypeOK /\ PublishAllDrafts =>
          /\ NothingToPublish'
          /\ \A e \in Entities : (LiveTree(draft, e) = LiveTree(published, e))'
  <2>. SUFFICES ASSUME TypeOK, PublishAllDrafts
                PROVE  /\ NothingToPublish'
                       /\ \A e \in Entities :
                             TreeOf(dependencies', draft', e)
                               = TreeOf(dependencies', published', e)
    BY <1>1
  <2>1. \A e \in Entities : draft'.version[e] = published'.version[e]
    BY PublishAllIsAll
  <2>2. NothingToPublish'
    BY <2>1 DEF NothingToPublish, EntitiesWithUnpublishedChanges, AllDrafts,
                FilterPublishableEntities, EntitiesWithUnpublishedDeletes,
                HasUnpublishedChanges
  <2>3. dependencies' = dependencies /\ draft' = draft
    BY DEF PublishAllDrafts, PublishFromDrafts
  <2>4. /\ dependencies' \in [Entities -> Seq(SUBSET Entities)]
        /\ Points(dependencies', draft')
    BY <2>3, TypePoints
  <2>5. ASSUME NEW e \in Entities
        PROVE  TreeOf(dependencies', draft', e) = TreeOf(dependencies', published', e)
    <3>1. \A d \in {e} \cup Descendants(dependencies', draft', {e}) :
              draft'.version[d] = published'.version[d]
      BY <2>1 DEF Descendants
    <3>2. QED
      BY <2>4, <3>1, AgreeBelow
  <2>6. QED
    BY <2>2, <2>5
<1>3. ASSUME TypeOK, NEW S \in SUBSET Entities, NEW filtered \in {FALSE, FilteredQuerysets},
             PublishFromDrafts(S, TRUE, filtered),
             NEW e \in QuerysetRows(S, filtered, UnpublishedChanges)
      PROVE  (LiveTree(draft, e) = LiveTree(published, e))'
  <2>1. filtered = FALSE /\ e \in S
    BY <1>3 DEF QuerysetRows
  <2>2. \A d \in {e} \cup Descendants(dependencies, draft, {e}) :
            draft'.version[d] = published'.version[d]
    BY <1>3, <2>1, PublishReachesBelow
  <2>3. dependencies' = dependencies /\ draft' = draft
    BY <1>3 DEF PublishFromDrafts
  <2>4. TreeOf(dependencies', draft', e) = TreeOf(dependencies', published', e)
    BY <1>3, <2>1, <2>2, <2>3, TypePoints, AgreeBelow
  <2>5. QED
    BY <1>1, <2>4
<1>4. TypeOK => [/\ PublishAllDrafts =>
                     /\ NothingToPublish'
                     /\ \A e \in Entities : (LiveTree(draft, e) = LiveTree(published, e))'
                 /\ \A S \in SUBSET Entities, filtered \in {FALSE, FilteredQuerysets} :
                     PublishFromDrafts(S, TRUE, filtered) =>
                         \A e \in QuerysetRows(S, filtered, UnpublishedChanges) :
                             (LiveTree(draft, e) = LiveTree(published, e))']_vars
  BY <1>2, <1>3
<1>5. QED
  BY <1>4, TypeCorrect, PTL DEF PublishCoversDependencies

-----------------------------------------------------------------------------
(***************************************************************************)
(* The draft log is exact.  While a log is being written its records are   *)
(* of the direct changes alone, each from one version to another; its side *)
(* effects then add the entities above these, which see the change         *)
(* because the path to it is one of versions that did not change.          *)
(***************************************************************************)
\* Every record of the log leads from a version that was created to another one.
DirectLog(deps, br, log) ==
    \A e \in Entities : \A i \in InLog(br.records[e], log) :
        /\ br.records[e][i].old # br.records[e][i].new
        /\ br.records[e][i].old \in {None} \cup DOMAIN deps[e]

\* Deleting the last record leaves the others.
LEMMA RemoveLast ==
    ASSUME NEW S, NEW h \in Seq(S), NEW m \in Nat, Len(h) = m + 1
    PROVE  LET g == RemoveAt(h, m + 1)
           IN  Len(g) = m /\ \A i \in 1 .. m : g[i] = h[i]
<1>1. \A i \in 1 .. m : h[i] \in S
  BY ElementOfSeq
<1>2. /\ SubSeq(h, 1, m) \in Seq(S)
      /\ Len(SubSeq(h, 1, m)) = m
      /\ \A i \in 1 .. m : SubSeq(h, 1, m)[i] = h[i]
  BY <1>1, PrefixProperties
<1>3. SubSeq(h, (m + 1) + 1, m + 1) = << >>
  BY SubSeqEmpty
<1>4. (m + 1) - 1 = m
  OBVIOUS
<1>5. RemoveAt(h, m + 1) = SubSeq(h, 1, m)
  BY <1>2, <1>3, <1>4, ConcatEmptySeq DEF RemoveAt
<1>6. QED
  BY <1>2, <1>5

\* _add_to_existing_draft_change_log keeps the record of one entity direct: a new
\* record is of a change, and one that is undone is deleted.
LEMMA AddKeepsDirect ==
    ASSUME NEW h, NEW version \in Nat, NEW ptr, NEW last \in Nat, NEW log \in Nat \ {0},
           NEW new \in Nat, NEW Created,
           Consistent(h, version, ptr, last), last <= log, new # version,
           version \in Created,
           \A i \in InLog(h, log) : h[i].old # h[i].new /\ h[i].old \in Created
    PROVE  LET g == AddToChangeLog(h, log, version, new)
           IN  \A i \in InLog(g, log) : g[i].old # g[i].new /\ g[i].old \in Created
<1>. DEFINE g == AddToChangeLog(h, log, version, new)
<1>1. h \in Seq(LogRecord)
  BY DEF Consistent
<1>2. CASE InLog(h, log) = {}
  <2>. DEFINE r == [log |-> log, old |-> version, new |-> new]
  <2>1. InLog(Append(h, r), log) = {Len(h) + 1} /\ Append(h, r)[Len(h) + 1] = r
    BY <1>1, <1>2, AppendedIsInLog
  <2>2. g = Append(h, r)
    BY <1>2 DEF AddToChangeLog
  <2>3. QED
    BY <2>1, <2>2
<1>3. CASE InLog(h, log) # {}
  <2>1. PICK m \in Nat : /\ Len(h) = m + 1
                         /\ InLog(h, log) = {m + 1}
                         /\ \A i \in 1 .. m : h[i].log < log
    <3>1. Len(h) - 1 \in Nat /\ Len(h) = (Len(h) - 1) + 1
      BY <1>3, RecordIsLast
    <3>2. QED
      BY <1>3, <3>1, RecordIsLast
  <2>2. (CHOOSE i \in InLog(h, log) : TRUE) = m + 1
    BY <2>1
  <2>3. \A i \in 1 .. m : h[i].log \in Nat /\ h[i].log # log
    <3>1. \A i \in 1 .. m : h[i].log \in 1 .. last
      BY <2>1 DEF Consistent
    <3>2. QED
      BY <2>1, <3>1
  <2>4. CASE h[m + 1].old = new
    <3>1. g = RemoveAt(h, m + 1)
      BY <1>3, <2>2, <2>4 DEF AddToChangeLog
    <3>2. Len(g) = m /\ \A i \in 1 .. m : g[i] = h[i]
      BY <1>1, <2>1, <3>1, RemoveLast
    <3>. HIDE DEF g
    <3>3. InLog(g, log) = {}
      BY <2>3, <3>2 DEF InLog
    <3>4. QED
      BY <3>3 DEF g
  <2>5. CASE h[m + 1].old # new
    <3>. DEFINE r == [log |-> log, old |-> h[m + 1].old, new |-> new]
    <3>1. g = [h EXCEPT ![m + 1] = r]
      BY <1>3, <2>2, <2>5 DEF AddToChangeLog
    <3>2. /\ Len(g) = m + 1
          /\ \A i \in 1 .. m : g[i] = h[i]
          /\ g[m + 1] = r
      <4>1. m + 1 \in 1 .. Len(h) /\ h[m + 1] \in LogRecord
        BY <1>1, <2>1, ElementOfSeq
      <4>2. r \in LogRecord
        BY <4>1 DEF LogRecord
      <4>3. QED
        BY <1>1, <2>1, <3>1, <4>1, <4>2, ExceptSeq
    <3>3. h[m + 1].old \in Created
      BY <2>1
    <3>. HIDE DEF g
    <3>4. InLog(g, log) \subseteq {m + 1}
      BY <2>3, <3>2 DEF InLog
    <3>5. r.old = h[m + 1].old /\ r.new = new
      OBVIOUS
    <3>6. g[m + 1].old # g[m + 1].new /\ g[m + 1].old \in Created
      BY <2>5, <3>2, <3>3, <3>5
    <3>7. QED
      BY <3>4, <3>6 DEF g
  <2>6. QED
    BY <2>4, <2>5
<1>4. QED
  BY <1>2, <1>3

\* So does a change of the drafts.
LEMMA RepointKeepsDirect ==
    ASSUME NEW deps, NEW br, NEW last \in Nat, NEW log \in Nat \ {0},
           NEW target \in [Entities -> Nat],
           Tables(br), Sound(br, last), last <= log, Points(deps, br), DirectLog(deps, br, log)
    PROVE  DirectLog(deps, Repoint(br, log, target), log)
<1>. DEFINE after == Repoint(br, log, target)
<1>. SUFFICES ASSUME NEW e \in Entities, NEW i \in InLog(after.records[e], log)
              PROVE  /\ after.records[e][i].old # after.records[e][i].new
                     /\ after.records[e][i].old \in {None} \cup DOMAIN deps[e]
  BY DEF DirectLog
<1>. DEFINE h == br.records[e]
            Created == {None} \cup DOMAIN deps[e]
<1>1. /\ Consistent(h, br.version[e], br.logRecord[e], last)
      /\ br.version[e] \in Nat /\ target[e] \in Nat
      /\ br.version[e] \in Created
      /\ \A k \in InLog(h, log) : h[k].old # h[k].new /\ h[k].old \in Created
  BY DEF Sound, Tables, Points, DirectLog
<1>2. CASE target[e] = br.version[e]
  <2>1. after.records[e] = h
    BY <1>2 DEF Repoint
  <2>2. QED
    BY <1>1, <2>1
<1>3. CASE target[e] # br.version[e]
  <2>1. after.records[e] = AddToChangeLog(h, log, br.version[e], target[e])
    BY <1>3 DEF Repoint
  <2>. HIDE DEF Created, h
  <2>2. LET g == AddToChangeLog(h, log, br.version[e], target[e])
        IN  \A k \in InLog(g, log) : g[k].old # g[k].new /\ g[k].old \in Created
    BY <1>1, <1>3, AddKeepsDirect
  <2>3. QED
    BY <2>1, <2>2 DEF Created
<1>4. QED
  BY <1>2, <1>3

\* A log that has no record yet is direct.
LEMMA NewLogIsDirect ==
    ASSUME NEW deps, NEW br, NEW last \in Nat, Sound(br, last)
    PROVE  DirectLog(deps, br, last + 1)
<1>1. \A e \in Entities : InLog(br.records[e], last + 1) = {}
  BY DEF Sound, Consistent, InLog
<1>2. QED
  BY <1>1 DEF DirectLog

\* An entity whose record is direct is at another version than before the log, and
\* one without a record at the same.
LEMMA DirectChangesVersion ==
    ASSUME NEW deps, NEW br, NEW last \in Nat, NEW log \in Nat,
           Sound(br, last), last <= log, DirectLog(deps, br, log), Points(deps, br),
           NEW e \in Entities
    PROVE  /\ e \in ChangedIn(br, log) <=> VersionBefore(br, log)[e] # br.version[e]
           /\ VersionBefore(br, log)[e] \in {None} \cup DOMAIN deps[e]
<1>. DEFINE h == br.records[e]
<1>1. Consistent(h, br.version[e], br.logRecord[e], last)
  BY DEF Sound
<1>2. VersionBefore(br, log)[e] = Before(h, br.version[e], log)
  BY DEF VersionBefore, Before
<1>3. e \in ChangedIn(br, log) <=> InLog(h, log) # {}
  BY DEF ChangedIn
<1>4. CASE InLog(h, log) = {}
  BY <1>2, <1>3, <1>4 DEF Before, Points
<1>5. CASE InLog(h, log) # {}
  <2>1. Len(h) \in Nat \ {0} /\ InLog(h, log) = {Len(h)}
    BY <1>1, <1>5, RecordIsLast
  <2>2. (CHOOSE i \in InLog(h, log) : TRUE) = Len(h)
    BY <2>1
  <2>3. VersionBefore(br, log)[e] = h[Len(h)].old
    BY <1>2, <1>5, <2>2 DEF Before
  <2>4. br.version[e] = h[Len(h)].new
    <3>1. h # << >>
      BY <2>1
    <3>2. QED
      BY <1>1, <3>1 DEF Consistent
  <2>5. h[Len(h)].old # h[Len(h)].new /\ h[Len(h)].old \in {None} \cup DOMAIN deps[e]
    BY <2>1 DEF DirectLog
  <2>6. QED
    BY <1>3, <1>5, <2>3, <2>4, <2>5
<1>6. QED
  BY <1>4, <1>5

\* On two branches, an entity with something at or below it on both whose version
\* differs has different trees.
LEMMA DifferenceShows ==
    ASSUME NEW deps, NEW br, NEW other, NEW x \in Entities, NEW d,
           d \in {x} \cup Descendants(deps, br, {x}),
           d \in {x} \cup Descendants(deps, other, {x}),
           br.version[d] # other.version[d]
    PROVE  TreeOf(deps, br, x) # TreeOf(deps, other, x)
<1>1. ASSUME br.version[d] # None
      PROVE  /\ <<d, br.version[d]>> \in TreeOf(deps, br, x)
             /\ <<d, br.version[d]>> \notin TreeOf(deps, other, x)
  BY <1>1 DEF TreeOf
<1>2. ASSUME other.version[d] # None
      PROVE  /\ <<d, other.version[d]>> \in TreeOf(deps, other, x)
             /\ <<d, other.version[d]>> \notin TreeOf(deps, br, x)
  BY <1>2 DEF TreeOf
<1>3. QED
  BY <1>1, <1>2

\* With its side effects a direct log is exact.
LEMMA DirectLogIsExact ==
    ASSUME NEW deps \in [Entities -> Seq(SUBSET Entities)], NEW br,
           NEW last \in Nat, NEW log \in Nat,
           Tables(br), Sound(br, last), last <= log, Points(deps, br), DirectLog(deps, br, log),
           NEW after, after = WithSideEffects(deps, br, log),
           NEW other, other = BranchBefore(after, log)
    PROVE  \A e \in Entities :
              e \in ChangedIn(after, log) <=> TreeOf(deps, after, e) # TreeOf(deps, other, e)
<1>. DEFINE C == ChangedIn(br, log)
            A == Ancestors(deps, br, C)
            Shared(x) == ({x} \cup Descendants(deps, after, {x}))
                           \cap ({x} \cup Descendants(deps, other, {x}))
            T == {x \in Entities : C \cap Shared(x) # {}}
<1>1. /\ "version" \in DOMAIN after
      /\ after.version = br.version
      /\ ChangedIn(after, log) = C \cup A
      /\ VersionBefore(after, log) = VersionBefore(br, log)
      /\ IsClosed(deps, after, ChangedIn(after, log))
  BY SideEffectsCloseTheLog
<1>2. other.version = VersionBefore(br, log)
  BY <1>1 DEF BranchBefore
<1>3. /\ \A d \in Entities : d \in C <=> other.version[d] # after.version[d]
      /\ Points(deps, other)
      /\ Points(deps, after)
  BY <1>1, <1>2, DirectChangesVersion DEF Points
<1>4. C \subseteq Entities /\ C \subseteq T
  BY DEF ChangedIn
<1>5. DependentsOf(deps, br, C \cup T) \subseteq T
  <2>. SUFFICES ASSUME NEW x \in DependentsOf(deps, br, C \cup T), x \notin C
                PROVE  x \in T
    BY <1>4
  <2>1. x \in Entities /\ after.version[x] # None
    BY <1>1 DEF DependentsOf
  <2>2. PICK y \in deps[x][after.version[x]] : y \in T
    BY <1>1, <1>4 DEF DependentsOf
  <2>3. other.version[x] = after.version[x]
    BY <1>3, <2>1
  <2>4. {y} \cup Descendants(deps, after, {y}) \subseteq Descendants(deps, after, {x})
    BY <1>3, <2>1, BelowADependency
  <2>5. {y} \cup Descendants(deps, other, {y}) \subseteq Descendants(deps, other, {x})
    BY <1>3, <2>1, <2>3, BelowADependency
  <2>6. Shared(y) \subseteq Shared(x)
    BY <2>4, <2>5
  <2>. HIDE DEF Shared
  <2>7. QED
    BY <2>1, <2>2, <2>6
<1>6. A \subseteq T
  <2>1. T \in SUBSET Entities
    OBVIOUS
  <2>. HIDE DEF T, C
  <2>2. QED
    BY <1>5, <2>1, AncestorsAreLeast
<1>7. ASSUME NEW e \in Entities, e \in ChangedIn(after, log)
      PROVE  TreeOf(deps, after, e) # TreeOf(deps, other, e)
  <2>1. e \in T
    BY <1>1, <1>4, <1>6, <1>7
  <2>2. PICK d \in C : d \in Shared(e)
    BY <2>1
  <2>3. after.version[d] # other.version[d]
    BY <1>3, <1>4, <2>2
  <2>4. /\ d \in {e} \cup Descendants(deps, after, {e})
        /\ d \in {e} \cup Descendants(deps, other, {e})
    BY <2>2
  <2>5. QED
    BY <2>3, <2>4, DifferenceShows
<1>8. ASSUME NEW e \in Entities, TreeOf(deps, after, e) # TreeOf(deps, other, e)
      PROVE  e \in ChangedIn(after, log)
  <2>. HIDE DEF C, A, T, Shared
  <2>1. QED
    BY <1>1, <1>3, <1>8, ClosedLogIsComplete
<1>9. QED
  BY <1>7, <1>8

-----------------------------------------------------------------------------
(***************************************************************************)
(* The draft log of every call                                             *)
(***************************************************************************)
\* DraftLogIsExact is about completed logs; the log that is being written is
\* direct, and that its records are the last of their histories is IInv.
ExactIInv ==
    /\ "version" \in DOMAIN draft
    /\ openLogs # << >> => DirectLog(dependencies, draft, lastDraftLog)
    /\ DraftLogIsExact

\* The log is exact on the branch.
IsExact(deps, br, log) ==
    \A e \in Entities :
        e \in ChangedIn(br, log)
          <=> TreeOf(deps, br, e) # TreeOf(deps, BranchBefore(br, log), e)

\* DraftLogIsExact, before and after a step.
LEMMA ExactInBranch ==
    /\ DraftLogIsExact <=>
          (openLogs = << >> /\ lastDraftLog > 0 => IsExact(dependencies, draft, lastDraftLog))
    /\ DraftLogIsExact' <=>
          (openLogs' = << >> /\ lastDraftLog' > 0
             => IsExact(dependencies', draft', lastDraftLog'))
  BY DEF DraftLogIsExact, IsExact, LiveTree, TreeOf

\* The calls that change drafts: nothing to change, a change in the open log, or
\* a log with its side effects.
LEMMA ChangeDraftsExact ==
    ASSUME TypeOK, TypeOK', IInv, ExactIInv,
           NEW target \in [Entities -> Nat], ChangeDrafts(target),
           UNCHANGED openLogs,
           dependencies' = dependencies \/ target # draft.version,
           Points(dependencies', draft),
           openLogs # << >> => DirectLog(dependencies', draft, lastDraftLog)
    PROVE  ExactIInv'
<1>1. Tables(draft) /\ lastDraftLog \in Nat /\ Sound(draft, lastDraftLog) /\ WritesLastLog
  BY TypePoints DEF IInv
<1>2. CASE target = draft.version /\ UNCHANGED <<draft, lastDraftLog>>
  <2>1. dependencies' = dependencies /\ openLogs' = openLogs
    BY <1>2
  <2>2. QED
    BY <1>2, <2>1, ExactInBranch DEF ExactIInv
<1>3. CASE /\ openLogs # << >>
           /\ draft' = Repoint(draft, openLogs[Len(openLogs)], target)
           /\ UNCHANGED lastDraftLog
  <2>1. openLogs = <<lastDraftLog>> /\ lastDraftLog \in Nat \ {0} /\ lastDraftLog <= lastDraftLog
    BY <1>1, <1>3 DEF WritesLastLog
  <2>2. draft' = Repoint(draft, lastDraftLog, target)
    BY <1>3, <2>1
  <2>3. DirectLog(dependencies', draft', lastDraftLog)
    BY <1>1, <1>3, <2>1, <2>2, RepointKeepsDirect
  <2>4. "version" \in DOMAIN draft'
    BY <2>2 DEF Repoint
  <2>5. openLogs' # << >> /\ lastDraftLog' = lastDraftLog
    BY <1>3
  <2>6. QED
    BY <2>3, <2>4, <2>5 DEF ExactIInv, DraftLogIsExact
<1>4. CASE /\ openLogs = << >>
           /\ lastDraftLog' = lastDraftLog + 1
           /\ draft' = WithSideEffects(dependencies', Repoint(draft, lastDraftLog + 1, target),
                                       lastDraftLog + 1)
  <2>. DEFINE log == lastDraftLog + 1
              br  == Repoint(draft, log, target)
  <2>1. log \in Nat \ {0} /\ lastDraftLog <= log /\ log <= log
    BY <1>1
  <2>2. DirectLog(dependencies', draft, log)
    BY <1>1, NewLogIsDirect
  <2>. HIDE DEF log
  <2>3. DirectLog(dependencies', br, log)
    BY <1>1, <2>1, <2>2, RepointKeepsDirect
  <2>4. Tables(br) /\ br.version = target /\ Sound(br, log)
    BY <1>1, <2>1, RepointTables, RepointSound
  <2>. HIDE DEF br
  <2>5. draft' = WithSideEffects(dependencies', br, log) /\ lastDraftLog' = log
    BY <1>4 DEF br, log
  <2>6. /\ dependencies' \in [Entities -> Seq(SUBSET Entities)]
        /\ \A e \in Entities : draft'.version[e] \in {None} \cup DOMAIN dependencies'[e]
    BY DEF TypeOK, BranchTypeOK
  <2>7. "version" \in DOMAIN draft' /\ draft'.version = br.version
    BY <2>1, <2>4, <2>5, SideEffectsCloseTheLog
  <2>8. Points(dependencies', br)
    BY <2>6, <2>7 DEF Points
  <2>9. IsExact(dependencies', draft', log)
    BY <2>1, <2>3, <2>4, <2>5, <2>6, <2>8, DirectLogIsExact DEF IsExact
  <2>10. DraftLogIsExact'
    BY <2>5, <2>9, ExactInBranch
  <2>11. QED
    BY <1>4, <2>7, <2>10 DEF ExactIInv
<1>5. QED
  BY <1>2, <1>3, <1>4 DEF ChangeDrafts

\* A new version adds to the versions there are.
LEMMA VersionsStay ==
    ASSUME NEW deps \in [Entities -> Seq(SUBSET Entities)], NEW e \in Entities,
           NEW D \in SUBSET Entities
    PROVE  /\ \A x \in Entities :
                 DOMAIN deps[x] \subseteq DOMAIN [deps EXCEPT ![e] = Append(@, D)][x]
           /\ Len(deps[e]) + 1 \notin DOMAIN deps[e]
           /\ Len(deps[e]) + 1 \in Nat \ {None}
<1>1. \A x \in Entities : [deps EXCEPT ![e] = Append(@, D)][x]
                            = IF x = e THEN Append(deps[x], D) ELSE deps[x]
  OBVIOUS
<1>2. ASSUME NEW x \in Entities PROVE DOMAIN deps[x] \subseteq DOMAIN Append(deps[x], D)
  <2>1. deps[x] \in Seq(SUBSET Entities)
    OBVIOUS
  <2>2. /\ Len(Append(deps[x], D)) = Len(deps[x]) + 1
        /\ Append(deps[x], D) \in Seq(SUBSET Entities)
    BY <2>1, AppendProperties
  <2>3. QED
    BY <2>1, <2>2
<1>3. deps[e] \in Seq(SUBSET Entities)
  OBVIOUS
<1>4. Len(deps[e]) \in Nat /\ DOMAIN deps[e] = 1 .. Len(deps[e])
  BY <1>3
<1>5. QED
  BY <1>1, <1>2, <1>4 DEF None

\* A completed DraftChangeLog has a record for an entity exactly when the
\* entity's draft, or that of something below it, changed in it, when bulk contexts
\* do not nest.
THEOREM DraftLogsAreExact ==
    ASSUME MaxNesting <= 1
    PROVE  Spec => []DraftLogIsExact
<1>1. Init => ExactIInv
  BY DEF Init, ExactIInv, DraftLogIsExact, EmptyBranch
<1>2. TypeOK /\ TypeOK' /\ IInv /\ ExactIInv /\ [Next]_vars => ExactIInv'
  <2>. SUFFICES ASSUME TypeOK, TypeOK', IInv, ExactIInv, [Next]_vars PROVE ExactIInv'
    OBVIOUS
  <2>1. /\ dependencies \in [Entities -> Seq(SUBSET Entities)]
        /\ Points(dependencies, draft)
        /\ draft.version \in [Entities -> Nat] /\ published.version \in [Entities -> Nat]
        /\ Tables(draft) /\ lastDraftLog \in Nat
        /\ openLogs # << >> => DirectLog(dependencies, draft, lastDraftLog)
    BY TypePoints DEF Tables, ExactIInv
  <2>2. ASSUME NEW e \in Entities,
               NEW D \in SUBSET {d \in Entities : Level[d] < Level[e]},
               CreateVersion(e, D)
        PROVE  ExactIInv'
    <3>. DEFINE target == [draft.version EXCEPT ![e] = Len(dependencies[e]) + 1]
    <3>1. /\ dependencies' = [dependencies EXCEPT ![e] = Append(@, D)]
          /\ ChangeDrafts(target)
          /\ UNCHANGED openLogs
      BY <2>2 DEF CreateVersion
    <3>2. /\ \A x \in Entities : DOMAIN dependencies[x] \subseteq DOMAIN dependencies'[x]
          /\ Len(dependencies[e]) + 1 \notin DOMAIN dependencies[e]
          /\ Len(dependencies[e]) + 1 \in Nat \ {None}
      <4>1. D \in SUBSET Entities
        OBVIOUS
      <4>2. \A x \in Entities : DOMAIN dependencies[x]
                                  \subseteq DOMAIN [dependencies EXCEPT ![e] = Append(@, D)][x]
        BY <2>1, <4>1, VersionsStay
      <4>3. /\ Len(dependencies[e]) + 1 \notin DOMAIN dependencies[e]
            /\ Len(dependencies[e]) + 1 \in Nat \ {None}
        BY <2>1, <4>1, VersionsStay
      <4>4. QED
        BY <3>1, <4>2, <4>3
    <3>3. target \in [Entities -> Nat] /\ target[e] # draft.version[e]
      BY <2>1, <3>2 DEF Points
    <3>4. Points(dependencies', draft)
      BY <2>1, <3>2 DEF Points
    <3>5. openLogs # << >> => DirectLog(dependencies', draft, lastDraftLog)
      BY <2>1, <3>2 DEF DirectLog
    <3>. HIDE DEF target
    <3>6. target # draft.version
      BY <3>3
    <3>7. QED
      BY <3>1, <3>3, <3>4, <3>5, <3>6, ChangeDraftsExact
  <2>3. ASSUME NEW e \in Entities, NEW v \in 0 .. MaxVersions, SetDraftVersion(e, v)
        PROVE  ExactIInv'
    <3>. DEFINE target == [draft.version EXCEPT ![e] = v]
    <3>1. ChangeDrafts(target) /\ UNCHANGED openLogs /\ dependencies' = dependencies
      BY <2>3 DEF SetDraftVersion
    <3>2. target \in [Entities -> Nat]
      BY <2>1, BoundsAssumption
    <3>. HIDE DEF target
    <3>3. QED
      BY <2>1, <3>1, <3>2, ChangeDraftsExact
  <2>4. CASE ResetDraftsToPublished
    <3>1. /\ ChangeDrafts(published.version)
          /\ UNCHANGED openLogs
          /\ dependencies' = dependencies
      BY <2>4 DEF ResetDraftsToPublished
    <3>2. QED
      BY <2>1, <3>1, ChangeDraftsExact
  <2>5. CASE BeginBulk
    <3>1. /\ lastDraftLog' = lastDraftLog + 1
          /\ openLogs' = Append(openLogs, lastDraftLog + 1)
          /\ dependencies' = dependencies /\ draft' = draft
      BY <2>5 DEF BeginBulk
    <3>2. openLogs' # << >>
      BY <3>1 DEF TypeOK
    <3>3. DirectLog(dependencies', draft', lastDraftLog')
      BY <2>1, <3>1, NewLogIsDirect DEF IInv
    <3>4. DraftLogIsExact'
      BY <3>2, ExactInBranch
    <3>5. QED
      BY <3>1, <3>3, <3>4 DEF ExactIInv
  <2>6. CASE EndBulk
    <3>1. openLogs # << >> /\ openLogs = <<lastDraftLog>>
      BY <2>6 DEF EndBulk, IInv, WritesLastLog
    <3>2. /\ draft' = WithSideEffects(dependencies, draft, lastDraftLog)
          /\ dependencies' = dependencies
          /\ lastDraftLog' = lastDraftLog
      BY <2>6, <3>1 DEF EndBulk
    <3>3. openLogs' = << >>
      BY <2>6, <3>1 DEF EndBulk
    <3>4. "version" \in DOMAIN draft'
      BY <2>1, <3>2, SideEffectsCloseTheLog
    <3>5. IsExact(dependencies, draft', lastDraftLog)
      <4>1. PICK log \in Nat : log = lastDraftLog
        BY <2>1
      <4>2. log <= log /\ Sound(draft, log)
        BY <4>1 DEF IInv
      <4>3. DirectLog(dependencies, draft, log)
        BY <2>1, <3>1, <4>1
      <4>4. PICK after : after = WithSideEffects(dependencies, draft, log)
        OBVIOUS
      <4>5. /\ dependencies \in [Entities -> Seq(SUBSET Entities)]
            /\ Tables(draft) /\ Points(dependencies, draft)
        BY <2>1
      <4>6. IsExact(dependencies, after, log)
        BY <4>2, <4>3, <4>4, <4>5, DirectLogIsExact DEF IsExact
      <4>7. QED
        BY <3>2, <4>1, <4>4, <4>6
    <3>6. DraftLogIsExact'
      BY <3>2, <3>5, ExactInBranch
    <3>7. QED
      BY <3>3, <3>4, <3>6 DEF ExactIInv
  <2>7. CASE UNCHANGED <<dependencies, draft, lastDraftLog, openLogs>>
    BY <2>7, ExactInBranch DEF ExactIInv
  <2>8. QED
    BY <2>2, <2>3, <2>4, <2>5, <2>6, <2>7
       DEF Next, vars, PublishAllDrafts, PublishFromDrafts
<1>3. ExactIInv => DraftLogIsExact
  BY DEF ExactIInv
<1>4. QED
  BY <1>1, <1>2, <1>3, TypeCorrect, DraftHistoriesConsistent, PTL DEF Spec

-----------------------------------------------------------------------------
(***************************************************************************)
(* What the stored dependencies_hash_digests tell, when                    *)
(* bulk_draft_changes_for contexts do not nest.                            *)
(*                                                                         *)
(* The digests of a branch are canonical: each is made of the versions and *)
(* the digests of the live dependencies, as they are now, although it was  *)
(* stored by some log of the past. While a log is being written that is so *)
(* of the branch as it was before the log. Two branches with canonical     *)
(* digests agree at and below an entity exactly when they agree on its     *)
(* version and its digest.                                                 *)
(***************************************************************************)
\* The log that is being written, or the next one.
DraftLogAtHand == IF openLogs = << >> THEN lastDraftLog + 1 ELSE lastDraftLog

\* The log of the record an entity's row pointed at before `log`, when no record is
\* of a later one.
PriorLog(h, log) ==
    IF InLog(h, log) = {} THEN LatestLog(h)
    ELSE IF Len(h) = 1 THEN NoLog ELSE h[Len(h) - 1].log

\* The digests of a branch before the log.
DigestBefore(br, log) ==
    [e \in Entities |-> StoredDigest(br, e, PriorLog(br.records[e], log))]

\* The dependencies of the version of e that have a version themselves.
LiveAt(deps, version, e) ==
    IF version[e] = None THEN {} ELSE {d \in deps[e][version[e]] : version[d] # None}

\* Every digest is that of the versions and digests of the live dependencies.
Canonical(deps, version, digest) ==
    \A e \in Entities :
        digest[e] = {<<d, version[d], digest[d]>> : d \in LiveAt(deps, version, e)}

\* Digests are those of logs before this one.
DigestsOfLogsBefore(br, log) ==
    \A e \in Entities : \A l \in DOMAIN br.digest[e] : l \in Nat \ {NoLog} /\ l < log

\* Before the log at hand the branch pointed at versions that were created and its
\* digests were canonical.
CanonicalBefore(deps, br, log) ==
    /\ \A e \in Entities : VersionBefore(br, log)[e] \in {None} \cup DOMAIN deps[e]
    /\ Canonical(deps, VersionBefore(br, log), DigestBefore(br, log))
    /\ DigestsOfLogsBefore(br, log)

\* What both branches keep.
DigestsIInv ==
    /\ CanonicalBefore(dependencies, draft, DraftLogAtHand)
    /\ CanonicalBefore(dependencies, published, lastPublishLog + 1)

-----------------------------------------------------------------------------
(***************************************************************************)
(* The digest function                                                     *)
(***************************************************************************)
\* A set of numbers that has one has a least one.
LEMMA LeastNumber ==
    ASSUME NEW T \in SUBSET Nat, T # {}
    PROVE  \E n \in T : \A m \in T : n <= m
<1>1. IsWellFoundedOn(OpToRel(<, Nat), Nat)
  BY NatLessThanWellFounded
<1>2. PICK n \in T : \A m \in T : ~ (<<m, n>> \in OpToRel(<, Nat))
  BY <1>1, WFMin
<1>3. \A m \in T : <<m, n>> \in OpToRel(<, Nat) <=> m < n
  BY DEF OpToRel
<1>4. \A m \in T : ~ (m < n)
  BY <1>2, <1>3
<1>5. \A m \in T : n <= m
  <2>. SUFFICES ASSUME NEW m \in T PROVE n <= m
    OBVIOUS
  <2>1. m \in Nat /\ n \in Nat /\ ~ (m < n)
    BY <1>4
  <2>2. QED
    BY <2>1
<1>6. QED
  BY <1>5

\* The digests of a log, as a function of themselves: those of the entities in
\* `fresh` are computed anew, the others are old.
DigestOf(live, version, fresh, old, f, e) ==
    {<<d, version[d], IF d \in fresh THEN f[d] ELSE old[d]>> : d \in live[e]}

\* f computes them for the entities of the ranks below n.
ComputesUpTo(n, f, live, version, fresh, old) ==
    f = [e \in {x \in Entities : Level[x] < n} |->
            DigestOf(live, version, fresh, old, f, e)]

\* Functions that compute them agree where both do.
LEMMA ComputedOnce ==
    ASSUME NEW live \in [Entities -> SUBSET Entities],
           \A e \in Entities : \A d \in live[e] : Level[d] < Level[e],
           NEW version, NEW fresh, NEW old, NEW n \in Nat, NEW m \in Nat, NEW f, NEW g,
           ComputesUpTo(n, f, live, version, fresh, old),
           ComputesUpTo(m, g, live, version, fresh, old),
           NEW e \in Entities, Level[e] < n, Level[e] < m
    PROVE  f[e] = g[e]
<1>. DEFINE Bad == {x \in Entities : Level[x] < n /\ Level[x] < m /\ f[x] # g[x]}
            Ranks == {Level[x] : x \in Bad}
<1>. SUFFICES ASSUME Bad # {} PROVE FALSE
  OBVIOUS
<1>1. Level \in [Entities -> Nat]
  BY LevelAssumption
<1>2. Ranks \in SUBSET Nat /\ Ranks # {}
  BY <1>1
<1>. HIDE DEF Ranks
<1>3. PICK r \in Ranks : \A k \in Ranks : r <= k
  BY <1>2, LeastNumber
<1>4. PICK x \in Bad : \A y \in Bad : Level[x] <= Level[y]
  BY <1>3 DEF Ranks
<1>5. \A d \in live[x] : f[d] = g[d]
  <2>. SUFFICES ASSUME NEW d \in live[x] PROVE f[d] = g[d]
    OBVIOUS
  <2>1. d \in Entities /\ x \in Entities /\ Level[d] < Level[x]
    OBVIOUS
  <2>2. Level[d] \in Nat /\ Level[x] \in Nat
    BY <1>1, <2>1
  <2>3. ~ (Level[x] <= Level[d]) /\ Level[d] < n /\ Level[d] < m
    BY <2>1, <2>2
  <2>4. QED
    BY <1>4, <2>1, <2>3
<1>6. DigestOf(live, version, fresh, old, f, x) = DigestOf(live, version, fresh, old, g, x)
  BY <1>5 DEF DigestOf
<1>7. /\ f[x] = DigestOf(live, version, fresh, old, f, x)
      /\ g[x] = DigestOf(live, version, fresh, old, g, x)
  BY DEF ComputesUpTo
<1>8. QED
  BY <1>4, <1>6, <1>7

\* They can be computed up to any rank.
LEMMA ComputedUpToEveryRank ==
    ASSUME NEW live \in [Entities -> SUBSET Entities],
           \A e \in Entities : \A d \in live[e] : Level[d] < Level[e],
           NEW version, NEW fresh, NEW old, NEW n \in Nat
    PROVE  \E f : ComputesUpTo(n, f, live, version, fresh, old)
<1>. DEFINE Can(k) == \E f : ComputesUpTo(k, f, live, version, fresh, old)
            Bad == {k \in Nat : ~ Can(k)}
<1>. SUFFICES ASSUME Bad # {} PROVE FALSE
  OBVIOUS
<1>1. Level \in [Entities -> Nat]
  BY LevelAssumption
<1>2. PICK k \in Bad : \A j \in Bad : k <= j
  <2>1. Bad \in SUBSET Nat
    OBVIOUS
  <2>. HIDE DEF Bad
  <2>2. QED
    BY <2>1, LeastNumber
<1>3. k # 0
  <2>1. {x \in Entities : Level[x] < 0} = {}
    BY <1>1
  <2>2. PICK f : f = [e \in {} |-> {}]
    OBVIOUS
  <2>3. ComputesUpTo(0, f, live, version, fresh, old)
    BY <2>1, <2>2 DEF ComputesUpTo
  <2>4. QED
    BY <2>3
<1>4. PICK m \in Nat : k = m + 1
  <2>1. k - 1 \in Nat /\ k = (k - 1) + 1
    BY <1>3
  <2>2. QED
    BY <2>1
<1>5. PICK f : ComputesUpTo(m, f, live, version, fresh, old)
  <2>1. ~ (k <= m)
    BY <1>4
  <2>2. m \notin Bad
    BY <1>2, <2>1
  <2>3. QED
    BY <2>2
<1>. DEFINE g == [e \in {x \in Entities : Level[x] < k} |->
                     DigestOf(live, version, fresh, old, f, e)]
<1>6. \A e \in Entities : Level[e] < m => g[e] = f[e]
  <2>. SUFFICES ASSUME NEW e \in Entities, Level[e] < m PROVE g[e] = f[e]
    OBVIOUS
  <2>1. Level[e] < k
    BY <1>1, <1>4
  <2>2. f[e] = DigestOf(live, version, fresh, old, f, e)
    BY <1>5 DEF ComputesUpTo
  <2>3. QED
    BY <2>1, <2>2
<1>. HIDE DEF g
<1>7. ASSUME NEW e \in Entities, Level[e] < k
      PROVE  DigestOf(live, version, fresh, old, f, e) = DigestOf(live, version, fresh, old, g, e)
  <2>1. \A d \in live[e] : f[d] = g[d]
    <3>. SUFFICES ASSUME NEW d \in live[e] PROVE f[d] = g[d]
      OBVIOUS
    <3>1. d \in Entities /\ Level[d] < Level[e]
      OBVIOUS
    <3>2. Level[d] \in Nat /\ Level[e] \in Nat
      BY <1>1, <3>1
    <3>3. Level[d] < m
      BY <1>4, <1>7, <3>1, <3>2
    <3>4. QED
      BY <1>6, <3>1, <3>3
  <2>2. QED
    BY <2>1 DEF DigestOf
<1>8. g = [e \in {x \in Entities : Level[x] < k} |->
              DigestOf(live, version, fresh, old, g, e)]
  BY <1>7 DEF g
<1>9. ComputesUpTo(k, g, live, version, fresh, old)
  BY <1>8 DEF ComputesUpTo
<1>10. QED
  BY <1>2, <1>9

\* So they can be computed.
LEMMA DigestsExist ==
    ASSUME NEW live \in [Entities -> SUBSET Entities],
           \A e \in Entities : \A d \in live[e] : Level[d] < Level[e],
           NEW version, NEW fresh, NEW old
    PROVE  \E f : f = [e \in Entities |-> DigestOf(live, version, fresh, old, f, e)]
<1>. DEFINE F(n) == CHOOSE f : ComputesUpTo(n, f, live, version, fresh, old)
            h == [e \in Entities |-> F(Level[e] + 1)[e]]
<1>1. Level \in [Entities -> Nat]
  BY LevelAssumption
<1>2. \A n \in Nat : ComputesUpTo(n, F(n), live, version, fresh, old)
  BY ComputedUpToEveryRank
<1>. HIDE DEF F
<1>3. ASSUME NEW e \in Entities
      PROVE  h[e] = DigestOf(live, version, fresh, old, h, e)
  <2>1. Level[e] + 1 \in Nat /\ Level[e] < Level[e] + 1 /\ Level[e] \in Nat
    BY <1>1
  <2>. DEFINE n == Level[e] + 1
              f == F(n)
  <2>2. ComputesUpTo(n, f, live, version, fresh, old)
    BY <1>2, <2>1
  <2>3. f[e] = DigestOf(live, version, fresh, old, f, e)
    BY <2>1, <2>2 DEF ComputesUpTo
  <2>4. \A d \in live[e] : f[d] = h[d]
    <3>. SUFFICES ASSUME NEW d \in live[e] PROVE f[d] = h[d]
      OBVIOUS
    <3>1. d \in Entities /\ Level[d] < Level[e]
      OBVIOUS
    <3>2. Level[d] + 1 \in Nat /\ Level[d] < Level[d] + 1 /\ Level[d] < n
      BY <1>1, <2>1, <3>1
    <3>3. ComputesUpTo(Level[d] + 1, F(Level[d] + 1), live, version, fresh, old)
      BY <1>2, <3>2
    <3>. HIDE DEF n, f
    <3>4. f[d] = F(Level[d] + 1)[d]
      BY <2>1, <2>2, <3>1, <3>2, <3>3, ComputedOnce DEF n
    <3>5. QED
      BY <3>1, <3>4
  <2>5. h[e] = f[e]
    OBVIOUS
  <2>. HIDE DEF f, h
  <2>6. DigestOf(live, version, fresh, old, f, e) = DigestOf(live, version, fresh, old, h, e)
    BY <2>4 DEF DigestOf
  <2>7. QED
    BY <2>3, <2>5, <2>6
<1>4. h = [e \in Entities |-> DigestOf(live, version, fresh, old, h, e)]
  <2>1. h = [e \in Entities |-> h[e]]
    OBVIOUS
  <2>. HIDE DEF h
  <2>2. QED
    BY <1>3, <2>1
<1>5. QED
  BY <1>4

\* hash_for_log_record is the recursion it is written as.
LEMMA HashIsRecursive ==
    ASSUME NEW deps, NEW br, NEW log,
           \A e \in Entities : \A d \in LiveDependencies(deps, br, e, NewVersionIn(br, e, log)) :
               d \in Entities /\ Level[d] < Level[e]
    PROVE  LET hash == HashForLogRecord(deps, br, log)
           IN  \A e \in Entities : hash[e] =
                  {<<d, NewVersionIn(br, d, br.logRecord[d]),
                     IF br.logRecord[d] = log THEN hash[d]
                     ELSE StoredDigest(br, d, br.logRecord[d])>> :
                        d \in LiveDependencies(deps, br, e, NewVersionIn(br, e, log))}
<1>. DEFINE live(e) == LiveDependencies(deps, br, e, NewVersionIn(br, e, log))
            Is(f) == f = [e \in Entities |->
               {<<d, NewVersionIn(br, d, br.logRecord[d]),
                  IF br.logRecord[d] = log THEN f[d]
                  ELSE StoredDigest(br, d, br.logRecord[d])>> : d \in live(e)}]
            Live == [e \in Entities |-> live(e)]
            version == [d \in Entities |-> NewVersionIn(br, d, br.logRecord[d])]
            fresh == {d \in Entities : br.logRecord[d] = log}
            old == [d \in Entities |-> StoredDigest(br, d, br.logRecord[d])]
<1>1. HashForLogRecord(deps, br, log) = CHOOSE f : Is(f)
  BY DEF HashForLogRecord
<1>2. \A e \in Entities : live(e) \subseteq Entities
  OBVIOUS
<1>3. \A f : \A e \in Entities : DigestOf(Live, version, fresh, old, f, e) =
               {<<d, NewVersionIn(br, d, br.logRecord[d]),
                  IF br.logRecord[d] = log THEN f[d]
                  ELSE StoredDigest(br, d, br.logRecord[d])>> : d \in live(e)}
  <2>. SUFFICES ASSUME NEW f, NEW e \in Entities
                PROVE  DigestOf(Live, version, fresh, old, f, e) =
               {<<d, NewVersionIn(br, d, br.logRecord[d]),
                  IF br.logRecord[d] = log THEN f[d]
                  ELSE StoredDigest(br, d, br.logRecord[d])>> : d \in live(e)}
    OBVIOUS
  <2>1. Live[e] = live(e) /\ live(e) \subseteq Entities
    BY <1>2
  <2>2. \A d \in Entities : /\ version[d] = NewVersionIn(br, d, br.logRecord[d])
                            /\ d \in fresh <=> br.logRecord[d] = log
                            /\ old[d] = StoredDigest(br, d, br.logRecord[d])
    OBVIOUS
  <2>. HIDE DEF Live, live, version, fresh, old
  <2>3. QED
    BY <2>1, <2>2 DEF DigestOf
<1>4. \E f : f = [e \in Entities |-> DigestOf(Live, version, fresh, old, f, e)]
  <2>1. Live \in [Entities -> SUBSET Entities]
    BY <1>2
  <2>2. \A e \in Entities : \A d \in Live[e] : Level[d] < Level[e]
    OBVIOUS
  <2>. HIDE DEF Live, version, fresh, old
  <2>3. QED
    BY <2>1, <2>2, DigestsExist
<1>5. \E f : Is(f)
  <2>. HIDE DEF Live, live, version, fresh, old
  <2>1. PICK f : f = [e \in Entities |-> DigestOf(Live, version, fresh, old, f, e)]
    BY <1>4
  <2>2. Is(f)
    BY <1>3, <2>1
  <2>. HIDE DEF Is
  <2>3. QED
    BY <2>2
<1>6. Is(HashForLogRecord(deps, br, log))
  <2>. HIDE DEF Is
  <2>1. QED
    BY <1>1, <1>5
<1>7. QED
  <2>. HIDE DEF live
  <2>1. QED
    BY <1>6 DEF live

-----------------------------------------------------------------------------
(***************************************************************************)
(* What was before a log                                                   *)
(***************************************************************************)
\* The record an entity's row points at is the last of its history.
LEMMA PointsAtLast ==
    ASSUME NEW h, NEW version, NEW ptr, NEW last \in Nat,
           Consistent(h, version, ptr, last), h # << >>
    PROVE  /\ Len(h) \in Nat \ {0}
           /\ InLog(h, ptr) = {Len(h)}
           /\ h[Len(h)].new = version
           /\ ptr \in Nat \ {0}
<1>1. /\ h \in Seq(LogRecord) /\ Len(h) \in Nat \ {0}
      /\ ptr = h[Len(h)].log
      /\ h[Len(h)].new = version
  BY LenProperties, EmptySeq DEF Consistent, LatestLog
<1>2. PICK n \in Nat \ {0} : Len(h) = n
  BY <1>1
<1>3. \A i \in 1 .. n : h[i].log \in Nat \ {0}
  BY <1>2 DEF Consistent
<1>4. \A i \in 1 .. n - 1 : h[i].log < h[i + 1].log
  BY <1>2 DEF Consistent, IsChain
<1>5. \A i \in 1 .. n : h[i].log <= h[n].log
  <2>. DEFINE Bad == {k \in Nat : k < n /\ ~ (h[n - k].log <= h[n].log)}
  <2>1. Bad = {}
    <3>. SUFFICES ASSUME Bad # {} PROVE FALSE
      OBVIOUS
    <3>1. PICK k \in Bad : \A j \in Bad : k <= j
      <4>1. Bad \in SUBSET Nat
        OBVIOUS
      <4>. HIDE DEF Bad
      <4>2. QED
        BY <4>1, LeastNumber
    <3>2. k # 0
      <4>1. n \in 1 .. n /\ n - 0 = n
        OBVIOUS
      <4>2. h[n].log <= h[n].log
        BY <1>3, <4>1
      <4>3. QED
        BY <4>1, <4>2
    <3>3. PICK j \in Nat : k = j + 1
      <4>1. k - 1 \in Nat /\ k = (k - 1) + 1
        BY <3>2
      <4>2. QED
        BY <4>1
    <3>4. ~ (k <= j) /\ j < n
      BY <3>3
    <3>5. h[n - j].log <= h[n].log
      BY <3>1, <3>4
    <3>6. n - k \in 1 .. n - 1 /\ (n - k) + 1 = n - j /\ n - j \in 1 .. n
      BY <3>3, <3>4
    <3>7. h[n - k].log < h[n - j].log
      BY <1>4, <3>6
    <3>8. h[n - k].log \in Nat /\ h[n - j].log \in Nat /\ h[n].log \in Nat
      BY <1>3, <3>6
    <3>9. QED
      BY <3>5, <3>7, <3>8
  <2>2. ASSUME NEW i \in 1 .. n PROVE h[i].log <= h[n].log
    <3>1. n - i \in Nat /\ n - i < n /\ n - (n - i) = i
      OBVIOUS
    <3>2. n - i \notin Bad
      BY <2>1
    <3>3. QED
      BY <3>1, <3>2
  <2>3. QED
    BY <2>2
<1>6. ptr \in Nat \ {0}
  BY <1>1, <1>2, <1>3
<1>7. \A i \in 1 .. Len(h) : h[i].log \in 1 .. ptr
  BY <1>1, <1>2, <1>3, <1>5
<1>8. Consistent(h, version, ptr, ptr)
  BY <1>7 DEF Consistent
<1>9. InLog(h, ptr) # {}
  BY <1>1 DEF InLog
<1>10. InLog(h, ptr) = {Len(h)}
  <2>1. ptr \in Nat /\ ptr <= ptr
    BY <1>6
  <2>2. QED
    BY <1>8, <1>9, <2>1, RecordIsLast
<1>11. QED
  BY <1>1, <1>6, <1>10

\* A new record starts where the history ended.
LEMMA AppendKeepsPrior ==
    ASSUME NEW h \in Seq(LogRecord), NEW log \in Nat, NEW old \in Nat, NEW new \in Nat,
           InLog(h, log) = {}
    PROVE  LET g == Append(h, [log |-> log, old |-> old, new |-> new])
           IN  /\ \A version : Before(g, version, log) = old
               /\ PriorLog(g, log) = PriorLog(h, log)
<1>. DEFINE r == [log |-> log, old |-> old, new |-> new]
            g == Append(h, r)
<1>1. InLog(g, log) = {Len(h) + 1} /\ g[Len(h) + 1] = r
  BY AppendedIsInLog
<1>2. /\ Len(h) \in Nat /\ Len(g) = Len(h) + 1
      /\ \A i \in 1 .. Len(h) : g[i] = h[i]
  BY AppendProperties DEF LogRecord
<1>3. r.old = old
  OBVIOUS
<1>4. h = << >> <=> Len(h) = 0
  BY EmptySeq
<1>. HIDE DEF g, r
<1>5. (CHOOSE i \in InLog(g, log) : TRUE) = Len(h) + 1
  BY <1>1
<1>6. \A version : Before(g, version, log) = old
  BY <1>1, <1>3, <1>5 DEF Before
<1>7. PriorLog(h, log) = LatestLog(h)
  BY DEF PriorLog
<1>8. PriorLog(g, log) = IF Len(g) = 1 THEN NoLog ELSE g[Len(g) - 1].log
  BY <1>1 DEF PriorLog
<1>9. CASE Len(h) = 0
  BY <1>2, <1>4, <1>6, <1>7, <1>8, <1>9 DEF LatestLog, g, r
<1>10. CASE Len(h) # 0
  <2>1. Len(g) # 1 /\ Len(g) - 1 = Len(h) /\ Len(h) \in 1 .. Len(h)
    BY <1>2, <1>10
  <2>2. PriorLog(g, log) = h[Len(h)].log
    BY <1>2, <1>8, <2>1
  <2>3. LatestLog(h) = h[Len(h)].log
    BY <1>4, <1>10 DEF LatestLog
  <2>4. QED
    BY <1>6, <1>7, <2>2, <2>3 DEF g, r
<1>11. QED
  BY <1>9, <1>10

\* _add_to_existing_draft_change_log changes nothing of what was before the log.
LEMMA AddKeepsPrior ==
    ASSUME NEW h, NEW version \in Nat, NEW ptr, NEW last \in Nat, NEW log \in Nat \ {0},
           NEW new \in Nat, Consistent(h, version, ptr, last), last <= log
    PROVE  LET g == AddToChangeLog(h, log, version, new)
           IN  /\ Before(g, new, log) = Before(h, version, log)
               /\ PriorLog(g, log) = PriorLog(h, log)
<1>. DEFINE g == AddToChangeLog(h, log, version, new)
<1>1. h \in Seq(LogRecord)
  BY DEF Consistent
<1>2. CASE InLog(h, log) = {}
  <2>1. g = Append(h, [log |-> log, old |-> version, new |-> new])
    BY <1>2 DEF AddToChangeLog
  <2>2. Before(h, version, log) = version
    BY <1>2 DEF Before
  <2>3. Before(g, new, log) = version /\ PriorLog(g, log) = PriorLog(h, log)
    BY <1>1, <1>2, <2>1, AppendKeepsPrior
  <2>4. QED
    BY <2>2, <2>3
<1>3. CASE InLog(h, log) # {}
  <2>1. PICK m \in Nat : /\ Len(h) = m + 1
                         /\ InLog(h, log) = {m + 1}
                         /\ \A i \in 1 .. m : h[i].log < log
    <3>1. Len(h) - 1 \in Nat /\ Len(h) = (Len(h) - 1) + 1
      BY <1>3, RecordIsLast
    <3>2. QED
      BY <1>3, <3>1, RecordIsLast
  <2>2. (CHOOSE i \in InLog(h, log) : TRUE) = m + 1
    BY <2>1
  <2>3. \A i \in 1 .. m : h[i].log \in Nat /\ h[i].log # log
    <3>1. \A i \in 1 .. m : h[i].log \in 1 .. last
      BY <2>1 DEF Consistent
    <3>2. QED
      BY <2>1, <3>1
  <2>4. Before(h, version, log) = h[m + 1].old
    BY <1>3, <2>2 DEF Before
  <2>5. PriorLog(h, log) = IF m = 0 THEN NoLog ELSE h[m].log
    <3>1. (m + 1 = 1) <=> (m = 0)
      OBVIOUS
    <3>2. (m + 1) - 1 = m
      OBVIOUS
    <3>3. QED
      BY <1>3, <2>1, <3>1, <3>2 DEF PriorLog
  <2>6. CASE h[m + 1].old = new
    <3>1. g = RemoveAt(h, m + 1)
      BY <1>3, <2>2, <2>6 DEF AddToChangeLog
    <3>2. Len(g) = m /\ \A i \in 1 .. m : g[i] = h[i]
      BY <1>1, <2>1, <3>1, RemoveLast
    <3>3. g \in Seq(LogRecord)
      BY <1>1, AddToChangeLogType
    <3>. HIDE DEF g
    <3>4. InLog(g, log) = {}
      BY <2>3, <3>2 DEF InLog
    <3>5. g = << >> <=> m = 0
      BY <3>2, <3>3, EmptySeq
    <3>6. m # 0 => m \in 1 .. m
      OBVIOUS
    <3>7. PriorLog(g, log) = IF m = 0 THEN NoLog ELSE h[m].log
      BY <3>2, <3>4, <3>5, <3>6 DEF PriorLog, LatestLog
    <3>8. Before(g, new, log) = new
      BY <3>4 DEF Before
    <3>9. QED
      BY <2>4, <2>5, <2>6, <3>7, <3>8 DEF g
  <2>7. CASE h[m + 1].old # new
    <3>. DEFINE r == [log |-> log, old |-> h[m + 1].old, new |-> new]
    <3>1. g = [h EXCEPT ![m + 1] = r]
      BY <1>3, <2>2, <2>7 DEF AddToChangeLog
    <3>2. /\ Len(g) = m + 1
          /\ \A i \in 1 .. m : g[i] = h[i]
          /\ g[m + 1] = r
      <4>1. m + 1 \in 1 .. Len(h) /\ h[m + 1] \in LogRecord
        BY <1>1, <2>1, ElementOfSeq
      <4>2. r \in LogRecord
        BY <4>1 DEF LogRecord
      <4>3. QED
        BY <1>1, <2>1, <3>1, <4>1, <4>2, ExceptSeq
    <3>. HIDE DEF g
    <3>3. r.old = h[m + 1].old /\ r.log = log
      OBVIOUS
    <3>4. InLog(g, log) = {m + 1}
      BY <2>3, <3>2, <3>3 DEF InLog
    <3>5. (CHOOSE i \in InLog(g, log) : TRUE) = m + 1
      BY <3>4
    <3>6. Before(g, new, log) = h[m + 1].old
      BY <3>2, <3>3, <3>4, <3>5 DEF Before
    <3>7. PriorLog(g, log) = IF m = 0 THEN NoLog ELSE h[m].log
      <4>1. (m + 1 = 1) <=> (m = 0)
        OBVIOUS
      <4>2. (m + 1) - 1 = m /\ (m # 0 => m \in 1 .. m)
        OBVIOUS
      <4>3. QED
        BY <3>2, <3>4, <4>1, <4>2 DEF PriorLog
    <3>8. QED
      BY <2>4, <2>5, <3>6, <3>7 DEF g
  <2>8. QED
    BY <2>6, <2>7
<1>4. QED
  BY <1>2, <1>3

\* What a branch was before a log depends on its histories alone.
LEMMA SameBefore ==
    ASSUME NEW br, NEW after, NEW log,
           \A e \in Entities :
              /\ Before(after.records[e], after.version[e], log)
                   = Before(br.records[e], br.version[e], log)
              /\ PriorLog(after.records[e], log) = PriorLog(br.records[e], log),
           after.digest = br.digest
    PROVE  /\ VersionBefore(after, log) = VersionBefore(br, log)
           /\ DigestBefore(after, log) = DigestBefore(br, log)
           /\ DigestsOfLogsBefore(br, log) => DigestsOfLogsBefore(after, log)
<1>1. VersionBefore(after, log)
        = [e \in Entities |-> Before(after.records[e], after.version[e], log)]
  BY DEF VersionBefore, Before
<1>2. VersionBefore(br, log) = [e \in Entities |-> Before(br.records[e], br.version[e], log)]
  BY DEF VersionBefore, Before
<1>3. VersionBefore(after, log) = VersionBefore(br, log)
  BY <1>1, <1>2
<1>4. \A e, l : StoredDigest(after, e, l) = StoredDigest(br, e, l)
  BY DEF StoredDigest
<1>5. DigestBefore(after, log) = DigestBefore(br, log)
  BY <1>4 DEF DigestBefore
<1>6. QED
  BY <1>3, <1>5 DEF DigestsOfLogsBefore

\* A change of drafts leaves what was before its log.
LEMMA RepointKeepsBefore ==
    ASSUME NEW deps, NEW br, NEW last \in Nat, NEW log \in Nat \ {0},
           NEW target \in [Entities -> Nat],
           Tables(br), Sound(br, last), last <= log, CanonicalBefore(deps, br, log)
    PROVE  CanonicalBefore(deps, Repoint(br, log, target), log)
<1>. DEFINE after == Repoint(br, log, target)
<1>1. ASSUME NEW e \in Entities
      PROVE  /\ Before(after.records[e], after.version[e], log)
                  = Before(br.records[e], br.version[e], log)
             /\ PriorLog(after.records[e], log) = PriorLog(br.records[e], log)
  <2>1. /\ Consistent(br.records[e], br.version[e], br.logRecord[e], last)
        /\ br.version[e] \in Nat /\ target[e] \in Nat
    BY DEF Sound, Tables
  <2>2. after.version[e] = target[e]
    BY DEF Repoint
  <2>3. CASE target[e] = br.version[e]
    <3>1. after.records[e] = br.records[e]
      BY <2>3 DEF Repoint
    <3>2. QED
      BY <2>2, <2>3, <3>1
  <2>4. CASE target[e] # br.version[e]
    <3>1. after.records[e] = AddToChangeLog(br.records[e], log, br.version[e], target[e])
      BY <2>4 DEF Repoint
    <3>2. QED
      BY <2>1, <2>2, <3>1, AddKeepsPrior
  <2>5. QED
    BY <2>3, <2>4
<1>2. after.digest = br.digest
  BY DEF Repoint
<1>. HIDE DEF after
<1>3. QED
  BY <1>1, <1>2, SameBefore DEF CanonicalBefore, after

\* Publishing leaves what was before its log.
LEMMA RecordPublishKeepsBefore ==
    ASSUME NEW deps, NEW br, NEW last \in Nat, NEW P,
           Tables(br), Tables(draft), Sound(br, last), CanonicalBefore(deps, br, last + 1)
    PROVE  CanonicalBefore(deps, RecordPublish(br, last + 1, P), last + 1)
<1>. DEFINE log == last + 1
            after == RecordPublish(br, log, P)
<1>1. ASSUME NEW e \in Entities
      PROVE  /\ Before(after.records[e], after.version[e], log)
                  = Before(br.records[e], br.version[e], log)
             /\ PriorLog(after.records[e], log) = PriorLog(br.records[e], log)
  <2>1. /\ Consistent(br.records[e], br.version[e], br.logRecord[e], last)
        /\ br.records[e] \in Seq(LogRecord)
        /\ br.version[e] \in Nat /\ draft.version[e] \in Nat /\ log \in Nat
    BY DEF Sound, Tables
  <2>2. InLog(br.records[e], log) = {}
    BY <2>1 DEF Consistent, InLog
  <2>3. Before(br.records[e], br.version[e], log) = br.version[e]
    BY <2>2 DEF Before
  <2>4. CASE e \notin P
    BY <2>4 DEF RecordPublish
  <2>5. CASE e \in P
    <3>1. after.records[e] = Append(br.records[e],
              [log |-> log, old |-> br.version[e], new |-> draft.version[e]])
      BY <2>5 DEF RecordPublish
    <3>. HIDE DEF log, after
    <3>2. QED
      BY <2>1, <2>2, <2>3, <3>1, AppendKeepsPrior
  <2>6. QED
    BY <2>4, <2>5
<1>2. after.digest = br.digest
  BY DEF RecordPublish
<1>. HIDE DEF after, log
<1>3. CanonicalBefore(deps, br, log) => CanonicalBefore(deps, after, log)
  BY <1>1, <1>2, SameBefore DEF CanonicalBefore
<1>4. QED
  BY <1>3 DEF after, log

\* Before the next log a branch is as it is.
LEMMA BeforeTheNextLog ==
    ASSUME NEW br, NEW last \in Nat, Tables(br), Sound(br, last)
    PROVE  /\ VersionBefore(br, last + 1) = br.version
           /\ DigestBefore(br, last + 1)
                = [e \in Entities |-> StoredDigest(br, e, br.logRecord[e])]
<1>1. \A e \in Entities : InLog(br.records[e], last + 1) = {}
  BY DEF Sound, Consistent, InLog
<1>2. br.version = [e \in Entities |-> br.version[e]]
  BY DEF Tables
<1>3. VersionBefore(br, last + 1) = br.version
  BY <1>1, <1>2 DEF VersionBefore
<1>4. \A e \in Entities : PriorLog(br.records[e], last + 1) = br.logRecord[e]
  BY <1>1 DEF PriorLog, Sound, Consistent
<1>5. QED
  BY <1>3, <1>4 DEF DigestBefore

-----------------------------------------------------------------------------
(***************************************************************************)
(* Logs leave the digests canonical                                        *)
(***************************************************************************)
\* Versions depend on entities of lower rank.
GoesDown(deps) ==
    \A e \in Entities : \A v \in DOMAIN deps[e] : \A d \in deps[e][v] :
        d \in Entities /\ Level[d] < Level[e]

\* With its side effects the log has recomputed every digest that can have changed:
\* entities outside of it have neither changed nor depend on one that has.
LEMMA SideEffectsAreCanonical ==
    ASSUME NEW deps, NEW br, NEW last \in Nat, NEW log \in Nat \ {0},
           Tables(br), Sound(br, last), last <= log, Points(deps, br), GoesDown(deps),
           CanonicalBefore(deps, br, log),
           NEW after, after = WithSideEffects(deps, br, log)
    PROVE  Canonical(deps, after.version,
                     [e \in Entities |-> StoredDigest(after, e, after.logRecord[e])])
<1>. DEFINE mid == WithSideEffectRecords(deps, br, log)
            hash == HashForLogRecord(deps, mid, log)
            X == ChangedIn(after, log)
            digest == [e \in Entities |-> StoredDigest(after, e, after.logRecord[e])]
            v(e) == br.version[e]
<1>1. /\ Tables(after)
      /\ after.version = br.version
      /\ Sound(after, log)
      /\ VersionBefore(after, log) = VersionBefore(br, log)
      /\ IsClosed(deps, after, X)
  BY SideEffectsTables, SideEffectsSound, SideEffectsCloseTheLog
<1>2. /\ mid.version = br.version
      /\ mid.logRecord = after.logRecord
      /\ mid.records = after.records
      /\ mid.digest = br.digest
  BY DEF WithSideEffects, WithDigests, WithSideEffectRecords
<1>3. X = ChangedIn(mid, log)
  BY <1>2 DEF ChangedIn
<1>4. \A e \in Entities : after.digest[e] =
          IF e \in X /\ LiveDependencies(deps, mid, e, NewVersionIn(mid, e, log)) # {}
            THEN [l \in (DOMAIN br.digest[e]) \cup {log} |->
                    IF l = log THEN hash[e] ELSE br.digest[e][l]]
            ELSE br.digest[e]
  <2>1. after = WithDigests(deps, mid, log)
    BY DEF WithSideEffects
  <2>. HIDE DEF mid, X
  <2>2. \A e \in Entities : after.digest[e] =
          IF e \in {x \in ChangedIn(mid, log) :
                      LiveDependencies(deps, mid, x, NewVersionIn(mid, x, log)) # {}}
            THEN [l \in (DOMAIN mid.digest[e]) \cup {log} |->
                    IF l = log THEN hash[e] ELSE mid.digest[e][l]]
            ELSE mid.digest[e]
    BY <2>1 DEF WithDigests
  <2>. HIDE DEF hash
  <2>3. QED
    BY <1>2, <1>3, <2>2
<1>. HIDE DEF mid, hash
<1>5. \A e \in Entities : Consistent(mid.records[e], v(e), mid.logRecord[e], log)
  BY <1>1, <1>2 DEF Sound
<1>6. \A e \in Entities : e \in X <=> InLog(mid.records[e], log) # {}
  BY <1>3 DEF ChangedIn
<1>. HIDE DEF X
<1>7. ASSUME NEW e \in Entities
      PROVE  /\ e \in X <=> mid.logRecord[e] = log
             /\ v(e) # None => NewVersionIn(mid, e, mid.logRecord[e]) = v(e)
             /\ NewVersionIn(mid, e, log) = IF e \in X THEN v(e) ELSE None
  <2>1. log \in Nat /\ log <= log
    OBVIOUS
  <2>2. CASE mid.records[e] = << >>
    <3>1. InLog(mid.records[e], log) = {}
      BY <2>2 DEF InLog
    <3>2. mid.logRecord[e] = NoLog /\ v(e) = None
      BY <1>5, <2>2 DEF Consistent, LatestLog
    <3>3. QED
      BY <1>6, <3>1, <3>2 DEF NewVersionIn, NoLog
  <2>3. CASE mid.records[e] # << >>
    <3>1. /\ InLog(mid.records[e], mid.logRecord[e]) = {Len(mid.records[e])}
          /\ mid.records[e][Len(mid.records[e])].new = v(e)
      BY <1>5, <2>1, <2>3, PointsAtLast
    <3>2. InLog(mid.records[e], log) # {} => mid.logRecord[e] = log
      BY <1>5, <2>1, PointsAtCurrent
    <3>3. NewVersionIn(mid, e, mid.logRecord[e]) = v(e)
      <4>1. (CHOOSE i \in InLog(mid.records[e], mid.logRecord[e]) : TRUE) = Len(mid.records[e])
        BY <3>1
      <4>2. QED
        BY <3>1, <4>1 DEF NewVersionIn
    <3>4. e \in X <=> mid.logRecord[e] = log
      BY <1>6, <3>1, <3>2
    <3>5. e \notin X => NewVersionIn(mid, e, log) = None
      BY <1>6 DEF NewVersionIn
    <3>6. QED
      BY <3>3, <3>4, <3>5
  <2>4. QED
    BY <2>2, <2>3
<1>8. \A e \in Entities : LiveDependencies(deps, mid, e, v(e)) = LiveAt(deps, after.version, e)
  BY <1>1, <1>2 DEF LiveDependencies, LiveAt
<1>9. \A e \in Entities : \A d \in LiveAt(deps, after.version, e) :
          d \in Entities /\ Level[d] < Level[e] /\ v(d) # None
  BY <1>1 DEF LiveAt, Points, GoesDown
<1>10. \A e \in Entities :
          LiveDependencies(deps, mid, e, NewVersionIn(mid, e, log))
            = IF e \in X THEN LiveAt(deps, after.version, e) ELSE {}
  BY <1>7, <1>8 DEF LiveDependencies
<1>11. \A e \in X \cap Entities : hash[e] =
          {<<d, v(d), IF d \in X THEN hash[d] ELSE StoredDigest(mid, d, mid.logRecord[d])>> :
              d \in LiveAt(deps, after.version, e)}
  <2>1. \A e \in Entities : \A d \in LiveDependencies(deps, mid, e, NewVersionIn(mid, e, log)) :
            d \in Entities /\ Level[d] < Level[e]
    BY <1>9, <1>10
  <2>2. \A e \in Entities : hash[e] =
            {<<d, NewVersionIn(mid, d, mid.logRecord[d]),
               IF mid.logRecord[d] = log THEN hash[d]
               ELSE StoredDigest(mid, d, mid.logRecord[d])>> :
                  d \in LiveDependencies(deps, mid, e, NewVersionIn(mid, e, log))}
    BY <2>1, HashIsRecursive DEF hash
  <2>. SUFFICES ASSUME NEW e \in X \cap Entities
                PROVE  hash[e] =
          {<<d, v(d), IF d \in X THEN hash[d] ELSE StoredDigest(mid, d, mid.logRecord[d])>> :
              d \in LiveAt(deps, after.version, e)}
    OBVIOUS
  <2>3. hash[e] =
            {<<d, NewVersionIn(mid, d, mid.logRecord[d]),
               IF mid.logRecord[d] = log THEN hash[d]
               ELSE StoredDigest(mid, d, mid.logRecord[d])>> :
                  d \in LiveAt(deps, after.version, e)}
    BY <1>10, <2>2
  <2>4. \A d \in LiveAt(deps, after.version, e) :
            /\ NewVersionIn(mid, d, mid.logRecord[d]) = v(d)
            /\ mid.logRecord[d] = log <=> d \in X
    BY <1>7, <1>9
  <2>. HIDE DEF v
  <2>5. QED
    BY <2>3, <2>4
<1>12. ASSUME NEW e \in X \cap Entities PROVE digest[e] = hash[e]
  <2>1. after.logRecord[e] = log
    BY <1>2, <1>7
  <2>2. log \notin DOMAIN br.digest[e]
    BY DEF CanonicalBefore, DigestsOfLogsBefore
  <2>3. CASE LiveAt(deps, after.version, e) = {}
    <3>1. after.digest[e] = br.digest[e]
      BY <1>4, <1>10, <2>3
    <3>2. digest[e] = Blank
      BY <2>1, <2>2, <3>1 DEF StoredDigest
    <3>3. hash[e] = {}
      BY <1>11, <2>3
    <3>4. QED
      BY <3>2, <3>3 DEF Blank
  <2>4. CASE LiveAt(deps, after.version, e) # {}
    <3>1. after.digest[e] = [l \in (DOMAIN br.digest[e]) \cup {log} |->
                               IF l = log THEN hash[e] ELSE br.digest[e][l]]
      BY <1>4, <1>10, <2>4
    <3>2. QED
      BY <2>1, <3>1 DEF StoredDigest
  <2>5. QED
    BY <2>3, <2>4
<1>13. ASSUME NEW e \in Entities \ X
       PROVE  /\ digest[e] = StoredDigest(mid, e, mid.logRecord[e])
              /\ digest[e] = DigestBefore(br, log)[e]
              /\ v(e) = VersionBefore(br, log)[e]
  <2>1. after.digest[e] = mid.digest[e]
    BY <1>2, <1>4
  <2>2. digest[e] = StoredDigest(mid, e, mid.logRecord[e])
    BY <1>2, <2>1 DEF StoredDigest
  <2>3. InLog(after.records[e], log) = {}
    BY <1>2, <1>6
  <2>4. v(e) = VersionBefore(br, log)[e]
    BY <1>1, <2>3 DEF VersionBefore
  <2>5. br.records[e] = after.records[e]
    <3>1. \/ after.records[e] = br.records[e]
          \/ after.records[e] = Append(br.records[e], [log |-> log, old |-> v(e), new |-> v(e)])
             /\ InLog(br.records[e], log) = {}
      BY DEF WithSideEffects, WithDigests, WithSideEffectRecords
    <3>2. ASSUME InLog(br.records[e], log) = {}
          PROVE  InLog(Append(br.records[e], [log |-> log, old |-> v(e), new |-> v(e)]), log) # {}
      <4>1. br.records[e] \in Seq(LogRecord) /\ v(e) \in Nat /\ log \in Nat
        BY DEF Tables
      <4>. HIDE DEF v
      <4>2. InLog(Append(br.records[e], [log |-> log, old |-> v(e), new |-> v(e)]), log)
              = {Len(br.records[e]) + 1}
        BY <3>2, <4>1, AppendedIsInLog
      <4>3. QED
        BY <4>2
    <3>3. QED
      BY <2>3, <3>1, <3>2
  <2>6. PriorLog(br.records[e], log) = after.logRecord[e]
    BY <1>1, <2>3, <2>5 DEF PriorLog, Sound, Consistent
  <2>7. DigestBefore(br, log)[e] = StoredDigest(br, e, after.logRecord[e])
    BY <2>6 DEF DigestBefore
  <2>8. QED
    BY <1>2, <2>2, <2>4, <2>7 DEF StoredDigest
<1>14. ASSUME NEW e \in X \cap Entities
       PROVE  digest[e] = {<<d, after.version[d], digest[d]>> :
                              d \in LiveAt(deps, after.version, e)}
  <2>1. digest[e] = {<<d, v(d), IF d \in X THEN hash[d]
                                ELSE StoredDigest(mid, d, mid.logRecord[d])>> :
                        d \in LiveAt(deps, after.version, e)}
    BY <1>11, <1>12
  <2>2. \A d \in LiveAt(deps, after.version, e) :
            (IF d \in X THEN hash[d] ELSE StoredDigest(mid, d, mid.logRecord[d])) = digest[d]
    <3>. HIDE DEF digest
    <3>1. QED
      BY <1>9, <1>12, <1>13
  <2>3. \A d : v(d) = after.version[d]
    BY <1>1
  <2>. HIDE DEF digest, v
  <2>4. QED
    BY <2>1, <2>2, <2>3
<1>15. ASSUME NEW e \in Entities \ X
       PROVE  digest[e] = {<<d, after.version[d], digest[d]>> :
                              d \in LiveAt(deps, after.version, e)}
  <2>. DEFINE w == VersionBefore(br, log)
              old == DigestBefore(br, log)
  <2>1. old[e] = {<<d, w[d], old[d]>> : d \in LiveAt(deps, w, e)}
    BY DEF CanonicalBefore, Canonical
  <2>2. after.version[e] = w[e] /\ digest[e] = old[e]
    BY <1>1, <1>13
  <2>3. after.version[e] # None =>
          \A d \in deps[e][after.version[e]] : d \in Entities \ X
    <3>. SUFFICES ASSUME after.version[e] # None, NEW d \in deps[e][after.version[e]]
                  PROVE  d \in Entities \ X
      OBVIOUS
    <3>1. d \in Entities
      BY <1>1 DEF Points, GoesDown
    <3>2. d \notin X
      BY <1>1 DEF IsClosed, DependentsOf
    <3>3. QED
      BY <3>1, <3>2
  <2>4. \A d \in Entities \ X : after.version[d] = w[d] /\ digest[d] = old[d]
    BY <1>1, <1>13
  <2>. HIDE DEF w, old, digest
  <2>5. LiveAt(deps, w, e) = LiveAt(deps, after.version, e)
    BY <2>2, <2>3, <2>4 DEF LiveAt
  <2>6. \A d \in LiveAt(deps, after.version, e) : after.version[d] = w[d] /\ digest[d] = old[d]
    BY <2>3, <2>4 DEF LiveAt
  <2>7. QED
    BY <2>1, <2>2, <2>5, <2>6
<1>16. QED
  <2>. HIDE DEF digest
  <2>1. Canonical(deps, after.version, digest)
    BY <1>14, <1>15 DEF Canonical
  <2>2. QED
    BY <2>1 DEF digest

\* So that before the next log all is canonical again.
LEMMA LogKeepsCanonical ==
    ASSUME NEW deps, NEW br, NEW last \in Nat, NEW log \in Nat \ {0},
           Tables(br), Sound(br, last), last <= log, Points(deps, br), GoesDown(deps),
           CanonicalBefore(deps, br, log),
           NEW after, after = WithSideEffects(deps, br, log)
    PROVE  CanonicalBefore(deps, after, log + 1)
<1>1. /\ Tables(after)
      /\ after.version = br.version
      /\ Sound(after, log)
  BY SideEffectsTables, SideEffectsSound
<1>2. /\ VersionBefore(after, log + 1) = after.version
      /\ DigestBefore(after, log + 1)
           = [e \in Entities |-> StoredDigest(after, e, after.logRecord[e])]
  BY <1>1, BeforeTheNextLog
<1>3. Canonical(deps, after.version,
                [e \in Entities |-> StoredDigest(after, e, after.logRecord[e])])
  BY SideEffectsAreCanonical
<1>4. DigestsOfLogsBefore(after, log + 1)
  <2>1. \A e \in Entities : DOMAIN after.digest[e] \subseteq DOMAIN br.digest[e] \cup {log}
    BY DEF WithSideEffects, WithDigests, WithSideEffectRecords
  <2>2. \A e \in Entities : \A l \in DOMAIN br.digest[e] : l \in Nat \ {NoLog} /\ l < log
    BY DEF CanonicalBefore, DigestsOfLogsBefore
  <2>3. \A l \in Nat : (l < log => l < log + 1) /\ log < log + 1 /\ log \in Nat \ {NoLog}
    BY DEF NoLog
  <2>4. QED
    BY <2>1, <2>2, <2>3 DEF DigestsOfLogsBefore
<1>5. QED
  BY <1>1, <1>2, <1>3, <1>4 DEF CanonicalBefore, Points

-----------------------------------------------------------------------------
(***************************************************************************)
(* What canonical digests tell                                             *)
(***************************************************************************)
\* The same version and digest: the same below.
LEMMA SameDigestSameBelow ==
    ASSUME NEW deps \in [Entities -> Seq(SUBSET Entities)], NEW br, NEW other,
           Points(deps, br), Points(deps, other), NEW digest, NEW digest2,
           Canonical(deps, br.version, digest), Canonical(deps, other.version, digest2),
           NEW e \in Entities, br.version[e] = other.version[e], digest[e] = digest2[e]
    PROVE  TreeOf(deps, br, e) = TreeOf(deps, other, e)
<1>. DEFINE v == br.version
            w == other.version
            G == {d \in Entities : v[d] = w[d] /\ digest[d] = digest2[d]}
<1>1. \A x \in {e} \cup G : br.version[x] # None => deps[x][br.version[x]] \subseteq G
  <2>. SUFFICES ASSUME NEW x \in G, v[x] # None, NEW d \in deps[x][v[x]]
                PROVE  d \in G
    OBVIOUS
  <2>1. d \in Entities
    BY VersionDependsOnEntities
  <2>2. /\ digest[x] = {<<y, v[y], digest[y]>> : y \in LiveAt(deps, v, x)}
        /\ digest2[x] = {<<y, w[y], digest2[y]>> : y \in LiveAt(deps, w, x)}
        /\ digest[x] = digest2[x] /\ v[x] = w[x]
    BY DEF Canonical
  <2>3. CASE v[d] # None
    <3>1. d \in LiveAt(deps, v, x)
      BY <2>3 DEF LiveAt
    <3>2. <<d, v[d], digest[d]>> \in digest2[x]
      BY <2>2, <3>1
    <3>3. PICK y \in LiveAt(deps, w, x) : <<d, v[d], digest[d]>> = <<y, w[y], digest2[y]>>
      BY <2>2, <3>2
    <3>4. QED
      BY <2>1, <3>3
  <2>4. CASE w[d] # None
    <3>1. d \in LiveAt(deps, w, x)
      BY <2>2, <2>4 DEF LiveAt
    <3>2. <<d, w[d], digest2[d]>> \in digest[x]
      BY <2>2, <3>1
    <3>3. PICK y \in LiveAt(deps, v, x) : <<d, w[d], digest2[d]>> = <<y, v[y], digest[y]>>
      BY <2>2, <3>2
    <3>4. QED
      BY <2>1, <3>3
  <2>5. CASE v[d] = None /\ w[d] = None
    <3>1. LiveAt(deps, v, d) = {} /\ LiveAt(deps, w, d) = {}
      BY <2>5 DEF LiveAt
    <3>2. digest[d] = {} /\ digest2[d] = {}
      <4>. HIDE DEF v, w
      <4>1. /\ digest[d] = {<<y, v[y], digest[y]>> : y \in LiveAt(deps, v, d)}
            /\ digest2[d] = {<<y, w[y], digest2[y]>> : y \in LiveAt(deps, w, d)}
        BY <2>1 DEF Canonical, v, w
      <4>2. QED
        BY <3>1, <4>1
    <3>3. QED
      BY <2>1, <2>5, <3>2
  <2>6. QED
    BY <2>3, <2>4, <2>5
<1>2. Descendants(deps, br, {e}) \subseteq G
  <2>1. G \in SUBSET Entities
    OBVIOUS
  <2>. HIDE DEF G
  <2>2. QED
    BY <1>1, <2>1, DescendantsAreLeast
<1>3. \A d \in {e} \cup Descendants(deps, br, {e}) : br.version[d] = other.version[d]
  BY <1>2
<1>4. QED
  BY <1>3, AgreeBelow

\* A difference at or below an entity on one of the branches shows.
LEMMA DifferenceBelowShows ==
    ASSUME NEW deps \in [Entities -> Seq(SUBSET Entities)], NEW br, NEW other,
           Points(deps, br), NEW e \in Entities,
           NEW y, y \in {e} \cup Descendants(deps, br, {e}),
           br.version[y] # other.version[y]
    PROVE  TreeOf(deps, br, e) # TreeOf(deps, other, e)
<1>. SUFFICES ASSUME TreeOf(deps, br, e) = TreeOf(deps, other, e) PROVE FALSE
  OBVIOUS
<1>. DEFINE v == br.version
            w == other.version
            D == Descendants(deps, br, {e})
            F == Descendants(deps, other, {e})
            T == {d \in D \cap F : v[d] = w[d]}
<1>1. /\ D \subseteq Entities
      /\ \A x \in {e} \cup D : v[x] # None => deps[x][v[x]] \cap Entities \subseteq D
      /\ \A C \in SUBSET Entities :
            (\A x \in {e} \cup C : v[x] # None => deps[x][v[x]] \subseteq C) => D \subseteq C
  BY DescendantsAreLeast
<1>2. \A x \in {e} \cup F : w[x] # None => deps[x][w[x]] \cap Entities \subseteq F
  BY DescendantsAreLeast
<1>3. \A d : d \in {e} \cup D /\ d \in {e} \cup F => v[d] = w[d]
  BY DifferenceShows
<1>. HIDE DEF D, F
<1>4. D \subseteq T
  <2>1. \A x \in {e} \cup T : v[x] # None => deps[x][v[x]] \subseteq T
    <3>. SUFFICES ASSUME NEW x \in {e} \cup T, v[x] # None, NEW d \in deps[x][v[x]]
                  PROVE  d \in T
      OBVIOUS
    <3>1. x \in Entities
      BY <1>1
    <3>2. d \in Entities
      BY <3>1, VersionDependsOnEntities
    <3>3. w[x] = v[x]
      BY <1>3
    <3>4. d \in D /\ d \in F
      BY <1>1, <1>2, <3>2, <3>3
    <3>5. QED
      BY <1>3, <3>4
  <2>2. T \in SUBSET Entities
    BY <1>1
  <2>. HIDE DEF T
  <2>3. QED
    BY <1>1, <2>1, <2>2
<1>5. \A d \in {e} \cup D : v[d] = w[d]
  BY <1>3, <1>4
<1>6. QED
  BY <1>5 DEF D, v, w

\* The canonical digests of a branch.
AreDigestsOf(deps, br, digest) == Canonical(deps, br.version, digest)

\* The branches have the same version and digest of e.
HaveSame(br, other, digest, digest2, e) ==
    br.version[e] = other.version[e] /\ digest[e] = digest2[e]

\* The same below: the same version and digest, as a difference of digests would
\* come from one of lower rank.
LEMMA SameBelowSameDigest ==
    ASSUME NEW deps \in [Entities -> Seq(SUBSET Entities)], NEW br, NEW other,
           Points(deps, br), Points(deps, other), GoesDown(deps), NEW digest, NEW digest2,
           AreDigestsOf(deps, br, digest), AreDigestsOf(deps, other, digest2),
           NEW e \in Entities, TreeOf(deps, br, e) = TreeOf(deps, other, e)
    PROVE  HaveSame(br, other, digest, digest2, e)
<1>0. Canonical(deps, br.version, digest) /\ Canonical(deps, other.version, digest2)
  BY DEF AreDigestsOf
<1>. DEFINE v == br.version
            w == other.version
            D == Descendants(deps, br, {e})
<1>1. /\ D \subseteq Entities
      /\ \A x \in {e} \cup D : v[x] # None => deps[x][v[x]] \cap Entities \subseteq D
  BY DescendantsAreLeast
<1>2. \A d : d \in {e} \cup D => v[d] = w[d]
  BY DifferenceBelowShows
<1>. HIDE DEF D
<1>. DEFINE Bad == {d \in {e} \cup D : digest[d] # digest2[d]}
            Ranks == {Level[d] : d \in Bad}
<1>3. Bad = {}
  <2>. SUFFICES ASSUME Bad # {} PROVE FALSE
    OBVIOUS
  <2>1. Level \in [Entities -> Nat] /\ Bad \subseteq Entities
    BY <1>1, LevelAssumption
  <2>2. Ranks \in SUBSET Nat /\ Ranks # {}
    BY <2>1
  <2>. HIDE DEF Ranks
  <2>3. PICK r \in Ranks : \A k \in Ranks : r <= k
    BY <2>2, LeastNumber
  <2>4. PICK d \in Bad : \A y \in Bad : Level[d] <= Level[y]
    BY <2>3 DEF Ranks
  <2>5. /\ digest[d] = {<<y, v[y], digest[y]>> : y \in LiveAt(deps, v, d)}
        /\ digest2[d] = {<<y, w[y], digest2[y]>> : y \in LiveAt(deps, w, d)}
    <3>. HIDE DEF Bad, v, w
    <3>1. QED
      BY <1>0, <2>1, <2>4 DEF Canonical, v, w
  <2>6. v[d] = w[d] /\ d \in Entities
    BY <1>2, <2>1
  <2>7. v[d] # None =>
          \A y \in deps[d][v[d]] : v[y] = w[y] /\ digest[y] = digest2[y]
    <3>. SUFFICES ASSUME v[d] # None, NEW y \in deps[d][v[d]]
                  PROVE  v[y] = w[y] /\ digest[y] = digest2[y]
      OBVIOUS
    <3>1. y \in Entities /\ Level[y] < Level[d]
      BY <2>6 DEF Points, GoesDown
    <3>2. y \in D
      BY <1>1, <3>1
    <3>3. Level[y] \in Nat /\ Level[d] \in Nat
      BY <2>1, <3>1
    <3>4. ~ (Level[d] <= Level[y])
      BY <3>1, <3>3
    <3>5. y \notin Bad
      BY <2>4, <3>4
    <3>6. QED
      BY <1>2, <3>2, <3>5
  <2>8. LiveAt(deps, w, d) = LiveAt(deps, v, d)
    <3>. HIDE DEF v, w
    <3>1. QED
      BY <2>6, <2>7 DEF LiveAt
  <2>9. \A y \in LiveAt(deps, v, d) : v[y] = w[y] /\ digest[y] = digest2[y]
    <3>. HIDE DEF v, w
    <3>1. QED
      BY <2>7 DEF LiveAt
  <2>10. digest[d] = digest2[d]
    <3>. HIDE DEF v, w, Bad
    <3>1. QED
      BY <2>5, <2>8, <2>9
  <2>11. QED
    BY <2>10
<1>4. QED
  BY <1>2, <1>3 DEF HaveSame

-----------------------------------------------------------------------------
(***************************************************************************)
(* The invariant                                                           *)
(***************************************************************************)
\* A new version has nothing to do with those there are.
LEMMA NewVersionsKeepCanonical ==
    ASSUME NEW deps \in [Entities -> Seq(SUBSET Entities)], NEW br, NEW log,
           NEW e \in Entities, NEW D \in SUBSET Entities, CanonicalBefore(deps, br, log)
    PROVE  CanonicalBefore([deps EXCEPT ![e] = Append(@, D)], br, log)
<1>. DEFINE more == [deps EXCEPT ![e] = Append(@, D)]
            w == VersionBefore(br, log)
<1>1. \A x \in Entities : w[x] \in {None} \cup DOMAIN deps[x]
  BY DEF CanonicalBefore
<1>2. \A x \in Entities : DOMAIN deps[x] \subseteq DOMAIN more[x]
  BY VersionsStay
<1>. HIDE DEF w
<1>3. \A x \in Entities : w[x] # None => more[x][w[x]] = deps[x][w[x]]
  <2>. SUFFICES ASSUME NEW x \in Entities, w[x] # None
                PROVE  more[x][w[x]] = deps[x][w[x]]
    OBVIOUS
  <2>1. deps[x] \in Seq(SUBSET Entities)
    OBVIOUS
  <2>2. w[x] \in 1 .. Len(deps[x])
    BY <1>1, <2>1
  <2>3. more[x] = IF x = e THEN Append(deps[x], D) ELSE deps[x]
    OBVIOUS
  <2>4. \A i \in 1 .. Len(deps[x]) : Append(deps[x], D)[i] = deps[x][i]
    BY <2>1, AppendProperties
  <2>5. QED
    BY <2>2, <2>3, <2>4
<1>. HIDE DEF more
<1>4. \A x \in Entities : LiveAt(more, w, x) = LiveAt(deps, w, x)
  BY <1>3 DEF LiveAt
<1>5. Canonical(more, w, DigestBefore(br, log))
  BY <1>4 DEF CanonicalBefore, Canonical, w
<1>6. \A x \in Entities : w[x] \in {None} \cup DOMAIN more[x]
  BY <1>1, <1>2
<1>7. QED
  BY <1>5, <1>6 DEF CanonicalBefore, more, w

\* TypeOK in the terms of the lemmas.
LEMMA TypeGoesDown ==
    /\ TypeOK => GoesDown(dependencies)
    /\ TypeOK' => GoesDown(dependencies')
<1>1. TypeOK => GoesDown(dependencies)
  BY DEF TypeOK, GoesDown
<1>2. TypeOK' => GoesDown(dependencies')
  <2>. SUFFICES ASSUME TypeOK' PROVE GoesDown(dependencies')
    OBVIOUS
  <2>1. /\ dependencies' \in [Entities -> Seq(SUBSET Entities)]
        /\ \A e \in Entities : \A v \in DOMAIN dependencies'[e] :
              \A d \in dependencies'[e][v] : Level[d] < Level[e]
    BY DEF TypeOK
  <2>2. \A e \in Entities : \A v \in DOMAIN dependencies'[e] :
            dependencies'[e][v] \in SUBSET Entities
    <3>. SUFFICES ASSUME NEW e \in Entities, NEW v \in DOMAIN dependencies'[e]
                  PROVE  dependencies'[e][v] \in SUBSET Entities
      OBVIOUS
    <3>1. dependencies'[e] \in Seq(SUBSET Entities)
      BY <2>1
    <3>2. QED
      BY <3>1
  <2>3. QED
    BY <2>1, <2>2 DEF GoesDown
<1>3. QED
  BY <1>1, <1>2

\* The log at hand is the open one, and a number.
LEMMA LogAtHand ==
    ASSUME TypeOK, IInv
    PROVE  /\ DraftLogAtHand \in Nat \ {0}
           /\ lastDraftLog <= DraftLogAtHand
           /\ openLogs # << >> => openLogs = <<lastDraftLog>> /\ DraftLogAtHand = lastDraftLog
           /\ openLogs = << >> => DraftLogAtHand = lastDraftLog + 1
  BY TypePoints DEF DraftLogAtHand, IInv, WritesLastLog

\* The calls that change drafts.
LEMMA ChangeDraftsCanonical ==
    ASSUME TypeOK, TypeOK', IInv, NEW target \in [Entities -> Nat], ChangeDrafts(target),
           openLogs' = openLogs,
           CanonicalBefore(dependencies', draft, DraftLogAtHand)
    PROVE  CanonicalBefore(dependencies', draft', DraftLogAtHand')
<1>1. /\ Tables(draft) /\ lastDraftLog \in Nat /\ Sound(draft, lastDraftLog)
      /\ GoesDown(dependencies')
  BY TypePoints, TypeGoesDown DEF IInv
<1>2. PICK log \in Nat \ {0} : log = DraftLogAtHand /\ lastDraftLog <= log
  BY LogAtHand
<1>3. PICK br : br = Repoint(draft, log, target)
  OBVIOUS
<1>4. CanonicalBefore(dependencies', br, log) /\ Tables(br) /\ Sound(br, log)
  BY <1>1, <1>2, <1>3, RepointKeepsBefore, RepointTables, RepointSound
<1>5. CASE target = draft.version /\ UNCHANGED <<draft, lastDraftLog>>
  BY <1>5 DEF DraftLogAtHand
<1>6. CASE /\ openLogs # << >>
           /\ draft' = Repoint(draft, openLogs[Len(openLogs)], target)
           /\ UNCHANGED lastDraftLog
  <2>1. openLogs[Len(openLogs)] = log
    <3>1. openLogs = <<lastDraftLog>> /\ log = lastDraftLog
      BY <1>2, <1>6, LogAtHand
    <3>2. QED
      BY <3>1
  <2>2. draft' = br
    BY <1>3, <1>6, <2>1
  <2>3. DraftLogAtHand' = log
    BY <1>2, <1>6 DEF DraftLogAtHand
  <2>4. QED
    BY <1>4, <2>2, <2>3
<1>7. CASE /\ openLogs = << >>
           /\ lastDraftLog' = lastDraftLog + 1
           /\ draft' = WithSideEffects(dependencies', Repoint(draft, lastDraftLog + 1, target),
                                       lastDraftLog + 1)
  <2>1. log = lastDraftLog + 1
    BY <1>2, <1>7, LogAtHand
  <2>2. draft' = WithSideEffects(dependencies', br, log)
    BY <1>3, <1>7, <2>1
  <2>3. draft'.version = br.version
    BY <1>4, <2>2, SideEffectsTables
  <2>4. Points(dependencies', br)
    BY <2>3 DEF TypeOK, BranchTypeOK, Points
  <2>5. log <= log
    OBVIOUS
  <2>6. CanonicalBefore(dependencies', draft', log + 1)
    BY <1>1, <1>4, <2>2, <2>4, <2>5, LogKeepsCanonical
  <2>7. DraftLogAtHand' = log + 1
    BY <1>7, <2>1 DEF DraftLogAtHand
  <2>8. QED
    BY <2>6, <2>7
<1>8. QED
  BY <1>5, <1>6, <1>7 DEF ChangeDrafts

\* What publish_from_drafts does.
LEMMA PublishCanonical ==
    ASSUME TypeOK, TypeOK', PublishedIInv, NEW P, Publishes(P),
           CanonicalBefore(dependencies, published, lastPublishLog + 1)
    PROVE  CanonicalBefore(dependencies', published', lastPublishLog' + 1)
<1>1. /\ Tables(draft) /\ Tables(published) /\ lastPublishLog \in Nat
      /\ Sound(published, lastPublishLog)
      /\ GoesDown(dependencies)
  BY TypePoints, TypeGoesDown DEF PublishedIInv
<1>2. PICK br : br = RecordPublish(published, lastPublishLog + 1, P)
  OBVIOUS
<1>3. PICK log \in Nat \ {0} : log = lastPublishLog + 1
  BY <1>1
<1>4. Tables(br) /\ Sound(br, log) /\ log <= log
  BY <1>1, <1>2, <1>3, RecordPublishTables, RecordPublishSound
<1>5. CanonicalBefore(dependencies, br, log)
  BY <1>1, <1>2, <1>3, RecordPublishKeepsBefore
<1>6. /\ published' = WithSideEffects(dependencies, br, log)
      /\ lastPublishLog' = log
      /\ dependencies' = dependencies
  BY <1>2, <1>3 DEF Publishes
<1>7. published'.version = br.version
  BY <1>4, <1>6, SideEffectsTables
<1>8. Points(dependencies, br)
  BY <1>6, <1>7 DEF TypeOK, BranchTypeOK, Points
<1>9. CanonicalBefore(dependencies, published', log + 1)
  BY <1>1, <1>4, <1>5, <1>6, <1>8, LogKeepsCanonical
<1>10. QED
  BY <1>6, <1>9

\* A new package has no digests.
LEMMA InitIsCanonical == Init => DigestsIInv
<1>. SUFFICES ASSUME Init PROVE DigestsIInv
  OBVIOUS
<1>1. CanonicalBefore(dependencies, EmptyBranch, 1)
  <2>1. \A e \in Entities : EmptyBranch.records[e] = << >> /\ EmptyBranch.version[e] = None
                            /\ EmptyBranch.digest[e] = << >>
    BY DEF EmptyBranch
  <2>. HIDE DEF EmptyBranch
  <2>2. \A e \in Entities : InLog(EmptyBranch.records[e], 1) = {}
    BY <2>1 DEF InLog
  <2>3. \A e \in Entities : VersionBefore(EmptyBranch, 1)[e] = None
    BY <2>1, <2>2 DEF VersionBefore
  <2>4. \A e \in Entities : DOMAIN EmptyBranch.digest[e] = {}
    BY <2>1
  <2>5. \A e \in Entities : DigestBefore(EmptyBranch, 1)[e] = {}
    BY <2>4 DEF DigestBefore, StoredDigest, Blank
  <2>6. \A e \in Entities : LiveAt(dependencies, VersionBefore(EmptyBranch, 1), e) = {}
    BY <2>3 DEF LiveAt
  <2>7. Canonical(dependencies, VersionBefore(EmptyBranch, 1), DigestBefore(EmptyBranch, 1))
    BY <2>5, <2>6 DEF Canonical
  <2>8. QED
    BY <2>3, <2>4, <2>7 DEF CanonicalBefore, DigestsOfLogsBefore
<1>2. /\ draft = EmptyBranch /\ published = EmptyBranch
      /\ DraftLogAtHand = 1 /\ lastPublishLog + 1 = 1
  BY DEF Init, DraftLogAtHand
<1>3. QED
  BY <1>1, <1>2 DEF DigestsIInv

\* Every step keeps the digests canonical.
LEMMA CanonicalStep ==
    TypeOK /\ TypeOK' /\ IInv /\ PublishedIInv /\ NotNested' /\ DigestsIInv /\ [Next]_vars
        => DigestsIInv'
<1>. SUFFICES ASSUME TypeOK, TypeOK', IInv, PublishedIInv, NotNested', DigestsIInv,
                     [Next]_vars
              PROVE  DigestsIInv'
  OBVIOUS
<1>1. /\ dependencies \in [Entities -> Seq(SUBSET Entities)]
      /\ draft.version \in [Entities -> Nat] /\ published.version \in [Entities -> Nat]
      /\ Tables(draft) /\ lastDraftLog \in Nat
      /\ Points(dependencies, draft) /\ GoesDown(dependencies)
      /\ CanonicalBefore(dependencies, draft, DraftLogAtHand)
      /\ CanonicalBefore(dependencies, published, lastPublishLog + 1)
  BY TypePoints, TypeGoesDown DEF Tables, DigestsIInv
<1>2. ASSUME NEW e \in Entities,
             NEW D \in SUBSET {d \in Entities : Level[d] < Level[e]},
             CreateVersion(e, D)
      PROVE  DigestsIInv'
  <2>. DEFINE target == [draft.version EXCEPT ![e] = Len(dependencies[e]) + 1]
  <2>1. /\ dependencies' = [dependencies EXCEPT ![e] = Append(@, D)]
        /\ ChangeDrafts(target)
        /\ openLogs' = openLogs
        /\ published' = published /\ lastPublishLog' = lastPublishLog
    BY <1>2 DEF CreateVersion
  <2>2. D \in SUBSET Entities
    OBVIOUS
  <2>3. \A br, log : CanonicalBefore(dependencies, br, log)
                       => CanonicalBefore([dependencies EXCEPT ![e] = Append(@, D)], br, log)
    BY <1>1, <2>2, NewVersionsKeepCanonical
  <2>4. target \in [Entities -> Nat]
    BY <1>1
  <2>. HIDE DEF target
  <2>5. CanonicalBefore(dependencies', draft', DraftLogAtHand')
    BY <1>1, <2>1, <2>3, <2>4, ChangeDraftsCanonical
  <2>6. CanonicalBefore(dependencies', published', lastPublishLog' + 1)
    BY <1>1, <2>1, <2>3
  <2>7. QED
    BY <2>5, <2>6 DEF DigestsIInv
<1>3. ASSUME NEW e \in Entities, NEW v \in 0 .. MaxVersions, SetDraftVersion(e, v)
      PROVE  DigestsIInv'
  <2>. DEFINE target == [draft.version EXCEPT ![e] = v]
  <2>1. /\ ChangeDrafts(target) /\ openLogs' = openLogs /\ dependencies' = dependencies
        /\ published' = published /\ lastPublishLog' = lastPublishLog
    BY <1>3 DEF SetDraftVersion
  <2>2. target \in [Entities -> Nat]
    BY <1>1, BoundsAssumption
  <2>. HIDE DEF target
  <2>3. CanonicalBefore(dependencies', draft', DraftLogAtHand')
    BY <1>1, <2>1, <2>2, ChangeDraftsCanonical
  <2>4. QED
    BY <1>1, <2>1, <2>3 DEF DigestsIInv
<1>4. CASE ResetDraftsToPublished
  <2>1. /\ ChangeDrafts(published.version)
        /\ openLogs' = openLogs
        /\ dependencies' = dependencies
        /\ published' = published /\ lastPublishLog' = lastPublishLog
    BY <1>4 DEF ResetDraftsToPublished
  <2>2. CanonicalBefore(dependencies', draft', DraftLogAtHand')
    BY <1>1, <2>1, ChangeDraftsCanonical
  <2>3. QED
    BY <1>1, <2>1, <2>2 DEF DigestsIInv
<1>5. CASE BeginBulk
  <2>1. /\ lastDraftLog' = lastDraftLog + 1
        /\ openLogs' = Append(openLogs, lastDraftLog + 1)
        /\ dependencies' = dependencies /\ draft' = draft
        /\ published' = published /\ lastPublishLog' = lastPublishLog
    BY <1>5 DEF BeginBulk
  <2>2. openLogs = << >>
    <3>1. Len(openLogs) < 1
      BY <1>5 DEF BeginBulk, TypeOK, NotNested
    <3>2. QED
      BY <3>1 DEF IInv, WritesLastLog
  <2>3. openLogs' # << >>
    BY <2>1, <2>2
  <2>4. DraftLogAtHand' = DraftLogAtHand
    BY <2>1, <2>2, <2>3 DEF DraftLogAtHand
  <2>5. QED
    BY <1>1, <2>1, <2>4 DEF DigestsIInv
<1>6. CASE EndBulk
  <2>1. openLogs # << >> /\ openLogs = <<lastDraftLog>> /\ DraftLogAtHand = lastDraftLog
    BY <1>6, LogAtHand DEF EndBulk
  <2>2. /\ draft' = WithSideEffects(dependencies, draft, lastDraftLog)
        /\ dependencies' = dependencies
        /\ lastDraftLog' = lastDraftLog
        /\ published' = published /\ lastPublishLog' = lastPublishLog
    BY <1>6, <2>1 DEF EndBulk
  <2>3. openLogs' = << >>
    BY <1>6, <2>1 DEF EndBulk
  <2>4. PICK log \in Nat \ {0} : log = lastDraftLog
    BY <1>1, <2>1, LogAtHand
  <2>5. log <= log /\ Sound(draft, log)
    BY <2>4 DEF IInv
  <2>6. CanonicalBefore(dependencies, draft, log)
    BY <1>1, <2>1, <2>4
  <2>7. CanonicalBefore(dependencies, draft', log + 1)
    BY <1>1, <2>2, <2>4, <2>5, <2>6, LogKeepsCanonical
  <2>8. DraftLogAtHand' = log + 1
    BY <2>2, <2>3, <2>4 DEF DraftLogAtHand
  <2>9. QED
    BY <1>1, <2>2, <2>7, <2>8 DEF DigestsIInv
<1>7. ASSUME NEW S, NEW withDependencies, NEW filtered,
             PublishFromDrafts(S, withDependencies, filtered)
      PROVE  DigestsIInv'
  <2>1. Publishes(DraftsToPublish(S, withDependencies, filtered))
    BY <1>7 DEF PublishFromDrafts, Publishes
  <2>2. CanonicalBefore(dependencies', published', lastPublishLog' + 1)
    BY <1>1, <2>1, PublishCanonical
  <2>3. /\ dependencies' = dependencies /\ draft' = draft
        /\ lastDraftLog' = lastDraftLog /\ openLogs' = openLogs
    BY <1>7 DEF PublishFromDrafts
  <2>4. DraftLogAtHand' = DraftLogAtHand
    BY <2>3 DEF DraftLogAtHand
  <2>5. QED
    BY <1>1, <2>2, <2>3, <2>4 DEF DigestsIInv
<1>8. CASE UNCHANGED vars
  BY <1>8 DEF vars, DigestsIInv, DraftLogAtHand
<1>9. QED
  BY <1>2, <1>3, <1>4, <1>5, <1>6, <1>7, <1>8 DEF Next, PublishAllDrafts

\* Every step keeps the digests canonical.
LEMMA CanonicalUntilNested == Spec /\ []NotNested => []DigestsIInv
BY InitIsCanonical, CanonicalStep, TypeCorrect, ConsistentUntilNested,
   PublishHistoriesConsistent, PTL DEF Spec

\* What the invariant says of the stored digests when no context is open.
LEMMA StoredDigestsAreCanonical ==
    ASSUME TypeOK, IInv, PublishedIInv, DigestsIInv
    PROVE  /\ openLogs = << >> =>
                Canonical(dependencies, draft.version,
                          [e \in Entities |-> StoredDigest(draft, e, draft.logRecord[e])])
           /\ Canonical(dependencies, published.version,
                        [e \in Entities |-> StoredDigest(published, e, published.logRecord[e])])
<1>1. /\ Tables(draft) /\ lastDraftLog \in Nat /\ Sound(draft, lastDraftLog)
      /\ Tables(published) /\ lastPublishLog \in Nat /\ Sound(published, lastPublishLog)
  BY TypePoints DEF IInv, PublishedIInv
<1>2. /\ VersionBefore(draft, lastDraftLog + 1) = draft.version
      /\ DigestBefore(draft, lastDraftLog + 1)
           = [e \in Entities |-> StoredDigest(draft, e, draft.logRecord[e])]
  BY <1>1, BeforeTheNextLog
<1>3. /\ VersionBefore(published, lastPublishLog + 1) = published.version
      /\ DigestBefore(published, lastPublishLog + 1)
           = [e \in Entities |-> StoredDigest(published, e, published.logRecord[e])]
  BY <1>1, BeforeTheNextLog
<1>4. openLogs = << >> =>
        Canonical(dependencies, draft.version,
                  [e \in Entities |-> StoredDigest(draft, e, draft.logRecord[e])])
  BY <1>2 DEF DigestsIInv, CanonicalBefore, DraftLogAtHand
<1>5. Canonical(dependencies, published.version,
                [e \in Entities |-> StoredDigest(published, e, published.logRecord[e])])
  BY <1>3 DEF DigestsIInv, CanonicalBefore
<1>6. QED
  BY <1>4, <1>5

\* Two branches with canonical digests agree at and below an entity exactly when they
\* have the same version and digest of it.
LEMMA CanonicalDigestsTell ==
    ASSUME NEW deps \in [Entities -> Seq(SUBSET Entities)], NEW br, NEW other,
           Points(deps, br), Points(deps, other), GoesDown(deps), NEW digest, NEW digest2,
           AreDigestsOf(deps, br, digest), AreDigestsOf(deps, other, digest2),
           NEW e \in Entities
    PROVE  HaveSame(br, other, digest, digest2, e)
             <=> TreeOf(deps, br, e) = TreeOf(deps, other, e)
<1>1. HaveSame(br, other, digest, digest2, e) => TreeOf(deps, br, e) = TreeOf(deps, other, e)
  BY SameDigestSameBelow DEF HaveSame, AreDigestsOf
<1>2. TreeOf(deps, br, e) = TreeOf(deps, other, e) => HaveSame(br, other, digest, digest2, e)
  BY SameBelowSameDigest
<1>3. QED
  BY <1>1, <1>2

\* Outside of bulk contexts, the version and the digest of an entity differ between
\* the branches exactly when something at or below it does.
LEMMA DigestsTell ==
    ASSUME TypeOK, IInv, PublishedIInv, DigestsIInv, openLogs = << >>, NEW e \in Entities
    PROVE  ContainsUnpublishedChanges(e)
             <=> TreeOf(dependencies, draft, e) # TreeOf(dependencies, published, e)
<1>1. PICK digest : digest = [d \in Entities |-> StoredDigest(draft, d, draft.logRecord[d])]
  OBVIOUS
<1>2. PICK digest2 : digest2 = [d \in Entities |->
                                   StoredDigest(published, d, published.logRecord[d])]
  OBVIOUS
<1>3. AreDigestsOf(dependencies, draft, digest) /\ AreDigestsOf(dependencies, published, digest2)
  BY <1>1, <1>2, StoredDigestsAreCanonical DEF AreDigestsOf
<1>4. /\ dependencies \in [Entities -> Seq(SUBSET Entities)]
      /\ Points(dependencies, draft) /\ Points(dependencies, published)
      /\ GoesDown(dependencies)
  BY TypePoints, TypeGoesDown
<1>5. ContainsUnpublishedChanges(e) <=> ~ HaveSame(draft, published, digest, digest2, e)
  BY <1>1, <1>2 DEF ContainsUnpublishedChanges, HaveSame
<1>6. HaveSame(draft, published, digest, digest2, e)
        <=> TreeOf(dependencies, draft, e) = TreeOf(dependencies, published, e)
  BY <1>3, <1>4, CanonicalDigestsTell
<1>7. QED
  BY <1>5, <1>6

\* All that the digests rest on, for modules in which these calls are made.
PublishingIInv == TypeOK /\ NotNested /\ IInv /\ PublishedIInv /\ DigestsIInv

\* It holds of a new package.
LEMMA InitIsInPublishingIInv == Init => PublishingIInv
BY InitIsTyped, InitIsNotNested, InitIsConsistent, InitIsPublishedConsistent, InitIsCanonical
   DEF PublishingIInv

\* Every call keeps it when bulk contexts do not nest.
LEMMA PublishingIInvStep ==
    ASSUME MaxNesting <= 1, PublishingIInv, [Next]_vars
    PROVE  PublishingIInv'
<1>1. TypeOK /\ NotNested /\ IInv /\ PublishedIInv /\ DigestsIInv
  BY DEF PublishingIInv
<1>2. TypeOK'
  <2>1. CASE Next
    BY <1>1, <2>1, NextKeepsType
  <2>2. CASE UNCHANGED vars
    BY <1>1, <2>2 DEF vars, TypeOK, BranchTypeOK
  <2>3. QED
    BY <2>1, <2>2
<1>3. NotNested'
  BY <1>1, NotNestedStep
<1>4. IInv' /\ PublishedIInv'
  BY <1>1, <1>3, ConsistentStep, PublishedConsistentStep
<1>5. DigestsIInv'
  BY <1>1, <1>2, <1>3, CanonicalStep
<1>6. QED
  BY <1>2, <1>3, <1>4, <1>5 DEF PublishingIInv

\* contains_unpublished_changes compares versions and stored digests, and is right:
\* outside of bulk contexts it says exactly whether anything at or below an entity
\* differs between draft and published, when contexts do not nest.
THEOREM DigestsTellTheTruth ==
    ASSUME MaxNesting <= 1
    PROVE  Spec => []DigestsTellUnpublishedChanges
<1>1. TypeOK /\ IInv /\ PublishedIInv /\ DigestsIInv => DigestsTellUnpublishedChanges
  <2>. SUFFICES ASSUME TypeOK, IInv, PublishedIInv, DigestsIInv, openLogs = << >>,
                       NEW e \in Entities
                PROVE  ContainsUnpublishedChanges(e)
                         <=> LiveTree(draft, e) # LiveTree(published, e)
    BY DEF DigestsTellUnpublishedChanges
  <2>1. \A br : LiveTree(br, e) = TreeOf(dependencies, br, e)
    BY DEF LiveTree, TreeOf
  <2>2. QED
    BY <2>1, DigestsTell
<1>2. QED
  BY <1>1, TypeCorrect, NestingIsBounded, ConsistentUntilNested,
     PublishHistoriesConsistent, CanonicalUntilNested, PTL

\* After reset_drafts_to_published nothing differs from what is published, by any of
\* the queries, nor by the digests outside of bulk contexts, when these do not nest.
THEOREM ResettingDiscardsEverything ==
    ASSUME MaxNesting <= 1
    PROVE  Spec => ResetDiscardsEverything
<1>1. ASSUME TypeOK, ResetDraftsToPublished
      PROVE  \A e \in Entities : draft'.version[e] = published'.version[e]
  <2>1. published.version \in [Entities -> Nat]
    BY <1>1, TypePoints DEF Tables
  <2>2. ChangeDrafts(published.version) /\ published' = published
    BY <1>1 DEF ResetDraftsToPublished
  <2>3. draft'.version = published.version
    BY <1>1, <2>1, <2>2, ChangeDraftsTables
  <2>4. QED
    BY <2>2, <2>3
<1>2. ASSUME TypeOK, ResetDraftsToPublished PROVE NothingToPublish'
  BY <1>1, <1>2 DEF NothingToPublish, EntitiesWithUnpublishedChanges, AllDrafts,
                    FilterPublishableEntities, EntitiesWithUnpublishedDeletes,
                    HasUnpublishedChanges
<1>3. ASSUME TypeOK, TypeOK', DigestsTellUnpublishedChanges', ResetDraftsToPublished,
             openLogs = << >>, NEW e \in Entities
      PROVE  (IsOnBothBranches(e) => ~ ContainsUnpublishedChanges(e))'
  <2>1. openLogs' = << >>
    BY <1>3 DEF ResetDraftsToPublished
  <2>2. IsOnBothBranches(e)' =>
          (ContainsUnpublishedChanges(e)' <=> LiveTree(draft, e)' # LiveTree(published, e)')
    BY <1>3, <2>1 DEF DigestsTellUnpublishedChanges
  <2>3. /\ LiveTree(draft, e)' = TreeOf(dependencies', draft', e)
        /\ LiveTree(published, e)' = TreeOf(dependencies', published', e)
    BY DEF LiveTree, TreeOf
  <2>4. /\ dependencies' \in [Entities -> Seq(SUBSET Entities)]
        /\ Points(dependencies', draft')
    BY <1>3 DEF TypeOK, BranchTypeOK, Points
  <2>5. \A d \in {e} \cup Descendants(dependencies', draft', {e}) :
            draft'.version[d] = published'.version[d]
    BY <1>1, <1>3 DEF Descendants
  <2>6. TreeOf(dependencies', draft', e) = TreeOf(dependencies', published', e)
    BY <2>4, <2>5, AgreeBelow
  <2>7. QED
    BY <2>2, <2>3, <2>6
<1>4. TypeOK /\ TypeOK' /\ DigestsTellUnpublishedChanges'
        => [ResetDraftsToPublished =>
              /\ NothingToPublish'
              /\ openLogs = << >> => \A e \in Entities :
                    (IsOnBothBranches(e) => ~ ContainsUnpublishedChanges(e))']_vars
  BY <1>2, <1>3
<1>5. QED
  BY <1>4, TypeCorrect, DigestsTellTheTruth, PTL DEF ResetDiscardsEverything

=============================================================================
