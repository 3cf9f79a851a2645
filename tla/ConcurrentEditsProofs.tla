----------------------- MODULE ConcurrentEditsProofs -----------------------
(***************************************************************************)
(* That the digests stay right when sessions edit, delete and publish      *)
(* Components at the same time, statement by statement.                    *)
(***************************************************************************)
EXTENDS ConcurrentEdits, PublishingProofs

\* The digest at e is the one of its live dependencies as they are on the branch.
DigestIsCurrent(deps, br, e) ==
    StoredDigest(br, e, br.logRecord[e]) =
        {<<d, br.version[d], StoredDigest(br, d, br.logRecord[d])>> :
            d \in LiveDependencies(deps, br, e, br.version[e])}

\* The part of AtRest that is about one row.
RowAtRest(br, e, last) ==
    /\ br.logRecord[e] \in 0 .. last
    /\ \A i \in 1 .. Len(br.records[e]) : br.records[e][i].log \in 1 .. last
    /\ DOMAIN br.digest[e] \subseteq 1 .. last
    /\ NewVersionIn(br, e, br.logRecord[e]) = br.version[e]

\* Two branches have the same row of e.
SameRow(br, other, e) ==
    /\ br.version[e] = other.version[e]
    /\ br.logRecord[e] = other.logRecord[e]
    /\ br.records[e] = other.records[e]
    /\ br.digest[e] = other.digest[e]

\* A log that the branch has nothing of.
IsFresh(br, log) ==
    \A e \in Entities :
        InLog(br.records[e], log) = {} /\ br.logRecord[e] # log /\ log \notin DOMAIN br.digest[e]

-----------------------------------------------------------------------------
(***************************************************************************)
(* Branches at rest                                                        *)
(***************************************************************************)
\* AtRest, row by row.
LEMMA AtRestByRow ==
    ASSUME NEW deps, NEW br, NEW last
    PROVE  AtRest(deps, br, last)
             <=> \A e \in Entities : RowAtRest(br, e, last) /\ DigestIsCurrent(deps, br, e)
  BY DEF AtRest, RowAtRest, DigestIsCurrent

\* A later log is fresh on a branch at rest.
LEMMA LaterLogIsFresh ==
    ASSUME NEW deps, NEW br, NEW last \in Nat, NEW log \in Nat, AtRest(deps, br, last),
           last < log
    PROVE  IsFresh(br, log)
<1>. SUFFICES ASSUME NEW e \in Entities
              PROVE  /\ InLog(br.records[e], log) = {}
                     /\ br.logRecord[e] # log
                     /\ log \notin DOMAIN br.digest[e]
  BY DEF IsFresh
<1>1. RowAtRest(br, e, last)
  BY AtRestByRow
<1>2. log \notin 0 .. last /\ log \notin 1 .. last
  OBVIOUS
<1>3. QED
  BY <1>1, <1>2 DEF RowAtRest, InLog

\* The rows of a branch at rest stay so when there are later logs.
LEMMA AtRestLater ==
    ASSUME NEW deps, NEW br, NEW last \in Nat, NEW later \in Nat, last <= later,
           AtRest(deps, br, last)
    PROVE  AtRest(deps, br, later)
<1>1. 0 .. last \subseteq 0 .. later /\ 1 .. last \subseteq 1 .. later
  OBVIOUS
<1>. SUFFICES ASSUME NEW e \in Entities, RowAtRest(br, e, last)
              PROVE  RowAtRest(br, e, later)
  BY AtRestByRow
<1>2. \A i \in 1 .. Len(br.records[e]) : br.records[e][i].log \in 1 .. later
  BY <1>1 DEF RowAtRest
<1>3. QED
  BY <1>1, <1>2 DEF RowAtRest

\* A digest is current as long as neither its row nor those it is of change.
LEMMA SameRowsSameDigest ==
    ASSUME NEW deps, NEW br, NEW other, NEW e \in Entities,
           DigestIsCurrent(deps, br, e), SameRow(br, other, e),
           br.version[e] # None =>
               \A d \in deps[e][br.version[e]] : SameRow(br, other, d)
    PROVE  DigestIsCurrent(deps, other, e)
<1>. DEFINE live == LiveDependencies(deps, br, e, br.version[e])
<1>1. /\ br.version[e] = other.version[e]
      /\ StoredDigest(other, e, other.logRecord[e]) = StoredDigest(br, e, br.logRecord[e])
  BY DEF SameRow, StoredDigest
<1>2. live = LiveDependencies(deps, other, e, other.version[e])
  BY <1>1 DEF LiveDependencies, SameRow
<1>3. \A d \in live : /\ br.version[d] = other.version[d]
                      /\ StoredDigest(other, d, other.logRecord[d])
                           = StoredDigest(br, d, br.logRecord[d])
  BY DEF LiveDependencies, SameRow, StoredDigest
<1>. HIDE DEF live
<1>4. StoredDigest(br, e, br.logRecord[e]) =
          {<<d, br.version[d], StoredDigest(br, d, br.logRecord[d])>> : d \in live}
  BY DEF DigestIsCurrent, live
<1>5. {<<d, br.version[d], StoredDigest(br, d, br.logRecord[d])>> : d \in live}
        = {<<d, other.version[d], StoredDigest(other, d, other.logRecord[d])>> : d \in live}
  BY <1>3
<1>6. QED
  BY <1>1, <1>2, <1>4, <1>5 DEF DigestIsCurrent

\* A branch at rest on which a log was written is at rest: the log has all the rows
\* that depend on one it changed, and their digests.
LEMMA WrittenLogIsAtRest ==
    ASSUME NEW deps \in [Entities -> Seq(SUBSET Entities)], NEW br, NEW after,
           NEW last \in Nat, NEW later \in Nat, last <= later,
           AtRest(deps, br, last), Points(deps, after),
           NEW X, IsClosed(deps, after, X),
           \A e \in Entities \ X : SameRow(br, after, e),
           \A e \in X : RowAtRest(after, e, later) /\ DigestIsCurrent(deps, after, e)
    PROVE  AtRest(deps, after, later)
<1>1. AtRest(deps, br, later)
  BY AtRestLater
<1>2. ASSUME NEW e \in Entities \ X
      PROVE  RowAtRest(after, e, later) /\ DigestIsCurrent(deps, after, e)
  <2>1. RowAtRest(br, e, later) /\ DigestIsCurrent(deps, br, e) /\ SameRow(br, after, e)
    BY <1>1, AtRestByRow
  <2>2. RowAtRest(after, e, later)
    <3>1. \A log : NewVersionIn(after, e, log) = NewVersionIn(br, e, log)
      BY <2>1 DEF SameRow, NewVersionIn
    <3>2. QED
      BY <2>1, <3>1 DEF SameRow, RowAtRest
  <2>3. ASSUME br.version[e] # None, NEW d \in deps[e][br.version[e]]
        PROVE  SameRow(br, after, d)
    <3>1. after.version[e] = br.version[e]
      BY <2>1 DEF SameRow
    <3>2. d \in Entities
      BY <2>3, <3>1, VersionDependsOnEntities
    <3>3. d \notin X
      BY <2>3, <3>1 DEF IsClosed, DependentsOf
    <3>4. QED
      BY <3>2, <3>3
  <2>4. DigestIsCurrent(deps, after, e)
    BY <2>1, <2>3, SameRowsSameDigest
  <2>5. QED
    BY <2>2, <2>4
<1>3. QED
  BY <1>2, AtRestByRow

\* What update_dependencies_hash_digests_for_log computes, on a branch whose rows
\* in the log point at their record in it.
LEMMA DigestsOfALog ==
    ASSUME NEW deps, NEW mid, NEW log, Points(deps, mid), GoesDown(deps),
           NEW X, X = ChangedIn(mid, log),
           \A e \in Entities : NewVersionIn(mid, e, mid.logRecord[e]) = mid.version[e],
           \A e \in Entities : mid.logRecord[e] = log <=> e \in X,
           \A e \in Entities : log \notin DOMAIN mid.digest[e],
           NEW after, after = WithDigests(deps, mid, log)
    PROVE  /\ after.version = mid.version /\ after.logRecord = mid.logRecord
           /\ after.records = mid.records
           /\ \A e \in Entities \ X : after.digest[e] = mid.digest[e]
           /\ \A e \in X : /\ DOMAIN mid.digest[e] \subseteq DOMAIN after.digest[e]
                           /\ DOMAIN after.digest[e] \subseteq DOMAIN mid.digest[e] \cup {log}
                           /\ \A l \in DOMAIN mid.digest[e] : after.digest[e][l] = mid.digest[e][l]
           /\ \A e \in X : DigestIsCurrent(deps, after, e)
<1>. DEFINE hash == HashForLogRecord(deps, mid, log)
            v(e) == mid.version[e]
            live(e) == LiveDependencies(deps, mid, e, v(e))
<1>0. X \subseteq Entities
  BY DEF ChangedIn
<1>1. /\ after.version = mid.version /\ after.logRecord = mid.logRecord
      /\ after.records = mid.records
  BY DEF WithDigests
<1>2. \A e \in Entities : after.digest[e] =
          IF e \in X /\ LiveDependencies(deps, mid, e, NewVersionIn(mid, e, log)) # {}
            THEN [l \in (DOMAIN mid.digest[e]) \cup {log} |->
                    IF l = log THEN hash[e] ELSE mid.digest[e][l]]
            ELSE mid.digest[e]
  <2>. HIDE DEF hash
  <2>1. \A e \in Entities : after.digest[e] =
          IF e \in {x \in ChangedIn(mid, log) :
                      LiveDependencies(deps, mid, x, NewVersionIn(mid, x, log)) # {}}
            THEN [l \in (DOMAIN mid.digest[e]) \cup {log} |->
                    IF l = log THEN hash[e] ELSE mid.digest[e][l]]
            ELSE mid.digest[e]
    BY DEF WithDigests, hash
  <2>2. QED
    BY <2>1
<1>3. ASSUME NEW e \in Entities
      PROVE  /\ e \in X => NewVersionIn(mid, e, log) = v(e)
             /\ e \notin X => NewVersionIn(mid, e, log) = None
  BY DEF ChangedIn, NewVersionIn
<1>4. \A e \in Entities : \A d \in live(e) : d \in Entities /\ Level[d] < Level[e]
  BY DEF LiveDependencies, Points, GoesDown
<1>5. \A e \in Entities : LiveDependencies(deps, mid, e, NewVersionIn(mid, e, log))
                            = IF e \in X THEN live(e) ELSE {}
  BY <1>3 DEF LiveDependencies
<1>. HIDE DEF hash, live
<1>6. ASSUME NEW e \in X
      PROVE  hash[e] = {<<d, v(d), IF d \in X THEN hash[d]
                                   ELSE StoredDigest(mid, d, mid.logRecord[d])>> : d \in live(e)}
  <2>1. \A x \in Entities : \A d \in LiveDependencies(deps, mid, x, NewVersionIn(mid, x, log)) :
            d \in Entities /\ Level[d] < Level[x]
    BY <1>4, <1>5
  <2>2. \A x \in Entities : hash[x] =
            {<<d, NewVersionIn(mid, d, mid.logRecord[d]),
               IF mid.logRecord[d] = log THEN hash[d]
               ELSE StoredDigest(mid, d, mid.logRecord[d])>> :
                  d \in LiveDependencies(deps, mid, x, NewVersionIn(mid, x, log))}
    BY <2>1, HashIsRecursive DEF hash
  <2>3. hash[e] = {<<d, NewVersionIn(mid, d, mid.logRecord[d]),
                     IF mid.logRecord[d] = log THEN hash[d]
                     ELSE StoredDigest(mid, d, mid.logRecord[d])>> : d \in live(e)}
    BY <1>0, <1>5, <2>2
  <2>4. \A d \in live(e) : /\ NewVersionIn(mid, d, mid.logRecord[d]) = v(d)
                           /\ mid.logRecord[d] = log <=> d \in X
    BY <1>0, <1>4
  <2>. HIDE DEF v
  <2>5. QED
    BY <2>3, <2>4
<1>7. ASSUME NEW e \in X
      PROVE  StoredDigest(after, e, log) = hash[e]
  <2>1. CASE live(e) = {}
    <3>1. after.digest[e] = mid.digest[e]
      BY <1>0, <1>2, <1>5, <2>1
    <3>2. StoredDigest(after, e, log) = Blank
      BY <1>0, <3>1 DEF StoredDigest
    <3>3. hash[e] = {}
      BY <1>6, <2>1
    <3>4. QED
      BY <3>2, <3>3 DEF Blank
  <2>2. CASE live(e) # {}
    <3>1. after.digest[e] = [l \in (DOMAIN mid.digest[e]) \cup {log} |->
                               IF l = log THEN hash[e] ELSE mid.digest[e][l]]
      BY <1>0, <1>2, <1>5, <2>2
    <3>2. QED
      BY <3>1 DEF StoredDigest
  <2>3. QED
    BY <2>1, <2>2
<1>8. \A e \in Entities \ X : after.digest[e] = mid.digest[e]
  BY <1>2
<1>9. ASSUME NEW e \in X
      PROVE  /\ DOMAIN mid.digest[e] \subseteq DOMAIN after.digest[e]
             /\ DOMAIN after.digest[e] \subseteq DOMAIN mid.digest[e] \cup {log}
             /\ \A l \in DOMAIN mid.digest[e] : after.digest[e][l] = mid.digest[e][l]
  <2>1. \/ after.digest[e] = mid.digest[e]
        \/ after.digest[e] = [l \in (DOMAIN mid.digest[e]) \cup {log} |->
                               IF l = log THEN hash[e] ELSE mid.digest[e][l]]
    BY <1>0, <1>2
  <2>2. log \notin DOMAIN mid.digest[e]
    BY <1>0
  <2>3. QED
    BY <2>1, <2>2
<1>10. ASSUME NEW e \in X PROVE DigestIsCurrent(deps, after, e)
  <2>1. after.logRecord[e] = log
    BY <1>0, <1>1
  <2>2. \A d \in live(e) :
            /\ v(d) = after.version[d]
            /\ (IF d \in X THEN hash[d] ELSE StoredDigest(mid, d, mid.logRecord[d]))
                 = StoredDigest(after, d, after.logRecord[d])
    <3>. SUFFICES ASSUME NEW d \in live(e)
                  PROVE  (IF d \in X THEN hash[d] ELSE StoredDigest(mid, d, mid.logRecord[d]))
                           = StoredDigest(after, d, after.logRecord[d])
      BY <1>1
    <3>1. d \in Entities
      BY <1>0, <1>4
    <3>2. CASE d \in X
      BY <1>1, <1>7, <3>1, <3>2
    <3>3. CASE d \notin X
      BY <1>1, <1>8, <3>1, <3>3 DEF StoredDigest
    <3>4. QED
      BY <3>2, <3>3
  <2>3. live(e) = LiveDependencies(deps, after, e, after.version[e])
    BY <1>1 DEF live, LiveDependencies
  <2>. HIDE DEF v
  <2>4. hash[e] = {<<d, after.version[d], StoredDigest(after, d, after.logRecord[d])>> :
                      d \in live(e)}
    BY <1>6, <2>2
  <2>5. QED
    BY <1>7, <2>1, <2>3, <2>4 DEF DigestIsCurrent
<1>11. QED
  BY <1>1, <1>8, <1>9, <1>10

-----------------------------------------------------------------------------
(***************************************************************************)
(* One transaction                                                         *)
(***************************************************************************)
\* View, of a transaction on a branch.
ViewOf(t, br) ==
    LET own(e) == e \in DOMAIN t.records
    IN  [ version   |-> [e \in Entities |->
              IF e \in t.rows \cap t.changed THEN t.records[e].new ELSE br.version[e]],
          logRecord |-> [e \in Entities |-> IF e \in t.rows THEN t.log ELSE br.logRecord[e]],
          records   |-> [e \in Entities |->
              IF own(e) THEN Append(br.records[e], t.records[e]) ELSE br.records[e]],
          digest    |-> [e \in Entities |->
              IF e \in DOMAIN t.digest
                THEN [l \in (DOMAIN br.digest[e]) \cup {t.log} |->
                        IF l = t.log THEN t.digest[e] ELSE br.digest[e][l]]
                ELSE br.digest[e]] ]

\* What the edited entities depend on.
EditedAreLeaves(deps) == \A e \in Edited : \A v \in DOMAIN deps[e] : deps[e][v] = {}

\* The record the transaction has for e.
IsRecordOf(deps, t, e) ==
    /\ t.records[e] \in LogRecord
    /\ t.records[e].log = t.log
    /\ t.records[e].new \in {None} \cup DOMAIN deps[e]

\* The parts of a transaction fit each other and its next statement.
TransactionOK(deps, t) ==
    /\ DOMAIN t = {"onDraft", "log", "records", "changed", "rows", "locks", "digest", "next"}
    /\ t.onDraft \in BOOLEAN /\ t.log \in Nat \ {0} /\ t.next \in 1 .. 5
    /\ t.changed \subseteq Edited
    /\ DOMAIN t.records \subseteq Entities
    /\ \A e \in DOMAIN t.records : IsRecordOf(deps, t, e)
    /\ t.next <= 2 => DOMAIN t.records = t.changed
    /\ t.next >= 3 => DOMAIN t.records = t.rows
    /\ t.next = 1 => t.rows = {}
    /\ t.next = 2 => t.rows = t.changed
    /\ t.next >= 2 => t.rows \cap Edited = t.changed
    /\ t.locks = (IF t.next = 3 THEN t.changed ELSE t.rows)
    /\ t.next <= 4 => t.digest = << >>
    /\ DOMAIN t.digest \subseteq t.rows

\* The rows that depend on the changed ones have records of the version they have.
HasAffected(deps, t, br) ==
    /\ IsClosed(deps, br, t.rows)
    /\ \A e \in t.rows \ t.changed : t.records[e].new = br.version[e]

\* A transaction is as far as it says, whatever else was committed meanwhile.
Fits(deps, t, br, last) ==
    /\ t.log <= last
    /\ IsFresh(br, t.log)
    /\ t.next >= 3 => HasAffected(deps, t, br)
    /\ t.next = 5 => \A e \in t.rows : DigestIsCurrent(deps, ViewOf(t, br), e)

\* Branches with the same versions of all that is not edited have the same rows
\* depending on each other.
LEMMA SameDependents ==
    ASSUME NEW deps, EditedAreLeaves(deps), NEW br, NEW other,
           Points(deps, br), Points(deps, other),
           \A e \in Entities \ Edited : br.version[e] = other.version[e], NEW X
    PROVE  DependentsOf(deps, br, X) = DependentsOf(deps, other, X)
<1>1. \A e \in Edited \cap Entities :
          /\ br.version[e] # None => deps[e][br.version[e]] = {}
          /\ other.version[e] # None => deps[e][other.version[e]] = {}
  BY DEF Points, EditedAreLeaves
<1>2. QED
  BY <1>1 DEF DependentsOf

\* V is what the transaction sees of the row of e.
SeesRow(t, br, V, e) ==
    /\ V.version[e] = IF e \in t.rows \cap t.changed THEN t.records[e].new ELSE br.version[e]
    /\ V.logRecord[e] = IF e \in t.rows THEN t.log ELSE br.logRecord[e]
    /\ e \in DOMAIN t.records =>
          /\ V.records[e] = Append(br.records[e], t.records[e])
          /\ InLog(V.records[e], t.log) = {Len(br.records[e]) + 1}
          /\ V.records[e][Len(br.records[e]) + 1] = t.records[e]
          /\ NewVersionIn(V, e, t.log) = t.records[e].new
    /\ e \notin DOMAIN t.records =>
          V.records[e] = br.records[e] /\ InLog(V.records[e], t.log) = {}
    /\ e \notin DOMAIN t.digest => V.digest[e] = br.digest[e]

\* What a transaction sees of each row.
LEMMA ViewRows ==
    ASSUME NEW deps, NEW t, NEW br, TransactionOK(deps, t), Tables(br), IsFresh(br, t.log),
           NEW e \in Entities
    PROVE  SeesRow(t, br, ViewOf(t, br), e)
<1>. DEFINE V == ViewOf(t, br)
<1>1. /\ V.version[e] = IF e \in t.rows \cap t.changed THEN t.records[e].new
                        ELSE br.version[e]
      /\ V.logRecord[e] = IF e \in t.rows THEN t.log ELSE br.logRecord[e]
      /\ V.records[e] = IF e \in DOMAIN t.records THEN Append(br.records[e], t.records[e])
                        ELSE br.records[e]
  BY DEF ViewOf
<1>2. e \notin DOMAIN t.digest => V.digest[e] = br.digest[e]
  BY DEF ViewOf
<1>3. InLog(br.records[e], t.log) = {}
  BY DEF IsFresh
<1>. HIDE DEF V
<1>4. ASSUME e \in DOMAIN t.records
      PROVE  /\ InLog(V.records[e], t.log) = {Len(br.records[e]) + 1}
             /\ V.records[e][Len(br.records[e]) + 1] = t.records[e]
             /\ NewVersionIn(V, e, t.log) = t.records[e].new
  <2>1. PICK h, r : h = br.records[e] /\ r = t.records[e]
    OBVIOUS
  <2>2. /\ h \in Seq(LogRecord) /\ r \in LogRecord /\ r.log = t.log
        /\ t.log \in Nat /\ r.old \in Nat /\ r.new \in Nat
        /\ InLog(h, t.log) = {}
    BY <1>3, <1>4, <2>1 DEF TransactionOK, IsRecordOf, Tables, LogRecord
  <2>3. r = [log |-> t.log, old |-> r.old, new |-> r.new]
    BY <2>2 DEF LogRecord
  <2>4. InLog(Append(h, r), t.log) = {Len(h) + 1} /\ Append(h, r)[Len(h) + 1] = r
    <3>1. PICK log, old, new : log = t.log /\ old = r.old /\ new = r.new
      OBVIOUS
    <3>2. log \in Nat /\ old \in Nat /\ new \in Nat /\ h \in Seq(LogRecord) /\ InLog(h, log) = {}
      BY <2>2, <3>1
    <3>3. LET q == [log |-> log, old |-> old, new |-> new]
          IN  InLog(Append(h, q), log) = {Len(h) + 1} /\ Append(h, q)[Len(h) + 1] = q
      BY <3>2, AppendedIsInLog, Zenon
    <3>4. QED
      BY <2>3, <3>1, <3>3
  <2>5. V.records[e] = Append(h, r)
    BY <1>1, <1>4, <2>1
  <2>6. (CHOOSE i \in InLog(V.records[e], t.log) : TRUE) = Len(h) + 1
    BY <2>4, <2>5
  <2>7. NewVersionIn(V, e, t.log) = r.new
    BY <2>4, <2>5, <2>6 DEF NewVersionIn
  <2>8. QED
    BY <2>1, <2>4, <2>5, <2>7
<1>5. QED
  BY <1>1, <1>2, <1>3, <1>4 DEF V, SeesRow

\* The entities a transaction has records of are those of its log.
LEMMA ViewChanged ==
    ASSUME NEW deps, NEW t, NEW br, TransactionOK(deps, t), Tables(br), IsFresh(br, t.log)
    PROVE  ChangedIn(ViewOf(t, br), t.log) = DOMAIN t.records
<1>. DEFINE V == ViewOf(t, br)
<1>1. \A e \in Entities : InLog(V.records[e], t.log) # {} <=> e \in DOMAIN t.records
  <2>. SUFFICES ASSUME NEW e \in Entities
                PROVE  InLog(V.records[e], t.log) # {} <=> e \in DOMAIN t.records
    OBVIOUS
  <2>1. SeesRow(t, br, V, e)
    BY ViewRows
  <2>. HIDE DEF V
  <2>2. QED
    BY <2>1 DEF SeesRow
<1>2. DOMAIN t.records \subseteq Entities
  BY DEF TransactionOK
<1>. HIDE DEF V
<1>3. QED
  BY <1>1, <1>2 DEF ChangedIn, V

\* What it sees has the types of a branch, and the versions of the branch but for the
\* edited entities.
LEMMA ViewTables ==
    ASSUME NEW deps \in [Entities -> Seq(SUBSET Entities)], NEW t, NEW br,
           TransactionOK(deps, t), Tables(br), Points(deps, br)
    PROVE  /\ Tables(ViewOf(t, br)) /\ Points(deps, ViewOf(t, br))
           /\ \A e \in Entities \ Edited : ViewOf(t, br).version[e] = br.version[e]
<1>. DEFINE V == ViewOf(t, br)
<1>1. \A e \in DOMAIN t.records : /\ t.records[e] \in LogRecord /\ t.records[e].new \in Nat
                                  /\ t.records[e].new \in {None} \cup DOMAIN deps[e]
  BY DEF TransactionOK, IsRecordOf, LogRecord
<1>2. t.rows \cap t.changed \subseteq DOMAIN t.records /\ t.changed \subseteq Edited
  <2>1. t.next \in 1 .. 5
    BY DEF TransactionOK
  <2>2. t.next <= 2 \/ t.next >= 3
    BY <2>1
  <2>3. QED
    BY <2>2 DEF TransactionOK
<1>3. t.log \in Nat
  BY DEF TransactionOK
<1>4. V.version \in [Entities -> Nat] /\ V.logRecord \in [Entities -> Nat]
  BY <1>1, <1>2, <1>3 DEF ViewOf, Tables
<1>5. V.records \in [Entities -> Seq(LogRecord)]
  <2>1. \A e \in Entities : e \in DOMAIN t.records =>
            Append(br.records[e], t.records[e]) \in Seq(LogRecord)
    BY <1>1, AppendProperties DEF Tables
  <2>2. QED
    BY <2>1 DEF ViewOf, Tables
<1>6. \A e \in Entities : V.version[e] \in {None} \cup DOMAIN deps[e]
  BY <1>1, <1>2 DEF ViewOf, Points
<1>7. \A e \in Entities \ Edited : V.version[e] = br.version[e]
  BY <1>2 DEF ViewOf
<1>. HIDE DEF V
<1>8. QED
  BY <1>4, <1>5, <1>6, <1>7 DEF Tables, Points, V

\* A transaction that is as far as it says.
SessionOK(deps, t, br, last) == TransactionOK(deps, t) /\ Fits(deps, t, br, last)

\* What identifies a transaction stays.
SameLog(t, next) == next.onDraft = t.onDraft /\ next.log = t.log

\* A transaction that has read what it is to change.
LEMMA StartedOK ==
    ASSUME NEW deps, NEW br, NEW last \in Nat, NEW log \in Nat \ {0}, log <= last,
           IsFresh(br, log), NEW onDraft \in BOOLEAN, NEW records,
           DOMAIN records \subseteq Edited,
           \A e \in DOMAIN records : /\ records[e] \in LogRecord
                                     /\ records[e].log = log
                                     /\ records[e].new \in {None} \cup DOMAIN deps[e],
           NEW t, t = Transaction(onDraft, log, records)
    PROVE  /\ SessionOK(deps, t, br, last)
           /\ t.onDraft = onDraft /\ t.log = log /\ t.locks = {}
<1>1. /\ DOMAIN t = {"onDraft", "log", "records", "changed", "rows", "locks", "digest", "next"}
      /\ t.onDraft = onDraft /\ t.log = log /\ t.records = records
      /\ t.changed = DOMAIN records /\ t.rows = {} /\ t.locks = {}
      /\ t.digest = << >> /\ t.next = 1
  BY DEF Transaction
<1>2. Edited \subseteq Entities
  BY EditedAssumption
<1>3. TransactionOK(deps, t)
  BY <1>1, <1>2 DEF TransactionOK, IsRecordOf
<1>4. Fits(deps, t, br, last)
  BY <1>1 DEF Fits
<1>5. QED
  BY <1>1, <1>3, <1>4 DEF SessionOK

\* SaveRows
Saved(t) == [t EXCEPT !.rows = t.changed, !.locks = t.changed, !.next = @ + 1]

\* It has saved the rows it changes, and locks them.
LEMMA SavedOK ==
    ASSUME NEW deps, NEW t, NEW br, NEW last, SessionOK(deps, t, br, last), t.next = 1
    PROVE  /\ SessionOK(deps, Saved(t), br, last) /\ SameLog(t, Saved(t))
           /\ Saved(t).locks = t.changed
<1>1. PICK next : next = Saved(t)
  OBVIOUS
<1>2. /\ DOMAIN next = DOMAIN t
      /\ next.onDraft = t.onDraft /\ next.log = t.log /\ next.records = t.records
      /\ next.changed = t.changed /\ next.rows = t.changed /\ next.locks = t.changed
      /\ next.digest = t.digest /\ next.next = 2
  BY <1>1 DEF Saved, SessionOK, TransactionOK
<1>3. TransactionOK(deps, next)
  BY <1>2 DEF SessionOK, TransactionOK, IsRecordOf
<1>4. Fits(deps, next, br, last)
  BY <1>2 DEF SessionOK, Fits
<1>5. QED
  BY <1>1, <1>2, <1>3, <1>4 DEF SessionOK, SameLog

\* FindAffected
Affecting(deps, t, br) ==
    LET V == WithSideEffectRecords(deps, ViewOf(t, br), t.log)
    IN  [t EXCEPT !.records = RecordsOf(V, t.log),
                  !.rows = ChangedIn(V, t.log),
                  !.next = @ + 1]

\* It has records of the rows that depend on the ones it changed.
LEMMA AffectingOK ==
    ASSUME NEW deps \in [Entities -> Seq(SUBSET Entities)], EditedAreLeaves(deps),
           NEW t, NEW br, NEW last, SessionOK(deps, t, br, last), t.next = 2,
           Tables(br), Points(deps, br)
    PROVE  /\ SessionOK(deps, Affecting(deps, t, br), br, last)
           /\ SameLog(t, Affecting(deps, t, br))
           /\ Affecting(deps, t, br).locks = t.locks
<1>. DEFINE V == ViewOf(t, br)
            W == WithSideEffectRecords(deps, V, t.log)
            A == Ancestors(deps, V, t.changed)
            rows == ChangedIn(W, t.log)
            recordOf(e) == W.records[e][CHOOSE i \in InLog(W.records[e], t.log) : TRUE]
<1>1. /\ TransactionOK(deps, t) /\ Fits(deps, t, br, last)
      /\ DOMAIN t.records = t.changed /\ t.rows = t.changed /\ t.changed \subseteq Edited
      /\ t.locks = t.changed /\ t.digest = << >> /\ t.log \in Nat \ {0}
      /\ t.changed \subseteq Entities
  BY DEF SessionOK, TransactionOK
<1>2. IsFresh(br, t.log)
  BY <1>1 DEF Fits
<1>3. /\ Tables(V) /\ Points(deps, V)
      /\ \A e \in Entities \ Edited : V.version[e] = br.version[e]
  BY <1>1, ViewTables
<1>4. ChangedIn(V, t.log) = t.changed
  BY <1>1, <1>2, ViewChanged
<1>5. /\ A \subseteq Entities
      /\ DependentsOf(deps, V, t.changed \cup A) \subseteq A
      /\ \A T \in SUBSET Entities :
            DependentsOf(deps, V, t.changed \cup T) \subseteq T => A \subseteq T
  BY AncestorsAreLeast
<1>6. A \cap Edited = {}
  <2>1. DependentsOf(deps, V, t.changed \cup (Entities \ Edited)) \subseteq Entities \ Edited
    BY <1>3 DEF DependentsOf, Points, EditedAreLeaves
  <2>. HIDE DEF A
  <2>2. QED
    BY <1>5, <2>1
<1>7. \A e \in Entities :
         W.records[e] = IF e \in A /\ InLog(V.records[e], t.log) = {}
                          THEN Append(V.records[e],
                                 [log |-> t.log, old |-> V.version[e], new |-> V.version[e]])
                          ELSE V.records[e]
  <2>. HIDE DEF V
  <2>1. AffectedRows(deps, V, t.log) = A
    BY <1>4 DEF AffectedRows
  <2>. HIDE DEF A
  <2>2. QED
    BY <2>1 DEF WithSideEffectRecords
<1>. HIDE DEF A, W
<1>8. ASSUME NEW e \in Entities
      PROVE  /\ e \in t.changed => InLog(W.records[e], t.log) # {} /\ recordOf(e) = t.records[e]
             /\ e \in A =>
                   /\ InLog(W.records[e], t.log) # {}
                   /\ recordOf(e) = [log |-> t.log, old |-> V.version[e], new |-> V.version[e]]
             /\ e \notin t.changed \cup A => InLog(W.records[e], t.log) = {}
  <2>1. SeesRow(t, br, V, e)
    BY <1>1, <1>2, ViewRows
  <2>. HIDE DEF V
  <2>2. CASE e \in t.changed
    <3>1. e \notin A
      BY <1>1, <1>6, <2>2
    <3>2. /\ W.records[e] = V.records[e]
          /\ InLog(V.records[e], t.log) = {Len(br.records[e]) + 1}
          /\ V.records[e][Len(br.records[e]) + 1] = t.records[e]
      BY <1>1, <1>7, <2>1, <2>2, <3>1 DEF SeesRow
    <3>3. (CHOOSE i \in InLog(W.records[e], t.log) : TRUE) = Len(br.records[e]) + 1
      BY <3>2
    <3>4. QED
      BY <2>2, <3>1, <3>2, <3>3
  <2>3. CASE e \in A
    <3>1. e \notin t.changed
      BY <1>1, <1>6, <2>3
    <3>2. PICK h, log, v : h = V.records[e] /\ log = t.log /\ v = V.version[e]
      OBVIOUS
    <3>3. InLog(h, log) = {} /\ h \in Seq(LogRecord) /\ log \in Nat /\ v \in Nat
      BY <1>1, <1>3, <2>1, <3>1, <3>2 DEF SeesRow, Tables
    <3>4. LET r == [log |-> log, old |-> v, new |-> v]
          IN  InLog(Append(h, r), log) = {Len(h) + 1} /\ Append(h, r)[Len(h) + 1] = r
      BY <3>3, AppendedIsInLog, Zenon
    <3>5. W.records[e] = Append(h, [log |-> log, old |-> v, new |-> v])
      BY <1>7, <2>3, <3>2, <3>3
    <3>6. (CHOOSE i \in InLog(W.records[e], t.log) : TRUE) = Len(h) + 1
      BY <3>2, <3>4, <3>5
    <3>7. QED
      BY <2>3, <3>1, <3>2, <3>4, <3>5, <3>6
  <2>4. CASE e \notin t.changed \cup A
    <3>1. W.records[e] = V.records[e] /\ InLog(V.records[e], t.log) = {}
      BY <1>1, <1>7, <2>1, <2>4 DEF SeesRow
    <3>2. QED
      BY <2>4, <3>1
  <2>5. QED
    BY <2>2, <2>3, <2>4
<1>9. rows = t.changed \cup A
  <2>. HIDE DEF V
  <2>1. QED
    BY <1>1, <1>5, <1>8 DEF ChangedIn
<1>10. PICK next : next = Affecting(deps, t, br)
  OBVIOUS
<1>11. /\ DOMAIN next = DOMAIN t
       /\ next.onDraft = t.onDraft /\ next.log = t.log
       /\ next.records = [e \in rows |-> recordOf(e)]
       /\ next.changed = t.changed /\ next.rows = rows /\ next.locks = t.locks
       /\ next.digest = t.digest /\ next.next = 3
  <2>1. next = [t EXCEPT !.records = [e \in rows |-> recordOf(e)], !.rows = rows, !.next = @ + 1]
    BY <1>10 DEF Affecting, W, RecordsOf
  <2>2. DOMAIN t = {"onDraft", "log", "records", "changed", "rows", "locks", "digest", "next"}
    BY <1>1 DEF TransactionOK
  <2>. HIDE DEF rows, recordOf
  <2>3. QED
    BY <2>1, <2>2
<1>12. ASSUME NEW e \in rows
       PROVE  /\ IsRecordOf(deps, next, e)
              /\ e \notin t.changed => next.records[e].new = br.version[e]
  <2>0. next.records[e] = recordOf(e) /\ next.log = t.log
    BY <1>11
  <2>. HIDE DEF V, recordOf
  <2>1. CASE e \in t.changed
    <3>1. next.records[e] = t.records[e]
      BY <1>1, <1>8, <2>0, <2>1
    <3>2. IsRecordOf(deps, t, e)
      BY <1>1, <2>1 DEF TransactionOK
    <3>3. QED
      BY <2>0, <2>1, <3>1, <3>2 DEF IsRecordOf
  <2>2. CASE e \in A
    <3>1. e \in Entities /\ e \notin Edited
      BY <1>5, <1>6, <2>2
    <3>2. next.records[e] = [log |-> t.log, old |-> V.version[e], new |-> V.version[e]]
      BY <1>8, <2>0, <2>2, <3>1
    <3>3. /\ V.version[e] \in Nat /\ V.version[e] = br.version[e]
          /\ V.version[e] \in {None} \cup DOMAIN deps[e] /\ t.log \in Nat
      BY <1>1, <1>3, <3>1 DEF Tables, Points
    <3>4. QED
      BY <2>0, <3>2, <3>3 DEF IsRecordOf, LogRecord
  <2>3. QED
    BY <1>9, <2>1, <2>2
<1>. HIDE DEF V, rows, recordOf
<1>13. DOMAIN next.records = rows /\ rows \subseteq Entities /\ rows \cap Edited = t.changed
  BY <1>1, <1>5, <1>6, <1>9, <1>11
<1>14. TransactionOK(deps, next)
  <2>1. /\ DOMAIN next = {"onDraft", "log", "records", "changed", "rows", "locks", "digest", "next"}
        /\ next.onDraft \in BOOLEAN
    BY <1>1, <1>11 DEF TransactionOK
  <2>2. QED
    BY <1>1, <1>11, <1>12, <1>13, <2>1 DEF TransactionOK
<1>15. IsClosed(deps, br, rows)
  <2>1. DependentsOf(deps, V, rows) \subseteq rows
    BY <1>5, <1>9
  <2>2. DependentsOf(deps, br, rows) = DependentsOf(deps, V, rows)
    BY <1>3, SameDependents
  <2>3. QED
    BY <2>1, <2>2 DEF IsClosed
<1>16. Fits(deps, next, br, last)
  BY <1>1, <1>11, <1>12, <1>15 DEF Fits, HasAffected
<1>17. QED
  BY <1>10, <1>11, <1>14, <1>16 DEF SessionOK, SameLog

\* UpdateRows
Updated(t) == [t EXCEPT !.locks = t.rows, !.next = @ + 1]

\* It has locked all rows of its log.
LEMMA UpdatedOK ==
    ASSUME NEW deps, NEW t, NEW br, NEW last, SessionOK(deps, t, br, last), t.next = 3
    PROVE  /\ SessionOK(deps, Updated(t), br, last) /\ SameLog(t, Updated(t))
           /\ Updated(t).locks = t.rows
<1>1. PICK next : next = Updated(t)
  OBVIOUS
<1>2. /\ DOMAIN next = DOMAIN t
      /\ next.onDraft = t.onDraft /\ next.log = t.log /\ next.records = t.records
      /\ next.changed = t.changed /\ next.rows = t.rows /\ next.locks = t.rows
      /\ next.digest = t.digest /\ next.next = 4
  BY <1>1 DEF Updated, SessionOK, TransactionOK
<1>3. TransactionOK(deps, next)
  BY <1>2 DEF SessionOK, TransactionOK, IsRecordOf
<1>4. Fits(deps, next, br, last)
  BY <1>2 DEF SessionOK, Fits, HasAffected
<1>5. QED
  BY <1>1, <1>2, <1>3, <1>4 DEF SessionOK, SameLog

\* Every row a transaction sees points at a record of its version, once it has those
\* of the rows that depend on what it changed.
LEMMA ViewMatches ==
    ASSUME NEW deps, NEW t, NEW br, NEW last, SessionOK(deps, t, br, last), t.next >= 3,
           Tables(br), NEW base, AtRest(deps, br, base), NEW e \in Entities
    PROVE  LET V == ViewOf(t, br)
           IN  /\ NewVersionIn(V, e, V.logRecord[e]) = V.version[e]
               /\ V.logRecord[e] = t.log <=> e \in t.rows
<1>1. PICK V : V = ViewOf(t, br)
  OBVIOUS
<1>2. /\ TransactionOK(deps, t) /\ Fits(deps, t, br, last) /\ IsFresh(br, t.log)
      /\ HasAffected(deps, t, br) /\ DOMAIN t.records = t.rows
  BY DEF SessionOK, TransactionOK, Fits
<1>3. SeesRow(t, br, V, e)
  BY <1>1, <1>2, ViewRows
<1>4. ASSUME e \in t.rows
      PROVE  NewVersionIn(V, e, V.logRecord[e]) = V.version[e] /\ V.logRecord[e] = t.log
  <2>1. V.logRecord[e] = t.log /\ NewVersionIn(V, e, t.log) = t.records[e].new
    BY <1>2, <1>3, <1>4 DEF SeesRow
  <2>2. V.version[e] = t.records[e].new
    BY <1>2, <1>3, <1>4 DEF SeesRow, HasAffected
  <2>3. QED
    BY <2>1, <2>2
<1>5. ASSUME e \notin t.rows
      PROVE  NewVersionIn(V, e, V.logRecord[e]) = V.version[e] /\ V.logRecord[e] # t.log
  <2>1. /\ V.version[e] = br.version[e] /\ V.logRecord[e] = br.logRecord[e]
        /\ V.records[e] = br.records[e]
    BY <1>2, <1>3, <1>5 DEF SeesRow
  <2>2. NewVersionIn(br, e, br.logRecord[e]) = br.version[e]
    BY DEF AtRest
  <2>3. br.logRecord[e] # t.log
    BY <1>2 DEF IsFresh
  <2>4. NewVersionIn(V, e, V.logRecord[e]) = NewVersionIn(br, e, br.logRecord[e])
    BY <2>1 DEF NewVersionIn
  <2>5. QED
    BY <2>1, <2>2, <2>3, <2>4
<1>6. QED
  BY <1>1, <1>4, <1>5

\* UpdateDigests
Digesting(deps, t, br) ==
    LET V == WithDigests(deps, ViewOf(t, br), t.log)
    IN  [t EXCEPT !.digest = [e \in {x \in Entities : t.log \in DOMAIN V.digest[x]} |->
                                 V.digest[e][t.log]],
                  !.next = @ + 1]

\* It has the digests of its rows, as it sees the branch.
LEMMA DigestingOK ==
    ASSUME NEW deps \in [Entities -> Seq(SUBSET Entities)], GoesDown(deps),
           NEW t, NEW br, NEW last, SessionOK(deps, t, br, last), t.next = 4,
           Tables(br), Points(deps, br), NEW base, AtRest(deps, br, base)
    PROVE  /\ SessionOK(deps, Digesting(deps, t, br), br, last)
           /\ SameLog(t, Digesting(deps, t, br))
           /\ Digesting(deps, t, br).locks = t.locks
<1>1. PICK V, W, log : V = ViewOf(t, br) /\ W = WithDigests(deps, V, log) /\ log = t.log
  OBVIOUS
<1>2. /\ TransactionOK(deps, t) /\ Fits(deps, t, br, last) /\ IsFresh(br, log)
      /\ DOMAIN t.records = t.rows /\ t.digest = << >> /\ t.locks = t.rows
      /\ t.rows \subseteq Entities
  BY <1>1 DEF SessionOK, TransactionOK, Fits
<1>3. Points(deps, V)
  BY <1>1, <1>2, ViewTables
<1>4. t.rows = ChangedIn(V, log)
  BY <1>1, <1>2, ViewChanged
<1>5. \A e \in Entities : /\ NewVersionIn(V, e, V.logRecord[e]) = V.version[e]
                          /\ V.logRecord[e] = log <=> e \in t.rows
  BY <1>1, ViewMatches
<1>6. \A e \in Entities : V.digest[e] = br.digest[e]
  BY <1>1, <1>2 DEF ViewOf
<1>7. \A e \in Entities : log \notin DOMAIN V.digest[e]
  BY <1>2, <1>6 DEF IsFresh
<1>8. /\ W.version = V.version /\ W.logRecord = V.logRecord /\ W.records = V.records
      /\ \A e \in Entities \ t.rows : W.digest[e] = V.digest[e]
      /\ \A e \in t.rows : /\ DOMAIN V.digest[e] \subseteq DOMAIN W.digest[e]
                           /\ DOMAIN W.digest[e] \subseteq DOMAIN V.digest[e] \cup {log}
                           /\ \A l \in DOMAIN V.digest[e] : W.digest[e][l] = V.digest[e][l]
      /\ \A e \in t.rows : DigestIsCurrent(deps, W, e)
  BY <1>1, <1>3, <1>4, <1>5, <1>7, DigestsOfALog
<1>9. PICK next : next = Digesting(deps, t, br)
  OBVIOUS
<1>10. PICK has : has = {x \in Entities : log \in DOMAIN W.digest[x]}
  OBVIOUS
<1>11. /\ DOMAIN next = DOMAIN t
       /\ next.onDraft = t.onDraft /\ next.log = t.log /\ next.records = t.records
       /\ next.changed = t.changed /\ next.rows = t.rows /\ next.locks = t.locks
       /\ next.digest = [e \in has |-> W.digest[e][log]] /\ next.next = 5
  <2>1. next = [t EXCEPT !.digest = [e \in has |-> W.digest[e][log]], !.next = @ + 1]
    BY <1>1, <1>9, <1>10 DEF Digesting
  <2>2. DOMAIN t = {"onDraft", "log", "records", "changed", "rows", "locks", "digest", "next"}
    BY <1>2 DEF TransactionOK
  <2>3. QED
    BY <2>1, <2>2
<1>12. has \subseteq t.rows
  BY <1>7, <1>8, <1>10
<1>13. TransactionOK(deps, next)
  <2>1. DOMAIN next.digest \subseteq next.rows
    BY <1>11, <1>12
  <2>2. QED
    BY <1>2, <1>11, <2>1 DEF TransactionOK, IsRecordOf
<1>14. PICK N : N = ViewOf(next, br)
  OBVIOUS
<1>15. N.version = V.version /\ N.logRecord = V.logRecord
  BY <1>1, <1>11, <1>14 DEF ViewOf
<1>16. ASSUME NEW e \in Entities, NEW l PROVE StoredDigest(N, e, l) = StoredDigest(W, e, l)
  <2>1. CASE e \in has
    <3>1. N.digest[e] = [l2 \in (DOMAIN br.digest[e]) \cup {log} |->
                            IF l2 = log THEN W.digest[e][log] ELSE br.digest[e][l2]]
      BY <1>1, <1>11, <1>14, <2>1 DEF ViewOf
    <3>2. /\ DOMAIN N.digest[e] = {log} \cup DOMAIN br.digest[e]
          /\ N.digest[e][log] = W.digest[e][log]
          /\ \A k \in DOMAIN br.digest[e] : k # log => N.digest[e][k] = br.digest[e][k]
      BY <3>1
    <3>3. e \in t.rows /\ log \in DOMAIN W.digest[e]
      BY <1>10, <1>12, <2>1
    <3>4. /\ DOMAIN W.digest[e] = {log} \cup DOMAIN br.digest[e]
          /\ \A k \in DOMAIN br.digest[e] : W.digest[e][k] = br.digest[e][k]
      BY <1>6, <1>8, <3>3
    <3>5. QED
      BY <3>2, <3>4 DEF StoredDigest
  <2>2. CASE e \notin has
    <3>1. N.digest[e] = br.digest[e]
      BY <1>11, <1>14, <2>2 DEF ViewOf
    <3>2. /\ DOMAIN W.digest[e] = DOMAIN br.digest[e]
          /\ \A k \in DOMAIN br.digest[e] : W.digest[e][k] = br.digest[e][k]
      <4>1. log \notin DOMAIN W.digest[e]
        BY <1>10, <2>2
      <4>2. CASE e \in t.rows
        <5>1. PICK f, g : f = W.digest[e] /\ g = V.digest[e]
          OBVIOUS
        <5>2. /\ DOMAIN g \subseteq DOMAIN f /\ DOMAIN f \subseteq DOMAIN g \cup {log}
              /\ \A k \in DOMAIN g : f[k] = g[k]
          BY <1>8, <4>2, <5>1
        <5>3. log \notin DOMAIN f
          BY <4>1, <5>1
        <5>4. DOMAIN f = DOMAIN g
          BY <5>2, <5>3
        <5>5. V.digest[e] = br.digest[e]
          BY <1>6
        <5>6. QED
          BY <5>1, <5>2, <5>4, <5>5
      <4>3. CASE e \notin t.rows
        BY <1>6, <1>8, <4>3
      <4>4. QED
        BY <4>2, <4>3
    <3>3. QED
      BY <3>1, <3>2 DEF StoredDigest
  <2>3. QED
    BY <2>1, <2>2
<1>17. ASSUME NEW e \in t.rows PROVE DigestIsCurrent(deps, N, e)
  <2>1. DigestIsCurrent(deps, W, e)
    BY <1>8
  <2>2. PICK live : live = LiveDependencies(deps, W, e, W.version[e])
    OBVIOUS
  <2>3. live = LiveDependencies(deps, N, e, N.version[e])
    BY <1>8, <1>15, <2>2 DEF LiveDependencies
  <2>4. live \subseteq Entities
    <3>1. W.version[e] = V.version[e] /\ e \in Entities
      BY <1>2, <1>8
    <3>2. V.version[e] # None => deps[e][V.version[e]] \subseteq Entities
      BY <1>3, <3>1, VersionDependsOnEntities
    <3>3. QED
      BY <2>2, <3>1, <3>2 DEF LiveDependencies
  <2>5. StoredDigest(W, e, W.logRecord[e]) =
          {<<d, W.version[d], StoredDigest(W, d, W.logRecord[d])>> : d \in live}
    BY <2>1, <2>2 DEF DigestIsCurrent
  <2>6. StoredDigest(N, e, N.logRecord[e]) =
          {<<d, N.version[d], StoredDigest(N, d, N.logRecord[d])>> : d \in live}
    BY <1>2, <1>8, <1>15, <1>16, <2>4, <2>5
  <2>7. QED
    BY <2>3, <2>6 DEF DigestIsCurrent
<1>18. Fits(deps, next, br, last)
  BY <1>2, <1>11, <1>14, <1>17 DEF SessionOK, Fits, HasAffected
<1>19. QED
  BY <1>9, <1>11, <1>13, <1>18 DEF SessionOK, SameLog

\* What it sees at the end is a branch at rest.
LEMMA CommittedAtRest ==
    ASSUME NEW deps \in [Entities -> Seq(SUBSET Entities)], EditedAreLeaves(deps),
           NEW t, NEW br, NEW last \in Nat, SessionOK(deps, t, br, last), t.next = 5,
           Tables(br), Points(deps, br), AtRest(deps, br, last)
    PROVE  AtRest(deps, ViewOf(t, br), last)
<1>1. PICK V : V = ViewOf(t, br)
  OBVIOUS
<1>2. /\ TransactionOK(deps, t) /\ Fits(deps, t, br, last) /\ IsFresh(br, t.log)
      /\ HasAffected(deps, t, br) /\ DOMAIN t.records = t.rows /\ DOMAIN t.digest \subseteq t.rows
      /\ t.rows \subseteq Entities /\ t.log \in 1 .. last
      /\ \A e \in t.rows : DigestIsCurrent(deps, V, e)
  BY <1>1 DEF SessionOK, TransactionOK, Fits
<1>3. /\ Tables(V) /\ Points(deps, V)
      /\ \A e \in Entities \ Edited : V.version[e] = br.version[e]
  BY <1>1, <1>2, ViewTables
<1>4. IsClosed(deps, V, t.rows)
  <2>1. DependentsOf(deps, V, t.rows) = DependentsOf(deps, br, t.rows)
    BY <1>3, SameDependents
  <2>2. QED
    BY <1>2, <2>1 DEF HasAffected, IsClosed
<1>5. ASSUME NEW e \in Entities \ t.rows PROVE SameRow(br, V, e)
  <2>1. SeesRow(t, br, V, e)
    BY <1>1, <1>2, ViewRows
  <2>2. QED
    BY <1>2, <2>1 DEF SeesRow, SameRow
<1>6. ASSUME NEW e \in t.rows PROVE RowAtRest(V, e, last)
  <2>1. SeesRow(t, br, V, e)
    BY <1>1, <1>2, ViewRows
  <2>2. V.logRecord[e] \in 0 .. last
    BY <1>2, <2>1 DEF SeesRow
  <2>3. \A i \in 1 .. Len(V.records[e]) : V.records[e][i].log \in 1 .. last
    <3>1. PICK h, r : h = br.records[e] /\ r = t.records[e]
      OBVIOUS
    <3>2. /\ h \in Seq(LogRecord) /\ r \in LogRecord /\ r.log \in 1 .. last
          /\ \A i \in 1 .. Len(h) : h[i].log \in 1 .. last
          /\ V.records[e] = Append(h, r)
      BY <1>2, <2>1, <3>1 DEF TransactionOK, IsRecordOf, Tables, SeesRow, AtRest
    <3>3. /\ Len(h) \in Nat /\ Len(Append(h, r)) = Len(h) + 1
          /\ Append(h, r)[Len(h) + 1] = r
          /\ \A i \in 1 .. Len(h) : Append(h, r)[i] = h[i]
      BY <3>2, AppendProperties, LenProperties
    <3>4. QED
      BY <3>2, <3>3
  <2>4. DOMAIN V.digest[e] \subseteq 1 .. last
    <3>1. DOMAIN V.digest[e] \subseteq DOMAIN br.digest[e] \cup {t.log}
      BY <1>1, <1>2 DEF ViewOf
    <3>2. QED
      BY <1>2, <3>1 DEF AtRest
  <2>5. NewVersionIn(V, e, V.logRecord[e]) = V.version[e]
    BY <1>1, <1>2, ViewMatches
  <2>6. QED
    BY <2>2, <2>3, <2>4, <2>5 DEF RowAtRest
<1>7. AtRest(deps, V, last)
  BY <1>2, <1>3, <1>4, <1>5, <1>6, WrittenLogIsAtRest
<1>8. QED
  BY <1>1, <1>7

\* A row that stays on the branch stays for who sees it.
LEMMA SameRowSeen ==
    ASSUME NEW t, NEW br, NEW other, NEW e \in Entities, SameRow(br, other, e)
    PROVE  SameRow(ViewOf(t, br), ViewOf(t, other), e)
<1>1. /\ ViewOf(t, br).version[e] = ViewOf(t, other).version[e]
      /\ ViewOf(t, br).logRecord[e] = ViewOf(t, other).logRecord[e]
      /\ ViewOf(t, br).records[e] = ViewOf(t, other).records[e]
  BY DEF SameRow, ViewOf
<1>2. ViewOf(t, br).digest[e] = ViewOf(t, other).digest[e]
  BY DEF SameRow, ViewOf
<1>3. QED
  BY <1>1, <1>2 DEF SameRow

\* A transaction is as far as it says when another one has committed, which had locks
\* on other rows: it had them on all that depends on what it changed, so nothing of
\* that is below the rows of this one.
LEMMA OtherCommitted ==
    ASSUME NEW deps \in [Entities -> Seq(SUBSET Entities)], EditedAreLeaves(deps),
           NEW t, NEW o, NEW br, NEW last \in Nat, Tables(br), Points(deps, br),
           SessionOK(deps, t, br, last), SessionOK(deps, o, br, last), o.next = 5,
           t.log # o.log, t.locks \cap o.locks = {}
    PROVE  SessionOK(deps, t, ViewOf(o, br), last)
<1>1. PICK after : after = ViewOf(o, br)
  OBVIOUS
<1>2. /\ TransactionOK(deps, o) /\ IsFresh(br, o.log) /\ HasAffected(deps, o, br)
      /\ DOMAIN o.records = o.rows /\ DOMAIN o.digest \subseteq o.rows
      /\ o.rows \subseteq Entities /\ o.locks = o.rows
  BY DEF SessionOK, TransactionOK, Fits
<1>3. TransactionOK(deps, t) /\ Fits(deps, t, br, last) /\ IsFresh(br, t.log)
  BY DEF SessionOK, Fits
<1>4. /\ Tables(after) /\ Points(deps, after)
      /\ \A e \in Entities \ Edited : after.version[e] = br.version[e]
  BY <1>1, <1>2, ViewTables
<1>5. IsFresh(after, t.log)
  <2>. SUFFICES ASSUME NEW e \in Entities
                PROVE  /\ InLog(after.records[e], t.log) = {}
                       /\ after.logRecord[e] # t.log
                       /\ t.log \notin DOMAIN after.digest[e]
    BY DEF IsFresh
  <2>1. SeesRow(o, br, after, e)
    BY <1>1, <1>2, ViewRows
  <2>2. /\ InLog(br.records[e], t.log) = {} /\ br.logRecord[e] # t.log
        /\ t.log \notin DOMAIN br.digest[e]
    BY <1>3 DEF IsFresh
  <2>3. after.logRecord[e] # t.log
    BY <2>1, <2>2 DEF SeesRow
  <2>4. DOMAIN after.digest[e] \subseteq DOMAIN br.digest[e] \cup {o.log}
    BY <1>1 DEF ViewOf
  <2>5. CASE e \notin o.rows
    BY <1>2, <2>1, <2>2, <2>3, <2>4, <2>5 DEF SeesRow
  <2>6. CASE e \in o.rows
    <3>1. PICK h, r : h = br.records[e] /\ r = o.records[e]
      OBVIOUS
    <3>2. /\ h \in Seq(LogRecord) /\ r \in LogRecord /\ r.log = o.log
          /\ after.records[e] = Append(h, r)
      BY <1>2, <2>1, <2>6, <3>1 DEF TransactionOK, IsRecordOf, Tables, SeesRow
    <3>3. /\ Len(h) \in Nat /\ Len(Append(h, r)) = Len(h) + 1
          /\ Append(h, r)[Len(h) + 1] = r
          /\ \A i \in 1 .. Len(h) : Append(h, r)[i] = h[i]
      BY <3>2, AppendProperties, LenProperties
    <3>4. \A i \in 1 .. Len(h) : h[i].log # t.log
      BY <2>2, <3>1 DEF InLog
    <3>5. \A i \in 1 .. Len(Append(h, r)) : Append(h, r)[i].log # t.log
      BY <3>2, <3>3, <3>4
    <3>6. InLog(after.records[e], t.log) = {}
      BY <3>2, <3>5 DEF InLog
    <3>7. QED
      BY <2>2, <2>3, <2>4, <3>6
  <2>7. QED
    BY <2>5, <2>6
<1>6. ASSUME t.next >= 3 PROVE HasAffected(deps, t, after)
  <2>1. HasAffected(deps, t, br) /\ t.next >= 2 /\ t.rows \subseteq Entities
        /\ t.rows \cap Edited = t.changed
    BY <1>3, <1>6 DEF Fits, TransactionOK
  <2>2. DependentsOf(deps, after, t.rows) = DependentsOf(deps, br, t.rows)
    BY <1>4, SameDependents
  <2>3. IsClosed(deps, after, t.rows)
    BY <2>1, <2>2 DEF HasAffected, IsClosed
  <2>4. \A e \in t.rows \ t.changed : t.records[e].new = after.version[e]
    BY <1>4, <2>1 DEF HasAffected
  <2>5. QED
    BY <2>3, <2>4 DEF HasAffected
<1>7. ASSUME NEW d \in Entities \ o.rows PROVE SameRow(ViewOf(t, br), ViewOf(t, after), d)
  <2>1. SeesRow(o, br, after, d)
    BY <1>1, <1>2, ViewRows
  <2>2. SameRow(br, after, d)
    BY <1>2, <2>1 DEF SeesRow, SameRow
  <2>3. QED
    BY <2>2, SameRowSeen
<1>8. ASSUME t.next = 5, NEW e \in t.rows PROVE DigestIsCurrent(deps, ViewOf(t, after), e)
  <2>1. PICK V : V = ViewOf(t, br)
    OBVIOUS
  <2>2. /\ DigestIsCurrent(deps, V, e) /\ t.locks = t.rows /\ DOMAIN t.records = t.rows
        /\ e \in Entities /\ t.rows \cap Edited = t.changed
    BY <1>3, <1>8, <2>1 DEF Fits, TransactionOK
  <2>3. e \notin o.rows
    BY <1>2, <1>8, <2>2
  <2>4. SeesRow(t, br, V, e) /\ Points(deps, V)
    BY <1>3, <2>1, <2>2, ViewRows, ViewTables
  <2>5. ASSUME V.version[e] # None, NEW d \in deps[e][V.version[e]]
        PROVE  SameRow(V, ViewOf(t, after), d)
    <3>1. e \notin Edited
      BY <2>2, <2>4, <2>5 DEF EditedAreLeaves, Points
    <3>2. V.version[e] = br.version[e]
      BY <1>3, <2>1, <2>2, <3>1, ViewTables
    <3>3. d \in Entities
      BY <2>2, <2>4, <2>5, VersionDependsOnEntities
    <3>4. d \notin o.rows
      <4>1. d \in o.rows => e \in DependentsOf(deps, br, o.rows)
        BY <2>2, <2>5, <3>2 DEF DependentsOf
      <4>2. DependentsOf(deps, br, o.rows) \subseteq o.rows
        BY <1>2 DEF HasAffected, IsClosed
      <4>3. QED
        BY <2>3, <4>1, <4>2
    <3>5. QED
      BY <1>7, <2>1, <3>3, <3>4
  <2>6. SameRow(V, ViewOf(t, after), e)
    BY <1>7, <2>1, <2>2, <2>3
  <2>7. QED
    BY <2>2, <2>5, <2>6, SameRowsSameDigest
<1>9. Fits(deps, t, after, last)
  BY <1>3, <1>5, <1>6, <1>8 DEF Fits
<1>10. QED
  BY <1>1, <1>3, <1>9 DEF SessionOK

-----------------------------------------------------------------------------
(***************************************************************************)
(* All sessions                                                            *)
(***************************************************************************)
\* The last log of the branch.
LogOf(onDraft) == IF onDraft THEN lastDraftLog ELSE lastPublishLog

\* The session's transaction is as far as it says.
SessionFits(s) ==
    SessionOK(dependencies, tx[s], Branch(tx[s].onDraft), LogOf(tx[s].onDraft))

\* Two transactions on a branch have logs and locks of their own.
AreApart(t, other) ==
    t.onDraft = other.onDraft => t.log # other.log /\ t.locks \cap other.locks = {}

\* What every step of the sessions keeps.
SessionsIInv ==
    /\ TypeOK
    /\ openLogs = << >>
    /\ BranchesAtRest
    /\ DOMAIN tx = Sessions
    /\ \A s \in Sessions : Running(s) => SessionFits(s)
    /\ \A s, other \in Sessions :
          s # other /\ Running(s) /\ Running(other) => AreApart(tx[s], tx[other])

\* Components depend on nothing, and dependencies go down.
LEMMA TypeLeaves ==
    ASSUME TypeOK
    PROVE  EditedAreLeaves(dependencies) /\ GoesDown(dependencies)
<1>1. ASSUME NEW e \in Edited, NEW v \in DOMAIN dependencies[e], NEW d \in dependencies[e][v]
      PROVE  FALSE
  <2>1. e \in Entities /\ Level[e] = 0
    BY EditedAssumption
  <2>2. dependencies[e] \in Seq(SUBSET Entities)
    BY <2>1 DEF TypeOK
  <2>3. d \in Entities
    BY <2>2
  <2>4. Level[d] < Level[e]
    BY <2>1 DEF TypeOK
  <2>5. Level[d] \in Nat
    BY <2>3, LevelAssumption
  <2>6. QED
    BY <2>1, <2>4, <2>5
<1>2. EditedAreLeaves(dependencies)
  BY <1>1 DEF EditedAreLeaves
<1>3. QED
  BY <1>2, TypeGoesDown

\* What a running session has to work with.
LEMMA SessionFacts ==
    ASSUME SessionsIInv, NEW s \in Sessions, Running(s),
           NEW br, br = Branch(tx[s].onDraft), NEW last, last = LogOf(tx[s].onDraft)
    PROVE  /\ SessionOK(dependencies, tx[s], br, last)
           /\ View(s) = ViewOf(tx[s], br)
           /\ dependencies \in [Entities -> Seq(SUBSET Entities)]
           /\ EditedAreLeaves(dependencies) /\ GoesDown(dependencies)
           /\ Tables(br) /\ Points(dependencies, br) /\ AtRest(dependencies, br, last)
           /\ last \in Nat /\ tx[s].onDraft \in BOOLEAN
<1>1. SessionOK(dependencies, tx[s], br, last)
  BY DEF SessionsIInv, SessionFits
<1>2. View(s) = ViewOf(tx[s], br)
  BY DEF View, ViewOf
<1>3. /\ dependencies \in [Entities -> Seq(SUBSET Entities)]
      /\ Points(dependencies, draft) /\ Points(dependencies, published)
      /\ Tables(draft) /\ Tables(published)
      /\ lastPublishLog \in Nat /\ lastDraftLog \in Nat
      /\ EditedAreLeaves(dependencies) /\ GoesDown(dependencies)
  BY TypePoints, TypeLeaves DEF SessionsIInv
<1>4. Tables(br) /\ Points(dependencies, br) /\ AtRest(dependencies, br, last) /\ last \in Nat
  BY <1>3 DEF Branch, LogOf, SessionsIInv, BranchesAtRest
<1>5. tx[s].onDraft \in BOOLEAN
  BY <1>1 DEF SessionOK, TransactionOK
<1>6. QED
  BY <1>1, <1>2, <1>3, <1>4, <1>5

\* A statement of a session other than the first and the last leaves all as it should
\* be: it locks no row that another session has locked.
LEMMA StatementKeepsSessions ==
    ASSUME SessionsIInv, NEW s \in Sessions, Running(s), UNCHANGED vars,
           NEW t, tx' = [tx EXCEPT ![s] = t],
           SessionOK(dependencies, t, Branch(tx[s].onDraft), LogOf(tx[s].onDraft)),
           SameLog(tx[s], t), t.locks \subseteq tx[s].locks \/ AreFree(s, t.locks)
    PROVE  SessionsIInv'
<1>1. /\ DOMAIN tx' = Sessions /\ tx'[s] = t
      /\ \A o \in Sessions \ {s} : tx'[o] = tx[o]
  BY DEF SessionsIInv
<1>2. TypeOK' /\ openLogs' = << >> /\ BranchesAtRest'
  BY DEF SessionsIInv, vars, TypeOK, BranchTypeOK, BranchesAtRest, AtRest
<1>3. ASSUME NEW o \in Sessions, Running(o)' PROVE SessionFits(o)'
  <2>1. \A onDraft : Branch(onDraft)' = Branch(onDraft) /\ LogOf(onDraft)' = LogOf(onDraft)
    BY DEF vars, Branch, LogOf
  <2>2. dependencies' = dependencies
    BY DEF vars
  <2>3. CASE o = s
    <3>1. t.onDraft = tx[s].onDraft
      BY DEF SameLog
    <3>2. QED
      BY <1>1, <2>1, <2>2, <2>3, <3>1 DEF SessionFits, Branch, LogOf
  <2>4. CASE o # s
    <3>1. Running(o) /\ tx'[o] = tx[o]
      BY <1>1, <1>3, <2>4 DEF Running
    <3>2. SessionFits(o)
      BY <3>1 DEF SessionsIInv
    <3>3. QED
      BY <2>1, <2>2, <3>1, <3>2 DEF SessionFits, Branch, LogOf
  <2>5. QED
    BY <2>3, <2>4
<1>4. ASSUME NEW o \in Sessions, o # s, Running(o)
      PROVE  AreApart(t, tx[o]) /\ AreApart(tx[o], t)
  <2>1. AreApart(tx[s], tx[o])
    BY <1>4 DEF SessionsIInv
  <2>2. ASSUME t.onDraft = tx[o].onDraft
        PROVE  t.log # tx[o].log /\ t.locks \cap tx[o].locks = {}
    <3>1. tx[s].onDraft = tx[o].onDraft /\ t.log = tx[s].log
      BY <2>2 DEF SameLog
    <3>2. tx[s].log # tx[o].log /\ tx[s].locks \cap tx[o].locks = {}
      BY <2>1, <3>1 DEF AreApart
    <3>3. AreFree(s, t.locks) => t.locks \cap tx[o].locks = {}
      BY <1>4, <3>1 DEF AreFree
    <3>4. QED
      BY <3>1, <3>2, <3>3
  <2>3. QED
    BY <2>2 DEF AreApart
<1>5. ASSUME NEW o \in Sessions, NEW other \in Sessions, o # other, Running(o)', Running(other)'
      PROVE  AreApart(tx'[o], tx'[other])
  <2>1. CASE o = s
    <3>1. Running(other) /\ tx'[other] = tx[other]
      BY <1>1, <1>5, <2>1 DEF Running
    <3>2. QED
      BY <1>1, <1>4, <1>5, <2>1, <3>1
  <2>2. CASE other = s
    <3>1. Running(o) /\ tx'[o] = tx[o]
      BY <1>1, <1>5, <2>2 DEF Running
    <3>2. QED
      BY <1>1, <1>4, <1>5, <2>2, <3>1
  <2>3. CASE o # s /\ other # s
    <3>1. Running(o) /\ Running(other) /\ tx'[o] = tx[o] /\ tx'[other] = tx[other]
      BY <1>1, <1>5, <2>3 DEF Running
    <3>2. QED
      BY <1>5, <3>1 DEF SessionsIInv
  <2>4. QED
    BY <2>1, <2>2, <2>3
<1>6. QED
  BY <1>1, <1>2, <1>3, <1>5 DEF SessionsIInv, AreApart, Running

\* A session that ends leaves the others as they were.
LEMMA EndKeepsApart ==
    ASSUME SessionsIInv, NEW s \in Sessions, tx' = [tx EXCEPT ![s] = Idle]
    PROVE  /\ DOMAIN tx' = Sessions
           /\ \A o \in Sessions : Running(o)' => o # s /\ Running(o) /\ tx'[o] = tx[o]
           /\ \A o, other \in Sessions :
                o # other /\ Running(o)' /\ Running(other)' => AreApart(tx'[o], tx'[other])
<1>1. /\ DOMAIN tx' = Sessions /\ tx'[s] = Idle
      /\ \A o \in Sessions \ {s} : tx'[o] = tx[o]
  BY DEF SessionsIInv
<1>2. \A o \in Sessions : Running(o)' => o # s /\ Running(o) /\ tx'[o] = tx[o]
  BY <1>1 DEF Running
<1>3. QED
  BY <1>1, <1>2 DEF SessionsIInv

\* Fail
LEMMA FailKeepsSessions ==
    ASSUME SessionsIInv, NEW s \in Sessions, Fail(s)
    PROVE  SessionsIInv'
<1>1. UNCHANGED vars /\ tx' = [tx EXCEPT ![s] = Idle]
  BY DEF Fail
<1>2. TypeOK' /\ openLogs' = << >> /\ BranchesAtRest'
  BY <1>1 DEF SessionsIInv, vars, TypeOK, BranchTypeOK, BranchesAtRest, AtRest
<1>3. /\ DOMAIN tx' = Sessions
      /\ \A o \in Sessions : Running(o)' => o # s /\ Running(o) /\ tx'[o] = tx[o]
      /\ \A o, other \in Sessions :
           o # other /\ Running(o)' /\ Running(other)' => AreApart(tx'[o], tx'[other])
  BY <1>1, EndKeepsApart
<1>4. ASSUME NEW o \in Sessions, Running(o)' PROVE SessionFits(o)'
  <2>1. SessionFits(o) /\ tx'[o] = tx[o]
    BY <1>3, <1>4 DEF SessionsIInv
  <2>2. \A onDraft : Branch(onDraft)' = Branch(onDraft) /\ LogOf(onDraft)' = LogOf(onDraft)
    BY <1>1 DEF vars, Branch, LogOf
  <2>3. QED
    BY <1>1, <2>1, <2>2 DEF vars, SessionFits, Branch, LogOf
<1>5. QED
  BY <1>2, <1>3, <1>4 DEF SessionsIInv, AreApart, Running

\* A call that starts, with a log of its own.
LEMMA StartKeepsSessions ==
    ASSUME SessionsIInv, NEW s \in Sessions, NEW onDraft \in BOOLEAN,
           NEW log, log = LogOf(onDraft) + 1,
           lastDraftLog' = IF onDraft THEN log ELSE lastDraftLog,
           lastPublishLog' = IF onDraft THEN lastPublishLog ELSE log,
           UNCHANGED <<dependencies, draft, published, openLogs>>,
           NEW records, DOMAIN records \subseteq Edited,
           \A e \in DOMAIN records : /\ records[e] \in LogRecord
                                     /\ records[e].log = log
                                     /\ records[e].new \in {None} \cup DOMAIN dependencies[e],
           Start(s, Transaction(onDraft, log, records))
    PROVE  SessionsIInv'
<1>1. PICK t : t = Transaction(onDraft, log, records)
  OBVIOUS
<1>2. /\ DOMAIN tx' = Sessions /\ tx'[s] = t
      /\ \A o \in Sessions \ {s} : tx'[o] = tx[o]
  BY <1>1 DEF SessionsIInv, Start
<1>3. /\ lastDraftLog \in Nat /\ lastPublishLog \in Nat
      /\ lastDraftLog' \in Nat /\ lastPublishLog' \in Nat
      /\ \A b \in BOOLEAN : /\ LogOf(b) \in Nat /\ LogOf(b)' \in Nat /\ LogOf(b) <= LogOf(b)'
                            /\ Branch(b)' = Branch(b)
      /\ LogOf(onDraft)' = log /\ log \in Nat \ {0}
  BY TypePoints DEF SessionsIInv, LogOf, Branch
<1>4. TypeOK' /\ openLogs' = << >>
  <2>1. openLogs' = << >> /\ openLogs' \in Seq(1 .. lastDraftLog')
    BY DEF SessionsIInv
  <2>2. QED
    BY <1>3, <2>1 DEF SessionsIInv, TypeOK, BranchTypeOK
<1>5. \A b \in BOOLEAN : AtRest(dependencies, Branch(b), LogOf(b))
  BY DEF SessionsIInv, BranchesAtRest, Branch, LogOf
<1>6. BranchesAtRest'
  <2>1. \A b \in BOOLEAN : AtRest(dependencies, Branch(b), LogOf(b)')
    BY <1>3, <1>5, AtRestLater
  <2>2. AtRest(dependencies, draft, lastDraftLog') /\ AtRest(dependencies, published, lastPublishLog')
    BY <2>1 DEF Branch, LogOf
  <2>3. QED
    BY <2>2 DEF BranchesAtRest, AtRest
<1>7. IsFresh(Branch(onDraft), log)
  <2>1. LogOf(onDraft) < log
    BY <1>3
  <2>2. QED
    BY <1>3, <1>5, <2>1, LaterLogIsFresh
<1>8. /\ SessionOK(dependencies, t, Branch(onDraft), log)
      /\ t.onDraft = onDraft /\ t.log = log /\ t.locks = {}
  BY <1>1, <1>3, <1>7, StartedOK
<1>9. ASSUME NEW o \in Sessions, Running(o)', o # s
      PROVE  /\ Running(o) /\ tx'[o] = tx[o] /\ tx[o].onDraft \in BOOLEAN
             /\ tx[o].log \in Nat /\ tx[o].log <= LogOf(tx[o].onDraft)
             /\ SessionOK(dependencies, tx[o], Branch(tx[o].onDraft), LogOf(tx[o].onDraft)')
  <2>1. Running(o) /\ tx'[o] = tx[o]
    BY <1>2, <1>9 DEF Running
  <2>2. PICK r, b : r = tx[o] /\ b = r.onDraft
    OBVIOUS
  <2>3. SessionOK(dependencies, r, Branch(b), LogOf(b))
    BY <2>1, <2>2 DEF SessionsIInv, SessionFits
  <2>4. b \in BOOLEAN /\ r.log \in Nat /\ r.log <= LogOf(b)
    BY <2>2, <2>3 DEF SessionOK, TransactionOK, Fits
  <2>5. r.log <= LogOf(b)'
    BY <1>3, <2>4
  <2>6. SessionOK(dependencies, r, Branch(b), LogOf(b)')
    BY <2>3, <2>5 DEF SessionOK, Fits
  <2>7. QED
    BY <2>1, <2>2, <2>4, <2>6
<1>10. ASSUME NEW o \in Sessions, Running(o)' PROVE SessionFits(o)'
  <2>1. PICK r, b : r = tx'[o] /\ b = r.onDraft
    OBVIOUS
  <2>2. SessionOK(dependencies, r, Branch(b), LogOf(b)') /\ b \in BOOLEAN
    <3>1. CASE o = s
      BY <1>2, <1>3, <1>8, <2>1, <3>1
    <3>2. CASE o # s
      BY <1>9, <1>10, <2>1, <3>2
    <3>3. QED
      BY <3>1, <3>2
  <2>3. SessionOK(dependencies', r, Branch(b)', LogOf(b)')
    BY <1>3, <2>2
  <2>4. QED
    BY <2>1, <2>3 DEF SessionFits, Branch, LogOf
<1>11. ASSUME NEW o \in Sessions, o # s, Running(o)'
       PROVE  AreApart(t, tx'[o]) /\ AreApart(tx'[o], t)
  <2>1. /\ tx'[o] = tx[o] /\ tx[o].log \in Nat /\ tx[o].log <= LogOf(tx[o].onDraft)
    BY <1>9, <1>11
  <2>2. tx[o].onDraft = onDraft => tx[o].log < log
    BY <1>3, <2>1
  <2>3. QED
    BY <1>3, <1>8, <2>1, <2>2 DEF AreApart
<1>12. ASSUME NEW o \in Sessions, NEW other \in Sessions, o # other, Running(o)', Running(other)'
       PROVE  AreApart(tx'[o], tx'[other])
  <2>1. CASE o = s \/ other = s
    BY <1>2, <1>11, <1>12, <2>1
  <2>2. CASE o # s /\ other # s
    BY <1>9, <1>12, <2>2 DEF SessionsIInv
  <2>3. QED
    BY <2>1, <2>2
<1>13. QED
  BY <1>2, <1>4, <1>6, <1>10, <1>12 DEF SessionsIInv, AreApart, Running

\* ReadDraft
LEMMA ReadDraftKeepsSessions ==
    ASSUME SessionsIInv, NEW s \in Sessions, NEW e \in Edited, NEW v, ReadDraft(s, e, v)
    PROVE  SessionsIInv'
<1>1. PICK log, records : /\ log = lastDraftLog + 1
                          /\ records = [x \in {e} |->
                                          [log |-> log, old |-> draft.version[e], new |-> v]]
  OBVIOUS
<1>2. /\ lastDraftLog' = log /\ Start(s, Transaction(TRUE, log, records))
      /\ v \in {None} \cup DOMAIN dependencies[e]
      /\ UNCHANGED <<dependencies, draft, published, lastPublishLog, openLogs>>
  BY <1>1 DEF ReadDraft
<1>3. e \in Entities /\ log \in Nat /\ draft.version[e] \in Nat /\ v \in Nat
  <2>1. e \in Entities
    BY EditedAssumption
  <2>2. /\ log \in Nat /\ draft.version[e] \in Nat
        /\ dependencies \in [Entities -> Seq(SUBSET Entities)]
    BY <1>1, <2>1, TypePoints DEF SessionsIInv, Tables
  <2>3. QED
    BY <1>2, <2>1, <2>2 DEF None
<1>4. /\ DOMAIN records \subseteq Edited
      /\ \A x \in DOMAIN records : /\ records[x] \in LogRecord
                                   /\ records[x].log = log
                                   /\ records[x].new \in {None} \cup DOMAIN dependencies[x]
  BY <1>1, <1>2, <1>3 DEF LogRecord
<1>5. /\ log = LogOf(TRUE) + 1
      /\ lastDraftLog' = IF TRUE THEN log ELSE lastDraftLog
      /\ lastPublishLog' = IF TRUE THEN lastPublishLog ELSE log
  BY <1>1, <1>2 DEF LogOf
<1>6. QED
  BY <1>2, <1>4, <1>5, StartKeepsSessions

\* ReadDraftsToPublish
LEMMA ReadDraftsToPublishKeepsSessions ==
    ASSUME SessionsIInv, NEW s \in Sessions, NEW S \in SUBSET Edited, ReadDraftsToPublish(s, S)
    PROVE  SessionsIInv'
<1>1. PICK log, records :
          /\ log = lastPublishLog + 1
          /\ records = [x \in S |-> [log |-> log, old |-> published.version[x],
                                     new |-> draft.version[x]]]
  OBVIOUS
<1>2. /\ lastPublishLog' = log /\ Start(s, Transaction(FALSE, log, records))
      /\ UNCHANGED <<dependencies, draft, published, lastDraftLog, openLogs>>
  BY <1>1 DEF ReadDraftsToPublish
<1>3. /\ log \in Nat
      /\ \A x \in S : /\ published.version[x] \in Nat /\ draft.version[x] \in Nat
                      /\ draft.version[x] \in {None} \cup DOMAIN dependencies[x]
  <2>1. S \subseteq Entities
    BY EditedAssumption
  <2>2. QED
    BY <1>1, <2>1, TypePoints DEF SessionsIInv, Tables, Points
<1>4. /\ DOMAIN records \subseteq Edited
      /\ \A x \in DOMAIN records : /\ records[x] \in LogRecord
                                   /\ records[x].log = log
                                   /\ records[x].new \in {None} \cup DOMAIN dependencies[x]
  BY <1>1, <1>3 DEF LogRecord
<1>5. /\ log = LogOf(FALSE) + 1
      /\ lastDraftLog' = IF FALSE THEN log ELSE lastDraftLog
      /\ lastPublishLog' = IF FALSE THEN lastPublishLog ELSE log
  BY <1>1, <1>2 DEF LogOf
<1>6. QED
  BY <1>2, <1>4, <1>5, StartKeepsSessions

\* The statements of a call are in the order of their numbers.
LEMMA StatementNumbers ==
    ASSUME SessionsIInv, NEW s \in Sessions, Running(s)
    PROVE  /\ At(s, "save") => tx[s].next = 1
           /\ At(s, "side effects") => tx[s].next = 2
           /\ At(s, "update") => tx[s].next = 3
           /\ At(s, "digests") => tx[s].next = 4
           /\ At(s, "commit") => tx[s].next = 5
<1>1. tx[s].next \in 1 .. 5
  BY DEF SessionsIInv, SessionFits, SessionOK, TransactionOK
<1>2. PICK k \in 1 .. 5 : k = tx[s].next
  BY <1>1
<1>3. k = 1 \/ k = 2 \/ k = 3 \/ k = 4 \/ k = 5
  BY <1>2
<1>4. /\ Statements[1] = "save" /\ Statements[2] = "side effects" /\ Statements[3] = "update"
      /\ Statements[4] = "digests" /\ Statements[5] = "commit"
  BY DEF Statements
<1>5. QED
  BY <1>2, <1>3, <1>4 DEF At

\* SaveRows, FindAffected, UpdateRows and UpdateDigests
LEMMA StatementsKeepSessions ==
    ASSUME SessionsIInv, NEW s \in Sessions,
           SaveRows(s) \/ FindAffected(s) \/ UpdateRows(s) \/ UpdateDigests(s)
    PROVE  SessionsIInv'
<1>1. Running(s) /\ UNCHANGED vars
  BY DEF SaveRows, FindAffected, UpdateRows, UpdateDigests, At
<1>2. PICK t, br, last : t = tx[s] /\ br = Branch(t.onDraft) /\ last = LogOf(t.onDraft)
  OBVIOUS
<1>3. /\ SessionOK(dependencies, t, br, last)
      /\ View(s) = ViewOf(t, br)
      /\ dependencies \in [Entities -> Seq(SUBSET Entities)]
      /\ EditedAreLeaves(dependencies) /\ GoesDown(dependencies)
      /\ Tables(br) /\ Points(dependencies, br) /\ AtRest(dependencies, br, last)
  BY <1>1, <1>2, SessionFacts
<1>4. DOMAIN tx = Sessions
  BY DEF SessionsIInv
<1>5. CASE SaveRows(s)
  <2>1. t.next = 1
    BY <1>1, <1>2, <1>5, StatementNumbers DEF SaveRows
  <2>2. tx' = [tx EXCEPT ![s] = Saved(t)] /\ AreFree(s, t.changed)
    BY <1>2, <1>4, <1>5 DEF SaveRows, Saved
  <2>3. SessionOK(dependencies, Saved(t), br, last) /\ SameLog(t, Saved(t))
        /\ Saved(t).locks = t.changed
    BY <1>3, <2>1, SavedOK
  <2>4. QED
    BY <1>1, <1>2, <2>2, <2>3, StatementKeepsSessions
<1>6. CASE FindAffected(s)
  <2>1. t.next = 2
    BY <1>1, <1>2, <1>6, StatementNumbers DEF FindAffected
  <2>2. tx' = [tx EXCEPT ![s] = Affecting(dependencies, t, br)]
    BY <1>2, <1>3, <1>4, <1>6 DEF FindAffected, Affecting
  <2>3. /\ SessionOK(dependencies, Affecting(dependencies, t, br), br, last)
        /\ SameLog(t, Affecting(dependencies, t, br))
        /\ Affecting(dependencies, t, br).locks = t.locks
    BY <1>3, <2>1, AffectingOK
  <2>4. QED
    BY <1>1, <1>2, <2>2, <2>3, StatementKeepsSessions
<1>7. CASE UpdateRows(s)
  <2>1. t.next = 3
    BY <1>1, <1>2, <1>7, StatementNumbers DEF UpdateRows
  <2>2. tx' = [tx EXCEPT ![s] = Updated(t)] /\ AreFree(s, t.rows)
    BY <1>2, <1>4, <1>7 DEF UpdateRows, Updated
  <2>3. SessionOK(dependencies, Updated(t), br, last) /\ SameLog(t, Updated(t))
        /\ Updated(t).locks = t.rows
    BY <1>3, <2>1, UpdatedOK
  <2>4. QED
    BY <1>1, <1>2, <2>2, <2>3, StatementKeepsSessions
<1>8. CASE UpdateDigests(s)
  <2>1. t.next = 4
    BY <1>1, <1>2, <1>8, StatementNumbers DEF UpdateDigests
  <2>2. tx' = [tx EXCEPT ![s] = Digesting(dependencies, t, br)]
    BY <1>2, <1>3, <1>4, <1>8 DEF UpdateDigests, Digesting
  <2>3. /\ SessionOK(dependencies, Digesting(dependencies, t, br), br, last)
        /\ SameLog(t, Digesting(dependencies, t, br))
        /\ Digesting(dependencies, t, br).locks = t.locks
    BY <1>3, <2>1, DigestingOK
  <2>4. QED
    BY <1>1, <1>2, <2>2, <2>3, StatementKeepsSessions
<1>9. QED
  BY <1>5, <1>6, <1>7, <1>8

\* Commit
LEMMA CommitKeepsSessions ==
    ASSUME SessionsIInv, NEW s \in Sessions, Commit(s)
    PROVE  SessionsIInv'
<1>1. /\ Running(s) /\ tx' = [tx EXCEPT ![s] = Idle]
      /\ UNCHANGED <<dependencies, lastDraftLog, lastPublishLog, openLogs>>
  BY DEF Commit, At
<1>2. PICK t, br, last, V : /\ t = tx[s] /\ br = Branch(t.onDraft) /\ last = LogOf(t.onDraft)
                            /\ V = ViewOf(t, br)
  OBVIOUS
<1>3. /\ SessionOK(dependencies, t, br, last)
      /\ View(s) = V
      /\ dependencies \in [Entities -> Seq(SUBSET Entities)]
      /\ EditedAreLeaves(dependencies)
      /\ Tables(br) /\ Points(dependencies, br) /\ AtRest(dependencies, br, last)
      /\ last \in Nat /\ t.onDraft \in BOOLEAN
  BY <1>1, <1>2, SessionFacts
<1>4. t.next = 5
  BY <1>1, <1>2, StatementNumbers DEF Commit
<1>5. Tables(V) /\ Points(dependencies, V)
  BY <1>2, <1>3, ViewTables DEF SessionOK
<1>6. AtRest(dependencies, V, last)
  BY <1>2, <1>3, <1>4, CommittedAtRest
<1>7. \A b \in BOOLEAN : /\ Branch(b)' = IF b = t.onDraft THEN V ELSE Branch(b)
                         /\ LogOf(b)' = LogOf(b)
  BY <1>1, <1>2, <1>3 DEF Commit, Branch, LogOf
<1>8. ASSUME NEW b \in BOOLEAN
      PROVE  /\ Tables(Branch(b)') /\ Points(dependencies, Branch(b)')
             /\ AtRest(dependencies, Branch(b)', LogOf(b)')
  <2>1. CASE b = t.onDraft
    BY <1>2, <1>5, <1>6, <1>7, <2>1
  <2>2. CASE b # t.onDraft
    <3>1. Tables(Branch(b)) /\ Points(dependencies, Branch(b))
      BY TypePoints DEF SessionsIInv, Branch
    <3>2. AtRest(dependencies, Branch(b), LogOf(b))
      BY DEF SessionsIInv, BranchesAtRest, Branch, LogOf
    <3>3. QED
      BY <1>7, <2>2, <3>1, <3>2
  <2>3. QED
    BY <2>1, <2>2
<1>9. /\ Tables(draft') /\ Points(dependencies, draft')
      /\ AtRest(dependencies, draft', lastDraftLog')
      /\ Tables(published') /\ Points(dependencies, published')
      /\ AtRest(dependencies, published', lastPublishLog')
  <2>1. /\ Branch(TRUE)' = draft' /\ Branch(FALSE)' = published'
        /\ LogOf(TRUE)' = lastDraftLog' /\ LogOf(FALSE)' = lastPublishLog'
    BY DEF Branch, LogOf
  <2>2. TRUE \in BOOLEAN /\ FALSE \in BOOLEAN
    OBVIOUS
  <2>3. /\ Tables(Branch(TRUE)') /\ Points(dependencies, Branch(TRUE)')
        /\ AtRest(dependencies, Branch(TRUE)', LogOf(TRUE)')
        /\ Tables(Branch(FALSE)') /\ Points(dependencies, Branch(FALSE)')
        /\ AtRest(dependencies, Branch(FALSE)', LogOf(FALSE)')
    BY <1>8, <2>2
  <2>4. QED
    BY <2>1, <2>3
<1>10. TypeOK' /\ openLogs' = << >> /\ BranchesAtRest'
  <2>1. BranchTypeOK(draft)' /\ BranchTypeOK(published)'
    BY <1>1, <1>9 DEF BranchTypeOK, Tables, Points
  <2>2. TypeOK'
    BY <1>1, <2>1 DEF SessionsIInv, TypeOK
  <2>3. BranchesAtRest'
    BY <1>1, <1>9 DEF BranchesAtRest, AtRest
  <2>4. QED
    BY <1>1, <2>2, <2>3 DEF SessionsIInv
<1>11. /\ DOMAIN tx' = Sessions
       /\ \A o \in Sessions : Running(o)' => o # s /\ Running(o) /\ tx'[o] = tx[o]
       /\ \A o, other \in Sessions :
            o # other /\ Running(o)' /\ Running(other)' => AreApart(tx'[o], tx'[other])
  BY <1>1, EndKeepsApart
<1>12. ASSUME NEW o \in Sessions, Running(o)' PROVE SessionFits(o)'
  <2>1. PICK r, b : r = tx[o] /\ b = r.onDraft
    OBVIOUS
  <2>2. /\ o # s /\ Running(o) /\ tx'[o] = r
        /\ SessionOK(dependencies, r, Branch(b), LogOf(b)) /\ AreApart(r, t)
    BY <1>1, <1>2, <1>11, <1>12, <2>1 DEF SessionsIInv, SessionFits
  <2>3. b \in BOOLEAN
    BY <2>1, <2>2 DEF SessionOK, TransactionOK
  <2>4. SessionOK(dependencies, r, Branch(b)', LogOf(b)')
    <3>1. CASE b = t.onDraft
      <4>1. r.log # t.log /\ r.locks \cap t.locks = {}
        BY <2>1, <2>2, <3>1 DEF AreApart
      <4>2. SessionOK(dependencies, r, br, last)
        BY <1>2, <2>2, <3>1
      <4>3. SessionOK(dependencies, r, V, last)
        BY <1>2, <1>3, <1>4, <4>1, <4>2, OtherCommitted
      <4>4. QED
        BY <1>2, <1>7, <2>3, <3>1, <4>3
    <3>2. CASE b # t.onDraft
      BY <1>7, <2>2, <2>3, <3>2
    <3>3. QED
      BY <3>1, <3>2
  <2>5. QED
    BY <1>1, <2>1, <2>2, <2>4 DEF SessionFits, Branch, LogOf
<1>13. QED
  BY <1>10, <1>11, <1>12 DEF SessionsIInv, AreApart, Running

\* Every step of the sessions.
LEMMA ConcurrentNextKeepsSessions ==
    ASSUME SessionsIInv, ConcurrentNext
    PROVE  SessionsIInv'
  BY ReadDraftKeepsSessions, ReadDraftsToPublishKeepsSessions, StatementsKeepSessions,
     CommitKeepsSessions, FailKeepsSessions DEF ConcurrentNext

-----------------------------------------------------------------------------
(***************************************************************************)
(* Calls in turn                                                           *)
(***************************************************************************)
\* The row of e got a record of the log and points at it.
IsWritten(br, after, e, log) ==
    /\ after.logRecord[e] = log
    /\ after.digest[e] = br.digest[e]
    /\ after.records[e] =
          Append(br.records[e], [log |-> log, old |-> br.version[e], new |-> after.version[e]])

\* A branch whose rows in X were written in the log, and no other.
IsWrittenIn(br, after, X, log) ==
    /\ \A e \in X : IsWritten(br, after, e, log)
    /\ \A e \in Entities \ X : SameRow(br, after, e)

\* Such a row has one record in the log, of the version it has.
LEMMA WrittenRow ==
    ASSUME NEW br, NEW after, NEW log \in Nat, NEW e \in Entities, Tables(br), Tables(after),
           InLog(br.records[e], log) = {}, IsWritten(br, after, e, log)
    PROVE  InLog(after.records[e], log) # {} /\ NewVersionIn(after, e, log) = after.version[e]
<1>1. PICK h, old, new : h = br.records[e] /\ old = br.version[e] /\ new = after.version[e]
  OBVIOUS
<1>2. h \in Seq(LogRecord) /\ log \in Nat /\ old \in Nat /\ new \in Nat /\ InLog(h, log) = {}
  BY <1>1 DEF Tables
<1>3. LET r == [log |-> log, old |-> old, new |-> new]
      IN  InLog(Append(h, r), log) = {Len(h) + 1} /\ Append(h, r)[Len(h) + 1] = r
  BY ONLY <1>2, AppendedIsInLog, Zenon
<1>4. after.records[e] = Append(h, [log |-> log, old |-> old, new |-> new])
  BY <1>1 DEF IsWritten
<1>5. PICK r : r = [log |-> log, old |-> old, new |-> new]
  OBVIOUS
<1>6. /\ InLog(after.records[e], log) = {Len(h) + 1}
      /\ after.records[e][Len(h) + 1] = r /\ r.new = new
  BY <1>3, <1>4, <1>5
<1>7. (CHOOSE i \in InLog(after.records[e], log) : TRUE) = Len(h) + 1
  BY <1>6
<1>8. QED
  BY <1>1, <1>6, <1>7 DEF NewVersionIn

\* Its records are of logs up to this one.
LEMMA WrittenRecords ==
    ASSUME NEW deps, NEW br, NEW after, NEW last \in Nat, NEW log, log = last + 1,
           NEW e \in Entities, Tables(br), Tables(after), AtRest(deps, br, last),
           IsWritten(br, after, e, log)
    PROVE  \A i \in 1 .. Len(after.records[e]) : after.records[e][i].log \in 1 .. log
<1>1. PICK h, r : /\ h = br.records[e]
                  /\ r = [log |-> log, old |-> br.version[e], new |-> after.version[e]]
  OBVIOUS
<1>2. /\ h \in Seq(LogRecord) /\ r \in LogRecord /\ r.log = log
      /\ after.records[e] = Append(h, r)
  BY <1>1 DEF Tables, IsWritten, LogRecord
<1>3. \A i \in 1 .. Len(h) : h[i].log \in 1 .. last
  BY <1>1 DEF AtRest
<1>4. /\ Len(h) \in Nat /\ Len(Append(h, r)) = Len(h) + 1
      /\ Append(h, r)[Len(h) + 1] = r
      /\ \A i \in 1 .. Len(h) : Append(h, r)[i] = h[i]
  BY <1>2, AppendProperties, LenProperties
<1>5. 1 .. last \subseteq 1 .. log /\ log \in 1 .. log
  OBVIOUS
<1>6. ASSUME NEW i \in 1 .. Len(h) + 1 PROVE Append(h, r)[i].log \in 1 .. log
  <2>1. CASE i \in 1 .. Len(h)
    BY <1>3, <1>4, <1>5, <2>1
  <2>2. CASE i = Len(h) + 1
    BY <1>2, <1>4, <1>5, <2>2
  <2>3. QED
    BY <1>4, <2>1, <2>2
<1>7. QED
  BY <1>2, <1>4, <1>6

\* The records of side effects are written like the direct ones.
LEMMA SideEffectsAreWritten ==
    ASSUME NEW deps, NEW br, NEW mid, NEW log \in Nat, Tables(br), Tables(mid), IsFresh(br, log),
           NEW C, C \subseteq Entities, IsWrittenIn(br, mid, C, log)
    PROVE  IsWrittenIn(br, WithSideEffectRecords(deps, mid, log),
                       C \cup Ancestors(deps, mid, C), log)
<1>1. PICK W, A : W = WithSideEffectRecords(deps, mid, log) /\ A = Ancestors(deps, mid, C)
  OBVIOUS
<1>2. \A e \in Entities : InLog(br.records[e], log) = {}
  BY DEF IsFresh
<1>3. ASSUME NEW e \in Entities
      PROVE  InLog(mid.records[e], log) # {} <=> e \in C
  <2>1. CASE e \in C
    BY <1>2, <2>1, WrittenRow DEF IsWrittenIn
  <2>2. CASE e \notin C
    BY <1>2, <2>2 DEF IsWrittenIn, SameRow
  <2>3. QED
    BY <2>1, <2>2
<1>4. AffectedRows(deps, mid, log) = A
  <2>1. ChangedIn(mid, log) = C
    BY <1>3 DEF ChangedIn
  <2>2. QED
    BY <1>1, <2>1 DEF AffectedRows
<1>5. \A e \in Entities :
          /\ W.version[e] = mid.version[e]
          /\ W.digest[e] = mid.digest[e]
          /\ W.logRecord[e] = IF e \in A THEN log ELSE mid.logRecord[e]
          /\ W.records[e] = IF e \in A /\ InLog(mid.records[e], log) = {}
                              THEN Append(mid.records[e],
                                [log |-> log, old |-> mid.version[e], new |-> mid.version[e]])
                              ELSE mid.records[e]
  BY <1>1, <1>4 DEF WithSideEffectRecords
<1>6. ASSUME NEW e \in C PROVE IsWritten(br, W, e, log)
  <2>1. e \in Entities /\ IsWritten(br, mid, e, log) /\ InLog(mid.records[e], log) # {}
    BY <1>3 DEF IsWrittenIn
  <2>2. QED
    BY <1>5, <2>1 DEF IsWritten
<1>7. ASSUME NEW e \in Entities \ C PROVE /\ e \in A => IsWritten(br, W, e, log)
                                          /\ e \notin A => SameRow(br, W, e)
  <2>1. SameRow(br, mid, e) /\ InLog(mid.records[e], log) = {}
    BY <1>3 DEF IsWrittenIn
  <2>2. QED
    BY <1>5, <2>1 DEF SameRow, IsWritten
<1>8. A \subseteq Entities
  BY <1>1 DEF Ancestors
<1>9. IsWrittenIn(br, W, C \cup A, log)
  BY <1>6, <1>7, <1>8 DEF IsWrittenIn
<1>10. QED
  BY <1>1, <1>9

\* A whole log, with its side effects and digests, leaves a branch at rest.
LEMMA LogAtRest ==
    ASSUME NEW deps \in [Entities -> Seq(SUBSET Entities)], GoesDown(deps),
           NEW br, NEW mid, NEW last \in Nat, NEW log, log = last + 1,
           Tables(br), Tables(mid), Points(deps, mid), AtRest(deps, br, last),
           NEW C, C \subseteq Entities, IsWrittenIn(br, mid, C, log)
    PROVE  AtRest(deps, WithSideEffects(deps, mid, log), log)
<1>1. PICK W, after, X : /\ W = WithSideEffectRecords(deps, mid, log)
                         /\ after = WithSideEffects(deps, mid, log)
                         /\ X = C \cup Ancestors(deps, mid, C)
  OBVIOUS
<1>2. log \in Nat /\ last < log /\ log \in 1 .. log /\ log \in 0 .. log
  OBVIOUS
<1>3. IsFresh(br, log)
  BY <1>2, LaterLogIsFresh
<1>4. after = WithDigests(deps, W, log)
  BY <1>1 DEF WithSideEffects
<1>5. IsWrittenIn(br, W, X, log)
  BY <1>1, <1>2, <1>3, SideEffectsAreWritten
<1>6. X \subseteq Entities
  BY <1>1 DEF Ancestors
<1>7. /\ Tables(after) /\ after.version = mid.version
      /\ IsClosed(deps, after, ChangedIn(after, log))
  BY <1>1, <1>2, SideEffectsTables, SideEffectsCloseTheLog
<1>8. Tables(W)
  <2>1. /\ after.version = W.version /\ after.logRecord = W.logRecord
        /\ after.records = W.records
    BY <1>4 DEF WithDigests
  <2>2. QED
    BY <1>7, <2>1 DEF Tables
<1>9. Points(deps, W)
  <2>1. W.version = mid.version
    BY <1>1 DEF WithSideEffectRecords
  <2>2. QED
    BY <2>1 DEF Points
<1>10. ASSUME NEW e \in X
       PROVE  /\ InLog(W.records[e], log) # {} /\ W.logRecord[e] = log
              /\ NewVersionIn(W, e, log) = W.version[e]
              /\ W.digest[e] = br.digest[e]
              /\ \A i \in 1 .. Len(W.records[e]) : W.records[e][i].log \in 1 .. log
  <2>1. e \in Entities /\ IsWritten(br, W, e, log) /\ InLog(br.records[e], log) = {}
    BY <1>3, <1>5, <1>6 DEF IsWrittenIn, IsFresh
  <2>2. InLog(W.records[e], log) # {} /\ NewVersionIn(W, e, log) = W.version[e]
    <3>1. /\ log \in Nat /\ e \in Entities /\ Tables(br) /\ Tables(W)
          /\ InLog(br.records[e], log) = {} /\ IsWritten(br, W, e, log)
      BY <1>2, <1>8, <2>1
    <3>2. QED
      BY ONLY <3>1, WrittenRow
  <2>3. \A i \in 1 .. Len(W.records[e]) : W.records[e][i].log \in 1 .. log
    BY <1>8, <2>1, WrittenRecords
  <2>4. QED
    BY <2>1, <2>2, <2>3 DEF IsWritten
<1>11. ASSUME NEW e \in Entities \ X
       PROVE  /\ SameRow(br, W, e) /\ InLog(W.records[e], log) = {} /\ W.logRecord[e] # log
              /\ NewVersionIn(W, e, W.logRecord[e]) = W.version[e]
  <2>1. SameRow(br, W, e) /\ InLog(br.records[e], log) = {} /\ br.logRecord[e] # log
    BY <1>3, <1>5 DEF IsWrittenIn, IsFresh
  <2>2. NewVersionIn(br, e, br.logRecord[e]) = br.version[e]
    BY DEF AtRest
  <2>3. QED
    BY <2>1, <2>2 DEF SameRow, NewVersionIn
<1>12. X = ChangedIn(W, log)
  BY <1>6, <1>10, <1>11 DEF ChangedIn
<1>13. /\ \A e \in Entities : NewVersionIn(W, e, W.logRecord[e]) = W.version[e]
       /\ \A e \in Entities : W.logRecord[e] = log <=> e \in X
       /\ \A e \in Entities : W.digest[e] = br.digest[e]
  BY <1>10, <1>11 DEF SameRow
<1>14. \A e \in Entities : log \notin DOMAIN W.digest[e]
  BY <1>3, <1>13 DEF IsFresh
<1>15. /\ after.version = W.version /\ after.logRecord = W.logRecord
       /\ after.records = W.records
       /\ \A e \in Entities \ X : after.digest[e] = W.digest[e]
       /\ \A e \in X : DOMAIN after.digest[e] \subseteq DOMAIN W.digest[e] \cup {log}
       /\ \A e \in X : DigestIsCurrent(deps, after, e)
  BY <1>4, <1>9, <1>12, <1>13, <1>14, DigestsOfALog
<1>16. IsClosed(deps, after, X)
  <2>1. ChangedIn(after, log) = X
    BY <1>12, <1>15 DEF ChangedIn
  <2>2. QED
    BY <1>7, <2>1
<1>17. ASSUME NEW e \in Entities \ X PROVE SameRow(br, after, e)
  BY <1>11, <1>15 DEF SameRow
<1>18. ASSUME NEW e \in X PROVE RowAtRest(after, e, log)
  <2>1. DOMAIN br.digest[e] \subseteq 1 .. last /\ 1 .. last \subseteq 1 .. log
    BY <1>6 DEF AtRest
  <2>2. DOMAIN after.digest[e] \subseteq 1 .. log
    BY <1>2, <1>10, <1>15, <2>1
  <2>3. NewVersionIn(after, e, after.logRecord[e]) = after.version[e]
    BY <1>10, <1>15 DEF NewVersionIn
  <2>4. QED
    BY <1>2, <1>10, <1>15, <2>2, <2>3 DEF RowAtRest
<1>19. Points(deps, after)
  BY <1>7 DEF Points
<1>20. AtRest(deps, after, log)
  BY <1>2, <1>15, <1>16, <1>17, <1>18, <1>19, WrittenLogIsAtRest
<1>21. QED
  BY <1>1, <1>20

\* The direct changes of a DraftChangeLog of its own.
LEMMA RepointIsWritten ==
    ASSUME NEW br, NEW log \in Nat, NEW target \in [Entities -> Nat], Tables(br),
           IsFresh(br, log)
    PROVE  IsWrittenIn(br, Repoint(br, log, target),
                       {e \in Entities : target[e] # br.version[e]}, log)
<1>1. PICK mid, C : /\ mid = Repoint(br, log, target)
                    /\ C = {e \in Entities : target[e] # br.version[e]}
  OBVIOUS
<1>2. /\ mid.version = target /\ mid.digest = br.digest
      /\ \A e \in Entities :
            LET history == AddToChangeLog(br.records[e], log, br.version[e], target[e])
            IN  /\ mid.logRecord[e] = IF e \in C THEN RepointedLog(history, log)
                                      ELSE br.logRecord[e]
                /\ mid.records[e] = IF e \in C THEN history ELSE br.records[e]
  BY <1>1 DEF Repoint
<1>3. ASSUME NEW e \in C PROVE IsWritten(br, mid, e, log)
  <2>1. PICK h, old, new : h = br.records[e] /\ old = br.version[e] /\ new = target[e]
    OBVIOUS
  <2>2. h \in Seq(LogRecord) /\ log \in Nat /\ old \in Nat /\ new \in Nat /\ InLog(h, log) = {}
    BY <1>1, <2>1 DEF Tables, IsFresh
  <2>3. PICK g : g = Append(h, [log |-> log, old |-> old, new |-> new])
    OBVIOUS
  <2>4. AddToChangeLog(h, log, old, new) = g
    BY <2>2, <2>3 DEF AddToChangeLog
  <2>5. LET r == [log |-> log, old |-> old, new |-> new]
        IN  InLog(Append(h, r), log) = {Len(h) + 1} /\ Append(h, r)[Len(h) + 1] = r
    BY ONLY <2>2, AppendedIsInLog, Zenon
  <2>6. RepointedLog(g, log) = log
    <3>1. InLog(g, log) # {}
      BY <2>3, <2>5
    <3>2. QED
      BY <3>1 DEF RepointedLog
  <2>7. mid.records[e] = g /\ mid.logRecord[e] = log
    BY <1>1, <1>2, <2>1, <2>4, <2>6
  <2>8. QED
    BY <1>2, <2>1, <2>3, <2>7 DEF IsWritten
<1>4. ASSUME NEW e \in Entities \ C PROVE SameRow(br, mid, e)
  BY <1>1, <1>2, <1>4 DEF SameRow
<1>5. IsWrittenIn(br, mid, C, log)
  BY <1>3, <1>4 DEF IsWrittenIn
<1>6. QED
  BY <1>1, <1>5

\* Those of a PublishLog.
LEMMA PublishIsWritten ==
    ASSUME NEW br, NEW log, NEW P
    PROVE  IsWrittenIn(br, RecordPublish(br, log, P), P \cap Entities, log)
<1>1. PICK mid : mid = RecordPublish(br, log, P)
  OBVIOUS
<1>2. mid.digest = br.digest
  BY <1>1 DEF RecordPublish
<1>3. \A e \in Entities :
          /\ mid.version[e] = IF e \in P THEN draft.version[e] ELSE br.version[e]
          /\ mid.logRecord[e] = IF e \in P THEN log ELSE br.logRecord[e]
          /\ mid.records[e] = IF e \in P
                                THEN Append(br.records[e], [log |-> log, old |-> br.version[e],
                                                            new |-> draft.version[e]])
                                ELSE br.records[e]
  BY <1>1 DEF RecordPublish
<1>4. \A e \in P \cap Entities : IsWritten(br, mid, e, log)
  BY <1>2, <1>3 DEF IsWritten
<1>5. \A e \in Entities \ P : SameRow(br, mid, e)
  BY <1>2, <1>3 DEF SameRow
<1>6. QED
  BY <1>1, <1>4, <1>5 DEF IsWrittenIn

\* A branch at rest stays so when versions are added, which it does not point at.
LEMMA NewVersionsKeepAtRest ==
    ASSUME NEW deps \in [Entities -> Seq(SUBSET Entities)], NEW br, Points(deps, br),
           NEW last, AtRest(deps, br, last), NEW e \in Entities, NEW D \in SUBSET Entities,
           NEW more, more = [deps EXCEPT ![e] = Append(@, D)]
    PROVE  AtRest(more, br, last)
<1>1. ASSUME NEW x \in Entities, br.version[x] # None
      PROVE  more[x][br.version[x]] = deps[x][br.version[x]]
  <2>1. deps[x] \in Seq(SUBSET Entities) /\ br.version[x] \in DOMAIN deps[x]
    BY <1>1 DEF Points
  <2>2. br.version[x] \in 1 .. Len(deps[x])
    BY <2>1
  <2>3. more[x] = IF x = e THEN Append(deps[x], D) ELSE deps[x]
    OBVIOUS
  <2>4. \A i \in 1 .. Len(deps[x]) : Append(deps[x], D)[i] = deps[x][i]
    BY <2>1, AppendProperties
  <2>5. QED
    BY <2>2, <2>3, <2>4
<1>2. ASSUME NEW x \in Entities
      PROVE  RowAtRest(br, x, last) /\ DigestIsCurrent(more, br, x)
  <2>1. RowAtRest(br, x, last) /\ DigestIsCurrent(deps, br, x)
    BY AtRestByRow
  <2>2. LiveDependencies(more, br, x, br.version[x]) = LiveDependencies(deps, br, x, br.version[x])
    BY <1>1 DEF LiveDependencies
  <2>3. QED
    BY <2>1, <2>2 DEF DigestIsCurrent
<1>3. QED
  BY <1>2, AtRestByRow

\* A change of drafts outside of bulk contexts.
LEMMA ChangeDraftsAtRest ==
    ASSUME TypeOK, TypeOK', openLogs = << >>, NEW target \in [Entities -> Nat],
           ChangeDrafts(target), AtRest(dependencies', draft, lastDraftLog)
    PROVE  AtRest(dependencies', draft', lastDraftLog')
<1>1. PICK deps, log : deps = dependencies' /\ log = lastDraftLog + 1
  OBVIOUS
<1>2. /\ Tables(draft) /\ lastDraftLog \in Nat /\ log \in Nat /\ lastDraftLog < log
      /\ deps \in [Entities -> Seq(SUBSET Entities)]
  BY <1>1, TypePoints DEF TypeOK
<1>3. GoesDown(deps)
  BY <1>1, TypeGoesDown
<1>4. CASE UNCHANGED <<draft, lastDraftLog>>
  BY <1>4
<1>5. CASE /\ lastDraftLog' = lastDraftLog + 1
           /\ draft' = WithSideEffects(dependencies', Repoint(draft, lastDraftLog + 1, target),
                                       lastDraftLog + 1)
  <2>1. PICK mid, C : /\ mid = Repoint(draft, log, target)
                      /\ C = {e \in Entities : target[e] # draft.version[e]}
    OBVIOUS
  <2>2. draft' = WithSideEffects(deps, mid, log) /\ lastDraftLog' = log
    BY <1>1, <1>5, <2>1
  <2>3. Tables(mid) /\ mid.version = target
    BY <1>2, <2>1, RepointTables
  <2>4. IsFresh(draft, log)
    BY <1>1, <1>2, LaterLogIsFresh
  <2>5. IsWrittenIn(draft, mid, C, log) /\ C \subseteq Entities
    BY <1>2, <2>1, <2>4, RepointIsWritten
  <2>6. Points(deps, mid)
    <3>1. draft'.version = mid.version
      BY <1>2, <2>2, <2>3, SideEffectsTables
    <3>2. \A e \in Entities : draft'.version[e] \in {None} \cup DOMAIN deps[e]
      BY <1>1 DEF TypeOK, BranchTypeOK
    <3>3. QED
      BY <3>1, <3>2 DEF Points
  <2>7. AtRest(deps, WithSideEffects(deps, mid, log), log)
    BY <1>1, <1>2, <1>3, <2>3, <2>5, <2>6, LogAtRest
  <2>8. QED
    BY <1>1, <2>2, <2>7
<1>6. QED
  BY <1>4, <1>5 DEF ChangeDrafts

\* A call that starts and ends outside of bulk contexts.
LEMMA CallKeepsAtRest ==
    ASSUME TypeOK, TypeOK', openLogs = << >>, openLogs' = << >>, BranchesAtRest, Next
    PROVE  BranchesAtRest'
<1>1. /\ dependencies \in [Entities -> Seq(SUBSET Entities)]
      /\ Points(dependencies, draft) /\ Points(dependencies, published)
      /\ Tables(draft) /\ Tables(published)
      /\ lastPublishLog \in Nat /\ lastDraftLog \in Nat
  BY TypePoints
<1>2. /\ AtRest(dependencies, draft, lastDraftLog)
      /\ AtRest(dependencies, published, lastPublishLog)
  BY DEF BranchesAtRest
<1>3. ASSUME AtRest(dependencies', draft', lastDraftLog'),
             AtRest(dependencies', published', lastPublishLog')
      PROVE  BranchesAtRest'
  BY <1>3 DEF BranchesAtRest, AtRest
<1>4. ASSUME NEW e \in Entities, NEW D \in SUBSET {d \in Entities : Level[d] < Level[e]},
             CreateVersion(e, D)
      PROVE  BranchesAtRest'
  <2>1. PICK target : target = [draft.version EXCEPT ![e] = Len(dependencies[e]) + 1]
    OBVIOUS
  <2>2. /\ ChangeDrafts(target)
        /\ dependencies' = [dependencies EXCEPT ![e] = Append(@, D)]
        /\ UNCHANGED <<published, lastPublishLog, openLogs>>
    BY <1>4, <2>1 DEF CreateVersion
  <2>3. /\ AtRest(dependencies', draft, lastDraftLog)
        /\ AtRest(dependencies', published, lastPublishLog)
    BY <1>1, <1>2, <2>2, NewVersionsKeepAtRest
  <2>4. target \in [Entities -> Nat]
    BY <1>1, <2>1, LenProperties DEF Tables
  <2>5. AtRest(dependencies', draft', lastDraftLog')
    BY <2>2, <2>3, <2>4, ChangeDraftsAtRest
  <2>6. QED
    BY <1>3, <2>2, <2>3, <2>5
<1>5. ASSUME NEW target \in [Entities -> Nat], ChangeDrafts(target),
             UNCHANGED <<dependencies, published, lastPublishLog, openLogs>>
      PROVE  BranchesAtRest'
  <2>1. AtRest(dependencies', draft, lastDraftLog)
    BY <1>2, <1>5
  <2>2. AtRest(dependencies', draft', lastDraftLog')
    BY <1>5, <2>1, ChangeDraftsAtRest
  <2>3. QED
    BY <1>2, <1>3, <1>5, <2>2
<1>6. ASSUME NEW e \in Entities, NEW v \in 0 .. MaxVersions, SetDraftVersion(e, v)
      PROVE  BranchesAtRest'
  <2>1. [draft.version EXCEPT ![e] = v] \in [Entities -> Nat]
    BY <1>1, BoundsAssumption DEF Tables
  <2>2. QED
    BY <1>5, <1>6, <2>1 DEF SetDraftVersion
<1>7. CASE ResetDraftsToPublished
  <2>1. published.version \in [Entities -> Nat]
    BY <1>1 DEF Tables
  <2>2. QED
    BY <1>5, <1>7, <2>1 DEF ResetDraftsToPublished
<1>8. ~ BeginBulk /\ ~ EndBulk
  <2>1. openLogs \in Seq(1 .. lastDraftLog')
    <3>1. << >> \in Seq(1 .. lastDraftLog')
      OBVIOUS
    <3>2. QED
      BY <3>1
  <2>2. Append(openLogs, lastDraftLog + 1) # << >>
    OBVIOUS
  <2>3. QED
    BY <2>2 DEF BeginBulk, EndBulk
<1>9. ASSUME NEW S, NEW withDependencies, NEW filtered,
             PublishFromDrafts(S, withDependencies, filtered)
      PROVE  BranchesAtRest'
  <2>1. PICK log, P, mid : /\ log = lastPublishLog + 1
                           /\ P = DraftsToPublish(S, withDependencies, filtered)
                           /\ mid = RecordPublish(published, log, P)
    OBVIOUS
  <2>2. /\ published' = WithSideEffects(dependencies, mid, log)
        /\ lastPublishLog' = log
        /\ UNCHANGED <<dependencies, draft, lastDraftLog, openLogs>>
    BY <1>9, <2>1 DEF PublishFromDrafts
  <2>3. Tables(mid)
    BY <1>1, <2>1, RecordPublishTables
  <2>4. Points(dependencies, mid)
    BY <1>1, <2>1 DEF RecordPublish, Points
  <2>5. IsWrittenIn(published, mid, P \cap Entities, log) /\ P \cap Entities \subseteq Entities
    BY <2>1, PublishIsWritten
  <2>6. GoesDown(dependencies)
    BY TypeGoesDown
  <2>7. AtRest(dependencies, WithSideEffects(dependencies, mid, log), log)
    BY <1>1, <1>2, <2>1, <2>3, <2>4, <2>5, <2>6, LogAtRest
  <2>8. QED
    BY <1>2, <1>3, <2>2, <2>7
<1>10. QED
  BY <1>4, <1>6, <1>7, <1>8, <1>9 DEF Next, PublishAllDrafts

\* CallInTurn
LEMMA CallInTurnKeepsSessions ==
    ASSUME SessionsIInv, CallInTurn
    PROVE  SessionsIInv'
<1>1. /\ \A s \in Sessions : ~ Running(s)
      /\ Next /\ openLogs' = << >> /\ UNCHANGED tx
  BY DEF CallInTurn
<1>2. TypeOK'
  BY <1>1, NextKeepsType DEF SessionsIInv
<1>3. BranchesAtRest'
  BY <1>1, <1>2, CallKeepsAtRest DEF SessionsIInv
<1>4. \A s \in Sessions : ~ Running(s)'
  BY <1>1 DEF Running
<1>5. QED
  BY <1>1, <1>2, <1>3, <1>4 DEF SessionsIInv, Running

-----------------------------------------------------------------------------
(***************************************************************************)
(* The theorems                                                            *)
(***************************************************************************)
\* A sound branch with canonical digests is at rest.
LEMMA SoundIsAtRest ==
    ASSUME NEW deps \in [Entities -> Seq(SUBSET Entities)], NEW br, NEW last \in Nat,
           Points(deps, br), Tables(br), Sound(br, last),
           DigestsOfLogsBefore(br, last + 1),
           Canonical(deps, br.version, [e \in Entities |-> StoredDigest(br, e, br.logRecord[e])])
    PROVE  AtRest(deps, br, last)
<1>1. ASSUME NEW e \in Entities PROVE RowAtRest(br, e, last)
  <2>1. PICK h, version, ptr : h = br.records[e] /\ version = br.version[e] /\ ptr = br.logRecord[e]
    OBVIOUS
  <2>2. Consistent(h, version, ptr, last)
    BY <2>1 DEF Sound
  <2>3. \A i \in 1 .. Len(h) : h[i].log \in 1 .. last
    BY <2>2 DEF Consistent
  <2>4. ptr \in 0 .. last /\ NewVersionIn(br, e, ptr) = version
    <3>1. CASE h = << >>
      <4>1. ptr = NoLog /\ version = None /\ Len(h) = 0
        BY <2>2, <3>1 DEF Consistent, LatestLog
      <4>2. InLog(h, ptr) = {}
        BY <4>1 DEF InLog
      <4>3. QED
        BY <2>1, <4>1, <4>2 DEF NewVersionIn, NoLog
    <3>2. CASE h # << >>
      <4>1. /\ Len(h) \in Nat \ {0} /\ InLog(h, ptr) = {Len(h)} /\ h[Len(h)].new = version
        BY <2>2, <3>2, PointsAtLast
      <4>2. (CHOOSE i \in InLog(h, ptr) : TRUE) = Len(h)
        BY <4>1
      <4>3. ptr \in 1 .. last
        <5>1. ptr = h[Len(h)].log
          BY <2>2, <3>2 DEF Consistent, LatestLog
        <5>2. QED
          BY <2>3, <4>1, <5>1
      <4>4. QED
        BY <2>1, <4>1, <4>2, <4>3 DEF NewVersionIn
    <3>3. QED
      BY <3>1, <3>2
  <2>5. DOMAIN br.digest[e] \subseteq 1 .. last
    BY DEF DigestsOfLogsBefore, NoLog
  <2>6. QED
    BY <2>1, <2>3, <2>4, <2>5 DEF RowAtRest
<1>2. ASSUME NEW e \in Entities PROVE DigestIsCurrent(deps, br, e)
  <2>1. PICK digest : digest = [d \in Entities |-> StoredDigest(br, d, br.logRecord[d])]
    OBVIOUS
  <2>2. PICK live : live = LiveAt(deps, br.version, e)
    OBVIOUS
  <2>3. digest[e] = {<<d, br.version[d], digest[d]>> : d \in live}
    BY <2>1, <2>2 DEF Canonical
  <2>4. live = LiveDependencies(deps, br, e, br.version[e])
    BY <2>2 DEF LiveAt, LiveDependencies
  <2>5. live \subseteq Entities
    BY <2>2, VersionDependsOnEntities DEF LiveAt
  <2>6. QED
    BY <2>1, <2>3, <2>4, <2>5 DEF DigestIsCurrent
<1>3. QED
  BY <1>1, <1>2, AtRestByRow

\* What ConcurrentInit starts from is what the calls of Publishing leave behind outside
\* of bulk contexts, when these do not nest.
THEOREM CallsLeaveBranchesAtRest ==
    ASSUME MaxNesting <= 1
    PROVE  Spec => [](openLogs = << >> => BranchesAtRest)
<1>1. TypeOK /\ IInv /\ PublishedIInv /\ DigestsIInv => (openLogs = << >> => BranchesAtRest)
  <2>. SUFFICES ASSUME TypeOK, IInv, PublishedIInv, DigestsIInv, openLogs = << >>
                PROVE  BranchesAtRest
    OBVIOUS
  <2>1. /\ Tables(draft) /\ lastDraftLog \in Nat /\ Sound(draft, lastDraftLog)
        /\ Tables(published) /\ lastPublishLog \in Nat /\ Sound(published, lastPublishLog)
        /\ dependencies \in [Entities -> Seq(SUBSET Entities)]
        /\ Points(dependencies, draft) /\ Points(dependencies, published)
    BY TypePoints DEF IInv, PublishedIInv
  <2>2. /\ Canonical(dependencies, draft.version,
                     [e \in Entities |-> StoredDigest(draft, e, draft.logRecord[e])])
        /\ Canonical(dependencies, published.version,
                     [e \in Entities |-> StoredDigest(published, e, published.logRecord[e])])
    BY StoredDigestsAreCanonical
  <2>3. /\ DigestsOfLogsBefore(draft, lastDraftLog + 1)
        /\ DigestsOfLogsBefore(published, lastPublishLog + 1)
    BY DEF DigestsIInv, CanonicalBefore, DraftLogAtHand
  <2>4. QED
    BY <2>1, <2>2, <2>3, SoundIsAtRest DEF BranchesAtRest
<1>2. QED
  BY <1>1, TypeCorrect, NestingIsBounded, ConsistentUntilNested,
     PublishHistoriesConsistent, CanonicalUntilNested, PTL

\* Every transaction that runs is as far as it says and apart from the others, and what
\* is committed is at rest.
LEMMA SessionsInvariant == ConcurrentSpec => []SessionsIInv
<1>1. ConcurrentInit => SessionsIInv
  <2>. SUFFICES ASSUME ConcurrentInit PROVE SessionsIInv
    OBVIOUS
  <2>1. TypeOK /\ openLogs = << >> /\ BranchesAtRest /\ tx = [s \in Sessions |-> Idle]
    BY DEF ConcurrentInit
  <2>2. DOMAIN tx = Sessions /\ \A s \in Sessions : ~ Running(s)
    BY <2>1 DEF Running
  <2>3. QED
    BY <2>1, <2>2 DEF SessionsIInv
<1>2. SessionsIInv /\ [ConcurrentNext \/ CallInTurn]_concurrentVars => SessionsIInv'
  <2>. SUFFICES ASSUME SessionsIInv, [ConcurrentNext \/ CallInTurn]_concurrentVars
                PROVE  SessionsIInv'
    OBVIOUS
  <2>1. CASE ConcurrentNext
    BY <2>1, ConcurrentNextKeepsSessions
  <2>2. CASE CallInTurn
    BY <2>2, CallInTurnKeepsSessions
  <2>3. CASE UNCHANGED concurrentVars
    BY <2>3 DEF concurrentVars, vars, SessionsIInv, SessionFits, AreApart, Running, Branch,
                LogOf, BranchesAtRest, AtRest, TypeOK, BranchTypeOK
  <2>4. QED
    BY <2>1, <2>2, <2>3
<1>3. QED
  BY <1>1, <1>2, PTL DEF ConcurrentSpec

\* A branch at rest has canonical digests.
LEMMA AtRestIsCanonical ==
    ASSUME NEW deps \in [Entities -> Seq(SUBSET Entities)], NEW br, NEW last,
           Points(deps, br), AtRest(deps, br, last)
    PROVE  Canonical(deps, br.version, [e \in Entities |-> StoredDigest(br, e, br.logRecord[e])])
<1>1. PICK digest : digest = [d \in Entities |-> StoredDigest(br, d, br.logRecord[d])]
  OBVIOUS
<1>2. ASSUME NEW e \in Entities
      PROVE  digest[e] = {<<d, br.version[d], digest[d]>> : d \in LiveAt(deps, br.version, e)}
  <2>1. PICK live : live = LiveAt(deps, br.version, e)
    OBVIOUS
  <2>2. live = LiveDependencies(deps, br, e, br.version[e])
    BY <2>1 DEF LiveAt, LiveDependencies
  <2>3. live \subseteq Entities
    BY <2>1, VersionDependsOnEntities DEF LiveAt
  <2>4. DigestIsCurrent(deps, br, e)
    BY AtRestByRow
  <2>5. StoredDigest(br, e, br.logRecord[e]) =
          {<<d, br.version[d], StoredDigest(br, d, br.logRecord[d])>> : d \in live}
    BY <2>2, <2>4 DEF DigestIsCurrent
  <2>6. digest[e] = {<<d, br.version[d], digest[d]>> : d \in live}
    BY <1>1, <2>3, <2>5
  <2>7. QED
    BY <2>1, <2>6
<1>3. QED
  BY <1>1, <1>2 DEF Canonical

\* Sessions that edit, delete and publish Components at the same time leave the digests
\* right: the committed digests of a draft and a published entity differ exactly when the
\* committed versions at or below it do, in whatever order the statements come.
THEOREM AllSessionsAreSeen == ConcurrentSpec => []DigestsSeeAllSessions
<1>1. SessionsIInv => DigestsSeeAllSessions
  <2>. SUFFICES ASSUME SessionsIInv, NEW e \in Entities
                PROVE  ContainsUnpublishedChanges(e)
                         <=> LiveTree(draft, e) # LiveTree(published, e)
    BY DEF DigestsSeeAllSessions, DigestsTellUnpublishedChanges
  <2>1. /\ dependencies \in [Entities -> Seq(SUBSET Entities)]
        /\ Points(dependencies, draft) /\ Points(dependencies, published)
        /\ GoesDown(dependencies)
    BY TypePoints, TypeGoesDown DEF SessionsIInv
  <2>2. PICK digest : digest = [d \in Entities |-> StoredDigest(draft, d, draft.logRecord[d])]
    OBVIOUS
  <2>3. PICK digest2 : digest2 = [d \in Entities |->
                                     StoredDigest(published, d, published.logRecord[d])]
    OBVIOUS
  <2>4. /\ AreDigestsOf(dependencies, draft, digest)
        /\ AreDigestsOf(dependencies, published, digest2)
    BY <2>1, <2>2, <2>3, AtRestIsCanonical DEF SessionsIInv, BranchesAtRest, AreDigestsOf
  <2>5. ContainsUnpublishedChanges(e) <=> ~ HaveSame(draft, published, digest, digest2, e)
    BY <2>2, <2>3 DEF ContainsUnpublishedChanges, HaveSame
  <2>6. HaveSame(draft, published, digest, digest2, e)
          <=> TreeOf(dependencies, draft, e) = TreeOf(dependencies, published, e)
    BY <2>1, <2>4, CanonicalDigestsTell
  <2>7. \A br : LiveTree(br, e) = TreeOf(dependencies, br, e)
    BY DEF LiveTree, TreeOf
  <2>8. QED
    BY <2>5, <2>6, <2>7
<1>2. QED
  BY <1>1, SessionsInvariant, PTL

=============================================================================
