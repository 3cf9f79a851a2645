-------------------------- MODULE SideEffectsProofs --------------------------
(***************************************************************************)
(* The loop of _create_side_effects_for_change_log reaches every row that  *)
(* depends on a change and no other, for every finite set of entities and  *)
(* every dependency graph, those with cycles included, and whatever the    *)
(* order in which the database returns rows.                               *)
(***************************************************************************)
EXTENDS SideEffects, FiniteSetTheorems, SequenceTheorems, TLAPS

\* A set with every row that depends on an original change or on a member of it.
IsClosed(R) == \A e \in originals \cup R : AffectedBy(e) \subseteq R

\* The rows are entities, and the entries of the work list depend on a recorded cause.
Shape ==
    /\ graph \in [Entities -> SUBSET Entities]
    /\ originals \subseteq Entities
    /\ todo \subseteq originals
    /\ changes \in Seq(Entities \X Entities)
    /\ UNION {originals, processed, repointed, toUpdate} \subseteq recorded
    /\ recorded \subseteq Entities
    /\ \A i \in 1 .. Len(changes) :
          changes[i][1] \in recorded /\ changes[i][2] \in AffectedBy(changes[i][1])

\* The rows that depend on a recorded entity are recorded or on the work list, unless
\* the for loop has not taken it yet.
NothingIsMissed ==
    \A e \in recorded \ todo : \A a \in AffectedBy(e) :
        a \in recorded \/ \E i \in 1 .. Len(changes) : changes[i] = <<e, a>>

\* Whatever is recorded depends on an original change: it is in every closed set.
NothingIsExtra ==
    \A R \in SUBSET Entities : IsClosed(R) => recorded \subseteq originals \cup R

\* Recorded rows point at the log, or are about to.
RowsFollow == recorded \ originals \subseteq repointed \cup toUpdate

\* EffectsAreOneLevel, with its type.
Effects ==
    /\ effects \subseteq recorded \X recorded
    /\ \A p \in effects : p[1] \in graph[p[2]]
    /\ \A e \in recorded \ originals : \E p \in effects : p[2] = e

IInv == Shape /\ NothingIsMissed /\ NothingIsExtra /\ RowsFollow /\ Effects

-----------------------------------------------------------------------------
\* In whatever order the rows come, each is on the list.
LEMMA WorklistsAreComplete ==
    \A e \in Entities : \A A \in SUBSET Entities : IsFiniteSet(A) =>
      \A w \in Worklists(e, A) :
        /\ w \in Seq(Entities \X Entities)
        /\ \A i \in 1 .. Len(w) : w[i][1] = e /\ w[i][2] \in A
        /\ \A a \in A : \E i \in 1 .. Len(w) : w[i] = <<e, a>>
<1>. SUFFICES ASSUME NEW e \in Entities, NEW A \in SUBSET Entities, IsFiniteSet(A),
                     NEW w \in Worklists(e, A)
              PROVE  /\ w \in Seq(Entities \X Entities)
                     /\ \A i \in 1 .. Len(w) : w[i][1] = e /\ w[i][2] \in A
                     /\ \A a \in A : \E i \in 1 .. Len(w) : w[i] = <<e, a>>
  OBVIOUS
<1>. DEFINE P == {<<e, a>> : a \in A}
            n == Cardinality(P)
<1>1. IsFiniteSet(P)
  <2>. DEFINE f == [a \in A |-> <<e, a>>]
  <2>1. f \in Surjection(A, P)
    BY DEF Surjection
  <2>. QED
    BY <2>1, FS_Surjection
<1>2. n \in Nat
  BY <1>1, FS_CardinalityType
<1>3. w \in [1 .. n -> P] /\ \A i, j \in 1 .. n : i # j => w[i] # w[j]
  BY DEF Worklists, SetToSeqs
<1>4. w \in Seq(Entities \X Entities) /\ Len(w) = n
  <2>1. P \subseteq Entities \X Entities
    OBVIOUS
  <2>. HIDE DEF P, n
  <2>2. w \in [1 .. n -> Entities \X Entities]
    BY <1>3, <2>1
  <2>. QED
    BY <1>2, <2>2
<1>5. ASSUME NEW a \in A
      PROVE  \E i \in 1 .. Len(w) : w[i] = <<e, a>>
  <2>. SUFFICES ASSUME \A i \in 1 .. n : w[i] # <<e, a>>
                PROVE  FALSE
    BY <1>4
  <2>. DEFINE Q == P \ {<<e, a>>}
  <2>1. <<e, a>> \in P
    OBVIOUS
  <2>2. IsFiniteSet(Q) /\ Cardinality(Q) = n - 1
    BY <1>1, <2>1, FS_RemoveElement
  <2>3. IsFiniteSet(1 .. n) /\ Cardinality(1 .. n) = n
    BY <1>2, FS_Interval
  <2>4. w \in [1 .. n -> Q]
    BY <1>3
  <2>. HIDE DEF P, Q, n
  <2>5. Cardinality(Q) < Cardinality(1 .. n)
    BY <1>2, <2>2, <2>3
  <2>6. \E i, j \in 1 .. n : i # j /\ w[i] = w[j]
    BY <2>2, <2>3, <2>4, <2>5, FS_PigeonHole
  <2>. QED
    BY <2>6, <1>3
<1>6. \A i \in 1 .. Len(w) : w[i][1] = e /\ w[i][2] \in A
  BY <1>3, <1>4
<1>. QED
  BY <1>4, <1>5, <1>6


\* What is left of a work list when its last entry is popped.
LEMMA FrontProperties ==
    ASSUME NEW S, NEW s, NEW n \in Nat \ {0}, \A i \in 1 .. n - 1 : s[i] \in S
    PROVE  /\ SubSeq(s, 1, n - 1) \in Seq(S)
           /\ Len(SubSeq(s, 1, n - 1)) = n - 1
           /\ \A i \in 1 .. n - 1 : SubSeq(s, 1, n - 1)[i] = s[i]
<1>. DEFINE m == n - 1
<1>1. 1 \in Int /\ m \in Nat
  OBVIOUS
<1>. HIDE DEF m
<1>2. /\ SubSeq(s, 1, m) \in Seq(S)
      /\ Len(SubSeq(s, 1, m)) = (IF 1 <= m THEN m - 1 + 1 ELSE 0)
      /\ \A i \in 1 .. m - 1 + 1 : SubSeq(s, 1, m)[i] = s[1 + i - 1]
  BY <1>1, m \in Int, SubSeqProperties, Z3 DEF m
<1>. QED
  BY <1>1, <1>2 DEF m

LEMMA InitHolds == Init => IInv
<1>. SUFFICES ASSUME Init
              PROVE  IInv
  OBVIOUS
<1>1. graph \in [Entities -> SUBSET Entities] /\ originals \subseteq Entities
  BY GraphsAssumption DEF Init, GraphsAssumption
<1>2. Shape
  BY <1>1 DEF Init, Shape
<1>3. NothingIsMissed /\ NothingIsExtra /\ RowsFollow /\ Effects
  BY DEF Init, NothingIsMissed, NothingIsExtra, RowsFollow, Effects
<1>. QED
  BY <1>2, <1>3 DEF IInv

\* One more original change is taken, and the rows it affects are put on the list.
LEMMA TakeOriginalKeepsIInv ==
    ASSUME IsFiniteSet(Entities), IInv, TakeOriginal
    PROVE  IInv'
<1>. USE DEF IInv
<1>1. PICK e \in todo : todo' = todo \ {e} /\ changes' \in Worklists(e, AffectedBy(e))
  BY DEF TakeOriginal
<1>2. UNCHANGED <<graph, originals, processed, recorded, toUpdate, repointed, effects>>
  BY DEF TakeOriginal
<1>3. e \in Entities /\ e \in recorded /\ AffectedBy(e) \in SUBSET Entities
  BY DEF Shape, AffectedBy
<1>4. IsFiniteSet(AffectedBy(e))
  BY <1>3, FS_Subset
<1>5. /\ changes' \in Seq(Entities \X Entities)
      /\ \A i \in 1 .. Len(changes') : changes'[i][1] = e /\ changes'[i][2] \in AffectedBy(e)
      /\ \A a \in AffectedBy(e) : \E i \in 1 .. Len(changes') : changes'[i] = <<e, a>>
  <2>. DEFINE A == AffectedBy(e)
  <2>1. e \in Entities /\ A \in SUBSET Entities /\ IsFiniteSet(A) /\ changes' \in Worklists(e, A)
    BY <1>1, <1>3, <1>4
  <2>. HIDE DEF A
  <2>2. \A w \in Worklists(e, A) :
            /\ w \in Seq(Entities \X Entities)
            /\ \A i \in 1 .. Len(w) : w[i][1] = e /\ w[i][2] \in A
            /\ \A a \in A : \E i \in 1 .. Len(w) : w[i] = <<e, a>>
    BY <2>1, WorklistsAreComplete, Zenon
  <2>. QED
    BY <2>1, <2>2, Zenon DEF A
<1>6. \A x : AffectedBy(x)' = AffectedBy(x)
  BY <1>2 DEF AffectedBy
<1>7. Shape'
  BY <1>1, <1>2, <1>3, <1>5, <1>6 DEF Shape
<1>8. NothingIsMissed'
  <2>. SUFFICES ASSUME NEW x \in recorded \ todo', NEW a \in AffectedBy(x)
                PROVE  \/ a \in recorded
                       \/ \E i \in 1 .. Len(changes') : changes'[i] = <<x, a>>
    BY <1>2, <1>6 DEF NothingIsMissed
  <2>1. CASE x = e
    BY <2>1, <1>5
  <2>2. CASE x # e
    <3>1. x \in recorded \ todo /\ Len(changes) = 0
      BY <2>2, <1>1 DEF TakeOriginal
    <3>. QED
      BY <3>1 DEF NothingIsMissed
  <2>. QED
    BY <2>1, <2>2
<1>9. NothingIsExtra'
  BY <1>2, <1>6 DEF NothingIsExtra, IsClosed
<1>10. RowsFollow' /\ Effects'
  BY <1>2 DEF RowsFollow, Effects
<1>. QED
  BY <1>7, <1>8, <1>9, <1>10

\* One turn of the while loop.
LEMMA PopChangeKeepsIInv ==
    ASSUME IsFiniteSet(Entities), IInv, PopChange
    PROVE  IInv'
<1>. USE DEF IInv
<1>. DEFINE n == Len(changes)
            cause == changes[n][1]
            affected == changes[n][2]
            done == processed \cup {cause}
            rest == SubSeq(changes, 1, n - 1)
<1>1. /\ n \in Nat \ {0}
      /\ cause \in recorded /\ cause \in Entities
      /\ affected \in Entities /\ affected \in AffectedBy(cause)
      /\ changes[n] = <<cause, affected>>
  BY DEF PopChange, Shape
<1>2. /\ recorded' = recorded \cup {affected}
      /\ toUpdate' = toUpdate \cup ({affected} \ (originals \cup repointed))
      /\ effects' = effects \cup {<<cause, affected>>}
      /\ processed' = done
      /\ UNCHANGED <<graph, originals, todo, repointed>>
  BY DEF PopChange, SideEffect
<1>3. PICK more \in Worklists(affected, NextLayer(affected, done)) : changes' = rest \o more
  BY DEF PopChange
<1>. DEFINE A == NextLayer(affected, done)
<1>4. A \in SUBSET Entities /\ IsFiniteSet(A)
  <2>1. A \in SUBSET Entities
    BY DEF NextLayer, AffectedBy
  <2>. QED
    BY <2>1, FS_Subset
<1>5. /\ more \in Seq(Entities \X Entities)
      /\ \A i \in 1 .. Len(more) : more[i][1] = affected /\ more[i][2] \in A
      /\ \A a \in A : \E i \in 1 .. Len(more) : more[i] = <<affected, a>>
  <2>1. affected \in Entities /\ A \in SUBSET Entities /\ IsFiniteSet(A)
        /\ more \in Worklists(affected, A)
    BY <1>1, <1>3, <1>4
  <2>. HIDE DEF A, affected
  <2>. QED
    BY <2>1, WorklistsAreComplete, Zenon
<1>6. \A x : AffectedBy(x)' = AffectedBy(x)
  BY <1>2 DEF AffectedBy
<1>7. /\ rest \in Seq(Entities \X Entities)
      /\ Len(rest) = n - 1
      /\ \A i \in 1 .. n - 1 : rest[i] = changes[i]
  <2>. DEFINE P == Entities \X Entities
  <2>1. changes \in Seq(P) /\ n \in Nat \ {0} /\ \A i \in 1 .. n - 1 : changes[i] \in P
    <3>1. changes \in Seq(P)
      BY DEF Shape
    <3>. HIDE DEF P
    <3>. QED
      BY <1>1, <3>1
  <2>. HIDE DEF P, n
  <2>. QED
    BY <2>1, FrontProperties DEF P
<1>. HIDE DEF rest
<1>8. /\ changes' \in Seq(Entities \X Entities)
      /\ Len(changes') = n - 1 + Len(more)
      /\ \A i \in 1 .. n - 1 : changes'[i] = changes[i]
      /\ \A i \in 1 .. Len(more) : changes'[n - 1 + i] = more[i]
  BY <1>1, <1>3, <1>5, <1>7
<1>. HIDE DEF n, A
<1>9. \A i \in 1 .. Len(changes') :
          changes'[i][1] \in recorded' /\ changes'[i][2] \in AffectedBy(changes'[i][1])
  <2>. SUFFICES ASSUME NEW i \in 1 .. Len(changes')
                PROVE  changes'[i][1] \in recorded' /\ changes'[i][2] \in AffectedBy(changes'[i][1])
    OBVIOUS
  <2>1. CASE i \in 1 .. n - 1
    <3>1. i \in 1 .. Len(changes)
      BY <2>1, <1>1 DEF n
    <3>. QED
      BY <2>1, <3>1, <1>2, <1>8 DEF Shape
  <2>2. CASE i \notin 1 .. n - 1
    <3>1. PICK j \in 1 .. Len(more) : i = n - 1 + j
      <4>1. i - (n - 1) \in 1 .. Len(more)
        BY <2>2, <1>1, <1>5, <1>8
      <4>. QED
        BY <4>1, <1>1
    <3>. QED
      BY <3>1, <1>2, <1>5, <1>8 DEF A, NextLayer
  <2>. QED
    BY <2>1, <2>2
<1>10. Shape'
  BY <1>1, <1>2, <1>6, <1>8, <1>9 DEF Shape
<1>11. NothingIsMissed'
  <2>. SUFFICES ASSUME NEW x \in recorded' \ todo, NEW a \in AffectedBy(x), a \notin recorded'
                PROVE  \E i \in 1 .. Len(changes') : changes'[i] = <<x, a>>
    BY <1>2, <1>6 DEF NothingIsMissed
  <2>1. CASE x = affected
    <3>1. a \in A
      BY <2>1, <1>1, <1>2 DEF A, NextLayer, Shape
    <3>2. PICK i \in 1 .. Len(more) : more[i] = <<affected, a>>
      BY <3>1, <1>5
    <3>3. n - 1 + i \in 1 .. Len(changes') /\ changes'[n - 1 + i] = <<affected, a>>
      BY <3>2, <1>1, <1>5, <1>8
    <3>. QED
      BY <2>1, <3>3
  <2>2. CASE x # affected
    <3>1. x \in recorded \ todo /\ a \notin recorded /\ a # affected
      BY <2>2, <1>2
    <3>2. PICK i \in 1 .. Len(changes) : changes[i] = <<x, a>>
      BY <3>1 DEF NothingIsMissed
    <3>3. i # n
      BY <3>1, <3>2, <1>1
    <3>4. i \in 1 .. n - 1 /\ i \in 1 .. Len(changes')
      BY <3>2, <3>3, <1>1, <1>5, <1>8 DEF n
    <3>. QED
      BY <3>2, <3>4, <1>8
  <2>. QED
    BY <2>1, <2>2
<1>12. NothingIsExtra'
  <2>. SUFFICES ASSUME NEW R \in SUBSET Entities, IsClosed(R)
                PROVE  recorded' \subseteq originals \cup R
    BY <1>2, <1>6 DEF NothingIsExtra, IsClosed
  <2>1. recorded \subseteq originals \cup R
    BY DEF NothingIsExtra
  <2>2. affected \in R
    BY <2>1, <1>1 DEF IsClosed
  <2>. QED
    BY <2>1, <2>2, <1>2
<1>13. RowsFollow'
  BY <1>2 DEF RowsFollow
<1>14. Effects'
  BY <1>1, <1>2 DEF Effects, AffectedBy
<1>. QED
  BY <1>10, <1>11, <1>12, <1>13, <1>14

LEMMA BulkUpdateKeepsIInv == IInv /\ BulkUpdate => IInv'
  BY DEF IInv, BulkUpdate, Shape, NothingIsMissed, NothingIsExtra, RowsFollow, Effects,
         AffectedBy, IsClosed

\* The inductive invariant, for any finite set of entities.
LEMMA LoopInvariant ==
    ASSUME IsFiniteSet(Entities)
    PROVE  Spec => []IInv
<1>1. IInv /\ [Next]_vars => IInv'
  <2>. SUFFICES ASSUME IInv, [Next]_vars
                PROVE  IInv'
    OBVIOUS
  <2>1. CASE TakeOriginal
    BY <2>1, TakeOriginalKeepsIInv
  <2>2. CASE PopChange
    BY <2>2, PopChangeKeepsIInv
  <2>3. CASE BulkUpdate
    BY <2>3, BulkUpdateKeepsIInv
  <2>4. CASE UNCHANGED vars
    BY <2>4 DEF vars, IInv, Shape, NothingIsMissed, NothingIsExtra, RowsFollow, Effects,
                AffectedBy, IsClosed
  <2>. QED
    BY <2>1, <2>2, <2>3, <2>4 DEF Next
<1>. QED
  BY <1>1, InitHolds, PTL DEF Spec

-----------------------------------------------------------------------------
\* AffectedRows of the branch the loop ran on is what every closed set has.
LEMMA AffectedIsLeastClosed ==
    ASSUME Shape
    PROVE  AffectedRows([e \in Entities |-> <<graph[e]>>], Branch, 1)
             = {e \in Entities : \A R \in SUBSET Entities : IsClosed(R) => e \in R}
<1>. DEFINE deps == [e \in Entities |-> <<graph[e]>>]
<1>1. ChangedIn(Branch, 1) = originals
  <2>1. \A e \in Entities :
            Branch.records[e] = IF e \in originals THEN <<[log |-> 1, old |-> None, new |-> 1]>>
                                                   ELSE << >>
    BY DEF Branch, EmptyBranch
  <2>2. \A e \in originals : 1 \in InLog(Branch.records[e], 1)
    BY <2>1 DEF InLog, Shape
  <2>3. \A e \in Entities \ originals : InLog(Branch.records[e], 1) = {}
    BY <2>1 DEF InLog
  <2>. QED
    BY <2>2, <2>3 DEF ChangedIn, Shape
<1>2. \A e \in Entities : Branch.version[e] = 1
  BY DEF Branch, EmptyBranch
<1>3. \A X \in SUBSET Entities :
          DependentsOf(deps, Branch, X) = {a \in Entities : graph[a] \cap X # {}}
  <2>1. \A e \in Entities : deps[e][1] = graph[e]
    OBVIOUS
  <2>. HIDE DEF deps
  <2>. QED
    BY <1>2, <2>1 DEF DependentsOf, None
<1>4. \A R \in SUBSET Entities :
          (DependentsOf(deps, Branch, originals \cup R) \subseteq R) <=> IsClosed(R)
  <2>. SUFFICES ASSUME NEW R \in SUBSET Entities
                PROVE  (DependentsOf(deps, Branch, originals \cup R) \subseteq R) <=> IsClosed(R)
    OBVIOUS
  <2>. HIDE DEF deps
  <2>1. DependentsOf(deps, Branch, originals \cup R)
          = {a \in Entities : graph[a] \cap (originals \cup R) # {}}
    BY <1>3 DEF Shape
  <2>. QED
    BY <2>1 DEF IsClosed, AffectedBy, Shape
<1>. QED
  BY <1>1, <1>4 DEF AffectedRows, Ancestors

\* When the loop ends, the records and the rows that point at them are those of
\* the originals and of everything that depends on them, directly or not.
THEOREM LoopReachesAffectedRows ==
    ASSUME IsFiniteSet(Entities)
    PROVE  Spec => []ReachesAffectedRows
<1>1. IInv => ReachesAffectedRows
  <2>. SUFFICES ASSUME IInv, Finished
                PROVE  LET affected == originals \cup
                                AffectedRows([e \in Entities |-> <<graph[e]>>], Branch, 1)
                       IN  recorded = affected /\ originals \cup repointed = affected
    BY DEF ReachesAffectedRows
  <2>. DEFINE reached == AffectedRows([e \in Entities |-> <<graph[e]>>], Branch, 1)
  <2>1. reached = {e \in Entities : \A R \in SUBSET Entities : IsClosed(R) => e \in R}
    BY AffectedIsLeastClosed DEF IInv
  <2>. HIDE DEF reached
  <2>2. recorded \subseteq originals \cup reached
    BY <2>1 DEF IInv, NothingIsExtra, Shape
  <2>3. IsClosed(recorded)
    BY DEF IInv, Shape, NothingIsMissed, Finished, IsClosed
  <2>4. originals \cup reached \subseteq recorded
    BY <2>1, <2>3 DEF IInv, Shape
  <2>5. originals \cup repointed = recorded
    BY DEF IInv, Shape, RowsFollow, Finished
  <2>. QED
    BY <2>2, <2>4, <2>5 DEF reached
<1>. QED
  BY <1>1, LoopInvariant, PTL

\* At every turn, an effect depends on its cause directly, and every record that
\* is there as a side effect only has a cause.
THEOREM EffectsAreAlwaysOneLevel ==
    ASSUME IsFiniteSet(Entities)
    PROVE  Spec => []EffectsAreOneLevel
<1>1. IInv => EffectsAreOneLevel
  BY DEF IInv, Effects, EffectsAreOneLevel
<1>. QED
  BY <1>1, LoopInvariant, PTL

\* The rows are entities, and only affected rows are ever on the work list.
THEOREM LoopTypeCorrect ==
    ASSUME IsFiniteSet(Entities)
    PROVE  Spec => []TypeOK
<1>1. IInv => TypeOK
  BY DEF IInv, Shape, Effects, TypeOK
<1>. QED
  BY <1>1, LoopInvariant, PTL

=============================================================================
