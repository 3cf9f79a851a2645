--------------------------- MODULE TagImportProofs ---------------------------
(***************************************************************************)
(* Importing tags, for any number of workers, tasks and edits, any files   *)
(* and any tables to start from: every import task ends, or belongs to a   *)
(* worker; the rows satisfy the constraints of the database at any time;   *)
(* no tag becomes its own ancestor; an import does what its file says; and *)
(* an export gives back the tags it lists.                                 *)
(*                                                                         *)
(* The third is about the whole execution of a plan.  Its actions follow   *)
(* the file (FollowsFile): deletions first, which only take tags away or   *)
(* make them roots, then the actions for each item in the order of the     *)
(* file.  At any point of the execution each item is settled, its tags at  *)
(* the top or under the tag of an earlier item, or its move is still to    *)
(* come (GoesWell).  When an item moves its tag, all earlier items are     *)
(* settled: a cycle would have a tag of the least item among those on it,  *)
(* and the parent of that tag belongs to an earlier one.                   *)
(*                                                                         *)
(* So is the fourth.  The deletions leave the tags they were not made for, *)
(* whatever their order and the cascade (IsWithout).  After them, an item  *)
(* at any point has its tag, value and parent, or waits for the action     *)
(* that gives them to it (IsUnderway); at the end nothing waits.           *)
(*                                                                         *)
(* The last goes item by item too: importing an export creates one tag for *)
(* each, and after k of them there are those of the first k (Rebuilt).     *)
(*                                                                         *)
(* The last two are about tables in which no two tags share an id          *)
(* (IdsDiffer): of two that do, a replacing import may leave one.          *)
(***************************************************************************)
EXTENDS TagImport, TagImportPlanProofs

(***************************************************************************)
(* Items that are settled                                                  *)
(***************************************************************************)
\* A parent for the tags of the ith item: none, or the tag of an earlier one.
EarlierParent(table, file, i, p) ==
    \/ p = None
    \/ p \in DOMAIN table /\ \E n \in 1 .. i - 1 : table[p].externalId = file[n].id

\* The action is for the tag of the item.
IsForItem(a, file, i) == a.id = file[i].id

IsCreated(table, pk, a, p, new) == new = Put(table, pk, Row(a.value, p, a.id))
IsMoved(table, t, p, new) == new = [table EXCEPT ![t].parent = p]

LEMMA ParentsAreEarlier ==
    ASSUME NEW file \in Seq(Items), ParentsFirst(file), NEW i \in 1 .. Len(file),
           NEW table, NEW a, a.parent = file[i].parent, NEW p \in ParentsOf(table, a)
    PROVE  EarlierParent(table, file, i, p)
<1>1. CASE a.parent = None
  BY <1>1 DEF ParentsOf, EarlierParent
<1>2. CASE a.parent # None
  <2>1. i \in DOMAIN file
    BY LenProperties
  <2>2. PICK n \in 1 .. i - 1 : file[n].id = a.parent
    BY <1>2, <2>1 DEF ParentsFirst
  <2>3. p \in DOMAIN table /\ table[p].externalId = a.parent
    BY <1>2 DEF ParentsOf, ByExternalId
  <2>4. QED  BY <2>2, <2>3 DEF EarlierParent
<1>3. QED  BY <1>1, <1>2

LEMMA CreatedSettled ==
    ASSUME NEW file \in Seq(Items), IdsOnce(file), NEW i \in 1 .. Len(file),
           NEW table, NEW last, KeysAreOld(table, last),
           NEW a, IsForItem(a, file, i), NEW p, EarlierParent(table, file, i, p),
           NEW pk, pk = last + 1, NEW new, IsCreated(table, pk, a, p, new),
           NEW m \in 1 .. Len(file), Settled(table, file, m)
    PROVE  Settled(new, file, m)
<1>1. pk \notin DOMAIN table /\ pk # None
  BY KeysOfTables
<1>2. /\ DOMAIN new = DOMAIN table \cup {pk}
      /\ new[pk].parent = p /\ new[pk].externalId = file[i].id
      /\ \A t \in DOMAIN table : new[t] = table[t]
  BY <1>1 DEF IsCreated, Put, Row, IsForItem
<1> SUFFICES ASSUME NEW t \in ByExternalId(new, file[m].id), new[t].parent # None
             PROVE  \E n \in 1 .. m - 1 : new[new[t].parent].externalId = file[n].id
  BY DEF Settled
<1>3. CASE t = pk
  <2>1. i = m
    <3>1. file[i].id = file[m].id
      BY <1>2, <1>3 DEF ByExternalId
    <3>2. i \in DOMAIN file /\ m \in DOMAIN file
      BY LenProperties
    <3>3. QED  BY <3>1, <3>2 DEF IdsOnce
  <2>2. p \in DOMAIN table /\ \E n \in 1 .. m - 1 : table[p].externalId = file[n].id
    BY <1>2, <1>3, <2>1 DEF EarlierParent
  <2>3. QED  BY <1>2, <1>3, <2>2
<1>4. CASE t # pk
  <2>1. t \in DOMAIN table /\ new[t] = table[t]
    BY <1>2, <1>4 DEF ByExternalId
  <2>2. t \in ByExternalId(table, file[m].id)
    BY <2>1 DEF ByExternalId
  <2>3. PICK n \in 1 .. m - 1 : table[table[t].parent].externalId = file[n].id
    BY <2>1, <2>2 DEF Settled
  <2>4. table[t].parent \in DOMAIN table
    BY <2>1, KeysOfTables
  <2>5. QED  BY <1>2, <2>1, <2>3, <2>4
<1>5. QED  BY <1>3, <1>4

\* The tag of an action for an item has its id, or none while no tag has it.
LEMMA TagOfItem ==
    ASSUME NEW file \in Seq(Items), NEW i \in 1 .. Len(file),
           NEW table, NEW a, a.id = file[i].id, NEW t \in GetTag(table, a)
    PROVE  /\ t \in DOMAIN table
           /\ \/ table[t].externalId = file[i].id
              \/ table[t].externalId = None /\ ByExternalId(table, file[i].id) = {}
           /\ \A m \in 1 .. Len(file) : file[m].id # None
<1>1. \A m \in 1 .. Len(file) : file[m].id # None
  <2>1. \A m \in 1 .. Len(file) : file[m] \in Items
    BY ElementOfSeq
  <2>2. \A item \in Items : item.id \in ExternalIds
    BY DEF Items
  <2>3. QED  BY <2>1, <2>2, NullAssumption
<1>2. t \in DOMAIN table
  BY DEF GetTag, ByExternalId, WithValue
<1>3. \/ table[t].externalId = file[i].id
      \/ table[t].externalId = None /\ ByExternalId(table, file[i].id) = {}
  <2>1. PICK found : found = ByExternalId(table, file[i].id)
    OBVIOUS
  <2>2. a.id # None
    BY <1>1
  <2>3. t \in IF found # {} THEN found
             ELSE {u \in WithValue(table, a.value) : table[u].externalId = None}
    BY <2>1, <2>2 DEF GetTag
  <2>4. QED  BY <2>1, <2>3 DEF ByExternalId
<1>4. QED  BY <1>1, <1>2, <1>3

\* A move settles the item, and leaves others settled.
LEMMA MovedSettled ==
    ASSUME NEW file \in Seq(Items), IdsOnce(file), NEW i \in 1 .. Len(file),
           NEW table, NEW last, KeysAreOld(table, last),
           NEW a, IsForItem(a, file, i), NEW t \in GetTag(table, a),
           NEW p, EarlierParent(table, file, i, p),
           NEW new, IsMoved(table, t, p, new),
           NEW m \in 1 .. Len(file), m = i \/ Settled(table, file, m)
    PROVE  Settled(new, file, m)
<1>1. /\ t \in DOMAIN table
      /\ \/ table[t].externalId = file[i].id
         \/ table[t].externalId = None /\ ByExternalId(table, file[i].id) = {}
      /\ \A k \in 1 .. Len(file) : file[k].id # None
  BY TagOfItem DEF IsForItem
<1>2. /\ DOMAIN new = DOMAIN table
      /\ \A u \in DOMAIN table : /\ new[u].externalId = table[u].externalId
                                 /\ new[u].parent = IF u = t THEN p ELSE table[u].parent
  BY <1>1, MovedRows DEF IsMoved
<1>3. PICK k : k = file[m].id
  OBVIOUS
<1> SUFFICES ASSUME NEW u \in ByExternalId(new, file[m].id), new[u].parent # None
             PROVE  \E n \in 1 .. m - 1 : new[new[u].parent].externalId = file[n].id
  BY DEF Settled
<1>4. u \in ByExternalId(table, file[m].id) /\ u \in DOMAIN table
      /\ table[u].externalId = file[m].id
  BY <1>2 DEF ByExternalId
<1>5. CASE u = t
  <2>1. file[i].id = file[m].id
    BY <1>1, <1>4, <1>5
  <2>2. i = m
    <3>1. i \in DOMAIN file /\ m \in DOMAIN file
      BY LenProperties
    <3>2. QED  BY <2>1, <3>1 DEF IdsOnce
  <2>3. p \in DOMAIN table /\ \E n \in 1 .. m - 1 : table[p].externalId = file[n].id
    BY <1>2, <1>4, <1>5, <2>2 DEF EarlierParent
  <2>4. QED  BY <1>2, <1>4, <1>5, <2>3
<1>6. CASE u # t
  <2>1. new[u].parent = table[u].parent
    BY <1>2, <1>4, <1>6
  <2>2. m # i
    <3>1. ASSUME m = i PROVE FALSE
      <4>1. table[t].externalId = file[i].id
        BY <1>1, <1>4, <3>1
      <4>2. table[u].externalId = table[t].externalId /\ table[u].externalId # None
        BY <1>1, <1>4, <3>1, <4>1
      <4>3. QED  BY <1>1, <1>4, <1>6, <4>2 DEF KeysAreOld, IsTable
    <3>2. QED  BY <3>1
  <2>3. PICK n \in 1 .. m - 1 : table[table[u].parent].externalId = file[n].id
    BY <1>4, <2>1, <2>2 DEF Settled
  <2>4. table[u].parent \in DOMAIN table
    BY <1>4, <2>1, KeysOfTables
  <2>5. QED  BY <1>2, <2>1, <2>3, <2>4
<1>7. QED  BY <1>5, <1>6

\* A move under the tag of an earlier item makes no cycle, once the earlier
\* items are settled: the tags of a cycle would belong to earlier and earlier
\* items.
LEMMA MovedInHierarchy ==
    ASSUME NEW file \in Seq(Items), IdsOnce(file), NEW i \in 1 .. Len(file),
           NEW table, NEW last, KeysAreOld(table, last), IsHierarchy(table),
           NEW a, a.id = file[i].id, NEW t \in GetTag(table, a),
           NEW p, EarlierParent(table, file, i, p),
           \A m \in 1 .. i - 1 : Settled(table, file, m),
           NEW new, new = [table EXCEPT ![t].parent = p]
    PROVE  IsHierarchy(new)
<1>1. /\ t \in DOMAIN table
      /\ \/ table[t].externalId = file[i].id
         \/ table[t].externalId = None
      /\ \A k \in 1 .. Len(file) : file[k].id # None
  BY TagOfItem
<1>2. /\ DOMAIN new = DOMAIN table
      /\ \A u \in DOMAIN table : /\ new[u].externalId = table[u].externalId
                                 /\ new[u].parent = IF u = t THEN p ELSE table[u].parent
  BY <1>1, MovedRows
<1> SUFFICES ASSUME NEW X \in SUBSET DOMAIN new, \A u \in X : new[u].parent \in X,
                    X # {}
             PROVE  FALSE
  BY DEF IsHierarchy
<1>3. t \in X
  <2>1. ASSUME t \notin X PROVE FALSE
    <3>1. \A u \in X : table[u].parent \in X
      BY <1>2, <2>1
    <3>2. QED  BY <1>2, <3>1 DEF IsHierarchy
  <2>2. QED  BY <2>1
<1>4. None \notin X
  BY <1>2, KeysOfTables
<1>5. p \in X /\ \E n \in 1 .. i - 1 : table[p].externalId = file[n].id
  <2>1. p \in X
    BY <1>2, <1>3
  <2>2. QED  BY <1>4, <2>1 DEF EarlierParent
<1>6. PICK least \in {m \in 1 .. i - 1 : \E u \in X : table[u].externalId = file[m].id} :
        \A m \in 1 .. i - 1 :
            (\E u \in X : table[u].externalId = file[m].id) => least <= m
  <2>1. PICK T : T = {m \in 1 .. i - 1 : \E u \in X : table[u].externalId = file[m].id}
    OBVIOUS
  <2>2. T \in SUBSET Nat /\ T # {}
    BY <1>5, <2>1
  <2>3. PICK n \in T : \A m \in T : n <= m
    BY <2>2, LeastNumber
  <2>4. QED  BY <2>1, <2>3
<1>7. PICK u \in X : table[u].externalId = file[least].id
  BY <1>6
<1>8. u # t
  <2>1. file[least].id # file[i].id
    <3>1. least \in DOMAIN file /\ i \in DOMAIN file /\ least # i
      <4>1. DOMAIN file = 1 .. Len(file) /\ Len(file) \in Nat
        BY LenProperties
      <4>2. QED  BY <1>6, <4>1
    <3>2. QED  BY <3>1 DEF IdsOnce
  <2>2. least \in 1 .. Len(file)
    <3>1. Len(file) \in Nat
      BY LenProperties
    <3>2. QED  BY <1>6, <3>1
  <2>3. file[least].id # None
    BY <1>1, <2>2
  <2>4. QED  BY <1>1, <1>7, <2>1, <2>3
<1>9. table[u].parent \in X
  BY <1>2, <1>7, <1>8
<1>10. PICK n \in 1 .. least - 1 : table[table[u].parent].externalId = file[n].id
  <2>1. u \in ByExternalId(table, file[least].id) /\ table[u].parent # None
    BY <1>2, <1>4, <1>7, <1>9 DEF ByExternalId
  <2>2. Settled(table, file, least)
    BY <1>6
  <2>3. QED  BY <2>1, <2>2 DEF Settled
<1>11. n \in 1 .. i - 1 /\ ~ (least <= n)
  BY <1>6, <1>10
<1>12. QED  BY <1>6, <1>9, <1>10, <1>11

(***************************************************************************)
(* The hierarchy during an import                                          *)
(***************************************************************************)
\* The action moves the tag of the item.
MovesItem(a, file, m) == a.name = "update_parent" /\ a.id = file[m].id

\* Such a move is still to come after k actions.
Pending(as, d, k, file, m) ==
    \E r \in k + 1 .. Len(as) : r > d /\ MovesItem(as[r], file, m)

\* The state of the tags after k actions: each item is settled, or will be.
GoesWell(table, as, d, k, file) ==
    /\ IsHierarchy(table)
    /\ \A m \in 1 .. Len(file) : Settled(table, file, m) \/ Pending(as, d, k, file, m)

LEMMA PendingGoesOn ==
    ASSUME NEW as \in Seq(Actions), NEW d \in Nat, NEW k \in Nat, NEW file, NEW m,
           Pending(as, d, k, file, m)
    PROVE  \/ Pending(as, d, k + 1, file, m)
           \/ k + 1 > d /\ MovesItem(as[k + 1], file, m)
<1>1. PICK l \in Nat : l = Len(as)
  BY LenProperties
<1>2. PICK r \in k + 1 .. l : r > d /\ MovesItem(as[r], file, m)
  BY <1>1 DEF Pending
<1>3. CASE r = k + 1
  BY <1>2, <1>3
<1>4. CASE r # k + 1
  <2>1. r \in (k + 1) + 1 .. l
    BY <1>2, <1>4
  <2>2. r \in (k + 1) + 1 .. Len(as)
    BY <1>1, <2>1
  <2>3. QED  BY <1>2, <2>2 DEF Pending
<1>5. QED  BY <1>3, <1>4

\* An action that moves no item, and moves tags to the top at most.
LEMMA StayingGoesWell ==
    ASSUME NEW as \in Seq(Actions), NEW d \in Nat, NEW k \in Nat, NEW file,
           NEW table, None \notin DOMAIN table, GoesWell(table, as, d, k, file),
           k + 1 <= d \/ as[k + 1].name # "update_parent",
           NEW new, IsTable(new), ParentsStay(table, new)
    PROVE  GoesWell(new, as, d, k + 1, file)
<1>1. IsHierarchy(new)
  BY ParentsStayInHierarchy DEF GoesWell
<1>2. ASSUME NEW m \in 1 .. Len(file)
      PROVE  Settled(new, file, m) \/ Pending(as, d, k + 1, file, m)
  <2>1. CASE Settled(table, file, m)
    BY <2>1, ParentsStaySettled
  <2>2. CASE Pending(as, d, k, file, m)
    <3>1. CASE k + 1 <= d
      <4>1. ~ (k + 1 > d)
        BY <3>1
      <4>2. QED  BY <2>2, <4>1, PendingGoesOn
    <3>2. CASE as[k + 1].name # "update_parent"
      BY <2>2, <3>2, PendingGoesOn DEF MovesItem
    <3>3. QED  BY <3>1, <3>2
  <2>3. QED  BY <2>1, <2>2 DEF GoesWell
<1>3. QED  BY <1>1, <1>2 DEF GoesWell

\* The actions that delete tags, and the moves that keep their children.
LEMMA DeletionsGoWell ==
    ASSUME NEW as \in Seq(Actions), NEW d \in Nat, NEW k \in Nat, k + 1 <= d, NEW file,
           NEW table, NEW last, KeysAreOld(table, last), GoesWell(table, as, d, k, file),
           NEW a \in Deletions, NEW new \in Executed(table, last + 1, a), IsTable(new)
    PROVE  GoesWell(new, as, d, k + 1, file)
<1>1. None \notin DOMAIN table
  BY KeysOfTables
<1>2. ParentsStay(table, new)
  <2>1. CASE a.name = "delete"
    <3>1. new = Delete(table, GetTag(table, a))
      BY <2>1 DEF Executed
    <3>2. QED  BY <3>1, DeletedWithChildren DEF KeysAreOld
  <2>2. CASE a.name = "update_parent"
    <3>1. a.parent = None
      BY DEF Deletions
    <3>2. PICK t \in GetTag(table, a) : new = [table EXCEPT ![t].parent = None]
      BY <2>2, <3>1 DEF Executed, ParentsOf
    <3>3. t \in DOMAIN table
      BY DEF GetTag, ByExternalId, WithValue
    <3>4. QED  BY <3>2, <3>3, MovedRows DEF ParentsStay
  <2>3. QED  BY <2>1, <2>2 DEF Deletions
<1>3. QED  BY <1>1, <1>2, StayingGoesWell

\* When an item moves, those before it are settled.
LEMMA EarlierAreSettled ==
    ASSUME NEW file \in Seq(Items), IdsOnce(file), NEW planned,
           NEW as \in Seq(Actions), NEW d, FollowsFile(as, d, planned, file),
           NEW k \in Nat, k + 1 \in d + 1 .. Len(as),
           NEW i \in 1 .. Len(file), as[k + 1].id = file[i].id,
           NEW table, GoesWell(table, as, d, k, file), NEW m \in 1 .. i - 1
    PROVE  Settled(table, file, m)
<1>1. PICK n \in Nat : n = Len(file) /\ DOMAIN file = 1 .. n
  BY LenProperties
<1>2. m \in 1 .. n /\ i \in 1 .. n /\ ~ (i <= m) /\ m # i
  BY <1>1
<1>3. SUFFICES ASSUME Pending(as, d, k, file, m) PROVE FALSE
  BY <1>1, <1>2 DEF GoesWell
<1>4. PICK r \in k + 1 .. Len(as) : r > d /\ as[r].id = file[m].id
  BY <1>3 DEF Pending, MovesItem
<1>5. d \in Nat /\ Len(as) \in Nat
  BY LenProperties DEF FollowsFile
<1>6. r \in d + 1 .. Len(as) /\ k + 1 <= r
  <2>1. PICK l \in Nat : l = Len(as)
    BY <1>5
  <2>2. r \in k + 1 .. l /\ k + 1 \in d + 1 .. l
    BY <1>4, <2>1
  <2>3. r \in d + 1 .. l /\ k + 1 <= r
    BY <1>5, <2>2
  <2>4. QED  BY <2>1, <2>3
<1>7. PICK i0 \in 1 .. n, m0 \in 1 .. n :
        /\ i0 <= m0
        /\ as[k + 1] \in ToSet(ActionsFor(planned, file[i0]))
        /\ as[r] \in ToSet(ActionsFor(planned, file[m0]))
  BY <1>1, <1>6 DEF FollowsFile
<1>8. \A j \in 1 .. n : file[j] \in Items
  BY <1>1, ElementOfSeq
<1>9. as[k + 1].id = file[i0].id /\ as[r].id = file[m0].id
  <2>1. ASSUME NEW item \in Items, NEW a \in ToSet(ActionsFor(planned, item))
        PROVE  a.id = item.id
    <3>1. a = Action(a.name, item.id, item.value, item.parent)
      BY ActionsOfItem
    <3>2. PICK name : name = a.name
      OBVIOUS
    <3>3. QED  BY <3>1, <3>2 DEF Action
  <2>2. QED  BY <1>7, <1>8, <2>1
<1>10. i0 = i /\ m0 = m
  BY <1>1, <1>2, <1>4, <1>7, <1>9 DEF IdsOnce
<1>11. QED  BY <1>2, <1>7, <1>10

\* The actions for an item.
LEMMA ChangesGoWell ==
    ASSUME NEW file \in Seq(Items), IdsOnce(file), ParentsFirst(file), NEW planned,
           NEW as \in Seq(Actions), NEW d, FollowsFile(as, d, planned, file),
           NEW k \in Nat, k + 1 \in d + 1 .. Len(as),
           NEW table, NEW last, KeysAreOld(table, last), GoesWell(table, as, d, k, file),
           NEW new \in Executed(table, last + 1, as[k + 1]), IsTable(new)
    PROVE  GoesWell(new, as, d, k + 1, file)
<1>1. PICK a : a = as[k + 1]
  OBVIOUS
<1>2. as[k + 1] = a /\ new \in Executed(table, last + 1, a)
  BY <1>1
<1>3. PICK pk : pk = last + 1
  OBVIOUS
<1>4. new \in Executed(table, pk, a)
  BY <1>2, <1>3
<1>5. PICK n \in Nat : n = Len(file) /\ DOMAIN file = 1 .. n
  BY LenProperties
<1>6. PICK i \in 1 .. n : a \in ToSet(ActionsFor(planned, file[i]))
  <2>1. k + 1 <= k + 1
    OBVIOUS
  <2>2. QED  BY <1>2, <1>5, <2>1 DEF FollowsFile
<1>7. file[i] \in Items
  BY <1>5, ElementOfSeq
<1>8. a = Action(a.name, file[i].id, file[i].value, file[i].parent)
      /\ Applies(planned, file[i], a.name)
  BY <1>6, <1>7, ActionsOfItem
<1>9. i \in 1 .. Len(file) /\ file \in Seq(Items)
  BY <1>5
<1>10. /\ a.id = file[i].id /\ a.value = file[i].value /\ a.parent = file[i].parent
       /\ a.name \in {"create", "update_parent", "rename", "without_changes"}
  BY <1>8 DEF Action, Applies
<1>11. d \in Nat /\ None \notin DOMAIN table
  BY KeysOfTables DEF FollowsFile
<1>12. CASE a.name = "without_changes"
  <2>1. new = table
    BY <1>12, <1>4, LeftByActions
  <2>2. ParentsStay(table, new)
    BY <2>1 DEF ParentsStay
  <2>3. as[k + 1].name # "update_parent"
    BY <1>2, <1>12
  <2>4. QED  BY <1>11, <2>2, <2>3, StayingGoesWell
<1>13. CASE a.name = "rename"
  <2>1. PICK t \in GetTag(table, a) : new = [table EXCEPT ![t].value = a.value]
    BY <1>13, <1>4, LeftByActions
  <2>2. t \in DOMAIN table
    BY DEF GetTag, ByExternalId, WithValue
  <2>3. ParentsStay(table, new)
    BY <2>1, <2>2, RenamedStay
  <2>4. as[k + 1].name # "update_parent"
    BY <1>2, <1>13
  <2>5. QED  BY <1>11, <2>3, <2>4, StayingGoesWell
<1>14. CASE a.name = "create"
  <2>1. PICK p \in ParentsOf(table, a) : new = Put(table, last + 1, Row(a.value, p, a.id))
    <3>1. \E p \in ParentsOf(table, a) : new = Put(table, pk, Row(a.value, p, a.id))
      BY <1>14, <1>4, LeftByActions
    <3>2. QED  BY <1>3, <3>1
  <2>2. EarlierParent(table, file, i, p)
    BY <1>5, <1>10, ParentsAreEarlier
  <2>3. IsHierarchy(new)
    <3>1. p \in DOMAIN table \cup {None}
      BY <2>2 DEF EarlierParent
    <3>2. QED  BY <2>1, <3>1, CreatedInHierarchy DEF GoesWell
  <2>4. ASSUME NEW m \in 1 .. Len(file)
        PROVE  Settled(new, file, m) \/ Pending(as, d, k + 1, file, m)
    <3>1. CASE Settled(table, file, m)
      <4>1. IsForItem(a, file, i)
        BY <1>10 DEF IsForItem
      <4>2. IsCreated(table, pk, a, p, new)
        BY <1>3, <2>1 DEF IsCreated
      <4>3. QED  BY <1>9, <1>3, <2>2, <3>1, <4>1, <4>2, CreatedSettled
    <3>2. CASE Pending(as, d, k, file, m)
      <4>1. ~MovesItem(as[k + 1], file, m)
        BY <1>2, <1>14 DEF MovesItem
      <4>2. QED  BY <1>11, <3>2, <4>1, PendingGoesOn
    <3>3. QED  BY <3>1, <3>2 DEF GoesWell
  <2>5. QED  BY <2>3, <2>4 DEF GoesWell
<1>15. CASE a.name = "update_parent"
  <2>1. PICK t \in GetTag(table, a), p \in ParentsOf(table, a) :
          new = [table EXCEPT ![t].parent = p]
    BY <1>15, <1>4, LeftByActions
  <2>2. EarlierParent(table, file, i, p)
    BY <1>5, <1>10, ParentsAreEarlier
  <2>3. IsHierarchy(new)
    <3>1. \A m \in 1 .. i - 1 : Settled(table, file, m)
      BY <1>2, <1>5, <1>10, EarlierAreSettled
    <3>2. i \in 1 .. Len(file) /\ IsHierarchy(table)
      BY <1>5 DEF GoesWell
    <3>3. QED  BY <1>10, <2>1, <2>2, <3>1, <3>2, MovedInHierarchy
  <2>4. ASSUME NEW m \in 1 .. Len(file)
        PROVE  Settled(new, file, m) \/ Pending(as, d, k + 1, file, m)
    <3>1. CASE m = i \/ Settled(table, file, m)
      <4>1. IsForItem(a, file, i)
        BY <1>10 DEF IsForItem
      <4>2. IsMoved(table, t, p, new)
        BY <2>1 DEF IsMoved
      <4>3. QED  BY <1>9, <2>2, <3>1, <4>1, <4>2, MovedSettled
    <3>2. CASE m # i /\ Pending(as, d, k, file, m)
      <4>1. ~MovesItem(as[k + 1], file, m)
        <5>1. m \in DOMAIN file /\ i \in DOMAIN file
          BY <1>5
        <5>2. QED  BY <1>2, <1>10, <3>2, <5>1 DEF IdsOnce, MovesItem
      <4>2. Pending(as, d, k, file, m) /\ as \in Seq(Actions) /\ d \in Nat /\ k \in Nat
        BY <1>11, <3>2
      <4>3. Pending(as, d, k + 1, file, m)
        BY <4>1, <4>2, PendingGoesOn, Zenon
      <4>4. QED  BY <4>3
    <3>3. QED  BY <3>1, <3>2 DEF GoesWell
  <2>5. QED  BY <2>3, <2>4 DEF GoesWell
<1>16. QED  BY <1>10, <1>12, <1>13, <1>14, <1>15

\* Before the first action: an item that does not move its tag finds it at the
\* top or under the tag of an earlier item.
LEMMA StartsWell ==
    ASSUME NEW table, IsFiniteTable(table), IsHierarchy(table),
           NEW file \in Seq(Items), ParentsFirst(file), ~LeavesUnderUnnamed(table, file),
           NEW as \in Seq(Actions), NEW d, FollowsFile(as, d, table, file)
    PROVE  GoesWell(table, as, d, 0, file)
<1>1. PICK n \in Nat : n = Len(file) /\ DOMAIN file = 1 .. n
  BY LenProperties
<1>2. d \in Nat /\ Len(as) \in Nat
  BY LenProperties DEF FollowsFile
<1>3. ASSUME NEW m \in 1 .. n, Moves(table, file[m])
      PROVE  Pending(as, d, 0, file, m)
  <2>1. file[m] \in Items
    BY <1>1, ElementOfSeq
  <2>2. PICK a : a = Action("update_parent", file[m].id, file[m].value, file[m].parent)
    OBVIOUS
  <2>3. a \in ToSet(ActionsFor(table, file[m]))
    BY <1>3, <2>1, <2>2, ActionsOfItem DEF Applies
  <2>4. PICK r \in d + 1 .. Len(as) : as[r] = a
    BY <1>1, <2>3 DEF FollowsFile
  <2>5. r \in 0 + 1 .. Len(as) /\ r > d
    <3>1. PICK l \in Nat : l = Len(as)
      BY <1>2
    <3>2. r \in d + 1 .. l
      BY <2>4, <3>1
    <3>3. r \in 0 + 1 .. l /\ r > d
      BY <1>2, <3>2
    <3>4. QED  BY <3>1, <3>3
  <2>6. a.name = "update_parent" /\ a.id = file[m].id
    BY <2>2 DEF Action
  <2>7. QED  BY <2>4, <2>5, <2>6 DEF Pending, MovesItem
<1>4. ASSUME NEW m \in 1 .. n, ~Moves(table, file[m])
      PROVE  Settled(table, file, m)
  <2> SUFFICES ASSUME NEW t \in ByExternalId(table, file[m].id), table[t].parent # None
               PROVE  \E j \in 1 .. m - 1 :
                        table[table[t].parent].externalId = file[j].id
    BY DEF Settled
  <2>1. ParentId(table, t) = file[m].parent
    BY <1>4 DEF Moves
  <2>2. ParentId(table, t) = table[table[t].parent].externalId
    BY DEF ParentId
  <2>3. file[m].parent # None
    BY <1>1, <2>1 DEF LeavesUnderUnnamed
  <2>4. PICK j \in 1 .. m - 1 : file[j].id = file[m].parent
    BY <1>1, <2>3 DEF ParentsFirst
  <2>5. QED  BY <2>1, <2>2, <2>4
<1>5. QED  BY <1>1, <1>3, <1>4 DEF GoesWell

\* An action of a plan that does not raise goes well.
LEMMA ActionGoesWell ==
    ASSUME NEW file \in Seq(Items), IdsOnce(file), ParentsFirst(file), NEW planned,
           NEW as \in Seq(Actions), NEW d, FollowsFile(as, d, planned, file),
           NEW k \in Nat, k + 1 \in 1 .. Len(as),
           NEW s, IsState(s), GoesWell(s.tags, as, d, k, file),
           NEW next, next = ExecuteAction(s, as[k + 1]), next.ok
    PROVE  GoesWell(next.tags, as, d, k + 1, file)
<1>1. PICK a, pk : a = as[k + 1] /\ pk = s.lastTag + 1
  OBVIOUS
<1>2. PICK new \in Executed(s.tags, pk, a) : IsTable(new) /\ next.tags = new
  <2>1. next = ExecuteAction(s, a)
    BY <1>1
  <2>2. CASE next = [tags |-> s.tags, lastTag |-> s.lastTag, ok |-> FALSE]
    BY <2>2
  <2>3. CASE next # [tags |-> s.tags, lastTag |-> s.lastTag, ok |-> FALSE]
    <3>1. PICK new \in Executed(s.tags, s.lastTag + 1, a) :
            /\ IsTable(new)
            /\ ExecuteAction(s, a) =
                 [tags |-> new, ok |-> TRUE,
                  lastTag |-> IF a.name = "create" THEN s.lastTag + 1 ELSE s.lastTag]
      BY <2>1, <2>3, ActionRaisesOrEnds
    <3>2. next.tags = new
      BY <2>1, <3>1
    <3>3. QED  BY <1>1, <3>1, <3>2
  <2>4. QED  BY <2>2, <2>3
<1>3. KeysAreOld(s.tags, s.lastTag) /\ d \in Nat
  BY DEF IsState, FollowsFile
<1>4. CASE k + 1 <= d
  <2>1. a \in Deletions
    <3>1. k + 1 \in 1 .. d
      BY <1>3, <1>4
    <3>2. as[k + 1] \in Deletions
      BY <3>1 DEF FollowsFile
    <3>3. QED  BY <1>1, <3>2
  <2>2. new \in Executed(s.tags, s.lastTag + 1, a)
    BY <1>1
  <2>3. GoesWell(new, as, d, k + 1, file)
    BY <1>2, <1>3, <1>4, <2>1, <2>2, DeletionsGoWell
  <2>4. QED  BY <1>2, <2>3
<1>5. CASE ~ (k + 1 <= d)
  <2>1. PICK l \in Nat : l = Len(as)
    BY LenProperties
  <2>2. k + 1 \in 1 .. l
    BY <2>1
  <2>3. k + 1 \in d + 1 .. l
    BY <1>3, <1>5, <2>2
  <2>4. k + 1 \in d + 1 .. Len(as)
    BY <2>1, <2>3
  <2>5. new \in Executed(s.tags, s.lastTag + 1, as[k + 1])
    BY <1>1
  <2>6. GoesWell(new, as, d, k + 1, file)
    BY <1>2, <1>3, <2>4, <2>5, ChangesGoWell
  <2>7. QED  BY <1>2, <2>6
<1>6. QED  BY <1>4, <1>5

\* The execution of a plan, for the tags it was made of.
LEMMA ExecutionsGoWell ==
    ASSUME NEW file \in Seq(Items), IdsOnce(file), ParentsFirst(file),
           NEW table, NEW last, KeysAreOld(table, last), IsFiniteTable(table),
           IsHierarchy(table), ~LeavesUnderUnnamed(table, file),
           NEW as \in Seq(Actions), NEW d, FollowsFile(as, d, table, file),
           NEW end, end = Execute(table, last, as), end.ok
    PROVE  IsHierarchy(end.tags)
<1>1. PICK n \in Nat : n = Len(as)
  BY LenProperties
<1>2. PICK f : IsExecution(f, n, table, last, as) /\ end = f[n]
  <2>1. PICK f : IsExecution(f, n, table, last, as) /\ Execute(table, last, as) = f[n]
    BY <1>1, ExecutionRuns, Zenon
  <2>2. QED  BY <2>1
<1>3. \A k \in 0 .. n : IsState(f[k])
  BY <1>2, RunsAreOfStates
<1> DEFINE S == {k \in 0 .. n : f[k].ok => GoesWell(f[k].tags, as, d, k, file)}
<1>4. 0 \in S
  <2>1. f[0].tags = table /\ 0 \in 0 .. n
    BY <1>2 DEF IsExecution, StartOf
  <2>2. GoesWell(table, as, d, 0, file)
    BY StartsWell
  <2>3. QED  BY <2>1, <2>2
<1>5. ASSUME NEW k \in 0 .. n - 1, k \in S PROVE k + 1 \in S
  <2>1. k \in Nat /\ k + 1 \in 1 .. n /\ (k + 1) - 1 = k /\ k + 1 \in 0 .. n /\ k \in 0 .. n
    OBVIOUS
  <2>2. f[k + 1] = ExecuteAction(f[k], as[k + 1])
    BY <1>2, <2>1 DEF IsExecution
  <2>3. ASSUME f[k + 1].ok PROVE GoesWell(f[k + 1].tags, as, d, k + 1, file)
    <3>1. PICK s, next : s = f[k] /\ next = f[k + 1]
      OBVIOUS
    <3>2. IsState(s) /\ next = ExecuteAction(s, as[k + 1]) /\ next.ok
      BY <1>3, <2>1, <2>2, <2>3, <3>1
    <3>3. s.ok
      <4>1. PICK a : a = as[k + 1]
        OBVIOUS
      <4>2. next = ExecuteAction(s, a)
        BY <3>2, <4>1
      <4>3. ASSUME next = [tags |-> s.tags, lastTag |-> s.lastTag, ok |-> FALSE]
            PROVE  FALSE
        <5>1. next.ok = FALSE
          BY <4>3
        <5>2. next.ok
          BY <3>2
        <5>3. QED  BY <5>1, <5>2
      <4>4. QED  BY <3>2, <4>2, <4>3, ActionRaisesOrEnds
    <3>4. GoesWell(s.tags, as, d, k, file)
      BY <1>5, <3>1, <3>3
    <3>5. k + 1 \in 1 .. Len(as)
      BY <1>1, <2>1
    <3>6. GoesWell(next.tags, as, d, k + 1, file)
      BY <2>1, <3>2, <3>4, <3>5, ActionGoesWell
    <3>7. QED  BY <3>1, <3>6
  <2>4. QED  BY <2>1, <2>3
<1> HIDE DEF S
<1>6. \A k \in 0 .. n : k \in S
  BY <1>4, <1>5, UpTo
<1>7. f[n].ok => GoesWell(f[n].tags, as, d, n, file)
  <2>1. n \in S
    BY <1>6
  <2>2. QED  BY <2>1 DEF S
<1>8. QED  BY <1>2, <1>7 DEF GoesWell

(***************************************************************************)
(* What the actions for an item do                                         *)
(***************************************************************************)
ChangeOf(item, name) == Action(name, item.id, item.value, item.parent)
ChangeNames == {"create", "update_parent", "rename", "without_changes"}

\* They keep external ids, change the tags with the item's at most, and give
\* it to those they create.
OnlyChanges(item, now, new) ==
    /\ \A t \in DOMAIN now : /\ t \in DOMAIN new /\ new[t].externalId = now[t].externalId
                             /\ now[t].externalId # item.id => new[t] = now[t]
    /\ \A t \in DOMAIN new : t \notin DOMAIN now => new[t].externalId = item.id

\* The value and the parent are those of the item, after the actions that give
\* them to its tag, and what they were, after the others.
GivesItem(item, name, now, new) ==
    /\ IF name = "create" THEN ByExternalId(new, item.id) # {} ELSE DOMAIN new = DOMAIN now
    /\ \A t \in ByExternalId(new, item.id) :
         /\ IF name \in {"create", "rename"} THEN new[t].value = item.value
            ELSE new[t].value = now[t].value
         /\ IF name \in {"create", "update_parent"} THEN ParentId(new, t) = item.parent
            ELSE new[t].parent = now[t].parent

\* parsers.py lets no item through without an id.
LEMMA ItemsHaveIds ==
    ASSUME NEW item \in Items
    PROVE  item.id \in ExternalIds /\ item.id # None
  BY NullAssumption DEF Items

\* The tag of the item is the only one with its id.
LEMMA OnlyTagOfItem ==
    ASSUME NEW item \in Items, NEW new, IsTable(new), NEW t \in ByExternalId(new, item.id),
           NEW u \in ByExternalId(new, item.id)
    PROVE  u = t
<1>1. item.id # None
  BY ItemsHaveIds
<1>2. t \in DOMAIN new /\ u \in DOMAIN new
      /\ new[t].externalId = item.id /\ new[u].externalId = item.id
  BY DEF ByExternalId
<1>3. QED  BY <1>1, <1>2 DEF IsTable

\* _get_tag finds the tag with the id of the item, if there is one.
LEMMA GotTagOfItem ==
    ASSUME NEW item \in Items, NEW now, ByExternalId(now, item.id) # {},
           NEW a, a.id = item.id, NEW t \in GetTag(now, a)
    PROVE  t \in ByExternalId(now, item.id) /\ t \in DOMAIN now /\ now[t].externalId = item.id
<1>1. item.id # None
  BY ItemsHaveIds
<1>2. PICK found : found = ByExternalId(now, item.id)
  OBVIOUS
<1>3. t \in found
  BY <1>1, <1>2 DEF GetTag
<1>4. QED  BY <1>2, <1>3 DEF ByExternalId

\* The parent of a tag that gets the one the item names.
LEMMA ParentOfItem ==
    ASSUME NEW item \in Items, NEW now, DOMAIN now \subseteq Nat,
           NEW a, a.parent = item.parent, NEW p \in ParentsOf(now, a),
           NEW new, NEW t, new[t].parent = p,
           \A u \in DOMAIN now : new[u].externalId = now[u].externalId
    PROVE  ParentId(new, t) = item.parent
<1>1. CASE item.parent = None
  <2>1. p = None
    BY <1>1 DEF ParentsOf
  <2>2. QED  BY <1>1, <2>1 DEF ParentId
<1>2. CASE item.parent # None
  <2>1. p \in DOMAIN now /\ now[p].externalId = item.parent
    BY <1>2 DEF ParentsOf, ByExternalId
  <2>2. p # None
    BY <2>1, NullAssumption
  <2>3. ParentId(new, t) = new[p].externalId
    BY <2>2 DEF ParentId
  <2>4. QED  BY <2>1, <2>3
<1>3. QED  BY <1>1, <1>2

\* Each of the actions.
LEMMA CreationOfItem ==
    ASSUME NEW item \in Items, NEW now, NEW new, NEW a, IsDone(now, a, new),
           a = ChangeOf(item, "create")
    PROVE  OnlyChanges(item, now, new) /\ GivesItem(item, "create", now, new)
<1>1. a.name = "create" /\ a.id = item.id /\ a.value = item.value /\ a.parent = item.parent
  BY DEF ChangeOf, Action
<1>2. PICK pk \in Nat : pk \notin DOMAIN now /\ new \in Executed(now, pk, a)
  BY DEF IsDone
<1>3. PICK p \in ParentsOf(now, a) : new = Put(now, pk, Row(a.value, p, a.id))
  BY <1>1, <1>2, LeftByActions
<1>4. /\ DOMAIN new = DOMAIN now \cup {pk}
      /\ \A t \in DOMAIN now : new[t] = now[t]
      /\ new[pk] = Row(item.value, p, item.id)
  BY <1>1, <1>2, <1>3 DEF Put
<1>5. new[pk].value = item.value /\ new[pk].parent = p /\ new[pk].externalId = item.id
  BY <1>4 DEF Row
<1>6. OnlyChanges(item, now, new)
  BY <1>4, <1>5 DEF OnlyChanges
<1>7. pk \in ByExternalId(new, item.id)
  BY <1>4, <1>5 DEF ByExternalId
<1>8. \A t \in ByExternalId(new, item.id) : t = pk
  BY <1>7, OnlyTagOfItem DEF IsDone
<1>9. ParentId(new, pk) = item.parent
  <2>1. DOMAIN now \subseteq Nat
    BY DEF IsDone
  <2>2. QED  BY <1>1, <1>4, <1>5, <2>1, ParentOfItem
<1>10. QED  BY <1>5, <1>6, <1>7, <1>8, <1>9 DEF GivesItem

LEMMA MoveOfItem ==
    ASSUME NEW item \in Items, NEW now, NEW new, NEW a, IsDone(now, a, new),
           a = ChangeOf(item, "update_parent"), ByExternalId(now, item.id) # {}
    PROVE  OnlyChanges(item, now, new) /\ GivesItem(item, "update_parent", now, new)
<1>1. a.name = "update_parent" /\ a.id = item.id /\ a.parent = item.parent
  BY DEF ChangeOf, Action
<1>2. PICK pk \in Nat : new \in Executed(now, pk, a)
  BY DEF IsDone
<1>3. PICK t \in GetTag(now, a), p \in ParentsOf(now, a) : new = [now EXCEPT ![t].parent = p]
  BY <1>1, <1>2, LeftByActions
<1>4. t \in DOMAIN now /\ now[t].externalId = item.id
  BY <1>1, GotTagOfItem
<1>5. now[t] \in Rows
  BY <1>4 DEF IsDone, IsTable
<1>6. /\ DOMAIN new = DOMAIN now
      /\ \A u \in DOMAIN now : u # t => new[u] = now[u]
      /\ new[t] = [now[t] EXCEPT !.parent = p]
  BY <1>3, <1>4
<1>7. new[t] = Row(now[t].value, p, now[t].externalId)
  BY <1>5, <1>6, RowsOfTables
<1>8. /\ new[t].value = now[t].value /\ new[t].parent = p
      /\ new[t].externalId = now[t].externalId
  BY <1>7 DEF Row
<1>9. OnlyChanges(item, now, new)
  BY <1>4, <1>6, <1>8 DEF OnlyChanges
<1>10. t \in ByExternalId(new, item.id)
  BY <1>4, <1>6, <1>8 DEF ByExternalId
<1>11. \A u \in ByExternalId(new, item.id) : u = t
  BY <1>10, OnlyTagOfItem DEF IsDone
<1>12. ParentId(new, t) = item.parent
  <2>1. DOMAIN now \subseteq Nat
    BY DEF IsDone
  <2>2. \A u \in DOMAIN now : new[u].externalId = now[u].externalId
    BY <1>6, <1>8
  <2>3. QED  BY <1>1, <1>8, <2>1, <2>2, ParentOfItem
<1>13. QED  BY <1>6, <1>8, <1>9, <1>11, <1>12 DEF GivesItem

LEMMA RenamingOfItem ==
    ASSUME NEW item \in Items, NEW now, NEW new, NEW a, IsDone(now, a, new),
           a = ChangeOf(item, "rename"), ByExternalId(now, item.id) # {}
    PROVE  OnlyChanges(item, now, new) /\ GivesItem(item, "rename", now, new)
<1>1. a.name = "rename" /\ a.id = item.id /\ a.value = item.value
  BY DEF ChangeOf, Action
<1>2. PICK pk \in Nat : new \in Executed(now, pk, a)
  BY DEF IsDone
<1>3. PICK t \in GetTag(now, a) : new = [now EXCEPT ![t].value = item.value]
  BY <1>1, <1>2, LeftByActions
<1>4. t \in DOMAIN now /\ now[t].externalId = item.id
  BY <1>1, GotTagOfItem
<1>5. now[t] \in Rows
  BY <1>4 DEF IsDone, IsTable
<1>6. /\ DOMAIN new = DOMAIN now
      /\ \A u \in DOMAIN now : u # t => new[u] = now[u]
      /\ new[t] = [now[t] EXCEPT !.value = item.value]
  BY <1>3, <1>4
<1>7. new[t] = Row(item.value, now[t].parent, now[t].externalId)
  BY <1>5, <1>6, RowsOfTables
<1>8. /\ new[t].value = item.value /\ new[t].parent = now[t].parent
      /\ new[t].externalId = now[t].externalId
  BY <1>7 DEF Row
<1>9. OnlyChanges(item, now, new)
  BY <1>4, <1>6, <1>8 DEF OnlyChanges
<1>10. t \in ByExternalId(new, item.id)
  BY <1>4, <1>6, <1>8 DEF ByExternalId
<1>11. \A u \in ByExternalId(new, item.id) : u = t
  BY <1>10, OnlyTagOfItem DEF IsDone
<1>12. QED  BY <1>6, <1>8, <1>9, <1>11 DEF GivesItem

\* Any of them.
LEMMA StepOfChanges ==
    ASSUME NEW item \in Items, NEW now, NEW new, NEW a, IsDone(now, a, new),
           NEW name \in ChangeNames, a = ChangeOf(item, name),
           name \in {"update_parent", "rename"} => ByExternalId(now, item.id) # {}
    PROVE  OnlyChanges(item, now, new) /\ GivesItem(item, name, now, new)
<1>1. CASE name = "create"
  BY <1>1, CreationOfItem
<1>2. CASE name = "update_parent"
  BY <1>2, MoveOfItem
<1>3. CASE name = "rename"
  BY <1>3, RenamingOfItem
<1>4. CASE name = "without_changes"
  <2>1. a.name = "without_changes"
    BY <1>4 DEF ChangeOf, Action
  <2>2. PICK pk \in Nat : new \in Executed(now, pk, a)
    BY DEF IsDone
  <2>3. new = now
    BY <2>1, <2>2, LeftByActions
  <2>4. QED  BY <1>4, <2>3 DEF OnlyChanges, GivesItem, ByExternalId
<1>5. QED  BY <1>1, <1>2, <1>3, <1>4 DEF ChangeNames

(***************************************************************************)
(* The items of a file, while its plan is executed                         *)
(***************************************************************************)
\* The action is still to come after k actions.
Waits(as, k, a) == \E r \in k + 1 .. Len(as) : as[r] = a

\* The tag has the parent the item names, or none if nothing has that id and
\* the file gives it to nothing.
ParentHolds(now, t, item, ids) ==
    \/ ParentId(now, t) = item.parent
    \/ now[t].parent = None /\ item.parent \notin ids /\ ByExternalId(now, item.parent) = {}

\* The item has a tag, with its value and its parent, or waits for the actions
\* that make it so.
IsUnderway(as, k, now, item, ids) ==
    /\ ByExternalId(now, item.id) # {} \/ Waits(as, k, ChangeOf(item, "create"))
    /\ \A t \in ByExternalId(now, item.id) :
         /\ now[t].value = item.value \/ Waits(as, k, ChangeOf(item, "rename"))
         /\ ParentHolds(now, t, item, ids) \/ Waits(as, k, ChangeOf(item, "update_parent"))

\* What waits, and is not executed now, goes on to wait.
LEMMA WaitsOn ==
    ASSUME NEW as \in Seq(Actions), NEW k \in Nat, NEW a, Waits(as, k, a), as[k + 1] # a
    PROVE  Waits(as, k + 1, a)
<1>1. PICK l \in Nat : l = Len(as)
  BY LenProperties
<1>2. PICK r \in k + 1 .. l : as[r] = a
  BY <1>1 DEF Waits
<1>3. r # k + 1
  BY <1>2
<1>4. r \in (k + 1) + 1 .. l
  BY <1>3
<1>5. QED  BY <1>1, <1>2, <1>4 DEF Waits

\* A parent holds on, if it is not the one that changes.
LEMMA ParentHoldsOn ==
    ASSUME NEW now, IsTable(now), DOMAIN now \subseteq Nat, NEW t \in DOMAIN now,
           NEW item, NEW ids, ParentHolds(now, t, item, ids),
           NEW other, other.id \in ids, NEW new, OnlyChanges(other, now, new),
           new[t].parent = now[t].parent
    PROVE  ParentHolds(new, t, item, ids)
<1>1. now[t].parent \in DOMAIN now \cup {None}
  BY DEF IsTable
<1>2. \A u \in DOMAIN now : u \in DOMAIN new /\ new[u].externalId = now[u].externalId
  BY DEF OnlyChanges
<1>3. ParentId(new, t) = ParentId(now, t)
  BY <1>1, <1>2 DEF ParentId
<1>4. CASE ParentId(now, t) = item.parent
  BY <1>3, <1>4 DEF ParentHolds
<1>5. CASE now[t].parent = None /\ item.parent \notin ids
             /\ ByExternalId(now, item.parent) = {}
  <2>1. ASSUME NEW u \in ByExternalId(new, item.parent) PROVE FALSE
    <3>1. u \in DOMAIN new /\ new[u].externalId = item.parent
      BY <2>1 DEF ByExternalId
    <3>2. CASE u \in DOMAIN now
      BY <1>2, <1>5, <3>1, <3>2 DEF ByExternalId
    <3>3. CASE u \notin DOMAIN now
      BY <1>5, <3>1, <3>3 DEF OnlyChanges
    <3>4. QED  BY <3>2, <3>3
  <2>2. QED  BY <1>5, <2>1 DEF ParentHolds
<1>6. QED  BY <1>4, <1>5 DEF ParentHolds

\* An action for the item.
LEMMA OwnStepGoesOn ==
    ASSUME NEW as \in Seq(Actions), NEW k \in Nat, NEW item \in Items, NEW ids, item.id \in ids,
           NEW now, NEW new, IsDone(now, as[k + 1], new),
           NEW name \in ChangeNames, as[k + 1] = ChangeOf(item, name),
           OnlyChanges(item, now, new), GivesItem(item, name, now, new),
           IsUnderway(as, k, now, item, ids)
    PROVE  IsUnderway(as, k + 1, new, item, ids)
<1>1. IsTable(now) /\ DOMAIN now \subseteq Nat
  BY DEF IsDone
<1>2. ASSUME NEW other \in ChangeNames, other # name, Waits(as, k, ChangeOf(item, other))
      PROVE  Waits(as, k + 1, ChangeOf(item, other))
  <2>1. ChangeOf(item, other) # ChangeOf(item, name)
    <3>1. ChangeOf(item, other).name = other /\ ChangeOf(item, name).name = name
      BY DEF ChangeOf, Action
    <3>2. QED  BY <1>2, <3>1
  <2>2. PICK a : a = ChangeOf(item, other)
    OBVIOUS
  <2>3. Waits(as, k, a) /\ as[k + 1] # a
    BY <1>2, <2>1, <2>2
  <2>4. QED  BY <2>2, <2>3, WaitsOn
<1>3. ByExternalId(new, item.id) # {} \/ Waits(as, k + 1, ChangeOf(item, "create"))
  <2>1. CASE name = "create"
    BY <2>1 DEF GivesItem
  <2>2. CASE name # "create" /\ ByExternalId(now, item.id) # {}
    BY <2>2 DEF OnlyChanges, ByExternalId
  <2>3. CASE name # "create" /\ Waits(as, k, ChangeOf(item, "create"))
    BY <1>2, <2>3 DEF ChangeNames
  <2>4. QED  BY <2>1, <2>2, <2>3 DEF IsUnderway
<1>4. ASSUME NEW t \in ByExternalId(new, item.id)
      PROVE  /\ new[t].value = item.value \/ Waits(as, k + 1, ChangeOf(item, "rename"))
             /\ \/ ParentHolds(new, t, item, ids)
                \/ Waits(as, k + 1, ChangeOf(item, "update_parent"))
  <2>1. CASE name = "create"
    <3>1. new[t].value = item.value /\ ParentId(new, t) = item.parent
      BY <2>1 DEF GivesItem
    <3>2. QED  BY <3>1 DEF ParentHolds
  <2>2. CASE name # "create"
    <3>1. t \in DOMAIN now /\ t \in ByExternalId(now, item.id)
      <4>1. t \in DOMAIN now /\ new[t].externalId = item.id
        BY <2>2 DEF GivesItem, ByExternalId
      <4>2. QED  BY <4>1 DEF OnlyChanges, ByExternalId
    <3>2. /\ now[t].value = item.value \/ Waits(as, k, ChangeOf(item, "rename"))
          /\ \/ ParentHolds(now, t, item, ids)
             \/ Waits(as, k, ChangeOf(item, "update_parent"))
      BY <3>1 DEF IsUnderway
    <3>3. new[t].value = item.value \/ Waits(as, k + 1, ChangeOf(item, "rename"))
      <4>1. CASE name = "rename"
        BY <4>1 DEF GivesItem
      <4>2. CASE name # "rename"
        <5>1. new[t].value = now[t].value
          BY <2>2, <4>2 DEF GivesItem
        <5>2. QED  BY <1>2, <3>2, <4>2, <5>1 DEF ChangeNames
      <4>3. QED  BY <4>1, <4>2
    <3>4. \/ ParentHolds(new, t, item, ids)
          \/ Waits(as, k + 1, ChangeOf(item, "update_parent"))
      <4>1. CASE name = "update_parent"
        <5>1. ParentId(new, t) = item.parent
          BY <4>1 DEF GivesItem
        <5>2. QED  BY <5>1 DEF ParentHolds
      <4>2. CASE name # "update_parent"
        <5>1. new[t].parent = now[t].parent
          BY <2>2, <4>2 DEF GivesItem
        <5>2. ParentHolds(now, t, item, ids) => ParentHolds(new, t, item, ids)
          BY <1>1, <3>1, <5>1, ParentHoldsOn
        <5>3. QED  BY <1>2, <3>2, <4>2, <5>2 DEF ChangeNames
      <4>3. QED  BY <4>1, <4>2
    <3>5. QED  BY <3>3, <3>4
  <2>3. QED  BY <2>1, <2>2
<1>5. QED  BY <1>3, <1>4 DEF IsUnderway

\* An action for another one.
LEMMA OtherStepGoesOn ==
    ASSUME NEW as \in Seq(Actions), NEW k \in Nat, NEW item \in Items, NEW ids,
           NEW now, NEW new, IsDone(now, as[k + 1], new),
           NEW other \in Items, other.id \in ids, other.id # item.id,
           NEW name \in ChangeNames, as[k + 1] = ChangeOf(other, name),
           OnlyChanges(other, now, new),
           IsUnderway(as, k, now, item, ids)
    PROVE  IsUnderway(as, k + 1, new, item, ids)
<1>1. IsTable(now) /\ DOMAIN now \subseteq Nat
  BY DEF IsDone
<1>2. ASSUME NEW n, Waits(as, k, ChangeOf(item, n)) PROVE Waits(as, k + 1, ChangeOf(item, n))
  <2>1. ChangeOf(item, n) # ChangeOf(other, name)
    <3>1. ChangeOf(item, n).id = item.id /\ ChangeOf(other, name).id = other.id
      BY DEF ChangeOf, Action
    <3>2. QED  BY <3>1
  <2>2. PICK a : a = ChangeOf(item, n)
    OBVIOUS
  <2>3. Waits(as, k, a) /\ as[k + 1] # a
    BY <1>2, <2>1, <2>2
  <2>4. QED  BY <2>2, <2>3, WaitsOn
<1>3. ByExternalId(now, item.id) = ByExternalId(new, item.id)
  BY DEF OnlyChanges, ByExternalId
<1>4. ASSUME NEW t \in ByExternalId(new, item.id)
      PROVE  /\ new[t].value = item.value \/ Waits(as, k + 1, ChangeOf(item, "rename"))
             /\ \/ ParentHolds(new, t, item, ids)
                \/ Waits(as, k + 1, ChangeOf(item, "update_parent"))
  <2>1. t \in DOMAIN now /\ now[t].externalId = item.id
    BY <1>3 DEF ByExternalId
  <2>2. new[t] = now[t]
    BY <2>1 DEF OnlyChanges
  <2>3. ParentHolds(now, t, item, ids) => ParentHolds(new, t, item, ids)
    BY <1>1, <2>1, <2>2, ParentHoldsOn
  <2>4. /\ now[t].value = item.value \/ Waits(as, k, ChangeOf(item, "rename"))
        /\ \/ ParentHolds(now, t, item, ids)
           \/ Waits(as, k, ChangeOf(item, "update_parent"))
    BY <1>3 DEF IsUnderway
  <2>5. QED  BY <1>2, <2>2, <2>3, <2>4
<1>5. ByExternalId(new, item.id) # {} \/ Waits(as, k + 1, ChangeOf(item, "create"))
  BY <1>2, <1>3 DEF IsUnderway
<1>6. QED  BY <1>4, <1>5 DEF IsUnderway

\* Tags stay, and those the file does not name stay as they are; the new ones
\* have ids of the file.
Keeps(first, now, ids) ==
    /\ \A t \in DOMAIN first : /\ t \in DOMAIN now
                               /\ now[t].externalId = first[t].externalId
                               /\ first[t].externalId \notin ids => now[t] = first[t]
    /\ \A t \in DOMAIN now : t \notin DOMAIN first => now[t].externalId \in ids

\* Any action for an item of the file does.
LEMMA KeepsOn ==
    ASSUME NEW first, NEW now, NEW new, NEW ids, Keeps(first, now, ids),
           NEW item, item.id \in ids, OnlyChanges(item, now, new)
    PROVE  Keeps(first, new, ids)
<1>1. ASSUME NEW t \in DOMAIN first
      PROVE  /\ t \in DOMAIN new
             /\ new[t].externalId = first[t].externalId
             /\ first[t].externalId \notin ids => new[t] = first[t]
  BY DEF Keeps, OnlyChanges
<1>2. ASSUME NEW t \in DOMAIN new, t \notin DOMAIN first PROVE new[t].externalId \in ids
  <2>1. CASE t \in DOMAIN now
    BY <1>2, <2>1 DEF Keeps, OnlyChanges
  <2>2. CASE t \notin DOMAIN now
    BY <1>2, <2>2 DEF OnlyChanges
  <2>3. QED  BY <2>1, <2>2
<1>3. QED  BY <1>1, <1>2 DEF Keeps

\* The actions for the items of a file.
IsChange(table, file, a) ==
    \E i \in 1 .. Len(file), name \in ChangeNames :
        a = ChangeOf(file[i], name) /\ Applies(table, file[i], name)

AllWait(table, item, as, k) ==
    \A name \in ChangeNames : Applies(table, item, name) => Waits(as, k, ChangeOf(item, name))

IsLength(n, as) == n = Len(as)

\* After the deletions of a plan come the actions that apply for its items.
LEMMA ChangesOfPlans ==
    ASSUME NEW table, NEW file \in Seq(Items), NEW as, NEW d, FollowsFile(as, d, table, file),
           NEW n \in Nat, IsLength(n, as)
    PROVE  /\ d \in 0 .. n
           /\ \A k \in d .. n - 1 : IsChange(table, file, as[k + 1])
           /\ \A i \in 1 .. Len(file) : AllWait(table, file[i], as, d)
<1>1. d \in Nat /\ d <= n
  BY DEF FollowsFile, IsLength
<1>2. \A i \in 1 .. Len(file) : file[i] \in Items
  BY ElementOfSeq
<1>3. ASSUME NEW k \in d .. n - 1 PROVE IsChange(table, file, as[k + 1])
  <2>1. PICK r : r = k + 1
    OBVIOUS
  <2>2. r \in d + 1 .. n /\ r <= r
    BY <1>1, <2>1
  <2>3. PICK i \in 1 .. Len(file) : as[r] \in ToSet(ActionsFor(table, file[i]))
    BY <2>2 DEF FollowsFile, IsLength
  <2>4. PICK item \in Items : item = file[i]
    BY <1>2
  <2>5. PICK a : a = as[r]
    OBVIOUS
  <2>6. a = Action(a.name, item.id, item.value, item.parent) /\ Applies(table, item, a.name)
    BY <2>3, <2>4, <2>5, ActionsOfItem
  <2>7. PICK name : name = a.name
    OBVIOUS
  <2>8. name \in ChangeNames /\ a = ChangeOf(item, name) /\ Applies(table, item, name)
    BY <2>6, <2>7 DEF ChangeNames, Applies, ChangeOf
  <2>9. QED  BY <2>1, <2>4, <2>5, <2>8 DEF IsChange
<1>4. ASSUME NEW i \in 1 .. Len(file), NEW name \in ChangeNames, Applies(table, file[i], name)
      PROVE  Waits(as, d, ChangeOf(file[i], name))
  <2>1. PICK item \in Items : item = file[i]
    BY <1>2
  <2>2. ChangeOf(item, name) \in ToSet(ActionsFor(table, item))
    BY <1>4, <2>1, ActionsOfItem DEF ChangeOf
  <2>3. \E r \in d + 1 .. Len(as) : as[r] = ChangeOf(item, name)
    BY <2>1, <2>2 DEF FollowsFile
  <2>4. QED  BY <2>1, <2>3 DEF Waits
<1>5. \A i \in 1 .. Len(file) : AllWait(table, file[i], as, d)
  BY <1>4, Zenon DEF AllWait
<1>6. d \in 0 .. n
  BY <1>1
<1>7. QED  BY <1>3, <1>5, <1>6

\* What holds of an item once the deletions are done, that take no tag with an
\* id of the file.
Spares(table, gone, ids) == \A t \in gone : table[t].externalId \notin ids

LEMMA ItemsStart ==
    ASSUME NEW table, IsTable(table), NEW gone, gone \subseteq DOMAIN table,
           NEW ids, Spares(table, gone, ids), NEW item \in Items, item.id \in ids,
           NEW now, IsTable(now), None \notin DOMAIN table,
           IsLess(table, gone, now), DOMAIN now = DOMAIN table \ gone,
           NEW as, NEW k, AllWait(table, item, as, k)
    PROVE  IsUnderway(as, k, now, item, ids)
<1>1. /\ \A t \in DOMAIN now : /\ t \in DOMAIN table
                               /\ now[t].value = table[t].value
                               /\ now[t].externalId = table[t].externalId
      /\ \A t \in DOMAIN now : \/ now[t].parent = table[t].parent
                               \/ now[t].parent = None /\ table[t].parent \in gone
  BY DEF IsLess, SameTags
<1>2. ByExternalId(now, item.id) = ByExternalId(table, item.id)
  BY <1>1 DEF ByExternalId, Spares
<1>3. /\ ByExternalId(table, item.id) = {} => Waits(as, k, ChangeOf(item, "create"))
      /\ Renames(table, item) => Waits(as, k, ChangeOf(item, "rename"))
      /\ Moves(table, item) => Waits(as, k, ChangeOf(item, "update_parent"))
  BY DEF AllWait, Applies, ChangeNames
<1>4. ASSUME NEW t \in ByExternalId(now, item.id)
      PROVE  /\ now[t].value = item.value \/ Waits(as, k, ChangeOf(item, "rename"))
             /\ \/ ParentHolds(now, t, item, ids)
                \/ Waits(as, k, ChangeOf(item, "update_parent"))
  <2>1. t \in ByExternalId(table, item.id) /\ t \in DOMAIN now /\ t \in DOMAIN table
    BY <1>1, <1>2, <1>4 DEF ByExternalId
  <2>2. now[t].value = item.value \/ Waits(as, k, ChangeOf(item, "rename"))
    <3>1. CASE now[t].value = item.value
      BY <3>1
    <3>2. CASE now[t].value # item.value
      <4>1. table[t].value # item.value
        BY <1>1, <2>1, <3>2
      <4>2. Renames(table, item)
        BY <2>1, <4>1 DEF Renames
      <4>3. QED  BY <1>3, <4>2
    <3>3. QED  BY <3>1, <3>2
  <2>3. ParentId(table, t) = item.parent \/ Waits(as, k, ChangeOf(item, "update_parent"))
    BY <1>3, <2>1 DEF Moves
  <2>4. ASSUME ParentId(table, t) = item.parent PROVE ParentHolds(now, t, item, ids)
    <3>1. CASE now[t].parent = table[t].parent
      <4>1. now[t].parent \in DOMAIN now \cup {None}
        BY <2>1 DEF IsTable
      <4>2. ParentId(now, t) = ParentId(table, t)
        BY <1>1, <3>1, <4>1 DEF ParentId
      <4>3. QED  BY <2>4, <4>2 DEF ParentHolds
    <3>2. CASE now[t].parent = None /\ table[t].parent \in gone
      <4>1. PICK p : p = table[t].parent
        OBVIOUS
      <4>2. p \in gone /\ p \in DOMAIN table /\ p # None
        BY <3>2, <4>1
      <4>3. item.parent = table[p].externalId
        BY <2>4, <4>1, <4>2 DEF ParentId
      <4>4. CASE item.parent = None
        <5>1. ParentId(now, t) = None
          BY <3>2 DEF ParentId
        <5>2. QED  BY <4>4, <5>1 DEF ParentHolds
      <4>5. CASE item.parent # None
        <5>1. item.parent \notin ids
          BY <4>2, <4>3 DEF Spares
        <5>2. \A u \in DOMAIN table : table[u].externalId = item.parent => u = p
          BY <4>2, <4>3, <4>5 DEF IsTable
        <5>3. ByExternalId(now, item.parent) = {}
          BY <1>1, <4>2, <5>2 DEF ByExternalId
        <5>4. QED  BY <3>2, <5>1, <5>3 DEF ParentHolds
      <4>6. QED  BY <4>4, <4>5
    <3>3. QED  BY <1>1, <2>1, <3>1, <3>2
  <2>5. QED  BY <2>2, <2>3, <2>4
<1>5. QED  BY <1>2, <1>3, <1>4 DEF IsUnderway

\* No other item has the same id.
IsAlone(file, i) == \A j \in 1 .. Len(file) : file[j].id = file[i].id => j = i

\* The tags the file names are there from the first table on.
HasTagsOf(table, first, ids) ==
    \A t \in DOMAIN table : table[t].externalId \in ids =>
        t \in DOMAIN first /\ first[t].externalId = table[t].externalId

AreUnderway(first, now, file, as, k) ==
    /\ Keeps(first, now, IdsOf(file))
    /\ \A i \in 1 .. Len(file) : IsAlone(file, i) => IsUnderway(as, k, now, file[i], IdsOf(file))

\* An action for an item brings it on, and leaves the others where they were.
LEMMA ItemsGoOn ==
    ASSUME NEW table, NEW file \in Seq(Items), NEW as \in Seq(Actions), NEW k \in Nat,
           NEW first, HasTagsOf(table, first, IdsOf(file)),
           NEW now, NEW new, IsDone(now, as[k + 1], new), IsChange(table, file, as[k + 1]),
           AreUnderway(first, now, file, as, k)
    PROVE  AreUnderway(first, new, file, as, k + 1)
<1>1. PICK ids : ids = IdsOf(file)
  OBVIOUS
<1>2. \A i \in 1 .. Len(file) : file[i] \in Items /\ file[i].id \in ids
  <2>1. DOMAIN file = 1 .. Len(file)
    BY LenProperties
  <2>2. QED  BY <1>1, <2>1, ElementOfSeq DEF IdsOf
<1>3. PICK j \in 1 .. Len(file), name \in ChangeNames :
        as[k + 1] = ChangeOf(file[j], name) /\ Applies(table, file[j], name)
  BY DEF IsChange
<1>4. PICK other \in Items : other = file[j] /\ other.id \in ids
  BY <1>2
<1>5. Keeps(first, now, ids)
  BY <1>1 DEF AreUnderway
<1>6. ASSUME name \in {"update_parent", "rename"} PROVE ByExternalId(now, other.id) # {}
  <2>1. PICK t \in ByExternalId(table, other.id) : TRUE
    BY <1>3, <1>4, <1>6 DEF Applies, Moves, Renames
  <2>2. t \in DOMAIN first /\ first[t].externalId = other.id
    BY <1>1, <1>4, <2>1 DEF HasTagsOf, ByExternalId
  <2>3. t \in ByExternalId(now, other.id)
    BY <1>5, <2>2 DEF Keeps, ByExternalId
  <2>4. QED  BY <2>3
<1>7. PICK a : a = as[k + 1]
  OBVIOUS
<1>8. IsDone(now, a, new) /\ a = ChangeOf(other, name)
  BY <1>3, <1>4, <1>7
<1>9. OnlyChanges(other, now, new) /\ GivesItem(other, name, now, new)
  BY <1>6, <1>8, StepOfChanges
<1>10. Keeps(first, new, ids)
  BY <1>4, <1>5, <1>9, KeepsOn
<1>11. ASSUME NEW i \in 1 .. Len(file), IsAlone(file, i)
       PROVE  IsUnderway(as, k + 1, new, file[i], ids)
  <2>1. PICK item \in Items : item = file[i] /\ item.id \in ids
    BY <1>2
  <2>2. IsUnderway(as, k, now, item, ids)
    BY <1>1, <1>11, <2>1 DEF AreUnderway
  <2>3. CASE j = i
    <3>1. item = other
      BY <1>4, <2>1, <2>3
    <3>2. IsUnderway(as, k + 1, new, item, ids)
      BY <1>7, <1>8, <1>9, <2>1, <2>2, <3>1, OwnStepGoesOn
    <3>3. QED  BY <2>1, <3>2
  <2>4. CASE j # i
    <3>1. other.id # item.id
      BY <1>4, <1>11, <2>1, <2>4 DEF IsAlone
    <3>2. IsUnderway(as, k + 1, new, item, ids)
      BY <1>4, <1>7, <1>8, <1>9, <2>2, <3>1, OtherStepGoesOn
    <3>3. QED  BY <2>1, <3>2
  <2>5. QED  BY <2>3, <2>4
<1>12. QED  BY <1>1, <1>10, <1>11 DEF AreUnderway

\* So they all get on, from the deletions to the end.
LEMMA ExecutionsGoOn ==
    ASSUME NEW table, NEW last, KeysAreOld(table, last), NEW file \in Seq(Items),
           NEW as \in Seq(Actions), NEW d, FollowsFile(as, d, table, file),
           NEW gone, gone \subseteq DOMAIN table, DeletesGone(as, d, table, gone),
           Spares(table, gone, IdsOf(file)),
           NEW n \in Nat, IsLength(n, as), NEW T, AreTables(T, n, table, as),
           NEW first, IsAfter(T, d, first), NEW new, IsAfter(T, n, new)
    PROVE  /\ IsTable(first) /\ IsWithout(table, gone, first)
           /\ AreUnderway(first, new, file, as, n)
<1>1. /\ IsTable(table) /\ None \notin DOMAIN table
      /\ \A t \in DOMAIN table : table[t].externalId = table[t].externalId
  BY KeysOfTables DEF KeysAreOld
<1>2. /\ d \in 0 .. n
      /\ \A k \in d .. n - 1 : IsChange(table, file, as[k + 1])
      /\ \A i \in 1 .. Len(file) : AllWait(table, file[i], as, d)
  BY ChangesOfPlans
<1>3. d \in Nat /\ d \in d .. n /\ n \in d .. n
  BY <1>2
<1>4. AreTables(T, d, table, as)
  <2>1. 0 .. d - 1 \subseteq 0 .. n - 1
    BY <1>2
  <2>2. QED  BY <2>1 DEF AreTables
<1>5. first = T[d] /\ new = T[n]
  BY DEF IsAfter
<1>6. IsLess(table, gone, first) /\ DOMAIN first = DOMAIN table \ gone
  <2>1. IsTable(table) /\ d \in Nat
    BY <1>1, <1>3
  <2>2. IsWithout(table, gone, first)
    BY <1>4, <2>1, DeletionsLeaveOthers, Zenon
  <2>3. QED  BY <2>2 DEF IsWithout
<1>7. IsTable(first)
  <2>1. CASE d = 0
    BY <1>1, <1>5, <2>1 DEF AreTables
  <2>2. CASE d # 0
    <3>1. PICK k \in 0 .. n - 1 : d = k + 1
      <4>1. d - 1 \in 0 .. n - 1 /\ d = (d - 1) + 1
        BY <1>2, <2>2
      <4>2. QED  BY <4>1
    <3>2. IsDone(T[k], as[k + 1], T[k + 1])
      BY DEF AreTables
    <3>3. IsTable(T[k + 1])
      BY <3>2 DEF IsDone
    <3>4. QED  BY <1>5, <3>1, <3>3
  <2>3. QED  BY <2>1, <2>2
<1>8. PICK ids : ids = IdsOf(file)
  OBVIOUS
<1>9. \A i \in 1 .. Len(file) : file[i] \in Items /\ file[i].id \in ids
  <2>1. DOMAIN file = 1 .. Len(file)
    BY LenProperties
  <2>2. QED  BY <1>8, <2>1, ElementOfSeq DEF IdsOf
<1>10. AreUnderway(first, first, file, as, d)
  <2>1. Keeps(first, first, ids)
    BY DEF Keeps
  <2>2. ASSUME NEW i \in 1 .. Len(file) PROVE IsUnderway(as, d, first, file[i], ids)
    <3>1. PICK item \in Items : item = file[i] /\ item.id \in ids
      BY <1>9
    <3>2. AllWait(table, item, as, d) /\ Spares(table, gone, ids)
      BY <1>2, <1>8, <3>1
    <3>3. IsUnderway(as, d, first, item, ids)
      BY <1>1, <1>6, <1>7, <3>1, <3>2, ItemsStart
    <3>4. QED  BY <3>1, <3>3
  <2>3. QED  BY <1>8, <2>1, <2>2 DEF AreUnderway
<1>11. HasTagsOf(table, first, ids)
  BY <1>6, <1>8 DEF HasTagsOf, Spares, IsLess, SameTags
<1>12. \A k \in d .. n : AreUnderway(first, T[k], file, as, k)
  <2> DEFINE S == {k \in d .. n : AreUnderway(first, T[k], file, as, k)}
  <2>1. d \in S
    BY <1>3, <1>5, <1>10
  <2>2. ASSUME NEW k \in d .. n - 1, k \in S PROVE k + 1 \in S
    <3>1. AreUnderway(first, T[k], file, as, k)
      BY <2>2
    <3>2. k \in Nat /\ k \in 0 .. n - 1 /\ k + 1 \in d .. n
      BY <1>2
    <3>3. IsDone(T[k], as[k + 1], T[k + 1]) /\ IsChange(table, file, as[k + 1])
      BY <1>2, <3>2 DEF AreTables
    <3>4. PICK now, next : now = T[k] /\ next = T[k + 1]
      OBVIOUS
    <3>5. AreUnderway(first, next, file, as, k + 1)
      BY <1>8, <1>11, <3>1, <3>2, <3>3, <3>4, ItemsGoOn
    <3>6. QED  BY <3>2, <3>4, <3>5
  <2> HIDE DEF S
  <2>3. \A k \in d .. n : k \in S
    BY <1>3, <2>1, <2>2, UpTo
  <2>4. QED  BY <2>3 DEF S
<1>13. QED  BY <1>3, <1>5, <1>6, <1>7, <1>12 DEF IsWithout

(***************************************************************************)
(* What an import does                                                     *)
(***************************************************************************)
Others(table, file) == {t \in DOMAIN table : ExportId(table, t) \notin IdsOf(file)}

AllHold(table, file) ==
    \A i \in DOMAIN file : \/ ItemHolds(table, file[i])
                           \/ \E j \in DOMAIN file \ {i} : file[j].id = file[i].id

OthersGoOrStay(table, new, file, replace) ==
    IF replace THEN Others(new, file) = {}
    ELSE Restrict(new, Others(new, file)) = Restrict(table, Others(table, file))

\* Nothing waits at the end.
LEMMA ItemsHold ==
    ASSUME NEW file \in Seq(Items), NEW as, NEW n \in Nat, IsLength(n, as),
           NEW first, NEW new, AreUnderway(first, new, file, as, n)
    PROVE  AllHold(new, file)
<1>1. DOMAIN file = 1 .. Len(file)
  BY LenProperties
<1>2. ASSUME NEW a PROVE ~Waits(as, n, a)
  <2>1. n + 1 .. n = {}
    OBVIOUS
  <2>2. QED  BY <2>1 DEF Waits, IsLength
<1>3. ASSUME NEW i \in 1 .. Len(file), IsAlone(file, i) PROVE ItemHolds(new, file[i])
  <2>1. PICK item, ids : item = file[i] /\ ids = IdsOf(file)
    OBVIOUS
  <2>2. IsUnderway(as, n, new, item, ids)
    BY <1>3, <2>1 DEF AreUnderway
  <2>3. PICK t \in ByExternalId(new, item.id) : TRUE
    BY <1>2, <2>2 DEF IsUnderway
  <2>4. new[t].value = item.value /\ ParentHolds(new, t, item, ids)
    BY <1>2, <2>2, <2>3 DEF IsUnderway
  <2>5. \/ ParentId(new, t) = item.parent
        \/ new[t].parent = None /\ ByExternalId(new, item.parent) = {}
    BY <2>4 DEF ParentHolds
  <2>6. ItemHolds(new, item)
    BY <2>3, <2>4, <2>5 DEF ItemHolds
  <2>7. QED  BY <2>1, <2>6
<1>4. ASSUME NEW i \in DOMAIN file, ~IsAlone(file, i)
      PROVE  \E j \in DOMAIN file \ {i} : file[j].id = file[i].id
  BY <1>1, <1>4 DEF IsAlone
<1>5. QED  BY <1>1, <1>3, <1>4 DEF AllHold

\* A replacing import leaves only tags with ids of the file.
LEMMA OthersGo ==
    ASSUME NEW table, NEW file, NEW gone, gone = GoneTags(table, file, TRUE),
           NEW first, IsLess(table, gone, first), DOMAIN first = DOMAIN table \ gone,
           NEW new, Keeps(first, new, IdsOf(file)), None \notin IdsOf(file),
           None \notin DOMAIN new, None \notin DOMAIN table
    PROVE  Others(new, file) = {}
<1>1. PICK ids : ids = IdsOf(file)
  OBVIOUS
<1>2. \A t \in DOMAIN table : t \notin gone => ExportId(table, t) \in ids
  BY <1>1 DEF GoneTags, IdsOf
<1>3. ASSUME NEW t \in DOMAIN new PROVE ExportId(new, t) \in ids
  <2>1. CASE t \in DOMAIN first
    <3>1. t \in DOMAIN table /\ t # None /\ ExportId(table, t) \in ids
      BY <1>2, <2>1
    <3>2. new[t].externalId = table[t].externalId
      BY <1>1, <2>1 DEF Keeps, IsLess, SameTags
    <3>3. ExportId(new, t) = ExportId(table, t)
      BY <3>1, <3>2 DEF ExportId
    <3>4. QED  BY <3>1, <3>3
  <2>2. CASE t \notin DOMAIN first
    <3>1. new[t].externalId \in ids /\ new[t].externalId # None
      BY <1>1, <2>2 DEF Keeps
    <3>2. ExportId(new, t) = new[t].externalId
      BY <3>1 DEF ExportId
    <3>3. QED  BY <3>1, <3>2
  <2>3. QED  BY <2>1, <2>2
<1>4. QED  BY <1>1, <1>3 DEF Others

\* One that does not replace leaves the other tags as they were.
LEMMA OthersStay ==
    ASSUME NEW table, IsTable(table), NEW file,
           NEW first, IsTable(first), IsLess(table, {}, first), DOMAIN first = DOMAIN table,
           NEW new, Keeps(first, new, IdsOf(file)), None \notin IdsOf(file),
           None \notin DOMAIN new
    PROVE  Restrict(new, Others(new, file)) = Restrict(table, Others(table, file))
<1>1. PICK ids : ids = IdsOf(file)
  OBVIOUS
<1>2. ASSUME NEW t \in DOMAIN table PROVE first[t] = table[t]
  <2>1. /\ first[t].value = table[t].value /\ first[t].parent = table[t].parent
        /\ first[t].externalId = table[t].externalId
    BY DEF IsLess, SameTags
  <2>2. first[t] \in Rows /\ table[t] \in Rows
    BY DEF IsTable
  <2>3. QED  BY <2>1, <2>2 DEF Rows
<1>3. ASSUME NEW t \in DOMAIN table
      PROVE  /\ t \in DOMAIN new /\ new[t].externalId = table[t].externalId
             /\ table[t].externalId \notin ids => new[t] = table[t]
  BY <1>1, <1>2 DEF Keeps
<1>4. ASSUME NEW t \in DOMAIN new, t \notin DOMAIN table PROVE ExportId(new, t) \in ids
  <2>1. new[t].externalId \in ids /\ new[t].externalId # None /\ t # None
    BY <1>1, <1>4 DEF Keeps
  <2>2. ExportId(new, t) = new[t].externalId
    BY <2>1 DEF ExportId
  <2>3. QED  BY <2>1, <2>2
<1>5. ASSUME NEW t \in DOMAIN table PROVE ExportId(new, t) = ExportId(table, t)
  BY <1>3 DEF ExportId
<1>6. Others(new, file) = Others(table, file)
  BY <1>1, <1>3, <1>4, <1>5 DEF Others
<1>7. ASSUME NEW t \in Others(table, file) PROVE new[t] = table[t]
  <2>1. t \in DOMAIN table /\ ExportId(table, t) \notin ids
    BY <1>1 DEF Others
  <2>2. t # None
    BY <1>3, <2>1
  <2>3. table[t].externalId \notin ids
    <3>1. CASE table[t].externalId = None
      BY <1>1, <3>1
    <3>2. CASE table[t].externalId # None
      <4>1. ExportId(table, t) = table[t].externalId
        BY <2>2, <3>2 DEF ExportId
      <4>2. QED  BY <2>1, <4>1
    <3>3. QED  BY <3>1, <3>2
  <2>4. QED  BY <1>3, <2>1, <2>3
<1>8. QED  BY <1>6, <1>7 DEF Restrict

\* What an execution of a plan does that commits.
LEMMA ImportsDo ==
    ASSUME NEW table, NEW last, KeysAreOld(table, last), NEW file \in Seq(Items),
           NEW replace \in BOOLEAN, NEW as \in Seq(Actions), NEW d,
           FollowsFile(as, d, table, file),
           DeletesGone(as, d, table, GoneTags(table, file, replace)),
           NEW end, end = Execute(table, last, as), end.ok,
           NEW new, new = end.tags, None \notin DOMAIN new
    PROVE  AllHold(new, file) /\ OthersGoOrStay(table, new, file, replace)
<1>1. PICK gone : gone = GoneTags(table, file, replace)
  OBVIOUS
<1>2. PICK n \in Nat : IsLength(n, as)
  BY LenProperties DEF IsLength
<1>3. LeadsTo(table, as, n, new)
  BY <1>2, ExecutionsHaveTables DEF IsLength
<1>4. PICK T : AreTables(T, n, table, as) /\ IsAfter(T, n, new)
  BY <1>3 DEF LeadsTo, IsAfter
<1>5. None \notin IdsOf(file)
  <2>1. DOMAIN file = 1 .. Len(file)
    BY LenProperties
  <2>2. \A i \in 1 .. Len(file) : file[i] \in Items
    BY ElementOfSeq
  <2>3. \A i \in 1 .. Len(file) : file[i].id # None
    BY <2>2, ItemsHaveIds
  <2>4. QED  BY <2>1, <2>3 DEF IdsOf
<1>6. gone \subseteq DOMAIN table
  BY <1>1 DEF GoneTags
<1>7. IsTable(table) /\ None \notin DOMAIN table
  BY KeysOfTables DEF KeysAreOld
<1>8. Spares(table, gone, IdsOf(file))
  <2>1. ASSUME NEW t \in gone, table[t].externalId \in IdsOf(file) PROVE FALSE
    <3>1. t \in DOMAIN table /\ ~ \E i \in DOMAIN file : file[i].id = ExportId(table, t)
      BY <1>1, <1>6, <2>1 DEF GoneTags
    <3>2. ExportId(table, t) = table[t].externalId
      BY <1>5, <1>7, <2>1, <3>1 DEF ExportId
    <3>3. PICK i \in DOMAIN file : file[i].id = ExportId(table, t)
      BY <2>1, <3>2 DEF IdsOf
    <3>4. QED  BY <3>1, <3>3
  <2>2. QED  BY <2>1 DEF Spares
<1>9. PICK first : IsAfter(T, d, first)
  BY DEF IsAfter
<1>10. /\ IsTable(first) /\ IsWithout(table, gone, first)
       /\ AreUnderway(first, new, file, as, n)
  <2>1. DeletesGone(as, d, table, gone)
    BY <1>1
  <2>2. QED  BY <1>2, <1>4, <1>6, <1>8, <1>9, <2>1, ExecutionsGoOn, Zenon
<1>11. AllHold(new, file)
  BY <1>2, <1>10, ItemsHold
<1>12. Keeps(first, new, IdsOf(file))
  BY <1>10 DEF AreUnderway
<1>13. OthersGoOrStay(table, new, file, replace)
  <2>1. CASE replace
    <3>1. gone = GoneTags(table, file, TRUE)
      BY <1>1, <2>1
    <3>2. Others(new, file) = {}
      BY <1>5, <1>7, <1>10, <1>12, <3>1, OthersGo DEF IsWithout
    <3>3. QED  BY <2>1, <3>2 DEF OthersGoOrStay
  <2>2. CASE ~replace
    <3>1. gone = {}
      BY <1>1, <2>2 DEF GoneTags
    <3>2. IsLess(table, {}, first) /\ DOMAIN first = DOMAIN table
      BY <1>10, <3>1 DEF IsWithout
    <3>3. Restrict(new, Others(new, file)) = Restrict(table, Others(table, file))
      BY <1>5, <1>7, <1>10, <1>12, <3>2, OthersStay
    <3>4. QED  BY <2>2, <3>3 DEF OthersGoOrStay
  <2>3. QED  BY <2>1, <2>2
<1>14. QED  BY <1>11, <1>13

(***************************************************************************)
(* Workers and their tasks                                                 *)
(***************************************************************************)
\* The strengthening: there is a record for each worker, and a worker that has
\* not created its task yet has none.
WorkersInv ==
    /\ tasks \in Seq(TaskStates)
    /\ workers = [w \in Workers |-> workers[w]]
    /\ \A w \in Workers : At(w, "create") => workers[w].task = 0
    /\ UnfinishedTasksHaveWorkers

\* A status given to a task leaves a sequence of the same length.
LEMMA StatusIsSet ==
    ASSUME tasks \in Seq(TaskStates), NEW w \in Workers,
           NEW status \in TaskStates, SetStatus(w, status)
    PROVE  /\ tasks' \in Seq(TaskStates) /\ DOMAIN tasks' = DOMAIN tasks
           /\ \A i \in DOMAIN tasks :
                tasks'[i] = IF i = workers[w].task THEN status ELSE tasks[i]
<1>1. DOMAIN tasks = 1 .. Len(tasks) /\ Len(tasks) \in Nat
  BY LenProperties
<1>2. CASE workers[w].task \in 1 .. Len(tasks)
  <2>1. /\ tasks' \in Seq(TaskStates) /\ Len(tasks') = Len(tasks)
        /\ \A i \in 1 .. Len(tasks) :
             tasks'[i] = IF i = workers[w].task THEN status ELSE tasks[i]
    BY <1>2, ExceptSeq DEF SetStatus
  <2>2. DOMAIN tasks' = 1 .. Len(tasks')
    BY <2>1, LenProperties
  <2>3. QED  BY <1>1, <2>1, <2>2
<1>3. CASE workers[w].task \notin 1 .. Len(tasks)
  <2>1. tasks = [i \in DOMAIN tasks |-> tasks[i]]
    BY LenProperties
  <2>2. tasks' = tasks
    BY <1>1, <1>3, <2>1 DEF SetStatus
  <2>3. QED  BY <1>1, <1>3, <2>2
<1>4. QED  BY <1>2, <1>3

\* A worker may return when it gives its task its last status.
LEMMA EndingKeepsWorkersInv ==
    ASSUME WorkersInv, NEW w \in Workers, NEW status \in Finished,
           ~At(w, "idle"), SetStatus(w, status), Returns(w)
    PROVE  WorkersInv'
<1>1. /\ tasks' \in Seq(TaskStates) /\ DOMAIN tasks' = DOMAIN tasks
      /\ \A i \in DOMAIN tasks :
           tasks'[i] = IF i = workers[w].task THEN status ELSE tasks[i]
  <2>1. status \in TaskStates /\ tasks \in Seq(TaskStates)
    BY DEF TaskStates, WorkersInv
  <2>2. QED  BY <2>1, StatusIsSet
<1>2. /\ workers' = [v \in Workers |-> workers'[v]]
      /\ \A v \in Workers : workers'[v] = IF v = w THEN Idle ELSE workers[v]
  BY DEF Returns, WorkersInv
<1>3. (\A v \in Workers : At(v, "create") => workers[v].task = 0)'
  BY <1>2 DEF At, Idle, WorkersInv
<1>4. UnfinishedTasksHaveWorkers'
  <2> SUFFICES ASSUME NEW i \in DOMAIN tasks', tasks'[i] \notin Finished
               PROVE  \E v \in Workers : ~At(v, "idle")' /\ workers'[v].task = i
    BY DEF UnfinishedTasksHaveWorkers
  <2>1. i \in DOMAIN tasks /\ i # workers[w].task /\ tasks[i] \notin Finished
    BY <1>1
  <2>2. PICK v \in Workers : ~At(v, "idle") /\ workers[v].task = i
    BY <2>1 DEF WorkersInv, UnfinishedTasksHaveWorkers
  <2>3. QED  BY <2>1, <2>2, <1>2 DEF At
<1>5. QED  BY <1>1, <1>2, <1>3, <1>4 DEF WorkersInv

\* A worker may go on, to any step but the first, with its task given any
\* status or none.
LEMMA GoingOnKeepsWorkersInv ==
    ASSUME WorkersInv, NEW w \in Workers, ~At(w, "idle"),
           DOMAIN workers' = Workers, workers' = [v \in Workers |-> workers'[v]],
           workers'[w].task = workers[w].task,
           workers'[w].pc \notin {"idle", "create"},
           \A v \in Workers \ {w} : workers'[v] = workers[v],
           \/ UNCHANGED tasks
           \/ \E status \in TaskStates \ Finished : SetStatus(w, status)
    PROVE  WorkersInv'
<1>1. /\ tasks' \in Seq(TaskStates) /\ DOMAIN tasks' = DOMAIN tasks
      /\ \A i \in DOMAIN tasks : tasks'[i] = tasks[i] \/ i = workers[w].task
  <2>1. CASE UNCHANGED tasks
    BY <2>1 DEF WorkersInv
  <2>2. CASE \E status \in TaskStates \ Finished : SetStatus(w, status)
    <3>1. PICK status \in TaskStates : SetStatus(w, status)
      BY <2>2
    <3>2. tasks \in Seq(TaskStates)
      BY DEF WorkersInv
    <3>3. QED  BY <3>1, <3>2, StatusIsSet
  <2>3. QED  BY <2>1, <2>2
<1>2. (\A v \in Workers : At(v, "create") => workers[v].task = 0)'
  BY DEF At, WorkersInv
<1>3. UnfinishedTasksHaveWorkers'
  <2> SUFFICES ASSUME NEW i \in DOMAIN tasks', tasks'[i] \notin Finished
               PROVE  \E v \in Workers : ~At(v, "idle")' /\ workers'[v].task = i
    BY DEF UnfinishedTasksHaveWorkers
  <2>1. CASE i = workers[w].task
    BY <2>1 DEF At
  <2>2. CASE i # workers[w].task
    <3>1. i \in DOMAIN tasks /\ tasks[i] \notin Finished
      BY <1>1, <2>2
    <3>2. PICK v \in Workers : ~At(v, "idle") /\ workers[v].task = i
      BY <3>1 DEF WorkersInv, UnfinishedTasksHaveWorkers
    <3>3. QED  BY <2>2, <3>2 DEF At
  <2>3. QED  BY <2>1, <2>2
<1>4. QED  BY <1>1, <1>2, <1>3 DEF WorkersInv

\* Goes(w, pc), as the lemma above wants it.
LEMMA GoesOn ==
    ASSUME WorkersInv, NEW w \in Workers, NEW pc, pc \notin {"idle", "create"}, Goes(w, pc)
    PROVE  /\ DOMAIN workers' = Workers /\ workers' = [v \in Workers |-> workers'[v]]
           /\ workers'[w].task = workers[w].task
           /\ workers'[w].pc \notin {"idle", "create"}
           /\ \A v \in Workers \ {w} : workers'[v] = workers[v]
  BY DEF Goes, Step, WorkersInv

LEMMA CheckUniqueTaskKeepsWorkersInv ==
    ASSUME WorkersInv, NEW w \in Workers, CheckUniqueTask(w)
    PROVE  WorkersInv'
<1>1. /\ workers' = [v \in Workers |-> workers'[v]] /\ UNCHANGED tasks
      /\ \A v \in Workers : workers'[v] = IF v = w THEN Step("create", 0) ELSE workers[v]
  BY DEF CheckUniqueTask, WorkersInv
<1>2. (\A v \in Workers : At(v, "create") => workers[v].task = 0)'
  BY <1>1 DEF At, Step, WorkersInv
<1>3. UnfinishedTasksHaveWorkers'
  <2> SUFFICES ASSUME NEW i \in DOMAIN tasks, tasks[i] \notin Finished
               PROVE  \E v \in Workers : ~At(v, "idle")' /\ workers'[v].task = i
    BY <1>1 DEF UnfinishedTasksHaveWorkers
  <2>1. PICK v \in Workers : ~At(v, "idle") /\ workers[v].task = i
    BY DEF WorkersInv, UnfinishedTasksHaveWorkers
  <2>2. v # w
    BY <2>1 DEF CheckUniqueTask
  <2>3. QED  BY <1>1, <2>1, <2>2 DEF At
<1>4. QED  BY <1>1, <1>2, <1>3 DEF WorkersInv

LEMMA CreateTaskKeepsWorkersInv ==
    ASSUME WorkersInv, NEW w \in Workers, CreateTask(w)
    PROVE  WorkersInv'
<1>1. /\ workers' = [v \in Workers |-> workers'[v]]
      /\ \A v \in Workers :
           workers'[v] = IF v = w THEN Step("parse", Len(tasks) + 1) ELSE workers[v]
  BY DEF CreateTask, WorkersInv
<1>2. /\ tasks' \in Seq(TaskStates)
      /\ \A i \in DOMAIN tasks' :
           i # Len(tasks) + 1 => i \in DOMAIN tasks /\ tasks'[i] = tasks[i]
  <2>1. tasks \in Seq(TaskStates) /\ "loading_data" \in TaskStates
    BY DEF WorkersInv, TaskStates
  <2>2. QED  BY <2>1, AppendProperties DEF CreateTask
<1>3. (\A v \in Workers : At(v, "create") => workers[v].task = 0)'
  BY <1>1 DEF At, Step, WorkersInv
<1>4. UnfinishedTasksHaveWorkers'
  <2> SUFFICES ASSUME NEW i \in DOMAIN tasks', tasks'[i] \notin Finished
               PROVE  \E v \in Workers : ~At(v, "idle")' /\ workers'[v].task = i
    BY DEF UnfinishedTasksHaveWorkers
  <2>1. CASE i = Len(tasks) + 1
    BY <1>1, <2>1 DEF At, Step
  <2>2. CASE i # Len(tasks) + 1
    <3>1. i \in DOMAIN tasks /\ tasks[i] \notin Finished
      BY <1>2, <2>2
    <3>2. PICK v \in Workers : ~At(v, "idle") /\ workers[v].task = i
      BY <3>1 DEF WorkersInv, UnfinishedTasksHaveWorkers
    <3>3. i # 0 /\ workers[w].task = 0
      <4>1. i # 0
        BY <3>1, LenProperties DEF WorkersInv
      <4>2. QED  BY <4>1 DEF CreateTask, WorkersInv
    <3>4. v # w
      BY <3>2, <3>3
    <3>5. QED  BY <1>1, <3>2, <3>4 DEF At
  <2>3. QED  BY <2>1, <2>2
<1>5. QED  BY <1>1, <1>2, <1>3, <1>4 DEF WorkersInv

LEMMA WorkKeepsWorkersInv ==
    ASSUME WorkersInv, NEW w \in Workers, Work(w) \/ Die(w)
    PROVE  WorkersInv'
<1>1. CASE CreateTask(w)
  BY <1>1, CreateTaskKeepsWorkersInv
<1>2. CASE ParseFile(w)
  <2>1. ~At(w, "idle")
    BY <1>2 DEF ParseFile, At
  <2>2. CASE SetStatus(w, "planning") /\ Goes(w, "plan")
    <3>1. "planning" \in TaskStates \ Finished
      BY DEF TaskStates, Finished
    <3>2. QED  BY <2>1, <2>2, <3>1, GoesOn, GoingOnKeepsWorkersInv
  <2>3. CASE SetStatus(w, "error") /\ Returns(w)
    BY <2>1, <2>3, EndingKeepsWorkersInv DEF Finished
  <2>4. QED  BY <1>2, <2>2, <2>3 DEF ParseFile
<1>3. CASE MakePlan(w)
  <2>1. ~At(w, "idle")
    BY <1>3 DEF MakePlan, At
  <2>2. \/ \E status \in Finished : SetStatus(w, status) /\ Returns(w)
        \/ /\ SetStatus(w, "executing")
           /\ \E file \in Files, replace \in BOOLEAN :
                \E plan \in Plans(tags, file, replace) :
                    workers' = [workers EXCEPT ![w] =
                                  Planned(workers[w].task, file, replace, plan)]
    BY <1>3 DEF MakePlan, Finished
  <2>3. CASE \E status \in Finished : SetStatus(w, status) /\ Returns(w)
    BY <2>1, <2>3, EndingKeepsWorkersInv
  <2>4. ASSUME SetStatus(w, "executing"), NEW file \in Files, NEW replace \in BOOLEAN,
               NEW plan \in Plans(tags, file, replace),
               workers' = [workers EXCEPT ![w] =
                             Planned(workers[w].task, file, replace, plan)]
        PROVE  WorkersInv'
    <3>1. /\ DOMAIN workers' = Workers /\ workers' = [v \in Workers |-> workers'[v]]
          /\ workers'[w].task = workers[w].task
          /\ workers'[w].pc \notin {"idle", "create"}
          /\ \A v \in Workers \ {w} : workers'[v] = workers[v]
      BY <2>4 DEF Planned, WorkersInv
    <3>2. "executing" \in TaskStates \ Finished
      BY DEF TaskStates, Finished
    <3>3. QED  BY <2>1, <2>4, <3>1, <3>2, GoingOnKeepsWorkersInv
  <2>5. QED  BY <2>2, <2>3, <2>4
<1>4. CASE ExecutePlan(w)
  <2>1. ~At(w, "idle")
    BY <1>4 DEF ExecutePlan, At
  <2>2. \/ Goes(w, "end") /\ UNCHANGED tasks
        \/ SetStatus(w, "error") /\ Returns(w)
    BY <1>4 DEF ExecutePlan
  <2>3. CASE Goes(w, "end") /\ UNCHANGED tasks
    BY <2>1, <2>3, GoesOn, GoingOnKeepsWorkersInv
  <2>4. CASE SetStatus(w, "error") /\ Returns(w)
    BY <2>1, <2>4, EndingKeepsWorkersInv DEF Finished
  <2>5. QED  BY <2>2, <2>3, <2>4
<1>5. CASE EndSuccess(w)
  <2>1. ~At(w, "idle") /\ SetStatus(w, "success") /\ Returns(w)
    BY <1>5 DEF EndSuccess, At
  <2>2. QED  BY <2>1, EndingKeepsWorkersInv DEF Finished
<1>6. CASE Die(w)
  <2>1. ~At(w, "idle") /\ Goes(w, "dead") /\ UNCHANGED tasks
    BY <1>6 DEF Die
  <2>2. QED  BY <2>1, GoesOn, GoingOnKeepsWorkersInv
<1>7. QED  BY <1>1, <1>2, <1>3, <1>4, <1>5, <1>6 DEF Work

(***************************************************************************)
(* The tags at any time                                                    *)
(***************************************************************************)
\* A call that edits tags leaves a table, without a new cycle.
LEMMA EditsKeepTables ==
    ASSUME KeysAreOld(tags, lastTag), CreateTag \/ RenameTag \/ RemoveTags
    PROVE  /\ KeysAreOld(tags', lastTag')
           /\ IsHierarchy(tags) => IsHierarchy(tags')
<1>1. None \notin DOMAIN tags
  BY KeysOfTables
<1>2. CASE CreateTag
  <2>1. PICK v, parentValue, x : tags' \in AddTag(tags, lastTag + 1, v, parentValue, x)
    BY <1>2 DEF CreateTag
  <2>2. lastTag' = lastTag + 1
    BY <1>2 DEF CreateTag
  <2>3. tags' \in AddTag(tags, lastTag', v, parentValue, x)
    BY <2>1, <2>2
  <2>4. QED  BY <2>2, <2>3, AddedTag
<1>3. CASE RenameTag
  <2>1. PICK v, newValue : tags' \in UpdateTag(tags, v, newValue)
    BY <1>3 DEF RenameTag
  <2>2. lastTag' = lastTag
    BY <1>3 DEF RenameTag
  <2>3. QED  BY <1>1, <2>1, <2>2, RenamedTag, ParentsStayInHierarchy
<1>4. CASE RemoveTags
  <2>1. PICK V, withSubtags : tags' \in DeleteTags(tags, V, withSubtags)
    BY <1>4 DEF RemoveTags
  <2>2. lastTag' = lastTag
    BY <1>4 DEF RemoveTags
  <2>3. QED  BY <1>1, <2>1, <2>2, DeletedTags, ParentsStayInHierarchy
<1>5. QED  BY <1>2, <1>3, <1>4

\* What a worker that is about to execute has: the actions of a plan of its file.
HasPlan(worker) ==
    /\ worker.file \in Files /\ worker.replace \in BOOLEAN /\ IsFiniteTable(worker.planned)
    /\ \E plan \in Plans(worker.planned, worker.file, worker.replace) :
         worker.actions = plan.actions

\* The strengthening of the type invariant.
ImportInv ==
    /\ KeysAreOld(tags, lastTag)
    /\ WorkersInv
    /\ \A w \in Workers : /\ ~At(w, "idle") => workers[w].task \in {0} \cup DOMAIN tasks
                          /\ At(w, "execute") => HasPlan(workers[w])

\* Its actions follow the file, and delete what they should if ids differ.
AreOfFile(as, planned, file, replace) ==
    \E d : /\ FollowsFile(as, d, planned, file)
           /\ IdsDiffer(planned, DOMAIN planned) =>
                DeletesGone(as, d, planned, GoneTags(planned, file, replace))

LEMMA PlansAreOfFiles ==
    ASSUME NEW worker, HasPlan(worker), NEW file, NEW as, NEW planned, NEW replace,
           file = worker.file, as = worker.actions, planned = worker.planned,
           replace = worker.replace
    PROVE  /\ file \in Seq(Items) /\ as \in Seq(Actions) /\ Len(as) \in Nat
           /\ AreOfFile(as, planned, file, replace)
<1>1. file \in Seq(Items)
  BY FilesAssumption DEF HasPlan, Items
<1>2. PICK plan \in Plans(planned, file, replace) : as = plan.actions
  BY DEF HasPlan
<1>3. replace \in BOOLEAN /\ IsFiniteTable(planned)
  BY DEF HasPlan
<1>4. /\ plan.actions \in Seq(Actions)
      /\ \E d : /\ FollowsFile(plan.actions, d, planned, file)
                /\ IdsDiffer(planned, DOMAIN planned) =>
                     DeletesGone(plan.actions, d, planned, GoneTags(planned, file, replace))
  BY <1>1, <1>2, <1>3, PlansFollowFiles
<1>5. QED  BY <1>1, <1>2, <1>4, LenProperties DEF AreOfFile

\* What a step of a worker may do to the workers and tasks.
StepsOn(w) ==
    /\ \A v \in Workers \ {w} : workers'[v] = workers[v]
    /\ DOMAIN tasks \subseteq DOMAIN tasks'
    /\ workers'[w].pc # "idle" => workers'[w].task \in {0} \cup DOMAIN tasks'
    /\ workers'[w].pc = "execute" => HasPlan(workers'[w])

LEMMA ReturningStepsOn ==
    ASSUME ImportInv, NEW w \in Workers, Returns(w), DOMAIN tasks \subseteq DOMAIN tasks'
    PROVE  StepsOn(w)
  BY DEF Returns, Idle, StepsOn, ImportInv, WorkersInv

LEMMA GoingStepsOn ==
    ASSUME ImportInv, NEW w \in Workers, ~At(w, "idle"), NEW pc, pc # "execute", Goes(w, pc),
           DOMAIN tasks \subseteq DOMAIN tasks'
    PROVE  StepsOn(w)
<1>1. /\ \A v \in Workers \ {w} : workers'[v] = workers[v]
      /\ workers'[w] = Step(pc, workers[w].task)
  BY DEF Goes, ImportInv, WorkersInv
<1>2. workers[w].task \in {0} \cup DOMAIN tasks'
  BY DEF ImportInv
<1>3. QED  BY <1>1, <1>2 DEF StepsOn, Step

LEMMA StatusKeepsTasks ==
    ASSUME ImportInv, NEW w \in Workers, NEW status \in TaskStates, SetStatus(w, status)
    PROVE  DOMAIN tasks \subseteq DOMAIN tasks'
<1>1. tasks \in Seq(TaskStates)
  BY DEF ImportInv, WorkersInv
<1>2. QED  BY <1>1, StatusIsSet

LEMMA WorkersStepOn ==
    ASSUME ImportInv, NEW w \in Workers, CheckUniqueTask(w) \/ Work(w) \/ Die(w)
    PROVE  StepsOn(w)
<1>1. /\ workers = [v \in Workers |-> workers[v]] /\ tasks \in Seq(TaskStates)
      /\ {"planning", "executing", "success", "error"} \subseteq TaskStates
  BY DEF ImportInv, WorkersInv, TaskStates, Finished
<1>2. CASE CheckUniqueTask(w)
  BY <1>1, <1>2 DEF CheckUniqueTask, StepsOn, Step
<1>3. CASE CreateTask(w)
  <2>1. /\ \A v \in Workers \ {w} : workers'[v] = workers[v]
        /\ workers'[w] = Step("parse", Len(tasks) + 1)
    BY <1>1, <1>3 DEF CreateTask
  <2>2. tasks' = Append(tasks, "loading_data") /\ "loading_data" \in TaskStates
    BY <1>3 DEF CreateTask, TaskStates
  <2>3. Len(tasks) \in Nat /\ DOMAIN tasks = 1 .. Len(tasks)
        /\ DOMAIN tasks' = 1 .. Len(tasks) + 1
    BY <1>1, <2>2, AppendProperties, LenProperties
  <2>4. Len(tasks) + 1 \in DOMAIN tasks' /\ DOMAIN tasks \subseteq DOMAIN tasks'
    BY <2>3
  <2>5. QED  BY <2>1, <2>4 DEF StepsOn, Step
<1>4. CASE ParseFile(w)
  <2>1. CASE SetStatus(w, "planning") /\ Goes(w, "plan")
    BY <1>1, <1>4, <2>1, StatusKeepsTasks, GoingStepsOn DEF ParseFile, At
  <2>2. CASE SetStatus(w, "error") /\ Returns(w)
    BY <1>1, <2>2, StatusKeepsTasks, ReturningStepsOn
  <2>3. QED  BY <1>4, <2>1, <2>2 DEF ParseFile
<1>5. CASE MakePlan(w)
  <2>1. \/ \E status \in {"error", "success"} : SetStatus(w, status) /\ Returns(w)
        \/ /\ SetStatus(w, "executing")
           /\ \E file \in Files, replace \in BOOLEAN :
                \E plan \in Plans(tags, file, replace) :
                    workers' = [workers EXCEPT ![w] =
                                  Planned(workers[w].task, file, replace, plan)]
    BY <1>5 DEF MakePlan
  <2>2. CASE \E status \in {"error", "success"} : SetStatus(w, status) /\ Returns(w)
    <3>1. PICK status \in TaskStates : SetStatus(w, status) /\ Returns(w)
      BY <1>1, <2>2
    <3>2. QED  BY <3>1, StatusKeepsTasks, ReturningStepsOn
  <2>3. ASSUME SetStatus(w, "executing"), NEW file \in Files, NEW replace \in BOOLEAN,
               NEW plan \in Plans(tags, file, replace),
               workers' = [workers EXCEPT ![w] =
                             Planned(workers[w].task, file, replace, plan)]
        PROVE  StepsOn(w)
    <3>1. /\ \A v \in Workers \ {w} : workers'[v] = workers[v]
          /\ workers'[w] = Planned(workers[w].task, file, replace, plan)
      BY <1>1, <2>3
    <3>2. DOMAIN tasks \subseteq DOMAIN tasks'
      BY <1>1, <2>3, StatusKeepsTasks
    <3>3. workers[w].task \in {0} \cup DOMAIN tasks
      BY <1>5 DEF MakePlan, At, ImportInv
    <3>4. IsFiniteTable(tags)
      BY TablesAreFinite DEF ImportInv
    <3>5. HasPlan(workers'[w])
      BY <3>1, <3>4 DEF HasPlan, Planned
    <3>6. workers'[w].task = workers[w].task
      BY <3>1 DEF Planned
    <3>7. QED  BY <3>1, <3>2, <3>3, <3>5, <3>6 DEF StepsOn
  <2>4. QED  BY <2>1, <2>2, <2>3
<1>6. CASE ExecutePlan(w)
  <2>1. \/ Goes(w, "end") /\ UNCHANGED tasks
        \/ SetStatus(w, "error") /\ Returns(w)
    BY <1>6 DEF ExecutePlan
  <2>2. CASE Goes(w, "end") /\ UNCHANGED tasks
    BY <1>6, <2>2, GoingStepsOn DEF ExecutePlan, At
  <2>3. CASE SetStatus(w, "error") /\ Returns(w)
    BY <1>1, <2>3, StatusKeepsTasks, ReturningStepsOn
  <2>4. QED  BY <2>1, <2>2, <2>3
<1>7. CASE EndSuccess(w)
  BY <1>1, <1>7, StatusKeepsTasks, ReturningStepsOn DEF EndSuccess
<1>8. CASE Die(w)
  BY <1>8, GoingStepsOn DEF Die
<1>9. QED  BY <1>2, <1>3, <1>4, <1>5, <1>6, <1>7, <1>8 DEF Work

\* A worker changes the tags only when its plan does not raise.
LEMMA WorkersKeepTables ==
    ASSUME ImportInv, NEW w \in Workers, CheckUniqueTask(w) \/ Work(w) \/ Die(w)
    PROVE  \/ UNCHANGED tags /\ UNCHANGED lastTag
           \/ /\ At(w, "execute") /\ workers'[w].pc = "end"
              /\ \E end : /\ end = Execute(tags, lastTag, workers[w].actions) /\ end.ok
                          /\ tags' = end.tags /\ lastTag' = end.lastTag
                          /\ KeysAreOld(tags', lastTag')
<1>1. CASE ~ExecutePlan(w)
  BY <1>1 DEF CheckUniqueTask, CreateTask, ParseFile, MakePlan, EndSuccess, Work, Die
<1>2. CASE ExecutePlan(w) /\ ~(UNCHANGED tags /\ UNCHANGED lastTag)
  <2>1. PICK end : end = Execute(tags, lastTag, workers[w].actions)
    OBVIOUS
  <2>2. /\ At(w, "execute") /\ end.ok /\ tags' = end.tags /\ lastTag' = end.lastTag
        /\ Goes(w, "end")
    BY <1>2, <2>1 DEF ExecutePlan
  <2>3. workers'[w].pc = "end"
    BY <2>2 DEF Goes, Step, ImportInv, WorkersInv
  <2>4. Len(workers[w].actions) \in Nat
    BY <2>2, PlansAreOfFiles DEF ImportInv
  <2>5. IsState(end)
    BY <2>1, <2>4, ExecutionsEndInTables DEF ImportInv
  <2>6. QED  BY <2>1, <2>2, <2>3, <2>5 DEF IsState
<1>3. QED  BY <1>1, <1>2

\* A worker gets to the end of an execution by executing its plan.
LEMMA FreshExecutions ==
    ASSUME ImportInv, ImportNext, NEW w \in Workers, ExecutesFresh(w)
    PROVE  \E end : /\ end = Execute(tags, lastTag, workers[w].actions)
                    /\ end.ok /\ tags' = end.tags
<1>1. At(w, "execute") /\ workers'[w].pc = "end"
  BY DEF ExecutesFresh
<1>2. workers'[w] # workers[w]
  BY <1>1 DEF At
<1>3. PICK v \in Workers : CheckUniqueTask(v) \/ Work(v) \/ Die(v)
  BY <1>2 DEF ImportNext, EditTags
<1>4. v = w
  BY <1>2, <1>3, WorkersStepOn DEF StepsOn
<1>5. workers = [u \in Workers |-> workers[u]]
  BY DEF ImportInv, WorkersInv
<1>6. ExecutePlan(w)
  BY <1>1, <1>3, <1>4, <1>5
     DEF Work, CheckUniqueTask, CreateTask, ParseFile, MakePlan, EndSuccess, Die, At, Goes, Step
<1>7. ~Returns(w)
  BY <1>1, <1>5 DEF Returns, Idle
<1>8. PICK end : end = Execute(tags, lastTag, workers[w].actions)
  OBVIOUS
<1>9. end.ok /\ tags' = end.tags
  BY <1>6, <1>7, <1>8 DEF ExecutePlan
<1>10. QED  BY <1>8, <1>9

LEMMA ImportInvStarts == ASSUME ImportInit PROVE ImportInv
<1>1. tags \in Seq(Rows) /\ IsTable(tags) /\ lastTag = Cardinality(DOMAIN tags)
  BY InitialTagsAssumption DEF ImportInit
<1>2. PICK n \in Nat : n = Len(tags) /\ DOMAIN tags = 1 .. n
  BY <1>1, LenProperties
<1>3. Cardinality(1 .. n) = n
  BY FS_Interval
<1>4. KeysAreOld(tags, lastTag)
  BY <1>1, <1>2, <1>3 DEF KeysAreOld
<1>5. WorkersInv
  BY EmptySeq DEF ImportInit, WorkersInv, At, Idle, UnfinishedTasksHaveWorkers
<1>6. \A w \in Workers : At(w, "idle") /\ ~At(w, "execute")
  BY DEF ImportInit, At, Idle
<1>7. QED  BY <1>4, <1>5, <1>6 DEF ImportInv

LEMMA ImportInvStays ==
    ASSUME ImportInv, [ImportNext]_importVars
    PROVE  ImportInv'
<1>1. WorkersInv'
  <2>1. CASE \E w \in Workers : CheckUniqueTask(w)
    BY <2>1, CheckUniqueTaskKeepsWorkersInv DEF ImportInv
  <2>2. CASE \E w \in Workers : Work(w) \/ Die(w)
    BY <2>2, WorkKeepsWorkersInv DEF ImportInv
  <2>3. CASE EditTags \/ UNCHANGED importVars
    BY <2>3 DEF EditTags, importVars, ImportInv, WorkersInv, UnfinishedTasksHaveWorkers, At
  <2>4. QED  BY <2>1, <2>2, <2>3 DEF ImportNext
<1>2. KeysAreOld(tags, lastTag)'
  <2>1. CASE \E w \in Workers : CheckUniqueTask(w) \/ Work(w) \/ Die(w)
    <3>1. PICK w \in Workers : CheckUniqueTask(w) \/ Work(w) \/ Die(w)
      BY <2>1
    <3>2. (UNCHANGED tags /\ UNCHANGED lastTag) \/ KeysAreOld(tags', lastTag')
      BY <3>1, WorkersKeepTables
    <3>3. QED  BY <3>2 DEF ImportInv
  <2>2. CASE EditTags
    BY <2>2, EditsKeepTables DEF EditTags, ImportInv
  <2>3. CASE UNCHANGED importVars
    BY <2>3 DEF importVars, ImportInv
  <2>4. QED  BY <2>1, <2>2, <2>3 DEF ImportNext
<1>3. ASSUME NEW v \in Workers
      PROVE  /\ ~At(v, "idle")' => workers'[v].task \in {0} \cup DOMAIN tasks'
             /\ At(v, "execute")' => HasPlan(workers'[v])
  <2>1. ASSUME NEW w \in Workers, CheckUniqueTask(w) \/ Work(w) \/ Die(w)
        PROVE  /\ ~At(v, "idle")' => workers'[v].task \in {0} \cup DOMAIN tasks'
               /\ At(v, "execute")' => HasPlan(workers'[v])
    <3>1. StepsOn(w)
      BY <2>1, WorkersStepOn
    <3>2. CASE v = w
      BY <3>1, <3>2 DEF StepsOn, At
    <3>3. CASE v # w
      BY <3>1, <3>3 DEF StepsOn, At, ImportInv
    <3>4. QED  BY <3>2, <3>3
  <2>2. CASE EditTags \/ UNCHANGED importVars
    BY <2>2 DEF EditTags, importVars, ImportInv, At
  <2>3. QED  BY <2>1, <2>2 DEF ImportNext
<1>4. (\A w \in Workers : /\ ~At(w, "idle") => workers[w].task \in {0} \cup DOMAIN tasks
                          /\ At(w, "execute") => HasPlan(workers[w]))'
  BY <1>3 DEF HasPlan
<1>5. QED  BY <1>1, <1>2, <1>4 DEF ImportInv

(***************************************************************************)
(* Every way out of import_tags ends its task: at any time a task that is  *)
(* neither SUCCESS nor ERROR has a worker that is at it, or died over it.  *)
(***************************************************************************)
THEOREM TasksAreNotAbandoned == ImportSpec => []UnfinishedTasksHaveWorkers
<1>1. ImportInit => ImportInv
  BY ImportInvStarts
<1>2. ImportInv /\ [ImportNext]_importVars => ImportInv'
  BY ImportInvStays
<1>3. ImportInv => UnfinishedTasksHaveWorkers
  BY DEF ImportInv, WorkersInv
<1>4. QED  BY <1>1, <1>2, <1>3, PTL DEF ImportSpec

(***************************************************************************)
(* The rows of the taxonomy satisfy the constraints of the database at any *)
(* time, keys are not given twice, and workers are at tasks that exist,    *)
(* whatever imports and edits run at the same time.                        *)
(***************************************************************************)
THEOREM ImportTypeCorrect == ImportSpec => []ImportTypeOK
<1>1. ImportInit => ImportInv
  BY ImportInvStarts
<1>2. ImportInv /\ [ImportNext]_importVars => ImportInv'
  BY ImportInvStays
<1>3. ASSUME ImportInv PROVE ImportTypeOK
  <2>1. tasks \in Seq(TaskStates)
    BY <1>3 DEF ImportInv, WorkersInv
  <2>2. DOMAIN tasks = 1 .. Len(tasks) /\ Len(tasks) \in Nat
    BY <2>1, LenProperties
  <2>3. {0} \cup DOMAIN tasks \subseteq 0 .. Len(tasks)
    BY <2>2
  <2>4. \A w \in Workers : ~At(w, "idle") => workers[w].task \in 0 .. Len(tasks)
    BY <1>3, <2>3 DEF ImportInv
  <2>5. IsTable(tags) /\ \A t \in DOMAIN tags : t \in 1 .. lastTag
    BY <1>3 DEF ImportInv, KeysAreOld
  <2>6. QED  BY <2>1, <2>4, <2>5 DEF ImportTypeOK
<1>4. QED  BY <1>1, <1>2, <1>3, PTL DEF ImportSpec

(***************************************************************************)
(* No tag becomes its own ancestor, by any edit, or by an import of a file *)
(* that names parents before their children, every id once, and leaves no  *)
(* root of its own under a tag without an external id, made for the tags   *)
(* as they are when it is executed.                                        *)
(***************************************************************************)
THEOREM HierarchyAlwaysStays == ImportSpec => HierarchyStays
<1> DEFINE Stays ==
        \/ ~IsHierarchy(tags)
        \/ IsHierarchy(tags)'
        \/ \E w \in Workers :
             LET file == workers[w].file
             IN  /\ At(w, "execute") /\ workers'[w].pc = "end"
                 /\ \/ ~ParentsFirst(file) \/ ~IdsOnce(file)
                    \/ LeavesUnderUnnamed(tags, file)
                    \/ tags # workers[w].planned
<1>1. ASSUME ImportInv, [ImportNext]_importVars, IsHierarchy(tags), ~IsHierarchy(tags')
      PROVE  Stays
  <2>1. CASE \E w \in Workers : CheckUniqueTask(w) \/ Work(w) \/ Die(w)
    <3>1. PICK w \in Workers : CheckUniqueTask(w) \/ Work(w) \/ Die(w)
      BY <2>1
    <3>2. ~UNCHANGED tags
      BY <1>1
    <3>3. /\ At(w, "execute") /\ workers'[w].pc = "end"
          /\ \E end : /\ end = Execute(tags, lastTag, workers[w].actions) /\ end.ok
                      /\ tags' = end.tags /\ lastTag' = end.lastTag
                      /\ KeysAreOld(tags', lastTag')
      BY <1>1, <3>1, <3>2, WorkersKeepTables
    <3>4. PICK file, as : file = workers[w].file /\ as = workers[w].actions
      OBVIOUS
    <3>5. PICK end : end = Execute(tags, lastTag, as) /\ end.ok /\ tags' = end.tags
      BY <3>3, <3>4
    <3>6. ASSUME ParentsFirst(file), IdsOnce(file), ~LeavesUnderUnnamed(tags, file),
                 tags = workers[w].planned
          PROVE  FALSE
      <4>1. HasPlan(workers[w])
        BY <1>1, <3>3 DEF ImportInv
      <4>2. /\ file \in Seq(Items) /\ as \in Seq(Actions)
            /\ \E d : FollowsFile(as, d, tags, file)
        <5>1. PICK worker, replace : worker = workers[w] /\ replace = worker.replace
          OBVIOUS
        <5>2. /\ file = worker.file /\ as = worker.actions /\ tags = worker.planned
              /\ HasPlan(worker)
          BY <3>4, <3>6, <4>1, <5>1
        <5>3. file \in Seq(Items) /\ as \in Seq(Actions)
          BY <5>1, <5>2, PlansAreOfFiles
        <5>4. AreOfFile(as, tags, file, replace)
          BY <5>1, <5>2, PlansAreOfFiles
        <5>5. QED  BY <5>3, <5>4 DEF AreOfFile
      <4>3. KeysAreOld(tags, lastTag) /\ IsFiniteTable(tags)
        BY <1>1, TablesAreFinite DEF ImportInv
      <4>4. IsHierarchy(end.tags)
        BY <1>1, <3>5, <3>6, <4>2, <4>3, ExecutionsGoWell
      <4>5. QED  BY <1>1, <3>5, <4>4
    <3>7. QED  BY <3>3, <3>4, <3>6
  <2>2. CASE EditTags
    BY <1>1, <2>2, EditsKeepTables DEF EditTags, ImportInv
  <2>3. CASE UNCHANGED importVars
    BY <1>1, <2>3 DEF importVars
  <2>4. QED  BY <1>1, <2>1, <2>2, <2>3 DEF ImportNext
<1>2. ASSUME ImportInv, [ImportNext]_importVars PROVE [Stays]_importVars
  <2>1. IsHierarchy(tags)' <=> IsHierarchy(tags')
    BY DEF IsHierarchy
  <2>2. QED  BY <1>1, <1>2, <2>1
<1>3. ImportInit => ImportInv
  BY ImportInvStarts
<1>4. ImportInv /\ [ImportNext]_importVars => ImportInv'
  BY ImportInvStays
<1>5. ImportInv /\ [ImportNext]_importVars => [Stays]_importVars
  BY <1>2
<1> HIDE DEF Stays
<1>6. ImportSpec => [][Stays]_importVars
  BY <1>3, <1>4, <1>5, PTL DEF ImportSpec
<1>7. QED  BY <1>6 DEF Stays, HierarchyStays

(***************************************************************************)
(* If nobody changes the tags between the plan of an import and its        *)
(* execution, the tags are as the file says once it commits: each item has *)
(* its tag, with its value and under its parent, or as a root when that    *)
(* parent is deleted, except items that share their id; the other tags are *)
(* gone when the import replaces, and as they were when it does not.  No   *)
(* two tags may share an id when the plan is made.                         *)
(***************************************************************************)
THEOREM ImportsAlwaysDoWhatTheFileSays == ImportSpec => ImportsDoWhatTheFileSays
<1> DEFINE Does ==
        \A w \in Workers : ExecutesFresh(w) /\ IdsDiffer(tags, DOMAIN tags) =>
          LET file == workers[w].file
              others(table) == {t \in DOMAIN table : ExportId(table, t) \notin IdsOf(file)}
          IN  /\ \A i \in DOMAIN file :
                   \/ ItemHolds(tags', file[i])
                   \/ \E j \in DOMAIN file \ {i} : file[j].id = file[i].id
              /\ IF workers[w].replace
                   THEN others(tags') = {}
                   ELSE Restrict(tags', others(tags')) = Restrict(tags, others(tags))
<1>1. ASSUME ImportInv, ImportInv', ImportNext, NEW w \in Workers,
             ExecutesFresh(w) /\ IdsDiffer(tags, DOMAIN tags)
      PROVE  /\ AllHold(tags', workers[w].file)
             /\ OthersGoOrStay(tags, tags', workers[w].file, workers[w].replace)
  <2>1. PICK file, as, replace :
          file = workers[w].file /\ as = workers[w].actions /\ replace = workers[w].replace
    OBVIOUS
  <2>2. HasPlan(workers[w]) /\ workers[w].planned = tags
    BY <1>1 DEF ExecutesFresh, ImportInv
  <2>3. file \in Seq(Items) /\ as \in Seq(Actions) /\ replace \in BOOLEAN
    BY <2>1, <2>2, PlansAreOfFiles DEF HasPlan
  <2>4. PICK d : /\ FollowsFile(as, d, tags, file)
                 /\ DeletesGone(as, d, tags, GoneTags(tags, file, replace))
    <3>1. PICK worker : worker = workers[w]
      OBVIOUS
    <3>2. /\ file = worker.file /\ as = worker.actions /\ tags = worker.planned
          /\ replace = worker.replace /\ HasPlan(worker)
      BY <2>1, <2>2, <3>1
    <3>3. AreOfFile(as, tags, file, replace)
      BY <3>2, PlansAreOfFiles
    <3>4. QED  BY <1>1, <3>3 DEF AreOfFile
  <2>5. PICK end : end = Execute(tags, lastTag, as) /\ end.ok /\ tags' = end.tags
    BY <1>1, <2>1, FreshExecutions
  <2>6. KeysAreOld(tags, lastTag) /\ None \notin DOMAIN tags'
    BY <1>1, KeysOfTables DEF ImportInv
  <2>7. AllHold(tags', file) /\ OthersGoOrStay(tags, tags', file, replace)
    BY <2>3, <2>4, <2>5, <2>6, ImportsDo
  <2>8. QED  BY <2>1, <2>7
<1>2. ASSUME ImportInv, ImportInv', [ImportNext]_importVars PROVE [Does]_importVars
  <2>1. CASE ImportNext
    <3>1. ASSUME NEW w \in Workers, ExecutesFresh(w) /\ IdsDiffer(tags, DOMAIN tags)
          PROVE  /\ AllHold(tags', workers[w].file)
                 /\ OthersGoOrStay(tags, tags', workers[w].file, workers[w].replace)
      BY <1>1, <1>2, <2>1, <3>1
    <3>2. ASSUME NEW w \in Workers, ExecutesFresh(w) /\ IdsDiffer(tags, DOMAIN tags)
          PROVE  /\ \A i \in DOMAIN workers[w].file :
                      \/ ItemHolds(tags', workers[w].file[i])
                      \/ \E j \in DOMAIN workers[w].file \ {i} :
                           workers[w].file[j].id = workers[w].file[i].id
                 /\ IF workers[w].replace
                      THEN Others(tags', workers[w].file) = {}
                      ELSE Restrict(tags', Others(tags', workers[w].file)) =
                               Restrict(tags, Others(tags, workers[w].file))
      BY <3>1, <3>2, Zenon DEF AllHold, OthersGoOrStay
    <3>3. Does
      BY <3>2, Zenon DEF Others
    <3>4. QED  BY <3>3
  <2>2. QED  BY <1>2, <2>1
<1>3. ImportInit => ImportInv
  BY ImportInvStarts
<1>4. ImportInv /\ [ImportNext]_importVars => ImportInv'
  BY ImportInvStays
<1>5. ImportInv /\ ImportInv' /\ [ImportNext]_importVars => [Does]_importVars
  BY <1>2
<1> HIDE DEF Does
<1>6. ImportSpec => [][Does]_importVars
  BY <1>3, <1>4, <1>5, PTL DEF ImportSpec
<1>7. QED  BY <1>6, PTL DEF Does, ImportsDoWhatTheFileSays

(***************************************************************************)
(* Exports: their items are of different tags and come after their         *)
(* parents.  Importing them into an empty taxonomy plans to create one tag *)
(* after the other, and each of these actions does what it says.           *)
(***************************************************************************)
\* Sequences of one element each, one after the other.
LEMMA FlattenedSingles ==
    ASSUME NEW A, NEW n \in Nat, NEW g \in [1 .. n -> A], NEW seqs,
           seqs = [i \in 1 .. n |-> << g[i] >>]
    PROVE  FlattenSeq(seqs) = g
<1>1. seqs \in Seq(Seq(A)) /\ Len(seqs) = n
  <2>1. \A i \in 1 .. n : << g[i] >> \in Seq(A)
    OBVIOUS
  <2>2. seqs \in [1 .. n -> Seq(A)]
    BY <2>1
  <2>3. seqs \in Seq(Seq(A))
    BY <2>2, SeqDef
  <2>4. QED  BY <2>2, <2>3, LenProperties
<1>2. CASE n = 0
  <2>1. FlattenSeq(seqs) = seqs
    BY <1>1, <1>2 DEF FlattenSeq
  <2>2. seqs = g
    BY <1>2
  <2>3. QED  BY <2>1, <2>2
<1>3. CASE n # 0
  <2>1. PICK f : f = CHOOSE h : IsFlattening(h, n, seqs)
    OBVIOUS
  <2>2. FlattenSeq(seqs) = f[n]
    BY <1>1, <1>3, <2>1 DEF FlattenSeq, IsFlattening
  <2>3. IsFlattening(f, n, seqs)
    BY <1>3, <2>1, FlatteningsExist
  <2> DEFINE IsUpTo(s, m) == s \in Seq(A) /\ Len(s) = m /\ \A i \in 1 .. m : s[i] = g[i]
  <2> DEFINE S == {m \in 1 .. n : IsUpTo(f[m], m)}
  <2>4. 1 \in S
    <3>1. f[1] = << g[1] >> /\ 1 \in 1 .. n /\ g[1] \in A
      BY <1>3, <2>3 DEF IsFlattening
    <3>2. IsUpTo(<< g[1] >>, 1)
      BY <3>1
    <3>3. QED  BY <3>1, <3>2
  <2>5. ASSUME NEW m \in 1 .. n - 1, m \in S PROVE m + 1 \in S
    <3>1. m + 1 \in 1 .. n /\ f[m + 1] = f[m] \o << g[m + 1] >> /\ g[m + 1] \in A
      <4>1. m + 1 \in 1 .. n /\ m + 1 # 1 /\ (m + 1) - 1 = m
        BY <1>3
      <4>2. QED  BY <2>3, <4>1 DEF IsFlattening
    <3>2. PICK s \in Seq(A) : s = f[m] /\ Len(s) = m /\ \A i \in 1 .. m : s[i] = g[i]
      BY <2>5
    <3>3. PICK t \in Seq(A) : t = << g[m + 1] >> /\ Len(t) = 1 /\ t[1] = g[m + 1]
      <4>1. PICK x \in A : x = g[m + 1]
        BY <3>1
      <4>2. << x >> \in Seq(A) /\ Len(<< x >>) = 1 /\ << x >>[1] = x
        OBVIOUS
      <4>3. QED  BY <4>1, <4>2
    <3>4. PICK u : u = s \o t
      OBVIOUS
    <3>5. /\ u \in Seq(A) /\ Len(u) = Len(s) + Len(t)
          /\ \A i \in 1 .. Len(s) : u[i] = s[i]
          /\ \A i \in 1 .. Len(t) : u[Len(s) + i] = t[i]
      BY <3>4, ConcatInOrder
    <3>6. u[m + 1] = g[m + 1] /\ Len(u) = m + 1
      BY <3>2, <3>3, <3>5
    <3>7. ASSUME NEW i \in 1 .. m + 1 PROVE u[i] = g[i]
      <4>1. CASE i = m + 1
        BY <3>6, <4>1
      <4>2. CASE i # m + 1
        <5>1. i \in 1 .. m
          BY <4>2
        <5>2. QED  BY <3>2, <3>5, <5>1
      <4>3. QED  BY <4>1, <4>2
    <3>8. IsUpTo(u, m + 1)
      BY <3>5, <3>6, <3>7
    <3>9. QED  BY <3>1, <3>2, <3>3, <3>4, <3>8
  <2> HIDE DEF S
  <2>6. n \in S
    <3>1. \A i \in 1 .. n : i \in S
      BY <2>4, <2>5, UpTo
    <3>2. QED  BY <1>3, <3>1
  <2>7. PICK s \in Seq(A) : s = f[n] /\ Len(s) = n /\ \A i \in 1 .. n : s[i] = g[i]
    BY <2>6 DEF S
  <2>8. s = g
    BY <2>7, LenProperties
  <2>9. QED  BY <2>2, <2>7, <2>8
<1>4. QED  BY <1>2, <1>3

\* What an export is: every item has an id and a value of its own, and a parent that
\* comes before it, or none.
ExportItems ==
    [id : ExternalIds \cup Nat, value : Values, parent : ExternalIds \cup Nat \cup {None}]

IsExport(file, n) ==
    /\ n \in Nat /\ file \in [1 .. n -> ExportItems]
    /\ ParentsFirst(file) /\ IdsOnce(file)
    /\ \A i, j \in 1 .. n : file[i].value = file[j].value => i = j

CreationOf(item) == Action("create", item.id, item.value, item.parent)

\* Nothing has to be deleted for an export, moved or renamed.
LEMMA PlansOfExports ==
    ASSUME NEW file, NEW n, IsExport(file, n), NEW plan \in Plans(NoTags, file, FALSE)
    PROVE  /\ plan = BuildActions(NoTags, plan.actions)
           /\ plan.actions = [i \in 1 .. n |-> CreationOf(file[i])]
<1>1. n \in Nat /\ file \in [1 .. n -> ExportItems] /\ DOMAIN file = 1 .. n
  BY DEF IsExport
<1> DEFINE
      Changes == FlattenSeq([i \in DOMAIN file |-> ActionsFor(NoTags, file[i])])
      Deleting(order) == FlattenSeq([i \in DOMAIN order |-> DeleteActions(NoTags, {}, order, i)])
      PlansOf(gone) == {BuildActions(NoTags, FlattenSeq([i \in DOMAIN order |->
                                         DeleteActions(NoTags, gone, order, i)]) \o Changes) :
                           order \in DeletionOrders(NoTags, gone)}
<1>0. plan \in UNION {PlansOf(gone) : gone \in {{}}}
  BY DEF Plans
<1> HIDE DEF PlansOf
<1>2. PICK order \in DeletionOrders(NoTags, {}) :
        plan = BuildActions(NoTags, Deleting(order) \o Changes)
  <2>1. plan \in PlansOf({})
    BY <1>0
  <2>2. QED  BY <2>1 DEF PlansOf
<1>3. DOMAIN order = {}
  <2>0. {} \cup ChildrenLeft(NoTags, {}) = {}
    BY DEF ChildrenLeft, ChildrenOf
  <2>1. order \in [1 .. Cardinality({}) -> {}]
    BY <1>2, <2>0 DEF DeletionOrders, SetToSeqs
  <2>2. Cardinality({}) = 0
    BY FS_EmptySet
  <2>3. QED  BY <2>1, <2>2
<1>4. PICK nothing : nothing = [i \in DOMAIN order |-> DeleteActions(NoTags, {}, order, i)]
  OBVIOUS
<1>5. nothing = << >> /\ FlattenSeq(nothing) = << >>
  <2>1. nothing = << >>
    BY <1>3, <1>4
  <2>2. QED  BY <2>1, EmptySeq DEF FlattenSeq
<1>6. \A i \in 1 .. n : ActionsFor(NoTags, file[i]) = << CreationOf(file[i]) >>
  <2>1. ASSUME NEW item PROVE ActionsFor(NoTags, item) = << CreationOf(item) >>
    <3>1. ByExternalId(NoTags, item.id) = {}
      BY DEF ByExternalId, NoTags
    <3>2. ~Moves(NoTags, item) /\ ~Renames(NoTags, item)
      BY <3>1 DEF Moves, Renames
    <3>3. PICK a : a = CreationOf(item)
      OBVIOUS
    <3>4. << >> \o << >> \o << a >> = << a >> /\ << a >> # << >>
      OBVIOUS
    <3>5. QED  BY <3>1, <3>2, <3>3, <3>4 DEF ActionsFor, CreationOf
  <2>2. QED  BY <2>1
<1>7. PICK as : as = [i \in 1 .. n |-> CreationOf(file[i])]
  OBVIOUS
<1>8. PICK seqs : seqs = [i \in 1 .. n |-> << as[i] >>]
  OBVIOUS
<1>9. seqs = [i \in DOMAIN file |-> ActionsFor(NoTags, file[i])]
  BY <1>1, <1>6, <1>7, <1>8
<1>10. PICK A : A = {CreationOf(item) : item \in ExportItems}
  OBVIOUS
<1>11. as \in [1 .. n -> A]
  BY <1>1, <1>7, <1>10
<1>12. FlattenSeq(seqs) = as
  BY <1>1, <1>8, <1>11, FlattenedSingles
<1>13. as \in Seq(A)
  <2>1. \E m \in Nat : as \in [1 .. m -> A]
    BY <1>1, <1>11
  <2>2. QED  BY <2>1, SeqDef
<1>14. << >> \o as = as
  BY <1>13, ConcatEmptySeq
<1>15. plan = BuildActions(NoTags, as)
  BY <1>2, <1>4, <1>5, <1>9, <1>12, <1>14
<1>16. plan.actions = as
  BY <1>15 DEF BuildActions
<1>17. QED  BY <1>7, <1>15, <1>16

\* Nor is any of its creations refused.
LEMMA ExportsAreValid ==
    ASSUME NEW file, NEW n, IsExport(file, n), NEW as,
           as = [i \in 1 .. n |-> CreationOf(file[i])]
    PROVE  BuildActions(NoTags, as).valid
<1>1. n \in Nat /\ file \in [1 .. n -> ExportItems] /\ DOMAIN file = 1 .. n
  BY DEF IsExport
<1>2. PICK A : A = {CreationOf(item) : item \in ExportItems}
  OBVIOUS
<1>3. as \in [1 .. n -> A]
  BY <1>1, <1>2
<1>4. as \in Seq(A) /\ DOMAIN as = 1 .. n
  <2>1. \E m \in Nat : as \in [1 .. m -> A]
    BY <1>1, <1>3
  <2>2. QED  BY <1>3, <2>1, SeqDef
<1>5. ASSUME NEW i \in 1 .. n PROVE IsValid(NoTags, SubSeq(as, 1, i - 1), as[i])
  <2>1. PICK earlier : earlier = SubSeq(as, 1, i - 1)
    OBVIOUS
  <2>2. PICK a : a = as[i]
    OBVIOUS
  <2>3. a = CreationOf(file[i])
    BY <2>2
  <2>4. DOMAIN earlier = 1 .. i - 1 /\ \A j \in 1 .. i - 1 : earlier[j] = as[j]
    <3>1. PICK m \in Nat : m = i - 1
      BY <1>1
    <3>2. \A j \in 1 .. m : as[j] \in A
      BY <1>1, <1>3, <3>1
    <3>3. /\ SubSeq(as, 1, m) \in Seq(A)
          /\ Len(SubSeq(as, 1, m)) = (IF 1 <= m THEN m - 1 + 1 ELSE 0)
          /\ \A j \in 1 .. m - 1 + 1 : SubSeq(as, 1, m)[j] = as[1 + j - 1]
      BY <3>2, SubSeqProperties, 1 \in Int, m \in Int, Z3
    <3>4. Len(SubSeq(as, 1, m)) = m /\ \A j \in 1 .. m : SubSeq(as, 1, m)[j] = as[j]
      BY <3>3
    <3>5. QED  BY <2>1, <3>1, <3>3, <3>4, LenProperties
  <2>5. \A b : b \in ToSet(earlier) <=> \E j \in 1 .. i - 1 : b = CreationOf(file[j])
    <3>1. \A j \in 1 .. i - 1 : j \in 1 .. n /\ as[j] = CreationOf(file[j])
      BY <1>1
    <3>2. QED  BY <2>4, <3>1 DEF ToSet
  <2>6. IdIsFree(earlier, a)
    <3>1. \A j \in 1 .. i - 1 : j \in 1 .. n /\ j # i
      BY <1>1
    <3>2. \A j \in 1 .. i - 1 : file[j].id # file[i].id
      BY <1>1, <3>1 DEF IsExport, IdsOnce
    <3>3. QED  BY <2>3, <2>5, <3>2 DEF IdIsFree, Indexed, CreationOf, Action
  <2>7. ValueIsFree(NoTags, earlier, a)
    <3>1. \A j \in 1 .. i - 1 : j \in 1 .. n /\ j # i
      BY <1>1
    <3>2. \A j \in 1 .. i - 1 : file[j].value # file[i].value
      BY <1>1, <3>1 DEF IsExport
    <3>3. WithValue(NoTags, a.value) = {}
      BY DEF WithValue, NoTags
    <3>4. QED  BY <2>3, <2>5, <3>2, <3>3 DEF ValueIsFree, Indexed, CreationOf, Action
  <2>8. ParentIsDefined(NoTags, earlier, a)
    <3>1. CASE file[i].parent = None
      BY <2>3, <3>1 DEF ParentIsDefined, CreationOf, Action
    <3>2. CASE file[i].parent # None
      <4>1. PICK j \in 1 .. i - 1 : file[j].id = file[i].parent
        BY <1>1, <3>2 DEF IsExport, ParentsFirst
      <4>2. CreationOf(file[j]) \in ToSet(earlier)
        BY <2>5
      <4>3. CreationOf(file[j]).name = "create" /\ CreationOf(file[j]).id = a.parent
        BY <2>3, <4>1 DEF CreationOf, Action
      <4>4. QED  BY <4>2, <4>3 DEF ParentIsDefined, Indexed
    <3>3. QED  BY <3>1, <3>2
  <2>9. a.name = "create"
    BY <2>3 DEF CreationOf, Action
  <2>10. QED  BY <2>1, <2>2, <2>6, <2>7, <2>8, <2>9 DEF IsValid
<1>6. QED  BY <1>4, <1>5 DEF BuildActions

\* The tags there are after the first k items, each with the key of its place in the file.
PlaceOfParent(file, i) ==
    IF file[i].parent = None THEN None
    ELSE CHOOSE m \in 1 .. i - 1 : file[m].id = file[i].parent

Rebuilt(file, k) ==
    [i \in 1 .. k |-> Row(file[i].value, PlaceOfParent(file, i), file[i].id)]

\* The parent of an item is at an earlier place.
LEMMA PlacesOfParents ==
    ASSUME NEW file, NEW n, IsExport(file, n), NEW i \in 1 .. n
    PROVE  IF file[i].parent = None
             THEN PlaceOfParent(file, i) = None
             ELSE /\ PlaceOfParent(file, i) \in 1 .. i - 1
                  /\ file[PlaceOfParent(file, i)].id = file[i].parent
<1>1. DOMAIN file = 1 .. n
  BY DEF IsExport
<1>2. ASSUME file[i].parent # None PROVE \E m \in 1 .. i - 1 : file[m].id = file[i].parent
  BY <1>1, <1>2 DEF IsExport, ParentsFirst
<1>3. QED  BY <1>2 DEF PlaceOfParent

\* At each point of the import the tags are those of the items so far.
LEMMA RebuiltIsTable ==
    ASSUME NEW file, NEW n, IsExport(file, n), NEW k \in 0 .. n
    PROVE  IsTable(Rebuilt(file, k))
<1>1. n \in Nat /\ file \in [1 .. n -> ExportItems] /\ DOMAIN file = 1 .. n
  BY DEF IsExport
<1>2. PICK new : new = Rebuilt(file, k)
  OBVIOUS
<1>3. DOMAIN new = 1 .. k /\ new = [i \in DOMAIN new |-> new[i]]
  BY <1>2 DEF Rebuilt
<1>4. ASSUME NEW i \in 1 .. k
      PROVE  /\ new[i].value = file[i].value /\ new[i].externalId = file[i].id
             /\ new[i].parent = PlaceOfParent(file, i)
             /\ new[i].parent \in 1 .. k \cup {None}
             /\ new[i] \in Rows /\ new[i].externalId # None
  <2>1. new[i] = Row(file[i].value, PlaceOfParent(file, i), file[i].id)
    BY <1>2 DEF Rebuilt
  <2>2. i \in 1 .. n /\ file[i] \in ExportItems
    BY <1>1
  <2>3. PlaceOfParent(file, i) \in 1 .. i - 1 \cup {None}
    BY <2>2, PlacesOfParents
  <2>4. \A j \in 1 .. i - 1 : j \in 1 .. k /\ j \in Nat
    BY <1>1
  <2>5. PlaceOfParent(file, i) \in 1 .. k \cup {None} /\ PlaceOfParent(file, i) \in Nat \cup {None}
    BY <2>3, <2>4
  <2>6. file[i].value \in Values /\ file[i].id \in ExternalIds \cup Nat
    BY <2>2 DEF ExportItems
  <2>7. QED  BY <2>1, <2>5, <2>6, NullAssumption DEF Row, Rows
<1>5. ASSUME NEW i \in 1 .. k, NEW j \in 1 .. k, i # j
      PROVE  new[i].value # new[j].value /\ new[i].externalId # new[j].externalId
  <2>1. i \in 1 .. n /\ j \in 1 .. n
    BY <1>1
  <2>2. file[i].value # file[j].value /\ file[i].id # file[j].id
    BY <1>1, <1>5, <2>1 DEF IsExport, IdsOnce
  <2>3. QED  BY <1>4, <2>2
<1>6. new \in [DOMAIN new -> Rows]
  BY <1>3, <1>4
<1>7. IsTable(new)
  BY <1>3, <1>4, <1>5, <1>6 DEF IsTable
<1>8. QED  BY <1>2, <1>7

\* The next item creates the next tag, with the parent it names.
LEMMA RebuiltGoesOn ==
    ASSUME NEW file, NEW n, IsExport(file, n), NEW k \in 0 .. n - 1, NEW a,
           a = CreationOf(file[k + 1])
    PROVE  Executed(Rebuilt(file, k), k + 1, a) = {Rebuilt(file, k + 1)}
<1>1. n \in Nat /\ file \in [1 .. n -> ExportItems] /\ DOMAIN file = 1 .. n /\ k + 1 \in 1 .. n
  BY DEF IsExport
<1>2. PICK now, p : now = Rebuilt(file, k) /\ p = PlaceOfParent(file, k + 1)
  OBVIOUS
<1>3. a.name = "create" /\ a.id = file[k + 1].id /\ a.value = file[k + 1].value
      /\ a.parent = file[k + 1].parent
  BY DEF CreationOf, Action
<1>4. DOMAIN now = 1 .. k /\ \A i \in 1 .. k : now[i].externalId = file[i].id
  BY <1>2 DEF Rebuilt, Row
<1>5. ParentsOf(now, a) = {p}
  <2>1. CASE a.parent = None
    BY <1>2, <1>3, <2>1 DEF ParentsOf, PlaceOfParent
  <2>2. CASE a.parent # None
    <3>1. p \in 1 .. k /\ file[p].id = a.parent
      <4>1. p \in 1 .. (k + 1) - 1 /\ file[p].id = a.parent
        BY <1>1, <1>2, <1>3, <2>2, PlacesOfParents
      <4>2. QED  BY <1>1, <4>1
    <3>2. ASSUME NEW i \in 1 .. k, file[i].id = a.parent PROVE i = p
      <4>1. i \in DOMAIN file /\ p \in DOMAIN file
        BY <1>1, <3>1
      <4>2. QED  BY <3>1, <3>2, <4>1 DEF IsExport, IdsOnce
    <3>3. ByExternalId(now, a.parent) = {p}
      BY <1>4, <3>1, <3>2 DEF ByExternalId
    <3>4. QED  BY <2>2, <3>3 DEF ParentsOf
  <2>3. QED  BY <2>1, <2>2
<1>6. Put(now, k + 1, Row(a.value, p, a.id)) = Rebuilt(file, k + 1)
  <2>1. 1 .. k \cup {k + 1} = 1 .. k + 1 /\ \A i \in 1 .. k + 1 : i # k + 1 => i \in 1 .. k
    BY <1>1
  <2>2. PICK last : last = Row(a.value, p, a.id)
    OBVIOUS
  <2>3. Put(now, k + 1, last) = [i \in 1 .. k + 1 |-> IF i = k + 1 THEN last ELSE now[i]]
    BY <1>4, <2>1 DEF Put
  <2>4. ASSUME NEW i \in 1 .. k + 1
        PROVE  (IF i = k + 1 THEN last ELSE now[i])
                 = Row(file[i].value, PlaceOfParent(file, i), file[i].id)
    <3>1. CASE i = k + 1
      BY <1>2, <1>3, <2>2, <3>1
    <3>2. CASE i # k + 1
      BY <1>2, <2>1, <3>2 DEF Rebuilt
    <3>3. QED  BY <3>1, <3>2
  <2>5. [i \in 1 .. k + 1 |-> IF i = k + 1 THEN last ELSE now[i]] = Rebuilt(file, k + 1)
    BY <2>4 DEF Rebuilt
  <2>6. QED  BY <2>2, <2>3, <2>5
<1>7. Executed(now, k + 1, a) = {Put(now, k + 1, Row(a.value, q, a.id)) : q \in ParentsOf(now, a)}
  BY <1>3 DEF Executed
<1>8. QED  BY <1>2, <1>5, <1>6, <1>7

\* The state after an action that leaves a table and creates a tag.
LEMMA StateAfter ==
    ASSUME NEW s, s = [tags |-> s.tags, lastTag |-> s.lastTag, ok |-> s.ok], s.ok = TRUE,
           NEW next, NEW j, NEW new, new = [s EXCEPT !.tags = next, !.lastTag = j]
    PROVE  new = StartOf(next, j)
BY DEF StartOf

\* The import does not raise, and leaves the tags of all items.
LEMMA ExportsAreExecuted ==
    ASSUME NEW file, NEW n, IsExport(file, n), NEW as,
           as = [i \in 1 .. n |-> CreationOf(file[i])]
    PROVE  Execute(NoTags, 0, as) = StartOf(Rebuilt(file, n), n)
<1>1. n \in Nat /\ file \in [1 .. n -> ExportItems] /\ DOMAIN file = 1 .. n
  BY DEF IsExport
<1>2. Len(as) = n
  <2>1. PICK A : A = {CreationOf(item) : item \in ExportItems}
    OBVIOUS
  <2>2. \E m \in Nat : as \in [1 .. m -> A]
    BY <1>1, <2>1
  <2>3. as \in Seq(A) /\ DOMAIN as = 1 .. n
    BY <1>1, <2>2, SeqDef
  <2>4. QED  BY <1>1, <2>3, LenProperties
<1>3. PICK f : IsExecution(f, n, NoTags, 0, as) /\ Execute(NoTags, 0, as) = f[n]
  BY <1>1, <1>2, ExecutionRuns
<1> DEFINE S == {k \in 0 .. n : f[k] = StartOf(Rebuilt(file, k), k)}
<1>4. 0 \in S
  <2>1. Rebuilt(file, 0) = NoTags
    BY DEF Rebuilt, NoTags
  <2>2. f[0] = StartOf(NoTags, 0)
    BY <1>3 DEF IsExecution, StartOf, StartOf
  <2>3. QED  BY <1>1, <2>1, <2>2
<1>5. ASSUME NEW k \in 0 .. n - 1, k \in S PROVE k + 1 \in S
  <2>1. k + 1 \in 1 .. n /\ (k + 1) - 1 = k /\ k + 1 \in 0 .. n /\ k \in 0 .. n
    BY <1>1
  <2>2. PICK s, a : s = StartOf(Rebuilt(file, k), k) /\ a = as[k + 1]
    OBVIOUS
  <2>3. f[k + 1] = ExecuteAction(s, a)
    BY <1>3, <1>5, <2>1, <2>2 DEF IsExecution
  <2>4. a = CreationOf(file[k + 1])
    BY <2>1, <2>2
  <2>5. Executed(s.tags, s.lastTag + 1, a) = {Rebuilt(file, k + 1)}
    BY <2>2, <2>4, RebuiltGoesOn DEF StartOf
  <2>6. IsTable(Rebuilt(file, k)) /\ IsTable(Rebuilt(file, k + 1))
    BY <2>1, RebuiltIsTable
  <2>7. {new \in Executed(s.tags, s.lastTag + 1, a) : IsTable(new)} = {Rebuilt(file, k + 1)}
    BY <2>5, <2>6
  <2>8. a.name = "create"
    BY <2>4 DEF CreationOf, Action
  <2>9. PICK next : next = Rebuilt(file, k + 1)
    OBVIOUS
  <2>10. ExecuteAction(s, a) = [s EXCEPT !.tags = next, !.lastTag = s.lastTag + 1]
    BY <2>2, <2>7, <2>8, <2>9 DEF ExecuteAction, StartOf
  <2>11. ExecuteAction(s, a) = StartOf(next, k + 1)
    <3>1. PICK now : now = Rebuilt(file, k)
      OBVIOUS
    <3>2. PICK j : j = k + 1
      OBVIOUS
    <3>3. s = [tags |-> now, lastTag |-> k, ok |-> TRUE]
      BY <2>2, <3>1 DEF StartOf
    <3>4. s.lastTag + 1 = j
      BY <3>2, <3>3
    <3>5. s = [tags |-> s.tags, lastTag |-> s.lastTag, ok |-> s.ok] /\ s.ok = TRUE
      BY <3>3
    <3>6. PICK new : new = ExecuteAction(s, a)
      OBVIOUS
    <3>7. new = [s EXCEPT !.tags = next, !.lastTag = j]
      BY <2>10, <3>4, <3>6
    <3>8. new = StartOf(next, j)
      BY <3>5, <3>7, StateAfter
    <3>9. QED  BY <3>2, <3>6, <3>8
  <2>12. QED  BY <2>1, <2>3, <2>9, <2>11
<1> HIDE DEF S
<1>6. n \in S
  <2>1. \A k \in 0 .. n : k \in S
    BY <1>1, <1>4, <1>5, UpTo
  <2>2. QED  BY <1>1, <2>1
<1>7. QED  BY <1>3, <1>6 DEF S

\* Every tag has an id.
LEMMA TagsHaveIds ==
    ASSUME NEW table, NEW last, KeysAreOld(table, last)
    PROVE  /\ \A t \in DOMAIN table : ExportId(table, t) \in ExternalIds \cup Nat
           /\ \A t \in DOMAIN table : ExportId(table, t) # None
           /\ ExportId(table, None) = None
<1>1. /\ None \notin DOMAIN table /\ DOMAIN table \subseteq Nat
      /\ \A t \in DOMAIN table : table[t] \in Rows
  <2>1. None \notin DOMAIN table /\ \A t \in DOMAIN table : table[t] \in Rows
    BY KeysOfTables
  <2>2. DOMAIN table \subseteq Nat
    BY DEF KeysAreOld
  <2>3. QED  BY <2>1, <2>2
<1>2. ASSUME NEW t \in DOMAIN table
      PROVE  ExportId(table, t) = IF table[t].externalId # None THEN table[t].externalId ELSE t
  BY <1>1 DEF ExportId
<1>3. \A t \in DOMAIN table : ExportId(table, t) \in ExternalIds \cup Nat
  BY <1>1, <1>2 DEF Rows
<1>4. ExportId(table, None) = None
  BY DEF ExportId
<1>5. QED  BY <1>3, <1>4, NullAssumption

\* The parent of a listed tag is listed.
LEMMA ParentsAreListed ==
    ASSUME NEW table, NEW last, KeysAreOld(table, last), NEW t \in Listed(table),
           table[t].parent # None
    PROVE  table[t].parent \in Listed(table)
<1>1. PICK u : u = table[t].parent
  OBVIOUS
<1>2. t \in DOMAIN table /\ t # None /\ u \in DOMAIN table
  BY <1>1, KeysOfTables DEF Listed
<1>3. ParentPk(table, t) = u
  BY <1>1, <1>2 DEF ParentPk
<1>4. PICK v : v = ParentPk(table, u)
  OBVIOUS
<1>5. ParentPk(table, v) = None
  BY <1>3, <1>4 DEF Listed
<1>6. ParentPk(table, ParentPk(table, v)) = None
  BY <1>5 DEF ParentPk
<1>7. QED  BY <1>1, <1>2, <1>4, <1>6 DEF Listed

\* The fields of an item.
LEMMA FieldsOfItems ==
    ASSUME NEW id, NEW value, NEW parent, NEW item, item = Item(id, value, parent)
    PROVE  item.id = id /\ item.value = value /\ item.parent = parent
BY DEF Item

\* The orders in which tags are exported have each listed tag once.
LEMMA OrdersOfExports ==
    ASSUME NEW S, IsFiniteSet(S), NEW order \in SetToSeqs(S)
    PROVE  \E n \in Nat : /\ order \in [1 .. n -> S]
                          /\ \A i, j \in 1 .. n : order[i] = order[j] => i = j
                          /\ \A t \in S : \E i \in 1 .. n : order[i] = t
<1>1. PICK n \in Nat : n = Cardinality(S)
  BY FS_CardinalityType
<1>2. order \in [1 .. n -> S] /\ \A i, j \in 1 .. n : i # j => order[i] # order[j]
  BY <1>1 DEF SetToSeqs
<1>3. order \in Injection(1 .. n, S)
  BY <1>2 DEF Injection, IsInjective
<1>4. IsFiniteSet(1 .. n) /\ Cardinality(1 .. n) = n
  BY FS_Interval
<1>5. order \in Surjection(1 .. n, S)
  BY <1>1, <1>3, <1>4, FS_Injection
<1>6. QED  BY <1>2, <1>5 DEF Surjection

\* An export is one of tags in tree order, and its items are those tags.
LEMMA ExportsAreExports ==
    ASSUME NEW table, NEW last, KeysAreOld(table, last), IdsDiffer(table, Listed(table)),
           NEW file \in Exports(table)
    PROVE  \E n, order :
              /\ IsExport(file, n)
              /\ order \in [1 .. n -> Listed(table)]
              /\ \A t \in Listed(table) : \E i \in 1 .. n : order[i] = t
              /\ \A i \in 1 .. n :
                    file[i] = Item(ExportId(table, order[i]), table[order[i]].value,
                                   ExportId(table, table[order[i]].parent))
<1>1. PICK order \in SetToSeqs(Listed(table)) :
          InTreeOrder(table, order) /\ file = ExportOf(table, order)
  BY DEF Exports
<1>2. Listed(table) \subseteq DOMAIN table
  BY DEF Listed
<1>3. IsFiniteSet(Listed(table))
  BY <1>2, TablesAreFinite, FS_Subset DEF IsFiniteTable
<1>4. PICK n \in Nat : /\ order \in [1 .. n -> Listed(table)]
                       /\ \A i, j \in 1 .. n : order[i] = order[j] => i = j
                       /\ \A t \in Listed(table) : \E i \in 1 .. n : order[i] = t
  BY <1>1, <1>3, OrdersOfExports
<1>5. DOMAIN file = 1 .. n /\ DOMAIN order = 1 .. n /\ file = [i \in 1 .. n |-> file[i]]
  BY <1>1, <1>4 DEF ExportOf
<1>6. \A i \in 1 .. n :
          file[i] = Item(ExportId(table, order[i]), table[order[i]].value,
                         ExportId(table, table[order[i]].parent))
  BY <1>1, <1>4 DEF ExportOf
<1>7. IsTable(table) /\ \A t \in DOMAIN table : table[t] \in Rows
                                                 /\ table[t].parent \in DOMAIN table \cup {None}
  BY KeysOfTables DEF KeysAreOld
<1>8. ASSUME NEW i \in 1 .. n
      PROVE  /\ file[i] \in ExportItems
             /\ file[i].id = ExportId(table, order[i])
             /\ file[i].value = table[order[i]].value
             /\ file[i].parent = ExportId(table, table[order[i]].parent)
  <2>1. PICK t \in DOMAIN table : t = order[i]
    BY <1>2, <1>4
  <2>2. PICK id, value, parent : /\ id = ExportId(table, t) /\ value = table[t].value
                                 /\ parent = ExportId(table, table[t].parent)
    OBVIOUS
  <2>3. id \in ExternalIds \cup Nat /\ parent \in ExternalIds \cup Nat \cup {None}
    BY <1>7, <2>2, TagsHaveIds
  <2>4. value \in Values
    BY <1>7, <2>2 DEF Rows
  <2>5. file[i] = [id |-> id, value |-> value, parent |-> parent]
    BY <1>6, <2>1, <2>2 DEF Item
  <2>6. QED  BY <2>1, <2>2, <2>3, <2>4, <2>5 DEF ExportItems
<1>9. file \in [1 .. n -> ExportItems]
  BY <1>5, <1>8
<1>10. ParentsFirst(file)
  <2>1. ASSUME NEW i \in 1 .. n, file[i].parent # None
        PROVE  \E j \in 1 .. i - 1 : file[j].id = file[i].parent
    <3>1. table[order[i]].parent # None
      BY <1>8, <2>1, TagsHaveIds
    <3>2. PICK j \in 1 .. i - 1 : order[j] = table[order[i]].parent
      BY <1>1, <1>5, <3>1 DEF InTreeOrder
    <3>3. j \in 1 .. n
      BY <1>4
    <3>4. file[j].id = file[i].parent
      BY <1>8, <3>2, <3>3
    <3>5. QED  BY <3>4
  <2>2. QED  BY <1>5, <2>1 DEF ParentsFirst
<1>11. IdsOnce(file)
  <2>1. ASSUME NEW i \in 1 .. n, NEW j \in 1 .. n, file[i].id = file[j].id PROVE i = j
    <3>1. order[i] \in Listed(table) /\ order[j] \in Listed(table)
      BY <1>4
    <3>2. order[i] = order[j]
      BY <1>8, <2>1, <3>1 DEF IdsDiffer
    <3>3. QED  BY <1>4, <3>2
  <2>2. QED  BY <1>5, <2>1 DEF IdsOnce
<1>12. ASSUME NEW i \in 1 .. n, NEW j \in 1 .. n, file[i].value = file[j].value PROVE i = j
  <2>1. order[i] \in DOMAIN table /\ order[j] \in DOMAIN table
    BY <1>2, <1>4
  <2>2. table[order[i]].value = table[order[j]].value
    BY <1>8, <1>12
  <2>3. order[i] = order[j]
    BY <1>7, <2>1, <2>2 DEF IsTable
  <2>4. QED  BY <1>4, <2>3
<1>13. IsExport(file, n)
  BY <1>9, <1>10, <1>11, <1>12 DEF IsExport
<1>14. QED  BY <1>4, <1>6, <1>13

\* The tags rebuilt from an export have the values of the listed ones, and the values
\* of their parents.
LEMMA RebuiltHasValues ==
    ASSUME NEW table, NEW last, KeysAreOld(table, last), IdsDiffer(table, Listed(table)),
           NEW file, NEW n, IsExport(file, n),
           NEW order \in [1 .. n -> Listed(table)],
           \A t \in Listed(table) : \E i \in 1 .. n : order[i] = t,
           \A i \in 1 .. n :
              file[i] = Item(ExportId(table, order[i]), table[order[i]].value,
                             ExportId(table, table[order[i]].parent))
    PROVE  ByValues(Rebuilt(file, n), DOMAIN Rebuilt(file, n)) = ByValues(table, Listed(table))
<1>1. PICK new : new = Rebuilt(file, n)
  OBVIOUS
<1>2. n \in Nat /\ DOMAIN new = 1 .. n
  BY <1>1 DEF Rebuilt, IsExport
<1>3. None \notin DOMAIN table /\ Listed(table) \subseteq DOMAIN table
      /\ \A t \in DOMAIN table : table[t].parent \in DOMAIN table \cup {None}
  BY KeysOfTables DEF Listed
<1>0. \A i \in 1 .. n : /\ file[i].id = ExportId(table, order[i])
                       /\ file[i].value = table[order[i]].value
                       /\ file[i].parent = ExportId(table, table[order[i]].parent)
                       /\ order[i] \in DOMAIN table
  <2>1. ASSUME NEW i \in 1 .. n
        PROVE  /\ file[i].id = ExportId(table, order[i])
               /\ file[i].value = table[order[i]].value
               /\ file[i].parent = ExportId(table, table[order[i]].parent)
    <3>1. PICK item, id, value, parent :
              /\ item = file[i] /\ id = ExportId(table, order[i])
              /\ value = table[order[i]].value
              /\ parent = ExportId(table, table[order[i]].parent)
      OBVIOUS
    <3>2. item = Item(id, value, parent)
      BY <3>1
    <3>3. item.id = id /\ item.value = value /\ item.parent = parent
      BY <3>2, FieldsOfItems
    <3>4. QED  BY <3>1, <3>3
  <2>2. QED  BY <1>3, <2>1
<1> DEFINE Of(some, t) == << some[t].value, IF some[t].parent = None THEN None
                                            ELSE some[some[t].parent].value >>
<1>4. ASSUME NEW i \in 1 .. n PROVE Of(new, i) = Of(table, order[i])
  <2>1. PICK t \in DOMAIN table : t = order[i] /\ t \in Listed(table)
    BY <1>0
  <2>2. /\ file[i].id = ExportId(table, t) /\ file[i].value = table[t].value
        /\ file[i].parent = ExportId(table, table[t].parent)
    BY <1>0, <2>1
  <2>3. new[i].value = table[t].value /\ new[i].parent = PlaceOfParent(file, i)
    BY <1>1, <2>2 DEF Rebuilt, Row
  <2>4. CASE table[t].parent = None
    <3>1. file[i].parent = None
      BY <2>2, <2>4, TagsHaveIds
    <3>2. new[i].parent = None
      BY <2>3, <3>1, PlacesOfParents
    <3>3. QED  BY <2>1, <2>3, <2>4, <3>2
  <2>5. CASE table[t].parent # None
    <3>1. PICK u \in DOMAIN table : u = table[t].parent /\ u \in Listed(table)
      BY <1>3, <2>1, <2>5, ParentsAreListed
    <3>2. file[i].parent = ExportId(table, u) /\ file[i].parent # None
      BY <2>2, <3>1, TagsHaveIds
    <3>3. PICK m : m = PlaceOfParent(file, i)
      OBVIOUS
    <3>4. m \in 1 .. i - 1 /\ file[m].id = ExportId(table, u)
      BY <3>2, <3>3, PlacesOfParents
    <3>5. m \in 1 .. n /\ m # None
      BY <1>2, <3>4, NullAssumption
    <3>6. order[m] \in Listed(table) /\ file[m].id = ExportId(table, order[m])
          /\ file[m].value = table[order[m]].value
      BY <1>0, <3>5
    <3>7. order[m] = u
      BY <3>1, <3>4, <3>6 DEF IdsDiffer
    <3>8. new[m].value = table[u].value
      BY <1>1, <3>5, <3>6, <3>7 DEF Rebuilt, Row
    <3>9. QED  BY <2>1, <2>3, <2>5, <3>1, <3>3, <3>5, <3>8
  <2>6. QED  BY <2>4, <2>5
<1> HIDE DEF Of
<1>5. {Of(new, i) : i \in 1 .. n} = {Of(table, t) : t \in Listed(table)}
  BY <1>4
<1>6. ByValues(new, DOMAIN new) = ByValues(table, Listed(table))
  BY <1>2, <1>5 DEF ByValues, Of
<1>7. QED  BY <1>1, <1>6

\* An export of a table is read back.
LEMMA ExportsRecreate ==
    ASSUME NEW table, NEW last, KeysAreOld(table, last), IdsDiffer(table, Listed(table)),
           NEW file \in Exports(table),
           NEW plan \in Plans(NoTags, file, FALSE)
    PROVE  LET end == Execute(NoTags, 0, plan.actions)
           IN  /\ plan.valid /\ end.ok
               /\ ByValues(end.tags, DOMAIN end.tags) = ByValues(table, Listed(table))
<1>1. PICK n, order :
          /\ IsExport(file, n)
          /\ order \in [1 .. n -> Listed(table)]
          /\ \A t \in Listed(table) : \E i \in 1 .. n : order[i] = t
          /\ \A i \in 1 .. n :
                file[i] = Item(ExportId(table, order[i]), table[order[i]].value,
                               ExportId(table, table[order[i]].parent))
  BY ExportsAreExports
<1>2. PICK as : as = plan.actions
  OBVIOUS
<1>3. plan = BuildActions(NoTags, as) /\ as = [i \in 1 .. n |-> CreationOf(file[i])]
  <2>1. IsExport(file, n)
    BY <1>1
  <2>2. QED  BY <1>2, <2>1, PlansOfExports
<1>4. plan.valid
  BY <1>1, <1>3, ExportsAreValid
<1>5. PICK new : new = Rebuilt(file, n)
  OBVIOUS
<1>6. ByValues(new, DOMAIN new) = ByValues(table, Listed(table))
  BY <1>1, <1>5, RebuiltHasValues
<1>7. PICK end : end = Execute(NoTags, 0, as)
  OBVIOUS
<1>8. end.ok /\ end.tags = new
  <2>1. end = StartOf(new, n)
    BY <1>1, <1>3, <1>5, <1>7, ExportsAreExecuted
  <2>2. QED  BY <2>1 DEF StartOf
<1>9. QED  BY <1>2, <1>4, <1>6, <1>7, <1>8

(***************************************************************************)
(* At any time an export of the taxonomy, imported into an empty one, is   *)
(* accepted and does not raise, and gives back the tags that               *)
(* get_filtered_tags lists, with their values and those of their parents,  *)
(* unless two of them share an id.                                         *)
(***************************************************************************)
THEOREM ExportsAlwaysRecreateTheListedTags ==
    ImportSpec => []ExportsRecreateTheListedTags
<1>1. ASSUME ImportInv PROVE ExportsRecreateTheListedTags
  <2>1. KeysAreOld(tags, lastTag)
    BY <1>1 DEF ImportInv
  <2>2. ASSUME IdsDiffer(tags, Listed(tags)),
               NEW file \in Exports(tags), NEW plan \in Plans(NoTags, file, FALSE)
        PROVE  LET end == Execute(NoTags, 0, plan.actions)
               IN  /\ plan.valid /\ end.ok
                   /\ ByValues(end.tags, DOMAIN end.tags) = ByValues(tags, Listed(tags))
    BY <2>1, <2>2, ExportsRecreate
  <2>3. QED  BY <2>2 DEF ExportsRecreateTheListedTags
<1>2. ImportInit => ImportInv
  BY ImportInvStarts
<1>3. ImportInv /\ [ImportNext]_importVars => ImportInv'
  BY ImportInvStays
<1>4. QED  BY <1>1, <1>2, <1>3, PTL DEF ImportSpec

=============================================================================
