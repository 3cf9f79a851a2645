-------------------------- MODULE ObjectTagsProofs --------------------------
EXTENDS ObjectTags, TagImportPlanProofs

(***************************************************************************)
(* Folds                                                                   *)
(***************************************************************************)
LEMMA GreatestNumber ==
    ASSUME NEW k \in Nat, NEW s \in SUBSET (1 .. k), s # {}
    PROVE  Max(s) \in s /\ \A y \in s : Max(s) >= y
<1> DEFINE T == {k - y : y \in s}
<1>1. T \in SUBSET Nat /\ T # {}
  OBVIOUS
<1>2. PICK n \in T : \A m \in T : n <= m
  BY <1>1, LeastNumber
<1>3. PICK x \in s : n = k - x
  BY <1>2
<1>4. ASSUME NEW y \in s PROVE x >= y
  <2>1. k - y \in T /\ x \in Nat /\ y \in Nat
    OBVIOUS
  <2>2. k - x <= k - y
    BY <1>2, <1>3, <2>1
  <2>3. QED  BY <2>1, <2>2
<1>5. PICK m : m = CHOOSE z \in s : \A y \in s : z >= y
  OBVIOUS
<1>6. m \in s /\ \A y \in s : m >= y
  BY <1>4, <1>5
<1>7. Max(s) = m
  BY <1>5 DEF Max
<1>8. QED  BY <1>6, <1>7

LEMMA IsGreatestNumber ==
    ASSUME NEW k \in Nat, NEW s \in SUBSET (1 .. k), NEW m \in s, \A y \in s : m >= y
    PROVE  Max(s) = m
<1>1. PICK x : x = Max(s)
  OBVIOUS
<1>2. x \in s /\ \A y \in s : x >= y
  BY <1>1, GreatestNumber
<1>3. m >= x /\ x >= m /\ m \in Nat /\ x \in Nat
  BY <1>2
<1>4. QED  BY <1>1, <1>3

\* f goes from the last element of a set of numbers to the others.
IsFold(f, k, base, G) ==
    f = [s \in SUBSET (1 .. k) |->
            IF s = {} THEN base ELSE G[<<Max(s), f[s \ {Max(s)}]>>]]

LEMMA FoldsExist ==
    ASSUME NEW n \in Nat, NEW X, NEW base \in X, NEW G \in [(1 .. n) \X X -> X]
    PROVE  \E f \in [SUBSET (1 .. n) -> X] : IsFold(f, n, base, G)
<1> DEFINE S == {k \in 0 .. n : \E f \in [SUBSET (1 .. k) -> X] : IsFold(f, k, base, G)}
<1>1. 0 \in S
  <2>1. PICK f : f = [s \in SUBSET (1 .. 0) |-> base]
    OBVIOUS
  <2>2. \A s \in SUBSET (1 .. 0) : s = {}
    OBVIOUS
  <2>3. IsFold(f, 0, base, G) /\ f \in [SUBSET (1 .. 0) -> X]
    BY <2>1, <2>2 DEF IsFold
  <2>4. 0 \in 0 .. n
    OBVIOUS
  <2>5. QED  BY <2>3, <2>4
<1>2. ASSUME NEW k \in 0 .. n - 1, k \in S PROVE k + 1 \in S
  <2>1. PICK m \in 1 .. n : m = k + 1
    OBVIOUS
  <2>2. k \in Nat /\ 1 .. k \subseteq 1 .. m /\ m \notin 1 .. k
        /\ 1 .. m = (1 .. k) \cup {m} /\ \A y \in 1 .. m : m >= y
    BY <2>1
  <2>3. PICK g \in [SUBSET (1 .. k) -> X] : IsFold(g, k, base, G)
    BY <1>2
  <2>4. PICK f : f = [s \in SUBSET (1 .. m) |->
                        IF m \in s THEN G[<<m, g[s \ {m}]>>] ELSE g[s]]
    OBVIOUS
  <2>5. f \in [SUBSET (1 .. m) -> X]
    <3>1. ASSUME NEW s \in SUBSET (1 .. m), m \in s PROVE G[<<m, g[s \ {m}]>>] \in X
      <4>1. s \ {m} \in SUBSET (1 .. k)
        BY <2>2
      <4>2. <<m, g[s \ {m}]>> \in (1 .. n) \X X
        BY <4>1
      <4>3. QED  BY <4>2
    <3>2. ASSUME NEW s \in SUBSET (1 .. m), m \notin s PROVE g[s] \in X
      BY <2>2, <3>2
    <3>3. QED  BY <2>4, <3>1, <3>2
  <2>6. ASSUME NEW s \in SUBSET (1 .. m)
        PROVE  f[s] = IF s = {} THEN base ELSE G[<<Max(s), f[s \ {Max(s)}]>>]
    <3>1. CASE m \in s
      <4>1. m \in Nat /\ \A y \in s : m >= y
        BY <2>2
      <4>2. Max(s) = m
        BY <3>1, <4>1, IsGreatestNumber
      <4>3. s \ {m} \in SUBSET (1 .. m) /\ m \notin s \ {m}
        OBVIOUS
      <4>4. f[s \ {m}] = g[s \ {m}]
        BY <2>4, <4>3
      <4>5. QED  BY <2>4, <3>1, <4>2, <4>4
    <3>2. CASE m \notin s
      <4>1. s \in SUBSET (1 .. k)
        BY <2>2, <3>2
      <4>2. g[s] = IF s = {} THEN base ELSE G[<<Max(s), g[s \ {Max(s)}]>>]
        BY <2>3, <4>1 DEF IsFold
      <4>3. s \ {Max(s)} \in SUBSET (1 .. m) /\ m \notin s \ {Max(s)}
        BY <3>2
      <4>4. f[s \ {Max(s)}] = g[s \ {Max(s)}] /\ f[s] = g[s]
        BY <2>4, <3>2, <4>3
      <4>5. QED  BY <4>2, <4>4
    <3>3. QED  BY <3>1, <3>2
  <2>7. IsFold(f, m, base, G)
    BY <2>4, <2>6 DEF IsFold
  <2>8. QED  BY <2>1, <2>5, <2>7
<1> HIDE DEF S
<1>3. \A k \in 0 .. n : k \in S
  BY <1>1, <1>2, UpTo
<1>4. n \in S
  BY <1>3
<1>5. QED  BY <1>4 DEF S

\* The sets of numbers that a fold from the left goes through.
LEMMA FirstNumbers ==
    ASSUME NEW n \in Nat
    PROVE  /\ 1 .. 0 \in SUBSET (1 .. n) /\ 1 .. 0 = {}
           /\ \A k \in 1 .. n : /\ 1 .. k \in SUBSET (1 .. n) /\ 1 .. k # {}
                                 /\ Max(1 .. k) = k /\ (1 .. k) \ {k} = 1 .. k - 1
<1>1. 1 .. 0 \in SUBSET (1 .. n) /\ 1 .. 0 = {}
  OBVIOUS
<1>2. ASSUME NEW k \in 1 .. n
      PROVE  /\ 1 .. k \in SUBSET (1 .. n) /\ 1 .. k # {}
             /\ Max(1 .. k) = k /\ (1 .. k) \ {k} = 1 .. k - 1
  <2>1. k \in Nat /\ k \in 1 .. k /\ 1 .. k \subseteq 1 .. n /\ \A y \in 1 .. k : k >= y
    OBVIOUS
  <2>2. Max(1 .. k) = k
    <3>1. PICK s \in SUBSET (1 .. k) : s = 1 .. k
      OBVIOUS
    <3>2. Max(s) = k
      BY <2>1, <3>1, IsGreatestNumber
    <3>3. QED  BY <3>1, <3>2
  <2>3. (1 .. k) \ {k} = 1 .. k - 1
    OBVIOUS
  <2>4. QED  BY <2>1, <2>2, <2>3
<1>3. QED  BY <1>1, <1>2

\* An order of the elements of a set.
LEMMA OrdersAreOfAll ==
    ASSUME NEW S, IsFiniteSet(S), NEW order \in SetToSeqs(S)
    PROVE  \E n \in Nat :
             /\ order \in [1 .. n -> S]
             /\ \A i, j \in 1 .. n : i # j => order[i] # order[j]
             /\ \A e \in S : \E i \in 1 .. n : order[i] = e
<1>1. PICK n \in Nat : n = Cardinality(S)
  BY FS_CardinalityType
<1>2. order \in [1 .. n -> S] /\ \A i, j \in 1 .. n : i # j => order[i] # order[j]
  BY <1>1 DEF SetToSeqs
<1>3. order \in Injection(1 .. n, S)
  BY <1>2 DEF Injection, IsInjective
<1>4. IsFiniteSet(1 .. n) /\ Cardinality(1 .. n) = n
  BY FS_Interval
<1>5. order \in Surjection(1 .. n, S)
  BY <1>1, <1>3, <1>4, FS_Injection
<1>6. \A e \in S : \E i \in 1 .. n : order[i] = e
  BY <1>5 DEF Surjection
<1>7. QED  BY <1>2, <1>6

(***************************************************************************)
(* Rows                                                                    *)
(***************************************************************************)
\* Rows of taxonomies that exist, and those with Tags that do.
TypedRows(exist) ==
    {row \in [object : Objects, taxonomy : exist \cup {None}, exportId : AllTaxonomies,
              tag : Nat \cup {None}, value : Values \cup {Empty}, copied : BOOLEAN] :
        /\ row.taxonomy \in {row.exportId, None}
        /\ row.tag # None => row.taxonomy = Closed}

LinkedRows(table, exist) == {row \in TypedRows(exist) : row.tag \in DOMAIN table \cup {None}}

\* ObjectTag rows with the last primary key given.
AreRows(rows, last, table, exist) ==
    /\ rows \in [DOMAIN rows -> LinkedRows(table, exist)]
    /\ DOMAIN rows \subseteq 1 .. last
    /\ IsUnique(rows)

\* What a row becomes.
LEMMA ResyncedRow ==
    ASSUME NEW table, NEW last, KeysAreOld(table, last),
           NEW exist, NEW row \in LinkedRows(table, exist)
    PROVE  LET new == Resynced(row, table, exist)
           IN  /\ new \in LinkedRows(table, exist)
               /\ new.object = row.object /\ new.exportId = row.exportId
               /\ new.value = ValueOf(table, row)
               /\ row.tag # None => new.tag = row.tag
               /\ row.tag = None => new.tag \in WithValue(table, row.value) \cup {None}
               /\ row.taxonomy # None => new.taxonomy = row.taxonomy
               /\ row.taxonomy = None /\ row.exportId \in exist => new.taxonomy = row.exportId
               /\ new.taxonomy = Closed /\ new.tag = None => WithValue(table, row.value) = {}
               /\ new = row => ~ (row.taxonomy = None /\ row.exportId \in exist)
<1>1. PICK x : x = IF row.taxonomy = None /\ row.exportId \in exist
                     THEN row.exportId ELSE row.taxonomy
  OBVIOUS
<1>2. PICK found : found = IF x = Closed THEN WithValue(table, row.value) ELSE {}
  OBVIOUS
<1>3. PICK t : t = IF row.tag = None /\ found # {} THEN CHOOSE u \in found : TRUE ELSE row.tag
  OBVIOUS
<1>4. PICK v : v = ValueOf(table, row)
  OBVIOUS
<1>5. PICK new : new = Resynced(row, table, exist)
  OBVIOUS
<1>6. row \in [object : Objects, taxonomy : exist \cup {None}, exportId : AllTaxonomies,
                tag : Nat \cup {None}, value : Values \cup {Empty}, copied : BOOLEAN]
  BY DEF LinkedRows, TypedRows
<1>7. new = [row EXCEPT !.exportId = row.exportId, !.taxonomy = x, !.tag = t, !.value = v]
  <2>1. (IF row.taxonomy # None THEN row.taxonomy ELSE row.exportId) = row.exportId
    BY DEF LinkedRows, TypedRows
  <2>2. QED  BY <1>1, <1>2, <1>3, <1>4, <1>5, <2>1 DEF Resynced
<1>8. new = [object |-> row.object, taxonomy |-> x, exportId |-> row.exportId,
             tag |-> t, value |-> v, copied |-> row.copied]
  BY <1>6, <1>7
<1>9. found \subseteq DOMAIN table /\ DOMAIN table \subseteq Nat /\ None \notin DOMAIN table
      /\ \A u \in DOMAIN table : table[u].value \in Values
  <2>1. DOMAIN table \subseteq Nat /\ \A u \in DOMAIN table : table[u] \in Rows
    BY KeysOfTables DEF KeysAreOld
  <2>2. QED  BY <1>2, <2>1, NullAssumption DEF WithValue, Rows
<1>10. row.tag \in DOMAIN table \cup {None}
       /\ row.taxonomy \in {row.exportId, None} /\ (row.tag # None => row.taxonomy = Closed)
  BY DEF LinkedRows, TypedRows
<1>11. v \in Values \cup {Empty} /\ (row.tag = None => v = row.value)
  BY <1>4, <1>6, <1>9, <1>10 DEF ValueOf
<1>12. /\ x \in exist \cup {None} /\ x \in {row.exportId, None}
       /\ row.taxonomy # None => x = row.taxonomy
       /\ (row.taxonomy = None /\ row.exportId \in exist => x = row.exportId)
  BY <1>1, <1>6, <1>10
<1>13. /\ t \in DOMAIN table \cup {None}
       /\ row.tag # None => t = row.tag
       /\ row.tag = None => t \in found \cup {None}
       /\ t = None => row.tag = None /\ found = {}
  BY <1>3, <1>9, <1>10
<1>14. t # None => x = Closed
  BY <1>2, <1>10, <1>12, <1>13, TaxonomiesAssumption
<1>15. new \in TypedRows(exist)
  BY <1>6, <1>8, <1>9, <1>11, <1>12, <1>13, <1>14 DEF TypedRows
<1>16. new \in LinkedRows(table, exist)
  BY <1>8, <1>13, <1>15 DEF LinkedRows
<1>17. /\ found \subseteq WithValue(table, row.value)
       /\ x = Closed => found = WithValue(table, row.value)
  BY <1>2
<1>18. /\ new.object = row.object /\ new.exportId = row.exportId /\ new.value = v
       /\ new.tag = t /\ new.taxonomy = x
  BY <1>8
<1>19. new = row => x = row.taxonomy
  BY <1>18
<1>20. ~ (row.taxonomy = None /\ row.exportId \in exist /\ x = row.taxonomy)
  BY <1>6, <1>12, TaxonomiesAssumption DEF AllTaxonomies
<1>21. QED  BY <1>4, <1>5, <1>12, <1>13, <1>16, <1>17, <1>18, <1>19, <1>20

\* Tags and taxonomies that come do rows no harm.
LEMMA RowsStay ==
    ASSUME NEW rows, NEW last \in Nat, NEW table, NEW exist, AreRows(rows, last, table, exist),
           NEW last2 \in Nat, last <= last2, NEW table2, DOMAIN table \subseteq DOMAIN table2,
           NEW exist2, exist \subseteq exist2
    PROVE  AreRows(rows, last2, table2, exist2)
<1>1. LinkedRows(table, exist) \subseteq LinkedRows(table2, exist2)
  BY DEF LinkedRows, TypedRows
<1>2. 1 .. last \subseteq 1 .. last2
  OBVIOUS
<1>3. rows \in [DOMAIN rows -> LinkedRows(table2, exist2)]
  BY <1>1 DEF AreRows
<1>4. QED  BY <1>2, <1>3 DEF AreRows

\* Some of the rows, too.
LEMMA RowsLeft ==
    ASSUME NEW rows, NEW last, NEW table, NEW exist, AreRows(rows, last, table, exist),
           NEW D \in SUBSET DOMAIN rows
    PROVE  AreRows(Restrict(rows, D), last, table, exist)
<1>1. PICK new : new = [p \in D |-> rows[p]]
  OBVIOUS
<1>2. new \in [DOMAIN new -> LinkedRows(table, exist)] /\ DOMAIN new \subseteq 1 .. last
  BY <1>1 DEF AreRows
<1>3. IsUnique(new)
  BY <1>1 DEF AreRows, IsUnique
<1>4. QED  BY <1>1, <1>2, <1>3 DEF AreRows, Restrict

\* Links are taken away from rows, nothing else.
LEMMA UnlinkedRows ==
    ASSUME NEW rows, NEW last, NEW table, NEW exist, AreRows(rows, last, table, exist),
           NEW left, None \notin DOMAIN left, NEW stay, None \notin stay,
           Closed \in exist => Closed \in stay \/ DOMAIN left = {}
    PROVE  LET new == Unlinked(rows, left, stay)
           IN  /\ AreRows(new, last, left, stay) /\ DOMAIN new = DOMAIN rows
               /\ \A p \in DOMAIN rows :
                    /\ new[p].object = rows[p].object /\ new[p].exportId = rows[p].exportId
                    /\ new[p].value = rows[p].value
                    /\ rows[p].tag \in DOMAIN left => new[p].tag = rows[p].tag
                    /\ rows[p].tag \notin DOMAIN left => new[p].tag = None
<1>1. PICK new : new = Unlinked(rows, left, stay)
  OBVIOUS
<1> DEFINE Tag(p) == IF rows[p].tag \in DOMAIN left THEN rows[p].tag ELSE None
           Taxonomy(p) == IF rows[p].taxonomy \in stay THEN rows[p].taxonomy ELSE None
<1>2. \A p \in DOMAIN rows : rows[p] \in LinkedRows(table, exist)
  BY DEF AreRows
<1>3. \A p \in DOMAIN rows :
        new[p] = [rows[p] EXCEPT !.tag = Tag(p), !.taxonomy = Taxonomy(p)]
  BY <1>1 DEF Unlinked
<1>4. ASSUME NEW p \in DOMAIN rows
      PROVE  new[p] = [object |-> rows[p].object, taxonomy |-> Taxonomy(p),
                       exportId |-> rows[p].exportId, tag |-> Tag(p),
                       value |-> rows[p].value, copied |-> rows[p].copied]
  <2>1. PICK row \in LinkedRows(table, exist) : row = rows[p]
    BY <1>2
  <2>2. row = [object |-> row.object, taxonomy |-> row.taxonomy, exportId |-> row.exportId,
               tag |-> row.tag, value |-> row.value, copied |-> row.copied]
    BY DEF LinkedRows, TypedRows
  <2>3. PICK t, x : t = Tag(p) /\ x = Taxonomy(p)
    OBVIOUS
  <2>4. new[p] = [row EXCEPT !.tag = t, !.taxonomy = x]
    BY <1>3, <2>1, <2>3
  <2>5. new[p] = [object |-> row.object, taxonomy |-> x, exportId |-> row.exportId,
                  tag |-> t, value |-> row.value, copied |-> row.copied]
    BY <2>2, <2>4
  <2>6. QED  BY <2>1, <2>3, <2>5
<1>5. ASSUME NEW p \in DOMAIN rows PROVE new[p] \in LinkedRows(left, stay)
  <2>1. PICK row \in LinkedRows(table, exist) : row = rows[p]
    BY <1>2
  <2>2. PICK t, x : t = Tag(p) /\ x = Taxonomy(p)
    OBVIOUS
  <2>3. /\ row.object \in Objects /\ row.taxonomy \in exist \cup {None}
        /\ row.exportId \in AllTaxonomies /\ row.tag \in Nat \cup {None}
        /\ row.value \in Values \cup {Empty} /\ row.copied \in BOOLEAN
        /\ row.taxonomy \in {row.exportId, None} /\ (row.tag # None => row.taxonomy = Closed)
    BY DEF LinkedRows, TypedRows
  <2>4. t \in DOMAIN left \cup {None} /\ t \in Nat \cup {None} /\ x \in stay \cup {None}
        /\ x \in {row.exportId, None}
    BY <2>1, <2>2, <2>3
  <2>5. t # None => x = Closed
    BY <2>1, <2>2, <2>3, TaxonomiesAssumption
  <2>6. new[p] = [object |-> row.object, taxonomy |-> x, exportId |-> row.exportId,
                  tag |-> t, value |-> row.value, copied |-> row.copied]
    BY <1>4, <2>1, <2>2
  <2>7. QED  BY <2>3, <2>4, <2>5, <2>6 DEF LinkedRows, TypedRows
<1>6. ASSUME NEW p \in DOMAIN rows
      PROVE  /\ new[p].object = rows[p].object /\ new[p].exportId = rows[p].exportId
             /\ new[p].value = rows[p].value
             /\ new[p].tag = Tag(p) /\ new[p].taxonomy = Taxonomy(p)
  <2>1. PICK t, x : t = Tag(p) /\ x = Taxonomy(p)
    OBVIOUS
  <2>2. new[p] = [object |-> rows[p].object, taxonomy |-> x, exportId |-> rows[p].exportId,
                  tag |-> t, value |-> rows[p].value, copied |-> rows[p].copied]
    BY <1>4, <2>1
  <2>3. QED  BY <2>1, <2>2
<1>7. DOMAIN new = DOMAIN rows /\ new = [p \in DOMAIN rows |-> new[p]]
  BY <1>1 DEF Unlinked
<1>8. IsUnique(new)
  <2>1. ASSUME NEW p \in DOMAIN rows, NEW q \in DOMAIN rows, p # q,
               new[p].object = new[q].object, new[p].taxonomy = new[q].taxonomy,
               new[p].taxonomy # None
        PROVE  /\ new[p].value # new[q].value
               /\ new[p].tag # new[q].tag \/ new[p].tag = None
    <3>1. rows[p].object = rows[q].object /\ rows[p].taxonomy = rows[q].taxonomy
          /\ rows[p].taxonomy # None
      BY <1>6, <2>1
    <3>2. rows[p].value # rows[q].value /\ (rows[p].tag # rows[q].tag \/ rows[p].tag = None)
      BY <2>1, <3>1 DEF AreRows, IsUnique
    <3>3. QED  BY <1>6, <3>2
  <2>2. QED  BY <1>7, <2>1 DEF IsUnique
<1>9. new \in [DOMAIN new -> LinkedRows(left, stay)] /\ DOMAIN new \subseteq 1 .. last
  BY <1>5, <1>7 DEF AreRows
<1>10. QED  BY <1>1, <1>6, <1>7, <1>8, <1>9 DEF AreRows

(***************************************************************************)
(* resync_object_tags                                                      *)
(***************************************************************************)
\* What it saves of a row.
LEMMA ResyncStep ==
    ASSUME NEW table, NEW last, KeysAreOld(table, last), NEW exist, NEW D, NEW p \in D,
           NEW result \in [rows : [D -> LinkedRows(table, exist)], ok : BOOLEAN],
           NEW new, new = [result.rows EXCEPT ![p] = Resynced(result.rows[p], table, exist)],
           NEW next, next = SaveResynced(result, p, table, exist)
    PROVE  /\ new \in [D -> LinkedRows(table, exist)]
           /\ next = IF result.ok /\ IsUnique(new)
                        THEN [rows |-> new, ok |-> TRUE]
                        ELSE [rows |-> result.rows, ok |-> FALSE]
           /\ next \in [rows : [D -> LinkedRows(table, exist)], ok : BOOLEAN]
<1>1. result.rows \in [D -> LinkedRows(table, exist)] /\ result.ok \in BOOLEAN
      /\ result = [rows |-> result.rows, ok |-> result.ok]
  OBVIOUS
<1>2. Resynced(result.rows[p], table, exist) \in LinkedRows(table, exist)
  BY <1>1, ResyncedRow
<1>3. new \in [D -> LinkedRows(table, exist)]
  BY <1>1, <1>2
<1>4. [result EXCEPT !.ok = FALSE] = [rows |-> result.rows, ok |-> FALSE]
  <2>1. PICK A : A = [D -> LinkedRows(table, exist)]
    OBVIOUS
  <2>2. result \in [rows : A, ok : BOOLEAN]
    BY <2>1
  <2>3. PICK o : o = FALSE
    OBVIOUS
  <2>4. [result EXCEPT !.ok = o] = [rows |-> result.rows, ok |-> o]
    BY <2>2
  <2>5. QED  BY <2>3, <2>4
<1>5. next = IF result.ok /\ IsUnique(new)
               THEN [rows |-> new, ok |-> TRUE]
               ELSE [rows |-> result.rows, ok |-> FALSE]
  BY <1>4 DEF SaveResynced
<1>6. QED  BY <1>1, <1>3, <1>5

\* The states of the loop, one by one.
IsLoopOf(Q, rows, table, exist, new, n, order, r) ==
    /\ n \in Nat /\ order \in [1 .. n -> Q]
    /\ \A i, j \in 1 .. n : i # j => order[i] # order[j]
    /\ \A p \in Q : \E i \in 1 .. n : order[i] = p
    /\ r[0] = [rows |-> rows, ok |-> TRUE] /\ new = r[n].rows
    /\ \A k \in 1 .. n : r[k] = SaveResynced(r[k - 1], order[k], table, exist)

LEMMA ResyncRuns ==
    ASSUME NEW rows, NEW S \in SUBSET DOMAIN rows, IsFiniteSet(DOMAIN rows),
           NEW table, NEW last, KeysAreOld(table, last), NEW exist,
           rows \in [DOMAIN rows -> LinkedRows(table, exist)],
           NEW new \in ResyncOrders(rows, S, table, exist)
    PROVE  \E n, order, r :
             IsLoopOf(OutOfSync(rows, S, table, exist), rows, table, exist, new, n, order, r)
<1>1. PICK Q : Q = OutOfSync(rows, S, table, exist)
  OBVIOUS
<1>2. Q \subseteq DOMAIN rows /\ IsFiniteSet(Q)
  BY <1>1, FS_Subset DEF OutOfSync
<1>3. PICK start : start = [rows |-> rows, ok |-> TRUE]
  OBVIOUS
<1>4. PICK order \in SetToSeqs(Q) :
        new = FoldLeft(LAMBDA result, p : SaveResynced(result, p, table, exist),
                       start, order).rows
  BY <1>1, <1>3 DEF ResyncOrders
<1>5. PICK n \in Nat :
        /\ order \in [1 .. n -> Q]
        /\ \A i, j \in 1 .. n : i # j => order[i] # order[j]
        /\ \A e \in Q : \E i \in 1 .. n : order[i] = e
  BY <1>2, OrdersAreOfAll
<1> DEFINE IsLoop(h) ==
             h = [s \in SUBSET (1 .. n) |->
                    IF s = {} THEN start
                    ELSE SaveResynced(h[s \ {Max(s)}], order[Max(s)], table, exist)]
<1>6. PICK f : f = CHOOSE h : IsLoop(h)
  OBVIOUS
<1>7. new = f[1 .. n].rows
  <2>1. DOMAIN order = 1 .. n
    BY <1>5
  <2>2. QED  BY <1>4, <1>6, <2>1 DEF FoldLeft, MapThenFoldSet
<1>8. \E h : IsLoop(h)
  <2>1. PICK X : X = [rows : [DOMAIN rows -> LinkedRows(table, exist)], ok : BOOLEAN]
    OBVIOUS
  <2>2. start \in X
    BY <1>3, <2>1
  <2>3. PICK G : G = [q \in (1 .. n) \X X |-> SaveResynced(q[2], order[q[1]], table, exist)]
    OBVIOUS
  <2>4. ASSUME NEW m \in 1 .. n, NEW result \in X
        PROVE  SaveResynced(result, order[m], table, exist) \in X
    <3>1. PICK p \in DOMAIN rows : p = order[m]
      BY <1>2, <1>5
    <3>2. PICK saved, next :
            /\ saved = [result.rows EXCEPT ![p] = Resynced(result.rows[p], table, exist)]
            /\ next = SaveResynced(result, p, table, exist)
      OBVIOUS
    <3>3. next \in X
      BY <2>1, <3>2, ResyncStep
    <3>4. QED  BY <3>1, <3>2, <3>3
  <2>5. G \in [(1 .. n) \X X -> X]
    BY <2>3, <2>4
  <2>6. PICK h \in [SUBSET (1 .. n) -> X] : IsFold(h, n, start, G)
    BY <2>2, <2>5, FoldsExist
  <2>7. ASSUME NEW s \in SUBSET (1 .. n)
        PROVE  h[s] = IF s = {} THEN start
                      ELSE SaveResynced(h[s \ {Max(s)}], order[Max(s)], table, exist)
    <3>1. h[s] = IF s = {} THEN start ELSE G[<<Max(s), h[s \ {Max(s)}]>>]
      BY <2>6 DEF IsFold
    <3>2. ASSUME s # {}
          PROVE  G[<<Max(s), h[s \ {Max(s)}]>>] =
                   SaveResynced(h[s \ {Max(s)}], order[Max(s)], table, exist)
      <4>1. PICK m : m = Max(s)
        OBVIOUS
      <4>2. m \in 1 .. n
        BY <3>2, <4>1, GreatestNumber
      <4>3. PICK result \in X : result = h[s \ {m}]
        BY <2>6
      <4>4. <<m, result>> \in (1 .. n) \X X
        BY <4>2
      <4>5. G[<<m, result>>] = SaveResynced(result, order[m], table, exist)
        BY <2>3, <4>4
      <4>6. QED  BY <4>1, <4>3, <4>5
    <3>3. QED  BY <3>1, <3>2
  <2>8. IsLoop(h)
    BY <2>6, <2>7 DEF IsFold
  <2>9. QED  BY <2>8
<1>9. IsLoop(f)
  BY <1>6, <1>8
<1>10. PICK r : r = [k \in 0 .. n |-> f[1 .. k]]
  OBVIOUS
<1>11. r[0] = start
  <2>1. 0 \in 0 .. n /\ 1 .. 0 = {} /\ 1 .. 0 \in SUBSET (1 .. n)
    BY FirstNumbers
  <2>2. QED  BY <1>9, <1>10, <2>1
<1>12. ASSUME NEW k \in 1 .. n
       PROVE  r[k] = SaveResynced(r[k - 1], order[k], table, exist)
  <2>1. k \in 0 .. n /\ k - 1 \in 0 .. n
    OBVIOUS
  <2>2. 1 .. k \in SUBSET (1 .. n) /\ 1 .. k # {}
        /\ Max(1 .. k) = k /\ (1 .. k) \ {k} = 1 .. k - 1
    BY FirstNumbers
  <2>3. f[1 .. k] = SaveResynced(f[1 .. k - 1], order[k], table, exist)
    BY <1>9, <2>2
  <2>4. QED  BY <1>10, <2>1, <2>3
<1>13. r[n] = f[1 .. n]
  BY <1>10
<1>14. IsLoopOf(Q, rows, table, exist, new, n, order, r)
  BY <1>3, <1>5, <1>7, <1>11, <1>12, <1>13 DEF IsLoopOf
<1>15. QED  BY <1>1, <1>14

\* A row that the loop could not save: it is as it was, and would not be unique.
IsStuck(new, rows, p, table, exist) ==
    /\ new[p] = rows[p]
    /\ ~ IsUnique([new EXCEPT ![p] = Resynced(rows[p], table, exist)])

\* All that changes has been saved, or a row could not be.
LEMMA ResyncedRows ==
    ASSUME NEW rows, NEW lastId \in Nat, NEW table, NEW last, KeysAreOld(table, last), NEW exist,
           AreRows(rows, lastId, table, exist), NEW S \in SUBSET DOMAIN rows,
           NEW new \in ResyncOrders(rows, S, table, exist)
    PROVE  /\ AreRows(new, lastId, table, exist)
           /\ DOMAIN new = DOMAIN rows
           /\ \A p \in DOMAIN rows : /\ new[p] \in {rows[p], Resynced(rows[p], table, exist)}
                                     /\ p \notin S => new[p] = rows[p]
           /\ \/ \A p \in S : new[p] = Resynced(rows[p], table, exist)
              \/ \E p \in OutOfSync(rows, S, table, exist) : IsStuck(new, rows, p, table, exist)
<1>1. PICK D, Q : D = DOMAIN rows /\ Q = OutOfSync(rows, S, table, exist)
  OBVIOUS
<1>2. IsFiniteSet(D) /\ Q \subseteq D /\ rows \in [D -> LinkedRows(table, exist)]
  <2>1. IsFiniteSet(1 .. lastId) /\ D \subseteq 1 .. lastId
    BY <1>1, FS_Interval DEF AreRows
  <2>2. QED  BY <1>1, <2>1, FS_Subset DEF AreRows, OutOfSync
<1>3. PICK n, order, r : IsLoopOf(Q, rows, table, exist, new, n, order, r)
  BY <1>1, <1>2, ResyncRuns
<1>4. /\ n \in Nat /\ order \in [1 .. n -> Q]
      /\ \A i, j \in 1 .. n : i # j => order[i] # order[j]
      /\ \A p \in Q : \E i \in 1 .. n : order[i] = p
      /\ r[0] = [rows |-> rows, ok |-> TRUE] /\ new = r[n].rows
      /\ \A k \in 1 .. n : r[k] = SaveResynced(r[k - 1], order[k], table, exist)
  BY <1>3 DEF IsLoopOf
<1>5. PICK X : X = [rows : [D -> LinkedRows(table, exist)], ok : BOOLEAN]
  OBVIOUS
<1> DEFINE R(p) == Resynced(rows[p], table, exist)
           Goes(s, k) ==
             /\ s \in X /\ IsUnique(s.rows)
             /\ \A p \in D : /\ s.rows[p] \in {rows[p], R(p)}
                             /\ p \notin Q => s.rows[p] = rows[p]
             /\ s.ok => \A i \in 1 .. n :
                          s.rows[order[i]] = IF i <= k THEN R(order[i]) ELSE rows[order[i]]
             /\ ~ s.ok => \E p \in Q : IsStuck(s.rows, rows, p, table, exist)
           T == {k \in 0 .. n : Goes(r[k], k)}
<1>6. 0 \in T
  <2>1. PICK s : s = r[0]
    OBVIOUS
  <2>2. s \in X /\ s.rows = rows /\ s.ok
    BY <1>2, <1>4, <1>5, <2>1
  <2>3. IsUnique(s.rows)
    BY <2>2 DEF AreRows
  <2>4. \A i \in 1 .. n : ~ (i <= 0)
    OBVIOUS
  <2>5. Goes(s, 0)
    BY <2>2, <2>3, <2>4
  <2>6. QED  BY <1>4, <2>1, <2>5
<1>7. ASSUME NEW k \in 0 .. n - 1, k \in T PROVE k + 1 \in T
  <2>1. PICK m \in 1 .. n : m = k + 1
    BY <1>4
  <2>2. m - 1 = k /\ m \in 0 .. n /\ ~ (m <= k) /\ \A i \in 1 .. n : i <= m <=> i <= k \/ i = m
    BY <2>1
  <2>3. PICK s, next : s = r[k] /\ next = r[m]
    OBVIOUS
  <2>4. Goes(s, k)
    BY <1>7, <2>3
  <2>5. PICK p \in Q : p = order[m]
    BY <1>4
  <2>6. next = SaveResynced(s, p, table, exist) /\ p \in D
    BY <1>2, <1>4, <2>2, <2>3, <2>5
  <2>7. PICK saved : saved = [s.rows EXCEPT ![p] = Resynced(s.rows[p], table, exist)]
    OBVIOUS
  <2>8. /\ saved \in [D -> LinkedRows(table, exist)]
        /\ next = IF s.ok /\ IsUnique(saved)
                    THEN [rows |-> saved, ok |-> TRUE]
                    ELSE [rows |-> s.rows, ok |-> FALSE]
        /\ next \in X
    BY <1>5, <2>4, <2>6, <2>7, ResyncStep
  <2>9. s.rows \in [D -> LinkedRows(table, exist)]
    BY <1>5, <2>4
  <2>10. ASSUME s.ok PROVE s.rows[p] = rows[p]
    BY <2>2, <2>4, <2>5, <2>10
  <2>11. CASE s.ok /\ IsUnique(saved)
    <3>1. next.rows = saved /\ next.ok
      BY <2>8, <2>11
    <3>2. saved[p] = R(p) /\ \A q \in D \ {p} : saved[q] = s.rows[q]
      BY <2>6, <2>7, <2>9, <2>10, <2>11
    <3>3. \A q \in D : saved[q] \in {rows[q], R(q)} /\ (q \notin Q => saved[q] = rows[q])
      BY <2>4, <3>2
    <3>4. ASSUME NEW i \in 1 .. n
          PROVE  saved[order[i]] = IF i <= m THEN R(order[i]) ELSE rows[order[i]]
      <4>1. CASE i = m
        BY <2>2, <2>5, <3>2, <4>1
      <4>2. CASE i # m
        <5>1. order[i] \in D \ {p}
          BY <1>2, <1>4, <2>5, <4>2
        <5>2. s.rows[order[i]] = IF i <= k THEN R(order[i]) ELSE rows[order[i]]
          BY <2>4, <2>11
        <5>3. QED  BY <2>2, <3>2, <4>2, <5>1, <5>2
      <4>3. QED  BY <4>1, <4>2
    <3>5. Goes(next, m)
      BY <2>8, <2>11, <3>1, <3>3, <3>4
    <3>6. QED  BY <2>1, <2>2, <2>3, <3>5
  <2>12. CASE ~ (s.ok /\ IsUnique(saved))
    <3>1. next.rows = s.rows /\ ~ next.ok
      BY <2>8, <2>12
    <3>2. \E q \in Q : IsStuck(s.rows, rows, q, table, exist)
      <4>1. CASE ~ s.ok
        BY <2>4, <4>1
      <4>2. CASE s.ok
        <5>1. ~ IsUnique(saved) /\ s.rows[p] = rows[p]
          BY <2>10, <2>12, <4>2
        <5>2. IsStuck(s.rows, rows, p, table, exist)
          BY <2>7, <5>1 DEF IsStuck
        <5>3. QED  BY <5>2
      <4>3. QED  BY <4>1, <4>2
    <3>3. Goes(next, m)
      BY <2>4, <2>8, <3>1, <3>2
    <3>4. QED  BY <2>1, <2>2, <2>3, <3>3
  <2>13. QED  BY <2>11, <2>12
<1> HIDE DEF T
<1>8. \A k \in 0 .. n : k \in T
  BY <1>4, <1>6, <1>7, UpTo
<1>9. PICK s : s = r[n]
  OBVIOUS
<1>10. Goes(s, n) /\ new = s.rows
  <2>1. n \in T
    BY <1>4, <1>8
  <2>2. QED  BY <1>4, <1>9, <2>1 DEF T
<1>11. new \in [D -> LinkedRows(table, exist)] /\ IsUnique(new)
  BY <1>5, <1>10
<1>12. AreRows(new, lastId, table, exist) /\ DOMAIN new = D
  BY <1>1, <1>11 DEF AreRows
<1>13. ASSUME s.ok, NEW p \in S PROVE new[p] = R(p)
  <2>1. CASE p \in Q
    <3>1. PICK i \in 1 .. n : order[i] = p
      BY <1>4, <2>1
    <3>2. QED  BY <1>10, <1>13, <3>1
  <2>2. CASE p \notin Q
    <3>1. R(p) = rows[p]
      BY <1>1, <2>2 DEF OutOfSync
    <3>2. QED  BY <1>1, <1>10, <3>1
  <2>3. QED  BY <2>1, <2>2
<1>14. \A p \in D : p \notin S => p \notin Q
  BY <1>1 DEF OutOfSync
<1>15. QED  BY <1>1, <1>10, <1>12, <1>13, <1>14

\* InStep and Takes, for given tags and taxonomies.
IsInStep(row, table, exist) ==
    /\ row.exportId \in exist => row.taxonomy # None
    /\ row.taxonomy = Closed =>
         IF row.tag # None THEN row.value = table[row.tag].value
                           ELSE WithValue(table, row.value) = {}

IsTakenBy(p, q, table) ==
    \/ q.value = ValueOf(table, p)
    \/ p.tag = None /\ q.tag \in WithValue(table, p.value)

\* Just the rows that are out of step change.
LEMMA ResyncedIsInStep ==
    ASSUME NEW table, NEW last, KeysAreOld(table, last),
           NEW exist \in SUBSET AllTaxonomies, NEW row \in LinkedRows(table, exist)
    PROVE  /\ IsInStep(Resynced(row, table, exist), table, exist)
           /\ Resynced(row, table, exist) # row => ~ IsInStep(row, table, exist)
<1>1. PICK new : new = Resynced(row, table, exist)
  OBVIOUS
<1>2. /\ new \in LinkedRows(table, exist)
      /\ new.object = row.object /\ new.exportId = row.exportId
      /\ new.value = ValueOf(table, row)
      /\ row.tag # None => new.tag = row.tag
      /\ row.tag = None => new.tag \in WithValue(table, row.value) \cup {None}
      /\ row.taxonomy # None => new.taxonomy = row.taxonomy
      /\ row.taxonomy = None /\ row.exportId \in exist => new.taxonomy = row.exportId
      /\ new.taxonomy = Closed /\ new.tag = None => WithValue(table, row.value) = {}
  BY <1>1, ResyncedRow
<1>3. /\ row.exportId \in AllTaxonomies /\ None \notin AllTaxonomies
      /\ row.taxonomy \in {row.exportId, None} /\ (row.tag # None => row.taxonomy = Closed)
      /\ row.tag \in DOMAIN table \cup {None} /\ row.taxonomy \in exist \cup {None}
  BY TaxonomiesAssumption DEF LinkedRows, TypedRows, AllTaxonomies
<1>4. None \notin DOMAIN table
  BY KeysOfTables
<1>5. IsInStep(new, table, exist)
  <2>1. new.exportId \in exist => new.taxonomy # None
    BY <1>2, <1>3
  <2>2. ASSUME new.taxonomy = Closed, new.tag # None PROVE new.value = table[new.tag].value
    <3>1. CASE row.tag # None
      BY <1>2, <3>1 DEF ValueOf
    <3>2. CASE row.tag = None
      BY <1>2, <2>2, <3>2 DEF ValueOf, WithValue
    <3>3. QED  BY <3>1, <3>2
  <2>3. ASSUME new.taxonomy = Closed, new.tag = None PROVE WithValue(table, new.value) = {}
    <3>1. row.tag = None
      BY <1>2, <2>3
    <3>2. QED  BY <1>2, <2>3, <3>1 DEF ValueOf
  <2>4. QED  BY <2>1, <2>2, <2>3 DEF IsInStep
<1>6. ASSUME IsInStep(row, table, exist) PROVE new = row
  <2>1. ~ (row.taxonomy = None /\ row.exportId \in exist)
    BY <1>6 DEF IsInStep
  <2>2. ValueOf(table, row) = row.value
    BY <1>3, <1>6 DEF IsInStep, ValueOf
  <2>3. PICK found : found = IF row.taxonomy = Closed THEN WithValue(table, row.value) ELSE {}
    OBVIOUS
  <2>4. ~ (row.tag = None /\ found # {})
    BY <1>6, <2>3 DEF IsInStep
  <2>5. new = [row EXCEPT !.exportId = row.exportId, !.taxonomy = row.taxonomy,
                          !.tag = row.tag, !.value = row.value]
    <3>1. (IF row.taxonomy # None THEN row.taxonomy ELSE row.exportId) = row.exportId
      BY <1>3
    <3>2. QED  BY <1>1, <2>1, <2>2, <2>3, <2>4, <3>1 DEF Resynced
  <2>6. row = [object |-> row.object, taxonomy |-> row.taxonomy, exportId |-> row.exportId,
               tag |-> row.tag, value |-> row.value, copied |-> row.copied]
    BY DEF LinkedRows, TypedRows
  <2>7. QED  BY <2>5, <2>6
<1>7. QED  BY <1>1, <1>5, <1>6

\* A row that is out of step is taken for one that the row that could not be
\* saved would have been like.
LEMMA StaleRowsAreTaken ==
    ASSUME NEW rows, NEW lastId \in Nat, NEW table, NEW last, KeysAreOld(table, last),
           NEW exist \in SUBSET AllTaxonomies, AreRows(rows, lastId, table, exist),
           NEW S \in SUBSET DOMAIN rows,
           \A p \in DOMAIN rows : rows[p].taxonomy = Closed => p \in S,
           NEW new \in ResyncOrders(rows, S, table, exist),
           NEW o \in DOMAIN new, new[o].taxonomy = Closed, ~ IsInStep(new[o], table, exist)
    PROVE  \E p, q \in DOMAIN new :
              /\ ~ IsInStep(new[p], table, exist)
              /\ q # p /\ new[q].object = new[p].object
              /\ new[q].taxonomy = new[p].exportId /\ IsTakenBy(new[p], new[q], table)
<1>1. /\ AreRows(new, lastId, table, exist) /\ DOMAIN new = DOMAIN rows
      /\ \A p \in DOMAIN rows : /\ new[p] \in {rows[p], Resynced(rows[p], table, exist)}
                                /\ p \notin S => new[p] = rows[p]
      /\ \/ \A p \in S : new[p] = Resynced(rows[p], table, exist)
         \/ \E p \in OutOfSync(rows, S, table, exist) : IsStuck(new, rows, p, table, exist)
  BY ResyncedRows
<1>2. \A p \in DOMAIN rows :
         rows[p] \in LinkedRows(table, exist) /\ new[p] \in LinkedRows(table, exist)
  BY <1>1 DEF AreRows
<1>3. o \in S
  <2>1. ASSUME o \notin S PROVE FALSE
    <3>1. o \in DOMAIN rows /\ new[o] = rows[o]
      BY <1>1, <2>1, Zenon
    <3>2. rows[o].taxonomy = Closed
      BY <3>1
    <3>3. QED  BY <2>1, <3>1, <3>2
  <2>2. QED  BY <2>1
<1>4. new[o] # Resynced(rows[o], table, exist)
  <2>1. PICK row \in LinkedRows(table, exist) : row = rows[o]
    BY <1>1, <1>2
  <2>2. IsInStep(Resynced(row, table, exist), table, exist)
    BY <2>1, ResyncedIsInStep
  <2>3. QED  BY <2>1, <2>2
<1>5. PICK p \in OutOfSync(rows, S, table, exist) : IsStuck(new, rows, p, table, exist)
  BY <1>1, <1>3, <1>4
<1>6. PICK row, next : row = rows[p] /\ next = Resynced(row, table, exist)
  OBVIOUS
<1>7. /\ p \in DOMAIN new /\ row \in LinkedRows(table, exist)
      /\ next # row /\ new[p] = row
      /\ ~ IsUnique([new EXCEPT ![p] = next])
  BY <1>1, <1>2, <1>5, <1>6 DEF OutOfSync, IsStuck
<1>8. PICK all : all = [new EXCEPT ![p] = next]
  OBVIOUS
<1>9. /\ DOMAIN all = DOMAIN new /\ all[p] = next
      /\ \A q \in DOMAIN new \ {p} : all[q] = new[q]
  BY <1>7, <1>8
<1>10. \E q \in DOMAIN new \ {p} :
         /\ new[q].object = next.object /\ new[q].taxonomy = next.taxonomy /\ next.taxonomy # None
         /\ new[q].value = next.value \/ (new[q].tag = next.tag /\ next.tag # None)
  <2>1. PICK a \in DOMAIN new, b \in DOMAIN new :
          /\ a # b /\ all[a].object = all[b].object /\ all[a].taxonomy = all[b].taxonomy
          /\ all[a].taxonomy # None
          /\ all[a].value = all[b].value \/ (all[a].tag = all[b].tag /\ all[a].tag # None)
    BY <1>7, <1>8, <1>9 DEF IsUnique
  <2>2. a = p \/ b = p
    <3>1. ASSUME a # p, b # p PROVE FALSE
      <4>1. all[a] = new[a] /\ all[b] = new[b]
        BY <1>9, <3>1
      <4>2. QED  BY <1>1, <2>1, <4>1 DEF AreRows, IsUnique
    <3>2. QED  BY <3>1
  <2>3. CASE a = p
    <3>1. all[b] = new[b] /\ all[a] = next
      BY <1>9, <2>1, <2>3
    <3>2. QED  BY <2>1, <2>3, <3>1
  <2>4. CASE b = p
    <3>1. all[a] = new[a] /\ all[b] = next
      BY <1>9, <2>1, <2>4
    <3>2. QED  BY <2>1, <2>4, <3>1
  <2>5. QED  BY <2>2, <2>3, <2>4
<1>11. PICK q \in DOMAIN new \ {p} :
         /\ new[q].object = next.object /\ new[q].taxonomy = next.taxonomy /\ next.taxonomy # None
         /\ new[q].value = next.value \/ (new[q].tag = next.tag /\ next.tag # None)
  BY <1>10
<1>12. /\ next \in LinkedRows(table, exist)
       /\ next.object = row.object /\ next.exportId = row.exportId
       /\ next.value = ValueOf(table, row)
       /\ row.tag # None => next.tag = row.tag
       /\ row.tag = None => next.tag \in WithValue(table, row.value) \cup {None}
       /\ row.taxonomy # None => next.taxonomy = row.taxonomy
  BY <1>6, <1>7, ResyncedRow
<1>13. ~ IsInStep(row, table, exist)
  BY <1>6, <1>7, ResyncedIsInStep
<1>14. new[q].taxonomy = row.exportId
  BY <1>11, <1>12 DEF LinkedRows, TypedRows
<1>15. IsTakenBy(row, new[q], table)
  <2>1. CASE new[q].value = next.value
    BY <1>12, <2>1 DEF IsTakenBy
  <2>2. CASE new[q].tag = next.tag /\ next.tag # None
    <3>1. row.tag = None
      <4>1. ASSUME row.tag # None PROVE FALSE
        <5>1. row.taxonomy = Closed /\ next.tag = row.tag /\ next.taxonomy = row.taxonomy
          BY <1>7, <1>12, <4>1, TaxonomiesAssumption DEF LinkedRows, TypedRows
        <5>2. new[q].object = new[p].object /\ new[q].taxonomy = new[p].taxonomy
              /\ new[q].taxonomy # None /\ new[q].tag = new[p].tag /\ new[q].tag # None
          BY <1>7, <1>11, <1>12, <2>2, <5>1
        <5>3. QED  BY <1>1, <1>7, <1>11, <5>2 DEF AreRows, IsUnique
      <4>2. QED  BY <4>1
    <3>2. QED  BY <1>12, <2>2, <3>1 DEF IsTakenBy
  <2>3. QED  BY <1>11, <2>1, <2>2
<1>16. QED  BY <1>7, <1>11, <1>12, <1>13, <1>14, <1>15

\* What a call of tag_object has read.
IsCall(call, exist, last) ==
    /\ call.object \in Objects /\ call.taxonomy \in exist \cup {None}
    /\ call.exportId \in AllTaxonomies
    /\ call.taxonomy # None => call.exportId = call.taxonomy
    /\ call.asked \in Requests /\ DOMAIN call.tags \subseteq Nat
    /\ Cardinality(DOMAIN call.rows \ CurrentTags(call)) + Len(call.asked) <= TagLimit
    /\ call.rows \in [DOMAIN call.rows -> TypedRows(exist)]
    /\ DOMAIN call.rows \subseteq 1 .. last
    /\ \A p \in DOMAIN call.rows : call.rows[p].object = call.object

\* The strengthening of the type invariant.
TagsInv ==
    /\ taxonomies \subseteq AllTaxonomies
    /\ KeysAreOld(tags, lastTag)
    /\ Closed \notin taxonomies => DOMAIN tags = {}
    /\ lastRow \in Nat
    /\ AreRows(objectTags, lastRow, tags, taxonomies)
    /\ calls = [s \in Sessions |-> calls[s]]
    /\ \A s \in Sessions : calls[s] # NoCall => IsCall(calls[s], taxonomies, lastRow)

\* What TaxonomyEditsKeepObjectTags says of the rows.
RowsKept(rows, new, left) ==
    /\ DOMAIN new = DOMAIN rows
    /\ \A p \in DOMAIN rows :
         /\ new[p].object = rows[p].object /\ new[p].exportId = rows[p].exportId
         /\ rows[p].tag \in DOMAIN left => new[p].tag = rows[p].tag
         /\ rows[p].tag \notin DOMAIN left => new[p].value = rows[p].value

\* What ResyncedRowsAgree says of the rows.
StaleRowsTaken(rows, table, exist) ==
    (\E o \in DOMAIN rows : rows[o].taxonomy = Closed /\ ~ IsInStep(rows[o], table, exist))
    => \E p, q \in DOMAIN rows :
          /\ ~ IsInStep(rows[p], table, exist)
          /\ q # p /\ rows[q].object = rows[p].object
          /\ rows[q].taxonomy = rows[p].exportId /\ IsTakenBy(rows[p], rows[q], table)

LEMMA CallsStay ==
    ASSUME NEW call, NEW exist, NEW last \in Nat, IsCall(call, exist, last),
           NEW exist2, exist \subseteq exist2, NEW last2 \in Nat, last <= last2
    PROVE  IsCall(call, exist2, last2)
<1>1. TypedRows(exist) \subseteq TypedRows(exist2)
  BY DEF TypedRows
<1>2. 1 .. last \subseteq 1 .. last2
  OBVIOUS
<1>3. call.rows \in [DOMAIN call.rows -> TypedRows(exist2)]
  BY <1>1 DEF IsCall
<1>4. QED  BY <1>2, <1>3 DEF IsCall

LEMMA RowsAfterResync ==
    ASSUME NEW rows, NEW lastId \in Nat, NEW table, NEW last, KeysAreOld(table, last),
           NEW exist \in SUBSET AllTaxonomies, AreRows(rows, lastId, table, exist),
           NEW S \in SUBSET DOMAIN rows,
           \A p \in DOMAIN rows : rows[p].taxonomy = Closed => p \in S,
           NEW new \in ResyncOrders(rows, S, table, exist)
    PROVE  /\ AreRows(new, lastId, table, exist)
           /\ RowsKept(rows, new, table)
           /\ StaleRowsTaken(new, table, exist)
<1>1. /\ AreRows(new, lastId, table, exist) /\ DOMAIN new = DOMAIN rows
      /\ \A p \in DOMAIN rows : new[p] \in {rows[p], Resynced(rows[p], table, exist)}
  BY ResyncedRows
<1>2. ASSUME NEW p \in DOMAIN rows
      PROVE  /\ new[p].object = rows[p].object /\ new[p].exportId = rows[p].exportId
             /\ rows[p].tag \in DOMAIN table => new[p].tag = rows[p].tag
             /\ rows[p].tag \notin DOMAIN table => new[p].value = rows[p].value
  <2>1. PICK row, r, next :
          row = rows[p] /\ r = new[p] /\ next = Resynced(row, table, exist)
    OBVIOUS
  <2>2. row \in LinkedRows(table, exist) /\ r \in {row, next}
    BY <1>1, <2>1 DEF AreRows
  <2>3. /\ next.object = row.object /\ next.exportId = row.exportId
        /\ next.value = ValueOf(table, row)
        /\ row.tag # None => next.tag = row.tag
    BY <2>1, <2>2, ResyncedRow
  <2>4. None \notin DOMAIN table /\ row.tag \in DOMAIN table \cup {None}
    BY <2>2, KeysOfTables DEF LinkedRows
  <2>5. CASE r = row
    BY <2>1, <2>5
  <2>6. CASE r = next
    BY <2>1, <2>3, <2>4, <2>6 DEF ValueOf
  <2>7. QED  BY <2>2, <2>5, <2>6
<1>3. RowsKept(rows, new, table)
  BY <1>1, <1>2 DEF RowsKept
<1>4. StaleRowsTaken(new, table, exist)
  <2>1. ASSUME NEW o \in DOMAIN new, new[o].taxonomy = Closed, ~ IsInStep(new[o], table, exist)
        PROVE  \E p, q \in DOMAIN new :
                  /\ ~ IsInStep(new[p], table, exist)
                  /\ q # p /\ new[q].object = new[p].object
                  /\ new[q].taxonomy = new[p].exportId /\ IsTakenBy(new[p], new[q], table)
    BY <2>1, StaleRowsAreTaken
  <2>2. QED  BY <2>1 DEF StaleRowsTaken
<1>5. QED  BY <1>1, <1>3, <1>4

\* The rows that are resynchronised after a call that edits the closed taxonomy.
LEMMA RowsAfterResyncClosed ==
    ASSUME NEW rows, NEW lastId \in Nat, NEW table, NEW last, KeysAreOld(table, last),
           taxonomies \in SUBSET AllTaxonomies, AreRows(rows, lastId, table, taxonomies),
           NEW new, new \in ResyncClosed(rows, table)
    PROVE  /\ AreRows(new, lastId, table, taxonomies)
           /\ RowsKept(rows, new, table)
           /\ StaleRowsTaken(new, table, taxonomies)
<1>1. PICK C : C = {p \in DOMAIN rows : rows[p].taxonomy = Closed}
  OBVIOUS
<1>2. PICK S : S = IF C = {} THEN DOMAIN rows ELSE C
  OBVIOUS
<1>3. new \in ResyncOrders(rows, S, table, taxonomies)
  BY <1>1, <1>2 DEF ResyncClosed
<1>4. S \in SUBSET DOMAIN rows /\ \A p \in DOMAIN rows : rows[p].taxonomy = Closed => p \in S
  BY <1>1, <1>2
<1>5. QED  BY <1>3, <1>4, RowsAfterResync

\* What edits of the taxonomy are to keep.
NothingNamed(table, new) ==
    /\ DOMAIN new \subseteq DOMAIN table
    /\ \A t \in DOMAIN new : new[t].value = table[t].value

Edited ==
    /\ TagsInv'
    /\ RowsKept(objectTags, objectTags', tags')
    /\ NothingNamed(tags, tags') \/ StaleRowsTaken(objectTags', tags', taxonomies')

LEMMA CallsOfAllStay ==
    ASSUME TagsInv, UNCHANGED calls, taxonomies \subseteq taxonomies',
           lastRow' \in Nat, lastRow <= lastRow'
    PROVE  /\ calls' = [s \in Sessions |-> calls'[s]]
           /\ \A s \in Sessions : calls'[s] # NoCall => IsCall(calls'[s], taxonomies', lastRow')
<1>1. ASSUME NEW s \in Sessions, calls[s] # NoCall PROVE IsCall(calls[s], taxonomies', lastRow')
  <2>1. IsCall(calls[s], taxonomies, lastRow) /\ lastRow \in Nat
    BY <1>1 DEF TagsInv
  <2>2. QED  BY <2>1, CallsStay
<1>2. QED  BY <1>1 DEF TagsInv

LEMMA AddTagKeepsRows ==
    ASSUME TagsInv, AddTagToTaxonomy, UNCHANGED calls
    PROVE  Edited
<1>1. PICK v \in Values, parentValue \in Values \cup {None} :
        tags' \in AddTag(tags, lastTag + 1, v, parentValue, None)
  BY DEF AddTagToTaxonomy
<1>2. /\ Closed \in taxonomies /\ lastTag' = lastTag + 1 /\ UNCHANGED << taxonomies, lastRow >>
      /\ objectTags' \in ResyncClosed(objectTags, tags')
  BY DEF AddTagToTaxonomy
<1>3. /\ KeysAreOld(tags, lastTag) /\ lastRow \in Nat /\ taxonomies \in SUBSET AllTaxonomies
      /\ AreRows(objectTags, lastRow, tags, taxonomies)
  BY DEF TagsInv
<1>4. KeysAreOld(tags', lastTag')
  BY <1>1, <1>2, <1>3, AddedTag
<1>5. DOMAIN tags \subseteq DOMAIN tags'
  BY <1>1 DEF AddTag, Put
<1>6. AreRows(objectTags, lastRow, tags', taxonomies)
  BY <1>3, <1>5, RowsStay
<1>7. /\ AreRows(objectTags', lastRow, tags', taxonomies)
      /\ RowsKept(objectTags, objectTags', tags')
      /\ StaleRowsTaken(objectTags', tags', taxonomies)
  BY <1>2, <1>3, <1>4, <1>6, RowsAfterResyncClosed
<1>8. TagsInv'
  BY <1>2, <1>3, <1>4, <1>7, CallsOfAllStay DEF TagsInv
<1>9. QED  BY <1>2, <1>7, <1>8 DEF Edited

LEMMA UpdateTagKeepsRows ==
    ASSUME TagsInv, UpdateTagInTaxonomy, UNCHANGED calls
    PROVE  Edited
<1>1. PICK v \in Values, newValue \in Values : tags' \in UpdateTag(tags, v, newValue)
  BY DEF UpdateTagInTaxonomy
<1>2. /\ UNCHANGED << taxonomies, lastTag, lastRow >>
      /\ objectTags' \in ResyncClosed(objectTags, tags')
  BY DEF UpdateTagInTaxonomy
<1>3. /\ KeysAreOld(tags, lastTag) /\ lastRow \in Nat /\ taxonomies \in SUBSET AllTaxonomies
      /\ AreRows(objectTags, lastRow, tags, taxonomies)
  BY DEF TagsInv
<1>4. KeysAreOld(tags', lastTag') /\ DOMAIN tags' = DOMAIN tags
  BY <1>1, <1>2, <1>3, RenamedTag
<1>5. AreRows(objectTags, lastRow, tags', taxonomies)
  BY <1>3, <1>4, RowsStay
<1>6. /\ AreRows(objectTags', lastRow, tags', taxonomies)
      /\ RowsKept(objectTags, objectTags', tags')
      /\ StaleRowsTaken(objectTags', tags', taxonomies)
  BY <1>2, <1>3, <1>4, <1>5, RowsAfterResyncClosed
<1>7. TagsInv'
  BY <1>2, <1>3, <1>4, <1>6, CallsOfAllStay DEF TagsInv
<1>8. QED  BY <1>2, <1>6, <1>7 DEF Edited

\* Links are taken away from the rows, for the Tags and taxonomies that are left.
LEMMA UnlinkedRowsAreKept ==
    ASSUME NEW rows, NEW last, NEW table, NEW exist, AreRows(rows, last, table, exist),
           NEW left, None \notin DOMAIN left, NEW stay, None \notin stay,
           Closed \in exist => Closed \in stay \/ DOMAIN left = {},
           NEW new, new = Unlinked(rows, left, stay)
    PROVE  /\ AreRows(new, last, left, stay)
           /\ RowsKept(rows, new, left)
           /\ \A p \in DOMAIN rows : rows[p].tag \notin DOMAIN left => new[p].tag = None
<1>1. /\ AreRows(new, last, left, stay) /\ DOMAIN new = DOMAIN rows
      /\ \A p \in DOMAIN rows :
           /\ new[p].object = rows[p].object /\ new[p].exportId = rows[p].exportId
           /\ new[p].value = rows[p].value
           /\ rows[p].tag \in DOMAIN left => new[p].tag = rows[p].tag
           /\ rows[p].tag \notin DOMAIN left => new[p].tag = None
  BY UnlinkedRows
<1>2. QED  BY <1>1 DEF RowsKept

LEMMA DeleteTagsKeepsRows ==
    ASSUME TagsInv, DeleteTagsFromTaxonomy, UNCHANGED calls
    PROVE  Edited
<1>1. PICK V \in SUBSET Values, withSubtags \in BOOLEAN :
        tags' \in DeleteTags(tags, V, withSubtags)
  BY DEF DeleteTagsFromTaxonomy
<1>2. /\ UNCHANGED << taxonomies, lastTag, lastRow >>
      /\ objectTags' = Unlinked(objectTags, tags', taxonomies)
  BY DEF DeleteTagsFromTaxonomy
<1>3. /\ KeysAreOld(tags, lastTag) /\ lastRow \in Nat /\ taxonomies \in SUBSET AllTaxonomies
      /\ AreRows(objectTags, lastRow, tags, taxonomies)
      /\ Closed \notin taxonomies => DOMAIN tags = {}
  BY DEF TagsInv
<1>4. /\ KeysAreOld(tags', lastTag) /\ DOMAIN tags' \subseteq DOMAIN tags
      /\ \A t \in DOMAIN tags' : tags'[t] = tags[t]
  BY <1>1, <1>3, DeletedTags DEF ParentsStay
<1>5. None \notin DOMAIN tags' /\ None \notin taxonomies
  BY <1>3, <1>4, KeysOfTables, TaxonomiesAssumption DEF AllTaxonomies
<1>6. /\ AreRows(objectTags', lastRow, tags', taxonomies)
      /\ RowsKept(objectTags, objectTags', tags')
  BY <1>2, <1>3, <1>5, UnlinkedRowsAreKept
<1>7. TagsInv'
  BY <1>2, <1>3, <1>4, <1>6, CallsOfAllStay DEF TagsInv
<1>8. QED  BY <1>4, <1>6, <1>7 DEF Edited, NothingNamed

LEMMA CreateTaxonomyKeepsRows ==
    ASSUME TagsInv, CreateTaxonomy, UNCHANGED calls
    PROVE  Edited
<1>1. PICK x \in AllTaxonomies \ taxonomies : taxonomies' = taxonomies \cup {x}
  BY DEF CreateTaxonomy
<1>2. UNCHANGED << tags, lastTag, objectTags, lastRow >>
  BY DEF CreateTaxonomy
<1>3. /\ KeysAreOld(tags, lastTag) /\ lastRow \in Nat /\ taxonomies \in SUBSET AllTaxonomies
      /\ AreRows(objectTags, lastRow, tags, taxonomies)
      /\ Closed \notin taxonomies => DOMAIN tags = {}
  BY DEF TagsInv
<1>4. AreRows(objectTags', lastRow', tags', taxonomies')
  BY <1>1, <1>2, <1>3, RowsStay
<1>5. TagsInv'
  BY <1>1, <1>2, <1>3, <1>4, CallsOfAllStay DEF TagsInv
<1>6. RowsKept(objectTags, objectTags', tags')
  BY <1>2 DEF RowsKept
<1>7. QED  BY <1>2, <1>5, <1>6 DEF Edited, NothingNamed

LEMMA DeleteTaxonomyKeepsRows ==
    ASSUME TagsInv, DeleteTaxonomy, UNCHANGED calls
    PROVE  Edited
<1>1. PICK x \in taxonomies :
        taxonomies' = taxonomies \ {x} /\ tags' = IF x = Closed THEN NoTags ELSE tags
  BY DEF DeleteTaxonomy
<1>2. /\ UNCHANGED << lastTag, lastRow >> /\ objectTags' = Unlinked(objectTags, tags', taxonomies')
      /\ \A s \in Sessions : calls[s] = NoCall
  BY DEF DeleteTaxonomy
<1>3. /\ KeysAreOld(tags, lastTag) /\ lastRow \in Nat /\ taxonomies \in SUBSET AllTaxonomies
      /\ AreRows(objectTags, lastRow, tags, taxonomies)
      /\ Closed \notin taxonomies => DOMAIN tags = {}
  BY DEF TagsInv
<1>4. KeysAreOld(NoTags, lastTag) /\ DOMAIN NoTags = {}
  BY <1>3 DEF KeysAreOld, IsTable, NoTags
<1>5. KeysAreOld(tags', lastTag) /\ (Closed \notin taxonomies' => DOMAIN tags' = {})
  BY <1>1, <1>3, <1>4
<1>6. /\ None \notin DOMAIN tags' /\ None \notin taxonomies'
      /\ Closed \in taxonomies => Closed \in taxonomies' \/ DOMAIN tags' = {}
  BY <1>1, <1>3, <1>5, KeysOfTables, TaxonomiesAssumption DEF AllTaxonomies
<1>7. /\ AreRows(objectTags', lastRow, tags', taxonomies')
      /\ RowsKept(objectTags, objectTags', tags')
  BY <1>2, <1>3, <1>6, UnlinkedRowsAreKept
<1>8. calls' = [s \in Sessions |-> calls'[s]] /\ \A s \in Sessions : calls'[s] = NoCall
  BY <1>2 DEF TagsInv
<1>9. taxonomies' \subseteq AllTaxonomies
  BY <1>1, <1>3
<1>10. TagsInv'
  BY <1>2, <1>3, <1>5, <1>7, <1>8, <1>9 DEF TagsInv
<1>11. NothingNamed(tags, tags')
  BY <1>1, <1>4 DEF NothingNamed
<1>12. QED  BY <1>7, <1>10, <1>11 DEF Edited

LEMMA ResyncKeepsRows ==
    ASSUME TagsInv, ResyncObjectTags, UNCHANGED calls
    PROVE  Edited
<1>1. /\ objectTags' \in ResyncOrders(objectTags, DOMAIN objectTags, tags, taxonomies)
      /\ UNCHANGED << taxonomies, tags, lastTag, lastRow >>
  BY DEF ResyncObjectTags
<1>2. /\ KeysAreOld(tags, lastTag) /\ lastRow \in Nat /\ taxonomies \in SUBSET AllTaxonomies
      /\ AreRows(objectTags, lastRow, tags, taxonomies)
      /\ Closed \notin taxonomies => DOMAIN tags = {}
  BY DEF TagsInv
<1>3. /\ AreRows(objectTags', lastRow, tags, taxonomies)
      /\ RowsKept(objectTags, objectTags', tags)
      /\ StaleRowsTaken(objectTags', tags, taxonomies)
  BY <1>1, <1>2, RowsAfterResync
<1>4. TagsInv'
  BY <1>1, <1>2, <1>3, CallsOfAllStay DEF TagsInv
<1>5. QED  BY <1>1, <1>3, <1>4 DEF Edited

LEMMA KeptTwice ==
    ASSUME NEW rows, NEW mid, NEW new, NEW left, None \notin DOMAIN left,
           RowsKept(rows, mid, left), RowsKept(mid, new, left),
           \A p \in DOMAIN rows : rows[p].tag \notin DOMAIN left => mid[p].tag = None
    PROVE  RowsKept(rows, new, left)
  BY DEF RowsKept

LEMMA ImportKeepsRows ==
    ASSUME TagsInv, ImportTags, UNCHANGED calls
    PROVE  Edited
<1>1. PICK file \in Files : \E plan \in Plans(tags, file, Closed \in taxonomies) :
            LET end == Execute(tags, lastTag, plan.actions)
            IN  /\ plan.valid /\ end.ok
                /\ tags' = end.tags
                /\ lastTag' = end.lastTag
  BY DEF ImportTags
<1>2. PICK plan \in Plans(tags, file, Closed \in taxonomies) :
            LET end == Execute(tags, lastTag, plan.actions)
            IN  /\ plan.valid /\ end.ok
                /\ tags' = end.tags
                /\ lastTag' = end.lastTag
  BY <1>1
<1>3. PICK mid : mid = Unlinked(objectTags, tags', taxonomies)
  OBVIOUS
<1>4. /\ taxonomies' = taxonomies \cup {Closed} /\ UNCHANGED lastRow
      /\ objectTags' \in ResyncOrders(mid, DOMAIN mid, tags', taxonomies')
  BY <1>3 DEF ImportTags
<1>5. /\ KeysAreOld(tags, lastTag) /\ lastRow \in Nat /\ taxonomies \in SUBSET AllTaxonomies
      /\ AreRows(objectTags, lastRow, tags, taxonomies)
  BY DEF TagsInv
<1>6. KeysAreOld(tags', lastTag')
  <2>1. file \in Seq(Items)
    BY FilesAssumption DEF Items
  <2>2. plan.actions \in Seq(Actions)
    <3>1. \E replace \in BOOLEAN : replace = (Closed \in taxonomies)
      <4>1. (Closed \in taxonomies) \in BOOLEAN
        OBVIOUS
      <4>2. QED  BY <4>1, Zenon
    <3>2. PICK replace \in BOOLEAN : replace = (Closed \in taxonomies)
      BY <3>1
    <3>3. plan \in Plans(tags, file, replace)
      BY <3>2
    <3>4. IsFiniteTable(tags)
      BY <1>5, TablesAreFinite
    <3>5. QED  BY <2>1, <3>3, <3>4, PlansFollowFiles
  <2>3. Len(plan.actions) \in Nat
    BY <2>2, LenProperties
  <2>4. IsState(Execute(tags, lastTag, plan.actions))
    BY <1>5, <2>3, ExecutionsEndInTables
  <2>5. QED  BY <1>2, <2>4 DEF IsState
<1>7. /\ None \notin DOMAIN tags' /\ None \notin taxonomies
      /\ taxonomies' \in SUBSET AllTaxonomies /\ taxonomies \subseteq taxonomies'
  BY <1>4, <1>5, <1>6, KeysOfTables, TaxonomiesAssumption DEF AllTaxonomies
<1>8. /\ AreRows(mid, lastRow, tags', taxonomies)
      /\ RowsKept(objectTags, mid, tags')
      /\ \A p \in DOMAIN objectTags : objectTags[p].tag \notin DOMAIN tags' => mid[p].tag = None
  BY <1>3, <1>5, <1>7, UnlinkedRowsAreKept
<1>9. AreRows(mid, lastRow, tags', taxonomies')
  BY <1>5, <1>7, <1>8, RowsStay
<1>10. /\ AreRows(objectTags', lastRow, tags', taxonomies')
       /\ RowsKept(mid, objectTags', tags')
       /\ StaleRowsTaken(objectTags', tags', taxonomies')
  BY <1>4, <1>5, <1>6, <1>7, <1>9, RowsAfterResync
<1>11. RowsKept(objectTags, objectTags', tags')
  BY <1>7, <1>8, <1>10, KeptTwice
<1>12. TagsInv'
  <2>1. /\ calls' = [s \in Sessions |-> calls'[s]]
        /\ \A s \in Sessions : calls'[s] # NoCall => IsCall(calls'[s], taxonomies', lastRow')
    BY <1>4, <1>5, <1>7, CallsOfAllStay
  <2>2. Closed \in taxonomies' /\ lastRow' = lastRow /\ taxonomies' \subseteq AllTaxonomies
    BY <1>4, <1>7
  <2>3. QED  BY <1>5, <1>6, <1>10, <2>1, <2>2 DEF TagsInv
<1>13. QED  BY <1>10, <1>11, <1>12 DEF Edited

LEMMA EditsKeepRows ==
    ASSUME TagsInv, EditTaxonomy, UNCHANGED calls
    PROVE  Edited
<1>1. CASE AddTagToTaxonomy
  BY <1>1, AddTagKeepsRows
<1>2. CASE UpdateTagInTaxonomy
  BY <1>2, UpdateTagKeepsRows
<1>3. CASE DeleteTagsFromTaxonomy
  BY <1>3, DeleteTagsKeepsRows
<1>4. CASE ImportTags
  BY <1>4, ImportKeepsRows
<1>5. CASE CreateTaxonomy
  BY <1>5, CreateTaxonomyKeepsRows
<1>6. CASE DeleteTaxonomy
  BY <1>6, DeleteTaxonomyKeepsRows
<1>7. CASE ResyncObjectTags
  BY <1>7, ResyncKeepsRows
<1>8. QED  BY <1>1, <1>2, <1>3, <1>4, <1>5, <1>6, <1>7 DEF EditTaxonomy

(***************************************************************************)
(* Saving rows one after the other                                         *)
(***************************************************************************)
\* What tag_object may be about to save: a new row, or one that was read.
Saves(exist, last) == ({None} \cup 1 .. last) \X TypedRows(exist)

\* The rows with the last primary key, and whether no row has failed so far.
SaveStates(table, exist) ==
    [rows : UNION {[D -> LinkedRows(table, exist)] : D \in SUBSET Nat}, last : Nat, ok : BOOLEAN]

SavesGoOn(s, first, table, exist) ==
    AreRows(s.rows, s.last, table, exist) /\ first <= s.last

LEMMA SaveStep ==
    ASSUME NEW exist, NEW first \in Nat, NEW save \in Saves(exist, first),
           NEW result \in SaveStates(tags, exist),
           NEW p, p = IF save[1] = None THEN result.last + 1 ELSE save[1],
           NEW new, new = Put(result.rows, p, save[2]),
           NEW next, next = SaveRow(result, save)
    PROVE  /\ p \in Nat
           /\ next = IF result.ok /\ IsClean(new, save[1], save[2])
                       THEN [rows |-> new, last |-> IF save[1] = None THEN p ELSE result.last,
                             ok |-> TRUE]
                       ELSE [rows |-> result.rows, last |-> result.last, ok |-> FALSE]
           /\ next \in SaveStates(tags, exist)
           /\ SavesGoOn(result, first, tags, exist) =>
                SavesGoOn(next, first, tags, exist) /\ result.last <= next.last
           /\ next.ok => result.ok
<1>1. PICK D \in SUBSET Nat : result.rows \in [D -> LinkedRows(tags, exist)]
  BY DEF SaveStates
<1>2. /\ result = [rows |-> result.rows, last |-> result.last, ok |-> result.ok]
      /\ result.last \in Nat /\ result.ok \in BOOLEAN
  BY DEF SaveStates
<1>3. save[1] \in {None} \cup 1 .. first /\ save[2] \in TypedRows(exist)
  BY DEF Saves
<1>4. p \in Nat
  BY <1>2, <1>3
<1>5. [result EXCEPT !.ok = FALSE] = [rows |-> result.rows, last |-> result.last, ok |-> FALSE]
  <2>1. PICK o : o = FALSE
    OBVIOUS
  <2>2. [result EXCEPT !.ok = o] = [rows |-> result.rows, last |-> result.last, ok |-> o]
    BY <1>2
  <2>3. QED  BY <2>1, <2>2
<1>6. next = IF result.ok /\ IsClean(new, save[1], save[2])
               THEN [rows |-> new, last |-> IF save[1] = None THEN p ELSE result.last, ok |-> TRUE]
               ELSE [rows |-> result.rows, last |-> result.last, ok |-> FALSE]
  BY <1>5 DEF SaveRow
<1>7. CASE result.ok /\ IsClean(new, save[1], save[2])
  <2>1. IsUnique(new) /\ save[2].tag \in DOMAIN tags \cup {None}
    BY <1>7 DEF IsClean
  <2>2. save[2] \in LinkedRows(tags, exist)
    BY <1>3, <2>1 DEF LinkedRows
  <2>3. new \in [D \cup {p} -> LinkedRows(tags, exist)]
    <3>1. PICK rows, row, R :
            rows = result.rows /\ row = save[2] /\ R = LinkedRows(tags, exist)
      OBVIOUS
    <3>2. new = Put(rows, p, row) /\ rows \in [D -> R] /\ row \in R
      BY <1>1, <2>2, <3>1
    <3>3. new \in [D \cup {p} -> R]
      BY <1>1, <1>4, <3>2 DEF Put
    <3>4. QED  BY <3>1, <3>3
  <2>4. PICK l : l = IF save[1] = None THEN p ELSE result.last
    OBVIOUS
  <2>5. l \in Nat /\ result.last <= l
    <3>1. PICK k \in Nat : k = result.last
      BY <1>2
    <3>2. l = k + 1 \/ l = k
      BY <2>4, <3>1
    <3>3. l \in Nat /\ k <= l
      BY <3>2
    <3>4. QED  BY <3>1, <3>3
  <2>6. next = [rows |-> new, last |-> l, ok |-> TRUE]
    BY <1>6, <1>7, <2>4
  <2>7. D \cup {p} \in SUBSET Nat
    BY <1>4
  <2>8. next.rows = new /\ next.last = l
    BY <2>6
  <2>9. next \in SaveStates(tags, exist)
    BY <2>3, <2>5, <2>6, <2>7 DEF SaveStates
  <2>10. ASSUME SavesGoOn(result, first, tags, exist)
         PROVE  SavesGoOn(next, first, tags, exist)
    <3>1. first <= result.last /\ DOMAIN result.rows \subseteq 1 .. result.last
      BY <2>10 DEF SavesGoOn, AreRows
    <3>2. D = DOMAIN result.rows /\ DOMAIN new = D \cup {p}
      BY <1>1, <2>3
    <3>3. p \in 1 .. l
      BY <1>2, <1>3, <2>4, <3>1
    <3>4. 1 .. result.last \subseteq 1 .. l
      BY <1>2, <2>5
    <3>5. DOMAIN new \subseteq 1 .. l
      BY <3>1, <3>2, <3>3, <3>4
    <3>6. first <= l
      BY <1>2, <2>5, <3>1
    <3>7. AreRows(new, l, tags, exist)
      BY <2>1, <2>3, <3>2, <3>5 DEF AreRows
    <3>8. QED  BY <2>8, <3>6, <3>7 DEF SavesGoOn
  <2>11. QED  BY <1>4, <1>6, <1>7, <2>5, <2>8, <2>9, <2>10
<1>8. CASE ~ (result.ok /\ IsClean(new, save[1], save[2]))
  <2>1. PICK o : o = FALSE
    OBVIOUS
  <2>2. next = [rows |-> result.rows, last |-> result.last, ok |-> o]
    BY <1>6, <1>8, <2>1
  <2>3. next.rows = result.rows /\ next.last = result.last /\ next.ok = o
    BY <2>2
  <2>4. o \in BOOLEAN
    BY <2>1
  <2>5. next \in SaveStates(tags, exist)
    BY <1>1, <1>2, <2>2, <2>4 DEF SaveStates
  <2>6. SavesGoOn(result, first, tags, exist) => SavesGoOn(next, first, tags, exist)
    BY <2>3 DEF SavesGoOn
  <2>7. ~ next.ok
    BY <2>1, <2>3
  <2>8. result.last <= next.last
    BY <1>2, <2>3
  <2>9. QED  BY <1>4, <1>6, <2>5, <2>6, <2>7, <2>8
<1>9. QED  BY <1>7, <1>8

\* The states that the saves of a call of tag_object go through.
IsSaving(r, n, saves, start) ==
    /\ n = Len(saves) /\ n \in Nat /\ r[0] = start
    /\ \A k \in 1 .. n : r[k] = SaveRow(r[k - 1], saves[k])

LEMMA SavesRun ==
    ASSUME NEW exist, NEW first \in Nat, NEW saves \in Seq(Saves(exist, first)),
           NEW start \in SaveStates(tags, exist),
           NEW end, end = FoldLeft(SaveRow, start, saves)
    PROVE  \E n \in Nat : \E r : IsSaving(r, n, saves, start) /\ end = r[n]
<1>1. PICK n \in Nat : n = Len(saves) /\ DOMAIN saves = 1 .. n
                       /\ \A i \in 1 .. n : saves[i] \in Saves(exist, first)
  BY LenProperties, ElementOfSeq
<1> DEFINE IsLoop(h) ==
             h = [s \in SUBSET (1 .. n) |->
                    IF s = {} THEN start ELSE SaveRow(h[s \ {Max(s)}], saves[Max(s)])]
<1>2. PICK f : f = CHOOSE h : IsLoop(h)
  OBVIOUS
<1>3. end = f[1 .. n]
  BY <1>1, <1>2 DEF FoldLeft, MapThenFoldSet
<1>4. \E h : IsLoop(h)
  <2>1. PICK X : X = SaveStates(tags, exist)
    OBVIOUS
  <2>2. PICK G : G = [q \in (1 .. n) \X X |-> SaveRow(q[2], saves[q[1]])]
    OBVIOUS
  <2>3. ASSUME NEW m \in 1 .. n, NEW result \in X
        PROVE  SaveRow(result, saves[m]) \in X
    <3>1. PICK save \in Saves(exist, first) : save = saves[m]
      BY <1>1
    <3>2. PICK p : p = IF save[1] = None THEN result.last + 1 ELSE save[1]
      OBVIOUS
    <3>3. PICK new, next :
            new = Put(result.rows, p, save[2]) /\ next = SaveRow(result, save)
      OBVIOUS
    <3>4. next \in X
      BY <2>1, <3>2, <3>3, SaveStep
    <3>5. QED  BY <3>1, <3>3, <3>4
  <2>4. G \in [(1 .. n) \X X -> X]
    BY <2>2, <2>3
  <2>5. PICK h \in [SUBSET (1 .. n) -> X] : IsFold(h, n, start, G)
    BY <2>1, <2>4, FoldsExist
  <2>6. ASSUME NEW s \in SUBSET (1 .. n)
        PROVE  h[s] = IF s = {} THEN start ELSE SaveRow(h[s \ {Max(s)}], saves[Max(s)])
    <3>1. h[s] = IF s = {} THEN start ELSE G[<<Max(s), h[s \ {Max(s)}]>>]
      BY <2>5 DEF IsFold
    <3>2. ASSUME s # {}
          PROVE  G[<<Max(s), h[s \ {Max(s)}]>>] = SaveRow(h[s \ {Max(s)}], saves[Max(s)])
      <4>1. PICK m : m = Max(s)
        OBVIOUS
      <4>2. m \in 1 .. n
        BY <3>2, <4>1, GreatestNumber
      <4>3. PICK result \in X : result = h[s \ {m}]
        BY <2>5
      <4>4. <<m, result>> \in (1 .. n) \X X
        BY <4>2
      <4>5. G[<<m, result>>] = SaveRow(result, saves[m])
        BY <2>2, <4>4
      <4>6. QED  BY <4>1, <4>3, <4>5
    <3>3. QED  BY <3>1, <3>2
  <2>7. IsLoop(h)
    BY <2>5, <2>6 DEF IsFold
  <2>8. QED  BY <2>7
<1>5. IsLoop(f)
  BY <1>2, <1>4
<1>6. PICK r : r = [k \in 0 .. n |-> f[1 .. k]]
  OBVIOUS
<1>7. r[0] = start
  <2>1. 0 \in 0 .. n /\ 1 .. 0 = {} /\ 1 .. 0 \in SUBSET (1 .. n)
    BY FirstNumbers
  <2>2. QED  BY <1>5, <1>6, <2>1
<1>8. ASSUME NEW k \in 1 .. n PROVE r[k] = SaveRow(r[k - 1], saves[k])
  <2>1. k \in 0 .. n /\ k - 1 \in 0 .. n
    OBVIOUS
  <2>2. 1 .. k \in SUBSET (1 .. n) /\ 1 .. k # {}
        /\ Max(1 .. k) = k /\ (1 .. k) \ {k} = 1 .. k - 1
    BY FirstNumbers
  <2>3. f[1 .. k] = SaveRow(f[1 .. k - 1], saves[k])
    BY <1>5, <2>2
  <2>4. QED  BY <1>6, <2>1, <2>3
<1>9. r[n] = f[1 .. n]
  BY <1>6
<1>10. IsSaving(r, n, saves, start)
  BY <1>1, <1>7, <1>8 DEF IsSaving
<1>11. QED  BY <1>3, <1>9, <1>10

\* The rows stay as they are to be, whatever is saved.
LEMMA SavedRows ==
    ASSUME NEW exist, NEW first \in Nat, NEW saves \in Seq(Saves(exist, first)),
           NEW start \in SaveStates(tags, exist), SavesGoOn(start, first, tags, exist),
           NEW n \in Nat, NEW r, IsSaving(r, n, saves, start)
    PROVE  \A k \in 0 .. n :
              r[k] \in SaveStates(tags, exist) /\ SavesGoOn(r[k], first, tags, exist)
<1> DEFINE T == {k \in 0 .. n :
                   r[k] \in SaveStates(tags, exist) /\ SavesGoOn(r[k], first, tags, exist)}
<1>1. n = Len(saves) /\ r[0] = start /\ \A k \in 1 .. n : r[k] = SaveRow(r[k - 1], saves[k])
  BY DEF IsSaving
<1>2. 0 \in T
  BY <1>1
<1>3. ASSUME NEW k \in 0 .. n - 1, k \in T PROVE k + 1 \in T
  <2>1. PICK m \in 1 .. n : m = k + 1 /\ m - 1 = k
    OBVIOUS
  <2>2. PICK save \in Saves(exist, first) : save = saves[m]
    BY <1>1, ElementOfSeq
  <2>3. PICK result \in SaveStates(tags, exist) : result = r[k]
    BY <1>3
  <2>4. PICK p : p = IF save[1] = None THEN result.last + 1 ELSE save[1]
    OBVIOUS
  <2>5. PICK new, next : new = Put(result.rows, p, save[2]) /\ next = SaveRow(result, save)
    OBVIOUS
  <2>6. next \in SaveStates(tags, exist) /\ SavesGoOn(next, first, tags, exist)
    BY <1>3, <2>3, <2>4, <2>5, SaveStep
  <2>7. r[m] = next /\ m \in 0 .. n
    BY <1>1, <2>1, <2>2, <2>3, <2>5
  <2>8. QED  BY <2>1, <2>6, <2>7
<1> HIDE DEF T
<1>4. \A k \in 0 .. n : k \in T
  BY <1>2, <1>3, UpTo
<1>5. QED  BY <1>4 DEF T

SavesOf(call) == FlattenSeq([i \in DOMAIN call.asked |-> SaveFor(call, call.asked[i])])

\* What is saved for a value: a new row, or one that was read with the value.
LEMMA SavesForValue ==
    ASSUME NEW call, NEW exist \in SUBSET AllTaxonomies, NEW last, IsCall(call, exist, last),
           NEW v \in Values
    PROVE  /\ SaveFor(call, v) \in Seq(Saves(exist, last))
           /\ \/ /\ RowFor(call, v) = {}
                 /\ \E t \in TagForValue(call, v) \cup {None} :
                      /\ t = None => TagForValue(call, v) = {}
                      /\ SaveFor(call, v) =
                           << << None, ObjectTag(call.object, call.taxonomy, call.exportId,
                                                 t, v, FALSE) >> >>
              \/ \E p \in RowFor(call, v) :
                   \/ call.rows[p].value = v /\ SaveFor(call, v) = << >>
                   \/ /\ call.rows[p].value # v
                      /\ SaveFor(call, v) = << << p, [call.rows[p] EXCEPT !.value = v] >> >>
<1>1. PICK found, p : found = RowFor(call, v) /\ p = CHOOSE q \in found : TRUE
  OBVIOUS
<1>2. PICK fits : fits = TagForValue(call, v)
  OBVIOUS
<1>3. PICK t : t = IF fits = {} THEN None ELSE CHOOSE u \in fits : TRUE
  OBVIOUS
<1>4. /\ call.object \in Objects /\ call.taxonomy \in exist \cup {None}
      /\ call.exportId \in AllTaxonomies
      /\ call.taxonomy # None => call.exportId = call.taxonomy
      /\ DOMAIN call.tags \subseteq Nat
      /\ call.rows \in [DOMAIN call.rows -> TypedRows(exist)]
      /\ DOMAIN call.rows \subseteq 1 .. last
  BY DEF IsCall
<1>5. fits \subseteq DOMAIN call.tags /\ (fits # {} => call.taxonomy = Closed)
  BY <1>2 DEF TagForValue, WithValue
<1>6. t \in fits \cup {None} /\ (t = None => fits = {}) /\ t \in Nat \cup {None}
  BY <1>3, <1>4, <1>5, NullAssumption
<1>7. PICK new : new = ObjectTag(call.object, call.taxonomy, call.exportId, t, v, FALSE)
  OBVIOUS
<1>8. new \in TypedRows(exist)
  <2>1. PICK o \in BOOLEAN : o = FALSE
    OBVIOUS
  <2>2. new = [object |-> call.object, taxonomy |-> call.taxonomy, exportId |-> call.exportId,
               tag |-> t, value |-> v, copied |-> o]
    BY <1>7, <2>1 DEF ObjectTag
  <2>3. t # None => call.taxonomy = Closed
    BY <1>5, <1>6
  <2>4. QED  BY <1>4, <1>6, <2>2, <2>3 DEF TypedRows
<1>9. << None, new >> \in Saves(exist, last)
  BY <1>8 DEF Saves
<1>10. CASE found = {}
  <2>1. SaveFor(call, v) = << << None, new >> >>
    BY <1>1, <1>2, <1>3, <1>7, <1>10 DEF SaveFor
  <2>2. << << None, new >> >> \in Seq(Saves(exist, last))
    BY <1>9
  <2>3. QED  BY <1>1, <1>2, <1>6, <1>7, <1>10, <2>1, <2>2
<1>11. CASE found # {}
  <2>1. p \in found /\ found \subseteq DOMAIN call.rows
    BY <1>1, <1>11 DEF RowFor, CurrentTags
  <2>2. PICK row : row = call.rows[p]
    OBVIOUS
  <2>3. row \in TypedRows(exist) /\ p \in 1 .. last
    BY <1>4, <2>1, <2>2
  <2>4. PICK changed : changed = [row EXCEPT !.value = v]
    OBVIOUS
  <2>5. changed \in TypedRows(exist)
    BY <2>3, <2>4 DEF TypedRows
  <2>6. << p, changed >> \in Saves(exist, last)
    BY <2>3, <2>5 DEF Saves
  <2>7. CASE row.value = v
    <3>1. SaveFor(call, v) = << >>
      BY <1>1, <1>11, <2>2, <2>7 DEF SaveFor
    <3>2. << >> \in Seq(Saves(exist, last))
      BY EmptySeq
    <3>3. QED  BY <1>1, <2>1, <2>2, <2>7, <3>1, <3>2
  <2>8. CASE row.value # v
    <3>1. SaveFor(call, v) = << << p, changed >> >>
      BY <1>1, <1>11, <2>2, <2>4, <2>8 DEF SaveFor
    <3>2. << << p, changed >> >> \in Seq(Saves(exist, last))
      BY <2>6
    <3>3. QED  BY <1>1, <2>1, <2>2, <2>4, <2>8, <3>1, <3>2
  <2>9. QED  BY <2>7, <2>8
<1>12. QED  BY <1>10, <1>11

LEMMA SavesOfCall ==
    ASSUME NEW call, NEW exist \in SUBSET AllTaxonomies, NEW last, IsCall(call, exist, last),
           NEW seqs, seqs = [i \in DOMAIN call.asked |-> SaveFor(call, call.asked[i])]
    PROVE  /\ seqs \in Seq(Seq(Saves(exist, last))) /\ Len(seqs) = Len(call.asked)
           /\ SavesOf(call) \in Seq(Saves(exist, last))
           /\ InOrder(SavesOf(call), seqs, Len(seqs))
<1>1. PICK n \in Nat : n = Len(call.asked) /\ DOMAIN call.asked = 1 .. n
                       /\ \A i \in 1 .. n : call.asked[i] \in Values
  BY RequestsAssumption, LenProperties, ElementOfSeq DEF IsCall
<1>2. PICK A : A = Seq(Saves(exist, last))
  OBVIOUS
<1>3. ASSUME NEW i \in 1 .. n PROVE seqs[i] \in A
  <2>1. PICK v \in Values : v = call.asked[i]
    BY <1>1
  <2>2. SaveFor(call, v) \in A
    BY <1>2, SavesForValue
  <2>3. QED  BY <1>1, <2>1, <2>2
<1>4. seqs \in [1 .. n -> A]
  BY <1>1, <1>3
<1>5. seqs \in Seq(A) /\ Len(seqs) = n
  BY <1>4
<1>6. FlattenSeq(seqs) \in Seq(Saves(exist, last)) /\ InOrder(FlattenSeq(seqs), seqs, Len(seqs))
  BY <1>2, <1>5, FlattenedInOrder
<1>7. QED  BY <1>1, <1>2, <1>5, <1>6 DEF SavesOf

(***************************************************************************)
(* Calls on an object                                                      *)
(***************************************************************************)
LEMMA ReadTagsKeepsInv ==
    ASSUME TagsInv, NEW s \in Sessions, ReadTags(s)
    PROVE  TagsInv'
<1> DEFINE Call(o, x, exportId, asked) ==
             [object |-> o, taxonomy |-> x, exportId |-> exportId,
              asked |-> asked, tags |-> tags, rows |-> RowsRead(o)]
<1>1. PICK o \in Objects, x \in taxonomies \cup {None}, exportId \in AllTaxonomies,
           asked \in Requests :
        /\ x # None => exportId = x
        /\ Cardinality(DOMAIN Call(o, x, exportId, asked).rows
                          \ CurrentTags(Call(o, x, exportId, asked)))
             + Len(asked) <= TagLimit
        /\ calls' = [calls EXCEPT ![s] = Call(o, x, exportId, asked)]
  BY DEF ReadTags
<1>2. PICK call :
        /\ call = [object |-> o, taxonomy |-> x, exportId |-> exportId,
                   asked |-> asked, tags |-> tags, rows |-> RowsRead(o)]
        /\ x # None => exportId = x
        /\ Cardinality(DOMAIN call.rows \ CurrentTags(call)) + Len(asked) <= TagLimit
        /\ calls' = [calls EXCEPT ![s] = call]
  BY <1>1
<1>3. UNCHANGED << taxonomies, tags, lastTag, objectTags, lastRow >>
  BY DEF ReadTags
<1>4. /\ call.object = o /\ call.taxonomy = x /\ call.exportId = exportId
      /\ call.asked = asked /\ call.tags = tags /\ call.rows = RowsRead(o)
  BY <1>2
<1>5. /\ KeysAreOld(tags, lastTag) /\ lastRow \in Nat
      /\ AreRows(objectTags, lastRow, tags, taxonomies)
      /\ calls = [u \in Sessions |-> calls[u]]
      /\ \A u \in Sessions : calls[u] # NoCall => IsCall(calls[u], taxonomies, lastRow)
  BY DEF TagsInv
<1>6. DOMAIN tags \subseteq Nat
  BY <1>5 DEF KeysAreOld
<1>7. /\ call.rows \in [DOMAIN call.rows -> TypedRows(taxonomies)]
      /\ DOMAIN call.rows \subseteq 1 .. lastRow
      /\ \A p \in DOMAIN call.rows : call.rows[p].object = o
  BY <1>4, <1>5 DEF AreRows, LinkedRows, RowsRead, RowsOf, Restrict
<1>8. IsCall(call, taxonomies, lastRow)
  BY <1>2, <1>4, <1>6, <1>7 DEF IsCall
<1>9. /\ calls' = [u \in Sessions |-> calls'[u]]
      /\ \A u \in Sessions : calls'[u] = IF u = s THEN call ELSE calls[u]
  BY <1>2, <1>5
<1>10. \A u \in Sessions : calls'[u] # NoCall => IsCall(calls'[u], taxonomies, lastRow)
  BY <1>5, <1>8, <1>9
<1>11. QED  BY <1>3, <1>9, <1>10 DEF TagsInv

LEMMA RowsAreSaveStates ==
    ASSUME NEW rows, NEW last \in Nat, NEW table, NEW exist, AreRows(rows, last, table, exist),
           NEW ok \in BOOLEAN, NEW start, start = [rows |-> rows, last |-> last, ok |-> ok]
    PROVE  start \in SaveStates(table, exist) /\ SavesGoOn(start, last, table, exist)
<1>1. PICK D : D = DOMAIN rows
  OBVIOUS
<1>2. rows \in [D -> LinkedRows(table, exist)] /\ D \in SUBSET Nat
  BY <1>1 DEF AreRows
<1>3. start \in SaveStates(table, exist)
  BY <1>2 DEF SaveStates
<1>4. start.rows = rows /\ start.last = last
  OBVIOUS
<1>5. QED  BY <1>3, <1>4 DEF SavesGoOn

\* What tag_object leaves in the transaction.
TransactionStart(call) ==
    [rows |-> Restrict(objectTags, DOMAIN objectTags \ OldTags(call)),
     last |-> lastRow, ok |-> TRUE]

LEMMA TransactionRuns ==
    ASSUME TagsInv, NEW call, IsCall(call, taxonomies, lastRow)
    PROVE  /\ TransactionStart(call) \in SaveStates(tags, taxonomies)
           /\ SavesGoOn(TransactionStart(call), lastRow, tags, taxonomies)
           /\ SavesOf(call) \in Seq(Saves(taxonomies, lastRow))
           /\ \E n \in Nat : \E r : /\ IsSaving(r, n, SavesOf(call), TransactionStart(call))
                                    /\ Transaction(call) = r[n]
<1>1. /\ lastRow \in Nat /\ taxonomies \in SUBSET AllTaxonomies
      /\ AreRows(objectTags, lastRow, tags, taxonomies)
  BY DEF TagsInv
<1>2. PICK kept : kept = Restrict(objectTags, DOMAIN objectTags \ OldTags(call))
  OBVIOUS
<1>3. AreRows(kept, lastRow, tags, taxonomies)
  BY <1>1, <1>2, RowsLeft
<1>4. PICK ok \in BOOLEAN : ok = TRUE
  OBVIOUS
<1>5. PICK start : start = [rows |-> kept, last |-> lastRow, ok |-> ok]
  OBVIOUS
<1>6. start \in SaveStates(tags, taxonomies) /\ SavesGoOn(start, lastRow, tags, taxonomies)
  BY <1>1, <1>3, <1>5, RowsAreSaveStates
<1>7. PICK seqs : seqs = [i \in DOMAIN call.asked |-> SaveFor(call, call.asked[i])]
  OBVIOUS
<1>8. SavesOf(call) \in Seq(Saves(taxonomies, lastRow))
  BY <1>1, <1>7, SavesOfCall
<1>9. start = TransactionStart(call)
  BY <1>2, <1>5, <1>4 DEF TransactionStart
<1>10. PICK end : end = FoldLeft(SaveRow, start, SavesOf(call))
  OBVIOUS
<1>11. Transaction(call) = end
  BY <1>9, <1>10 DEF Transaction, TransactionStart, SavesOf
<1>12. \E n \in Nat : \E r : IsSaving(r, n, SavesOf(call), start) /\ end = r[n]
  BY <1>1, <1>6, <1>8, <1>10, SavesRun
<1>13. QED  BY <1>6, <1>8, <1>9, <1>11, <1>12

LEMMA WriteTagsKeepsInv ==
    ASSUME TagsInv, NEW s \in Sessions, WriteTags(s)
    PROVE  TagsInv'
<1>1. PICK call, end : call = calls[s] /\ end = Transaction(call)
  OBVIOUS
<1>2. /\ call # NoCall /\ calls' = [calls EXCEPT ![s] = NoCall]
      /\ UNCHANGED << taxonomies, tags, lastTag >>
      /\ \/ objectTags' = end.rows /\ lastRow' = end.last
         \/ UNCHANGED << objectTags, lastRow >>
  BY <1>1 DEF WriteTags
<1>3. /\ lastRow \in Nat /\ taxonomies \in SUBSET AllTaxonomies
      /\ AreRows(objectTags, lastRow, tags, taxonomies)
      /\ calls = [u \in Sessions |-> calls[u]]
      /\ \A u \in Sessions : calls[u] # NoCall => IsCall(calls[u], taxonomies, lastRow)
  BY DEF TagsInv
<1>4. IsCall(call, taxonomies, lastRow)
  BY <1>1, <1>2, <1>3
<1>5. PICK start, saves : start = TransactionStart(call) /\ saves = SavesOf(call)
  OBVIOUS
<1>6. /\ start \in SaveStates(tags, taxonomies)
      /\ SavesGoOn(start, lastRow, tags, taxonomies)
      /\ saves \in Seq(Saves(taxonomies, lastRow))
      /\ \E n \in Nat : \E r : IsSaving(r, n, saves, start) /\ end = r[n]
  BY <1>1, <1>4, <1>5, TransactionRuns
<1>7. PICK n \in Nat : \E r : IsSaving(r, n, saves, start) /\ end = r[n]
  BY <1>6
<1>8. PICK r : IsSaving(r, n, saves, start) /\ end = r[n]
  BY <1>7
<1>9. end \in SaveStates(tags, taxonomies) /\ SavesGoOn(end, lastRow, tags, taxonomies)
  <2>1. n \in 0 .. n
    OBVIOUS
  <2>2. \A k \in 0 .. n :
           r[k] \in SaveStates(tags, taxonomies) /\ SavesGoOn(r[k], lastRow, tags, taxonomies)
    BY <1>3, <1>6, <1>8, SavedRows
  <2>3. QED  BY <1>8, <2>1, <2>2
<1>10. /\ lastRow' \in Nat /\ lastRow <= lastRow'
       /\ AreRows(objectTags', lastRow', tags, taxonomies)
  <2>1. end.last \in Nat
    BY <1>9 DEF SaveStates
  <2>2. QED  BY <1>2, <1>3, <1>9, <2>1 DEF SavesGoOn
<1>11. /\ calls' = [u \in Sessions |-> calls'[u]]
       /\ \A u \in Sessions : calls'[u] = IF u = s THEN NoCall ELSE calls[u]
  BY <1>2, <1>3
<1>12. ASSUME NEW u \in Sessions, calls'[u] # NoCall
       PROVE  IsCall(calls'[u], taxonomies', lastRow')
  <2>1. IsCall(calls[u], taxonomies, lastRow) /\ calls'[u] = calls[u]
    BY <1>3, <1>11, <1>12
  <2>2. QED  BY <1>2, <1>3, <1>10, <2>1, CallsStay
<1>13. QED  BY <1>2, <1>10, <1>11, <1>12 DEF TagsInv

LEMMA DeleteObjectTagsKeepsInv ==
    ASSUME TagsInv, DeleteObjectTags, UNCHANGED calls
    PROVE  TagsInv'
<1>1. PICK o \in Objects :
        objectTags' = Restrict(objectTags, DOMAIN objectTags \ RowsOf(objectTags, o))
  BY DEF DeleteObjectTags
<1>2. UNCHANGED << taxonomies, tags, lastTag, lastRow >>
  BY DEF DeleteObjectTags
<1>3. AreRows(objectTags, lastRow, tags, taxonomies)
  BY DEF TagsInv
<1>4. AreRows(objectTags', lastRow, tags, taxonomies)
  BY <1>1, <1>3, RowsLeft
<1>5. QED  BY <1>2, <1>4 DEF TagsInv

LEMMA UnmarkCopiedTagsKeepsInv ==
    ASSUME TagsInv, UnmarkCopiedTags, UNCHANGED calls
    PROVE  TagsInv'
<1>1. PICK o \in Objects :
        objectTags' = [p \in DOMAIN objectTags |->
                          [objectTags[p] EXCEPT !.copied = @ /\ objectTags[p].object # o]]
  BY DEF UnmarkCopiedTags
<1>2. UNCHANGED << taxonomies, tags, lastTag, lastRow >>
  BY DEF UnmarkCopiedTags
<1>3. AreRows(objectTags, lastRow, tags, taxonomies)
  BY DEF TagsInv
<1>4. ASSUME NEW p \in DOMAIN objectTags
      PROVE  /\ objectTags'[p] \in LinkedRows(tags, taxonomies)
             /\ objectTags'[p].object = objectTags[p].object
             /\ objectTags'[p].taxonomy = objectTags[p].taxonomy
             /\ objectTags'[p].tag = objectTags[p].tag
             /\ objectTags'[p].value = objectTags[p].value
  <2>1. PICK row, c : row = objectTags[p] /\ c = (row.copied /\ row.object # o)
    OBVIOUS
  <2>2. row \in LinkedRows(tags, taxonomies)
    BY <1>3, <2>1 DEF AreRows
  <2>3. (row.copied /\ row.object # o) \in BOOLEAN
    OBVIOUS
  <2>4. c \in BOOLEAN
    BY <2>1, <2>3, Zenon
  <2>5. objectTags'[p] = [row EXCEPT !.copied = c]
    BY <1>1, <2>1
  <2>6. QED  BY <2>1, <2>2, <2>4, <2>5 DEF LinkedRows, TypedRows
<1>5. DOMAIN objectTags' = DOMAIN objectTags
  BY <1>1
<1>6. objectTags' \in [DOMAIN objectTags -> LinkedRows(tags, taxonomies)]
  BY <1>1, <1>4
<1>7. IsUnique(objectTags')
  BY <1>3, <1>4, <1>5 DEF AreRows, IsUnique
<1>8. AreRows(objectTags', lastRow, tags, taxonomies)
  BY <1>3, <1>5, <1>6, <1>7 DEF AreRows
<1>9. QED  BY <1>2, <1>8 DEF TagsInv

(***************************************************************************)
(* Copying tags                                                            *)
(***************************************************************************)
HasLink(r, object, row) ==
    r.object = object /\ r.taxonomy = row.taxonomy /\ r.tag = row.tag

\* The row that update_or_create makes.
CopyOf(dest, row) ==
    ObjectTag(dest, row.taxonomy, row.taxonomy, row.tag,
              IF row.tag = None THEN Empty ELSE tags[row.tag].value, TRUE)

\* The only row for the tag of a row is marked, or a new one is there.
IsCopied(rows, new, dest, row, p) ==
    \/ /\ p \in DOMAIN rows
       /\ \A q \in DOMAIN rows : HasLink(rows[q], dest, row) <=> q = p
       /\ DOMAIN new = DOMAIN rows
       /\ new[p] = [rows[p] EXCEPT !.copied = TRUE]
       /\ \A q \in DOMAIN rows : q # p => new[q] = rows[q]
    \/ /\ p \notin DOMAIN rows /\ DOMAIN new = DOMAIN rows \cup {p}
       /\ \A q \in DOMAIN rows : ~ HasLink(rows[q], dest, row)
       /\ new[p] = CopyOf(dest, row)
       /\ \A q \in DOMAIN rows : new[q] = rows[q]

LEMMA OneAtMost ==
    ASSUME NEW S, IsFiniteSet(S), Cardinality(S) <= 1, NEW a \in S, NEW b \in S
    PROVE  a = b
<1>1. PICK R : R = S \ {a}
  OBVIOUS
<1>2. IsFiniteSet(R) /\ Cardinality(R) = Cardinality(S) - 1
  BY <1>1, FS_RemoveElement
<1>3. Cardinality(R) \in Nat /\ Cardinality(S) \in Nat
  BY <1>2, FS_CardinalityType
<1>4. Cardinality(R) = 0
  BY <1>2, <1>3
<1>5. R = {}
  BY <1>2, <1>4, FS_EmptySet
<1>6. QED  BY <1>1, <1>5

LEMMA CopyStep ==
    ASSUME KeysAreOld(tags, lastTag), NEW exist \in SUBSET AllTaxonomies, NEW first \in Nat,
           NEW dest \in Objects, NEW row \in LinkedRows(tags, exist), row.taxonomy # None,
           NEW result \in SaveStates(tags, exist), NEW next, next = CopyRow(result, dest, row)
    PROVE  /\ next \in SaveStates(tags, exist)
           /\ SavesGoOn(result, first, tags, exist) =>
                /\ SavesGoOn(next, first, tags, exist)
                /\ next.ok => result.ok /\ \E p : IsCopied(result.rows, next.rows, dest, row, p)
<1>1. PICK rows, last, ok : rows = result.rows /\ last = result.last /\ ok = result.ok
  OBVIOUS
<1>2. PICK D \in SUBSET Nat : rows \in [D -> LinkedRows(tags, exist)]
  BY <1>1 DEF SaveStates
<1>3. result = [rows |-> rows, last |-> last, ok |-> ok] /\ last \in Nat /\ ok \in BOOLEAN
  BY <1>1 DEF SaveStates
<1>4. PICK found :
        found = {p \in RowsOf(rows, dest) :
                   rows[p].taxonomy = row.taxonomy /\ rows[p].tag = row.tag}
  OBVIOUS
<1>5. PICK value : value = IF row.tag = None THEN Empty ELSE tags[row.tag].value
  OBVIOUS
<1>6. PICK p : p = IF found = {} THEN last + 1 ELSE CHOOSE q \in found : TRUE
  OBVIOUS
<1>7. PICK c \in BOOLEAN : c = TRUE
  OBVIOUS
<1>8. PICK no \in BOOLEAN : no = FALSE
  OBVIOUS
<1>9. PICK fresh : fresh = ObjectTag(dest, row.taxonomy, row.taxonomy, row.tag, value, c)
  OBVIOUS
<1>10. PICK new : new = IF found = {} THEN Put(rows, p, fresh) ELSE [rows EXCEPT ![p].copied = c]
  OBVIOUS
<1>11. PICK l : l = IF found = {} THEN p ELSE last
  OBVIOUS
<1>12. next = IF ok /\ Cardinality(found) <= 1 /\ IsUnique(new)
                THEN [rows |-> new, last |-> l, ok |-> c]
                ELSE [rows |-> rows, last |-> last, ok |-> no]
  <2>1. [result EXCEPT !.ok = no] = [rows |-> rows, last |-> last, ok |-> no]
    BY <1>3
  <2>2. [result EXCEPT !.ok = FALSE] = [rows |-> rows, last |-> last, ok |-> no]
    BY <1>8, <2>1
  <2>3. QED  BY <1>1, <1>4, <1>5, <1>6, <1>7, <1>9, <1>10, <1>11, <2>2 DEF CopyRow
<1>13. fresh \in LinkedRows(tags, exist)
  <2>1. /\ row.taxonomy \in exist /\ row.taxonomy \in AllTaxonomies
        /\ row.tag \in DOMAIN tags \cup {None} /\ row.tag \in Nat \cup {None}
        /\ row.tag # None => row.taxonomy = Closed
    BY DEF LinkedRows, TypedRows
  <2>2. value \in Values \cup {Empty}
    <3>1. \A t \in DOMAIN tags : tags[t].value \in Values
      BY KeysOfTables DEF Rows
    <3>2. QED  BY <1>5, <2>1, <3>1
  <2>3. fresh = [object |-> dest, taxonomy |-> row.taxonomy, exportId |-> row.taxonomy,
                 tag |-> row.tag, value |-> value, copied |-> c]
    BY <1>9 DEF ObjectTag
  <2>4. PICK x, t : x = row.taxonomy /\ t = row.tag
    OBVIOUS
  <2>5. /\ x \in exist /\ x \in AllTaxonomies /\ t \in Nat \cup {None}
        /\ t # None => x = Closed
        /\ fresh = [object |-> dest, taxonomy |-> x, exportId |-> x,
                    tag |-> t, value |-> value, copied |-> c]
    BY <2>1, <2>3, <2>4
  <2>6. fresh \in [object : Objects, taxonomy : exist \cup {None}, exportId : AllTaxonomies,
                   tag : Nat \cup {None}, value : Values \cup {Empty}, copied : BOOLEAN]
    BY <1>7, <2>2, <2>5
  <2>7. fresh.taxonomy = x /\ fresh.exportId = x /\ fresh.tag = t
    BY <2>5
  <2>8. fresh \in TypedRows(exist)
    BY <2>5, <2>6, <2>7 DEF TypedRows
  <2>9. QED  BY <2>1, <2>4, <2>7, <2>8 DEF LinkedRows
<1>14. p \in Nat /\ l \in Nat /\ last <= l
       /\ (found # {} => p \in found) /\ found \subseteq D
  <2>1. found \subseteq D
    BY <1>2, <1>4 DEF RowsOf
  <2>2. CASE found = {}
    <3>1. p = last + 1 /\ l = last + 1
      BY <1>6, <1>11, <2>2
    <3>2. QED  BY <1>3, <2>1, <2>2, <3>1
  <2>3. CASE found # {}
    <3>1. p = (CHOOSE q \in found : TRUE) /\ l = last
      BY <1>6, <1>11, <2>3
    <3>2. p \in found
      BY <2>3, <3>1
    <3>3. p \in Nat
      BY <2>1, <3>2
    <3>4. l \in Nat /\ last <= l
      BY <1>3, <3>1
    <3>5. QED  BY <2>1, <3>2, <3>3, <3>4
  <2>4. QED  BY <2>2, <2>3
<1>15. new \in [D \cup {p} -> LinkedRows(tags, exist)]
  <2>1. CASE found = {}
    BY <1>2, <1>10, <1>13, <2>1 DEF Put
  <2>2. CASE found # {}
    <3>1. PICK r : r = rows[p]
      OBVIOUS
    <3>2. r \in LinkedRows(tags, exist) /\ p \in D
      BY <1>2, <1>14, <2>2, <3>1
    <3>3. [r EXCEPT !.copied = c] \in LinkedRows(tags, exist)
      BY <3>2 DEF LinkedRows, TypedRows
    <3>4. new = [rows EXCEPT ![p] = [r EXCEPT !.copied = c]]
      BY <1>10, <2>2, <3>1
    <3>5. QED  BY <1>2, <3>2, <3>3, <3>4
  <2>3. QED  BY <2>1, <2>2
<1>16. CASE ok /\ Cardinality(found) <= 1 /\ IsUnique(new)
  <2>1. next = [rows |-> new, last |-> l, ok |-> c]
    BY <1>12, <1>16
  <2>2. next.rows = new /\ next.last = l /\ D \cup {p} \in SUBSET Nat
    BY <1>14, <2>1
  <2>3. next \in SaveStates(tags, exist)
    BY <1>14, <1>15, <2>1, <2>2 DEF SaveStates
  <2>4. ASSUME SavesGoOn(result, first, tags, exist)
        PROVE  /\ SavesGoOn(next, first, tags, exist)
               /\ found = {} => p \notin D
               /\ \A q \in found : q = p
    <3>1. first <= last /\ D \subseteq 1 .. last
      BY <1>1, <1>2, <2>4 DEF SavesGoOn, AreRows
    <3>2. p \in 1 .. l /\ 1 .. last \subseteq 1 .. l /\ (found = {} => p \notin D)
      BY <1>3, <1>6, <1>11, <1>14, <3>1
    <3>3. D \cup {p} \subseteq 1 .. l /\ first <= l
      BY <1>3, <1>14, <3>1, <3>2
    <3>4. DOMAIN new = D \cup {p}
      BY <1>15
    <3>5. AreRows(new, l, tags, exist)
      BY <1>15, <1>16, <3>3, <3>4 DEF AreRows
    <3>6. IsFiniteSet(found)
      <4>1. IsFiniteSet(1 .. last) /\ found \subseteq 1 .. last
        BY <1>3, <1>14, <3>1, FS_Interval
      <4>2. QED  BY <4>1, FS_Subset
    <3>7. \A q \in found : q = p
      BY <1>14, <1>16, <3>6, OneAtMost
    <3>8. QED  BY <2>2, <3>2, <3>3, <3>5, <3>7 DEF SavesGoOn
  <2>5. ASSUME found = {} => p \notin D, \A q \in found : q = p
        PROVE  IsCopied(rows, new, dest, row, p)
    <3>1. DOMAIN rows = D /\ DOMAIN new = D \cup {p}
      BY <1>2, <1>15
    <3>2. \A q \in D : HasLink(rows[q], dest, row) <=> q \in found
      BY <1>2, <1>4 DEF HasLink, RowsOf
    <3>3. CASE found = {}
      <4>1. p \notin D /\ new[p] = fresh /\ \A q \in D : new[q] = rows[q]
        BY <1>10, <2>5, <3>1, <3>3 DEF Put
      <4>2. fresh = CopyOf(dest, row)
        BY <1>5, <1>7, <1>9 DEF CopyOf
      <4>3. QED  BY <3>1, <3>2, <3>3, <4>1, <4>2 DEF IsCopied
    <3>4. CASE found # {}
      <4>1. p \in D /\ \A q \in D : q \in found <=> q = p
        BY <1>14, <2>5, <3>4
      <4>2. DOMAIN new = D
        BY <3>1, <4>1
      <4>3. /\ new[p] = [rows[p] EXCEPT !.copied = TRUE]
            /\ \A q \in DOMAIN rows : q # p => new[q] = rows[q]
        BY <1>7, <1>10, <3>1, <3>4, <4>1
      <4>4. QED  BY <3>1, <3>2, <4>1, <4>2, <4>3 DEF IsCopied
    <3>5. QED  BY <3>3, <3>4
  <2>6. QED  BY <1>1, <1>16, <2>2, <2>3, <2>4, <2>5
<1>17. CASE ~ (ok /\ Cardinality(found) <= 1 /\ IsUnique(new))
  <2>1. next = [rows |-> rows, last |-> last, ok |-> no]
    BY <1>12, <1>17
  <2>2. next.rows = rows /\ next.last = last /\ next.ok = no
    BY <2>1
  <2>3. next \in SaveStates(tags, exist)
    BY <1>2, <1>3, <2>1 DEF SaveStates
  <2>4. ~ next.ok
    BY <1>8, <2>2
  <2>5. SavesGoOn(result, first, tags, exist) => SavesGoOn(next, first, tags, exist)
    BY <1>1, <2>2 DEF SavesGoOn
  <2>6. QED  BY <2>3, <2>4, <2>5
<1>18. QED  BY <1>16, <1>17

\* The states that copying goes through.
IsCopying(r, n, order, kept, dest, start) ==
    /\ r[0] = start
    /\ \A k \in 1 .. n : r[k] = CopyRow(r[k - 1], dest, kept[order[k]])

CopyEnd(kept, dest, start, order) ==
    FoldLeft(LAMBDA result, p : CopyRow(result, dest, kept[p]), start, order)

\* An order of rows of taxonomies.
IsOrder(order, n, shown, kept, exist) ==
    /\ order \in [1 .. n -> shown]
    /\ \A p \in shown : kept[p] \in LinkedRows(tags, exist) /\ kept[p].taxonomy # None

LEMMA CopyRuns ==
    ASSUME KeysAreOld(tags, lastTag), NEW exist \in SUBSET AllTaxonomies, NEW dest \in Objects,
           NEW kept, NEW shown, NEW n \in Nat, NEW order, IsOrder(order, n, shown, kept, exist),
           NEW start \in SaveStates(tags, exist)
    PROVE  \E r : IsCopying(r, n, order, kept, dest, start)
                  /\ r[n] = CopyEnd(kept, dest, start, order)
<1> DEFINE IsLoop(h) ==
             h = [s \in SUBSET (1 .. n) |->
                    IF s = {} THEN start ELSE CopyRow(h[s \ {Max(s)}], dest, kept[order[Max(s)]])]
<1>1. PICK f : f = CHOOSE h : IsLoop(h)
  OBVIOUS
<1>2. f[1 .. n] = CopyEnd(kept, dest, start, order)
  <2>1. DOMAIN order = 1 .. n
    BY DEF IsOrder
  <2>2. QED  BY <1>1, <2>1 DEF CopyEnd, FoldLeft, MapThenFoldSet
<1>3. \E h : IsLoop(h)
  <2>1. PICK X : X = SaveStates(tags, exist)
    OBVIOUS
  <2>2. PICK G : G = [q \in (1 .. n) \X X |-> CopyRow(q[2], dest, kept[order[q[1]]])]
    OBVIOUS
  <2>3. ASSUME NEW m \in 1 .. n, NEW result \in X
        PROVE  CopyRow(result, dest, kept[order[m]]) \in X
    <3>1. PICK row \in LinkedRows(tags, exist) : row = kept[order[m]] /\ row.taxonomy # None
      BY DEF IsOrder
    <3>2. PICK next : next = CopyRow(result, dest, row)
      OBVIOUS
    <3>3. next \in X
      <4>1. 0 \in Nat
        OBVIOUS
      <4>2. QED  BY <2>1, <3>1, <3>2, <4>1, CopyStep
    <3>4. QED  BY <3>1, <3>2, <3>3
  <2>4. G \in [(1 .. n) \X X -> X]
    BY <2>2, <2>3
  <2>5. PICK h \in [SUBSET (1 .. n) -> X] : IsFold(h, n, start, G)
    BY <2>1, <2>4, FoldsExist
  <2>6. ASSUME NEW s \in SUBSET (1 .. n)
        PROVE  h[s] = IF s = {} THEN start
                      ELSE CopyRow(h[s \ {Max(s)}], dest, kept[order[Max(s)]])
    <3>1. h[s] = IF s = {} THEN start ELSE G[<<Max(s), h[s \ {Max(s)}]>>]
      BY <2>5 DEF IsFold
    <3>2. ASSUME s # {}
          PROVE  G[<<Max(s), h[s \ {Max(s)}]>>] =
                   CopyRow(h[s \ {Max(s)}], dest, kept[order[Max(s)]])
      <4>1. PICK m : m = Max(s)
        OBVIOUS
      <4>2. m \in 1 .. n
        BY <3>2, <4>1, GreatestNumber
      <4>3. PICK result \in X : result = h[s \ {m}]
        BY <2>5
      <4>4. <<m, result>> \in (1 .. n) \X X
        BY <4>2
      <4>5. G[<<m, result>>] = CopyRow(result, dest, kept[order[m]])
        BY <2>2, <4>4
      <4>6. QED  BY <4>1, <4>3, <4>5
    <3>3. QED  BY <3>1, <3>2
  <2>7. IsLoop(h)
    BY <2>5, <2>6 DEF IsFold
  <2>8. QED  BY <2>7
<1>4. IsLoop(f)
  BY <1>1, <1>3
<1>5. PICK r : r = [k \in 0 .. n |-> f[1 .. k]]
  OBVIOUS
<1>6. r[0] = start
  <2>1. 0 \in 0 .. n /\ 1 .. 0 = {} /\ 1 .. 0 \in SUBSET (1 .. n)
    BY FirstNumbers
  <2>2. QED  BY <1>4, <1>5, <2>1
<1>7. ASSUME NEW k \in 1 .. n PROVE r[k] = CopyRow(r[k - 1], dest, kept[order[k]])
  <2>1. k \in 0 .. n /\ k - 1 \in 0 .. n
    OBVIOUS
  <2>2. 1 .. k \in SUBSET (1 .. n) /\ 1 .. k # {}
        /\ Max(1 .. k) = k /\ (1 .. k) \ {k} = 1 .. k - 1
    BY FirstNumbers
  <2>3. f[1 .. k] = CopyRow(f[1 .. k - 1], dest, kept[order[k]])
    BY <1>4, <2>2
  <2>4. QED  BY <1>5, <2>1, <2>3
<1>8. r[n] = f[1 .. n]
  BY <1>5
<1>9. IsCopying(r, n, order, kept, dest, start)
  BY <1>6, <1>7 DEF IsCopying
<1>10. QED  BY <1>2, <1>8, <1>9

RowSet == [object : Objects, taxonomy : AllTaxonomies \cup {None}, exportId : AllTaxonomies,
           tag : Nat \cup {None}, value : Values \cup {Empty}, copied : BOOLEAN]

\* Marking a row leaves the rest of it.
LEMMA RowWithMark ==
    ASSUME NEW r \in RowSet, NEW c \in BOOLEAN, NEW s, s = [r EXCEPT !.copied = c]
    PROVE  /\ s.copied = c /\ s.object = r.object /\ s.taxonomy = r.taxonomy /\ s.tag = r.tag
           /\ s = [s EXCEPT !.copied = c]
<1>1. s = [object |-> r.object, taxonomy |-> r.taxonomy, exportId |-> r.exportId,
           tag |-> r.tag, value |-> r.value, copied |-> c]
  BY DEF RowSet
<1>2. QED  BY <1>1

LEMMA MarkedRow ==
    ASSUME NEW r \in RowSet, NEW s, s = [r EXCEPT !.copied = TRUE], NEW dest, NEW row
    PROVE  /\ s.copied /\ (HasLink(s, dest, row) <=> HasLink(r, dest, row))
           /\ s = [s EXCEPT !.copied = TRUE]
<1>1. PICK c \in BOOLEAN : c = TRUE
  OBVIOUS
<1>2. /\ s.copied = c /\ s.object = r.object /\ s.taxonomy = r.taxonomy /\ s.tag = r.tag
      /\ s = [s EXCEPT !.copied = c]
  BY <1>1, RowWithMark
<1>3. QED  BY <1>1, <1>2 DEF HasLink

\* What copying leaves: every row that was kept, marked if it is for a tag
\* copied so far, new rows for such tags, and for each of them only one row.
CopiesGoOn(rows, k, order, kept, dest) ==
    /\ DOMAIN kept \subseteq DOMAIN rows
    /\ \A p \in DOMAIN kept :
         \/ rows[p] = kept[p]
         \/ /\ rows[p] = [kept[p] EXCEPT !.copied = TRUE]
            /\ \E i \in 1 .. k : HasLink(kept[p], dest, kept[order[i]])
    /\ \A p \in DOMAIN rows \ DOMAIN kept : \E i \in 1 .. k : rows[p] = CopyOf(dest, kept[order[i]])
    /\ \A i \in 1 .. k : \E p \in DOMAIN rows :
         /\ rows[p].copied
         /\ \A q \in DOMAIN rows : HasLink(rows[q], dest, kept[order[i]]) <=> q = p

LEMMA NextCopy ==
    ASSUME NEW R \in SUBSET RowSet, NEW D, NEW rows \in [D -> R],
           NEW kept, kept \in [DOMAIN kept -> R], NEW order, NEW dest,
           NEW k \in Nat, NEW row, row = kept[order[k + 1]],
           CopiesGoOn(rows, k, order, kept, dest),
           NEW new, NEW p, IsCopied(rows, new, dest, row, p)
    PROVE  CopiesGoOn(new, k + 1, order, kept, dest)
<1>1. PICK m : m = k + 1 /\ m \in 1 .. m /\ 1 .. k \subseteq 1 .. m /\ 1 .. m = (1 .. k) \cup {m}
  OBVIOUS
<1>2. /\ D \subseteq DOMAIN new /\ p \in DOMAIN new /\ DOMAIN new = D \cup {p}
      /\ \A q \in D : q # p => new[q] = rows[q]
      /\ p \in D => new[p] = [rows[p] EXCEPT !.copied = TRUE] /\ HasLink(rows[p], dest, row)
      /\ p \notin D => new[p] = CopyOf(dest, row)
      /\ \A q \in D \ {p} : ~ HasLink(rows[q], dest, row)
  <2>1. DOMAIN rows = D
    OBVIOUS
  <2>2. CASE p \in D
    BY <2>1, <2>2 DEF IsCopied
  <2>3. CASE p \notin D
    BY <2>1, <2>3 DEF IsCopied
  <2>4. QED  BY <2>2, <2>3
<1>3. /\ new[p].copied
      /\ \A q \in DOMAIN new : HasLink(new[q], dest, row) <=> q = p
  <2>1. new[p].copied /\ HasLink(new[p], dest, row)
    <3>1. CASE p \in D
      <4>1. rows[p] \in RowSet
        BY <3>1
      <4>2. QED  BY <1>2, <3>1, <4>1, MarkedRow
    <3>2. CASE p \notin D
      BY <1>2, <3>2 DEF CopyOf, ObjectTag, HasLink
    <3>3. QED  BY <3>1, <3>2
  <2>2. \A q \in DOMAIN new \ {p} : ~ HasLink(new[q], dest, row)
    BY <1>2
  <2>3. QED  BY <1>2, <2>1, <2>2
<1>4. ASSUME NEW q \in DOMAIN kept
      PROVE  /\ q \in DOMAIN new
             /\ \/ new[q] = kept[q]
                \/ /\ new[q] = [kept[q] EXCEPT !.copied = TRUE]
                   /\ \E i \in 1 .. m : HasLink(kept[q], dest, kept[order[i]])
  <2>1. /\ q \in D
        /\ \/ rows[q] = kept[q]
           \/ /\ rows[q] = [kept[q] EXCEPT !.copied = TRUE]
              /\ \E i \in 1 .. k : HasLink(kept[q], dest, kept[order[i]])
    BY DEF CopiesGoOn
  <2>2. kept[q] \in RowSet
    OBVIOUS
  <2>3. CASE q = p
    <3>1. new[q] = [rows[q] EXCEPT !.copied = TRUE] /\ HasLink(rows[q], dest, row)
      BY <1>2, <2>1, <2>3
    <3>2. CASE rows[q] = kept[q]
      BY <1>1, <1>2, <2>1, <2>3, <3>1, <3>2
    <3>3. CASE rows[q] # kept[q]
      <4>1. PICK r, s : r = kept[q] /\ s = rows[q]
        OBVIOUS
      <4>2. s = [r EXCEPT !.copied = TRUE] /\ r \in RowSet
        BY <2>1, <2>2, <3>3, <4>1
      <4>3. s = [s EXCEPT !.copied = TRUE]
        BY <4>2, MarkedRow
      <4>4. new[q] = [kept[q] EXCEPT !.copied = TRUE]
        BY <3>1, <4>1, <4>2, <4>3
      <4>5. \E i \in 1 .. m : HasLink(kept[q], dest, kept[order[i]])
        BY <1>1, <2>1, <3>3
      <4>6. QED  BY <1>2, <2>1, <4>4, <4>5
    <3>4. QED  BY <3>2, <3>3
  <2>4. CASE q # p
    <3>1. new[q] = rows[q]
      BY <1>2, <2>1, <2>4
    <3>2. QED  BY <1>1, <1>2, <2>1, <3>1
  <2>5. QED  BY <2>3, <2>4
<1>5. ASSUME NEW q \in DOMAIN new \ DOMAIN kept
      PROVE  \E i \in 1 .. m : new[q] = CopyOf(dest, kept[order[i]])
  <2>1. CASE q \notin D
    BY <1>1, <1>2, <2>1
  <2>2. CASE q \in D
    <3>1. PICK i \in 1 .. k : rows[q] = CopyOf(dest, kept[order[i]])
      BY <2>2 DEF CopiesGoOn
    <3>2. CASE q # p
      BY <1>1, <1>2, <2>2, <3>1, <3>2
    <3>3. CASE q = p
      <4>1. new[q] = [rows[q] EXCEPT !.copied = TRUE]
        BY <1>2, <2>2, <3>3
      <4>2. [CopyOf(dest, kept[order[i]]) EXCEPT !.copied = TRUE] = CopyOf(dest, kept[order[i]])
        <5>1. PICK c \in BOOLEAN : c = TRUE
          OBVIOUS
        <5>2. PICK x, t, v :
                x = kept[order[i]].taxonomy /\ t = kept[order[i]].tag
                /\ v = IF t = None THEN Empty ELSE tags[t].value
          OBVIOUS
        <5>3. CopyOf(dest, kept[order[i]]) = [object |-> dest, taxonomy |-> x, exportId |-> x,
                                              tag |-> t, value |-> v, copied |-> c]
          BY <5>1, <5>2 DEF CopyOf, ObjectTag
        <5>4. PICK a : a = [object |-> dest, taxonomy |-> x, exportId |-> x,
                            tag |-> t, value |-> v, copied |-> c]
          OBVIOUS
        <5>5. [a EXCEPT !.copied = c] = a
          BY <5>4
        <5>6. QED  BY <5>1, <5>3, <5>4, <5>5
      <4>3. QED  BY <1>1, <3>1, <4>1, <4>2
    <3>4. QED  BY <3>2, <3>3
  <2>3. QED  BY <2>1, <2>2
<1>6. ASSUME NEW i \in 1 .. m
      PROVE  \E q \in DOMAIN new :
                /\ new[q].copied
                /\ \A o \in DOMAIN new : HasLink(new[o], dest, kept[order[i]]) <=> o = q
  <2>1. CASE i = m
    BY <1>1, <1>2, <1>3, <2>1
  <2>2. CASE i # m
    <3>1. i \in 1 .. k
      BY <1>1, <2>2
    <3>2. PICK other : other = kept[order[i]]
      OBVIOUS
    <3>3. PICK q \in D :
            rows[q].copied /\ \A o \in D : HasLink(rows[o], dest, other) <=> o = q
      BY <3>1, <3>2 DEF CopiesGoOn
    <3>4. ASSUME NEW o \in D
          PROVE  /\ HasLink(new[o], dest, other) <=> HasLink(rows[o], dest, other)
                 /\ rows[o].copied => new[o].copied
      <4>1. CASE o # p
        BY <1>2, <4>1
      <4>2. CASE o = p
        <5>1. PICK r, s : r = rows[o] /\ s = new[o]
          OBVIOUS
        <5>2. r \in RowSet /\ s = [r EXCEPT !.copied = TRUE]
          BY <1>2, <4>2, <5>1
        <5>3. s.copied /\ (HasLink(s, dest, other) <=> HasLink(r, dest, other))
          BY <5>2, MarkedRow
        <5>4. QED  BY <5>1, <5>3
      <4>3. QED  BY <4>1, <4>2
    <3>5. ASSUME p \notin D PROVE ~ HasLink(new[p], dest, other)
      <4>1. ASSUME HasLink(new[p], dest, other) PROVE FALSE
        <5>1. HasLink(new[p], dest, row)
          BY <1>2, <1>3
        <5>2. row.taxonomy = other.taxonomy /\ row.tag = other.tag
          BY <4>1, <5>1 DEF HasLink
        <5>3. HasLink(rows[q], dest, row)
          BY <3>3, <5>2 DEF HasLink
        <5>4. QED  BY <1>2, <3>5, <5>3
      <4>2. QED  BY <4>1
    <3>6. \A o \in DOMAIN new : HasLink(new[o], dest, other) <=> o = q
      BY <1>2, <3>3, <3>4, <3>5
    <3>7. QED  BY <1>2, <3>2, <3>3, <3>4, <3>6
  <2>3. QED  BY <2>1, <2>2
<1>7. CopiesGoOn(new, m, order, kept, dest)
  BY <1>4, <1>5, <1>6 DEF CopiesGoOn
<1>8. QED  BY <1>1, <1>7

KeptRows(dest) ==
    Restrict(objectTags, {p \in DOMAIN objectTags :
                            ~(objectTags[p].object = dest /\ objectTags[p].copied)})

ShownRows(source, dest) ==
    {p \in RowsOf(KeptRows(dest), source) : IsShown(KeptRows(dest)[p])}

CopyStart(dest) == [rows |-> KeptRows(dest), last |-> lastRow, ok |-> TRUE]

LEMMA CopyTagsEnds ==
    ASSUME NEW source, NEW dest, CopyTags(source, dest),
           NEW end, end = CopyEnd(KeptRows(dest), dest, CopyStart(dest),
                                  SetToSeq(ShownRows(source, dest)))
    PROVE  /\ end.ok /\ objectTags' = end.rows /\ lastRow' = end.last
           /\ UNCHANGED << taxonomies, tags, lastTag >>
  BY DEF CopyTags, CopyEnd, KeptRows, ShownRows, CopyStart

LEMMA CopiedRows ==
    ASSUME TagsInv, NEW source \in Objects, NEW dest \in Objects, CopyTags(source, dest),
           NEW kept, kept = KeptRows(dest), NEW shown, shown = ShownRows(source, dest)
    PROVE  /\ UNCHANGED << taxonomies, tags, lastTag >>
           /\ lastRow' \in Nat /\ lastRow <= lastRow'
           /\ AreRows(kept, lastRow, tags, taxonomies)
           /\ AreRows(objectTags', lastRow', tags, taxonomies)
           /\ \E n \in Nat : \E order :
                /\ order \in [1 .. n -> shown] /\ \A p \in shown : \E i \in 1 .. n : order[i] = p
                /\ CopiesGoOn(objectTags', n, order, kept, dest)
<1>1. /\ KeysAreOld(tags, lastTag) /\ lastRow \in Nat /\ taxonomies \in SUBSET AllTaxonomies
      /\ AreRows(objectTags, lastRow, tags, taxonomies)
  BY DEF TagsInv
<1>2. AreRows(kept, lastRow, tags, taxonomies)
  BY <1>1, RowsLeft DEF KeptRows
<1>3. shown = {p \in DOMAIN kept : kept[p].object = source /\ IsShown(kept[p])}
  BY DEF ShownRows, RowsOf
<1>4. IsFiniteSet(shown)
  <2>1. IsFiniteSet(1 .. lastRow) /\ shown \subseteq 1 .. lastRow
    BY <1>1, <1>2, <1>3, FS_Interval DEF AreRows
  <2>2. QED  BY <2>1, FS_Subset
<1>5. PICK n, order : n = Cardinality(shown) /\ order = SetToSeq(shown)
  OBVIOUS
<1>6. n \in Nat /\ order \in [1 .. n -> shown] /\ \A p \in shown : \E i \in 1 .. n : order[i] = p
  BY <1>4, <1>5, SetsAreListed
<1>7. IsOrder(order, n, shown, kept, taxonomies)
  <2>1. kept \in [DOMAIN kept -> LinkedRows(tags, taxonomies)]
    BY <1>2 DEF AreRows
  <2>2. \A p \in shown : kept[p] \in LinkedRows(tags, taxonomies) /\ kept[p].taxonomy # None
    BY <1>3, <2>1 DEF IsShown
  <2>3. QED  BY <1>6, <2>2 DEF IsOrder
<1>8. PICK ok \in BOOLEAN : ok = TRUE
  OBVIOUS
<1>9. PICK start : start = [rows |-> kept, last |-> lastRow, ok |-> ok]
  OBVIOUS
<1>10. /\ start \in SaveStates(tags, taxonomies)
       /\ SavesGoOn(start, lastRow, tags, taxonomies)
  BY <1>1, <1>2, <1>9, RowsAreSaveStates
<1>11. start = CopyStart(dest)
  BY <1>8, <1>9 DEF CopyStart
<1>12. PICK end : end = CopyEnd(kept, dest, start, order)
  OBVIOUS
<1>13. /\ end.ok /\ objectTags' = end.rows /\ lastRow' = end.last
       /\ UNCHANGED << taxonomies, tags, lastTag >>
  BY <1>5, <1>11, <1>12, CopyTagsEnds
<1>14. PICK r : IsCopying(r, n, order, kept, dest, start) /\ end = r[n]
  BY <1>1, <1>6, <1>7, <1>10, <1>12, CopyRuns
<1>15. r[0] = start /\ \A k \in 1 .. n : r[k] = CopyRow(r[k - 1], dest, kept[order[k]])
  BY <1>14 DEF IsCopying
<1> DEFINE Goes(s, k) == /\ s \in SaveStates(tags, taxonomies)
                         /\ SavesGoOn(s, lastRow, tags, taxonomies)
                         /\ s.ok => CopiesGoOn(s.rows, k, order, kept, dest)
           T == {k \in 0 .. n : Goes(r[k], k)}
<1>16. 0 \in T
  <2>1. start.rows = kept
    BY <1>9
  <2>2. CopiesGoOn(kept, 0, order, kept, dest)
    BY DEF CopiesGoOn
  <2>3. 0 \in 0 .. n
    BY <1>6
  <2>4. CopiesGoOn(start.rows, 0, order, kept, dest)
    BY <2>1, <2>2
  <2>5. Goes(start, 0)
    BY <1>10, <2>4
  <2>6. QED  BY <1>15, <2>3, <2>5
<1>17. ASSUME NEW k \in 0 .. n - 1, k \in T PROVE k + 1 \in T
  <2>1. k \in Nat /\ k + 1 \in 1 .. n /\ k + 1 \in 0 .. n /\ (k + 1) - 1 = k
    BY <1>6
  <2>2. PICK row \in LinkedRows(tags, taxonomies) :
          row = kept[order[k + 1]] /\ row.taxonomy # None
    BY <1>7, <2>1 DEF IsOrder
  <2>3. PICK result \in SaveStates(tags, taxonomies) : result = r[k] /\ Goes(result, k)
    BY <1>17
  <2>4. PICK next : next = r[k + 1]
    OBVIOUS
  <2>5. next = CopyRow(result, dest, row)
    BY <1>15, <2>1, <2>2, <2>3, <2>4
  <2>6. /\ next \in SaveStates(tags, taxonomies)
        /\ SavesGoOn(next, lastRow, tags, taxonomies)
        /\ next.ok => result.ok /\ \E p : IsCopied(result.rows, next.rows, dest, row, p)
    BY <1>1, <2>2, <2>3, <2>5, CopyStep
  <2>7. ASSUME next.ok PROVE CopiesGoOn(next.rows, k + 1, order, kept, dest)
    <3>1. PICK p : result.ok /\ IsCopied(result.rows, next.rows, dest, row, p)
      BY <2>6, <2>7
    <3>2. PICK R, rows, new :
            R = LinkedRows(tags, taxonomies) /\ rows = result.rows /\ new = next.rows
      OBVIOUS
    <3>3. PICK D : rows \in [D -> R]
      BY <3>2 DEF SaveStates
    <3>4. R \in SUBSET RowSet
      BY <1>1, <3>2 DEF LinkedRows, TypedRows, RowSet
    <3>5. kept \in [DOMAIN kept -> R]
      BY <1>2, <3>2 DEF AreRows
    <3>6. CopiesGoOn(rows, k, order, kept, dest) /\ IsCopied(rows, new, dest, row, p)
      BY <2>3, <3>1, <3>2
    <3>7. CopiesGoOn(new, k + 1, order, kept, dest)
      BY <2>1, <2>2, <3>3, <3>4, <3>5, <3>6, NextCopy
    <3>8. QED  BY <3>2, <3>7
  <2>8. QED  BY <2>1, <2>4, <2>6, <2>7
<1> HIDE DEF T
<1>18. \A k \in 0 .. n : k \in T
  <2>1. 0 \in Nat
    OBVIOUS
  <2>2. QED  BY <1>6, <1>16, <1>17, <2>1, UpTo
<1>19. n \in T
  BY <1>6, <1>18
<1>20. Goes(end, n)
  BY <1>14, <1>19 DEF T
<1>21. lastRow' \in Nat
  BY <1>13, <1>20 DEF SaveStates
<1>22. AreRows(objectTags', lastRow', tags, taxonomies) /\ lastRow <= lastRow'
  BY <1>13, <1>20 DEF SavesGoOn
<1>23. QED  BY <1>2, <1>6, <1>13, <1>20, <1>21, <1>22

\* What CopiesAreTheSourcesTags says of a call.
CopiesFrom(source, dest) ==
    LET link(row) == << row.taxonomy, row.tag >>
        shown  == {link(objectTags[p]) :
                     p \in {p \in RowsOf(objectTags, source) : IsShown(objectTags[p])}}
        own    == {p \in RowsOf(objectTags, dest) : ~ objectTags[p].copied}
        theirs == RowsOf(objectTags', dest)
    IN  /\ \A l \in shown : \E p \in theirs :
             /\ objectTags'[p].copied
             /\ \A q \in theirs : link(objectTags'[q]) = l <=> q = p
        /\ own \subseteq theirs
        /\ \A p \in own :
             objectTags'[p] = [objectTags[p] EXCEPT !.copied = link(objectTags[p]) \in shown]
        /\ \A p \in theirs \ own :
             LET new == objectTags'[p]
             IN  /\ link(new) \in shown /\ new.copied /\ new.exportId = new.taxonomy
                 /\ new.value = IF new.tag = None THEN Empty ELSE tags[new.tag].value
        /\ \A o \in Objects \ {dest} : (RowsRead(o))' = RowsRead(o)

LEMMA CopiesAreFromSource ==
    ASSUME TagsInv, NEW source \in Objects, NEW dest \in Objects,
           CopyTags(source, dest), source # dest
    PROVE  CopiesFrom(source, dest)
<1>1. PICK kept, shown, new :
        kept = KeptRows(dest) /\ shown = ShownRows(source, dest) /\ new = objectTags'
  OBVIOUS
<1>2. /\ AreRows(kept, lastRow, tags, taxonomies) /\ AreRows(new, lastRow', tags, taxonomies)
      /\ \E n \in Nat : \E order :
           /\ order \in [1 .. n -> shown] /\ \A p \in shown : \E i \in 1 .. n : order[i] = p
           /\ CopiesGoOn(new, n, order, kept, dest)
  BY <1>1, CopiedRows
<1>3. PICK n \in Nat : \E order :
        /\ order \in [1 .. n -> shown] /\ \A p \in shown : \E i \in 1 .. n : order[i] = p
        /\ CopiesGoOn(new, n, order, kept, dest)
  BY <1>2
<1>4. PICK order :
        /\ order \in [1 .. n -> shown] /\ \A p \in shown : \E i \in 1 .. n : order[i] = p
        /\ CopiesGoOn(new, n, order, kept, dest)
  BY <1>3
<1>5. /\ DOMAIN kept = {p \in DOMAIN objectTags :
                          ~(objectTags[p].object = dest /\ objectTags[p].copied)}
      /\ \A p \in DOMAIN kept : kept[p] = objectTags[p]
  BY <1>1 DEF KeptRows, Restrict
<1>6. shown = {p \in DOMAIN objectTags : objectTags[p].object = source /\ IsShown(objectTags[p])}
  BY <1>1, <1>5 DEF ShownRows, RowsOf
<1>7. /\ shown \subseteq DOMAIN kept
      /\ \A i \in 1 .. n : order[i] \in shown /\ kept[order[i]] = objectTags[order[i]]
  BY <1>4, <1>5, <1>6
<1>8. \A p \in DOMAIN kept : kept[p] \in RowSet
  <2>1. taxonomies \subseteq AllTaxonomies
    BY DEF TagsInv
  <2>2. QED  BY <1>2, <2>1 DEF AreRows, LinkedRows, TypedRows, RowSet
<1> DEFINE Link(row) == << row.taxonomy, row.tag >>
           Shown  == {Link(objectTags[p]) :
                        p \in {p \in RowsOf(objectTags, source) : IsShown(objectTags[p])}}
           Own    == {p \in RowsOf(objectTags, dest) : ~ objectTags[p].copied}
           Theirs == RowsOf(new, dest)
<1>9. \A l : l \in Shown <=> \E i \in 1 .. n : l = Link(objectTags[order[i]])
  <2>1. {p \in RowsOf(objectTags, source) : IsShown(objectTags[p])} = shown
    BY <1>6 DEF RowsOf
  <2>2. Shown = {Link(objectTags[p]) : p \in shown}
    BY <2>1
  <2>3. QED  BY <1>4, <1>7, <2>2
<1>10. /\ Theirs = {p \in DOMAIN new : new[p].object = dest}
       /\ Own = {p \in DOMAIN kept : kept[p].object = dest}
  BY <1>5 DEF RowsOf
<1>11. \A p \in DOMAIN new, i \in 1 .. n :
          HasLink(new[p], dest, kept[order[i]])
            <=> p \in Theirs /\ Link(new[p]) = Link(objectTags[order[i]])
  BY <1>7, <1>10 DEF HasLink
<1>12. ASSUME NEW l \in Shown
       PROVE  \E p \in Theirs : new[p].copied /\ \A q \in Theirs : Link(new[q]) = l <=> q = p
  <2>1. PICK i \in 1 .. n : l = Link(objectTags[order[i]])
    BY <1>9
  <2>2. PICK p \in DOMAIN new :
          new[p].copied /\ \A q \in DOMAIN new : HasLink(new[q], dest, kept[order[i]]) <=> q = p
    BY <1>4 DEF CopiesGoOn
  <2>3. p \in Theirs /\ \A q \in Theirs : Link(new[q]) = l <=> q = p
    BY <1>10, <1>11, <2>1, <2>2
  <2>4. QED  BY <2>2, <2>3
<1>13. ASSUME NEW p \in Own
       PROVE  /\ p \in Theirs
              /\ new[p] = [objectTags[p] EXCEPT !.copied = Link(objectTags[p]) \in Shown]
  <2>1. PICK r, s : r = kept[p] /\ s = new[p]
    OBVIOUS
  <2>2. /\ p \in DOMAIN kept /\ p \in DOMAIN new /\ r = objectTags[p] /\ r \in RowSet
        /\ r.object = dest /\ ~ r.copied
    BY <1>4, <1>5, <1>8, <1>10, <2>1 DEF CopiesGoOn
  <2>3. \/ s = r
        \/ s = [r EXCEPT !.copied = TRUE] /\ \E i \in 1 .. n : HasLink(r, dest, kept[order[i]])
    BY <1>4, <2>1, <2>2 DEF CopiesGoOn
  <2>4. CASE Link(r) \in Shown
    <3>1. PICK i \in 1 .. n : Link(r) = Link(objectTags[order[i]])
      BY <1>9, <2>4
    <3>2. HasLink(r, dest, kept[order[i]])
      BY <1>7, <2>2, <3>1 DEF HasLink
    <3>3. HasLink(s, dest, kept[order[i]])
      BY <2>2, <2>3, <3>2, MarkedRow
    <3>4. PICK q \in DOMAIN new :
            new[q].copied /\ \A o \in DOMAIN new : HasLink(new[o], dest, kept[order[i]]) <=> o = q
      BY <1>4 DEF CopiesGoOn
    <3>5. s.copied
      BY <2>1, <2>2, <3>3, <3>4
    <3>6. s = [r EXCEPT !.copied = TRUE]
      BY <2>2, <2>3, <3>5
    <3>7. s = [r EXCEPT !.copied = Link(r) \in Shown]
      BY <2>4, <3>6
    <3>8. s.object = dest
      BY <3>3 DEF HasLink
    <3>9. QED  BY <1>10, <2>1, <2>2, <3>7, <3>8
  <2>5. CASE Link(r) \notin Shown
    <3>1. ASSUME NEW i \in 1 .. n, HasLink(r, dest, kept[order[i]]) PROVE FALSE
      <4>1. Link(r) = Link(objectTags[order[i]])
        BY <1>7, <3>1 DEF HasLink
      <4>2. QED  BY <1>9, <2>5, <4>1
    <3>2. s = r
      BY <2>3, <3>1
    <3>3. PICK c \in BOOLEAN : c = FALSE
      OBVIOUS
    <3>4. r.copied = c
      BY <2>2, <3>3 DEF RowSet
    <3>5. r = [r EXCEPT !.copied = c]
      BY <2>2, <3>4 DEF RowSet
    <3>6. (Link(r) \in Shown) = c
      BY <2>5, <3>3
    <3>7. QED  BY <1>10, <2>1, <2>2, <3>2, <3>5, <3>6
  <2>6. QED  BY <2>4, <2>5
<1>14. ASSUME NEW p \in Theirs \ Own
       PROVE  /\ Link(new[p]) \in Shown /\ new[p].copied /\ new[p].exportId = new[p].taxonomy
              /\ new[p].value = IF new[p].tag = None THEN Empty ELSE tags[new[p].tag].value
  <2>1. p \in DOMAIN new /\ new[p].object = dest
    BY <1>10
  <2>2. p \notin DOMAIN kept
    <3>1. ASSUME p \in DOMAIN kept PROVE FALSE
      <4>1. PICK r, s : r = kept[p] /\ s = new[p]
        OBVIOUS
      <4>2. s = r \/ s = [r EXCEPT !.copied = TRUE]
        BY <1>4, <3>1, <4>1 DEF CopiesGoOn
      <4>3. s.object = r.object
        BY <1>8, <3>1, <4>1, <4>2 DEF RowSet
      <4>4. QED  BY <1>10, <2>1, <3>1, <4>1, <4>3
    <3>2. QED  BY <3>1
  <2>3. PICK i \in 1 .. n : new[p] = CopyOf(dest, kept[order[i]])
    BY <1>4, <2>1, <2>2 DEF CopiesGoOn
  <2>4. PICK row : row = kept[order[i]] /\ row = objectTags[order[i]]
    BY <1>7
  <2>5. /\ new[p].taxonomy = row.taxonomy /\ new[p].exportId = row.taxonomy
        /\ new[p].tag = row.tag /\ new[p].copied
        /\ new[p].value = IF row.tag = None THEN Empty ELSE tags[row.tag].value
    BY <2>3, <2>4 DEF CopyOf, ObjectTag
  <2>6. Link(new[p]) = Link(objectTags[order[i]])
    BY <2>4, <2>5
  <2>7. QED  BY <1>9, <2>5, <2>6
<1>15. ASSUME NEW o \in Objects \ {dest} PROVE (RowsRead(o))' = RowsRead(o)
  <2>1. ASSUME NEW p \in DOMAIN new, new[p].object = o
        PROVE  p \in DOMAIN kept
    <3>1. ASSUME p \notin DOMAIN kept PROVE FALSE
      <4>1. PICK i \in 1 .. n : new[p] = CopyOf(dest, kept[order[i]])
        BY <1>4, <3>1 DEF CopiesGoOn
      <4>2. new[p].object = dest
        BY <4>1 DEF CopyOf, ObjectTag
      <4>3. QED  BY <2>1, <4>2
    <3>2. QED  BY <3>1
  <2>2. ASSUME NEW p \in DOMAIN kept
        PROVE  /\ p \in DOMAIN new /\ new[p].object = kept[p].object
               /\ kept[p].object # dest => new[p] = kept[p]
    <3>1. PICK r, s : r = kept[p] /\ s = new[p]
      OBVIOUS
    <3>2. p \in DOMAIN new
          /\ (s = r \/ (s = [r EXCEPT !.copied = TRUE]
                         /\ \E i \in 1 .. n : HasLink(r, dest, kept[order[i]])))
      BY <1>4, <3>1 DEF CopiesGoOn
    <3>3. s.object = r.object
      BY <1>8, <3>1, <3>2 DEF RowSet
    <3>4. r.object # dest => s = r
      BY <3>2 DEF HasLink
    <3>5. QED  BY <3>1, <3>2, <3>3, <3>4
  <2>3. RowsOf(new, o) = {p \in DOMAIN kept : kept[p].object = o}
    BY <2>1, <2>2 DEF RowsOf
  <2>4. RowsOf(objectTags, o) = {p \in DOMAIN kept : kept[p].object = o}
    BY <1>5 DEF RowsOf
  <2>5. \A p \in RowsOf(objectTags, o) : new[p] = objectTags[p]
    BY <1>5, <2>2, <2>4
  <2>6. RowsOf(new, o) = RowsOf(objectTags, o)
    BY <2>3, <2>4
  <2>7. Restrict(new, RowsOf(new, o)) = Restrict(objectTags, RowsOf(objectTags, o))
    BY <2>5, <2>6 DEF Restrict
  <2>8. (RowsRead(o))' = Restrict(new, RowsOf(new, o))
    BY <1>1 DEF RowsRead
  <2>9. QED  BY <2>7, <2>8 DEF RowsRead
<1>16. Own \subseteq Theirs
  BY <1>13
<1>17. QED  BY <1>1, <1>12, <1>13, <1>14, <1>15, <1>16 DEF CopiesFrom

(***************************************************************************)
(* The invariant                                                           *)
(***************************************************************************)
LEMMA TagsInvStarts == ASSUME ObjectTagsInit PROVE TagsInv
<1>1. tags \in Seq(Rows) /\ IsTable(tags) /\ lastTag = Cardinality(DOMAIN tags)
  BY InitialTagsAssumption DEF ObjectTagsInit
<1>2. PICK n \in Nat : n = Len(tags) /\ DOMAIN tags = 1 .. n
  BY <1>1, LenProperties
<1>3. Cardinality(1 .. n) = n
  BY FS_Interval
<1>4. KeysAreOld(tags, lastTag)
  BY <1>1, <1>2, <1>3 DEF KeysAreOld
<1>5. lastRow = 0 /\ objectTags = << >> /\ taxonomies = AllTaxonomies
  BY DEF ObjectTagsInit
<1>6. AreRows(objectTags, lastRow, tags, taxonomies)
  BY <1>5 DEF AreRows, IsUnique
<1>7. calls = [s \in Sessions |-> calls[s]] /\ \A s \in Sessions : calls[s] = NoCall
  BY DEF ObjectTagsInit
<1>8. Closed \in taxonomies
  BY <1>5 DEF AllTaxonomies
<1>9. QED  BY <1>4, <1>5, <1>6, <1>7, <1>8 DEF TagsInv

LEMMA CopyTagsKeepsInv ==
    ASSUME TagsInv, NEW source \in Objects, NEW dest \in Objects, CopyTags(source, dest),
           UNCHANGED calls
    PROVE  TagsInv'
<1>1. /\ UNCHANGED << taxonomies, tags, lastTag >>
      /\ lastRow' \in Nat /\ lastRow <= lastRow'
      /\ AreRows(objectTags', lastRow', tags, taxonomies)
  BY CopiedRows
<1>2. QED  BY <1>1, CallsOfAllStay DEF TagsInv

LEMMA TagsInvStays ==
    ASSUME TagsInv, [ObjectTagsNext]_vars
    PROVE  TagsInv'
<1>1. CASE \E s \in Sessions : ReadTags(s) \/ WriteTags(s)
  BY <1>1, ReadTagsKeepsInv, WriteTagsKeepsInv
<1>2. CASE EditTaxonomy /\ UNCHANGED calls
  BY <1>2, EditsKeepRows DEF Edited
<1>3. CASE DeleteObjectTags /\ UNCHANGED calls
  BY <1>3, DeleteObjectTagsKeepsInv
<1>4. CASE (\E source, dest \in Objects : CopyTags(source, dest)) /\ UNCHANGED calls
  BY <1>4, CopyTagsKeepsInv
<1>5. CASE UnmarkCopiedTags /\ UNCHANGED calls
  BY <1>5, UnmarkCopiedTagsKeepsInv
<1>6. CASE UNCHANGED vars
  BY <1>6 DEF vars, TagsInv
<1>7. QED  BY <1>1, <1>2, <1>3, <1>4, <1>5, <1>6 DEF ObjectTagsNext

\* Calls on an object leave the taxonomies and their Tags alone.
LEMMA OthersKeepTaxonomies ==
    ASSUME ObjectTagsNext
    PROVE  \/ EditTaxonomy /\ UNCHANGED calls
           \/ UNCHANGED << taxonomies, tags >>
<1>1. CASE \E s \in Sessions : ReadTags(s) \/ WriteTags(s)
  BY <1>1 DEF ReadTags, WriteTags
<1>2. CASE DeleteObjectTags
  BY <1>2 DEF DeleteObjectTags
<1>3. CASE \E source, dest \in Objects : CopyTags(source, dest)
  BY <1>3 DEF CopyTags
<1>4. CASE UnmarkCopiedTags
  BY <1>4 DEF UnmarkCopiedTags
<1>5. QED  BY <1>1, <1>2, <1>3, <1>4 DEF ObjectTagsNext

LEMMA TagsInvImpliesTypeOK == ASSUME TagsInv PROVE ObjectTagsTypeOK
<1>1. /\ taxonomies \subseteq AllTaxonomies
      /\ KeysAreOld(tags, lastTag)
      /\ Closed \notin taxonomies => DOMAIN tags = {}
      /\ AreRows(objectTags, lastRow, tags, taxonomies)
  BY DEF TagsInv
<1>2. DOMAIN tags = {} => tags = NoTags
  BY <1>1, KeysOfTables DEF NoTags
<1>3. IsTable(tags) /\ DOMAIN tags \subseteq 1 .. lastTag
  BY <1>1 DEF KeysAreOld
<1>4. ASSUME NEW p \in DOMAIN objectTags
      PROVE  LET row == objectTags[p]
             IN  /\ row \in [object : Objects, taxonomy : taxonomies \cup {None},
                             exportId : AllTaxonomies, tag : DOMAIN tags \cup {None},
                             value : Values \cup {Empty}, copied : BOOLEAN]
                 /\ row.taxonomy \in {row.exportId, None}
                 /\ row.tag # None => row.taxonomy = Closed
  <2>1. PICK row : row = objectTags[p]
    OBVIOUS
  <2>2. row \in LinkedRows(tags, taxonomies)
    BY <1>1, <2>1 DEF AreRows
  <2>3. QED  BY <2>1, <2>2 DEF LinkedRows, TypedRows
<1>5. IsUnique(objectTags) /\ DOMAIN objectTags \subseteq 1 .. lastRow
  BY <1>1 DEF AreRows
<1>6. QED  BY <1>1, <1>2, <1>3, <1>4, <1>5 DEF ObjectTagsTypeOK

(***************************************************************************)
(* What a call of tag_object saves                                         *)
(***************************************************************************)
LEMMA OneSaveForValue ==
    ASSUME NEW call, NEW exist \in SUBSET AllTaxonomies, NEW last, IsCall(call, exist, last),
           NEW v \in Values, NEW s, s = SaveFor(call, v)
    PROVE  /\ Len(s) \in 0 .. 1
           /\ \A save \in ToSet(s) : s = << save >>
           /\ \A save : s = << save >> => save \in ToSet(s)
<1>1. s = << >> \/ \E save : s = << save >>
  BY SavesForValue
<1>2. CASE s = << >>
  <2>1. \A save : s # << save >>
    BY <1>2
  <2>2. QED  BY <1>2, <2>1 DEF ToSet
<1>3. CASE \E save : s = << save >>
  <2>1. PICK save : s = << save >>
    BY <1>3
  <2>2. Len(s) = 1 /\ DOMAIN s = {1} /\ s[1] = save
    BY <2>1
  <2>3. ToSet(s) = {save}
    BY <2>2 DEF ToSet
  <2>4. \A x : s = << x >> => x = save
    BY <2>1
  <2>5. QED  BY <2>1, <2>2, <2>3, <2>4
<1>4. QED  BY <1>1, <1>2, <1>3

\* Saves are for values of the list, no two of them for the same one.
AreSavesOf(saves, call, n) ==
    /\ n \in Nat /\ n = Len(saves)
    /\ \A i \in 1 .. n : \E v \in ToSet(call.asked) : SaveFor(call, v) = << saves[i] >>
    /\ \A i, j \in 1 .. n : i < j =>
         \E v, w \in ToSet(call.asked) :
            v # w /\ SaveFor(call, v) = << saves[i] >> /\ SaveFor(call, w) = << saves[j] >>
    /\ \A v \in ToSet(call.asked) : \A save : SaveFor(call, v) = << save >> =>
         \E i \in 1 .. n : saves[i] = save

LEMMA SavesAreOfCall ==
    ASSUME NEW call, NEW exist \in SUBSET AllTaxonomies, NEW last, IsCall(call, exist, last),
           NEW saves, saves = SavesOf(call)
    PROVE  AreSavesOf(saves, call, Len(saves))
<1>1. PICK m \in Nat : m = Len(call.asked) /\ DOMAIN call.asked = 1 .. m
                       /\ \A i \in 1 .. m : call.asked[i] \in Values
  BY RequestsAssumption, LenProperties, ElementOfSeq DEF IsCall
<1>2. \A i, j \in 1 .. m : i # j => call.asked[i] # call.asked[j]
  BY <1>1, RequestsAssumption DEF IsCall, IsInjective
<1>3. PICK seqs : seqs = [i \in DOMAIN call.asked |-> SaveFor(call, call.asked[i])]
  OBVIOUS
<1>4. Len(seqs) = m /\ saves \in Seq(Saves(exist, last)) /\ InOrder(saves, seqs, m)
  BY <1>1, <1>3, SavesOfCall
<1>5. PICK n \in Nat : n = Len(saves)
  BY <1>4, LenProperties
<1>6. /\ ToSet(call.asked) = {call.asked[i] : i \in 1 .. m}
      /\ ToSet(saves) = {saves[i] : i \in 1 .. n}
  BY <1>1, <1>4, <1>5, LenProperties DEF ToSet
<1>7. ASSUME NEW i \in 1 .. m
      PROVE  /\ Len(seqs[i]) \in 0 .. 1 /\ seqs[i] = SaveFor(call, call.asked[i])
             /\ \A save \in ToSet(seqs[i]) : SaveFor(call, call.asked[i]) = << save >>
             /\ \A save : SaveFor(call, call.asked[i]) = << save >> => save \in ToSet(seqs[i])
  <2>1. PICK v \in Values : v = call.asked[i]
    BY <1>1
  <2>2. PICK s : s = SaveFor(call, v)
    OBVIOUS
  <2>3. /\ Len(s) \in 0 .. 1
        /\ \A save \in ToSet(s) : s = << save >>
        /\ \A save : s = << save >> => save \in ToSet(s)
    BY <2>2, OneSaveForValue
  <2>4. seqs[i] = s
    BY <1>1, <1>3, <2>1, <2>2
  <2>5. QED  BY <2>1, <2>2, <2>3, <2>4
<1>8. ASSUME NEW i \in 1 .. n, NEW j \in 1 .. n, i <= j
      PROVE  \E a, b \in 1 .. m : /\ i # j => a # b
                                  /\ SaveFor(call, call.asked[a]) = << saves[i] >>
                                  /\ SaveFor(call, call.asked[b]) = << saves[j] >>
  <2>1. \A r, q \in 1 .. n : r <= q =>
          \E a, b \in 1 .. m :
             /\ a <= b /\ (a = b /\ r # q => 1 < Len(seqs[a]))
             /\ saves[r] \in ToSet(seqs[a]) /\ saves[q] \in ToSet(seqs[b])
    BY <1>4, <1>5 DEF InOrder
  <2>2. PICK a \in 1 .. m, b \in 1 .. m :
          /\ a <= b /\ (a = b /\ i # j => 1 < Len(seqs[a]))
          /\ saves[i] \in ToSet(seqs[a]) /\ saves[j] \in ToSet(seqs[b])
    BY <1>8, <2>1
  <2>3. PICK l \in 0 .. 1 : l = Len(seqs[a])
    BY <1>7
  <2>4. ~ (1 < l)
    OBVIOUS
  <2>5. ~ (1 < Len(seqs[a]))
    BY <2>3, <2>4
  <2>6. i # j => a # b
    BY <2>2, <2>5
  <2>7. SaveFor(call, call.asked[a]) = << saves[i] >>
    BY <1>7, <2>2
  <2>8. SaveFor(call, call.asked[b]) = << saves[j] >>
    BY <1>7, <2>2
  <2>9. QED  BY <2>6, <2>7, <2>8
<1>9. ASSUME NEW i \in 1 .. n
      PROVE  \E v \in ToSet(call.asked) : SaveFor(call, v) = << saves[i] >>
  <2>1. i <= i
    OBVIOUS
  <2>2. QED  BY <1>6, <1>8, <2>1
<1>10. ASSUME NEW i \in 1 .. n, NEW j \in 1 .. n, i < j
       PROVE  \E v, w \in ToSet(call.asked) :
                v # w /\ SaveFor(call, v) = << saves[i] >> /\ SaveFor(call, w) = << saves[j] >>
  <2>1. i <= j /\ i # j
    BY <1>10
  <2>2. QED  BY <1>2, <1>6, <1>8, <2>1
<1>11. ASSUME NEW v \in ToSet(call.asked), NEW save, SaveFor(call, v) = << save >>
       PROVE  \E i \in 1 .. n : saves[i] = save
  <2>1. PICK a \in 1 .. m : v = call.asked[a]
    BY <1>6
  <2>2. save \in ToSet(seqs[a])
    BY <1>7, <1>11, <2>1
  <2>3. save \in ToSet(saves)
    BY <1>4, <2>2 DEF InOrder
  <2>4. QED  BY <1>6, <2>3
<1>12. QED  BY <1>5, <1>9, <1>10, <1>11 DEF AreSavesOf

IsSave(save, key, row) == save[1] = key /\ save[2] = row

\* After k saves: the rows there were at the start, with what was saved under
\* their keys, and a row of its own for each save without a key.
SavesDone(rows, k, saves, base) ==
    /\ DOMAIN base \subseteq DOMAIN rows
    /\ \A p \in DOMAIN base : \/ rows[p] = base[p] /\ \A i \in 1 .. k : saves[i][1] # p
                              \/ \E i \in 1 .. k : IsSave(saves[i], p, rows[p])
    /\ \A i \in 1 .. k : saves[i][1] = None =>
         \E p \in DOMAIN rows \ DOMAIN base : rows[p] = saves[i][2]
    /\ \A p \in DOMAIN rows \ DOMAIN base : \E i \in 1 .. k : IsSave(saves[i], None, rows[p])
    /\ \A p, q \in DOMAIN rows \ DOMAIN base : p # q =>
         \E i, j \in 1 .. k :
            i # j /\ IsSave(saves[i], None, rows[p]) /\ IsSave(saves[j], None, rows[q])

LEMMA NextSave ==
    ASSUME NEW rows, NEW k \in Nat, NEW saves, NEW base, SavesDone(rows, k, saves, base),
           NEW save, save = saves[k + 1], None \notin DOMAIN base,
           NEW p, save[1] # None => p = save[1] /\ p \in DOMAIN base,
           save[1] = None => p \notin DOMAIN rows,
           NEW new, new = Put(rows, p, save[2])
    PROVE  SavesDone(new, k + 1, saves, base)
<1>1. PICK m : m = k + 1 /\ m \in 1 .. m /\ 1 .. m = (1 .. k) \cup {m}
               /\ \A i \in 1 .. k : i \in 1 .. m /\ i # m
  OBVIOUS
<1>2. /\ DOMAIN base \subseteq DOMAIN rows
      /\ \A q \in DOMAIN base : \/ rows[q] = base[q] /\ \A i \in 1 .. k : saves[i][1] # q
                                \/ \E i \in 1 .. k : IsSave(saves[i], q, rows[q])
      /\ \A i \in 1 .. k : saves[i][1] = None =>
           \E q \in DOMAIN rows \ DOMAIN base : rows[q] = saves[i][2]
      /\ \A q \in DOMAIN rows \ DOMAIN base : \E i \in 1 .. k : IsSave(saves[i], None, rows[q])
      /\ \A q, o \in DOMAIN rows \ DOMAIN base : q # o =>
           \E i, j \in 1 .. k :
              i # j /\ IsSave(saves[i], None, rows[q]) /\ IsSave(saves[j], None, rows[o])
  BY DEF SavesDone
<1>3. PICK N : N = DOMAIN rows \ DOMAIN base
  OBVIOUS
<1>4. /\ DOMAIN new = DOMAIN rows \cup {p} /\ new[p] = save[2]
      /\ \A q \in DOMAIN rows : q # p => new[q] = rows[q]
  BY DEF Put
<1>5. saves[m] = save
  BY <1>1
<1>6. CASE save[1] # None
  <2>1. p = save[1] /\ p \in DOMAIN base /\ DOMAIN new = DOMAIN rows /\ IsSave(save, p, new[p])
    BY <1>2, <1>4, <1>6 DEF IsSave
  <2>2. \A q \in N : new[q] = rows[q]
    BY <1>3, <1>4, <2>1
  <2>3. ASSUME NEW q \in DOMAIN base
        PROVE  \/ new[q] = base[q] /\ \A i \in 1 .. m : saves[i][1] # q
               \/ \E i \in 1 .. m : IsSave(saves[i], q, new[q])
    <3>1. CASE q = p
      BY <1>1, <1>5, <2>1, <3>1
    <3>2. CASE q # p
      <4>1. new[q] = rows[q] /\ save[1] # q
        BY <1>2, <1>4, <2>1, <3>2
      <4>2. QED  BY <1>1, <1>2, <1>5, <4>1
    <3>3. QED  BY <3>1, <3>2
  <2>4. ASSUME NEW i \in 1 .. m, saves[i][1] = None
        PROVE  \E q \in N : new[q] = saves[i][2]
    <3>1. i \in 1 .. k
      BY <1>1, <1>5, <1>6, <2>4
    <3>2. QED  BY <1>2, <1>3, <2>2, <2>4, <3>1
  <2>5. \A q \in N : \E i \in 1 .. m : IsSave(saves[i], None, new[q])
    BY <1>1, <1>2, <1>3, <2>2
  <2>6. \A q, o \in N : q # o =>
          \E i, j \in 1 .. m :
             i # j /\ IsSave(saves[i], None, new[q]) /\ IsSave(saves[j], None, new[o])
    BY <1>1, <1>2, <1>3, <2>2
  <2>7. SavesDone(new, m, saves, base)
    BY <1>2, <1>3, <2>1, <2>3, <2>4, <2>5, <2>6 DEF SavesDone
  <2>8. QED  BY <1>1, <2>7
<1>7. CASE save[1] = None
  <2>1. p \notin DOMAIN rows /\ IsSave(save, None, new[p])
        /\ DOMAIN new \ DOMAIN base = N \cup {p} /\ p \notin N
    BY <1>2, <1>3, <1>4, <1>7 DEF IsSave
  <2>2. \A q \in DOMAIN rows : new[q] = rows[q]
    BY <1>4, <2>1
  <2>3. ASSUME NEW q \in DOMAIN base
        PROVE  \/ new[q] = base[q] /\ \A i \in 1 .. m : saves[i][1] # q
               \/ \E i \in 1 .. m : IsSave(saves[i], q, new[q])
    <3>1. new[q] = rows[q]
      BY <1>2, <2>2
    <3>2. CASE rows[q] = base[q] /\ \A i \in 1 .. k : saves[i][1] # q
      <4>1. q # None
        OBVIOUS
      <4>2. QED  BY <1>1, <1>5, <1>7, <3>1, <3>2, <4>1
    <3>3. CASE \E i \in 1 .. k : IsSave(saves[i], q, rows[q])
      BY <1>1, <3>1, <3>3
    <3>4. QED  BY <1>2, <3>2, <3>3
  <2>4. ASSUME NEW i \in 1 .. m, saves[i][1] = None
        PROVE  \E q \in N \cup {p} : new[q] = saves[i][2]
    <3>1. CASE i = m
      BY <1>4, <1>5, <3>1
    <3>2. CASE i # m
      <4>1. i \in 1 .. k
        BY <1>1, <3>2
      <4>2. QED  BY <1>2, <1>3, <2>2, <2>4, <4>1
    <3>3. QED  BY <3>1, <3>2
  <2>5. \A q \in N \cup {p} : \E i \in 1 .. m : IsSave(saves[i], None, new[q])
    BY <1>1, <1>2, <1>3, <1>5, <2>1, <2>2
  <2>6. ASSUME NEW q \in N \cup {p}, NEW o \in N \cup {p}, q # o
        PROVE  \E i, j \in 1 .. m :
                 i # j /\ IsSave(saves[i], None, new[q]) /\ IsSave(saves[j], None, new[o])
    <3>1. CASE q = p
      <4>1. o \in N
        BY <2>6, <3>1
      <4>2. PICK j \in 1 .. k : IsSave(saves[j], None, new[o])
        BY <1>2, <1>3, <2>2, <4>1
      <4>3. m # j /\ IsSave(saves[m], None, new[q])
        BY <1>1, <1>5, <2>1, <3>1
      <4>4. QED  BY <1>1, <4>2, <4>3
    <3>2. CASE o = p
      <4>1. q \in N
        BY <2>6, <3>2
      <4>2. PICK i \in 1 .. k : IsSave(saves[i], None, new[q])
        BY <1>2, <1>3, <2>2, <4>1
      <4>3. m # i /\ IsSave(saves[m], None, new[o])
        BY <1>1, <1>5, <2>1, <3>2
      <4>4. QED  BY <1>1, <4>2, <4>3
    <3>3. CASE q # p /\ o # p
      <4>1. q \in N /\ o \in N /\ new[q] = rows[q] /\ new[o] = rows[o]
        BY <1>3, <2>2, <3>3
      <4>2. QED  BY <1>1, <1>2, <1>3, <2>6, <4>1
    <3>4. QED  BY <3>1, <3>2, <3>3
  <2>7. DOMAIN base \subseteq DOMAIN new
    BY <1>2, <1>4
  <2>8. SavesDone(new, m, saves, base)
    BY <2>1, <2>3, <2>4, <2>5, <2>6, <2>7 DEF SavesDone
  <2>9. QED  BY <1>1, <2>8
<1>8. QED  BY <1>6, <1>7

\* A call, when nothing it read has changed.
IsCallNow(call) ==
    /\ IsCall(call, taxonomies, lastRow)
    /\ call.tags = tags /\ call.rows = RowsRead(call.object)

LEMMA ReadRows ==
    ASSUME TagsInv, NEW call, IsCallNow(call)
    PROVE  /\ DOMAIN call.rows = {p \in DOMAIN objectTags : objectTags[p].object = call.object}
           /\ \A p \in DOMAIN call.rows : call.rows[p] = objectTags[p]
           /\ CurrentTags(call) = Addressed(call, objectTags)
           /\ OldTags(call) \subseteq CurrentTags(call)
<1>1. /\ DOMAIN call.rows = {p \in DOMAIN objectTags : objectTags[p].object = call.object}
      /\ \A p \in DOMAIN call.rows : call.rows[p] = objectTags[p]
  BY DEF IsCallNow, RowsRead, RowsOf, Restrict
<1>2. CurrentTags(call) = Addressed(call, objectTags)
  BY <1>1 DEF CurrentTags, Addressed, RowsOf
<1>3. OldTags(call) \subseteq CurrentTags(call)
  BY DEF OldTags
<1>4. QED  BY <1>1, <1>2, <1>3

\* The row that is there for a value is linked with its Tag, or holds it.
LEMMA RowForValue ==
    ASSUME TagsInv, NEW call, IsCallNow(call), NEW v, NEW p \in RowFor(call, v),
           NEW row, row = call.rows[p]
    PROVE  /\ p \in DOMAIN call.rows /\ p \in CurrentTags(call) /\ row \in TypedRows(taxonomies)
           /\ row.object = call.object /\ row.taxonomy = call.taxonomy
           /\ row.exportId = call.exportId /\ call.taxonomy \in AllTaxonomies
           /\ call.taxonomy = Closed => row.tag \in WithValue(tags, v)
           /\ call.taxonomy = FreeText => row.value = v /\ row.tag = None
<1>1. /\ p \in CurrentTags(call)
      /\ \/ row.tag \in TagForValue(call, v)
         \/ call.taxonomy = FreeText /\ row.value = v
  BY DEF RowFor
<1>2. p \in DOMAIN call.rows
  BY <1>1 DEF CurrentTags
<1>3. row \in TypedRows(taxonomies) /\ row.object = call.object
  BY <1>2 DEF IsCallNow, IsCall
<1>4. call.tags = tags
  BY DEF IsCallNow
<1>5. call.taxonomy = Closed \/ call.taxonomy = FreeText
  BY <1>1 DEF TagForValue
<1>6. call.taxonomy # None /\ call.taxonomy \in AllTaxonomies
  BY <1>5, TaxonomiesAssumption DEF AllTaxonomies
<1>7. row.taxonomy = call.taxonomy
  BY <1>1, <1>6 DEF CurrentTags
<1>8. row.exportId = call.exportId
  BY <1>3, <1>6, <1>7 DEF TypedRows, IsCallNow, IsCall
<1>9. call.taxonomy = Closed => row.tag \in WithValue(tags, v)
  BY <1>1, <1>4, TaxonomiesAssumption DEF TagForValue
<1>10. call.taxonomy = FreeText => row.value = v /\ row.tag = None
  BY <1>1, <1>3, <1>7, TaxonomiesAssumption DEF TagForValue, TypedRows
<1>11. QED  BY <1>1, <1>2, <1>3, <1>6, <1>7, <1>8, <1>9, <1>10

LEMMA SaveOfValue ==
    ASSUME TagsInv, NEW call, IsCallNow(call), NEW v \in Values,
           NEW save, SaveFor(call, v) = << save >>
    PROVE  /\ save[2].object = call.object /\ save[2].taxonomy = call.taxonomy
           /\ save[2].exportId = call.exportId
           /\ save[2].value = v /\ save[2].tag \in TagForValue(call, v) \cup {None}
           /\ save[2].tag = None => TagForValue(call, v) = {}
           /\ save[1] = None => RowFor(call, v) = {}
           /\ save[1] # None =>
                /\ save[1] \in RowFor(call, v)
                /\ call.rows[save[1]].value # v /\ call.taxonomy = Closed
<1>1. taxonomies \in SUBSET AllTaxonomies /\ IsCall(call, taxonomies, lastRow) /\ lastRow \in Nat
  BY DEF TagsInv, IsCallNow
<1>2. \/ /\ RowFor(call, v) = {}
         /\ \E t \in TagForValue(call, v) \cup {None} :
              /\ t = None => TagForValue(call, v) = {}
              /\ SaveFor(call, v) =
                   << << None, ObjectTag(call.object, call.taxonomy, call.exportId,
                                         t, v, FALSE) >> >>
      \/ \E p \in RowFor(call, v) :
           \/ call.rows[p].value = v /\ SaveFor(call, v) = << >>
           \/ /\ call.rows[p].value # v
              /\ SaveFor(call, v) = << << p, [call.rows[p] EXCEPT !.value = v] >> >>
  BY <1>1, SavesForValue
<1>3. CASE /\ RowFor(call, v) = {}
           /\ \E t \in TagForValue(call, v) \cup {None} :
                /\ t = None => TagForValue(call, v) = {}
                /\ SaveFor(call, v) =
                     << << None, ObjectTag(call.object, call.taxonomy, call.exportId,
                                           t, v, FALSE) >> >>
  <2>1. PICK t \in TagForValue(call, v) \cup {None} :
          /\ t = None => TagForValue(call, v) = {}
          /\ SaveFor(call, v) =
               << << None, ObjectTag(call.object, call.taxonomy, call.exportId, t, v, FALSE) >> >>
    BY <1>3
  <2>2. PICK row : row = ObjectTag(call.object, call.taxonomy, call.exportId, t, v, FALSE)
    OBVIOUS
  <2>3. PICK pair : pair = << None, row >>
    OBVIOUS
  <2>4. << save >> = << pair >>
    BY <2>1, <2>2, <2>3
  <2>5. save = pair
    BY <2>4
  <2>6. save[1] = None
        /\ save[2] = ObjectTag(call.object, call.taxonomy, call.exportId, t, v, FALSE)
    BY <2>2, <2>3, <2>5
  <2>7. QED  BY <1>3, <2>1, <2>6 DEF ObjectTag
<1>4. ASSUME NEW p \in RowFor(call, v), call.rows[p].value # v,
             SaveFor(call, v) = << << p, [call.rows[p] EXCEPT !.value = v] >> >>
      PROVE  /\ save[2].object = call.object /\ save[2].taxonomy = call.taxonomy
             /\ save[2].exportId = call.exportId
             /\ save[2].value = v /\ save[2].tag \in TagForValue(call, v)
             /\ save[1] = p /\ p # None /\ call.taxonomy = Closed
  <2>1. PICK row : row = call.rows[p]
    OBVIOUS
  <2>2. /\ p \in DOMAIN call.rows /\ row \in TypedRows(taxonomies)
        /\ row.object = call.object /\ row.taxonomy = call.taxonomy
        /\ row.exportId = call.exportId /\ call.taxonomy \in AllTaxonomies
        /\ call.taxonomy = Closed => row.tag \in WithValue(tags, v)
        /\ call.taxonomy = FreeText => row.value = v
    BY <2>1, RowForValue
  <2>3. call.taxonomy = Closed
    BY <1>4, <2>1, <2>2 DEF AllTaxonomies
  <2>4. save[1] = p /\ save[2] = [row EXCEPT !.value = v]
    BY <1>4, <2>1
  <2>5. /\ save[2].object = row.object /\ save[2].taxonomy = row.taxonomy
        /\ save[2].exportId = row.exportId /\ save[2].tag = row.tag /\ save[2].value = v
    BY <2>2, <2>4 DEF TypedRows
  <2>6. TagForValue(call, v) = WithValue(tags, v)
    BY <2>3 DEF TagForValue, IsCallNow
  <2>7. p # None
    <3>1. DOMAIN call.rows \subseteq Nat
      BY <1>1 DEF IsCall
    <3>2. QED  BY <2>2, <3>1, NullAssumption
  <2>8. QED  BY <2>1, <2>2, <2>3, <2>4, <2>5, <2>6, <2>7
<1>5. << save >> # << >>
  OBVIOUS
<1>6. TagForValue(call, v) # {} => None \notin TagForValue(call, v)
  <2>1. DOMAIN tags \subseteq Nat /\ call.tags = tags
    BY DEF TagsInv, KeysAreOld, IsCallNow
  <2>2. QED  BY <2>1, NullAssumption DEF TagForValue, WithValue
<1>7. QED  BY <1>2, <1>3, <1>4, <1>5, <1>6
\* A row for a value of the list.
IsRowOf(row, call, v) ==
    /\ row.object = call.object /\ row.taxonomy = call.taxonomy
    /\ row.exportId = call.exportId
    /\ row.value = v /\ row.tag \in TagForValue(call, v) \cup {None}
    /\ row.tag = None => TagForValue(call, v) = {}

LEMMA AskedValues ==
    ASSUME NEW call, NEW exist, NEW last, IsCall(call, exist, last)
    PROVE  /\ ToSet(call.asked) \subseteq Values /\ Empty \notin Values
           /\ Len(call.asked) \in Nat
           /\ call.asked \in [1 .. Len(call.asked) -> Values]
           /\ \A i, j \in 1 .. Len(call.asked) : i # j => call.asked[i] # call.asked[j]
<1>1. call.asked \in Seq(Values) /\ IsInjective(call.asked) /\ Empty \notin Values
  BY RequestsAssumption DEF IsCall
<1>2. /\ Len(call.asked) \in Nat /\ DOMAIN call.asked = 1 .. Len(call.asked)
      /\ call.asked \in [1 .. Len(call.asked) -> Values]
  BY <1>1, LenProperties
<1>3. QED  BY <1>1, <1>2 DEF IsInjective, ToSet

LEMMA OneTagForValue ==
    ASSUME TagsInv, NEW call, IsCallNow(call), NEW v, NEW t \in TagForValue(call, v)
    PROVE  /\ t \in DOMAIN tags /\ t # None /\ tags[t].value = v
           /\ \A w, u : u \in TagForValue(call, w) => (t = u <=> v = w)
<1>1. IsTable(tags) /\ DOMAIN tags \subseteq Nat
  BY DEF TagsInv, KeysAreOld
<1>2. \A w, u : u \in TagForValue(call, w) => u \in DOMAIN tags /\ tags[u].value = w
  BY DEF TagForValue, WithValue, IsCallNow
<1>3. t \in DOMAIN tags /\ tags[t].value = v
  BY <1>2
<1>4. t # None
  BY <1>1, <1>3, NullAssumption
<1>5. \A u \in DOMAIN tags : t # u => tags[t].value # tags[u].value
  BY <1>1, <1>3 DEF IsTable
<1>6. QED  BY <1>2, <1>3, <1>4, <1>5

\* No two rows that were read are there for one value.
LEMMA OneRowForValue ==
    ASSUME TagsInv, NEW call, IsCallNow(call), NEW v,
           NEW p \in RowFor(call, v), NEW q \in RowFor(call, v)
    PROVE  p = q
<1>1. PICK row, other : row = call.rows[p] /\ other = call.rows[q]
  OBVIOUS
<1>2. /\ p \in DOMAIN call.rows
      /\ row.object = call.object /\ row.taxonomy = call.taxonomy
      /\ call.taxonomy \in AllTaxonomies
      /\ call.taxonomy = Closed => row.tag \in WithValue(tags, v)
      /\ call.taxonomy = FreeText => row.value = v
  BY <1>1, RowForValue
<1>3. /\ q \in DOMAIN call.rows
      /\ other.object = call.object /\ other.taxonomy = call.taxonomy
      /\ call.taxonomy = Closed => other.tag \in WithValue(tags, v)
      /\ call.taxonomy = FreeText => other.value = v
  BY <1>1, RowForValue
<1>4. /\ p \in DOMAIN objectTags /\ row = objectTags[p]
      /\ q \in DOMAIN objectTags /\ other = objectTags[q]
  BY <1>1, <1>2, <1>3, ReadRows
<1>5. ASSUME p # q PROVE FALSE
  <2>1. IsUnique(objectTags)
    BY DEF TagsInv, AreRows
  <2>2. call.taxonomy # None
    BY <1>2, TaxonomiesAssumption DEF AllTaxonomies
  <2>3. /\ row.value # other.value
        /\ row.tag # other.tag \/ row.tag = None
    BY <1>2, <1>3, <1>4, <1>5, <2>1, <2>2 DEF IsUnique
  <2>4. CASE call.taxonomy = Closed
    <3>1. row.tag \in TagForValue(call, v) /\ other.tag \in TagForValue(call, v)
      BY <1>2, <1>3, <2>4 DEF TagForValue, IsCallNow
    <3>2. row.tag = other.tag /\ row.tag # None
      BY <3>1, OneTagForValue
    <3>3. QED  BY <2>3, <3>2
  <2>5. CASE call.taxonomy = FreeText
    BY <1>2, <1>3, <2>3, <2>5
  <2>6. QED  BY <1>2, <2>4, <2>5 DEF AllTaxonomies
<1>6. QED  BY <1>5

\* The rows the transaction starts with.
StartRows(call) == Restrict(objectTags, DOMAIN objectTags \ OldTags(call))

LEMMA RowsAtStart ==
    ASSUME TagsInv, NEW call, IsCallNow(call)
    PROVE  /\ DOMAIN StartRows(call) = DOMAIN objectTags \ OldTags(call)
           /\ \A p \in DOMAIN StartRows(call) : StartRows(call)[p] = objectTags[p]
           /\ \A p \in DOMAIN StartRows(call) : p \in Addressed(call, objectTags) =>
                \E w \in ToSet(call.asked) : p \in RowFor(call, w)
           /\ \A w \in ToSet(call.asked) : RowFor(call, w) \subseteq DOMAIN StartRows(call)
           /\ None \notin DOMAIN StartRows(call)
<1>1. /\ DOMAIN StartRows(call) = DOMAIN objectTags \ OldTags(call)
      /\ \A p \in DOMAIN StartRows(call) : StartRows(call)[p] = objectTags[p]
  BY DEF StartRows, Restrict
<1>2. ASSUME NEW p \in DOMAIN StartRows(call), p \in Addressed(call, objectTags)
      PROVE  \E w \in ToSet(call.asked) : p \in RowFor(call, w)
  <2>1. p \in CurrentTags(call)
    BY <1>2, ReadRows
  <2>2. QED  BY <1>1, <2>1 DEF OldTags
<1>3. ASSUME NEW w \in ToSet(call.asked), NEW p \in RowFor(call, w)
      PROVE  p \in DOMAIN StartRows(call)
  <2>1. p \in DOMAIN call.rows
    BY RowForValue
  <2>2. p \in DOMAIN objectTags
    BY <2>1, ReadRows
  <2>3. QED  BY <1>1, <2>2 DEF OldTags
<1>4. None \notin DOMAIN objectTags
  <2>1. DOMAIN objectTags \subseteq 1 .. lastRow
    BY DEF TagsInv, AreRows
  <2>2. QED  BY <2>1, NullAssumption
<1>5. QED  BY <1>1, <1>2, <1>3, <1>4
\* When stored values agree with the Tags, only new rows are saved.
LEMMA SavesAreNew ==
    ASSUME TagsInv, NEW call, IsCallNow(call), StoredValuesAgree(call.rows),
           NEW v \in Values, NEW save, SaveFor(call, v) = << save >>
    PROVE  save[1] = None
<1>1. ASSUME save[1] # None PROVE FALSE
  <2>1. PICK p : p = save[1]
    OBVIOUS
  <2>2. p \in RowFor(call, v) /\ call.rows[p].value # v /\ call.taxonomy = Closed
    BY <1>1, <2>1, SaveOfValue
  <2>3. PICK row : row = call.rows[p]
    OBVIOUS
  <2>4. p \in DOMAIN call.rows /\ row.tag \in WithValue(tags, v)
    BY <2>2, <2>3, RowForValue
  <2>5. row.tag \in TagForValue(call, v)
    BY <2>2, <2>4 DEF TagForValue, IsCallNow
  <2>6. row.tag # None /\ tags[row.tag].value = v
    BY <2>5, OneTagForValue
  <2>7. row.value = ValueOf(tags, row)
    BY <2>3, <2>4 DEF StoredValuesAgree
  <2>8. QED  BY <2>2, <2>3, <2>6, <2>7 DEF ValueOf
<1>2. QED  BY <1>1

\* Then each row of the object and the taxonomy is for another value.
LEMMA RowsForOtherValues ==
    ASSUME TagsInv, NEW call, IsCallNow(call), StoredValuesAgree(call.rows),
           NEW saves, NEW n, AreSavesOf(saves, call, n),
           NEW k \in Nat, NEW m \in 1 .. n, m = k + 1,
           NEW rows, SavesDone(rows, k, saves, StartRows(call)),
           NEW q \in DOMAIN rows, rows[q].object = call.object,
           rows[q].taxonomy = call.taxonomy, call.taxonomy # None,
           NEW v \in Values, SaveFor(call, v) = << saves[m] >>
    PROVE  \E w : /\ w # v /\ rows[q].value = w
                  /\ rows[q].tag \in TagForValue(call, w) \cup {None}
<1>1. n \in Nat /\ ToSet(call.asked) \subseteq Values
  BY AskedValues DEF AreSavesOf, IsCallNow
<1>2. \A i \in 1 .. k : i \in 1 .. n /\ i < m
  BY <1>1
<1>3. ASSUME NEW i \in 1 .. k PROVE saves[i][1] = None
  <2>1. PICK w \in ToSet(call.asked) : SaveFor(call, w) = << saves[i] >>
    BY <1>2 DEF AreSavesOf
  <2>2. PICK save : save = saves[i]
    OBVIOUS
  <2>3. save[1] = None
    BY <1>1, <2>1, <2>2, SavesAreNew
  <2>4. QED  BY <2>2, <2>3
<1>4. CASE q \in DOMAIN StartRows(call)
  <2>1. q # None
    BY <1>4, RowsAtStart
  <2>2. \A i \in 1 .. k : ~ IsSave(saves[i], q, rows[q])
    BY <1>3, <2>1 DEF IsSave
  <2>3. rows[q] = StartRows(call)[q]
    BY <1>4, <2>2 DEF SavesDone
  <2>4. q \in DOMAIN objectTags /\ rows[q] = objectTags[q]
    BY <1>4, <2>3, RowsAtStart
  <2>5. q \in Addressed(call, objectTags)
    BY <2>4 DEF Addressed, RowsOf
  <2>6. PICK w \in ToSet(call.asked) : q \in RowFor(call, w)
    BY <1>4, <2>5, RowsAtStart
  <2>7. PICK row : row = call.rows[q]
    OBVIOUS
  <2>8. /\ q \in DOMAIN call.rows /\ call.taxonomy \in AllTaxonomies
        /\ call.taxonomy = Closed => row.tag \in WithValue(tags, w)
        /\ call.taxonomy = FreeText => row.value = w /\ row.tag = None
    BY <2>6, <2>7, RowForValue
  <2>9. rows[q] = row
    BY <2>4, <2>7, <2>8, ReadRows
  <2>10. row.value = w /\ row.tag \in TagForValue(call, w) \cup {None}
    <3>1. CASE call.taxonomy = Closed
      <4>1. row.tag \in TagForValue(call, w)
        BY <2>8, <3>1 DEF TagForValue, IsCallNow
      <4>2. row.tag # None /\ tags[row.tag].value = w
        BY <4>1, OneTagForValue
      <4>3. row.value = ValueOf(tags, row)
        BY <2>7, <2>8 DEF StoredValuesAgree
      <4>4. QED  BY <4>1, <4>2, <4>3 DEF ValueOf
    <3>2. CASE call.taxonomy = FreeText
      BY <2>8, <3>2
    <3>3. QED  BY <2>8, <3>1, <3>2 DEF AllTaxonomies
  <2>11. w # v
    <3>1. PICK save : save = saves[m]
      OBVIOUS
    <3>2. save[1] = None
      BY <3>1, SavesAreNew
    <3>3. RowFor(call, v) = {}
      BY <3>1, <3>2, SaveOfValue
    <3>4. QED  BY <2>6, <3>3
  <2>12. QED  BY <2>9, <2>10, <2>11
<1>5. CASE q \notin DOMAIN StartRows(call)
  <2>1. PICK i \in 1 .. k : IsSave(saves[i], None, rows[q])
    BY <1>5 DEF SavesDone
  <2>2. PICK w, u \in ToSet(call.asked) :
          w # u /\ SaveFor(call, w) = << saves[i] >> /\ SaveFor(call, u) = << saves[m] >>
    BY <1>2 DEF AreSavesOf
  <2>3. PICK save, other : save = saves[i] /\ other = saves[m]
    OBVIOUS
  <2>4. save[2].value = w /\ save[2].tag \in TagForValue(call, w) \cup {None}
    BY <1>1, <2>2, <2>3, SaveOfValue
  <2>5. other[2].value = u
    BY <1>1, <2>2, <2>3, SaveOfValue
  <2>6. other[2].value = v
    BY <2>3, SaveOfValue
  <2>7. rows[q] = save[2]
    BY <2>1, <2>3 DEF IsSave
  <2>8. QED  BY <2>2, <2>4, <2>5, <2>6, <2>7
<1>6. QED  BY <1>4, <1>5

LEMMA SaveIsClean ==
    ASSUME TagsInv, NEW call, IsCallNow(call), StoredValuesAgree(call.rows),
           NEW saves, NEW n, AreSavesOf(saves, call, n),
           NEW k \in Nat, NEW m \in 1 .. n, m = k + 1,
           NEW rows, SavesDone(rows, k, saves, StartRows(call)), IsUnique(rows),
           NEW save, save = saves[m], NEW p, p \notin DOMAIN rows,
           NEW new, new = Put(rows, p, save[2])
    PROVE  IsClean(new, save[1], save[2])
<1>1. ToSet(call.asked) \subseteq Values /\ Empty \notin Values
  BY AskedValues DEF IsCallNow
<1>2. PICK v \in Values : SaveFor(call, v) = << save >>
  <2>1. PICK v \in ToSet(call.asked) : SaveFor(call, v) = << saves[m] >>
    BY DEF AreSavesOf
  <2>2. QED  BY <1>1, <2>1
<1>3. save[1] = None
  BY <1>2, SavesAreNew
<1>4. PICK row : row = save[2]
  OBVIOUS
<1>5. /\ row.object = call.object /\ row.taxonomy = call.taxonomy
      /\ row.value = v /\ row.tag \in TagForValue(call, v) \cup {None}
  BY <1>2, <1>4, SaveOfValue
<1>6. row.tag # None => row.tag \in DOMAIN tags /\ tags[row.tag].value = v
  BY <1>5, OneTagForValue
<1>7. /\ DOMAIN new = DOMAIN rows \cup {p} /\ new[p] = row
      /\ \A q \in DOMAIN rows : new[q] = rows[q]
  BY <1>4 DEF Put
<1>8. ASSUME NEW q \in DOMAIN rows, rows[q].object = row.object,
             rows[q].taxonomy = row.taxonomy, row.taxonomy # None
      PROVE  /\ rows[q].value # row.value
             /\ rows[q].tag # row.tag \/ rows[q].tag = None
  <2>1. \E w : /\ w # v /\ rows[q].value = w
               /\ rows[q].tag \in TagForValue(call, w) \cup {None}
    BY <1>2, <1>5, <1>8, RowsForOtherValues
  <2>2. PICK w : /\ w # v /\ rows[q].value = w
                 /\ rows[q].tag \in TagForValue(call, w) \cup {None}
    BY <2>1
  <2>3. PICK t : t = rows[q].tag
    OBVIOUS
  <2>4. t # None => tags[t].value = w
    BY <2>2, <2>3, OneTagForValue
  <2>5. QED  BY <1>5, <1>6, <2>2, <2>3, <2>4
<1>9. IsUnique(new)
  BY <1>7, <1>8 DEF IsUnique
<1>10. QED  BY <1>1, <1>3, <1>4, <1>5, <1>6, <1>9 DEF IsClean
\* What the transaction has done after k saves.
TransactionGoes(s, k, call) ==
    /\ s \in SaveStates(tags, taxonomies) /\ SavesGoOn(s, lastRow, tags, taxonomies)
    /\ s.ok => SavesDone(s.rows, k, SavesOf(call), StartRows(call))
    /\ StoredValuesAgree(call.rows) => s.ok

LEMMA TransactionStarts ==
    ASSUME TagsInv, NEW call, IsCallNow(call)
    PROVE  TransactionGoes(TransactionStart(call), 0, call)
<1>1. PICK start : start = TransactionStart(call)
  OBVIOUS
<1>2. start \in SaveStates(tags, taxonomies) /\ SavesGoOn(start, lastRow, tags, taxonomies)
  BY <1>1, TransactionRuns DEF IsCallNow
<1>3. start.rows = StartRows(call) /\ start.ok
  BY <1>1 DEF TransactionStart, StartRows
<1>4. 1 .. 0 = {}
  OBVIOUS
<1>5. SavesDone(StartRows(call), 0, SavesOf(call), StartRows(call))
  BY <1>4 DEF SavesDone
<1>6. QED  BY <1>1, <1>2, <1>3, <1>5 DEF TransactionGoes

LEMMA TransactionStep ==
    ASSUME TagsInv, NEW call, IsCallNow(call),
           NEW saves, saves = SavesOf(call), NEW n, AreSavesOf(saves, call, n),
           NEW k \in Nat, NEW m \in 1 .. n, m = k + 1,
           NEW save, save = saves[m], save \in Saves(taxonomies, lastRow),
           NEW result, TransactionGoes(result, k, call),
           NEW next, next = SaveRow(result, save)
    PROVE  TransactionGoes(next, m, call)
<1>1. PICK base : base = StartRows(call)
  OBVIOUS
<1>2. /\ result \in SaveStates(tags, taxonomies) /\ SavesGoOn(result, lastRow, tags, taxonomies)
      /\ result.ok => SavesDone(result.rows, k, saves, base)
      /\ StoredValuesAgree(call.rows) => result.ok
  BY <1>1 DEF TransactionGoes
<1>3. PICK p : p = IF save[1] = None THEN result.last + 1 ELSE save[1]
  OBVIOUS
<1>4. PICK new : new = Put(result.rows, p, save[2])
  OBVIOUS
<1>5. lastRow \in Nat
  BY DEF TagsInv
<1>6. /\ next = IF result.ok /\ IsClean(new, save[1], save[2])
                  THEN [rows |-> new, last |-> IF save[1] = None THEN p ELSE result.last,
                        ok |-> TRUE]
                  ELSE [rows |-> result.rows, last |-> result.last, ok |-> FALSE]
      /\ next \in SaveStates(tags, taxonomies)
      /\ SavesGoOn(next, lastRow, tags, taxonomies)
      /\ next.ok => result.ok
  <2>1. /\ SavesGoOn(result, lastRow, tags, taxonomies) =>
             SavesGoOn(next, lastRow, tags, taxonomies) /\ result.last <= next.last
        /\ next \in SaveStates(tags, taxonomies)
        /\ next.ok => result.ok
    BY <1>2, <1>3, <1>4, <1>5, SaveStep
  <2>2. next = IF result.ok /\ IsClean(new, save[1], save[2])
                 THEN [rows |-> new, last |-> IF save[1] = None THEN p ELSE result.last,
                       ok |-> TRUE]
                 ELSE [rows |-> result.rows, last |-> result.last, ok |-> FALSE]
    <3>1. PICK o \in BOOLEAN : o = FALSE
      OBVIOUS
    <3>2. [result EXCEPT !.ok = o] = [rows |-> result.rows, last |-> result.last, ok |-> o]
      BY <1>2 DEF SaveStates
    <3>3. [result EXCEPT !.ok = FALSE]
            = [rows |-> result.rows, last |-> result.last, ok |-> FALSE]
      BY <3>1, <3>2
    <3>4. QED  BY <1>3, <1>4, <3>3 DEF SaveRow
  <2>3. QED  BY <1>2, <2>1, <2>2
<1>7. save[1] # None => p = save[1] /\ p \in DOMAIN base
  <2>1. PICK v \in ToSet(call.asked) : SaveFor(call, v) = << save >>
    BY DEF AreSavesOf
  <2>2. v \in Values
    BY AskedValues DEF IsCallNow
  <2>3. save[1] # None => save[1] \in RowFor(call, v)
    BY <2>1, <2>2, SaveOfValue
  <2>4. RowFor(call, v) \subseteq DOMAIN base
    BY <1>1, RowsAtStart
  <2>5. QED  BY <1>3, <2>3, <2>4
<1>8. save[1] = None => p \notin DOMAIN result.rows
  <2>1. DOMAIN result.rows \subseteq 1 .. result.last /\ result.last \in Nat
    BY <1>2 DEF SavesGoOn, AreRows, SaveStates
  <2>2. QED  BY <1>3, <2>1
<1>9. ASSUME next.ok PROVE SavesDone(next.rows, m, saves, base)
  <2>1. next.rows = new
    <3>1. PICK o : o = FALSE
      OBVIOUS
    <3>2. CASE result.ok /\ IsClean(new, save[1], save[2])
      BY <1>6, <3>2
    <3>3. CASE ~ (result.ok /\ IsClean(new, save[1], save[2]))
      <4>1. next = [rows |-> result.rows, last |-> result.last, ok |-> o]
        BY <1>6, <3>1, <3>3
      <4>2. next.ok = o
        BY <4>1
      <4>3. QED  BY <1>9, <3>1, <4>2
    <3>4. QED  BY <3>2, <3>3
  <2>2. None \notin DOMAIN base
    BY <1>1, RowsAtStart
  <2>3. PICK rows : rows = result.rows
    OBVIOUS
  <2>4. SavesDone(rows, k, saves, base)
    BY <1>2, <1>6, <1>9, <2>3
  <2>5. new = Put(rows, p, save[2]) /\ (save[1] = None => p \notin DOMAIN rows)
    BY <1>4, <1>8, <2>3
  <2>6. SavesDone(new, k + 1, saves, base)
    BY <1>7, <2>2, <2>4, <2>5, NextSave
  <2>7. QED  BY <2>1, <2>6
<1>10. ASSUME StoredValuesAgree(call.rows) PROVE next.ok
  <2>1. PICK rows : rows = result.rows
    OBVIOUS
  <2>2. SavesDone(rows, k, saves, base) /\ IsUnique(rows) /\ result.ok
    BY <1>2, <1>10, <2>1 DEF SavesGoOn, AreRows
  <2>3. save[1] = None
    <3>1. PICK v \in ToSet(call.asked) : SaveFor(call, v) = << save >>
      BY DEF AreSavesOf
    <3>2. v \in Values
      BY AskedValues DEF IsCallNow
    <3>3. QED  BY <1>10, <3>1, <3>2, SavesAreNew
  <2>4. p \notin DOMAIN rows /\ new = Put(rows, p, save[2])
    BY <1>4, <1>8, <2>1, <2>3
  <2>5. IsClean(new, save[1], save[2])
    BY <1>1, <1>10, <2>2, <2>4, SaveIsClean
  <2>6. QED  BY <1>6, <2>2, <2>5
<1>11. QED  BY <1>1, <1>6, <1>9, <1>10 DEF TransactionGoes

LEMMA TransactionEnds ==
    ASSUME TagsInv, NEW call, IsCallNow(call)
    PROVE  \E n : /\ AreSavesOf(SavesOf(call), call, n)
                  /\ TransactionGoes(Transaction(call), n, call)
<1>1. PICK saves, start : saves = SavesOf(call) /\ start = TransactionStart(call)
  OBVIOUS
<1>2. IsCall(call, taxonomies, lastRow) /\ taxonomies \in SUBSET AllTaxonomies
  BY DEF IsCallNow, TagsInv
<1>3. /\ saves \in Seq(Saves(taxonomies, lastRow))
      /\ \E n \in Nat : \E r : IsSaving(r, n, saves, start) /\ Transaction(call) = r[n]
  BY <1>1, <1>2, TransactionRuns
<1>4. PICK n \in Nat : \E r : IsSaving(r, n, saves, start) /\ Transaction(call) = r[n]
  BY <1>3
<1>5. PICK r : IsSaving(r, n, saves, start) /\ Transaction(call) = r[n]
  BY <1>4
<1>6. n = Len(saves) /\ r[0] = start /\ \A k \in 1 .. n : r[k] = SaveRow(r[k - 1], saves[k])
  BY <1>5 DEF IsSaving
<1>7. AreSavesOf(saves, call, n)
  BY <1>1, <1>2, <1>6, SavesAreOfCall
<1> DEFINE T == {k \in 0 .. n : TransactionGoes(r[k], k, call)}
<1>8. 0 \in T
  BY <1>1, <1>6, TransactionStarts
<1>9. ASSUME NEW k \in 0 .. n - 1, k \in T PROVE k + 1 \in T
  <2>1. PICK m \in 1 .. n : m = k + 1 /\ m - 1 = k
    OBVIOUS
  <2>2. PICK save \in Saves(taxonomies, lastRow) : save = saves[m]
    BY <1>3, <1>6, ElementOfSeq
  <2>3. PICK result, next : result = r[k] /\ next = SaveRow(result, save)
    OBVIOUS
  <2>4. TransactionGoes(result, k, call)
    BY <1>9, <2>3
  <2>5. TransactionGoes(next, m, call)
    BY <1>1, <1>7, <2>1, <2>2, <2>3, <2>4, TransactionStep
  <2>6. r[m] = next /\ m \in 0 .. n
    BY <1>6, <2>1, <2>2, <2>3
  <2>7. QED  BY <2>1, <2>5, <2>6
<1> HIDE DEF T
<1>10. \A k \in 0 .. n : k \in T
  BY <1>8, <1>9, UpTo
<1>11. TransactionGoes(r[n], n, call)
  BY <1>10 DEF T
<1>12. QED  BY <1>1, <1>5, <1>7, <1>11
\* The row that was there for a value is, at the end, a row for the value.
LEMMA KeptRowIsForValue ==
    ASSUME TagsInv, NEW call, IsCallNow(call),
           NEW saves, NEW n, AreSavesOf(saves, call, n),
           NEW rows, SavesDone(rows, n, saves, StartRows(call)),
           NEW v \in ToSet(call.asked), NEW p \in RowFor(call, v)
    PROVE  p \in DOMAIN rows /\ IsRowOf(rows[p], call, v)
<1>1. v \in Values /\ ToSet(call.asked) \subseteq Values
  BY AskedValues DEF IsCallNow
<1>2. p \in DOMAIN StartRows(call) /\ p # None
  BY RowsAtStart
<1>3. PICK row : row = call.rows[p]
  OBVIOUS
<1>4. /\ p \in DOMAIN call.rows
      /\ row.object = call.object /\ row.taxonomy = call.taxonomy
      /\ row.exportId = call.exportId /\ call.taxonomy \in AllTaxonomies
      /\ call.taxonomy = Closed => row.tag \in WithValue(tags, v)
      /\ call.taxonomy = FreeText => row.value = v /\ row.tag = None
  BY <1>3, RowForValue
<1>5. CASE rows[p] = StartRows(call)[p] /\ \A i \in 1 .. n : saves[i][1] # p
  <2>1. rows[p] = row
    <3>1. StartRows(call)[p] = objectTags[p]
      BY <1>2, RowsAtStart
    <3>2. row = objectTags[p]
      BY <1>3, <1>4, ReadRows
    <3>3. QED  BY <1>5, <3>1, <3>2
  <2>2. row.value = v
    <3>1. PICK q \in RowFor(call, v) :
            \/ call.rows[q].value = v /\ SaveFor(call, v) = << >>
            \/ /\ call.rows[q].value # v
               /\ SaveFor(call, v) = << << q, [call.rows[q] EXCEPT !.value = v] >> >>
      <4>1. RowFor(call, v) # {}
        OBVIOUS
      <4>2. IsCall(call, taxonomies, lastRow) /\ taxonomies \in SUBSET AllTaxonomies
        BY DEF IsCallNow, TagsInv
      <4>3. QED  BY <1>1, <4>1, <4>2, SavesForValue
    <3>2. q = p
      BY OneRowForValue
    <3>3. PICK new : new = [row EXCEPT !.value = v]
      OBVIOUS
    <3>4. PICK save : save = << p, new >>
      OBVIOUS
    <3>5. SaveFor(call, v) # << save >>
      <4>1. ASSUME SaveFor(call, v) = << save >> PROVE FALSE
        <5>1. PICK i \in 1 .. n : saves[i] = save
          BY <4>1 DEF AreSavesOf
        <5>2. saves[i][1] = p
          BY <3>4, <5>1
        <5>3. QED  BY <1>5, <5>2
      <4>2. QED  BY <4>1
    <3>6. QED  BY <1>3, <3>1, <3>2, <3>3, <3>4, <3>5
  <2>3. call.taxonomy = Closed => row.tag \in TagForValue(call, v) /\ row.tag # None
    <3>1. call.taxonomy = Closed => row.tag \in TagForValue(call, v)
      BY <1>4 DEF TagForValue, IsCallNow
    <3>2. QED  BY <3>1, OneTagForValue
  <2>4. call.taxonomy = FreeText => TagForValue(call, v) = {}
    BY TaxonomiesAssumption DEF TagForValue
  <2>5. IsRowOf(row, call, v)
    BY <1>4, <2>2, <2>3, <2>4 DEF IsRowOf, AllTaxonomies
  <2>6. QED  BY <1>2, <2>1, <2>5 DEF SavesDone
<1>6. CASE \E i \in 1 .. n : IsSave(saves[i], p, rows[p])
  <2>1. PICK i \in 1 .. n : IsSave(saves[i], p, rows[p])
    BY <1>6
  <2>2. PICK w \in ToSet(call.asked) : SaveFor(call, w) = << saves[i] >>
    BY DEF AreSavesOf
  <2>3. PICK save : save = saves[i]
    OBVIOUS
  <2>4. save[1] = p /\ save[2] = rows[p]
    BY <2>1, <2>3 DEF IsSave
  <2>5. /\ save[2].object = call.object /\ save[2].taxonomy = call.taxonomy
        /\ save[2].exportId = call.exportId
        /\ save[2].value = w /\ save[2].tag \in TagForValue(call, w) \cup {None}
        /\ save[2].tag = None => TagForValue(call, w) = {}
        /\ save[1] # None => save[1] \in RowFor(call, w) /\ call.taxonomy = Closed
    BY <1>1, <2>2, <2>3, SaveOfValue
  <2>6. p \in RowFor(call, w) /\ call.taxonomy = Closed
    BY <1>2, <2>4, <2>5
  <2>7. row.tag \in WithValue(tags, w)
    BY <1>3, <2>6, RowForValue
  <2>8. w = v
    BY <1>4, <2>6, <2>7 DEF WithValue
  <2>9. IsRowOf(rows[p], call, v)
    BY <2>4, <2>5, <2>8 DEF IsRowOf
  <2>10. QED  BY <1>2, <2>9 DEF SavesDone
<1>7. QED  BY <1>2, <1>5, <1>6 DEF SavesDone

\* Rows the call is not about are those there were, the others are for its
\* values, and there is one for each.
LEMMA RowsAtEnd ==
    ASSUME TagsInv, NEW call, IsCallNow(call),
           NEW saves, NEW n, AreSavesOf(saves, call, n),
           NEW rows, SavesDone(rows, n, saves, StartRows(call))
    PROVE  /\ \A p \in DOMAIN rows :
                \/ /\ p \in DOMAIN objectTags \ Addressed(call, objectTags)
                   /\ rows[p] = objectTags[p]
                \/ \E v \in ToSet(call.asked) : IsRowOf(rows[p], call, v)
           /\ \A p \in DOMAIN objectTags \ Addressed(call, objectTags) :
                p \in DOMAIN rows /\ rows[p] = objectTags[p]
           /\ \A v \in ToSet(call.asked) : \E p \in DOMAIN rows : IsRowOf(rows[p], call, v)
<1>1. ToSet(call.asked) \subseteq Values /\ IsCall(call, taxonomies, lastRow)
      /\ taxonomies \in SUBSET AllTaxonomies
  BY AskedValues DEF IsCallNow, TagsInv
<1>2. ASSUME NEW i \in 1 .. n
      PROVE  \E v \in ToSet(call.asked) :
               /\ IsRowOf(saves[i][2], call, v)
               /\ saves[i][1] # None => saves[i][1] \in RowFor(call, v)
  <2>1. PICK v \in ToSet(call.asked) : SaveFor(call, v) = << saves[i] >>
    BY DEF AreSavesOf
  <2>2. PICK save : save = saves[i]
    OBVIOUS
  <2>3. /\ save[2].object = call.object /\ save[2].taxonomy = call.taxonomy
        /\ save[2].exportId = call.exportId
        /\ save[2].value = v /\ save[2].tag \in TagForValue(call, v) \cup {None}
        /\ save[2].tag = None => TagForValue(call, v) = {}
        /\ save[1] # None => save[1] \in RowFor(call, v)
    BY <1>1, <2>1, <2>2, SaveOfValue
  <2>4. QED  BY <2>2, <2>3 DEF IsRowOf
<1>3. ASSUME NEW p \in DOMAIN objectTags \ Addressed(call, objectTags)
      PROVE  p \in DOMAIN StartRows(call) /\ p \in DOMAIN rows /\ rows[p] = objectTags[p]
  <2>1. p \in DOMAIN StartRows(call) /\ StartRows(call)[p] = objectTags[p] /\ p # None
    <3>1. OldTags(call) \subseteq Addressed(call, objectTags)
      BY ReadRows
    <3>2. p \in DOMAIN objectTags \ OldTags(call)
      BY <3>1
    <3>3. p \in DOMAIN StartRows(call)
      BY <3>2, RowsAtStart
    <3>4. QED  BY <3>3, RowsAtStart
  <2>2. \A v : p \notin RowFor(call, v)
    BY ReadRows DEF RowFor
  <2>3. \A i \in 1 .. n : ~ IsSave(saves[i], p, rows[p])
    BY <1>2, <2>1, <2>2 DEF IsSave
  <2>4. QED  BY <2>1, <2>3 DEF SavesDone
<1>4. ASSUME NEW p \in DOMAIN rows,
             ~ (p \in DOMAIN objectTags \ Addressed(call, objectTags) /\ rows[p] = objectTags[p])
      PROVE  \E v \in ToSet(call.asked) : IsRowOf(rows[p], call, v)
  <2>1. CASE p \in DOMAIN StartRows(call)
    <3>1. p \in Addressed(call, objectTags)
      BY <1>3, <1>4, <2>1, RowsAtStart
    <3>2. PICK v \in ToSet(call.asked) : p \in RowFor(call, v)
      BY <2>1, <3>1, RowsAtStart
    <3>3. QED  BY <3>2, KeptRowIsForValue
  <2>2. CASE p \notin DOMAIN StartRows(call)
    <3>1. PICK i \in 1 .. n : IsSave(saves[i], None, rows[p])
      BY <2>2 DEF SavesDone
    <3>2. rows[p] = saves[i][2]
      BY <3>1 DEF IsSave
    <3>3. QED  BY <1>2, <3>2
  <2>3. QED  BY <2>1, <2>2
<1>5. ASSUME NEW v \in ToSet(call.asked)
      PROVE  \E p \in DOMAIN rows : IsRowOf(rows[p], call, v)
  <2>1. CASE RowFor(call, v) # {}
    BY <2>1, KeptRowIsForValue
  <2>2. CASE RowFor(call, v) = {}
    <3>1. PICK t : SaveFor(call, v) =
                     << << None, ObjectTag(call.object, call.taxonomy, call.exportId,
                                           t, v, FALSE) >> >>
      BY <1>1, <2>2, SavesForValue
    <3>2. PICK row, save :
            row = ObjectTag(call.object, call.taxonomy, call.exportId, t, v, FALSE)
            /\ save = << None, row >>
      OBVIOUS
    <3>3. SaveFor(call, v) = << save >> /\ save[1] = None
      BY <3>1, <3>2
    <3>4. /\ save[2].object = call.object /\ save[2].taxonomy = call.taxonomy
          /\ save[2].exportId = call.exportId
          /\ save[2].value = v /\ save[2].tag \in TagForValue(call, v) \cup {None}
          /\ save[2].tag = None => TagForValue(call, v) = {}
      BY <1>1, <3>3, SaveOfValue
    <3>5. PICK i \in 1 .. n : saves[i] = save
      BY <3>3 DEF AreSavesOf
    <3>6. PICK p \in DOMAIN rows : rows[p] = save[2]
      BY <3>3, <3>5 DEF SavesDone
    <3>7. QED  BY <3>4, <3>6 DEF IsRowOf
  <2>3. QED  BY <2>1, <2>2
<1>6. QED  BY <1>3, <1>4, <1>5
LEMMA OneRowAtEnd ==
    ASSUME TagsInv, NEW call, IsCallNow(call),
           NEW saves, NEW n, AreSavesOf(saves, call, n),
           NEW rows, SavesDone(rows, n, saves, StartRows(call)), IsUnique(rows),
           NEW v, NEW p \in DOMAIN rows, IsRowOf(rows[p], call, v),
           NEW q \in DOMAIN rows, IsRowOf(rows[q], call, v)
    PROVE  p = q
<1>1. ASSUME p # q, call.taxonomy # None PROVE FALSE
  BY <1>1 DEF IsRowOf, IsUnique
<1>2. ASSUME p # q, call.taxonomy = None PROVE FALSE
  <2>1. \A w : RowFor(call, w) = {}
    BY <1>2, TaxonomiesAssumption DEF RowFor, TagForValue
  <2>2. ToSet(call.asked) \subseteq Values
    BY AskedValues DEF IsCallNow
  <2>3. ASSUME NEW i \in 1 .. n, NEW w \in Values, SaveFor(call, w) = << saves[i] >>
        PROVE  saves[i][1] = None /\ saves[i][2].value = w
    <3>1. PICK save : save = saves[i]
      OBVIOUS
    <3>2. save[2].value = w /\ (save[1] # None => save[1] \in RowFor(call, w))
      BY <2>3, <3>1, SaveOfValue
    <3>3. QED  BY <2>1, <3>1, <3>2
  <2>4. \A i \in 1 .. n : saves[i][1] = None
    BY <2>2, <2>3 DEF AreSavesOf
  <2>5. ASSUME NEW o \in DOMAIN rows, IsRowOf(rows[o], call, v)
        PROVE  o \notin DOMAIN StartRows(call)
    <3>1. ASSUME o \in DOMAIN StartRows(call) PROVE FALSE
      <4>1. o # None
        BY <3>1, RowsAtStart
      <4>2. \A i \in 1 .. n : ~ IsSave(saves[i], o, rows[o])
        BY <2>4, <4>1 DEF IsSave
      <4>3. rows[o] = StartRows(call)[o]
        BY <3>1, <4>2 DEF SavesDone
      <4>4. o \in DOMAIN objectTags /\ rows[o] = objectTags[o]
        BY <3>1, <4>3, RowsAtStart
      <4>5. o \in Addressed(call, objectTags)
        BY <1>2, <2>5, <4>4 DEF Addressed, RowsOf, IsRowOf
      <4>6. QED  BY <2>1, <3>1, <4>5, RowsAtStart
    <3>2. QED  BY <3>1
  <2>6. p \in DOMAIN rows \ DOMAIN StartRows(call) /\ q \in DOMAIN rows \ DOMAIN StartRows(call)
    BY <2>5
  <2>7. PICK i, j \in 1 .. n :
          i # j /\ IsSave(saves[i], None, rows[p]) /\ IsSave(saves[j], None, rows[q])
    BY <1>2, <2>6 DEF SavesDone
  <2>8. n \in Nat
    BY DEF AreSavesOf
  <2>9. i < j \/ j < i
    BY <2>7, <2>8
  <2>10. \E w, u \in ToSet(call.asked) :
            w # u /\ SaveFor(call, w) = << saves[i] >> /\ SaveFor(call, u) = << saves[j] >>
    <3>1. CASE i < j
      BY <3>1 DEF AreSavesOf
    <3>2. CASE j < i
      <4>1. \E w, u \in ToSet(call.asked) :
              w # u /\ SaveFor(call, w) = << saves[j] >> /\ SaveFor(call, u) = << saves[i] >>
        BY <3>2 DEF AreSavesOf
      <4>2. QED  BY <4>1
    <3>3. QED  BY <2>9, <3>1, <3>2
  <2>11. PICK w, u \in ToSet(call.asked) :
            w # u /\ SaveFor(call, w) = << saves[i] >> /\ SaveFor(call, u) = << saves[j] >>
    BY <2>10
  <2>12. rows[p].value = w /\ rows[q].value = u
    BY <2>2, <2>3, <2>7, <2>11 DEF IsSave
  <2>13. QED  BY <2>11, <2>12 DEF IsRowOf
<1>3. QED  BY <1>1, <1>2

\* The rows the call is about at the end are those for its values.
LEMMA AddressedAtEnd ==
    ASSUME TagsInv, NEW call, IsCallNow(call),
           NEW saves, NEW n, AreSavesOf(saves, call, n),
           NEW rows, SavesDone(rows, n, saves, StartRows(call))
    PROVE  /\ Addressed(call, rows) =
                {p \in DOMAIN rows : \E v \in ToSet(call.asked) : IsRowOf(rows[p], call, v)}
           /\ DOMAIN rows \ Addressed(call, rows)
                = DOMAIN objectTags \ Addressed(call, objectTags)
           /\ \A p \in DOMAIN rows \ Addressed(call, rows) : rows[p] = objectTags[p]
           /\ RowsOf(rows, call.object)
                = Addressed(call, rows) \cup (DOMAIN call.rows \ CurrentTags(call))
<1>1. \A v, row : IsRowOf(row, call, v) =>
        /\ row.object = call.object /\ row.taxonomy = call.taxonomy
        /\ row.exportId = call.exportId
  BY DEF IsRowOf
<1>2. /\ \A p \in DOMAIN rows :
           \/ /\ p \in DOMAIN objectTags \ Addressed(call, objectTags)
              /\ rows[p] = objectTags[p]
           \/ \E v \in ToSet(call.asked) : IsRowOf(rows[p], call, v)
      /\ \A p \in DOMAIN objectTags \ Addressed(call, objectTags) :
           p \in DOMAIN rows /\ rows[p] = objectTags[p]
  BY RowsAtEnd
<1>3. ASSUME NEW p \in DOMAIN rows, NEW v \in ToSet(call.asked), IsRowOf(rows[p], call, v)
      PROVE  p \in Addressed(call, rows)
  BY <1>1, <1>3 DEF Addressed, RowsOf
<1>4. ASSUME NEW p \in DOMAIN objectTags \ Addressed(call, objectTags)
      PROVE  p \in DOMAIN rows \ Addressed(call, rows)
  BY <1>2 DEF Addressed, RowsOf
<1>5. Addressed(call, rows) \subseteq DOMAIN rows
  BY DEF Addressed, RowsOf
<1>6. Addressed(call, rows) =
        {p \in DOMAIN rows : \E v \in ToSet(call.asked) : IsRowOf(rows[p], call, v)}
  BY <1>2, <1>3, <1>4, <1>5
<1>7. DOMAIN rows \ Addressed(call, rows) = DOMAIN objectTags \ Addressed(call, objectTags)
  BY <1>2, <1>4, <1>6
<1>8. \A p \in DOMAIN rows \ Addressed(call, rows) : rows[p] = objectTags[p]
  BY <1>2, <1>7
<1>9. /\ DOMAIN call.rows = {p \in DOMAIN objectTags : objectTags[p].object = call.object}
      /\ CurrentTags(call) = Addressed(call, objectTags)
  BY ReadRows
<1>10. Addressed(call, rows) \subseteq RowsOf(rows, call.object)
  BY DEF Addressed
<1>11. RowsOf(rows, call.object)
         = Addressed(call, rows) \cup (DOMAIN call.rows \ CurrentTags(call))
  <2>1. ASSUME NEW p, p \notin Addressed(call, rows)
        PROVE  p \in RowsOf(rows, call.object) <=> p \in DOMAIN call.rows \ CurrentTags(call)
    BY <1>7, <1>8, <1>9, <2>1 DEF RowsOf
  <2>2. ASSUME NEW p, p \in Addressed(call, rows)
        PROVE  p \in RowsOf(rows, call.object)
    BY <1>10, <2>2
  <2>3. QED  BY <2>1, <2>2
<1>12. QED  BY <1>6, <1>7, <1>8, <1>11
LEMMA SizesAdd ==
    ASSUME NEW S, NEW T, IsFiniteSet(S), IsFiniteSet(T)
    PROVE  /\ IsFiniteSet(S \cup T)
           /\ Cardinality(S \cup T) <= Cardinality(S) + Cardinality(T)
<1>1. IsFiniteSet(S \cap T)
  <2>1. S \cap T \in SUBSET S
    OBVIOUS
  <2>2. QED  BY <2>1, FS_Subset
<1>2. PICK a, b, c \in Nat :
        a = Cardinality(S) /\ b = Cardinality(T) /\ c = Cardinality(S \cap T)
  BY <1>1, FS_CardinalityType
<1>3. IsFiniteSet(S \cup T) /\ Cardinality(S \cup T) = a + b - c
  BY <1>2, FS_Union
<1>4. a + b - c <= a + b
  OBVIOUS
<1>5. QED  BY <1>2, <1>3, <1>4

\* There are as many rows for the values as values.
LEMMA AddressedSize ==
    ASSUME TagsInv, NEW call, IsCallNow(call),
           NEW saves, NEW n, AreSavesOf(saves, call, n),
           NEW rows, SavesDone(rows, n, saves, StartRows(call)), IsUnique(rows),
           NEW mine, mine = Addressed(call, rows)
    PROVE  IsFiniteSet(mine) /\ Cardinality(mine) = Len(call.asked)
<1>1. /\ Len(call.asked) \in Nat /\ call.asked \in [1 .. Len(call.asked) -> Values]
      /\ \A i, j \in 1 .. Len(call.asked) : i # j => call.asked[i] # call.asked[j]
  BY AskedValues DEF IsCallNow
<1>2. PICK l \in Nat : l = Len(call.asked)
  BY <1>1
<1>3. PICK asked : asked = call.asked
  OBVIOUS
<1>4. /\ asked \in [1 .. l -> Values] /\ ToSet(call.asked) = {asked[i] : i \in 1 .. l}
      /\ \A i, j \in 1 .. l : i # j => asked[i] # asked[j]
  BY <1>1, <1>2, <1>3 DEF ToSet
<1>5. mine = {p \in DOMAIN rows : \E v \in ToSet(call.asked) : IsRowOf(rows[p], call, v)}
  BY AddressedAtEnd
<1>6. \A v \in ToSet(call.asked) : \E p \in DOMAIN rows : IsRowOf(rows[p], call, v)
  BY RowsAtEnd
<1>7. \A i \in 1 .. l : \E p \in mine : IsRowOf(rows[p], call, asked[i])
  BY <1>4, <1>5, <1>6
<1>8. PICK f : f = [i \in 1 .. l |-> CHOOSE p \in mine : IsRowOf(rows[p], call, asked[i])]
  OBVIOUS
<1>9. ASSUME NEW i \in 1 .. l PROVE f[i] \in mine /\ IsRowOf(rows[f[i]], call, asked[i])
  BY <1>7, <1>8
<1>10. f \in [1 .. l -> mine]
  BY <1>8, <1>9
<1>11. ASSUME NEW i \in 1 .. l, NEW j \in 1 .. l, f[i] = f[j] PROVE i = j
  <2>1. rows[f[i]].value = asked[i] /\ rows[f[j]].value = asked[j]
    BY <1>9 DEF IsRowOf
  <2>2. QED  BY <1>4, <1>11, <2>1
<1>12. ASSUME NEW p \in mine PROVE \E i \in 1 .. l : f[i] = p
  <2>1. PICK i \in 1 .. l : IsRowOf(rows[p], call, asked[i])
    BY <1>4, <1>5
  <2>2. p \in DOMAIN rows /\ f[i] \in DOMAIN rows
    BY <1>5, <1>9
  <2>3. IsRowOf(rows[f[i]], call, asked[i])
    BY <1>9
  <2>4. PICK q : q = f[i]
    OBVIOUS
  <2>5. q = p
    BY <2>1, <2>2, <2>3, <2>4, OneRowAtEnd
  <2>6. QED  BY <2>4, <2>5
<1>13. ExistsBijection(1 .. l, mine)
  BY <1>10, <1>11, <1>12 DEF ExistsBijection, Bijection, Injection, Surjection, IsInjective
<1>14. Cardinality(mine) = l
  BY <1>13, FS_CountingElements
<1>15. IsFiniteSet(mine)
  BY <1>2, <1>13, FS_NatBijection
<1>16. QED  BY <1>2, <1>14, <1>15

\* What a call that succeeds is to leave.
TagsAreSet(call, rows) ==
    LET mine == Addressed(call, rows)
    IN  /\ {rows[p].value : p \in mine} = ToSet(call.asked)
        /\ Cardinality(mine) = Len(call.asked)
        /\ call.taxonomy = Closed =>
             {rows[p].tag : p \in mine} \ {None}
               = UNION {WithValue(tags, v) : v \in ToSet(call.asked)}
        /\ Cardinality(RowsOf(rows, call.object)) <= TagLimit
        /\ Restrict(rows, DOMAIN rows \ mine)
             = Restrict(objectTags, DOMAIN objectTags \ Addressed(call, objectTags))

LEMMA TransactionSetsTheTags ==
    ASSUME TagsInv, NEW call, IsCallNow(call), Transaction(call).ok,
           NEW rows, rows = Transaction(call).rows
    PROVE  TagsAreSet(call, rows)
<1>1. PICK mine : mine = Addressed(call, rows)
  OBVIOUS
<1>2. PICK saves : saves = SavesOf(call)
  OBVIOUS
<1>3. PICK n : AreSavesOf(saves, call, n) /\ TransactionGoes(Transaction(call), n, call)
  BY <1>2, TransactionEnds
<1>4. SavesDone(rows, n, saves, StartRows(call)) /\ IsUnique(rows)
  BY <1>2, <1>3 DEF TransactionGoes, SavesGoOn, AreRows
<1>5. /\ mine = {p \in DOMAIN rows : \E v \in ToSet(call.asked) : IsRowOf(rows[p], call, v)}
      /\ DOMAIN rows \ mine = DOMAIN objectTags \ Addressed(call, objectTags)
      /\ \A p \in DOMAIN rows \ mine : rows[p] = objectTags[p]
      /\ RowsOf(rows, call.object) = mine \cup (DOMAIN call.rows \ CurrentTags(call))
  BY <1>3, <1>4, <1>1, AddressedAtEnd
<1>6. \A v \in ToSet(call.asked) : \E p \in mine : IsRowOf(rows[p], call, v)
  <2>1. \A v \in ToSet(call.asked) : \E p \in DOMAIN rows : IsRowOf(rows[p], call, v)
    BY <1>3, <1>4, RowsAtEnd
  <2>2. QED  BY <1>5, <2>1
<1>7. {rows[p].value : p \in mine} = ToSet(call.asked)
  BY <1>5, <1>6 DEF IsRowOf
<1>8. IsFiniteSet(mine) /\ Cardinality(mine) = Len(call.asked)
  BY <1>3, <1>4, <1>1, AddressedSize
<1>9. ASSUME call.taxonomy = Closed
      PROVE  {rows[p].tag : p \in mine} \ {None}
               = UNION {WithValue(tags, v) : v \in ToSet(call.asked)}
  <2>1. \A v : TagForValue(call, v) = WithValue(tags, v)
    BY <1>9 DEF TagForValue, IsCallNow
  <2>2. ASSUME NEW p \in mine, rows[p].tag # None
        PROVE  \E v \in ToSet(call.asked) : rows[p].tag \in WithValue(tags, v)
    BY <1>5, <2>1, <2>2 DEF IsRowOf
  <2>3. ASSUME NEW v \in ToSet(call.asked), NEW t \in WithValue(tags, v)
        PROVE  t # None /\ \E p \in mine : rows[p].tag = t
    <3>1. PICK p \in mine : IsRowOf(rows[p], call, v)
      BY <1>6
    <3>2. t \in TagForValue(call, v)
      BY <2>1, <2>3
    <3>3. rows[p].tag \in TagForValue(call, v)
      BY <3>1, <3>2 DEF IsRowOf
    <3>4. PICK u : u = rows[p].tag
      OBVIOUS
    <3>5. t # None /\ t = u
      BY <3>2, <3>3, <3>4, OneTagForValue
    <3>6. QED  BY <3>4, <3>5
  <2>4. QED  BY <2>2, <2>3
<1>10. Cardinality(RowsOf(rows, call.object)) <= TagLimit
  <2>1. PICK rest : rest = DOMAIN call.rows \ CurrentTags(call)
    OBVIOUS
  <2>2. /\ Cardinality(rest) + Len(call.asked) <= TagLimit
        /\ DOMAIN call.rows \subseteq 1 .. lastRow /\ lastRow \in Nat
        /\ Len(call.asked) \in Nat /\ TagLimit \in Nat
    BY <2>1, AskedValues, BoundsAssumption DEF IsCallNow, IsCall, TagsInv
  <2>3. IsFiniteSet(rest) /\ Cardinality(rest) \in Nat
    <3>1. IsFiniteSet(1 .. lastRow)
      BY <2>2, FS_Interval
    <3>2. rest \in SUBSET (1 .. lastRow)
      BY <2>1, <2>2
    <3>3. IsFiniteSet(rest)
      BY <3>1, <3>2, FS_Subset
    <3>4. QED  BY <3>3, FS_CardinalityType
  <2>4. /\ IsFiniteSet(mine \cup rest)
        /\ Cardinality(mine \cup rest) <= Cardinality(mine) + Cardinality(rest)
    BY <1>8, <2>3, SizesAdd
  <2>5. Cardinality(mine \cup rest) \in Nat
    BY <2>4, FS_CardinalityType
  <2>6. QED  BY <1>5, <1>8, <2>1, <2>2, <2>3, <2>4, <2>5
<1>11. Restrict(rows, DOMAIN rows \ mine)
         = Restrict(objectTags, DOMAIN objectTags \ Addressed(call, objectTags))
  BY <1>5 DEF Restrict
<1>12. QED  BY <1>7, <1>8, <1>9, <1>10, <1>11, <1>1 DEF TagsAreSet

\* What TagObjectSetsTheTags says of a step of a session.
SetsTheTags(s) ==
    LET call == calls[s]
    IN  WriteTags(s) /\ call.tags = tags /\ call.rows = RowsRead(call.object) =>
          /\ StoredValuesAgree(call.rows) => Transaction(call).ok
          /\ Transaction(call).ok => TagsAreSet(call, objectTags')

LEMMA WritingSetsTheTags ==
    ASSUME TagsInv, NEW s \in Sessions
    PROVE  SetsTheTags(s)
<1>1. PICK call, rows : call = calls[s] /\ rows = objectTags'
  OBVIOUS
<1>2. ASSUME WriteTags(s), call.tags = tags, call.rows = RowsRead(call.object)
      PROVE  /\ IsCallNow(call)
             /\ Transaction(call).ok => rows = Transaction(call).rows
  <2>1. call # NoCall
    BY <1>1, <1>2 DEF WriteTags
  <2>2. IsCallNow(call)
    BY <1>1, <1>2, <2>1 DEF TagsInv, IsCallNow
  <2>3. QED  BY <1>1, <1>2, <2>2 DEF WriteTags
<1>3. ASSUME WriteTags(s), call.tags = tags, call.rows = RowsRead(call.object),
             StoredValuesAgree(call.rows)
      PROVE  Transaction(call).ok
  BY <1>2, <1>3, TransactionEnds DEF TransactionGoes
<1>4. ASSUME WriteTags(s), call.tags = tags, call.rows = RowsRead(call.object),
             Transaction(call).ok
      PROVE  TagsAreSet(call, rows)
  <2>1. IsCallNow(call) /\ rows = Transaction(call).rows
    BY <1>2, <1>4
  <2>2. QED  BY <1>4, <2>1, TransactionSetsTheTags
<1>5. QED  BY <1>1, <1>3, <1>4 DEF SetsTheTags

(***************************************************************************)
(* Theorems                                                                *)
(***************************************************************************)
(***************************************************************************)
(* Rows link objects with Tags and taxonomies that exist, and satisfy the  *)
(* unique constraints, whatever calls run between the reads and the writes *)
(* of tag_object.                                                          *)
(***************************************************************************)
THEOREM ObjectTagsTypeCorrect == ObjectTagsSpec => []ObjectTagsTypeOK
<1>1. ObjectTagsInit => TagsInv
  BY TagsInvStarts
<1>2. TagsInv /\ [ObjectTagsNext]_vars => TagsInv'
  BY TagsInvStays
<1>3. TagsInv => ObjectTagsTypeOK
  BY TagsInvImpliesTypeOK
<1>4. QED  BY <1>1, <1>2, <1>3, PTL DEF ObjectTagsSpec

(***************************************************************************)
(* No call on a taxonomy takes a tag from an object while the Tag is there, *)
(* and rows outlive their Tag and their taxonomy with the value they       *)
(* stored: each save of resync, each import and each deletion.             *)
(***************************************************************************)
THEOREM TaxonomyEditsAlwaysKeepObjectTags == ObjectTagsSpec => TaxonomyEditsKeepObjectTags
<1> DEFINE Kept ==
             << taxonomies, tags >>' # << taxonomies, tags >> =>
                /\ DOMAIN objectTags' = DOMAIN objectTags
                /\ \A p \in DOMAIN objectTags :
                     LET row == objectTags[p]
                         new == objectTags'[p]
                     IN  /\ new.object = row.object
                         /\ row.tag \in DOMAIN tags' => new.tag = row.tag
                         /\ row.tag \notin DOMAIN tags' => new.value = row.value
<1>1. ObjectTagsInit => TagsInv
  BY TagsInvStarts
<1>2. TagsInv /\ [ObjectTagsNext]_vars => TagsInv'
  BY TagsInvStays
<1>3. TagsInv /\ [ObjectTagsNext]_vars => [Kept]_vars
  <2>1. CASE EditTaxonomy /\ UNCHANGED calls
    BY <2>1, EditsKeepRows DEF Edited, RowsKept
  <2>2. CASE UNCHANGED << taxonomies, tags >>
    BY <2>2
  <2>3. QED  BY <2>1, <2>2, OthersKeepTaxonomies
<1>4. QED  BY <1>1, <1>2, <1>3, PTL DEF ObjectTagsSpec, TaxonomyEditsKeepObjectTags

(***************************************************************************)
(* A row that is left out of step with a Tag that was added, renamed or    *)
(* imported has been kept from it by another row of its object.            *)
(***************************************************************************)
THEOREM ResyncedRowsAlwaysAgree == ObjectTagsSpec => ResyncedRowsAgree
<1> DEFINE Agree ==
             LET added   == DOMAIN tags' \ DOMAIN tags
                 renamed == {t \in DOMAIN tags \cap DOMAIN tags' : tags'[t].value # tags[t].value}
                 stale   == {p \in DOMAIN objectTags : ~InStep(objectTags[p])}
             IN  /\ added \cup renamed # {}
                 /\ (\E p \in stale : objectTags[p].taxonomy = Closed)'
                 => (\E p \in stale, q \in DOMAIN objectTags :
                       /\ q # p
                       /\ objectTags[q].object = objectTags[p].object
                       /\ objectTags[q].taxonomy = objectTags[p].exportId
                       /\ Takes(objectTags[q], objectTags[p]))'
<1>1. ObjectTagsInit => TagsInv
  BY TagsInvStarts
<1>2. TagsInv /\ [ObjectTagsNext]_vars => TagsInv'
  BY TagsInvStays
<1>3. TagsInv /\ [ObjectTagsNext]_vars => [Agree]_vars
  <2>1. CASE NothingNamed(tags, tags')
    BY <2>1 DEF NothingNamed
  <2>2. CASE StaleRowsTaken(objectTags', tags', taxonomies')
    BY <2>2 DEF StaleRowsTaken, InStep, IsInStep, Takes, IsTakenBy
  <2>3. CASE UNCHANGED << taxonomies, tags >>
    BY <2>3
  <2>4. QED  BY <2>1, <2>2, <2>3, OthersKeepTaxonomies, EditsKeepRows DEF Edited
<1>4. QED  BY <1>1, <1>2, <1>3, PTL DEF ObjectTagsSpec, ResyncedRowsAgree

(***************************************************************************)
(* What a call of copy_tags leaves, whatever rows the two objects have: of *)
(* each Tag and each free-text taxonomy that the source shows one copied   *)
(* row, the destination's own one marked or a new one with the Tag's value *)
(* or a blank text; its other rows and other objects' rows stay.           *)
(***************************************************************************)
THEOREM CopiesAreAlwaysTheSourcesTags == ObjectTagsSpec => CopiesAreTheSourcesTags
<1> DEFINE Copies ==
             \A source, dest \in Objects :
                CopyTags(source, dest) /\ source # dest => CopiesFrom(source, dest)
<1>1. ObjectTagsInit => TagsInv
  BY TagsInvStarts
<1>2. TagsInv /\ [ObjectTagsNext]_vars => TagsInv'
  BY TagsInvStays
<1>3. TagsInv /\ [ObjectTagsNext]_vars => [Copies]_vars
  BY CopiesAreFromSource
<1>4. QED
  <2>1. CopiesAreTheSourcesTags <=> [][Copies]_vars
    BY PTL DEF CopiesAreTheSourcesTags, CopiesFrom
  <2>2. QED  BY <1>1, <1>2, <1>3, <2>1, PTL DEF ObjectTagsSpec
(***************************************************************************)
(* A call of tag_object that finds the rows and Tags as it read them       *)
(* leaves just the tags it was given, one row each and within the limit,   *)
(* and touches nothing else; it can fail only over a row whose stored      *)
(* value is not its Tag's.                                                 *)
(***************************************************************************)
THEOREM TagObjectAlwaysSetsTheTags == ObjectTagsSpec => TagObjectSetsTheTags
<1> DEFINE Set == \A s \in Sessions : SetsTheTags(s)
<1>1. ObjectTagsInit => TagsInv
  BY TagsInvStarts
<1>2. TagsInv /\ [ObjectTagsNext]_vars => TagsInv'
  BY TagsInvStays
<1>3. TagsInv /\ [ObjectTagsNext]_vars => [Set]_vars
  BY WritingSetsTheTags
<1>4. QED
  <2>1. TagObjectSetsTheTags <=> [][Set]_vars
    BY PTL DEF TagObjectSetsTheTags, SetsTheTags, TagsAreSet
  <2>2. QED  BY <1>1, <1>2, <1>3, <2>1, PTL DEF ObjectTagsSpec
=============================================================================
