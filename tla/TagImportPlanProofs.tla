------------------------- MODULE TagImportPlanProofs -------------------------
(***************************************************************************)
(* Import plans and what executing them does to the tags, for any tables,  *)
(* files and orders of deletion: lemmas for the modules that import tags.  *)
(*                                                                         *)
(* The actions of a plan follow its file: deletions first, then the        *)
(* actions for each item in the order of the file (FollowsFile).  An       *)
(* execution goes from table to table, one action after the other, and     *)
(* every table satisfies the constraints of the database (IsState).        *)
(* The deletions take away the tags they are for, and no others, whatever  *)
(* goes with them (DeletionsLeaveOthers).                                  *)
(***************************************************************************)
EXTENDS TagImportPlan, TLAPS, SequenceTheorems, FiniteSetTheorems, WellFoundedInduction

(***************************************************************************)
(* Numbers and sequences                                                   *)
(***************************************************************************)
\* A set of numbers that has one has a least one.
LEMMA LeastNumber ==
    ASSUME NEW T \in SUBSET Nat, T # {}
    PROVE  \E n \in T : \A m \in T : n <= m
<1>1. IsWellFoundedOn(OpToRel(<, Nat), Nat)
  BY NatLessThanWellFounded
<1>2. PICK n \in T : \A m \in T : ~ (<<m, n>> \in OpToRel(<, Nat))
  BY <1>1, WFMin
<1>3. \A m \in T : <<m, n>> \in OpToRel(<, Nat) <=> m < n
  BY DEF OpToRel
<1>4. \A m \in T : ~ (m < n)
  BY <1>2, <1>3
<1>5. ASSUME NEW m \in T PROVE n <= m
  <2>1. m \in Nat /\ n \in Nat /\ ~ (m < n)
    BY <1>4
  <2>2. QED  BY <2>1
<1>6. QED  BY <1>5

\* What holds of the first number and goes from each number to the next holds
\* up to the last.
LEMMA UpTo ==
    ASSUME NEW first \in Nat, NEW last \in Nat, NEW S,
           first \in S, \A i \in first .. last - 1 : i \in S => i + 1 \in S
    PROVE  \A i \in first .. last : i \in S
<1> DEFINE T == {i \in first .. last : i \notin S}
<1>1. CASE T = {}
  BY <1>1
<1>2. CASE T # {}
  <2>1. T \in SUBSET Nat
    OBVIOUS
  <2>2. PICK n \in T : \A m \in T : n <= m
    BY <1>2, <2>1, LeastNumber
  <2>3. n \in first .. last /\ n \notin S /\ n # first
    OBVIOUS
  <2>4. n - 1 \in first .. last - 1 /\ ~ (n <= n - 1) /\ (n - 1) + 1 = n
    BY <2>3
  <2>5. n - 1 \in S
    BY <2>2, <2>4
  <2>6. QED  BY <2>3, <2>4, <2>5
<1>3. QED  BY <1>1, <1>2

\* FlattenSeq of sequences up to the nth, as a function of itself.
IsFlattening(f, n, seqs) ==
    f = [i \in 1 .. n |-> IF i = 1 THEN seqs[i] ELSE f[i - 1] \o seqs[i]]

LEMMA FlatteningsExist ==
    ASSUME NEW seqs, NEW last \in Nat \ {0}
    PROVE  \E f : IsFlattening(f, last, seqs)
<1> DEFINE S == {n \in 1 .. last : \E f : IsFlattening(f, n, seqs)}
<1>1. 1 \in S
  <2>1. IsFlattening([i \in 1 .. 1 |-> seqs[1]], 1, seqs)
    BY DEF IsFlattening
  <2>2. QED  BY <2>1
<1>2. ASSUME NEW n \in 1 .. last - 1, n \in S PROVE n + 1 \in S
  <2>1. PICK g : IsFlattening(g, n, seqs)
    BY <1>2
  <2>2. PICK f : f = [i \in 1 .. n + 1 |-> IF i = n + 1 THEN g[n] \o seqs[n + 1] ELSE g[i]]
    OBVIOUS
  <2>3. /\ n \in 1 .. n + 1 /\ n + 1 \in 1 .. n + 1 /\ n # n + 1 /\ n + 1 # 1
        /\ (n + 1) - 1 = n /\ n + 1 \in 1 .. last
    OBVIOUS
  <2>4. f[n + 1] = f[n] \o seqs[n + 1]
    BY <2>3, <2>2
  <2>5. ASSUME NEW i \in 1 .. n
        PROVE  f[i] = IF i = 1 THEN seqs[i] ELSE f[i - 1] \o seqs[i]
    <3>1. g[i] = IF i = 1 THEN seqs[i] ELSE g[i - 1] \o seqs[i]
      BY <2>1 DEF IsFlattening
    <3>2. f[i] = g[i] /\ (i # 1 => f[i - 1] = g[i - 1])
      BY <2>2
    <3>3. QED  BY <3>1, <3>2
  <2>6. \A i \in 1 .. n + 1 : f[i] = IF i = 1 THEN seqs[i] ELSE f[i - 1] \o seqs[i]
    <3>1. ASSUME NEW i \in 1 .. n + 1, i # n + 1 PROVE i \in 1 .. n
      BY <3>1
    <3>2. QED  BY <2>3, <2>4, <2>5, <3>1
  <2>7. IsFlattening(f, n + 1, seqs)
    BY <2>2, <2>6 DEF IsFlattening
  <2>8. QED  BY <2>3, <2>7
<1> HIDE DEF S
<1>3. last \in S
  BY <1>1, <1>2, UpTo
<1>4. QED  BY <1>3 DEF S

\* What is in a concatenation: all of both, in order.
LEMMA ConcatInOrder ==
    ASSUME NEW A, NEW s \in Seq(A), NEW t \in Seq(A), NEW u, u = s \o t
    PROVE  /\ u \in Seq(A) /\ Len(u) = Len(s) + Len(t)
           /\ \A i \in 1 .. Len(s) : u[i] = s[i]
           /\ \A i \in 1 .. Len(t) : u[Len(s) + i] = t[i]
           /\ \A i \in Len(s) + 1 .. Len(u) : i - Len(s) \in 1 .. Len(t) /\ u[i] = t[i - Len(s)]
  BY ConcatProperties

\* The elements of a flattened sequence are those of its sequences, in order,
\* two of one sequence only if it has two.
InOrder(flat, seqs, n) ==
    /\ \A r, q \in 1 .. Len(flat) : r <= q =>
         \E i, j \in 1 .. n :
            /\ i <= j /\ (i = j /\ r # q => 1 < Len(seqs[i]))
            /\ flat[r] \in ToSet(seqs[i]) /\ flat[q] \in ToSet(seqs[j])
    /\ \A i \in 1 .. n : ToSet(seqs[i]) \subseteq ToSet(flat)

LEMMA NextInOrder ==
    ASSUME NEW A, NEW seqs \in Seq(Seq(A)), NEW n \in Nat, n + 1 \in 1 .. Len(seqs),
           NEW s \in Seq(A), InOrder(s, seqs, n), NEW u, u = s \o seqs[n + 1]
    PROVE  u \in Seq(A) /\ InOrder(u, seqs, n + 1)
<1>1. PICK t : t = seqs[n + 1] /\ t \in Seq(A)
  BY ElementOfSeq
<1>2. PICK k \in Nat, l \in Nat : k = Len(s) /\ l = Len(t)
  BY <1>1, LenProperties
<1>3. /\ u \in Seq(A) /\ Len(u) = k + l
      /\ \A i \in 1 .. k : u[i] = s[i]
      /\ \A i \in 1 .. l : u[k + i] = t[i]
      /\ \A i \in k + 1 .. Len(u) : i - k \in 1 .. l /\ u[i] = t[i - k]
  BY <1>1, <1>2, ConcatInOrder
<1>4. /\ ToSet(s) = {s[i] : i \in 1 .. k} /\ ToSet(t) = {t[i] : i \in 1 .. l}
      /\ ToSet(u) = {u[i] : i \in 1 .. k + l}
  BY <1>1, <1>2, <1>3, LenProperties DEF ToSet
<1>5. ASSUME NEW r \in 1 .. Len(u), NEW q \in 1 .. Len(u), r <= q
      PROVE  \E i, j \in 1 .. n + 1 :
                /\ i <= j /\ (i = j /\ r # q => 1 < Len(seqs[i]))
                /\ u[r] \in ToSet(seqs[i]) /\ u[q] \in ToSet(seqs[j])
  <2>1. CASE q <= k
    <3>1. r \in 1 .. k /\ q \in 1 .. k /\ u[r] = s[r] /\ u[q] = s[q]
      BY <1>3, <1>5, <2>1
    <3>2. PICK i \in 1 .. n, j \in 1 .. n :
                /\ i <= j /\ (i = j /\ r # q => 1 < Len(seqs[i]))
                /\ s[r] \in ToSet(seqs[i]) /\ s[q] \in ToSet(seqs[j])
      BY <1>2, <1>5, <3>1 DEF InOrder
    <3>3. i \in 1 .. n + 1 /\ j \in 1 .. n + 1
      OBVIOUS
    <3>4. QED  BY <3>1, <3>2, <3>3
  <2>2. CASE ~ (q <= k)
    <3>1. u[q] \in ToSet(seqs[n + 1]) /\ n + 1 \in 1 .. n + 1
      <4>1. q \in k + 1 .. Len(u)
        BY <1>3, <2>2
      <4>2. PICK m \in 1 .. l : u[q] = t[m]
        BY <1>3, <4>1
      <4>3. n + 1 \in 1 .. n + 1
        OBVIOUS
      <4>4. QED  BY <1>1, <1>4, <4>2, <4>3
    <3>2. CASE r <= k
      <4>1. r \in 1 .. k /\ u[r] = s[r]
        BY <1>3, <3>2
      <4>2. r \in 1 .. Len(s) /\ r <= r
        BY <1>2, <4>1
      <4>3. \E i, j \in 1 .. n :
               /\ i <= j /\ (i = j /\ r # r => 1 < Len(seqs[i]))
               /\ s[r] \in ToSet(seqs[i]) /\ s[r] \in ToSet(seqs[j])
        BY <4>2, Zenon DEF InOrder
      <4>4. PICK i \in 1 .. n : s[r] \in ToSet(seqs[i])
        BY <4>3, Zenon
      <4>5. i \in 1 .. n + 1 /\ i <= n + 1 /\ i # n + 1
        OBVIOUS
      <4>6. QED  BY <3>1, <4>1, <4>4, <4>5
    <3>3. CASE ~ (r <= k)
      <4>1. r \in k + 1 .. Len(u)
        BY <1>3, <3>3
      <4>2. PICK m \in 1 .. l : u[r] = t[m]
        BY <1>3, <4>1
      <4>3. n + 1 <= n + 1 /\ u[r] \in ToSet(seqs[n + 1])
        BY <1>1, <1>4, <4>2
      <4>4. r # q => 1 < l
        <5>1. q \in k + 1 .. Len(u)
          BY <1>3, <2>2
        <5>2. r - k \in 1 .. l /\ q - k \in 1 .. l
          BY <1>3, <4>1, <5>1
        <5>3. QED  BY <1>2, <5>2
      <4>5. QED  BY <1>1, <1>2, <3>1, <4>3, <4>4
    <3>4. QED  BY <3>2, <3>3
  <2>3. QED  BY <2>1, <2>2
<1>6. ASSUME NEW i \in 1 .. n + 1 PROVE ToSet(seqs[i]) \subseteq ToSet(u)
  <2>1. CASE i = n + 1
    <3>1. ASSUME NEW m \in 1 .. l PROVE t[m] \in ToSet(u)
      <4>1. k + m \in 1 .. k + l /\ u[k + m] = t[m]
        BY <1>3
      <4>2. QED  BY <1>4, <4>1
    <3>2. QED  BY <1>1, <1>4, <2>1, <3>1
  <2>2. CASE i # n + 1
    <3>1. i \in 1 .. n
      BY <2>2
    <3>2. ToSet(seqs[i]) \subseteq ToSet(s)
      BY <3>1 DEF InOrder
    <3>3. ASSUME NEW m \in 1 .. k PROVE s[m] \in ToSet(u)
      <4>1. m \in 1 .. k + l /\ u[m] = s[m]
        BY <1>3
      <4>2. QED  BY <1>4, <4>1
    <3>4. QED  BY <1>4, <3>2, <3>3
  <2>3. QED  BY <2>1, <2>2
<1>7. QED  BY <1>3, <1>5, <1>6 DEF InOrder

LEMMA FlattenedInOrder ==
    ASSUME NEW A, NEW seqs \in Seq(Seq(A))
    PROVE  FlattenSeq(seqs) \in Seq(A) /\ InOrder(FlattenSeq(seqs), seqs, Len(seqs))
<1>1. PICK last \in Nat : last = Len(seqs)
  BY LenProperties
<1>2. CASE last = 0
  <2>1. FlattenSeq(seqs) = seqs /\ seqs = << >>
    BY <1>1, <1>2, EmptySeq DEF FlattenSeq
  <2>2. << >> \in Seq(A) /\ Len(<< >>) = 0
    BY EmptySeq
  <2>3. QED  BY <1>1, <1>2, <2>1, <2>2 DEF InOrder
<1>3. CASE last # 0
  <2>1. PICK f : f = CHOOSE g : IsFlattening(g, last, seqs)
    OBVIOUS
  <2>2. FlattenSeq(seqs) = f[last]
    BY <1>1, <1>3, <2>1 DEF FlattenSeq, IsFlattening
  <2>3. IsFlattening(f, last, seqs)
    BY <1>3, <2>1, FlatteningsExist
  <2> DEFINE S == {n \in 1 .. last : f[n] \in Seq(A) /\ InOrder(f[n], seqs, n)}
  <2>4. 1 \in S
    <3>1. f[1] = seqs[1] /\ seqs[1] \in Seq(A) /\ 1 \in 1 .. last
      BY <1>1, <1>3, <2>3, ElementOfSeq DEF IsFlattening
    <3>2. PICK s \in Seq(A) : s = seqs[1]
      BY <3>1
    <3>3. \A r \in 1 .. Len(s) : s[r] \in ToSet(s)
      BY LenProperties DEF ToSet
    <3>4. \A r, q \in 1 .. Len(s) : r # q => 1 < Len(s)
      BY LenProperties
    <3>5. InOrder(s, seqs, 1)
      BY <3>2, <3>3, <3>4 DEF InOrder
    <3>6. QED  BY <3>1, <3>2, <3>5
  <2>5. ASSUME NEW n \in 1 .. last - 1, n \in S PROVE n + 1 \in S
    <3>1. n + 1 \in 1 .. last /\ f[n + 1] = f[n] \o seqs[n + 1]
      <4>1. n + 1 \in 1 .. last /\ n + 1 # 1 /\ (n + 1) - 1 = n
        BY <1>3
      <4>2. QED  BY <2>3, <4>1 DEF IsFlattening
    <3>2. f[n] \in Seq(A) /\ InOrder(f[n], seqs, n) /\ n \in Nat
      BY <2>5
    <3>3. f[n + 1] \in Seq(A) /\ InOrder(f[n + 1], seqs, n + 1)
      BY <1>1, <3>1, <3>2, NextInOrder
    <3>4. QED  BY <3>1, <3>3
  <2> HIDE DEF S
  <2>6. last \in S
    <3>1. \A i \in 1 .. last : i \in S
      BY <2>4, <2>5, UpTo
    <3>2. QED  BY <1>3, <3>1
  <2>7. QED  BY <1>1, <2>2, <2>6 DEF S
<1>4. QED  BY <1>2, <1>3

(***************************************************************************)
(* The execution of a plan                                                 *)
(***************************************************************************)
\* The states that an execution goes through.
IsRun(f, n, start, as) ==
    f = [i \in 0 .. n |-> IF i = 0 THEN start ELSE ExecuteAction(f[i - 1], as[i])]

LEMMA RunsExist ==
    ASSUME NEW start, NEW as, NEW last \in Nat
    PROVE  \E f : IsRun(f, last, start, as)
<1> DEFINE S == {n \in 0 .. last : \E f : IsRun(f, n, start, as)}
<1>1. 0 \in S
  <2>1. PICK f : f = [i \in 0 .. 0 |-> start]
    OBVIOUS
  <2>2. f = [i \in 0 .. 0 |-> IF i = 0 THEN start ELSE ExecuteAction(f[i - 1], as[i])]
    BY <2>1
  <2>3. 0 \in 0 .. last /\ IsRun(f, 0, start, as)
    BY <2>2 DEF IsRun
  <2>4. QED  BY <2>3
<1>2. ASSUME NEW n \in 0 .. last - 1, n \in S PROVE n + 1 \in S
  <2>1. /\ n \in 0 .. n + 1 /\ n + 1 \in 0 .. n + 1 /\ n # n + 1 /\ n + 1 # 0
        /\ (n + 1) - 1 = n /\ n + 1 \in 0 .. last
    OBVIOUS
  <2>2. PICK g : IsRun(g, n, start, as)
    BY <1>2
  <2>3. PICK f : f = [i \in 0 .. n + 1 |->
                        IF i = n + 1 THEN ExecuteAction(g[n], as[n + 1]) ELSE g[i]]
    OBVIOUS
  <2>4. f[n + 1] = ExecuteAction(f[n], as[n + 1])
    BY <2>1, <2>3
  <2>5. ASSUME NEW i \in 0 .. n
        PROVE  f[i] = IF i = 0 THEN start ELSE ExecuteAction(f[i - 1], as[i])
    <3>1. g[i] = IF i = 0 THEN start ELSE ExecuteAction(g[i - 1], as[i])
      BY <2>2 DEF IsRun
    <3>2. i \in 0 .. n + 1 /\ i # n + 1 /\ (i # 0 => i - 1 \in 0 .. n + 1 /\ i - 1 # n + 1)
      OBVIOUS
    <3>3. f[i] = g[i] /\ (i # 0 => f[i - 1] = g[i - 1])
      BY <2>3, <3>2
    <3>4. QED  BY <3>1, <3>3
  <2>6. \A i \in 0 .. n + 1 : f[i] = IF i = 0 THEN start ELSE ExecuteAction(f[i - 1], as[i])
    <3>1. ASSUME NEW i \in 0 .. n + 1, i # n + 1 PROVE i \in 0 .. n
      BY <3>1
    <3>2. QED  BY <2>1, <2>4, <2>5, <3>1
  <2>7. IsRun(f, n + 1, start, as)
    BY <2>3, <2>6 DEF IsRun
  <2>8. QED  BY <2>1, <2>7
<1> HIDE DEF S
<1>3. \A n \in 0 .. last : n \in S
  BY <1>1, <1>2, UpTo
<1>4. last \in S
  BY <1>3
<1>5. QED  BY <1>4 DEF S

StartOf(table, last) == [tags |-> table, lastTag |-> last, ok |-> TRUE]

\* The states of an execution of n actions, one by one.
IsExecution(f, n, table, last, as) ==
    /\ f[0] = StartOf(table, last)
    /\ \A i \in 1 .. n : f[i] = ExecuteAction(f[i - 1], as[i])

LEMMA RunsAreExecutions ==
    ASSUME NEW table, NEW last, NEW as, NEW n \in Nat, NEW f,
           IsRun(f, n, StartOf(table, last), as)
    PROVE  IsExecution(f, n, table, last, as)
<1>1. 0 \in 0 .. n /\ \A i \in 1 .. n : i \in 0 .. n /\ i # 0
  OBVIOUS
<1>2. \A i \in 0 .. n :
        f[i] = IF i = 0 THEN StartOf(table, last) ELSE ExecuteAction(f[i - 1], as[i])
  BY DEF IsRun
<1>3. QED  BY <1>1, <1>2 DEF IsExecution

LEMMA ExecutionRuns ==
    ASSUME NEW table, NEW last, NEW as, NEW n \in Nat, n = Len(as)
    PROVE  \E f : IsExecution(f, n, table, last, as) /\ Execute(table, last, as) = f[n]
<1>1. PICK f : f = CHOOSE g : IsRun(g, n, StartOf(table, last), as)
  OBVIOUS
<1>2. Execute(table, last, as) = f[n]
  BY <1>1 DEF Execute, IsRun, StartOf
<1>3. IsRun(f, n, StartOf(table, last), as)
  BY <1>1, RunsExist
<1>4. IsExecution(f, n, table, last, as)
  BY <1>3, RunsAreExecutions
<1>5. QED  BY <1>2, <1>4

\* A table with the last primary key given.
KeysAreOld(table, last) == IsTable(table) /\ last \in Nat /\ DOMAIN table \subseteq 1 .. last

IsState(s) ==
    /\ s = [tags |-> s.tags, lastTag |-> s.lastTag, ok |-> s.ok]
    /\ s.ok \in BOOLEAN /\ KeysAreOld(s.tags, s.lastTag)

\* An action raises, or leaves a table.
LEMMA ActionRaisesOrEnds ==
    ASSUME NEW s, IsState(s), NEW a
    PROVE  \/ ExecuteAction(s, a) = [tags |-> s.tags, lastTag |-> s.lastTag, ok |-> FALSE]
           \/ /\ s.ok
              /\ \E new \in Executed(s.tags, s.lastTag + 1, a) :
                    /\ IsTable(new)
                    /\ ExecuteAction(s, a) =
                         [tags |-> new, ok |-> TRUE,
                          lastTag |-> IF a.name = "create" THEN s.lastTag + 1 ELSE s.lastTag]
<1>1. PICK left : left = {new \in Executed(s.tags, s.lastTag + 1, a) : IsTable(new)}
  OBVIOUS
<1>2. CASE ~s.ok \/ left = {}
  BY <1>1, <1>2 DEF ExecuteAction, IsState
<1>3. CASE s.ok /\ left # {}
  <2>1. PICK new : new = CHOOSE x \in left : TRUE
    OBVIOUS
  <2>2. new \in left
    BY <1>3, <2>1
  <2>3. ExecuteAction(s, a) =
          [s EXCEPT !.tags = new,
                    !.lastTag = IF a.name = "create" THEN s.lastTag + 1 ELSE @]
    BY <1>1, <1>3, <2>1 DEF ExecuteAction
  <2>4. ExecuteAction(s, a) =
          [tags |-> new, ok |-> TRUE,
           lastTag |-> IF a.name = "create" THEN s.lastTag + 1 ELSE s.lastTag]
    BY <1>3, <2>3 DEF IsState
  <2>5. QED  BY <1>1, <1>3, <2>2, <2>4
<1>4. QED  BY <1>2, <1>3 DEF IsState

\* What the actions for items leave, by their name.
LEMMA LeftByActions ==
    ASSUME NEW table, NEW pk, NEW a, NEW new \in Executed(table, pk, a)
    PROVE  /\ a.name = "create" =>
                \E p \in ParentsOf(table, a) : new = Put(table, pk, Row(a.value, p, a.id))
           /\ a.name = "update_parent" =>
                \E t \in GetTag(table, a), p \in ParentsOf(table, a) :
                    new = [table EXCEPT ![t].parent = p]
           /\ a.name = "rename" =>
                \E t \in GetTag(table, a) : new = [table EXCEPT ![t].value = a.value]
           /\ a.name = "without_changes" => new = table
<1>1. ASSUME a.name = "create"
      PROVE  \E p \in ParentsOf(table, a) : new = Put(table, pk, Row(a.value, p, a.id))
  BY <1>1 DEF Executed
<1>2. ASSUME a.name = "update_parent"
      PROVE  \E t \in GetTag(table, a), p \in ParentsOf(table, a) :
                new = [table EXCEPT ![t].parent = p]
  BY <1>2 DEF Executed
<1>3. ASSUME a.name = "rename"
      PROVE  \E t \in GetTag(table, a) : new = [table EXCEPT ![t].value = a.value]
  BY <1>3 DEF Executed
<1>4. ASSUME a.name = "without_changes" PROVE new = table
  BY <1>4 DEF Executed
<1>5. QED  BY <1>1, <1>2, <1>3, <1>4

LEMMA NewKeysAreNext ==
    ASSUME NEW table, NEW pk, NEW a, NEW new \in Executed(table, pk, a)
    PROVE  DOMAIN new \subseteq DOMAIN table \cup {k \in {pk} : a.name = "create"}
<1>1. CASE a.name = "create"
  BY <1>1 DEF Executed, Put
<1>2. CASE a.name # "create"
  <2>1. CASE a.name = "update_parent"
    BY <2>1 DEF Executed
  <2>2. CASE a.name = "rename"
    BY <2>2 DEF Executed
  <2>3. CASE a.name = "delete"
    BY <2>3 DEF Executed, Delete, Restrict
  <2>4. CASE a.name \notin {"create", "update_parent", "rename", "delete"}
    BY <2>4 DEF Executed
  <2>5. QED  BY <1>2, <2>1, <2>2, <2>3, <2>4
<1>3. QED  BY <1>1, <1>2

LEMMA ActionsKeepStates ==
    ASSUME NEW s, IsState(s), NEW a
    PROVE  IsState(ExecuteAction(s, a))
<1>1. CASE ExecuteAction(s, a) = [tags |-> s.tags, lastTag |-> s.lastTag, ok |-> FALSE]
  BY <1>1 DEF IsState
<1>2. ASSUME NEW new \in Executed(s.tags, s.lastTag + 1, a), IsTable(new),
             ExecuteAction(s, a) =
                 [tags |-> new, ok |-> TRUE,
                  lastTag |-> IF a.name = "create" THEN s.lastTag + 1 ELSE s.lastTag]
      PROVE  IsState(ExecuteAction(s, a))
  <2>1. DOMAIN new \subseteq DOMAIN s.tags \cup {k \in {s.lastTag + 1} : a.name = "create"}
    BY <1>2, NewKeysAreNext
  <2>2. s.lastTag \in Nat /\ DOMAIN s.tags \subseteq 1 .. s.lastTag
    BY DEF IsState, KeysAreOld
  <2>3. PICK e : e = ExecuteAction(s, a)
    OBVIOUS
  <2>4. KeysAreOld(new, IF a.name = "create" THEN s.lastTag + 1 ELSE s.lastTag)
    BY <1>2, <2>1, <2>2 DEF KeysAreOld
  <2>5. IsState(e)
    BY <1>2, <2>3, <2>4 DEF IsState
  <2>6. QED  BY <2>3, <2>5
<1>3. QED  BY <1>1, <1>2, ActionRaisesOrEnds

\* At any point of an execution the rows satisfy the constraints.
LEMMA RunsAreOfStates ==
    ASSUME NEW table, NEW last, KeysAreOld(table, last), NEW as, NEW n \in Nat, NEW f,
           IsExecution(f, n, table, last, as)
    PROVE  \A i \in 0 .. n : IsState(f[i])
<1> DEFINE S == {i \in 0 .. n : IsState(f[i])}
<1>1. 0 \in S
  <2>1. 0 \in 0 .. n /\ IsState(StartOf(table, last))
    BY DEF StartOf, IsState
  <2>2. QED  BY <2>1 DEF IsExecution
<1>2. ASSUME NEW i \in 0 .. n - 1, i \in S PROVE i + 1 \in S
  <2>1. i + 1 \in 1 .. n /\ (i + 1) - 1 = i /\ i + 1 \in 0 .. n
    OBVIOUS
  <2>2. f[i + 1] = ExecuteAction(f[i], as[i + 1])
    BY <2>1 DEF IsExecution
  <2>3. IsState(f[i + 1])
    BY <1>2, <2>2, ActionsKeepStates
  <2>4. QED  BY <2>1, <2>3
<1> HIDE DEF S
<1>3. \A i \in 0 .. n : i \in S
  BY <1>1, <1>2, UpTo
<1>4. QED  BY <1>3 DEF S

LEMMA ExecutionsEndInTables ==
    ASSUME NEW table, NEW last, KeysAreOld(table, last), NEW as, Len(as) \in Nat
    PROVE  IsState(Execute(table, last, as))
<1>1. PICK n \in Nat : n = Len(as)
  OBVIOUS
<1>2. PICK f : IsExecution(f, n, table, last, as) /\ Execute(table, last, as) = f[n]
  BY <1>1, ExecutionRuns
<1>3. \A i \in 0 .. n : IsState(f[i])
  BY <1>2, RunsAreOfStates
<1>4. QED  BY <1>2, <1>3

(***************************************************************************)
(* What a plan is made of                                                  *)
(***************************************************************************)
\* SetToSeq lists all the elements of a finite set.
LEMMA SetsAreListed ==
    ASSUME NEW S, IsFiniteSet(S)
    PROVE  /\ Cardinality(S) \in Nat /\ SetToSeq(S) \in [1 .. Cardinality(S) -> S]
           /\ \A e \in S : \E i \in 1 .. Cardinality(S) : SetToSeq(S)[i] = e
<1>1. Cardinality(S) \in Nat /\ ExistsBijection(1 .. Cardinality(S), S)
  BY FS_CardinalityType
<1>2. PICK f : f \in [1 .. Cardinality(S) -> S] /\ IsInjective(f)
  BY <1>1 DEF ExistsBijection, Bijection, Injection
<1>3. SetToSeq(S) \in [1 .. Cardinality(S) -> S] /\ IsInjective(SetToSeq(S))
  BY <1>2 DEF SetToSeq
<1>4. PICK g : g = SetToSeq(S)
  OBVIOUS
<1>5. PICK n \in Nat : n = Cardinality(S)
  BY <1>1
<1>6. g \in Injection(1 .. n, S)
  BY <1>3, <1>4, <1>5 DEF Injection
<1>7. IsFiniteSet(1 .. n) /\ Cardinality(1 .. n) = n
  BY FS_Interval
<1>8. g \in Surjection(1 .. n, S)
  BY <1>5, <1>6, <1>7, FS_Injection
<1>9. \A e \in S : \E i \in 1 .. n : g[i] = e
  BY <1>8 DEF Surjection
<1>10. QED  BY <1>1, <1>3, <1>4, <1>5, <1>9

Items == [id : ExternalIds, value : Values, parent : ExternalIds \cup {None}]

Actions ==
    [name   : {"create", "update_parent", "rename", "delete", "without_changes"},
     id     : ExternalIds \cup Nat \cup {None},
     value  : Values,
     parent : ExternalIds \cup {None}]

\* The actions that delete a tag, and those that keep its children.
Deletions == {a \in Actions : a.name \in {"delete", "update_parent"} /\ a.parent = None}

IsFiniteTable(table) ==
    IsTable(table) /\ IsFiniteSet(DOMAIN table) /\ None \notin DOMAIN table

LEMMA TablesAreFinite ==
    ASSUME NEW table, NEW last, KeysAreOld(table, last)
    PROVE  IsFiniteTable(table)
<1>1. last \in Nat /\ DOMAIN table \subseteq 1 .. last /\ IsTable(table)
  BY DEF KeysAreOld
<1>2. IsFiniteSet(1 .. last)
  BY <1>1, FS_Interval
<1>3. None \notin DOMAIN table
  BY <1>1, NullAssumption
<1>4. QED  BY <1>1, <1>2, <1>3, FS_Subset DEF IsFiniteTable

\* The actions that make a tag a root, and that delete it.
MoveOf(table, t) == Action("update_parent", table[t].externalId, table[t].value, None)
DeletionOf(table, t) == Action("delete", table[t].externalId, table[t].value, None)

LEMMA ElementsOfConcat ==
    ASSUME NEW A, NEW s \in Seq(A), NEW t \in Seq(A)
    PROVE  s \o t \in Seq(A) /\ ToSet(s \o t) = ToSet(s) \cup ToSet(t)
<1>1. PICK u : u = s \o t
  OBVIOUS
<1>2. PICK k \in Nat, l \in Nat : k = Len(s) /\ l = Len(t)
  BY LenProperties
<1>3. /\ u \in Seq(A) /\ Len(u) = k + l
      /\ \A i \in 1 .. k : u[i] = s[i]
      /\ \A i \in 1 .. l : u[k + i] = t[i]
      /\ \A i \in k + 1 .. Len(u) : i - k \in 1 .. l /\ u[i] = t[i - k]
  BY <1>1, <1>2, ConcatInOrder
<1>4. /\ ToSet(s) = {s[i] : i \in 1 .. k} /\ ToSet(t) = {t[i] : i \in 1 .. l}
      /\ ToSet(u) = {u[i] : i \in 1 .. k + l}
  BY <1>2, <1>3, LenProperties DEF ToSet
<1>5. ASSUME NEW i \in 1 .. k + l PROVE u[i] \in ToSet(s) \cup ToSet(t)
  <2>1. CASE i <= k
    <3>1. i \in 1 .. k
      BY <2>1
    <3>2. QED  BY <1>3, <1>4, <3>1
  <2>2. CASE ~ (i <= k)
    <3>1. i \in k + 1 .. Len(u)
      BY <1>3, <2>2
    <3>2. PICK m \in 1 .. l : u[i] = t[m]
      BY <1>3, <3>1
    <3>3. QED  BY <1>4, <3>2
  <2>3. QED  BY <2>1, <2>2
<1>6. ASSUME NEW i \in 1 .. k PROVE s[i] \in ToSet(u)
  <2>1. i \in 1 .. k + l /\ u[i] = s[i]
    BY <1>3
  <2>2. QED  BY <1>4, <2>1
<1>7. ASSUME NEW i \in 1 .. l PROVE t[i] \in ToSet(u)
  <2>1. k + i \in 1 .. k + l /\ u[k + i] = t[i]
    BY <1>3
  <2>2. QED  BY <1>4, <2>1
<1>8. ToSet(u) = ToSet(s) \cup ToSet(t)
  BY <1>4, <1>5, <1>6, <1>7
<1>9. QED  BY <1>1, <1>3, <1>8

LEMMA OneOrNone ==
    ASSUME NEW A, NEW a \in A, NEW test, test \in BOOLEAN,
           NEW s, s = IF test THEN << a >> ELSE << >>
    PROVE  s \in Seq(A) /\ ToSet(s) = (IF test THEN {a} ELSE {}) /\ (s = << >> <=> ~test)
<1>1. CASE test
  <2>1. s = << a >> /\ Len(s) = 1 /\ s[1] = a /\ DOMAIN s = 1 .. 1 /\ s # << >>
    BY <1>1
  <2>2. QED  BY <1>1, <2>1 DEF ToSet
<1>2. CASE ~test
  <2>1. s = << >> /\ << >> \in Seq(A) /\ DOMAIN << >> = {}
    BY <1>2, EmptySeq
  <2>2. ToSet(s) = {}
    BY <2>1 DEF ToSet
  <2>3. QED  BY <1>2, <2>1, <2>2
<1>3. QED  BY <1>1, <1>2

\* A tag that the plan gets to is deleted, or made a root if it stays.
LEMMA DeletionsOfTag ==
    ASSUME NEW table, IsFiniteTable(table), NEW gone, NEW order, NEW i, NEW t \in DOMAIN table,
           t = order[i], NEW as, as = DeleteActions(table, gone, order, i)
    PROVE  /\ as \in Seq(Deletions)
           /\ t \in gone => ToSet(as) = {DeletionOf(table, t)}
           /\ t \notin gone => ToSet(as) \subseteq {MoveOf(table, t)}
           /\ \/ t \in gone \/ ToSet(as) = {MoveOf(table, t)}
              \/ \E j \in 1 .. i - 1 : /\ order[j] \notin gone
                                       /\ table[order[j]].externalId = ExportId(table, t)
<1>1. table[t] \in Rows
  BY DEF IsFiniteTable, IsTable
<1>2. MoveOf(table, t) \in Deletions /\ DeletionOf(table, t) \in Deletions
  BY <1>1 DEF Action, Deletions, Actions, Rows, MoveOf, DeletionOf
<1>3. CASE t \in gone
  <2>1. as = IF t \in gone THEN << DeletionOf(table, t) >> ELSE << >>
    BY <1>3 DEF DeleteActions, DeletionOf
  <2>2. QED  BY <1>2, <1>3, <2>1, OneOrNone
<1>4. CASE t \notin gone
  <2>1. PICK test \in BOOLEAN :
          test <=> ~ \E j \in 1 .. i - 1 :
                        /\ order[j] \notin gone
                        /\ table[order[j]].externalId = ExportId(table, t)
    OBVIOUS
  <2>2. as = IF test THEN << MoveOf(table, t) >> ELSE << >>
    BY <1>4, <2>1 DEF DeleteActions, MoveOf
  <2>3. as \in Seq(Deletions) /\ ToSet(as) = (IF test THEN {MoveOf(table, t)} ELSE {})
    BY <1>2, <2>2, OneOrNone
  <2>4. QED  BY <1>4, <2>1, <2>3
<1>5. QED  BY <1>3, <1>4

\* Whether an action of a kind applies for an item.
Applies(table, item, name) ==
    \/ name = "update_parent" /\ Moves(table, item)
    \/ name = "rename" /\ Renames(table, item)
    \/ name = "create" /\ ByExternalId(table, item.id) = {}
    \/ name = "without_changes" /\ ByExternalId(table, item.id) # {}
                                /\ ~Moves(table, item) /\ ~Renames(table, item)

\* The actions for an item are those that apply, with its id, value and parent.
LEMMA ActionsOfItem ==
    ASSUME NEW table, NEW item \in Items
    PROVE  /\ ActionsFor(table, item) \in Seq(Actions)
           /\ \A a \in ToSet(ActionsFor(table, item)) :
                a = Action(a.name, item.id, item.value, item.parent)
                    /\ Applies(table, item, a.name)
           /\ \A name : Applies(table, item, name) =>
                Action(name, item.id, item.value, item.parent)
                    \in ToSet(ActionsFor(table, item))
<1>1. PICK m, r, c, o :
        /\ m = Action("update_parent", item.id, item.value, item.parent)
        /\ r = Action("rename", item.id, item.value, item.parent)
        /\ c = Action("create", item.id, item.value, item.parent)
        /\ o = Action("without_changes", item.id, item.value, item.parent)
  OBVIOUS
<1>2. {m, r, c, o} \subseteq Actions
  BY <1>1 DEF Items, Action, Actions
<1>3. PICK ms, rs, cs :
        /\ ms = IF Moves(table, item) THEN << m >> ELSE << >>
        /\ rs = IF Renames(table, item) THEN << r >> ELSE << >>
        /\ cs = IF ByExternalId(table, item.id) = {} THEN << c >> ELSE << >>
  OBVIOUS
<1>4. Moves(table, item) \in BOOLEAN /\ Renames(table, item) \in BOOLEAN
  BY DEF Moves, Renames
<1>5. /\ ms \in Seq(Actions) /\ ToSet(ms) = (IF Moves(table, item) THEN {m} ELSE {})
      /\ rs \in Seq(Actions) /\ ToSet(rs) = (IF Renames(table, item) THEN {r} ELSE {})
      /\ cs \in Seq(Actions) /\ ToSet(cs) = (IF ByExternalId(table, item.id) = {} THEN {c} ELSE {})
  <2>1. ms \in Seq(Actions) /\ ToSet(ms) = (IF Moves(table, item) THEN {m} ELSE {})
    BY <1>2, <1>3, <1>4, OneOrNone
  <2>2. rs \in Seq(Actions) /\ ToSet(rs) = (IF Renames(table, item) THEN {r} ELSE {})
    BY <1>2, <1>3, <1>4, OneOrNone
  <2>3. PICK test \in BOOLEAN : test <=> ByExternalId(table, item.id) = {}
    OBVIOUS
  <2>4. cs = IF test THEN << c >> ELSE << >>
    BY <1>3, <2>3
  <2>5. cs \in Seq(Actions) /\ ToSet(cs) = (IF test THEN {c} ELSE {})
    BY <1>2, <2>4, OneOrNone
  <2>6. QED  BY <2>1, <2>2, <2>3, <2>5
<1>6. PICK as : as = ms \o rs \o cs
  OBVIOUS
<1>7. as \in Seq(Actions) /\ ToSet(as) = ToSet(ms) \cup ToSet(rs) \cup ToSet(cs)
  <2>1. ms \o rs \in Seq(Actions) /\ ToSet(ms \o rs) = ToSet(ms) \cup ToSet(rs)
    BY <1>5, ElementsOfConcat
  <2>2. PICK t \in Seq(Actions) : t = ms \o rs /\ ToSet(t) = ToSet(ms) \cup ToSet(rs)
    BY <2>1
  <2>3. t \o cs \in Seq(Actions) /\ ToSet(t \o cs) = ToSet(t) \cup ToSet(cs)
    BY <1>5, ElementsOfConcat
  <2>4. as = t \o cs
    BY <1>6, <2>2
  <2>5. QED  BY <2>1, <2>2, <2>3, <2>4
<1>8. ActionsFor(table, item) = IF as = << >> THEN << o >> ELSE as
  BY <1>1, <1>3, <1>6 DEF ActionsFor
<1>9. as = << >> <=> ToSet(as) = {}
  <2>1. as \in Seq(Actions)
    BY <1>7
  <2>2. CASE as = << >>
    <3>1. DOMAIN << >> = {}
      OBVIOUS
    <3>2. ToSet(<< >>) = {}
      BY <3>1 DEF ToSet
    <3>3. QED  BY <2>2, <3>2
  <2>3. CASE as # << >>
    <3>1. PICK n \in Nat \ {0} : n = Len(as) /\ DOMAIN as = 1 .. n
      BY <2>1, <2>3, EmptySeq, LenProperties
    <3>2. 1 \in DOMAIN as
      <4>1. 1 \in 1 .. n
        OBVIOUS
      <4>2. QED  BY <3>1, <4>1
    <3>3. as[1] \in ToSet(as)
      BY <3>2 DEF ToSet
    <3>4. QED  BY <2>3, <3>3
  <2>4. QED  BY <2>2, <2>3
<1>10. ToSet(<< o >>) = {o} /\ << o >> \in Seq(Actions)
  BY <1>2 DEF ToSet
<1>11. /\ m.name = "update_parent" /\ r.name = "rename" /\ c.name = "create"
       /\ o.name = "without_changes"
  BY <1>1 DEF Action
<1>12. PICK all : all = ToSet(ActionsFor(table, item))
  OBVIOUS
<1>13. all = IF ToSet(as) = {} THEN {o} ELSE ToSet(as)
  BY <1>8, <1>9, <1>10, <1>12
<1>14. ToSet(as) = {} <=> /\ ByExternalId(table, item.id) # {}
                          /\ ~Moves(table, item) /\ ~Renames(table, item)
  <2>1. /\ ToSet(ms) = {} <=> ~Moves(table, item)
        /\ ToSet(rs) = {} <=> ~Renames(table, item)
        /\ ToSet(cs) = {} <=> ByExternalId(table, item.id) # {}
    BY <1>5
  <2>2. QED  BY <1>7, <2>1
<1>15. ASSUME NEW a \in all
       PROVE  \/ a = m /\ Moves(table, item)
              \/ a = r /\ Renames(table, item)
              \/ a = c /\ ByExternalId(table, item.id) = {}
              \/ a = o /\ ToSet(as) = {}
  <2>1. CASE ToSet(as) = {}
    BY <1>13, <2>1
  <2>2. CASE ToSet(as) # {}
    <3>1. a \in ToSet(ms) \/ a \in ToSet(rs) \/ a \in ToSet(cs)
      BY <1>7, <1>13, <2>2
    <3>2. QED  BY <1>5, <3>1
  <2>3. QED  BY <2>1, <2>2
<1>16. ASSUME NEW a \in all
       PROVE  a = Action(a.name, item.id, item.value, item.parent)
                /\ Applies(table, item, a.name)
  <2>1. CASE a = m /\ Moves(table, item)
    BY <1>1, <1>11, <2>1 DEF Applies
  <2>2. CASE a = r /\ Renames(table, item)
    BY <1>1, <1>11, <2>2 DEF Applies
  <2>3. CASE a = c /\ ByExternalId(table, item.id) = {}
    BY <1>1, <1>11, <2>3 DEF Applies
  <2>4. CASE a = o /\ ToSet(as) = {}
    BY <1>1, <1>11, <1>14, <2>4 DEF Applies
  <2>5. QED  BY <1>15, <2>1, <2>2, <2>3, <2>4
<1>17. \A name : Applies(table, item, name) =>
                Action(name, item.id, item.value, item.parent) \in all
  BY <1>1, <1>5, <1>7, <1>13, <1>14 DEF Applies
<1>18. QED  BY <1>7, <1>8, <1>10, <1>12, <1>16, <1>17

\* The actions of a plan: d of them delete tags and keep children, and the
\* others are those that apply for the items, in their order.
FollowsFile(as, d, table, file) ==
    /\ d \in Nat /\ d <= Len(as)
    /\ \A r \in 1 .. d : as[r] \in Deletions
    /\ \A r, q \in d + 1 .. Len(as) : r <= q =>
         \E i, j \in 1 .. Len(file) :
            /\ i <= j
            /\ as[r] \in ToSet(ActionsFor(table, file[i]))
            /\ as[q] \in ToSet(ActionsFor(table, file[j]))
    /\ \A i \in 1 .. Len(file) : \A a \in ToSet(ActionsFor(table, file[i])) :
         \E r \in d + 1 .. Len(as) : as[r] = a

ChangesOf(table, file) == FlattenSeq([i \in DOMAIN file |-> ActionsFor(table, file[i])])

StartsWith(as, dels) == \A r \in 1 .. Len(dels) : as[r] = dels[r]

LEMMA ChangesFollowFile ==
    ASSUME NEW table, NEW file \in Seq(Items), NEW dels \in Seq(Deletions), NEW as,
           as = dels \o ChangesOf(table, file)
    PROVE  /\ as \in Seq(Actions) /\ FollowsFile(as, Len(dels), table, file)
           /\ StartsWith(as, dels)
<1>1. PICK n \in Nat : n = Len(file) /\ DOMAIN file = 1 .. n
  BY LenProperties
<1>2. PICK cs : cs = [i \in DOMAIN file |-> ActionsFor(table, file[i])]
  OBVIOUS
<1>3. \A i \in 1 .. n : file[i] \in Items
  BY <1>1, ElementOfSeq
<1>4. \A i \in 1 .. n : ActionsFor(table, file[i]) \in Seq(Actions)
  BY <1>3, ActionsOfItem
<1>5. cs \in [1 .. n -> Seq(Actions)]
  BY <1>1, <1>2, <1>4
<1>6. cs \in Seq(Seq(Actions)) /\ Len(cs) = n
  <2>1. cs \in Seq(Seq(Actions))
    BY <1>5, SeqDef
  <2>2. DOMAIN cs = 1 .. Len(cs) /\ Len(cs) \in Nat
    BY <2>1, LenProperties
  <2>3. QED  BY <1>5, <2>1, <2>2
<1>7. PICK changes \in Seq(Actions) :
        changes = FlattenSeq(cs) /\ InOrder(changes, cs, n)
  BY <1>6, FlattenedInOrder
<1>8. PICK d \in Nat, l \in Nat : d = Len(dels) /\ l = Len(changes)
  BY <1>7, LenProperties
<1>9. PICK front \in Seq(Actions) : front = dels
  <2>1. Deletions \subseteq Actions
    BY DEF Deletions
  <2>2. QED  BY <2>1, SeqMonotonic
<1>10. as = front \o changes
  BY <1>2, <1>7, <1>9 DEF ChangesOf
<1>11. /\ as \in Seq(Actions) /\ Len(as) = d + l
       /\ \A i \in 1 .. d : as[i] = front[i]
       /\ \A i \in 1 .. l : as[d + i] = changes[i]
       /\ \A i \in d + 1 .. Len(as) : i - d \in 1 .. l /\ as[i] = changes[i - d]
  <2>1. d = Len(front)
    BY <1>8, <1>9
  <2>2. /\ as \in Seq(Actions) /\ Len(as) = Len(front) + Len(changes)
        /\ \A i \in 1 .. Len(front) : as[i] = front[i]
        /\ \A i \in 1 .. Len(changes) : as[Len(front) + i] = changes[i]
        /\ \A i \in Len(front) + 1 .. Len(as) :
             i - Len(front) \in 1 .. Len(changes) /\ as[i] = changes[i - Len(front)]
    <3>1. PICK u : u = front \o changes
      OBVIOUS
    <3>2. /\ u \in Seq(Actions) /\ Len(u) = Len(front) + Len(changes)
          /\ \A i \in 1 .. Len(front) : u[i] = front[i]
          /\ \A i \in 1 .. Len(changes) : u[Len(front) + i] = changes[i]
          /\ \A i \in Len(front) + 1 .. Len(u) :
               i - Len(front) \in 1 .. Len(changes) /\ u[i] = changes[i - Len(front)]
      BY <3>1, ConcatInOrder
    <3>3. u = as
      BY <1>10, <3>1
    <3>4. QED  BY <3>2, <3>3
  <2>3. QED  BY <1>8, <2>1, <2>2
<1>12. \A r \in 1 .. d : as[r] \in Deletions
  <2>1. \A r \in 1 .. d : dels[r] \in Deletions
    BY <1>8, ElementOfSeq
  <2>2. QED  BY <1>9, <1>11, <2>1
<1>13. ASSUME NEW r \in d + 1 .. Len(as), NEW q \in d + 1 .. Len(as), r <= q
       PROVE  \E i, j \in 1 .. n :
                /\ i <= j
                /\ as[r] \in ToSet(ActionsFor(table, file[i]))
                /\ as[q] \in ToSet(ActionsFor(table, file[j]))
  <2>1. PICK r0, q0 : r0 = r - d /\ q0 = q - d
    OBVIOUS
  <2>2. r0 \in 1 .. l /\ q0 \in 1 .. l /\ as[r] = changes[r0] /\ as[q] = changes[q0]
    BY <1>11, <2>1
  <2>3. r0 <= q0
    BY <1>11, <1>13, <2>1
  <2>4. PICK i \in 1 .. n, j \in 1 .. n :
          i <= j /\ changes[r0] \in ToSet(cs[i]) /\ changes[q0] \in ToSet(cs[j])
    BY <1>7, <1>8, <2>2, <2>3 DEF InOrder
  <2>5. cs[i] = ActionsFor(table, file[i]) /\ cs[j] = ActionsFor(table, file[j])
    BY <1>1, <1>2
  <2>6. QED  BY <2>2, <2>4, <2>5
<1>14. ASSUME NEW i \in 1 .. n, NEW a \in ToSet(ActionsFor(table, file[i]))
       PROVE  \E r \in d + 1 .. Len(as) : as[r] = a
  <2>1. cs[i] = ActionsFor(table, file[i])
    BY <1>1, <1>2
  <2>2. a \in ToSet(changes)
    BY <1>7, <1>14, <2>1 DEF InOrder
  <2>3. DOMAIN changes = 1 .. l
    BY <1>8, LenProperties
  <2>4. PICK r \in 1 .. l : changes[r] = a
    BY <2>2, <2>3 DEF ToSet
  <2>5. d + r \in d + 1 .. Len(as)
    BY <1>11
  <2>6. as[d + r] = a
    BY <1>11, <2>4
  <2>7. QED  BY <2>5, <2>6
<1>15. d <= Len(as)
  BY <1>11
<1>16. FollowsFile(as, d, table, file)
  <2>1. \A r, q \in d + 1 .. Len(as) : r <= q =>
          \E i, j \in 1 .. Len(file) :
            /\ i <= j
            /\ as[r] \in ToSet(ActionsFor(table, file[i]))
            /\ as[q] \in ToSet(ActionsFor(table, file[j]))
    BY <1>1, <1>13
  <2>2. \A i \in 1 .. Len(file) : \A a \in ToSet(ActionsFor(table, file[i])) :
          \E r \in d + 1 .. Len(as) : as[r] = a
    BY <1>1, <1>14
  <2>3. QED  BY <1>12, <1>15, <2>1, <2>2, Zenon DEF FollowsFile
<1>17. StartsWith(as, dels)
  BY <1>8, <1>9, <1>11 DEF StartsWith
<1>18. QED  BY <1>8, <1>11, <1>16, <1>17

\* The tags that an import deletes when ids differ, and those it makes roots.
GoneTags(table, file, replace) ==
    IF replace
      THEN {t \in DOMAIN table : ~ \E i \in DOMAIN file : file[i].id = ExportId(table, t)}
      ELSE {}
Freed(table, gone) == {t \in DOMAIN table \ gone : table[t].parent \in gone}

\* The first d actions delete the tags that go, and make roots of the children
\* that they leave.
DeletesGone(as, d, table, gone) ==
    /\ \A r \in 1 .. d : \/ \E t \in gone : as[r] = DeletionOf(table, t)
                         \/ \E t \in Freed(table, gone) : as[r] = MoveOf(table, t)
    /\ \A t \in gone : \E r \in 1 .. d : as[r] = DeletionOf(table, t)
    /\ \A t \in Freed(table, gone) : \E r \in 1 .. d : as[r] = MoveOf(table, t)

\* What the deletions of a plan are made from.
GonesOf(table, file, replace) == IF replace THEN TagsToDelete(table, file) ELSE {{}}

\* If ids differ, the tags that go are those that the file leaves out, and the
\* children they leave are those not among them.
LEMMA GoneWhenIdsDiffer ==
    ASSUME NEW table, NEW file, NEW replace \in BOOLEAN, IdsDiffer(table, DOMAIN table),
           NEW gone \in GonesOf(table, file, replace)
    PROVE  gone = GoneTags(table, file, replace) /\ ChildrenLeft(table, gone) = Freed(table, gone)
<1>1. PICK left : left = {t \in DOMAIN table :
                            ~ \E i \in DOMAIN file : file[i].id = ExportId(table, t)}
  OBVIOUS
<1>2. gone \subseteq DOMAIN table
  BY DEF GonesOf, TagsToDelete
<1>3. gone = GoneTags(table, file, replace)
  <2>1. CASE replace
    <3>1. /\ gone \subseteq left /\ left \subseteq DOMAIN table
          /\ {ExportId(table, t) : t \in gone} = {ExportId(table, t) : t \in left}
      BY <1>1, <2>1 DEF GonesOf, TagsToDelete
    <3>2. ASSUME NEW t \in left PROVE t \in gone
      <4>1. PICK u \in gone : ExportId(table, u) = ExportId(table, t)
        BY <3>1
      <4>2. QED  BY <3>1, <4>1 DEF IdsDiffer
    <3>3. QED  BY <1>1, <2>1, <3>1, <3>2 DEF GoneTags
  <2>2. CASE ~replace
    BY <2>2 DEF GonesOf, GoneTags
  <2>3. QED  BY <2>1, <2>2
<1>4. ASSUME NEW t \in DOMAIN table
      PROVE  (\A g \in gone : ExportId(table, g) # ExportId(table, t)) <=> t \notin gone
  BY <1>2 DEF IdsDiffer
<1>5. QED  BY <1>3, <1>4 DEF ChildrenLeft, ChildrenOf, Freed

\* If ids differ, no earlier child is taken for a child that stays.
LEMMA NoneIsTaken ==
    ASSUME NEW table, IsFiniteTable(table), IdsDiffer(table, DOMAIN table),
           NEW t \in DOMAIN table, NEW u \in DOMAIN table, u # t
    PROVE  table[u].externalId # ExportId(table, t)
<1>1. t # None /\ u # None
  BY DEF IsFiniteTable
<1>2. ExportId(table, t) # None
  BY <1>1 DEF ExportId
<1>3. table[u].externalId # None => ExportId(table, u) = table[u].externalId
  BY <1>1 DEF ExportId
<1>4. QED  BY <1>2, <1>3 DEF IdsDiffer

LEMMA PlansFollowFiles ==
    ASSUME NEW table, IsFiniteTable(table), NEW file \in Seq(Items), NEW replace \in BOOLEAN,
           NEW plan \in Plans(table, file, replace)
    PROVE  /\ plan.actions \in Seq(Actions)
           /\ \E d : /\ FollowsFile(plan.actions, d, table, file)
                     /\ IdsDiffer(table, DOMAIN table) =>
                          DeletesGone(plan.actions, d, table, GoneTags(table, file, replace))
<1> DEFINE
      Changes == FlattenSeq([i \in DOMAIN file |-> ActionsFor(table, file[i])])
      Deleting(gone, order) ==
          FlattenSeq([i \in DOMAIN order |-> DeleteActions(table, gone, order, i)])
      PlansOf(gone) == {BuildActions(table, Deleting(gone, order) \o Changes) :
                           order \in DeletionOrders(table, gone)}
<1>0. plan \in UNION {PlansOf(gone) : gone \in GonesOf(table, file, replace)}
  BY DEF Plans, GonesOf
<1> HIDE DEF PlansOf
<1>1. PICK gone, order :
        /\ gone \in GonesOf(table, file, replace) /\ order \in DeletionOrders(table, gone)
        /\ plan = BuildActions(table, Deleting(gone, order) \o Changes)
  <2>1. PICK gone \in GonesOf(table, file, replace) : plan \in PlansOf(gone)
    BY <1>0
  <2>2. PICK order \in DeletionOrders(table, gone) :
          plan = BuildActions(table, Deleting(gone, order) \o Changes)
    BY <2>1 DEF PlansOf
  <2>3. QED  BY <2>2
<1>2. PICK all : all = gone \cup ChildrenLeft(table, gone)
  OBVIOUS
<1>3. all \subseteq DOMAIN table /\ IsFiniteSet(all)
  <2>1. all \subseteq DOMAIN table
    BY <1>1, <1>2 DEF GonesOf, TagsToDelete, ChildrenLeft, ChildrenOf
  <2>2. QED  BY <2>1, FS_Subset DEF IsFiniteTable
<1>4. PICK n \in Nat : n = Cardinality(all)
  BY <1>3, FS_CardinalityType
<1>5. /\ order \in [1 .. n -> all] /\ \A i, j \in 1 .. n : i # j => order[i] # order[j]
      /\ \A t \in all : \E i \in 1 .. n : order[i] = t
  <2>1. order \in SetToSeqs(all)
    BY <1>1, <1>2 DEF DeletionOrders
  <2>2. order \in [1 .. n -> all] /\ \A i, j \in 1 .. n : i # j => order[i] # order[j]
    BY <1>4, <2>1 DEF SetToSeqs
  <2>3. order \in Injection(1 .. n, all)
    BY <2>2 DEF Injection, IsInjective
  <2>4. IsFiniteSet(1 .. n) /\ Cardinality(1 .. n) = n
    BY FS_Interval
  <2>5. order \in Surjection(1 .. n, all)
    BY <1>3, <1>4, <2>3, <2>4, FS_Injection
  <2>6. QED  BY <2>2, <2>5 DEF Surjection
<1>6. PICK seqs : seqs = [i \in DOMAIN order |-> DeleteActions(table, gone, order, i)]
  OBVIOUS
<1>7. \A i \in 1 .. n : order[i] \in DOMAIN table
  BY <1>3, <1>5
<1>8. \A i \in 1 .. n : seqs[i] = DeleteActions(table, gone, order, i)
  BY <1>5, <1>6
<1>9. seqs \in [1 .. n -> Seq(Deletions)]
  <2>1. \A i \in 1 .. n : DeleteActions(table, gone, order, i) \in Seq(Deletions)
    BY <1>7, DeletionsOfTag
  <2>2. QED  BY <1>5, <1>6, <2>1
<1>10. seqs \in Seq(Seq(Deletions)) /\ Len(seqs) = n
  <2>1. seqs \in Seq(Seq(Deletions))
    BY <1>9, SeqDef
  <2>2. DOMAIN seqs = 1 .. Len(seqs) /\ Len(seqs) \in Nat
    BY <2>1, LenProperties
  <2>3. QED  BY <1>9, <2>1, <2>2
<1>11. PICK dels \in Seq(Deletions) : dels = FlattenSeq(seqs) /\ InOrder(dels, seqs, n)
  BY <1>10, FlattenedInOrder
<1>12. plan.actions = dels \o FlattenSeq([i \in DOMAIN file |-> ActionsFor(table, file[i])])
  BY <1>1, <1>6, <1>11 DEF BuildActions
<1>13. PICK d \in Nat : d = Len(dels) /\ DOMAIN dels = 1 .. d
  BY LenProperties
<1>14. PICK as : as = plan.actions
  OBVIOUS
<1>15. as \in Seq(Actions) /\ FollowsFile(as, d, table, file) /\ \A r \in 1 .. d : as[r] = dels[r]
  <2>1. as = dels \o ChangesOf(table, file)
    BY <1>12, <1>14 DEF ChangesOf
  <2>2. /\ as \in Seq(Actions) /\ FollowsFile(as, Len(dels), table, file)
        /\ StartsWith(as, dels)
    BY <2>1, ChangesFollowFile
  <2>3. QED  BY <1>13, <2>2 DEF StartsWith
<1>16. ASSUME IdsDiffer(table, DOMAIN table)
       PROVE  DeletesGone(as, d, table, GoneTags(table, file, replace))
  <2>1. /\ gone = GoneTags(table, file, replace) /\ all = gone \cup Freed(table, gone)
        /\ Freed(table, gone) \cap gone = {}
    BY <1>1, <1>2, <1>16, GoneWhenIdsDiffer DEF Freed
  <2>2. ASSUME NEW i \in 1 .. n
        PROVE  ToSet(seqs[i]) = {IF order[i] \in gone THEN DeletionOf(table, order[i])
                                                      ELSE MoveOf(table, order[i])}
    <3>1. PICK t \in DOMAIN table : t = order[i]
      BY <1>7
    <3>2. PICK acts : acts = seqs[i] /\ acts = DeleteActions(table, gone, order, i)
      BY <1>8
    <3>3. ASSUME NEW j \in 1 .. i - 1 PROVE table[order[j]].externalId # ExportId(table, t)
      <4>1. j \in 1 .. n /\ j # i
        OBVIOUS
      <4>2. order[j] \in DOMAIN table /\ order[j] # t
        BY <1>5, <1>7, <3>1, <4>1
      <4>3. QED  BY <1>16, <4>2, NoneIsTaken
    <3>4. t \in gone => ToSet(acts) = {DeletionOf(table, t)}
      BY <3>1, <3>2, DeletionsOfTag
    <3>5. t \in gone \/ ToSet(acts) = {MoveOf(table, t)}
      BY <3>1, <3>2, <3>3, DeletionsOfTag
    <3>6. QED  BY <3>1, <3>2, <3>4, <3>5
  <2>3. ASSUME NEW r \in 1 .. d
        PROVE  \/ \E t \in gone : as[r] = DeletionOf(table, t)
               \/ \E t \in Freed(table, gone) : as[r] = MoveOf(table, t)
    <3>1. r \in 1 .. Len(dels) /\ r <= r
      BY <1>13
    <3>2. \E i, j \in 1 .. n :
             /\ i <= j /\ (i = j /\ r # r => 1 < Len(seqs[i]))
             /\ dels[r] \in ToSet(seqs[i]) /\ dels[r] \in ToSet(seqs[j])
      BY <1>11, <3>1, Zenon DEF InOrder
    <3>3. PICK i \in 1 .. n : dels[r] \in ToSet(seqs[i])
      BY <3>2, Zenon
    <3>4. order[i] \in gone \cup Freed(table, gone)
      BY <1>5, <2>1
    <3>5. as[r] = IF order[i] \in gone THEN DeletionOf(table, order[i])
                                       ELSE MoveOf(table, order[i])
      BY <1>15, <2>2, <3>3
    <3>6. QED  BY <3>4, <3>5
  <2>4. ASSUME NEW t \in all
        PROVE  \E r \in 1 .. d :
                  as[r] = IF t \in gone THEN DeletionOf(table, t) ELSE MoveOf(table, t)
    <3>1. PICK i \in 1 .. n : order[i] = t
      BY <1>5
    <3>2. PICK a : a = IF t \in gone THEN DeletionOf(table, t) ELSE MoveOf(table, t)
      OBVIOUS
    <3>3. a \in ToSet(seqs[i])
      BY <2>2, <3>1, <3>2
    <3>4. a \in ToSet(dels)
      BY <1>11, <3>3 DEF InOrder
    <3>5. PICK r \in 1 .. d : dels[r] = a
      BY <1>13, <3>4 DEF ToSet
    <3>6. QED  BY <1>15, <3>2, <3>5
  <2>5. /\ \A t \in gone : \E r \in 1 .. d : as[r] = DeletionOf(table, t)
        /\ \A t \in Freed(table, gone) : \E r \in 1 .. d : as[r] = MoveOf(table, t)
    BY <2>1, <2>4
  <2>6. DeletesGone(as, d, table, gone)
    BY <2>3, <2>5 DEF DeletesGone
  <2>7. QED  BY <2>1, <2>6
<1>17. QED  BY <1>14, <1>15, <1>16

(***************************************************************************)
(* What actions do to parents                                              *)
(***************************************************************************)
LEMMA KeysOfTables ==
    ASSUME NEW table, NEW last, KeysAreOld(table, last)
    PROVE  /\ table = [t \in DOMAIN table |-> table[t]]
           /\ \A t \in DOMAIN table : table[t] \in Rows
           /\ \A t \in DOMAIN table : table[t].parent \in DOMAIN table \cup {None}
           /\ None \notin DOMAIN table /\ last + 1 \notin DOMAIN table /\ last + 1 # None
  BY NullAssumption DEF KeysAreOld, IsTable

LEMMA RowsOfTables ==
    ASSUME NEW r \in Rows, NEW v, NEW p
    PROVE  /\ [r EXCEPT !.parent = p] = Row(r.value, p, r.externalId)
           /\ [r EXCEPT !.value = v] = Row(v, r.parent, r.externalId)
  BY DEF Rows, Row

\* Tags are deleted, and others made roots.
ParentsStay(table, new) ==
    /\ DOMAIN new \subseteq DOMAIN table
    /\ \A t \in DOMAIN new : /\ new[t].parent \in {None, table[t].parent}
                             /\ new[t].externalId = table[t].externalId

LEMMA ParentsStayInHierarchy ==
    ASSUME NEW table, NEW new, None \notin DOMAIN table, ParentsStay(table, new),
           IsHierarchy(table)
    PROVE  IsHierarchy(new)
<1> SUFFICES ASSUME NEW X \in SUBSET DOMAIN new, \A t \in X : new[t].parent \in X
             PROVE  X = {}
  BY DEF IsHierarchy
<1>1. X \in SUBSET DOMAIN table /\ None \notin X
  BY DEF ParentsStay
<1>2. \A t \in X : table[t].parent \in X
  BY <1>1 DEF ParentsStay
<1>3. QED  BY <1>1, <1>2 DEF IsHierarchy

\* The tags of the item have no parent, or the tag of an earlier item.
Settled(table, file, m) ==
    \A t \in ByExternalId(table, file[m].id) :
        \/ table[t].parent = None
        \/ \E n \in 1 .. m - 1 : table[table[t].parent].externalId = file[n].id

LEMMA ParentsStaySettled ==
    ASSUME NEW table, NEW new, IsTable(new), ParentsStay(table, new),
           NEW file, NEW m, Settled(table, file, m)
    PROVE  Settled(new, file, m)
<1> SUFFICES ASSUME NEW t \in ByExternalId(new, file[m].id), new[t].parent # None
             PROVE  \E n \in 1 .. m - 1 : new[new[t].parent].externalId = file[n].id
  BY DEF Settled
<1>1. t \in DOMAIN new /\ new[t].externalId = file[m].id
  BY DEF ByExternalId
<1>2. t \in ByExternalId(table, file[m].id) /\ new[t].parent = table[t].parent
  BY <1>1 DEF ParentsStay, ByExternalId
<1>3. PICK n \in 1 .. m - 1 : table[table[t].parent].externalId = file[n].id
  BY <1>2 DEF Settled
<1>4. new[t].parent \in DOMAIN new
  BY <1>1 DEF IsTable
<1>5. new[new[t].parent].externalId = file[n].id
  BY <1>2, <1>3, <1>4 DEF ParentsStay
<1>6. QED  BY <1>5

\* The rows that go with a tag are below it: what stays has its parent.
LEMMA DeletedWithChildren ==
    ASSUME NEW table, IsTable(table), NEW S
    PROVE  IsTable(Delete(table, S)) /\ ParentsStay(table, Delete(table, S))
<1>1. PICK C : C = Cascade(table, S)
  OBVIOUS
<1>2. ASSUME NEW t \in DOMAIN table, table[t].parent \in C
      PROVE  t \in C
  <2>1. ASSUME NEW D \in SUBSET DOMAIN table, S \subseteq D, ChildrenOf(table, D) \subseteq D
        PROVE  t \in D
    <3>1. table[t].parent \in D
      BY <1>1, <1>2, <2>1 DEF Cascade
    <3>2. QED  BY <2>1, <3>1 DEF ChildrenOf
  <2>2. QED  BY <1>1, <2>1 DEF Cascade
<1>3. PICK new : new = Delete(table, S)
  OBVIOUS
<1>4. new = [t \in DOMAIN table \ C |-> table[t]]
  BY <1>1, <1>3 DEF Delete, Restrict
<1>5. ParentsStay(table, new)
  BY <1>4 DEF ParentsStay
<1>6. \A t \in DOMAIN new : new[t].parent \in DOMAIN new \cup {None}
  BY <1>2, <1>4 DEF IsTable
<1>7. new \in [DOMAIN new -> Rows]
  BY <1>4 DEF IsTable
<1>8. \A t, u \in DOMAIN new :
         t # u => /\ new[t].value # new[u].value
                  /\ new[t].externalId # new[u].externalId \/ new[t].externalId = None
  BY <1>4 DEF IsTable
<1>9. IsTable(new)
  BY <1>6, <1>7, <1>8 DEF IsTable
<1>10. QED  BY <1>3, <1>5, <1>9

LEMMA RenamedStay ==
    ASSUME NEW table, NEW last, KeysAreOld(table, last), NEW t \in DOMAIN table, NEW v,
           NEW new, new = [table EXCEPT ![t].value = v]
    PROVE  ParentsStay(table, new)
<1>1. DOMAIN new = DOMAIN table
      /\ \A u \in DOMAIN table : u # t => new[u] = table[u]
  BY KeysOfTables
<1>2. new[t] = Row(v, table[t].parent, table[t].externalId)
  <2>1. table[t] \in Rows
    BY KeysOfTables
  <2>2. new[t] = [table[t] EXCEPT !.value = v]
    OBVIOUS
  <2>3. QED  BY <2>1, <2>2, RowsOfTables
<1>3. new[t].parent = table[t].parent /\ new[t].externalId = table[t].externalId
  BY <1>2 DEF Row
<1>4. QED  BY <1>1, <1>3 DEF ParentsStay

LEMMA MovedRows ==
    ASSUME NEW table, NEW last, KeysAreOld(table, last), NEW t \in DOMAIN table, NEW p,
           NEW new, new = [table EXCEPT ![t].parent = p]
    PROVE  /\ DOMAIN new = DOMAIN table
           /\ \A u \in DOMAIN table :
                /\ new[u].externalId = table[u].externalId
                /\ new[u].parent = IF u = t THEN p ELSE table[u].parent
<1>1. DOMAIN new = DOMAIN table
      /\ \A u \in DOMAIN table : u # t => new[u] = table[u]
  BY KeysOfTables
<1>2. new[t] = Row(table[t].value, p, table[t].externalId)
  <2>1. table[t] \in Rows
    BY KeysOfTables
  <2>2. new[t] = [table[t] EXCEPT !.parent = p]
    OBVIOUS
  <2>3. QED  BY <2>1, <2>2, RowsOfTables
<1>3. new[t].parent = p /\ new[t].externalId = table[t].externalId
  BY <1>2 DEF Row
<1>4. QED  BY <1>1, <1>3

\* A new tag has no children yet.
LEMMA CreatedInHierarchy ==
    ASSUME NEW table, NEW last, KeysAreOld(table, last), IsHierarchy(table),
           NEW v, NEW p \in DOMAIN table \cup {None}, NEW x,
           NEW new, new = Put(table, last + 1, Row(v, p, x))
    PROVE  IsHierarchy(new)
<1> SUFFICES ASSUME NEW X \in SUBSET DOMAIN new, \A t \in X : new[t].parent \in X
             PROVE  X = {}
  BY DEF IsHierarchy
<1>1. PICK pk : pk = last + 1 /\ pk \notin DOMAIN table /\ pk # None
  BY KeysOfTables
<1>2. /\ DOMAIN new = DOMAIN table \cup {pk} /\ new[pk].parent = p
      /\ \A t \in DOMAIN table : new[t] = table[t]
  BY <1>1 DEF Put, Row
<1>3. None \notin X
  BY <1>1, <1>2, KeysOfTables
<1>4. \A t \in X \ {pk} : table[t].parent \in X \ {pk}
  <2>1. \A t \in DOMAIN table : table[t].parent # pk
    BY <1>1, KeysOfTables
  <2>2. QED  BY <1>2, <2>1
<1>5. X \ {pk} = {}
  <2>1. X \ {pk} \in SUBSET DOMAIN table
    BY <1>2
  <2>2. QED  BY <1>4, <2>1 DEF IsHierarchy
<1>6. pk \notin X
  <2>1. p # pk
    BY <1>1
  <2>2. pk \in X => p \in X
    BY <1>2
  <2>3. QED  BY <1>3, <1>5, <2>1, <2>2
<1>7. QED  BY <1>5, <1>6

(***************************************************************************)
(* The calls that edit tags leave tables.                                  *)
(***************************************************************************)
LEMMA AddedTag ==
    ASSUME NEW table, NEW last, KeysAreOld(table, last), NEW pk, pk = last + 1,
           NEW v, NEW parentValue, NEW x, NEW new \in AddTag(table, pk, v, parentValue, x)
    PROVE  /\ KeysAreOld(new, pk)
           /\ IsHierarchy(table) => IsHierarchy(new)
<1>1. IsTable(table) /\ last \in Nat /\ DOMAIN table \subseteq 1 .. last
      /\ None \notin DOMAIN table /\ pk \notin DOMAIN table /\ pk # None
  BY KeysOfTables DEF KeysAreOld
<1>2. PICK p \in ParentByValue(table, parentValue) :
        new = Put(table, pk, Row(v, p, x)) /\ IsTable(new)
  BY DEF AddTag
<1>3. p \in DOMAIN table \cup {None}
  BY DEF ParentByValue, WithValue
<1>4. DOMAIN new = DOMAIN table \cup {pk}
  BY <1>2 DEF Put
<1>5. pk \in Nat /\ DOMAIN new \subseteq 1 .. pk
  BY <1>1, <1>4
<1>6. KeysAreOld(new, pk)
  BY <1>2, <1>5 DEF KeysAreOld
<1>7. ASSUME IsHierarchy(table) PROVE IsHierarchy(new)
  BY <1>1, <1>2, <1>3, <1>7, CreatedInHierarchy
<1>8. QED  BY <1>6, <1>7

LEMMA RenamedTag ==
    ASSUME NEW table, NEW last, KeysAreOld(table, last), NEW v, NEW newValue,
           NEW new \in UpdateTag(table, v, newValue)
    PROVE  /\ KeysAreOld(new, last) /\ DOMAIN new = DOMAIN table
           /\ ParentsStay(table, new)
<1>1. PICK t \in WithValue(table, v) :
        new = [table EXCEPT ![t].value = newValue] /\ IsTable(new)
  BY DEF UpdateTag
<1>2. t \in DOMAIN table /\ DOMAIN new = DOMAIN table
  BY <1>1 DEF WithValue
<1>3. KeysAreOld(new, last)
  BY <1>1, <1>2 DEF KeysAreOld
<1>4. ParentsStay(table, new)
  BY <1>1, <1>2, RenamedStay
<1>5. QED  BY <1>2, <1>3, <1>4

LEMMA DeletedTags ==
    ASSUME NEW table, NEW last, KeysAreOld(table, last), NEW V, NEW withSubtags,
           NEW new \in DeleteTags(table, V, withSubtags)
    PROVE  /\ KeysAreOld(new, last) /\ ParentsStay(table, new)
           /\ \A t \in DOMAIN new : new[t] = table[t]
<1>1. PICK S : new = Delete(table, S)
  BY DEF DeleteTags
<1>2. IsTable(new) /\ ParentsStay(table, new)
  BY <1>1, DeletedWithChildren DEF KeysAreOld
<1>3. KeysAreOld(new, last)
  BY <1>2 DEF KeysAreOld, ParentsStay
<1>4. \A t \in DOMAIN new : new[t] = table[t]
  BY <1>1 DEF Delete, Restrict
<1>5. QED  BY <1>2, <1>3, <1>4

(***************************************************************************)
(* The tables an execution goes through, until it ends without an error    *)
(***************************************************************************)
\* From a table to another, by an action with a key that is free.
IsDone(now, a, new) ==
    /\ IsTable(now) /\ IsTable(new) /\ DOMAIN now \subseteq Nat /\ DOMAIN new \subseteq Nat
    /\ \E pk \in Nat : pk \notin DOMAIN now /\ new \in Executed(now, pk, a)

\* T[k] is the table after k actions.
AreTables(T, n, table, as) ==
    /\ T[0] = table
    /\ \A k \in 0 .. n - 1 : IsDone(T[k], as[k + 1], T[k + 1])

IsAfter(T, k, now) == now = T[k]

LeadsTo(table, as, n, final) == \E T : AreTables(T, n, table, as) /\ T[n] = final

\* An action does nothing after one that raised.
LEMMA OkBefore ==
    ASSUME NEW s, IsState(s), NEW a, NEW next, next = ExecuteAction(s, a), next.ok
    PROVE  s.ok /\ IsState(next) /\ IsDone(s.tags, a, next.tags)
<1>1. IsState(next)
  BY ActionsKeepStates
<1>2. PICK new \in Executed(s.tags, s.lastTag + 1, a) :
        /\ s.ok /\ IsTable(new)
        /\ next = [tags |-> new, ok |-> TRUE,
                   lastTag |-> IF a.name = "create" THEN s.lastTag + 1 ELSE s.lastTag]
  <2>1. ASSUME next = [tags |-> s.tags, lastTag |-> s.lastTag, ok |-> FALSE] PROVE FALSE
    <3>1. next.ok = FALSE
      BY <2>1
    <3>2. QED  BY <3>1
  <2>2. QED  BY <2>1, ActionRaisesOrEnds
<1>3. next.tags = new
  BY <1>2
<1>4. PICK pk : pk = s.lastTag + 1
  OBVIOUS
<1>5. pk \in Nat /\ pk \notin DOMAIN s.tags /\ IsTable(s.tags) /\ DOMAIN s.tags \subseteq Nat
  BY <1>4, KeysOfTables DEF IsState, KeysAreOld
<1>6. IsTable(next.tags) /\ DOMAIN next.tags \subseteq Nat
  BY <1>1 DEF IsState, KeysAreOld
<1>7. s.ok
  BY <1>2
<1>8. next.tags \in Executed(s.tags, pk, a)
  BY <1>2, <1>3, <1>4
<1>9. QED  BY <1>1, <1>5, <1>6, <1>7, <1>8 DEF IsDone

\* An execution that ends without an error went from table to table.
LEMMA ExecutionIsOfTables ==
    ASSUME NEW table, NEW last, KeysAreOld(table, last), NEW as, NEW n \in Nat, NEW f,
           IsExecution(f, n, table, last, as), f[n].ok
    PROVE  LeadsTo(table, as, n, f[n].tags)
<1>1. \A k \in 0 .. n : IsState(f[k])
  BY RunsAreOfStates
<1>2. ASSUME NEW k \in 0 .. n - 1, f[k + 1].ok
      PROVE  f[k].ok /\ IsDone(f[k].tags, as[k + 1], f[k + 1].tags)
  <2>1. k + 1 \in 1 .. n /\ (k + 1) - 1 = k /\ k \in 0 .. n
    OBVIOUS
  <2>2. PICK s, a, next : s = f[k] /\ a = as[k + 1] /\ next = f[k + 1]
    OBVIOUS
  <2>3. IsState(s) /\ next = ExecuteAction(s, a) /\ next.ok
    BY <1>1, <1>2, <2>1, <2>2 DEF IsExecution
  <2>4. s.ok /\ IsDone(s.tags, a, next.tags)
    BY <2>3, OkBefore
  <2>5. QED  BY <2>2, <2>4
<1>3. \A k \in 0 .. n : f[n - k].ok
  <2> DEFINE S == {k \in 0 .. n : f[n - k].ok}
  <2>1. 0 \in S
    <3>1. n - 0 = n /\ 0 \in 0 .. n
      OBVIOUS
    <3>2. QED  BY <3>1
  <2>2. ASSUME NEW k \in 0 .. n - 1, k \in S PROVE k + 1 \in S
    <3>1. PICK l \in 0 .. n - 1 : l = n - (k + 1)
      OBVIOUS
    <3>2. l + 1 = n - k /\ k + 1 \in 0 .. n
      BY <3>1
    <3>3. f[l + 1].ok
      BY <2>2, <3>2
    <3>4. f[l].ok
      BY <1>2, <3>3
    <3>5. QED  BY <3>1, <3>2, <3>4
  <2> HIDE DEF S
  <2>3. \A k \in 0 .. n : k \in S
    BY <2>1, <2>2, UpTo
  <2>4. QED  BY <2>3 DEF S
<1>4. PICK T : T = [k \in 0 .. n |-> f[k].tags]
  OBVIOUS
<1>5. ASSUME NEW k \in 0 .. n - 1 PROVE IsDone(T[k], as[k + 1], T[k + 1])
  <2>1. PICK l \in 0 .. n : l = n - (k + 1)
    OBVIOUS
  <2>2. n - l = k + 1 /\ k \in 0 .. n /\ k + 1 \in 0 .. n
    BY <2>1
  <2>3. f[k + 1].ok
    BY <1>3, <2>2
  <2>4. T[k] = f[k].tags /\ T[k + 1] = f[k + 1].tags
    BY <1>4, <2>2
  <2>5. QED  BY <1>2, <2>3, <2>4
<1>6. T[0] = table /\ T[n] = f[n].tags
  <2>1. 0 \in 0 .. n /\ n \in 0 .. n
    OBVIOUS
  <2>2. f[0].tags = table
    BY DEF IsExecution, StartOf
  <2>3. QED  BY <1>4, <2>1, <2>2
<1>7. QED  BY <1>5, <1>6 DEF AreTables, LeadsTo

\* The same of Execute.
LEMMA ExecutionsHaveTables ==
    ASSUME NEW table, NEW last, KeysAreOld(table, last), NEW as, NEW n \in Nat, n = Len(as),
           NEW end, end = Execute(table, last, as), end.ok
    PROVE  LeadsTo(table, as, n, end.tags)
<1>1. PICK f : IsExecution(f, n, table, last, as) /\ end = f[n]
  <2>1. PICK f : IsExecution(f, n, table, last, as) /\ Execute(table, last, as) = f[n]
    BY ExecutionRuns, Zenon
  <2>2. QED  BY <2>1
<1>2. QED  BY <1>1, ExecutionIsOfTables

(***************************************************************************)
(* What the deletions of a plan leave                                      *)
(***************************************************************************)
\* Tags with the values and external ids they had.
SameTags(table, now) ==
    \A t \in DOMAIN now : /\ t \in DOMAIN table
                          /\ now[t].value = table[t].value
                          /\ now[t].externalId = table[t].externalId

\* _get_tag finds the tag an action was made for, if it is still there.
LEMMA FoundTag ==
    ASSUME NEW table, IsTable(table), NEW now, SameTags(table, now), NEW t \in DOMAIN table,
           NEW a, a.id = table[t].externalId, a.value = table[t].value
    PROVE  \A u : u \in GetTag(now, a) <=> u = t /\ t \in DOMAIN now
<1>1. PICK x, v : x = table[t].externalId /\ v = table[t].value
  OBVIOUS
<1>2. \A u \in DOMAIN now : u \in DOMAIN table /\ now[u].value = table[u].value
                              /\ now[u].externalId = table[u].externalId
  BY DEF SameTags
<1>3. \A u \in DOMAIN table : table[u].value = v => u = t
  BY <1>1 DEF IsTable
<1>4. CASE x = None
  <2>1. \A u : u \in GetTag(now, a) <=>
           u \in DOMAIN now /\ now[u].value = v /\ now[u].externalId = None
    BY <1>1, <1>4 DEF GetTag, WithValue
  <2>2. QED  BY <1>1, <1>2, <1>3, <1>4, <2>1
<1>5. CASE x # None
  <2>1. PICK found : found = ByExternalId(now, x)
    OBVIOUS
  <2>2. \A u : u \in found <=> u \in DOMAIN now /\ now[u].externalId = x
    BY <2>1 DEF ByExternalId
  <2>3. \A u \in DOMAIN table : table[u].externalId = x => u = t
    BY <1>1, <1>5 DEF IsTable
  <2>4. \A u : u \in found <=> u = t /\ t \in DOMAIN now
    BY <1>1, <1>2, <2>2, <2>3
  <2>5. GetTag(now, a) = IF found # {} THEN found
                         ELSE {u \in WithValue(now, v) : now[u].externalId = None}
    BY <1>1, <1>5, <2>1 DEF GetTag
  <2>6. CASE t \in DOMAIN now
    BY <2>4, <2>5, <2>6
  <2>7. CASE t \notin DOMAIN now
    <3>1. found = {}
      BY <2>4, <2>7
    <3>2. \A u \in WithValue(now, v) : now[u].externalId # None
      BY <1>1, <1>2, <1>3, <2>7 DEF WithValue
    <3>3. QED  BY <2>5, <2>7, <3>1, <3>2
  <2>8. QED  BY <2>6, <2>7
<1>6. QED  BY <1>4, <1>5

\* During the deletions, tags go, and children of those that do become roots.
IsLess(table, gone, now) ==
    /\ SameTags(table, now)
    /\ \A t \in DOMAIN now : \/ now[t].parent = table[t].parent
                             \/ now[t].parent = None /\ table[t].parent \in gone

\* After them.
IsWithout(table, gone, now) == IsLess(table, gone, now) /\ DOMAIN now = DOMAIN table \ gone

IsRoot(now, t) == t \in DOMAIN now /\ now[t].parent = None

\* What one of the actions that delete does.
DeletesOrMoves(table, gone, a) ==
    \/ \E t \in gone : a = DeletionOf(table, t)
    \/ \E t \in Freed(table, gone) : a = MoveOf(table, t)

\* A move before a deletion finds its tag, which nothing deletes, and makes it
\* the root it stays.
LEMMA MoveInDeletions ==
    ASSUME NEW table, IsTable(table), NEW gone, NEW now, NEW new, NEW a,
           IsLess(table, gone, now), IsDone(now, a, new),
           NEW t \in Freed(table, gone), a = MoveOf(table, t)
    PROVE  /\ IsLess(table, gone, new) /\ DOMAIN new = DOMAIN now
           /\ IsRoot(new, t)
           /\ \A u \in DOMAIN now : IsRoot(now, u) => IsRoot(new, u)
<1>1. t \in DOMAIN table /\ table[t].parent \in gone
  BY DEF Freed
<1>2. /\ a.name = "update_parent" /\ a.id = table[t].externalId /\ a.value = table[t].value
      /\ a.parent = None
  BY DEF MoveOf, Action
<1>3. \A u : u \in GetTag(now, a) <=> u = t /\ t \in DOMAIN now
  BY <1>1, <1>2, FoundTag DEF IsLess
<1>4. t \in DOMAIN now /\ new = [now EXCEPT ![t].parent = None]
  <2>1. PICK pk \in Nat : new \in Executed(now, pk, a)
    BY DEF IsDone
  <2>2. PICK u \in GetTag(now, a), p \in ParentsOf(now, a) : new = [now EXCEPT ![u].parent = p]
    BY <1>2, <2>1, LeftByActions
  <2>3. u = t /\ t \in DOMAIN now
    BY <1>3
  <2>4. p = None
    BY <1>2 DEF ParentsOf
  <2>5. QED  BY <2>2, <2>3, <2>4
<1>5. \A u \in DOMAIN now : now[u] \in Rows
  BY DEF IsDone, IsTable
<1>6. /\ DOMAIN new = DOMAIN now
      /\ \A u \in DOMAIN now : u # t => new[u] = now[u]
      /\ new[t] = [now[t] EXCEPT !.parent = None]
  BY <1>4
<1>7. new[t] = Row(now[t].value, None, now[t].externalId)
  BY <1>4, <1>5, <1>6, RowsOfTables
<1>8. new[t].value = now[t].value /\ new[t].parent = None /\ new[t].externalId = now[t].externalId
  BY <1>7 DEF Row
<1>9. ASSUME NEW u \in DOMAIN new
      PROVE  /\ u \in DOMAIN table /\ new[u].value = table[u].value
             /\ new[u].externalId = table[u].externalId
             /\ \/ new[u].parent = table[u].parent
                \/ new[u].parent = None /\ table[u].parent \in gone
  <2>1. /\ u \in DOMAIN table /\ now[u].value = table[u].value
        /\ now[u].externalId = table[u].externalId
        /\ \/ now[u].parent = table[u].parent
           \/ now[u].parent = None /\ table[u].parent \in gone
    BY <1>6 DEF IsLess, SameTags
  <2>2. QED  BY <1>1, <1>6, <1>8, <2>1
<1>10. IsLess(table, gone, new)
  BY <1>9 DEF IsLess, SameTags
<1>11. QED  BY <1>4, <1>6, <1>8, <1>10 DEF IsRoot

\* What stays when rows are deleted: rows that have their parents among
\* themselves, or none, but for some that stay.
KeepsClosed(S, now, new) ==
    \A X \in SUBSET (DOMAIN now \ S) :
        (\A u \in X : u \in DOMAIN new \/ now[u].parent \in X \cup {None})
            => X \subseteq DOMAIN new

Leaves(S, now, new) ==
    /\ \A u \in DOMAIN new : u \in DOMAIN now /\ new[u] = now[u]
    /\ \A u \in S : u \notin DOMAIN new
    /\ KeepsClosed(S, now, new)

\* The cascade takes what is below, and no more.
LEMMA WhatDeletionLeaves ==
    ASSUME NEW now, None \notin DOMAIN now, NEW S, S \subseteq DOMAIN now,
           NEW new, new = Delete(now, S)
    PROVE  Leaves(S, now, new)
<1>1. PICK D : D = Cascade(now, S)
  OBVIOUS
<1>2. DOMAIN new = DOMAIN now \ D /\ \A u \in DOMAIN new : new[u] = now[u]
  BY <1>1 DEF Delete, Restrict
<1>3. \A u : u \in D <=> /\ u \in DOMAIN now
                        /\ \A C \in SUBSET DOMAIN now :
                             S \subseteq C /\ ChildrenOf(now, C) \subseteq C => u \in C
  BY <1>1 DEF Cascade
<1>4. S \subseteq D /\ D \subseteq DOMAIN now
  BY <1>3
<1>5. ASSUME NEW c \in DOMAIN now, now[c].parent \in D PROVE c \in D
  <2>1. ASSUME NEW C \in SUBSET DOMAIN now, S \subseteq C, ChildrenOf(now, C) \subseteq C
        PROVE  c \in C
    <3>1. now[c].parent \in C
      BY <1>3, <1>5, <2>1
    <3>2. c \in ChildrenOf(now, C)
      BY <3>1 DEF ChildrenOf
    <3>3. QED  BY <2>1, <3>2
  <2>2. QED  BY <1>3, <2>1
<1>6. ASSUME NEW X \in SUBSET (DOMAIN now \ S),
             \A u \in X : u \in DOMAIN new \/ now[u].parent \in X \cup {None}
      PROVE  X \subseteq DOMAIN new
  <2>1. PICK C : C = D \ X
    OBVIOUS
  <2>2. C \in SUBSET DOMAIN now /\ S \subseteq C
    BY <1>4, <2>1
  <2>3. ASSUME NEW c \in ChildrenOf(now, C) PROVE c \in C
    <3>1. c \in DOMAIN now /\ now[c].parent \in D /\ now[c].parent \notin X
      BY <2>1, <2>3 DEF ChildrenOf
    <3>2. c \in D
      BY <1>5, <3>1
    <3>3. now[c].parent # None
      BY <1>4, <3>1
    <3>4. c \notin X
      BY <1>2, <1>6, <3>1, <3>2, <3>3
    <3>5. QED  BY <2>1, <3>2, <3>4
  <2>4. D \subseteq C
    BY <1>3, <2>2, <2>3
  <2>5. QED  BY <1>2, <2>1, <2>4
<1>7. KeepsClosed(S, now, new)
  BY <1>6 DEF KeepsClosed
<1>8. QED  BY <1>2, <1>4, <1>7 DEF Leaves

\* Tags that are roots stay, and those that have their parents among them.
KeepsOthers(gone, now, new) ==
    /\ DOMAIN new \subseteq DOMAIN now
    /\ \A u \in DOMAIN now \ gone : IsRoot(now, u) => IsRoot(new, u)
    /\ KeepsClosed(gone, now, new)

\* A deletion finds its tag, or a cascade has taken it already.
LEMMA DeletionInDeletions ==
    ASSUME NEW table, IsTable(table), NEW gone, gone \subseteq DOMAIN table,
           NEW now, NEW new, NEW a,
           IsLess(table, gone, now), IsDone(now, a, new),
           NEW t \in gone, a = DeletionOf(table, t)
    PROVE  IsLess(table, gone, new) /\ KeepsOthers(gone, now, new) /\ t \notin DOMAIN new
<1>1. a.name = "delete" /\ a.id = table[t].externalId /\ a.value = table[t].value
  BY DEF DeletionOf, Action
<1>2. PICK S : S = GetTag(now, a)
  OBVIOUS
<1>3. \A u : u \in S <=> u = t /\ t \in DOMAIN now
  BY <1>1, <1>2, FoundTag DEF IsLess
<1>4. new = Delete(now, S)
  <2>1. PICK pk \in Nat : new \in Executed(now, pk, a)
    BY DEF IsDone
  <2>2. QED  BY <1>1, <1>2, <2>1 DEF Executed
<1>5. S \subseteq DOMAIN now /\ None \notin DOMAIN now
  BY <1>3, NullAssumption DEF IsDone
<1>6. Leaves(S, now, new)
  BY <1>4, <1>5, WhatDeletionLeaves
<1>7. /\ \A u \in DOMAIN new : u \in DOMAIN now /\ new[u] = now[u]
      /\ \A u \in S : u \notin DOMAIN new
      /\ KeepsClosed(S, now, new)
  BY <1>6 DEF Leaves
<1>8. t \notin DOMAIN new
  BY <1>3, <1>7
<1>9. IsLess(table, gone, new)
  BY <1>7 DEF IsLess, SameTags
<1>10. KeepsClosed(gone, now, new)
  BY <1>3, <1>7 DEF KeepsClosed
<1>11. ASSUME NEW u \in DOMAIN now \ gone, IsRoot(now, u) PROVE IsRoot(new, u)
  <2>1. {u} \in SUBSET (DOMAIN now \ gone) /\ \A x \in {u} : now[x].parent \in {u} \cup {None}
    BY <1>11 DEF IsRoot
  <2>2. {u} \subseteq DOMAIN new
    BY <1>10, <2>1 DEF KeepsClosed
  <2>3. QED  BY <1>7, <1>11, <2>2 DEF IsRoot
<1>12. QED  BY <1>7, <1>8, <1>9, <1>10, <1>11 DEF KeepsOthers

\* Any of them.
LEMMA StepOfDeletions ==
    ASSUME NEW table, IsTable(table), NEW gone, gone \subseteq DOMAIN table,
           NEW now, NEW new, NEW a,
           IsLess(table, gone, now), IsDone(now, a, new), DeletesOrMoves(table, gone, a)
    PROVE  IsLess(table, gone, new) /\ KeepsOthers(gone, now, new)
<1>1. CASE \E t \in gone : a = DeletionOf(table, t)
  <2>1. PICK t \in gone : a = DeletionOf(table, t)
    BY <1>1
  <2>2. QED  BY <2>1, DeletionInDeletions
<1>2. CASE \E t \in Freed(table, gone) : a = MoveOf(table, t)
  <2>1. PICK t \in Freed(table, gone) : a = MoveOf(table, t)
    BY <1>2
  <2>2. /\ IsLess(table, gone, new) /\ DOMAIN new = DOMAIN now
        /\ \A u \in DOMAIN now : IsRoot(now, u) => IsRoot(new, u)
    BY <2>1, MoveInDeletions
  <2>3. QED  BY <2>2 DEF KeepsOthers, KeepsClosed
<1>3. QED  BY <1>1, <1>2 DEF DeletesOrMoves

\* After its deletions an execution has all the tags but those that go.
LEMMA DeletionsLeaveOthers ==
    ASSUME NEW table, IsTable(table), NEW gone, gone \subseteq DOMAIN table,
           NEW as, NEW d \in Nat, DeletesGone(as, d, table, gone),
           NEW T, AreTables(T, d, table, as), NEW left, IsAfter(T, d, left)
    PROVE  IsWithout(table, gone, left)
<1>1. ASSUME NEW k \in 0 .. d - 1
      PROVE  IsDone(T[k], as[k + 1], T[k + 1]) /\ DeletesOrMoves(table, gone, as[k + 1])
  <2>1. k + 1 \in 1 .. d
    OBVIOUS
  <2>2. QED  BY <2>1 DEF AreTables, DeletesGone, DeletesOrMoves
<1>2. \A k \in 0 .. d : IsLess(table, gone, T[k])
  <2> DEFINE S == {k \in 0 .. d : IsLess(table, gone, T[k])}
  <2>1. 0 \in S
    <3>1. T[0] = table /\ 0 \in 0 .. d
      BY DEF AreTables
    <3>2. QED  BY <3>1 DEF IsLess, SameTags
  <2>2. ASSUME NEW k \in 0 .. d - 1, k \in S PROVE k + 1 \in S
    <3>1. IsLess(table, gone, T[k])
      BY <2>2
    <3>2. IsLess(table, gone, T[k + 1])
      <4>1. PICK now, new, a : now = T[k] /\ new = T[k + 1] /\ a = as[k + 1]
        OBVIOUS
      <4>2. IsLess(table, gone, now) /\ IsDone(now, a, new) /\ DeletesOrMoves(table, gone, a)
        BY <1>1, <3>1, <4>1
      <4>3. IsLess(table, gone, new)
        BY <4>2, StepOfDeletions
      <4>4. QED  BY <4>1, <4>3
    <3>3. k + 1 \in 0 .. d
      OBVIOUS
    <3>4. QED  BY <3>2, <3>3
  <2> HIDE DEF S
  <2>3. \A k \in 0 .. d : k \in S
    BY <2>1, <2>2, UpTo
  <2>4. QED  BY <2>3 DEF S
<1>3. ASSUME NEW k \in 0 .. d - 1 PROVE KeepsOthers(gone, T[k], T[k + 1])
  <2>1. PICK now, new, a : now = T[k] /\ new = T[k + 1] /\ a = as[k + 1]
    OBVIOUS
  <2>2. k \in 0 .. d
    OBVIOUS
  <2>3. IsLess(table, gone, now) /\ IsDone(now, a, new) /\ DeletesOrMoves(table, gone, a)
    BY <1>1, <1>2, <2>1, <2>2
  <2>4. KeepsOthers(gone, now, new)
    BY <2>3, StepOfDeletions
  <2>5. QED  BY <2>1, <2>4
<1>4. ASSUME NEW t, NEW k \in 0 .. d, t \notin DOMAIN T[k]
      PROVE  \A j \in k .. d : t \notin DOMAIN T[j]
  <2> DEFINE S == {j \in k .. d : t \notin DOMAIN T[j]}
  <2>1. k \in S
    BY <1>4
  <2>2. ASSUME NEW j \in k .. d - 1, j \in S PROVE j + 1 \in S
    <3>1. j \in 0 .. d - 1 /\ j + 1 \in k .. d
      OBVIOUS
    <3>2. QED  BY <1>3, <2>2, <3>1 DEF KeepsOthers
  <2> HIDE DEF S
  <2>3. \A j \in k .. d : j \in S
    BY <2>1, <2>2, UpTo
  <2>4. QED  BY <2>3 DEF S
<1>5. ASSUME NEW t \in gone PROVE t \notin DOMAIN T[d]
  <2>1. PICK r \in 1 .. d : as[r] = DeletionOf(table, t)
    BY DEF DeletesGone
  <2>2. PICK k \in 0 .. d - 1 : r = k + 1
    <3>1. r - 1 \in 0 .. d - 1 /\ r = (r - 1) + 1
      OBVIOUS
    <3>2. QED  BY <3>1
  <2>3. PICK now, new, a : now = T[k] /\ new = T[k + 1] /\ a = as[k + 1]
    OBVIOUS
  <2>4. k \in 0 .. d
    OBVIOUS
  <2>5. IsLess(table, gone, now) /\ IsDone(now, a, new) /\ a = DeletionOf(table, t)
    BY <1>1, <1>2, <2>1, <2>2, <2>3, <2>4
  <2>6. t \notin DOMAIN new
    BY <2>5, DeletionInDeletions
  <2>7. k + 1 \in 0 .. d /\ d \in k + 1 .. d
    OBVIOUS
  <2>8. QED  BY <1>4, <2>3, <2>6, <2>7
<1>6. ASSUME NEW t \in Freed(table, gone), NEW j \in 0 .. d PROVE t \in DOMAIN T[j]
  <2>1. PICK r \in 1 .. d : as[r] = MoveOf(table, t)
    BY DEF DeletesGone
  <2>2. PICK k \in 0 .. d - 1 : r = k + 1
    <3>1. r - 1 \in 0 .. d - 1 /\ r = (r - 1) + 1
      OBVIOUS
    <3>2. QED  BY <3>1
  <2>3. IsRoot(T[r], t)
    <3>1. PICK now, new, a : now = T[k] /\ new = T[k + 1] /\ a = as[k + 1]
      OBVIOUS
    <3>2. k \in 0 .. d
      OBVIOUS
    <3>3. IsLess(table, gone, now) /\ IsDone(now, a, new) /\ a = MoveOf(table, t)
      BY <1>1, <1>2, <2>1, <2>2, <3>1, <3>2
    <3>4. IsRoot(new, t)
      BY <3>3, MoveInDeletions
    <3>5. QED  BY <2>2, <3>1, <3>4
  <2>4. \A i \in r .. d : IsRoot(T[i], t)
    <3> DEFINE S == {i \in r .. d : IsRoot(T[i], t)}
    <3>1. r \in S
      BY <2>3
    <3>2. ASSUME NEW i \in r .. d - 1, i \in S PROVE i + 1 \in S
      <4>1. i \in 0 .. d - 1 /\ i + 1 \in r .. d
        OBVIOUS
      <4>2. IsRoot(T[i], t) /\ t \in DOMAIN T[i] \ gone
        BY <3>2 DEF IsRoot, Freed
      <4>3. QED  BY <1>3, <4>1, <4>2 DEF KeepsOthers
    <3> HIDE DEF S
    <3>3. r \in Nat
      OBVIOUS
    <3>4. \A i \in r .. d : i \in S
      BY <3>1, <3>2, <3>3, UpTo
    <3>5. QED  BY <3>4 DEF S
  <2>5. CASE j \in r .. d
    BY <2>4, <2>5 DEF IsRoot
  <2>6. CASE j \notin r .. d
    <3>1. r \in j .. d
      BY <2>6
    <3>2. t \in DOMAIN T[r]
      BY <2>3 DEF IsRoot
    <3>3. QED  BY <1>4, <3>1, <3>2
  <2>7. QED  BY <2>5, <2>6
<1>7. \A k \in 0 .. d : DOMAIN table \ gone \subseteq DOMAIN T[k]
  <2> DEFINE S == {k \in 0 .. d : DOMAIN table \ gone \subseteq DOMAIN T[k]}
  <2>1. 0 \in S
    <3>1. T[0] = table /\ 0 \in 0 .. d
      BY DEF AreTables
    <3>2. QED  BY <3>1
  <2>2. ASSUME NEW k \in 0 .. d - 1, k \in S PROVE k + 1 \in S
    <3>1. k + 1 \in 0 .. d /\ k \in 0 .. d
      OBVIOUS
    <3>2. PICK X : X = DOMAIN table \ gone
      OBVIOUS
    <3>3. X \in SUBSET (DOMAIN T[k] \ gone)
      BY <2>2, <3>2
    <3>4. ASSUME NEW u \in X, u \notin DOMAIN T[k + 1] PROVE T[k][u].parent \in X \cup {None}
      <4>1. u \in DOMAIN T[k] /\ u \in DOMAIN table \ gone
        BY <3>2, <3>3
      <4>2. u \notin Freed(table, gone)
        BY <1>6, <3>1, <3>4
      <4>3. table[u].parent \notin gone
        BY <4>1, <4>2 DEF Freed
      <4>4. T[k][u].parent \in {None, table[u].parent}
        BY <1>2, <3>1, <4>1 DEF IsLess
      <4>5. table[u].parent \in DOMAIN table \cup {None}
        BY <4>1 DEF IsTable
      <4>6. QED  BY <3>2, <4>3, <4>4, <4>5
    <3>5. X \subseteq DOMAIN T[k + 1]
      BY <1>3, <3>3, <3>4 DEF KeepsOthers, KeepsClosed
    <3>6. QED  BY <3>1, <3>2, <3>5
  <2> HIDE DEF S
  <2>3. \A k \in 0 .. d : k \in S
    BY <2>1, <2>2, UpTo
  <2>4. QED  BY <2>3 DEF S
<1>8. d \in 0 .. d
  OBVIOUS
<1>9. left = T[d]
  BY DEF IsAfter
<1>10. IsLess(table, gone, left) /\ DOMAIN left = DOMAIN table \ gone
  BY <1>2, <1>5, <1>7, <1>8, <1>9 DEF IsLess, SameTags
<1>11. QED  BY <1>10 DEF IsWithout

=============================================================================
