-------------------------- MODULE ComponentsProofs --------------------------
(***************************************************************************)
(* Theorems about Components, for any number of sessions, keys, media      *)
(* types, data and calls.                                                  *)
(***************************************************************************)
EXTENDS Components, TLAPS

\* The number n is taken by the transaction of s, whose version row is inserted.
Holds(s, n) == Running(s) /\ tx[s].next # "version" /\ tx[s].num = n

\* tx has transactions of the right shape only.
IsTransaction(r) ==
    r = [num |-> r.num, made |-> r.made, items |-> r.items,
         item |-> r.item, rows |-> r.rows, next |-> r.next]

Shape ==
    /\ tx = [s \in Sessions |-> tx[s]]
    /\ \A s \in Sessions : Running(s) => IsTransaction(tx[s])

\* What a transaction is to commit is an edit of a committed version.
MadeFrom(num, made, base, call) ==
    /\ num = VersionNum(base, call)
    /\ made = NextContents(ContentsOfVersion(base), call)

MakesEdits ==
    \A s \in Sessions : Running(s) /\ tx[s].num # None =>
        \E call \in Calls : \E base \in Versions \cup {0} :
            MadeFrom(tx[s].num, tx[s].made, base, call)

\* Inserted version rows are new, and each of one transaction.
NumbersAreFree ==
    \A s \in Sessions : Running(s) /\ tx[s].num # None /\ Holds(s, tx[s].num) =>
        /\ tx[s].num \notin Versions
        /\ \A t \in Sessions \ {s} : ~ Holds(t, tx[s].num)

EditsInv == Shape /\ MakesEdits /\ NumbersAreFree

\* The transactions of the other sessions stay as they are.
LEMMA OthersStay ==
    ASSUME Shape, NEW s \in Sessions, Step(s)
    PROVE  /\ Shape'
           /\ \A t \in Sessions \ {s} : tx'[t] = tx[t]
<1>1. CASE \E call \in Calls, last \in Versions \cup {0} : StartEdit(s, call, last)
  BY <1>1 DEF StartEdit, Shape, IsTransaction, Running, Transaction
<1>2. CASE \E content \in Contents, createFile \in BOOLEAN : StartText(s, content, createFile)
  BY <1>2 DEF StartText, Shape, IsTransaction, Running, Transaction
<1>3. CASE InsertVersion(s)
  BY <1>3 DEF InsertVersion, Shape, IsTransaction, Running, At
<1>4. CASE Running(s) /\ \E item \in tx[s].items : GetContent(s, item)
  BY <1>4 DEF GetContent, Shape, IsTransaction, Running, At
<1>5. CASE InsertContent(s)
  BY <1>5 DEF InsertContent, Shape, IsTransaction, Running, At
<1>6. CASE WriteFile(s)
  BY <1>6 DEF WriteFile, Shape, IsTransaction, Running, At
<1>7. CASE Commit(s)
  BY <1>7 DEF Commit, Shape, IsTransaction, Running, At
<1>8. CASE Fail(s)
  BY <1>8 DEF Fail, Rollback, Shape, IsTransaction, Running, At
<1>9. QED
  BY <1>1, <1>2, <1>3, <1>4, <1>5, <1>6, <1>7, <1>8 DEF Step

\* A commit is an edit, or leaves the versions alone.
LEMMA CommitIsEdit ==
    ASSUME EditsInv, NEW s \in Sessions, Commit(s)
    PROVE  /\ EditsNext \/ UNCHANGED versions
           /\ \A n \in Versions \cup {0} : ContentsOfVersion(n)' = ContentsOfVersion(n)
           /\ Versions' \subseteq Versions \cup {tx[s].num}
           /\ Versions \subseteq Versions'
<1>1. CASE tx[s].num = None
  BY <1>1 DEF Commit, ContentsOfVersion, Versions
<1>2. CASE tx[s].num # None
  <2>1. versions' = [n \in Versions \cup {tx[s].num} |->
                        IF n = tx[s].num THEN tx[s].made ELSE versions[n]]
    BY <1>2 DEF Commit
  <2>2. tx[s].num \notin Versions
    BY <1>2 DEF EditsInv, NumbersAreFree, Holds, Commit, At
  <2>3. PICK call \in Calls, base \in Versions \cup {0} :
            MadeFrom(tx[s].num, tx[s].made, base, call)
    BY <1>2 DEF EditsInv, MakesEdits, Commit, At
  <2>4. Edit(base, call)
    BY <2>1, <2>2, <2>3 DEF Edit, MadeFrom
  <2>5. Versions' = Versions \cup {tx[s].num}
    BY <2>1 DEF Versions
  <2>6. \A n \in Versions \cup {0} : ContentsOfVersion(n)' = ContentsOfVersion(n)
    BY <2>1, <2>2 DEF ContentsOfVersion, Versions
  <2>7. QED
    BY <2>4, <2>5, <2>6 DEF EditsNext
<1>3. QED
  BY <1>1, <1>2

\* Every other step leaves the versions alone.
LEMMA OnlyCommitsMakeVersions ==
    ASSUME NEW s \in Sessions, Step(s), ~ Commit(s)
    PROVE  UNCHANGED versions
  BY DEF Step, StartEdit, StartText, InsertVersion, GetContent, InsertContent, WriteFile,
         Fail, Rollback

\* A step either leaves what its transaction is to commit alone, ends it, or starts it.
LEMMA MadeStays ==
    ASSUME Shape, NEW s \in Sessions, Step(s), Running(s)'
    PROVE  \/ Running(s) /\ tx'[s].num = tx[s].num /\ tx'[s].made = tx[s].made
           \/ \E call \in Calls, last \in Versions \cup {0} : StartEdit(s, call, last)
           \/ tx'[s].num = None
<1>1. CASE \E content \in Contents, createFile \in BOOLEAN : StartText(s, content, createFile)
  BY <1>1 DEF StartText, Shape, Running, Transaction
<1>2. CASE InsertVersion(s)
  BY <1>2 DEF InsertVersion, Shape, IsTransaction, Running, At
<1>3. CASE Running(s) /\ \E item \in tx[s].items : GetContent(s, item)
  BY <1>3 DEF GetContent, Shape, IsTransaction, Running, At
<1>4. CASE InsertContent(s)
  BY <1>4 DEF InsertContent, Shape, IsTransaction, Running, At
<1>5. CASE WriteFile(s)
  BY <1>5 DEF WriteFile, Shape, IsTransaction, Running, At
<1>6. CASE Commit(s)
  BY <1>6 DEF Commit, Shape, Running
<1>7. CASE Fail(s)
  BY <1>7 DEF Fail, Rollback, Shape, Running
<1>8. QED
  BY <1>1, <1>2, <1>3, <1>4, <1>5, <1>6, <1>7 DEF Step

\* When s takes a number, it is free and no other session has it.
LEMMA HoldersOfNumbers ==
    ASSUME Shape, NEW s \in Sessions, Step(s), NEW n, n # None, Holds(s, n)'
    PROVE  \/ Holds(s, n) /\ ~ Commit(s)
           \/ n \notin Versions /\ \A t \in Sessions \ {s} : ~ Holds(t, n)
<1>1. CASE \E call \in Calls, last \in Versions \cup {0} : StartEdit(s, call, last)
  BY <1>1 DEF StartEdit, Shape, Running, Transaction, Holds
<1>2. CASE \E content \in Contents, createFile \in BOOLEAN : StartText(s, content, createFile)
  BY <1>2 DEF StartText, Shape, Running, Transaction, Holds
<1>3. CASE InsertVersion(s)
  BY <1>3 DEF InsertVersion, Shape, IsTransaction, Running, At, Holds, VersionIsLocked
<1>4. CASE Running(s) /\ \E item \in tx[s].items : GetContent(s, item)
  BY <1>4 DEF GetContent, Shape, IsTransaction, Running, At, Holds, Commit
<1>5. CASE InsertContent(s)
  BY <1>5 DEF InsertContent, Shape, IsTransaction, Running, At, Holds, Commit
<1>6. CASE WriteFile(s)
  BY <1>6 DEF WriteFile, Shape, IsTransaction, Running, At, Holds, Commit
<1>7. CASE Commit(s)
  BY <1>7 DEF Commit, Shape, Running, Holds
<1>8. CASE Fail(s)
  BY <1>8 DEF Fail, Rollback, Shape, Running, Holds
<1>9. QED
  BY <1>1, <1>2, <1>3, <1>4, <1>5, <1>6, <1>7, <1>8 DEF Step

LEMMA StepKeepsEditsInv ==
    ASSUME EditsInv, NEW s \in Sessions, Step(s)
    PROVE  EditsInv' /\ (EditsNext \/ UNCHANGED versions)
<1>1. /\ Shape /\ Shape'
      /\ \A t \in Sessions \ {s} : tx'[t] = tx[t]
  BY OthersStay DEF EditsInv
<1>2. /\ EditsNext \/ UNCHANGED versions
      /\ \A n \in Versions \cup {0} : ContentsOfVersion(n)' = ContentsOfVersion(n)
      /\ Versions \subseteq Versions'
      /\ ~ Commit(s) => Versions' = Versions
      /\ Commit(s) => Versions' \subseteq Versions \cup {tx[s].num}
  <2>1. CASE Commit(s)
    BY <2>1, CommitIsEdit
  <2>2. CASE ~ Commit(s)
    <3>1. UNCHANGED versions
      BY <2>2, OnlyCommitsMakeVersions
    <3>2. QED
      BY <2>2, <3>1 DEF ContentsOfVersion, Versions
  <2>3. QED
    BY <2>1, <2>2
<1>3. MakesEdits'
  <2>. SUFFICES ASSUME NEW t \in Sessions, Running(t)', tx'[t].num # None
                PROVE  \E call \in Calls : \E base \in Versions' \cup {0} :
                          MadeFrom(tx[t].num, tx[t].made, base, call)'
    BY DEF MakesEdits
  <2>1. CASE Running(t) /\ tx'[t].num = tx[t].num /\ tx'[t].made = tx[t].made
    <3>1. PICK call \in Calls, base \in Versions \cup {0} :
              MadeFrom(tx[t].num, tx[t].made, base, call)
      BY <2>1 DEF EditsInv, MakesEdits
    <3>2. ContentsOfVersion(base)' = ContentsOfVersion(base)
      BY <1>2
    <3>3. MadeFrom(tx[t].num, tx[t].made, base, call)'
      BY <2>1, <3>1, <3>2 DEF MadeFrom
    <3>4. QED
      BY <1>2, <3>3
  <2>2. CASE t = s /\ \E call \in Calls, last \in Versions \cup {0} : StartEdit(s, call, last)
    <3>1. PICK call \in Calls, last \in Versions \cup {0} : StartEdit(s, call, last)
      BY <2>2
    <3>2. /\ tx'[s].num = VersionNum(last, call)
          /\ tx'[s].made = NextContents(ContentsOfVersion(last), call)
      BY <1>1, <3>1 DEF StartEdit, Transaction, Shape
    <3>3. ContentsOfVersion(last)' = ContentsOfVersion(last)
      BY <1>2
    <3>4. QED
      BY <1>2, <2>2, <3>2, <3>3 DEF MadeFrom
  <2>3. CASE t = s /\ tx'[s].num = None
    BY <2>3
  <2>4. QED
    BY <1>1, <2>1, <2>2, <2>3, MadeStays DEF Running
<1>4. NumbersAreFree'
  <2>. SUFFICES ASSUME NEW t \in Sessions, NEW n, n # None, Holds(t, n)'
                PROVE  n \notin Versions' /\ \A u \in Sessions \ {t} : ~ Holds(u, n)'
    BY DEF NumbersAreFree, Holds
  <2>1. \A u \in Sessions \ {s} : Holds(u, n)' <=> Holds(u, n)
    BY <1>1 DEF Holds, Running
  <2>2. CASE Holds(s, n)'
    <3>1. CASE Holds(s, n) /\ ~ Commit(s)
      BY <1>2, <2>1, <2>2, <3>1 DEF EditsInv, NumbersAreFree, Holds
    <3>2. CASE n \notin Versions /\ \A u \in Sessions \ {s} : ~ Holds(u, n)
      <4>1. ~ Commit(s)
        BY <1>1, <2>2 DEF Commit, Holds, Running, Shape
      <4>2. QED
        BY <1>2, <2>1, <2>2, <3>2, <4>1
    <3>3. QED
      BY <1>1, <2>2, <3>1, <3>2, HoldersOfNumbers
  <2>3. CASE t # s /\ ~ Holds(s, n)'
    <3>1. n \notin Versions /\ \A u \in Sessions \ {t} : ~ Holds(u, n)
      BY <2>1, <2>3 DEF EditsInv, NumbersAreFree, Holds
    <3>2. Commit(s) => tx[s].num # n
      BY <2>3, <3>1 DEF Commit, At, Holds
    <3>3. QED
      BY <1>2, <2>1, <2>3, <3>1, <3>2
  <2>4. QED
    BY <2>2, <2>3
<1>5. QED
  BY <1>1, <1>2, <1>3, <1>4 DEF EditsInv

\* Whatever the sessions do, and whichever of their transactions fail, the committed
\* versions come to be as if every edit were one step.
THEOREM EditsAreAtomic == ComponentsSpec => ImplementsEdits
<1>1. ComponentsInit => EditsInit /\ EditsInv
  BY DEF ComponentsInit, EditsInv, Shape, MakesEdits, NumbersAreFree, Holds, Running
<1>2. EditsInv /\ [ComponentsNext]_componentsVars => EditsInv' /\ [EditsNext]_versions
  <2>. SUFFICES ASSUME EditsInv, [ComponentsNext]_componentsVars
                PROVE  EditsInv' /\ [EditsNext]_versions
    OBVIOUS
  <2>1. CASE ComponentsNext
    <3>1. PICK s \in Sessions : Step(s)
      BY <2>1 DEF ComponentsNext
    <3>2. QED
      BY <3>1, StepKeepsEditsInv
  <2>2. CASE UNCHANGED componentsVars
    BY <2>2 DEF componentsVars, EditsInv, Shape, MakesEdits, NumbersAreFree, Holds, Running,
                Versions, MadeFrom, ContentsOfVersion
  <2>3. QED
    BY <2>1, <2>2
<1>3. QED
  BY <1>1, <1>2, PTL DEF ComponentsSpec, ImplementsEdits, EditsSpec

-----------------------------------------------------------------------------
\* Files are at paths for Data, and what a transaction is to store too.
ItemsAreData(s) ==
    /\ \A item \in tx[s].items : item.content[2] \in Data
    /\ tx[s].next \in {"row", "file"} => tx[s].item.content[2] \in Data

FilesAreData == \A c \in Stored : c[2] \in Data

\* The rows of a transaction have their files, but for the one that is next.
RowsAreStored(s) ==
    \A row \in tx[s].rows :
        /\ row.content[2] \in Data
        /\ row.hasFile => \/ files[row.content[2]] \in LeftByWrite
                          \/ tx[s].next = "file" /\ row = tx[s].item

FilesInv ==
    /\ Shape
    /\ files = [d \in Data |-> files[d]]
    /\ FilesAreThere
    /\ FilesAreData
    /\ \A s \in Sessions : Running(s) => ItemsAreData(s) /\ RowsAreStored(s)

\* What an edit is to store are data.
LEMMA EditsStoreData ==
    ASSUME NEW call \in Calls, NEW item \in ItemsOf(call)
    PROVE  item.content[2] \in Data
<1>1. PICK k \in call.bytes \cap NewKeys(call) : item = Item(ContentGiven(call, k), FALSE, TRUE)
  BY DEF ItemsOf
<1>2. call.replace[k] \in Data
  BY <1>1, ComponentsAssumption DEF IsCall, NewKeys
<1>3. QED
  BY <1>1, <1>2 DEF Item, ContentGiven

\* What a write has left at a path is not taken away.
LEMMA FilesStay ==
    ASSUME LeftByWrite' = LeftByWrite, FilesInv, NEW s \in Sessions, Step(s)
    PROVE  /\ files' = [d \in Data |-> files'[d]]
           /\ \A d : files[d] \in LeftByWrite /\ d \in Data => files'[d] \in LeftByWrite
<1>1. CASE WriteFile(s)
  BY <1>1 DEF WriteFile, FilesInv, LeftByWrite
<1>2. CASE Fail(s)
  BY <1>2 DEF Fail, FilesAfterFailure, FilesInv, LeftByWrite
<1>3. CASE ~ WriteFile(s) /\ ~ Fail(s)
  <2>1. UNCHANGED files
    BY <1>3 DEF Step, StartEdit, StartText, InsertVersion, GetContent, InsertContent, Commit
  <2>2. QED
    BY <2>1 DEF FilesInv
<1>4. QED
  BY <1>1, <1>2, <1>3

\* The transaction of the session that takes a step.
LEMMA OwnRows ==
    ASSUME LeftByWrite' = LeftByWrite, FilesInv, NEW s \in Sessions, Step(s), Running(s)'
    PROVE  (ItemsAreData(s) /\ RowsAreStored(s))'
<1>. USE DEF ItemsAreData, RowsAreStored
<1>1. CASE \E call \in Calls, last \in Versions \cup {0} : StartEdit(s, call, last)
  BY <1>1, EditsStoreData DEF StartEdit, FilesInv, Shape, Transaction
<1>2. CASE \E content \in Contents, createFile \in BOOLEAN : StartText(s, content, createFile)
  BY <1>2 DEF StartText, FilesInv, Shape, Transaction, Item, Contents
<1>3. CASE InsertVersion(s)
  BY <1>3 DEF InsertVersion, FilesInv, Shape, IsTransaction, Running, At
<1>4. CASE Running(s) /\ \E item \in tx[s].items : GetContent(s, item)
  BY <1>4 DEF GetContent, FilesInv, Shape, IsTransaction, Running, At
<1>5. CASE InsertContent(s)
  <2>0. /\ tx = [t \in Sessions |-> tx[t]]
        /\ IsTransaction(tx[s])
    BY <1>5 DEF InsertContent, At, FilesInv, Shape
  <2>. DEFINE r == tx[s]
              next == IF r.item.hasFile THEN "file" ELSE "contents"
  <2>a. tx'[s] = [r EXCEPT !.rows = @ \cup {r.item}, !.next = next]
    BY <1>5, <2>0 DEF InsertContent
  <2>1. /\ tx'[s].rows = r.rows \cup {r.item}
        /\ tx'[s].item = r.item
        /\ tx'[s].items = r.items
        /\ tx'[s].next = next
    <3>. HIDE DEF r, next
    <3>1. IsTransaction(r)
      BY <2>0 DEF r
    <3>2. QED
      BY <2>a, <3>1 DEF IsTransaction
  <2>2. /\ Running(s) /\ tx[s].next = "row"
        /\ files' = files
    BY <1>5 DEF InsertContent, At
  <2>3. \A row \in tx[s].rows : row.content[2] \in Data
                              /\ (row.hasFile => files[row.content[2]] \in LeftByWrite)
    BY <2>2 DEF FilesInv
  <2>b. r.item.content[2] \in Data
    BY <2>2 DEF FilesInv
  <2>4. ItemsAreData(s)'
    BY <2>1, <2>2 DEF FilesInv
  <2>5. RowsAreStored(s)'
    BY <2>1, <2>2, <2>3, <2>b
  <2>6. QED
    BY <2>4, <2>5
<1>6. CASE WriteFile(s)
  <2>1. \A d \in Data : files[d] \in LeftByWrite => files'[d] \in LeftByWrite
    BY FilesStay
  <2>2. tx[s].item.content[2] \in Data /\ tx[s].next = "file" /\ Running(s)
    BY <1>6 DEF WriteFile, FilesInv, At
  <2>3. files'[tx[s].item.content[2]] \in LeftByWrite
    BY <1>6, <2>2 DEF WriteFile, FilesInv, LeftByWrite
  <2>4. /\ tx'[s].rows = tx[s].rows /\ tx'[s].items = tx[s].items
        /\ tx'[s].next = "contents"
    BY <1>6 DEF WriteFile, FilesInv, Shape, IsTransaction, Running, At
  <2>5. ItemsAreData(s)'
    BY <2>2, <2>4 DEF FilesInv
  <2>6. RowsAreStored(s)'
    BY <2>1, <2>2, <2>3, <2>4 DEF FilesInv
  <2>7. QED
    BY <2>5, <2>6
<1>7. CASE Commit(s)
  BY <1>7 DEF Commit, FilesInv, Shape, Running
<1>8. CASE Fail(s)
  BY <1>8 DEF Fail, Rollback, FilesInv, Shape, Running
<1>9. QED
  BY <1>1, <1>2, <1>3, <1>4, <1>5, <1>6, <1>7, <1>8 DEF Step

\* A commit adds rows that have their files.
LEMMA CommittedFilesAreThere ==
    ASSUME LeftByWrite' = LeftByWrite, FilesInv, NEW s \in Sessions, Step(s)
    PROVE  (FilesAreThere /\ FilesAreData)'
<1>1. CASE Commit(s)
  <2>. SUFFICES ASSUME NEW c \in Stored'
                PROVE  c[2] \in Data /\ (contents'[c].hasFile => files'[c[2]] \in LeftByWrite)
    BY DEF FilesAreThere, FilesAreData
  <2>1. /\ files' = files
        /\ contents' = [x \in Stored \cup RowKeys(s) |->
             IF x \in RowKeys(s)
             THEN LET row == CHOOSE r \in tx[s].rows : r.content = x
                  IN  [text |-> row.text, hasFile |-> row.hasFile]
             ELSE contents[x]]
    BY <1>1 DEF Commit
  <2>2. CASE c \in RowKeys(s)
    <3>. DEFINE row == CHOOSE r \in tx[s].rows : r.content = c
    <3>1. row \in tx[s].rows /\ row.content = c
      BY <2>2 DEF RowKeys
    <3>2. contents'[c].hasFile = row.hasFile
      BY <2>1, <2>2
    <3>3. row.content[2] \in Data /\ (row.hasFile => files[row.content[2]] \in LeftByWrite)
      BY <1>1, <3>1, <3>2 DEF Commit, At, FilesInv, RowsAreStored
    <3>4. QED
      BY <2>1, <3>1, <3>2, <3>3
  <2>3. CASE c \notin RowKeys(s)
    <3>1. c \in Stored /\ contents'[c] = contents[c]
      BY <2>1, <2>3 DEF Stored
    <3>2. QED
      BY <2>1, <3>1 DEF FilesInv, FilesAreThere, FilesAreData
  <2>4. QED
    BY <2>2, <2>3
<1>2. CASE ~ Commit(s)
  <2>1. contents' = contents
    BY <1>2 DEF Step, StartEdit, StartText, InsertVersion, GetContent, InsertContent,
                WriteFile, Fail, Rollback
  <2>2. \A c \in Stored : c[2] \in Data /\ (contents[c].hasFile => files[c[2]] \in LeftByWrite)
    BY DEF FilesInv, FilesAreThere, FilesAreData
  <2>3. QED
    BY <2>1, <2>2, FilesStay DEF FilesAreThere, FilesAreData, Stored
<1>3. QED
  BY <1>1, <1>2

LEMMA StepKeepsFilesInv ==
    ASSUME LeftByWrite' = LeftByWrite, FilesInv, NEW s \in Sessions, Step(s)
    PROVE  FilesInv'
<1>1. Shape' /\ \A t \in Sessions \ {s} : tx'[t] = tx[t]
  BY OthersStay DEF FilesInv
<1>2. \A t \in Sessions \ {s} : Running(t)' => (ItemsAreData(t) /\ RowsAreStored(t))'
  <2>. SUFFICES ASSUME NEW t \in Sessions \ {s}, Running(t)'
                PROVE  (ItemsAreData(t) /\ RowsAreStored(t))'
    OBVIOUS
  <2>1. tx'[t] = tx[t]
    BY <1>1
  <2>2. ItemsAreData(t) /\ RowsAreStored(t)
    BY <2>1 DEF FilesInv, Running
  <2>3. QED
    BY <2>1, <2>2, FilesStay DEF ItemsAreData, RowsAreStored
<1>3. QED
  BY <1>1, <1>2, FilesStay, OwnRows, CommittedFilesAreThere DEF FilesInv

\* Every committed Content that says it has a file has one, whole in an object
\* store, and over a file system unless a write of it broke off: no failed
\* transaction, no other session that stores the same bytes, and no order of
\* their statements takes it away.
THEOREM CommittedContentsHaveFiles == ComponentsSpec => []FilesAreThere
<1>1. ComponentsInit => FilesInv
  <2>. SUFFICES ASSUME ComponentsInit PROVE FilesInv
    OBVIOUS
  <2>1. /\ \A s \in Sessions : ~ Running(s)
        /\ contents = << >>
        /\ files = [d \in Data |-> "missing"]
        /\ tx = [s \in Sessions |-> tx[s]]
    BY DEF ComponentsInit, Running
  <2>2. Stored = {}
    <3>1. DOMAIN << >> = {}
      OBVIOUS
    <3>2. QED
      BY <2>1, <3>1 DEF Stored
  <2>3. QED
    BY <2>1, <2>2 DEF FilesInv, Shape, FilesAreThere, FilesAreData
<1>2. FilesInv /\ [ComponentsNext]_componentsVars => FilesInv'
  <2>. SUFFICES ASSUME FilesInv, [ComponentsNext]_componentsVars
                PROVE  FilesInv'
    OBVIOUS
  <2>1. CASE ComponentsNext
    <3>1. PICK s \in Sessions : Step(s)
      BY <2>1 DEF ComponentsNext
    <3>2. LeftByWrite' = LeftByWrite
      BY <2>1 DEF ComponentsNext, LeftByWrite, FileSystemStorage
    <3>3. QED
      BY <3>1, <3>2, StepKeepsFilesInv
  <2>2. CASE UNCHANGED componentsVars
    <3>1. LeftByWrite' = LeftByWrite
      BY <2>2 DEF componentsVars, LeftByWrite, FileSystemStorage
    <3>2. QED
      BY <2>2, <3>1 DEF componentsVars, FilesInv, Shape, FilesAreThere, FilesAreData, Stored,
                        Running, ItemsAreData, RowsAreStored
  <2>3. QED
    BY <2>1, <2>2
<1>3. FilesInv => FilesAreThere
  BY DEF FilesInv
<1>4. QED
  BY <1>1, <1>2, <1>3, PTL DEF ComponentsSpec

-----------------------------------------------------------------------------
\* Committed versions and contents have their types.
CommittedTypes ==
    /\ Versions \subseteq Nat \ {0}
    /\ Stored \subseteq Contents
    /\ \A c \in Stored :
          /\ contents[c] \in [text : BOOLEAN, hasFile : BOOLEAN]
          /\ contents[c].text \/ contents[c].hasFile
    /\ \A n \in Versions : \A k \in DOMAIN versions[n] : k \in Keys /\ versions[n][k] \in Stored

\* The contents there will be when the transaction of s commits.
ToBeStored(s) ==
    Stored \cup RowKeys(s) \cup {item.content : item \in tx[s].items}
           \cup (IF tx[s].next = "row" THEN {tx[s].item.content} ELSE {})

\* A transaction has what its next statement needs, and stores all that its version
\* refers to by the time it commits.
HasItsItems(s) ==
    /\ tx[s].next \in {"version", "contents", "row", "file"}
    /\ tx[s].num \in (Nat \ {0}) \cup {None}
    /\ tx[s].items \subseteq Items
    /\ tx[s].rows \subseteq Items
    /\ tx[s].next \in {"row", "file"} => tx[s].item \in Items
    /\ \A k \in DOMAIN tx[s].made : k \in Keys /\ tx[s].made[k] \in ToBeStored(s)

\* A transaction's rows are not committed by another one.
RowsAreNew ==
    \A s \in Sessions : Running(s) =>
        /\ RowKeys(s) \cap Stored = {}
        /\ \A t \in Sessions \ {s} : Running(t) => RowKeys(s) \cap RowKeys(t) = {}

StoreInv ==
    /\ EditsInv
    /\ CommittedTypes
    /\ files \in [Data -> {"missing", "partial", "whole"}]
    /\ \A s \in Sessions : Running(s) => HasItsItems(s)
    /\ RowsAreNew

\* What an edit makes of a committed version has keys and contents that are stored
\* already, or that the edit is to store.
LEMMA EditsAreTyped ==
    ASSUME CommittedTypes, NEW call \in Calls, NEW last \in Versions \cup {0},
           \A k \in NewKeys(call) \ call.bytes : call.replace[k] \in Stored
    PROVE  /\ VersionNum(last, call) \in Nat \ {0}
           /\ ItemsOf(call) \subseteq Items
           /\ \A k \in DOMAIN NextContents(ContentsOfVersion(last), call) :
                /\ k \in Keys
                /\ NextContents(ContentsOfVersion(last), call)[k]
                      \in Stored \cup {item.content : item \in ItemsOf(call)}
<1>. DEFINE old == ContentsOfVersion(last)
<1>0. IsCall(call)
  BY ComponentsAssumption
<1>1. VersionNum(last, call) \in Nat \ {0}
  BY <1>0, ComponentsAssumption DEF VersionNum, IsCall, CommittedTypes
<1>2. \A k \in DOMAIN old : k \in Keys /\ old[k] \in Stored
  <2>1. CASE last = 0
    <3>1. old = << >> /\ DOMAIN << >> = {}
      BY <2>1 DEF ContentsOfVersion
    <3>2. QED
      BY <3>1
  <2>2. CASE last # 0
    <3>1. last \in Versions /\ old = versions[last]
      BY <2>2 DEF ContentsOfVersion
    <3>. HIDE DEF old
    <3>2. QED
      BY <3>1 DEF CommittedTypes
  <2>3. QED
    BY <2>1, <2>2
<1>3. NewKeys(call) \subseteq Keys
  BY <1>0 DEF IsCall, NewKeys
<1>4. \A k \in call.bytes \cap NewKeys(call) :
          /\ ContentGiven(call, k) \in Contents
          /\ ContentGiven(call, k) \in {item.content : item \in ItemsOf(call)}
  <2>. SUFFICES ASSUME NEW k \in call.bytes \cap NewKeys(call)
                PROVE  /\ ContentGiven(call, k) \in Contents
                       /\ ContentGiven(call, k) \in {item.content : item \in ItemsOf(call)}
    OBVIOUS
  <2>1. call.replace[k] \in Data /\ GuessType[k] \in MediaTypes
    BY <1>0, <1>3, ComponentsAssumption DEF IsCall, NewKeys
  <2>2. ContentGiven(call, k) \in Contents
    BY <2>1 DEF ContentGiven, Contents
  <2>3. /\ Item(ContentGiven(call, k), FALSE, TRUE) \in ItemsOf(call)
        /\ Item(ContentGiven(call, k), FALSE, TRUE).content = ContentGiven(call, k)
    BY DEF ItemsOf, Item
  <2>4. QED
    BY <2>2, <2>3
<1>5. ItemsOf(call) \subseteq Items
  <2>. SUFFICES ASSUME NEW item \in ItemsOf(call)
                PROVE  item \in Items
    OBVIOUS
  <2>1. PICK k \in call.bytes \cap NewKeys(call) : item = Item(ContentGiven(call, k), FALSE, TRUE)
    BY DEF ItemsOf
  <2>2. QED
    BY <1>4, <2>1 DEF Item, Items
<1>6. \A k \in DOMAIN NextContents(old, call) :
          /\ k \in Keys
          /\ NextContents(old, call)[k] \in Stored \cup {item.content : item \in ItemsOf(call)}
  <2>. HIDE DEF old
  <2>0. SUFFICES ASSUME NEW k \in DOMAIN NextContents(old, call)
                 PROVE  /\ k \in Keys
                        /\ NextContents(old, call)[k]
                              \in Stored \cup {item.content : item \in ItemsOf(call)}
    OBVIOUS
  <2>1. CASE k \in NewKeys(call)
    <3>1. NextContents(old, call)[k] = ContentGiven(call, k)
      BY <2>1 DEF NextContents
    <3>2. CASE k \in call.bytes
      BY <1>3, <1>4, <2>1, <3>1, <3>2
    <3>3. CASE k \notin call.bytes
      BY <1>3, <2>1, <3>1, <3>3 DEF ContentGiven
    <3>4. QED
      BY <3>2, <3>3
  <2>2. CASE k \notin NewKeys(call)
    <3>1. k \in KeptKeys(old, call) /\ NextContents(old, call)[k] = old[k]
      BY <2>2 DEF NextContents
    <3>2. k \in DOMAIN old
      BY <3>1 DEF KeptKeys
    <3>3. QED
      BY <1>2, <3>1, <3>2
  <2>3. QED
    BY <2>1, <2>2
<1>7. QED
  BY <1>1, <1>5, <1>6, Zenon

\* The transaction of the session that takes a step.
LEMMA OwnItems ==
    ASSUME StoreInv, NEW s \in Sessions, Step(s), Running(s)'
    PROVE  HasItsItems(s)' /\ Stored' = Stored
<1>0. Shape /\ CommittedTypes /\ (Running(s) => HasItsItems(s))
  BY DEF StoreInv, EditsInv
<1>1. CASE \E call \in Calls, last \in Versions \cup {0} : StartEdit(s, call, last)
  <2>1. PICK call \in Calls, last \in Versions \cup {0} : StartEdit(s, call, last)
    BY <1>1
  <2>. DEFINE num == VersionNum(last, call)
              made == NextContents(ContentsOfVersion(last), call)
              items == ItemsOf(call)
  <2>2. /\ num \in Nat \ {0}
        /\ items \subseteq Items
        /\ \A k \in DOMAIN made :
              k \in Keys /\ made[k] \in Stored \cup {item.content : item \in items}
    BY <1>0, <2>1, EditsAreTyped DEF StartEdit
  <2>3. /\ tx' = [tx EXCEPT ![s] = Transaction(num, made, items, "version")]
        /\ contents' = contents
    BY <2>1 DEF StartEdit
  <2>. HIDE DEF num, made, items
  <2>4. /\ tx'[s].num = num /\ tx'[s].made = made /\ tx'[s].items = items
        /\ tx'[s].rows = {} /\ tx'[s].next = "version"
    BY <1>0, <2>3 DEF Shape, Transaction
  <2>5. QED
    BY <2>2, <2>3, <2>4 DEF HasItsItems, ToBeStored, Stored
<1>2. CASE \E content \in Contents, createFile \in BOOLEAN : StartText(s, content, createFile)
  <2>1. PICK content \in Contents, createFile \in BOOLEAN : StartText(s, content, createFile)
    BY <1>2
  <2>2. /\ tx'[s].num = None /\ tx'[s].made = << >>
        /\ tx'[s].items = {Item(content, TRUE, createFile)}
        /\ tx'[s].rows = {} /\ tx'[s].next = "contents"
        /\ contents' = contents
    BY <1>0, <2>1 DEF StartText, Shape, Transaction
  <2>3. Item(content, TRUE, createFile) \in Items
    BY DEF Item, Items
  <2>4. DOMAIN << >> = {}
    OBVIOUS
  <2>5. QED
    BY <2>2, <2>3, <2>4 DEF HasItsItems, Stored
<1>3. CASE InsertVersion(s)
  <2>1. /\ tx'[s].num = tx[s].num /\ tx'[s].made = tx[s].made /\ tx'[s].items = tx[s].items
        /\ tx'[s].rows = tx[s].rows /\ tx'[s].next = "contents" /\ tx[s].next = "version"
        /\ Running(s) /\ contents' = contents
    BY <1>0, <1>3 DEF InsertVersion, Shape, IsTransaction
  <2>2. QED
    BY <1>0, <2>1 DEF HasItsItems, ToBeStored, Stored, RowKeys
<1>4. CASE Running(s) /\ \E item \in tx[s].items : GetContent(s, item)
  <2>1. PICK item \in tx[s].items : GetContent(s, item)
    BY <1>4
  <2>2. /\ tx'[s].num = tx[s].num /\ tx'[s].made = tx[s].made
        /\ tx'[s].items = tx[s].items \ {item}
        /\ tx'[s].item = IF item.content \in Found(s) THEN None ELSE item
        /\ tx'[s].next = IF item.content \in Found(s) THEN "contents" ELSE "row"
        /\ tx'[s].rows = tx[s].rows
        /\ Running(s) /\ tx[s].next = "contents" /\ contents' = contents
    BY <1>0, <2>1 DEF GetContent, At, Shape, IsTransaction
  <2>3. item \in Items /\ HasItsItems(s)
    BY <1>0, <2>2 DEF HasItsItems
  <2>4. Stored' = Stored /\ RowKeys(s)' = RowKeys(s)
    BY <2>2 DEF Stored, RowKeys
  <2>5. ToBeStored(s) \subseteq ToBeStored(s)'
    BY <2>2, <2>4 DEF ToBeStored, Found
  <2>6. QED
    BY <2>2, <2>3, <2>4, <2>5 DEF HasItsItems
<1>5. CASE InsertContent(s)
  <2>. DEFINE r == tx[s]
              next == IF r.item.hasFile THEN "file" ELSE "contents"
  <2>a. /\ IsTransaction(r) /\ tx'[s] = [r EXCEPT !.rows = @ \cup {r.item}, !.next = next]
        /\ Running(s) /\ r.next = "row" /\ contents' = contents
    BY <1>0, <1>5 DEF InsertContent, At, Shape
  <2>1. /\ tx'[s].rows = r.rows \cup {r.item} /\ tx'[s].item = r.item
        /\ tx'[s].items = r.items /\ tx'[s].next = next
        /\ tx'[s].num = r.num /\ tx'[s].made = r.made
    <3>. HIDE DEF r, next
    <3>1. QED
      BY <2>a DEF IsTransaction
  <2>2. next \in {"file", "contents"} /\ HasItsItems(s)
    BY <1>0, <2>a
  <2>. HIDE DEF next
  <2>3. Stored' = Stored /\ RowKeys(s)' = RowKeys(s) \cup {r.item.content}
    BY <2>a, <2>1 DEF Stored, RowKeys
  <2>4. ToBeStored(s) \subseteq ToBeStored(s)'
    BY <2>a, <2>1, <2>3 DEF ToBeStored
  <2>5. QED
    BY <2>a, <2>1, <2>2, <2>3, <2>4 DEF HasItsItems
<1>6. CASE WriteFile(s)
  <2>1. /\ tx'[s].num = tx[s].num /\ tx'[s].made = tx[s].made /\ tx'[s].items = tx[s].items
        /\ tx'[s].rows = tx[s].rows /\ tx'[s].next = "contents" /\ tx[s].next = "file"
        /\ Running(s) /\ contents' = contents
    BY <1>0, <1>6 DEF WriteFile, At, Shape, IsTransaction
  <2>2. QED
    BY <1>0, <2>1 DEF HasItsItems, ToBeStored, Stored, RowKeys
<1>7. CASE Commit(s)
  BY <1>0, <1>7 DEF Commit, Shape, Running
<1>8. CASE Fail(s)
  BY <1>0, <1>8 DEF Fail, Rollback, Shape, Running
<1>9. QED
  BY <1>1, <1>2, <1>3, <1>4, <1>5, <1>6, <1>7, <1>8 DEF Step

\* A session inserts a row when nobody has it.
LEMMA RowsGrow ==
    ASSUME StoreInv, NEW s \in Sessions, Step(s), Running(s)', NEW c \in RowKeys(s)'
    PROVE  \/ Running(s) /\ c \in RowKeys(s)
           \/ c \notin Stored /\ \A t \in Sessions \ {s} : Running(t) => c \notin RowKeys(t)
<1>0. Shape
  BY DEF StoreInv, EditsInv
<1>. USE DEF RowKeys
<1>1. CASE \E call \in Calls, last \in Versions \cup {0} : StartEdit(s, call, last)
  BY <1>0, <1>1 DEF StartEdit, Shape, Transaction
<1>2. CASE \E content \in Contents, createFile \in BOOLEAN : StartText(s, content, createFile)
  BY <1>0, <1>2 DEF StartText, Shape, Transaction
<1>3. CASE InsertVersion(s)
  BY <1>0, <1>3 DEF InsertVersion, Shape, IsTransaction
<1>4. CASE Running(s) /\ \E item \in tx[s].items : GetContent(s, item)
  BY <1>0, <1>4 DEF GetContent, Shape, IsTransaction
<1>5. CASE InsertContent(s)
  <2>. DEFINE r == tx[s]
              next == IF r.item.hasFile THEN "file" ELSE "contents"
  <2>1. /\ IsTransaction(r) /\ tx'[s] = [r EXCEPT !.rows = @ \cup {r.item}, !.next = next]
        /\ Running(s)
    BY <1>0, <1>5 DEF InsertContent, At, Shape
  <2>2. tx'[s].rows = r.rows \cup {r.item}
    <3>. HIDE DEF r, next
    <3>1. QED
      BY <2>1 DEF IsTransaction
  <2>3. r.item.content \notin Stored
        /\ \A t \in Sessions \ {s} : Running(t) => r.item.content \notin RowKeys(t)
    BY <1>5 DEF InsertContent, ContentIsLocked
  <2>4. QED
    BY <2>1, <2>2, <2>3
<1>6. CASE WriteFile(s)
  BY <1>0, <1>6 DEF WriteFile, At, Shape, IsTransaction
<1>7. CASE Commit(s)
  BY <1>0, <1>7 DEF Commit, Shape, Running
<1>8. CASE Fail(s)
  BY <1>0, <1>8 DEF Fail, Rollback, Shape, Running
<1>9. QED
  BY <1>1, <1>2, <1>3, <1>4, <1>5, <1>6, <1>7, <1>8 DEF Step

\* A commit adds rows of the transaction and leaves the others as they are.
LEMMA CommitAddsRows ==
    ASSUME StoreInv, NEW s \in Sessions, Commit(s)
    PROVE  /\ CommittedTypes'
           /\ Stored' = Stored \cup RowKeys(s)
           /\ \A c \in Stored : contents'[c] = contents[c]
<1>0. /\ CommittedTypes /\ HasItsItems(s) /\ RowKeys(s) \cap Stored = {}
      /\ Running(s) /\ tx[s].next = "contents" /\ tx[s].items = {}
  BY DEF StoreInv, Commit, At, RowsAreNew
<1>. DEFINE row(c) == CHOOSE r \in tx[s].rows : r.content = c
<1>1. contents' = [c \in Stored \cup RowKeys(s) |->
                     IF c \in RowKeys(s) THEN [text |-> row(c).text, hasFile |-> row(c).hasFile]
                     ELSE contents[c]]
  BY DEF Commit
<1>2. \A c \in RowKeys(s) : row(c) \in Items /\ row(c).content = c
  <2>. SUFFICES ASSUME NEW c \in RowKeys(s)
                PROVE  row(c) \in Items /\ row(c).content = c
    OBVIOUS
  <2>1. \E r \in tx[s].rows : r.content = c
    BY DEF RowKeys
  <2>2. row(c) \in tx[s].rows /\ row(c).content = c
    BY <2>1
  <2>3. QED
    BY <1>0, <2>2 DEF HasItsItems
<1>. HIDE DEF row
<1>3. /\ Stored' = Stored \cup RowKeys(s)
      /\ \A c \in Stored : contents'[c] = contents[c]
  BY <1>0, <1>1 DEF Stored
<1>4. /\ Stored' \subseteq Contents
      /\ \A c \in Stored' : /\ contents'[c] \in [text : BOOLEAN, hasFile : BOOLEAN]
                            /\ contents'[c].text \/ contents'[c].hasFile
  <2>. SUFFICES ASSUME NEW c \in Stored'
                PROVE  /\ c \in Contents
                       /\ contents'[c] \in [text : BOOLEAN, hasFile : BOOLEAN]
                       /\ contents'[c].text \/ contents'[c].hasFile
    OBVIOUS
  <2>1. CASE c \in RowKeys(s)
    <3>1. /\ contents'[c] = [text |-> row(c).text, hasFile |-> row(c).hasFile]
          /\ row(c) \in Items /\ row(c).content = c
      BY <1>1, <1>2, <2>1
    <3>2. QED
      BY <3>1 DEF Items
  <2>2. CASE c \notin RowKeys(s)
    BY <1>0, <1>3, <2>2 DEF CommittedTypes
  <2>3. QED
    BY <2>1, <2>2
<1>5. /\ Versions' \subseteq Nat \ {0}
      /\ \A n \in Versions' : \A k \in DOMAIN versions'[n] :
            k \in Keys /\ versions'[n][k] \in Stored'
  <2>1. CASE tx[s].num = None
    <3>1. versions' = versions
      BY <2>1 DEF Commit
    <3>2. QED
      BY <1>0, <1>3, <3>1 DEF CommittedTypes, Versions
  <2>2. CASE tx[s].num # None
    <3>1. versions' = [n \in Versions \cup {tx[s].num} |->
                          IF n = tx[s].num THEN tx[s].made ELSE versions[n]]
      BY <2>2 DEF Commit
    <3>2. \A k \in DOMAIN tx[s].made : k \in Keys /\ tx[s].made[k] \in Stored'
      BY <1>0, <1>3 DEF HasItsItems, ToBeStored
    <3>3. tx[s].num \in Nat \ {0} /\ Versions' = Versions \cup {tx[s].num}
      BY <1>0, <2>2, <3>1 DEF HasItsItems, Versions
    <3>4. ASSUME NEW n \in Versions', NEW k \in DOMAIN versions'[n]
          PROVE  k \in Keys /\ versions'[n][k] \in Stored'
      <4>1. CASE n = tx[s].num
        <5>1. versions'[n] = tx[s].made
          BY <3>1, <4>1
        <5>2. QED
          BY <3>2, <5>1
      <4>2. CASE n # tx[s].num
        <5>1. n \in Versions /\ versions'[n] = versions[n]
          BY <3>1, <3>3, <4>2
        <5>2. QED
          BY <1>0, <1>3, <5>1 DEF CommittedTypes
      <4>3. QED
        BY <4>1, <4>2
    <3>5. QED
      BY <1>0, <3>3, <3>4 DEF CommittedTypes
  <2>3. QED
    BY <2>1, <2>2
<1>6. QED
  BY <1>3, <1>4, <1>5 DEF CommittedTypes

LEMMA StepKeepsStoreInv ==
    ASSUME StoreInv, NEW s \in Sessions, Step(s)
    PROVE  /\ StoreInv'
           /\ Stored \subseteq Stored'
           /\ \A c \in Stored : contents'[c] = contents[c]
<1>0. /\ EditsInv /\ Shape /\ CommittedTypes /\ RowsAreNew
      /\ files \in [Data -> {"missing", "partial", "whole"}]
  BY DEF StoreInv, EditsInv
<1>1. /\ EditsInv' /\ Shape'
      /\ \A t \in Sessions \ {s} : tx'[t] = tx[t]
  BY <1>0, StepKeepsEditsInv, OthersStay DEF EditsInv
<1>2. /\ CommittedTypes' /\ Stored \subseteq Stored'
      /\ \A c \in Stored : contents'[c] = contents[c]
      /\ Stored' \subseteq Stored \cup (IF Commit(s) THEN RowKeys(s) ELSE {})
  <2>1. CASE Commit(s)
    BY <2>1, CommitAddsRows
  <2>2. CASE ~ Commit(s)
    <3>1. UNCHANGED <<versions, contents>>
      BY <2>2 DEF Step, StartEdit, StartText, InsertVersion, GetContent, InsertContent,
                  WriteFile, Fail, Rollback
    <3>2. QED
      BY <1>0, <2>2, <3>1 DEF CommittedTypes, Stored, Versions
  <2>3. QED
    BY <2>1, <2>2
<1>3. files' \in [Data -> {"missing", "partial", "whole"}]
  <2>1. CASE WriteFile(s)
    BY <1>0, <2>1 DEF WriteFile
  <2>2. CASE Fail(s)
    BY <1>0, <2>2 DEF Fail, FilesAfterFailure
  <2>3. CASE ~ WriteFile(s) /\ ~ Fail(s)
    BY <1>0, <2>3 DEF Step, StartEdit, StartText, InsertVersion, GetContent, InsertContent,
                      Commit
  <2>4. QED
    BY <2>1, <2>2, <2>3
<1>4. ASSUME NEW t \in Sessions, Running(t)'
      PROVE  HasItsItems(t)'
  <2>1. CASE t = s
    BY <1>4, <2>1, OwnItems
  <2>2. CASE t # s
    <3>1. tx'[t] = tx[t] /\ Running(t)
      BY <1>1, <1>4, <2>2 DEF Running
    <3>2. HasItsItems(t)
      BY <3>1 DEF StoreInv
    <3>3. ToBeStored(t) \subseteq ToBeStored(t)'
      BY <1>2, <3>1 DEF ToBeStored, RowKeys
    <3>4. QED
      BY <3>1, <3>2, <3>3 DEF HasItsItems
  <2>3. QED
    BY <2>1, <2>2
<1>5. RowsAreNew'
  <2>1. \A t \in Sessions \ {s} : /\ Running(t)' <=> Running(t)
                                  /\ RowKeys(t)' = RowKeys(t)
    BY <1>1 DEF Running, RowKeys
  <2>2. Commit(s) => ~ Running(s)' /\ Running(s)
    BY <1>0 DEF Commit, At, Running, Shape
  <2>3. ASSUME NEW t \in Sessions, Running(t)', NEW c \in RowKeys(t)'
        PROVE  /\ c \notin Stored'
               /\ \A u \in Sessions \ {t} : Running(u)' => c \notin RowKeys(u)'
    <3>1. CASE t = s
      <4>1. ~ Commit(s)
        BY <2>2, <2>3, <3>1
      <4>2. c \notin Stored /\ \A u \in Sessions \ {s} : Running(u) => c \notin RowKeys(u)
        BY <1>0, <2>3, <3>1, RowsGrow DEF RowsAreNew
      <4>3. QED
        BY <1>2, <2>1, <3>1, <4>1, <4>2
    <3>2. CASE t # s
      <4>1. /\ c \in RowKeys(t) /\ c \notin Stored
            /\ \A u \in Sessions \ {t} : Running(u) => c \notin RowKeys(u)
        BY <1>0, <2>1, <2>3, <3>2 DEF RowsAreNew
      <4>2. c \notin Stored'
        BY <1>2, <2>2, <3>2, <4>1
      <4>3. Running(s)' => c \notin RowKeys(s)'
        <5>. SUFFICES ASSUME Running(s)', c \in RowKeys(s)'
                      PROVE  FALSE
          OBVIOUS
        <5>1. \/ Running(s) /\ c \in RowKeys(s)
              \/ \A u \in Sessions \ {s} : Running(u) => c \notin RowKeys(u)
          BY RowsGrow
        <5>2. Running(t)
          BY <2>1, <2>3, <3>2
        <5>3. QED
          BY <3>2, <4>1, <5>1, <5>2
      <4>4. QED
        BY <2>1, <3>2, <4>1, <4>2, <4>3
    <3>3. QED
      BY <3>1, <3>2
  <2>4. QED
    BY <2>3 DEF RowsAreNew
<1>6. QED
  BY <1>1, <1>2, <1>3, <1>4, <1>5 DEF StoreInv

LEMMA StoreInvAlways == ComponentsSpec => []StoreInv
<1>1. ComponentsInit => StoreInv
  <2>. SUFFICES ASSUME ComponentsInit PROVE StoreInv
    OBVIOUS
  <2>1. /\ \A s \in Sessions : ~ Running(s)
        /\ versions = << >> /\ contents = << >>
        /\ files = [d \in Data |-> "missing"]
        /\ tx = [s \in Sessions |-> tx[s]]
    BY DEF ComponentsInit, EditsInit, Running
  <2>2. Versions = {} /\ Stored = {}
    <3>1. DOMAIN << >> = {}
      OBVIOUS
    <3>2. QED
      BY <2>1, <3>1 DEF Versions, Stored
  <2>3. EditsInv
    BY <2>1 DEF EditsInv, Shape, MakesEdits, NumbersAreFree
  <2>4. QED
    BY <2>1, <2>2, <2>3 DEF StoreInv, CommittedTypes, RowsAreNew
<1>2. StoreInv /\ [ComponentsNext]_componentsVars => StoreInv'
  <2>. SUFFICES ASSUME StoreInv, [ComponentsNext]_componentsVars
                PROVE  StoreInv'
    OBVIOUS
  <2>1. CASE ComponentsNext
    <3>1. PICK s \in Sessions : Step(s)
      BY <2>1 DEF ComponentsNext
    <3>2. QED
      BY <3>1, StepKeepsStoreInv
  <2>2. CASE UNCHANGED componentsVars
    <3>. USE <2>2 DEF componentsVars
    <3>1. /\ versions' = versions /\ contents' = contents /\ files' = files /\ tx' = tx
      OBVIOUS
    <3>2. EditsInv'
      BY DEF StoreInv, EditsInv, Shape, MakesEdits, NumbersAreFree, Holds, Running, Versions,
             MadeFrom, ContentsOfVersion
    <3>3. CommittedTypes'
      BY DEF StoreInv, CommittedTypes, Versions, Stored
    <3>4. \A s \in Sessions : Running(s)' => HasItsItems(s)'
      BY DEF StoreInv, HasItsItems, ToBeStored, RowKeys, Running, Stored
    <3>5. RowsAreNew'
      BY DEF StoreInv, RowsAreNew, RowKeys, Running, Stored
    <3>6. QED
      BY <3>1, <3>2, <3>3, <3>4, <3>5 DEF StoreInv
  <2>3. QED
    BY <2>1, <2>2
<1>3. QED
  BY <1>1, <1>2, PTL DEF ComponentsSpec

\* Whatever the sessions do at once and wherever they fail, committed versions are
\* of committed contents, and these of a text, a file or both, over either storage.
THEOREM ComponentsTypeCorrect == ComponentsSpec => []ComponentsTypeOK
<1>. DEFINE StorageOK == storage \in {"file system", "object store"}
<1>1. StoreInv /\ StorageOK => ComponentsTypeOK
  BY DEF StoreInv, CommittedTypes, HasItsItems, ComponentsTypeOK
<1>2. ComponentsInit => StorageOK
  BY DEF ComponentsInit
<1>3. StorageOK /\ [ComponentsNext]_componentsVars => StorageOK'
  BY DEF ComponentsNext, componentsVars
<1>. HIDE DEF StorageOK
<1>4. QED
  BY <1>1, <1>2, <1>3, StoreInvAlways, PTL DEF ComponentsSpec

\* No session, whether it commits or fails, changes a version that is committed, or
\* the answer to a request for one of its files: a transaction's rows are never
\* those of Contents that are stored already.
THEOREM AssetsAlwaysStay == ComponentsSpec => AssetsStay
<1>. DEFINE Stays == \A n \in Versions, k \in Keys :
                        /\ versions'[n] = versions[n]
                        /\ AssetResponse(n, k)' = AssetResponse(n, k)
<1>1. StoreInv /\ [ComponentsNext]_componentsVars => [Stays]_componentsVars
  <2>. SUFFICES ASSUME StoreInv, ComponentsNext, NEW n \in Versions, NEW k \in Keys
                PROVE  /\ versions'[n] = versions[n]
                       /\ AssetResponse(n, k)' = AssetResponse(n, k)
    OBVIOUS
  <2>1. PICK s \in Sessions : Step(s)
    BY DEF ComponentsNext
  <2>2. \A c \in Stored : contents'[c] = contents[c]
    BY <2>1, StepKeepsStoreInv
  <2>3. n \in Versions' /\ versions'[n] = versions[n]
    <3>1. CASE Commit(s)
      <4>1. ContentsOfVersion(n)' = ContentsOfVersion(n) /\ n \in Versions'
        BY <3>1, CommitIsEdit DEF StoreInv
      <4>2. n # 0
        BY DEF StoreInv, CommittedTypes
      <4>3. QED
        BY <4>1, <4>2 DEF ContentsOfVersion
    <3>2. CASE ~ Commit(s)
      BY <2>1, <3>2, OnlyCommitsMakeVersions DEF Versions
    <3>3. QED
      BY <3>1, <3>2
  <2>4. k \in DOMAIN versions[n] => contents'[versions[n][k]] = contents[versions[n][k]]
    BY <2>2 DEF StoreInv, CommittedTypes
  <2>5. QED
    BY <2>3, <2>4 DEF AssetResponse
<1>2. QED
  BY <1>1, StoreInvAlways, PTL DEF ComponentsSpec, AssetsStay

==============================================================================
