------------------------- MODULE BackupRestoreProofs -------------------------
(***************************************************************************)
(* What holds of the modules that a learning package is made of on top of  *)
(* Publishing, for every set of entities, keys and contents.               *)
(*                                                                         *)
(* Containers implements Publishing, so what is proved of the drafts,      *)
(* releases and logs of Publishing holds of learning packages with Units,  *)
(* Subsections and Sections, whatever lists, pins and version numbers      *)
(* their versions have.  What is of Containers alone comes after: the      *)
(* version numbers; the rows of a container, which agree with the          *)
(* dependencies by which it is told of changes; and its contents, which    *)
(* are the same when the digests are, stay as they were in past releases,  *)
(* and are what lists appended to and removed from leave.                  *)
(*                                                                         *)
(* Then Collections, whose changes are dated, and packages that are dumped *)
(* and restored.                                                           *)
(***************************************************************************)
EXTENDS BackupRestore, PublishingProofs

\* A container version is a version that depends on entities below it.
LEMMA NewContainerVersionCreatesVersion ==
    ASSUME NEW c \in Containers, NEW num, NEW list, NewContainerVersion(c, num, list)
    PROVE  \E D \in SUBSET {d \in Entities : Level[d] < Level[c]} : CreateVersion(c, D)
<1>1. UnpinnedEntities(list) \in SUBSET {d \in Entities : Level[d] < Level[c]}
  BY DEF NewContainerVersion, UnpinnedEntities
<1>2. CreateVersion(c, UnpinnedEntities(list))
  BY DEF NewContainerVersion
<1>3. QED
  BY <1>1, <1>2

\* So are the next versions of a container, whatever its children.
LEMMA NextVersionCreatesVersion ==
    ASSUME NEW c \in Containers, CreateNextVersion(c)
    PROVE  \E D \in SUBSET {d \in Entities : Level[d] < Level[c]} : CreateVersion(c, D)
<1>1. PICK num \in NumsFor(c) :
        \/ RetitleContainer(c, num)
        \/ \E given \in ListsFor(c), action \in {"append", "remove", "replace"} :
              CreateNextContainerVersion(c, num, given, action)
  BY DEF CreateNextVersion
<1>2. CASE RetitleContainer(c, num)
  <2>1. NewContainerVersion(c, num, rows[c][Latest(c)])
    BY <1>2 DEF RetitleContainer
  <2>2. QED
    BY <2>1, NewContainerVersionCreatesVersion
<1>3. CASE \E given \in ListsFor(c), action \in {"append", "remove", "replace"} :
              CreateNextContainerVersion(c, num, given, action)
  <2>1. PICK given, action : CreateNextContainerVersion(c, num, given, action)
    BY <1>3
  <2>2. PICK list : NewContainerVersion(c, num, list)
    BY <2>1 DEF CreateNextContainerVersion
  <2>3. QED
    BY <2>2, NewContainerVersionCreatesVersion
<1>4. QED
  BY <1>1, <1>2, <1>3

\* Every call on containers is, for versions, branches and logs, a call of
\* Publishing.
LEMMA ContainersStep == ContainersNext => Next
<1>. SUFFICES ASSUME ContainersNext PROVE Next
  OBVIOUS
<1>1. CASE \E e \in Entities : CreateComponentVersion(e)
  <2>1. PICK e \in Entities : CreateVersion(e, {})
    BY <1>1 DEF CreateComponentVersion
  <2>2. {} \in SUBSET {d \in Entities : Level[d] < Level[e]}
    OBVIOUS
  <2>3. QED
    BY <2>1, <2>2 DEF Next
<1>2. CASE \E c \in Containers :
             \/ CreateNextVersion(c)
             \/ \E list \in ListsFor(c), num \in 1 .. MaxVersionNum :
                    CreateContainerVersion(c, num, list)
  <2>1. PICK c \in Containers :
             \E D \in SUBSET {d \in Entities : Level[d] < Level[c]} : CreateVersion(c, D)
    BY <1>2, NextVersionCreatesVersion, NewContainerVersionCreatesVersion
       DEF CreateContainerVersion
  <2>2. c \in Entities
    BY DEF Containers
  <2>3. QED
    BY <2>1, <2>2 DEF Next
<1>3. CASE OtherCalls
  BY <1>3 DEF OtherCalls, Next
<1>4. QED
  BY <1>1, <1>2, <1>3 DEF ContainersNext

\* Containers implements Publishing: units, subsections and sections do nothing to
\* drafts, published versions and logs that Publishing does not allow.
THEOREM ContainersImplementPublishing == ContainersSpec => ImplementsPublishing
<1>1. ContainersInit => Init
  BY DEF ContainersInit
<1>2. [ContainersNext]_containersVars => [Next]_vars
  BY ContainersStep DEF containersVars
<1>3. QED
  BY <1>1, <1>2, PTL DEF ContainersSpec, ImplementsPublishing, Spec

\* With containers too, the publish log of every entity replays to what is
\* published.
THEOREM ContainersPublishHistoriesReplay == ContainersSpec => []PublishHistoryReplays
BY ContainersImplementPublishing, PublishHistoriesReplay, PTL DEF ImplementsPublishing

-----------------------------------------------------------------------------
(***************************************************************************)
(* Version numbers.  Callers may force any number, so that a version may   *)
(* be created with a number below those of older versions.  What makes     *)
(* the next number free is that some version has the highest one, which    *)
(* appending any number keeps.                                             *)
(***************************************************************************)
HasHighest(nums) ==
    nums = << >> \/ \E v \in DOMAIN nums : \A w \in DOMAIN nums : nums[w] <= nums[v]

NumbersIInv ==
    /\ versionNums \in [Entities -> Seq(Nat)]
    /\ \A e \in Entities : HasHighest(versionNums[e])

\* The highest number of a sequence is still there, or the appended one is higher.
LEMMA AppendKeepsHighest ==
    ASSUME NEW nums \in Seq(Nat), HasHighest(nums), NEW num \in Nat
    PROVE  HasHighest(Append(nums, num))
<1>. DEFINE longer == Append(nums, num)
<1>1. /\ longer \in Seq(Nat)
      /\ DOMAIN longer = 1 .. Len(nums) + 1
      /\ DOMAIN nums = 1 .. Len(nums)
      /\ Len(nums) \in Nat
      /\ longer[Len(nums) + 1] = num
      /\ \A w \in 1 .. Len(nums) : longer[w] = nums[w] /\ nums[w] \in Nat
  OBVIOUS
<1>. HIDE DEF longer
<1>2. CASE \A w \in DOMAIN nums : nums[w] <= num
  <2>1. \A w \in 1 .. Len(nums) : longer[w] <= num
    BY <1>1, <1>2
  <2>2. num <= num
    OBVIOUS
  <2>3. \A w \in DOMAIN longer : longer[w] <= longer[Len(nums) + 1]
    BY <1>1, <2>1, <2>2
  <2>4. Len(nums) + 1 \in DOMAIN longer
    BY <1>1
  <2>5. HasHighest(longer)
    BY <2>3, <2>4 DEF HasHighest
  <2>6. QED
    BY <2>5 DEF longer
<1>3. CASE \E u \in DOMAIN nums : ~ (nums[u] <= num)
  <2>1. PICK u \in DOMAIN nums : ~ (nums[u] <= num)
    BY <1>3
  <2>2. nums # << >>
    BY <2>1
  <2>3. PICK v \in DOMAIN nums : \A w \in DOMAIN nums : nums[w] <= nums[v]
    BY <2>2 DEF HasHighest
  <2>4. v \in DOMAIN longer /\ longer[v] = nums[v]
    BY <1>1, <2>3
  <2>5. num <= nums[v]
    <3>1. nums[u] \in Nat /\ nums[v] \in Nat /\ nums[u] <= nums[v]
      BY <1>1, <2>1, <2>3
    <3>2. QED
      BY <2>1, <3>1
  <2>6. ASSUME NEW w \in DOMAIN longer PROVE longer[w] <= longer[v]
    <3>1. CASE w = Len(nums) + 1
      BY <1>1, <2>4, <2>5, <3>1
    <3>2. CASE w # Len(nums) + 1
      <4>1. w \in DOMAIN nums
        BY <1>1, <3>2
      <4>2. QED
        BY <1>1, <2>3, <2>4, <4>1
    <3>3. QED
      BY <3>1, <3>2
  <2>7. QED
    BY <2>4, <2>6 DEF HasHighest, longer
<1>4. QED
  BY <1>2, <1>3

\* latest is a version with the highest number.
LEMMA LatestIsHighest ==
    ASSUME NEW e \in Entities, NumbersIInv, versionNums[e] # << >>
    PROVE  /\ Latest(e) \in DOMAIN versionNums[e]
           /\ Latest(e) # None
           /\ \A w \in DOMAIN versionNums[e] : versionNums[e][w] <= versionNums[e][Latest(e)]
<1>1. \E v \in DOMAIN versionNums[e] :
         \A w \in DOMAIN versionNums[e] : versionNums[e][w] <= versionNums[e][v]
  BY DEF NumbersIInv, HasHighest
<1>2. Latest(e) = CHOOSE v \in DOMAIN versionNums[e] :
                     \A w \in DOMAIN versionNums[e] : versionNums[e][w] <= versionNums[e][v]
  BY DEF Latest
<1>3. /\ Latest(e) \in DOMAIN versionNums[e]
      /\ \A w \in DOMAIN versionNums[e] : versionNums[e][w] <= versionNums[e][Latest(e)]
  BY <1>1, <1>2, Zenon
<1>4. versionNums[e] \in Seq(Nat)
  BY DEF NumbersIInv
<1>5. QED
  BY <1>3, <1>4 DEF None

\* So the next number is above every number that is taken.
LEMMA NextNumIsFree ==
    ASSUME NEW e \in Entities, NumbersIInv
    PROVE  NextVersionNum(e) \in Nat /\ NextVersionNum(e) \notin VersionNumsOf(e)
<1>1. versionNums[e] \in Seq(Nat)
  BY DEF NumbersIInv
<1>2. VersionNumsOf(e) = {versionNums[e][v] : v \in DOMAIN versionNums[e]}
  BY DEF VersionNumsOf, ToSet
<1>3. CASE versionNums[e] = << >>
  <2>1. NextVersionNum(e) = 1
    BY <1>3 DEF NextVersionNum, Latest
  <2>2. DOMAIN versionNums[e] = {}
    BY <1>3
  <2>3. QED
    BY <1>2, <2>1, <2>2
<1>4. CASE versionNums[e] # << >>
  <2>1. NextVersionNum(e) = versionNums[e][Latest(e)] + 1
    BY <1>4, LatestIsHighest DEF NextVersionNum
  <2>2. \A w \in DOMAIN versionNums[e] : versionNums[e][w] \in Nat
    BY <1>1
  <2>3. QED
    BY <1>2, <1>4, <2>1, <2>2, LatestIsHighest
<1>5. QED
  BY <1>3, <1>4

\* A new version of one entity appends its number, and leaves the others alone.
LEMMA NewNumberKeepsNumbersIInv ==
    ASSUME NumbersIInv, NEW e \in Entities, NEW num \in Nat,
           versionNums' = [versionNums EXCEPT ![e] = Append(@, num)]
    PROVE  NumbersIInv'
<1>1. versionNums[e] \in Seq(Nat)
  BY DEF NumbersIInv
<1>2. Append(versionNums[e], num) \in Seq(Nat)
  BY <1>1
<1>3. versionNums' \in [Entities -> Seq(Nat)]
  BY <1>2 DEF NumbersIInv
<1>4. ASSUME NEW d \in Entities PROVE HasHighest(versionNums'[d])
  <2>1. CASE d = e
    <3>1. versionNums'[d] = Append(versionNums[e], num)
      BY <2>1 DEF NumbersIInv
    <3>2. HasHighest(Append(versionNums[e], num))
      BY <1>1, AppendKeepsHighest DEF NumbersIInv
    <3>3. QED
      BY <3>1, <3>2
  <2>2. CASE d # e
    BY <2>2 DEF NumbersIInv
  <2>3. QED
    BY <2>1, <2>2
<1>5. QED
  BY <1>3, <1>4 DEF NumbersIInv, HasHighest

\* Every number a container call passes is a number.
LEMMA ContainerStepNumbers ==
    ASSUME NumbersIInv, NEW c \in Containers,
           \/ CreateNextVersion(c)
           \/ \E list \in ListsFor(c), num \in 1 .. MaxVersionNum :
                  CreateContainerVersion(c, num, list)
    PROVE  \E num \in Nat : versionNums' = [versionNums EXCEPT ![c] = Append(@, num)]
<1>1. c \in Entities
  BY DEF Containers
<1>2. MaxVersionNum \in Nat
  BY ContainersBoundsAssumption DEF ContainersBoundsAssumption
<1>3. NumsFor(c) \subseteq Nat
  BY <1>1, <1>2, NextNumIsFree DEF NumsFor
<1>4. \A num, list : NewContainerVersion(c, num, list)
         => versionNums' = [versionNums EXCEPT ![c] = Append(@, num)]
  BY DEF NewContainerVersion
<1>5. CASE CreateNextVersion(c)
  <2>1. PICK num \in NumsFor(c) :
          \/ RetitleContainer(c, num)
          \/ \E given \in ListsFor(c), action \in {"append", "remove", "replace"} :
                CreateNextContainerVersion(c, num, given, action)
    BY <1>5 DEF CreateNextVersion
  <2>2. \E list : NewContainerVersion(c, num, list)
    BY <2>1 DEF RetitleContainer, CreateNextContainerVersion
  <2>3. QED
    BY <1>3, <1>4, <2>1, <2>2
<1>6. CASE \E list \in ListsFor(c), num \in 1 .. MaxVersionNum :
              CreateContainerVersion(c, num, list)
  <2>1. PICK list \in ListsFor(c), num \in 1 .. MaxVersionNum :
          CreateContainerVersion(c, num, list)
    BY <1>6
  <2>2. num \in Nat
    BY <1>2, <2>1
  <2>3. QED
    BY <1>4, <2>1, <2>2 DEF CreateContainerVersion
<1>7. QED
  BY <1>5, <1>6

\* Every entity with versions has one with the highest number, whatever is forced.
LEMMA NumbersAlwaysOrdered == ContainersSpec => []NumbersIInv
<1>1. ContainersInit => NumbersIInv
  <2>. SUFFICES ASSUME ContainersInit PROVE NumbersIInv
    OBVIOUS
  <2>1. versionNums = [e \in Entities |-> << >>]
    BY DEF ContainersInit
  <2>2. << >> \in Seq(Nat)
    OBVIOUS
  <2>3. QED
    BY <2>1, <2>2 DEF NumbersIInv, HasHighest
<1>2. NumbersIInv /\ [ContainersNext]_containersVars => NumbersIInv'
  <2>. SUFFICES ASSUME NumbersIInv, [ContainersNext]_containersVars PROVE NumbersIInv'
    OBVIOUS
  <2>1. CASE \E e \in Entities : CreateComponentVersion(e)
    <3>1. PICK e \in Entities :
            versionNums' = [versionNums EXCEPT ![e] = Append(@, NextVersionNum(e))]
      BY <2>1 DEF CreateComponentVersion
    <3>2. QED
      BY <3>1, NextNumIsFree, NewNumberKeepsNumbersIInv
  <2>2. CASE \E c \in Containers :
               \/ CreateNextVersion(c)
               \/ \E list \in ListsFor(c), num \in 1 .. MaxVersionNum :
                      CreateContainerVersion(c, num, list)
    <3>1. PICK c \in Containers, num \in Nat :
            versionNums' = [versionNums EXCEPT ![c] = Append(@, num)]
      BY <2>2, ContainerStepNumbers
    <3>2. c \in Entities
      BY DEF Containers
    <3>3. QED
      BY <3>1, <3>2, NewNumberKeepsNumbersIInv
  <2>3. CASE OtherCalls
    BY <2>3 DEF OtherCalls, NumbersIInv
  <2>4. CASE UNCHANGED containersVars
    BY <2>4 DEF containersVars, NumbersIInv
  <2>5. QED
    BY <2>1, <2>2, <2>3, <2>4 DEF ContainersNext
<1>3. QED
  BY <1>1, <1>2, PTL DEF ContainersSpec

\* create_next_* without a forced number never meets the unique constraint on
\* (entity, version_num), however many numbers callers forced before.
THEOREM NextVersionNumbersAreFree == ContainersSpec => []NextVersionNumIsFree
<1>1. NumbersIInv => NextVersionNumIsFree
  BY NextNumIsFree DEF NextVersionNumIsFree
<1>2. QED
  BY <1>1, NumbersAlwaysOrdered, PTL

-----------------------------------------------------------------------------
(***************************************************************************)
(* Rows and dependencies.  Side effects follow the dependencies that a     *)
(* version declared; readers ask its rows.  Both are written together,     *)
(* for any list, so the logs that are closed under dependencies tell       *)
(* every container that readers find.                                      *)
(***************************************************************************)
RowsIInv ==
    /\ DOMAIN rows = Containers
    /\ \A c \in Containers :
          /\ \E S : rows[c] \in Seq(S)
          /\ Len(rows[c]) = Len(dependencies[c])
          /\ \A v \in 1 .. Len(rows[c]) : dependencies[c][v] = UnpinnedEntities(rows[c][v])

\* Containers are edited by calls of their own logs only.
DraftClosed ==
    /\ openLogs = << >>
    /\ lastDraftLog > 0 => IsClosed(dependencies, draft, ChangedIn(draft, lastDraftLog))

\* Appending to a sequence of anything.
LEMMA AppendAnything ==
    ASSUME NEW S, NEW s \in Seq(S), NEW x
    PROVE  /\ \E T : Append(s, x) \in Seq(T)
           /\ Len(s) \in Nat
           /\ Len(Append(s, x)) = Len(s) + 1
           /\ Append(s, x)[Len(s) + 1] = x
           /\ \A i \in 1 .. Len(s) : Append(s, x)[i] = s[i]
<1>1. s \in Seq(S \cup {x}) /\ x \in S \cup {x}
  OBVIOUS
<1>2. QED
  BY <1>1, AppendProperties, LenProperties

\* A new version of a container has its list and the dependencies of that list.
LEMMA NewListKeepsRowsIInv ==
    ASSUME TypeOK, RowsIInv, NEW c \in Containers, NEW num, NEW list,
           NewContainerVersion(c, num, list)
    PROVE  RowsIInv'
<1>. DEFINE D == UnpinnedEntities(list)
<1>1. /\ rows' = [rows EXCEPT ![c] = Append(@, list)]
      /\ dependencies' = [dependencies EXCEPT ![c] = Append(@, D)]
  BY DEF NewContainerVersion, CreateVersion
<1>. HIDE DEF D
<1>2. DOMAIN rows' = Containers
  BY <1>1 DEF RowsIInv
<1>3. c \in Entities /\ dependencies \in [Entities -> Seq(SUBSET Entities)]
  BY DEF Containers, TypeOK
<1>4. ASSUME NEW x \in Containers
      PROVE  /\ \E S : rows'[x] \in Seq(S)
             /\ Len(rows'[x]) = Len(dependencies'[x])
             /\ \A v \in 1 .. Len(rows'[x]) : dependencies'[x][v] = UnpinnedEntities(rows'[x][v])
  <2>1. /\ \E S : rows[x] \in Seq(S)
        /\ Len(rows[x]) = Len(dependencies[x])
        /\ \A v \in 1 .. Len(rows[x]) : dependencies[x][v] = UnpinnedEntities(rows[x][v])
    BY DEF RowsIInv
  <2>2. CASE x # c
    <3>1. rows'[x] = rows[x] /\ dependencies'[x] = dependencies[x]
      BY <1>1, <1>3, <2>2 DEF RowsIInv, Containers
    <3>2. QED
      BY <2>1, <3>1
  <2>3. CASE x = c
    <3>1. rows'[x] = Append(rows[x], list) /\ dependencies'[x] = Append(dependencies[x], D)
      BY <1>1, <1>3, <2>3 DEF RowsIInv
    <3>2. PICK S : rows[x] \in Seq(S)
      BY <2>1
    <3>3. PICK k \in Nat : k = Len(rows[x])
      BY <3>2, LenProperties
    <3>4. /\ \E T : rows'[x] \in Seq(T)
          /\ Len(rows'[x]) = k + 1
          /\ rows'[x][k + 1] = list
          /\ \A i \in 1 .. k : rows'[x][i] = rows[x][i]
      <4>1. PICK s \in Seq(S) : s = rows[x]
        BY <3>2
      <4>2. /\ \E T : Append(s, list) \in Seq(T)
            /\ Len(Append(s, list)) = Len(s) + 1
            /\ Append(s, list)[Len(s) + 1] = list
            /\ \A i \in 1 .. Len(s) : Append(s, list)[i] = s[i]
        BY AppendAnything, Zenon
      <4>3. rows'[x] = Append(s, list) /\ Len(s) = k
        BY <3>1, <3>3, <4>1
      <4>4. QED
        BY <4>1, <4>2, <4>3, Zenon
    <3>5. dependencies[x] \in Seq(SUBSET Entities) /\ Len(dependencies[x]) = k
      BY <1>3, <2>1, <2>3, <3>3
    <3>6. /\ Len(dependencies'[x]) = k + 1
          /\ dependencies'[x][k + 1] = D
          /\ \A i \in 1 .. k : dependencies'[x][i] = dependencies[x][i]
      BY <3>1, <3>5, AppendAnything
    <3>7. ASSUME NEW v \in 1 .. k + 1
          PROVE  dependencies'[x][v] = UnpinnedEntities(rows'[x][v])
      <4>1. CASE v = k + 1
        BY <3>4, <3>6, <4>1 DEF D
      <4>2. CASE v # k + 1
        <5>1. v \in 1 .. k
          BY <4>2
        <5>2. QED
          BY <2>1, <3>3, <3>4, <3>6, <5>1
      <4>3. QED
        BY <4>1, <4>2
    <3>8. QED
      BY <3>4, <3>6, <3>7
  <2>4. QED
    BY <2>2, <2>3
<1>5. QED
  BY <1>2, <1>4 DEF RowsIInv

\* A change of drafts in a log of its own, after a new version or without one,
\* leaves the drafts closed.
LEMMA ChangeDraftsClosed ==
    ASSUME TypeOK, DraftClosed, NEW target \in [Entities -> Nat], ChangeDrafts(target),
           UNCHANGED openLogs,
           \A X : IsClosed(dependencies, draft, X) => IsClosed(dependencies', draft, X)
    PROVE  DraftClosed'
<1>1. openLogs = << >> /\ openLogs' = << >>
  BY DEF DraftClosed
<1>2. CASE UNCHANGED <<draft, lastDraftLog>>
  BY <1>1, <1>2 DEF DraftClosed
<1>3. CASE /\ lastDraftLog' = lastDraftLog + 1
           /\ draft' = WithSideEffects(dependencies', Repoint(draft, lastDraftLog + 1, target),
                                       lastDraftLog + 1)
  <2>. DEFINE log == lastDraftLog + 1
              br  == Repoint(draft, log, target)
  <2>1. log \in Nat /\ Tables(draft)
    BY TypePoints
  <2>2. Tables(br)
    <3>. HIDE DEF log
    <3>1. QED
      BY <2>1, RepointTables
  <2>3. draft' = WithSideEffects(dependencies', br, log) /\ lastDraftLog' = log
    BY <1>3
  <2>. HIDE DEF log, br
  <2>4. IsClosed(dependencies', draft', ChangedIn(draft', log))
    BY <2>1, <2>2, <2>3, SideEffectsCloseTheLog
  <2>5. QED
    BY <1>1, <2>3, <2>4 DEF DraftClosed
<1>4. QED
  BY <1>1, <1>2, <1>3 DEF ChangeDrafts

\* So do new versions.
LEMMA CreateVersionClosed ==
    ASSUME TypeOK, DraftClosed, NEW e \in Entities, NEW D \in SUBSET Entities,
           CreateVersion(e, D)
    PROVE  DraftClosed'
<1>. DEFINE target == [draft.version EXCEPT ![e] = Len(dependencies[e]) + 1]
<1>1. /\ dependencies' = [dependencies EXCEPT ![e] = Append(@, D)]
      /\ ChangeDrafts(target)
      /\ UNCHANGED openLogs
  BY DEF CreateVersion
<1>2. target \in [Entities -> Nat]
  <2>1. dependencies[e] \in Seq(SUBSET Entities) /\ draft.version \in [Entities -> Nat]
    BY TypePoints DEF Tables
  <2>2. QED
    BY <2>1, LenProperties
<1>3. \A X : IsClosed(dependencies, draft, X)
               => IsClosed([dependencies EXCEPT ![e] = Append(@, D)], draft, X)
  BY TypePoints, NewVersionsKeepClosed
<1>. HIDE DEF target
<1>4. QED
  BY <1>1, <1>2, <1>3, ChangeDraftsClosed

\* The rows of a container and the log of a branch.
LEMMA ClosedLogsTellUsers ==
    ASSUME RowsIInv, NEW br, NEW log, Points(dependencies, br),
           IsClosed(dependencies, br, ChangedIn(br, log)),
           NEW e \in ChangedIn(br, log)
    PROVE  ContainersWithEntity(br, e, TRUE) \subseteq ChangedIn(br, log)
<1>. SUFFICES ASSUME NEW c \in ContainersWithEntity(br, e, TRUE)
              PROVE  c \in ChangedIn(br, log)
  OBVIOUS
<1>. DEFINE v == br.version[c]
<1>1. c \in Containers /\ c \in Entities /\ v # None
  BY DEF ContainersWithEntity, Containers
<1>2. PICK i \in DOMAIN rows[c][v] : rows[c][v][i].entity = e /\ rows[c][v][i].pin = Unpinned
  BY DEF ContainersWithEntity
<1>3. e \in UnpinnedEntities(rows[c][v])
  BY <1>2 DEF UnpinnedEntities
<1>. HIDE DEF v
<1>4. v \in DOMAIN dependencies[c]
  BY <1>1 DEF Points, v
<1>5. DOMAIN dependencies[c] = 1 .. Len(rows[c])
  BY <1>1 DEF RowsIInv
<1>6. e \in dependencies[c][v]
  BY <1>1, <1>3, <1>4, <1>5 DEF RowsIInv
<1>7. c \in DependentsOf(dependencies, br, ChangedIn(br, log))
  BY <1>1, <1>6 DEF DependentsOf, v
<1>8. QED
  BY <1>7 DEF IsClosed

\* The rows agree with the dependencies, and the drafts are closed.
TellIInv == RowsIInv /\ DraftClosed

\* Every call keeps that.
LEMMA RowsAlwaysAgree == ContainersSpec => []TellIInv
<1>1. ContainersInit => TellIInv
  <2>. SUFFICES ASSUME ContainersInit PROVE TellIInv
    OBVIOUS
  <2>1. /\ rows = [c \in Containers |-> << >>]
        /\ dependencies = [e \in Entities |-> << >>]
        /\ openLogs = << >> /\ lastDraftLog = 0
    BY DEF ContainersInit, Init
  <2>2. << >> \in Seq({}) /\ Len(<< >>) = 0
    OBVIOUS
  <2>3. \A c \in Containers : rows[c] = << >> /\ dependencies[c] = << >>
    BY <2>1 DEF Containers
  <2>4. RowsIInv
    BY <2>1, <2>2, <2>3 DEF RowsIInv
  <2>5. QED
    BY <2>1, <2>4 DEF TellIInv, DraftClosed
<1>2. TypeOK /\ TellIInv /\ [ContainersNext]_containersVars => TellIInv'
  <2>. SUFFICES ASSUME TypeOK, RowsIInv, DraftClosed, [ContainersNext]_containersVars
                PROVE  RowsIInv' /\ DraftClosed'
    BY DEF TellIInv
  <2>1. /\ draft.version \in [Entities -> Nat] /\ published.version \in [Entities -> Nat]
        /\ \A X : IsClosed(dependencies, draft, X) => IsClosed(dependencies, draft, X)
    BY TypePoints DEF Tables
  <2>2. ASSUME NEW e \in Entities, CreateComponentVersion(e)
        PROVE  RowsIInv' /\ DraftClosed'
    <3>1. /\ e \notin Containers
          /\ CreateVersion(e, {})
          /\ rows' = rows
      BY <2>2 DEF CreateComponentVersion, Containers
    <3>2. dependencies' = [dependencies EXCEPT ![e] = Append(@, {})]
      BY <3>1 DEF CreateVersion
    <3>3. \A c \in Containers : dependencies'[c] = dependencies[c]
      BY <3>1, <3>2 DEF Containers, TypeOK
    <3>4. RowsIInv'
      BY <3>1, <3>3 DEF RowsIInv, Containers, IsContainer
    <3>5. {} \in SUBSET Entities
      OBVIOUS
    <3>6. DraftClosed'
      BY <3>1, <3>5, CreateVersionClosed
    <3>7. QED
      BY <3>4, <3>6
  <2>3. ASSUME NEW c \in Containers, NEW num, NEW list, NewContainerVersion(c, num, list)
        PROVE  RowsIInv' /\ DraftClosed'
    <3>1. RowsIInv'
      BY <2>3, NewListKeepsRowsIInv
    <3>2. PICK D \in SUBSET Entities : CreateVersion(c, D)
      BY <2>3, NewContainerVersionCreatesVersion
    <3>3. c \in Entities
      BY DEF Containers
    <3>4. QED
      BY <3>1, <3>2, <3>3, CreateVersionClosed
  <2>4. ASSUME NEW c \in Containers,
               \/ CreateNextVersion(c)
               \/ \E list \in ListsFor(c), num \in 1 .. MaxVersionNum :
                      CreateContainerVersion(c, num, list)
        PROVE  \E num, list : NewContainerVersion(c, num, list)
    <3>1. CASE CreateNextVersion(c)
      BY <3>1 DEF CreateNextVersion, RetitleContainer, CreateNextContainerVersion
    <3>2. CASE \E list \in ListsFor(c), num \in 1 .. MaxVersionNum :
                  CreateContainerVersion(c, num, list)
      BY <3>2 DEF CreateContainerVersion
    <3>3. QED
      BY <2>4, <3>1, <3>2
  <2>5. CASE OtherCalls
    <3>1. dependencies' = dependencies /\ openLogs' = openLogs /\ rows' = rows
      BY <2>5 DEF OtherCalls, SetDraftVersion, ResetDraftsToPublished, PublishAllDrafts,
                  PublishFromDrafts
    <3>2. RowsIInv'
      BY <3>1 DEF RowsIInv
    <3>3. CASE draft' = draft /\ lastDraftLog' = lastDraftLog
      BY <3>1, <3>2, <3>3 DEF DraftClosed
    <3>4. ASSUME NEW e \in Entities, NEW v \in 0 .. MaxVersions, SetDraftVersion(e, v)
          PROVE  DraftClosed'
      <4>. DEFINE target == [draft.version EXCEPT ![e] = v]
      <4>1. ChangeDrafts(target)
        BY <3>4 DEF SetDraftVersion
      <4>2. target \in [Entities -> Nat]
        BY <2>1, BoundsAssumption
      <4>. HIDE DEF target
      <4>3. QED
        BY <2>1, <3>1, <4>1, <4>2, ChangeDraftsClosed
    <3>5. CASE ResetDraftsToPublished
      <4>1. ChangeDrafts(published.version)
        BY <3>5 DEF ResetDraftsToPublished
      <4>2. QED
        BY <2>1, <3>1, <3>2, <4>1, ChangeDraftsClosed
    <3>6. QED
      BY <2>5, <3>2, <3>3, <3>4, <3>5 DEF OtherCalls, PublishAllDrafts, PublishFromDrafts
  <2>6. CASE UNCHANGED containersVars
    BY <2>6 DEF containersVars, vars, RowsIInv, DraftClosed
  <2>7. QED
    BY <2>2, <2>3, <2>4, <2>5, <2>6 DEF ContainersNext
<1>3. QED
  BY <1>1, <1>2, ContainersImplementPublishing, TypeCorrect, PTL
     DEF ContainersSpec, ImplementsPublishing

\* A change of an entity is in the log for every container that
\* get_containers_with_entity finds for it, on the draft branch and on the published
\* one.
THEOREM UsersAreAlwaysTold == ContainersSpec => []UsersAreTold
<1>1. TypeOK /\ PublishedClosed /\ TellIInv => UsersAreTold
  <2>. SUFFICES ASSUME TypeOK, PublishedClosed, RowsIInv, DraftClosed PROVE UsersAreTold
    BY DEF TellIInv
  <2>1. lastDraftLog > 0 => \A e \in ChangedIn(draft, lastDraftLog) :
           ContainersWithEntity(draft, e, TRUE) \subseteq ChangedIn(draft, lastDraftLog)
    BY TypePoints, ClosedLogsTellUsers DEF DraftClosed
  <2>2. lastPublishLog > 0 => \A e \in ChangedIn(published, lastPublishLog) :
           ContainersWithEntity(published, e, TRUE) \subseteq ChangedIn(published, lastPublishLog)
    BY TypePoints, ClosedLogsTellUsers DEF PublishedClosed
  <2>3. QED
    BY <2>1, <2>2 DEF UsersAreTold
<1>2. ContainersSpec => []TypeOK /\ []PublishedClosed
  BY ContainersImplementPublishing, TypeCorrect, PublishedAlwaysClosed, PTL
     DEF ImplementsPublishing
<1>3. QED
  BY <1>1, <1>2, RowsAlwaysAgree, PTL

-----------------------------------------------------------------------------
(***************************************************************************)
(* What readers of a container see.  Contexts are not open between the     *)
(* calls on containers, so what is proved of the digests holds of them     *)
(* whatever MaxNesting is.                                                 *)
(***************************************************************************)
LEMMA ContainersAlwaysConsistent ==
    ContainersSpec => [](TypeOK /\ IInv /\ PublishedIInv /\ DigestsIInv /\ TellIInv)
<1>1. TellIInv => NotNested
  BY DEF TellIInv, DraftClosed, NotNested
<1>2. QED
  BY <1>1, RowsAlwaysAgree, ContainersImplementPublishing, TypeCorrect, ConsistentUntilNested,
     PublishHistoriesConsistent, CanonicalUntilNested, PTL DEF ImplementsPublishing

\* Deleted children are left out of what readers get.
DeletedLeftOut(entries) ==
    OnlyIn(entries, {entry \in ToSet(entries) : entry.version # None})

\* A list reads the same when each of its rows does.
LEMMA SameEntries ==
    ASSUME NEW list, NEW version, NEW other,
           \A i \in DOMAIN list : EntryOf(list[i], version) = EntryOf(list[i], other)
    PROVE  Entries(list, version) = Entries(list, other)
<1>1. [i \in DOMAIN list |-> EntryOf(list[i], version)]
        = [i \in DOMAIN list |-> EntryOf(list[i], other)]
  OBVIOUS
<1>2. /\ Entries(list, version) = DeletedLeftOut([i \in DOMAIN list |-> EntryOf(list[i], version)])
      /\ Entries(list, other) = DeletedLeftOut([i \in DOMAIN list |-> EntryOf(list[i], other)])
  BY DEF Entries, DeletedLeftOut
<1>3. QED
  BY <1>1, <1>2, Zenon

\* A list reads the same when its unpinned children have the same versions.
LEMMA SameChildrenSameEntries ==
    ASSUME NEW list, NEW version, NEW other,
           \A e \in UnpinnedEntities(list) : version[e] = other[e]
    PROVE  Entries(list, version) = Entries(list, other)
<1>1. ASSUME NEW i \in DOMAIN list
      PROVE  EntryOf(list[i], version) = EntryOf(list[i], other)
  <2>1. CASE list[i].pin = Unpinned
    <3>1. list[i].entity \in UnpinnedEntities(list)
      BY <2>1 DEF UnpinnedEntities
    <3>2. version[list[i].entity] = other[list[i].entity]
      BY <3>1
    <3>3. QED
      BY <2>1, <3>2 DEF EntryOf
  <2>2. CASE list[i].pin # Unpinned
    BY <2>2 DEF EntryOf
  <2>3. QED
    BY <2>1, <2>2
<1>2. QED
  BY <1>1, SameEntries

\* The unpinned children of a version are what it depends on.
LEMMA DependenciesAreChildren ==
    ASSUME TypeOK, RowsIInv, NEW c \in Containers, NEW v \in DOMAIN dependencies[c]
    PROVE  dependencies[c][v] = UnpinnedEntities(rows[c][v])
<1>1. dependencies[c] \in Seq(SUBSET Entities)
  BY DEF TypeOK, Containers
<1>2. QED
  BY <1>1, LenProperties DEF RowsIInv

\* Entities with a version on the published branch have a Published row.
LEMMA PublishedHaveRows ==
    ASSUME PublishedIInv, NEW e \in Entities, e \notin PublishedRows
    PROVE  published.version[e] = None
<1>1. published.logRecord[e] = NoLog
  BY DEF PublishedRows
<1>2. Consistent(published.records[e], published.version[e], published.logRecord[e],
                 lastPublishLog)
  BY DEF PublishedIInv, Sound
<1>3. QED
  BY <1>1, <1>2 DEF Consistent, LatestLog, NoLog, None

\* A container reads the same on both branches when they agree on it and its children.
LEMMA SameContents ==
    ASSUME TypeOK, RowsIInv, PublishedIInv, NEW c \in Containers,
           draft.version[c] \in DOMAIN dependencies[c],
           draft.version[c] = published.version[c],
           \A d \in dependencies[c][draft.version[c]] : draft.version[d] = published.version[d]
    PROVE  SameForReaders(c)
<1>1. PICK v \in DOMAIN dependencies[c] : v = draft.version[c] /\ v = published.version[c]
  OBVIOUS
<1>2. PICK list : list = rows[c][v]
  OBVIOUS
<1>3. /\ \A e \in UnpinnedEntities(list) : draft.version[e] = published.version[e]
      /\ UnpinnedEntities(list) \subseteq Entities
  <2>1. dependencies[c] \in Seq(SUBSET Entities)
    BY DEF TypeOK, Containers
  <2>2. QED
    BY <1>1, <1>2, <2>1, DependenciesAreChildren
<1>4. Entries(list, draft.version) = Entries(list, published.version)
  BY <1>3, SameChildrenSameEntries
<1>5. DraftContents(c) \in {Raises, Entries(list, draft.version)}
  BY <1>1, <1>2 DEF DraftContents, Read
<1>6. PublishedContents(c) \in {Raises, Entries(list, published.version)}
  BY <1>1, <1>2 DEF PublishedContents, Read
<1>7. \A e \in UnpinnedEntities(list) \ PublishedRows : draft.version[e] = None
  BY <1>3, PublishedHaveRows
<1>8. QED
  BY <1>1, <1>2, <1>4, <1>5, <1>6, <1>7 DEF SameForReaders

\* When contains_unpublished_changes says no, readers of the draft and of the
\* published container get the same children at the same versions, and so do
\* readers of the containers below it, unless a child that was never published
\* makes the published read raise.
THEOREM NoUnpublishedChangesShowTheSame ==
    ContainersSpec => []NoUnpublishedChangesMeansSameContents
<1>1. TypeOK /\ IInv /\ PublishedIInv /\ DigestsIInv /\ TellIInv
        => NoUnpublishedChangesMeansSameContents
  <2>. SUFFICES ASSUME TypeOK, IInv, PublishedIInv, DigestsIInv, TellIInv, openLogs = << >>,
                       NEW c \in Containers, ~ ContainsUnpublishedChanges(c),
                       draft.version[c] # None,
                       NEW x \in {c} \cup (Descendants(dependencies, draft, {c}) \cap Containers),
                       draft.version[x] # None
                PROVE  SameForReaders(x)
    BY DEF NoUnpublishedChangesMeansSameContents
  <2>. DEFINE D == Descendants(dependencies, draft, {c})
  <2>1. c \in Entities /\ x \in Entities /\ x \in Containers
    BY DEF Containers
  <2>2. /\ dependencies \in [Entities -> Seq(SUBSET Entities)]
        /\ Points(dependencies, draft) /\ Points(dependencies, published)
    BY TypePoints
  <2>3. TreeOf(dependencies, draft, c) = TreeOf(dependencies, published, c)
    BY <2>1, DigestsTell
  <2>4. \A d : d \in {c} \cup D => draft.version[d] = published.version[d]
    BY <2>1, <2>2, <2>3, DifferenceBelowShows
  <2>5. dependencies[x][draft.version[x]] \in SUBSET Entities
    BY <2>1, <2>2, VersionDependsOnEntities
  <2>6. dependencies[x][draft.version[x]] \cap Entities \subseteq D
    BY <2>1, DescendantsAreLeast
  <2>. HIDE DEF D
  <2>7. x \in {c} \cup D
    BY DEF D
  <2>8. draft.version[x] \in DOMAIN dependencies[x]
    BY <2>1, <2>2 DEF Points
  <2>9. \A d \in dependencies[x][draft.version[x]] : draft.version[d] = published.version[d]
    BY <2>4, <2>5, <2>6
  <2>10. QED
    BY <2>1, <2>4, <2>7, <2>8, <2>9, SameContents DEF TellIInv
<1>2. QED
  BY <1>1, ContainersAlwaysConsistent, PTL

-----------------------------------------------------------------------------
(***************************************************************************)
(* Readers of the past.  What get_published_version_as_of reads for a      *)
(* PublishLog are versions that exist, and lists are only ever added, so   *)
(* the list that is read for a container stays the one it was.             *)
(***************************************************************************)
CreatedReleases ==
    \A log \in 1 .. lastPublishLog : \A e \in Entities :
        ReleasesRead[log][e] \in {None} \cup DOMAIN dependencies[e]

\* Releases are added by publishing, and stay.
LEMMA ReleasesStay ==
    ASSUME TypeOK, PublishedIInv, PublishedOrdered, TypeOK', PublishedIInv', PublishedOrdered',
           [Next]_vars
    PROVE  /\ lastPublishLog' \in {lastPublishLog, lastPublishLog + 1}
           /\ \A log \in 1 .. lastPublishLog : ReleasesRead'[log] = ReleasesRead[log]
           /\ lastPublishLog' # lastPublishLog
                => ReleasesRead'[lastPublishLog'] = published'.version
           /\ \A e \in Entities : DOMAIN dependencies[e] \subseteq DOMAIN dependencies'[e]
<1>1. ASSUME NEW S, NEW withDependencies, NEW filtered,
             PublishFromDrafts(S, withDependencies, filtered)
      PROVE  /\ lastPublishLog' = lastPublishLog + 1
             /\ \A log \in 1 .. lastPublishLog : ReleasesRead'[log] = ReleasesRead[log]
             /\ ReleasesRead'[lastPublishLog'] = published'.version
             /\ dependencies' = dependencies
  <2>1. ReleasesRead' = Append(ReleasesRead, published'.version)
    BY <1>1, PublishAppendsRelease
  <2>2. lastPublishLog' = lastPublishLog + 1 /\ dependencies' = dependencies
    BY <1>1 DEF PublishFromDrafts
  <2>3. PICK n \in Nat : n = lastPublishLog
    BY TypePoints
  <2>4. PICK reads : reads = ReleasesRead
    OBVIOUS
  <2>. DEFINE Reads == {reads[log] : log \in 1 .. n}
  <2>. reads \in Seq(Reads) /\ Len(reads) = n
    <3>1. reads = [log \in 1 .. n |-> reads[log]]
      BY <2>3, <2>4 DEF ReleasesRead
    <3>2. \A log \in 1 .. n : reads[log] \in Reads
      OBVIOUS
    <3>. HIDE DEF Reads
    <3>3. QED
      BY <3>1, <3>2
  <2>. HIDE DEF Reads
  <2>5. /\ Append(reads, published'.version)[n + 1] = published'.version
        /\ \A log \in 1 .. n : Append(reads, published'.version)[log] = reads[log]
    BY AppendAnything
  <2>6. QED
    BY <2>1, <2>2, <2>3, <2>4, <2>5
<1>2. CASE /\ published' = published /\ lastPublishLog' = lastPublishLog
          /\ dependencies' = dependencies
  <2>1. ReleasesRead' = ReleasesRead
    BY <1>2 DEF ReleasesRead
  <2>2. QED
    BY <1>2, <2>1
<1>3. ASSUME NEW e \in Entities, NEW D \in SUBSET {d \in Entities : Level[d] < Level[e]},
             CreateVersion(e, D)
      PROVE  /\ published' = published /\ lastPublishLog' = lastPublishLog
             /\ \A x \in Entities : DOMAIN dependencies[x] \subseteq DOMAIN dependencies'[x]
  <2>1. dependencies' = [dependencies EXCEPT ![e] = Append(@, D)]
    BY <1>3 DEF CreateVersion
  <2>2. D \in SUBSET Entities
    OBVIOUS
  <2>3. \A x \in Entities : DOMAIN dependencies[x] \subseteq DOMAIN dependencies'[x]
    BY <2>1, <2>2, TypePoints, VersionsStay
  <2>4. QED
    BY <1>3, <2>3 DEF CreateVersion
<1>4. CASE \E e \in Entities : \E D \in SUBSET {d \in Entities : Level[d] < Level[e]} :
              CreateVersion(e, D)
  <2>1. /\ published' = published /\ lastPublishLog' = lastPublishLog
        /\ \A x \in Entities : DOMAIN dependencies[x] \subseteq DOMAIN dependencies'[x]
    BY <1>3, <1>4
  <2>2. ReleasesRead' = ReleasesRead
    BY <2>1 DEF ReleasesRead
  <2>3. QED
    BY <2>1, <2>2
<1>5. CASE \/ \E e \in Entities, v \in 0 .. MaxVersions : SetDraftVersion(e, v)
           \/ ResetDraftsToPublished \/ BeginBulk \/ EndBulk \/ UNCHANGED vars
  BY <1>2, <1>5 DEF SetDraftVersion, ResetDraftsToPublished, BeginBulk, EndBulk, vars
<1>6. QED
  BY <1>1, <1>4, <1>5 DEF Next, PublishAllDrafts

\* So releases are of versions that exist.
LEMMA ReleasesAlwaysCreated == Spec => []CreatedReleases
<1>1. Init => CreatedReleases
  BY DEF Init, CreatedReleases
<1>2. TypeOK /\ PublishedIInv /\ PublishedOrdered /\ TypeOK' /\ PublishedIInv'
        /\ PublishedOrdered' /\ CreatedReleases /\ [Next]_vars => CreatedReleases'
  <2>. SUFFICES ASSUME TypeOK, PublishedIInv, PublishedOrdered, TypeOK', PublishedIInv',
                       PublishedOrdered', CreatedReleases, [Next]_vars
                PROVE  CreatedReleases'
    OBVIOUS
  <2>. SUFFICES ASSUME NEW log \in 1 .. lastPublishLog', NEW e \in Entities
                PROVE  ReleasesRead'[log][e] \in {None} \cup DOMAIN dependencies'[e]
    BY DEF CreatedReleases
  <2>1. lastPublishLog \in Nat
    BY TypePoints
  <2>2. /\ lastPublishLog' \in {lastPublishLog, lastPublishLog + 1}
        /\ \A l \in 1 .. lastPublishLog : ReleasesRead'[l] = ReleasesRead[l]
        /\ lastPublishLog' # lastPublishLog
             => ReleasesRead'[lastPublishLog'] = published'.version
        /\ \A x \in Entities : DOMAIN dependencies[x] \subseteq DOMAIN dependencies'[x]
    BY ReleasesStay, Zenon
  <2>3. CASE log \in 1 .. lastPublishLog
    BY <2>1, <2>2, <2>3 DEF CreatedReleases
  <2>4. CASE log \notin 1 .. lastPublishLog
    <3>1. log = lastPublishLog' /\ lastPublishLog' # lastPublishLog
      BY <2>1, <2>2, <2>4
    <3>2. published'.version[e] \in {None} \cup DOMAIN dependencies'[e]
      BY DEF TypeOK, BranchTypeOK
    <3>3. QED
      BY <2>2, <3>1, <3>2
  <2>5. QED
    BY <2>3, <2>4
<1>3. QED
  BY <1>1, <1>2, TypeCorrect, PublishHistoriesConsistent, PublishedInOrder, PTL DEF Spec

\* What is read of a container when the branch was at `version`.
ReadAt(lists, version, c) ==
    IF version[c] = None THEN NotPublished ELSE Entries(lists[c][version[c]], version)

\* Reading as of a PublishLog is reading its release.
LEMMA AsOfReadsRelease ==
    ASSUME NEW c \in Entities
    PROVE  /\ \A log \in 1 .. lastPublishLog :
                 ContentsAsOf(c, log) = ReadAt(rows, ReleasesRead[log], c)
           /\ \A log \in 1 .. lastPublishLog' :
                 ContentsAsOf(c, log)' = ReadAt(rows', ReleasesRead'[log], c)
  BY DEF ContentsAsOf, ReadAt, ReleasesRead, VersionsAsOf

\* The list of a version stays.
LEMMA ListsStay ==
    ASSUME TypeOK, RowsIInv, [ContainersNext]_containersVars,
           NEW c \in Containers, NEW v \in DOMAIN dependencies[c]
    PROVE  rows'[c][v] = rows[c][v]
<1>1. v \in 1 .. Len(rows[c])
  <2>1. dependencies[c] \in Seq(SUBSET Entities)
    BY DEF TypeOK, Containers
  <2>2. QED
    BY <2>1, LenProperties DEF RowsIInv
<1>2. CASE rows' = rows
  BY <1>2
<1>3. ASSUME NEW x \in Containers, NEW num, NEW list, NewContainerVersion(x, num, list)
      PROVE  rows'[c][v] = rows[c][v]
  <2>1. rows' = [rows EXCEPT ![x] = Append(@, list)]
    BY <1>3 DEF NewContainerVersion
  <2>2. CASE c # x
    BY <2>1, <2>2 DEF RowsIInv
  <2>3. CASE c = x
    <3>1. rows'[c] = Append(rows[c], list)
      BY <2>1, <2>3 DEF RowsIInv
    <3>2. PICK S : rows[c] \in Seq(S)
      BY DEF RowsIInv
    <3>3. PICK s \in Seq(S) : s = rows[c]
      BY <3>2
    <3>4. \A i \in 1 .. Len(s) : Append(s, list)[i] = s[i]
      BY AppendAnything
    <3>5. QED
      BY <1>1, <3>1, <3>3, <3>4
  <2>4. QED
    BY <2>2, <2>3
<1>4. CASE \E x \in Containers :
             \/ CreateNextVersion(x)
             \/ \E list \in ListsFor(x), num \in 1 .. MaxVersionNum :
                    CreateContainerVersion(x, num, list)
  <2>1. \E x \in Containers : \E num, list : NewContainerVersion(x, num, list)
    BY <1>4 DEF CreateNextVersion, RetitleContainer, CreateNextContainerVersion,
                CreateContainerVersion
  <2>2. QED
    BY <1>3, <2>1
<1>5. QED
  BY <1>2, <1>4 DEF ContainersNext, CreateComponentVersion, OtherCalls, containersVars

\* A published container read as of a PublishLog gives what it gave right after
\* that publish, at every later time.
THEOREM PastContentsAlwaysStay == ContainersSpec => PastContentsStay
<1>1. ASSUME TypeOK, PublishedIInv, PublishedOrdered, TypeOK', PublishedIInv', PublishedOrdered',
             CreatedReleases, RowsIInv, [ContainersNext]_containersVars,
             NEW c \in Containers
      PROVE  /\ \A log \in 1 .. lastPublishLog : ContentsAsOf(c, log)' = ContentsAsOf(c, log)
             /\ lastPublishLog' # lastPublishLog =>
                    (IF published.version[c] = None
                       THEN ContentsAsOf(c, lastPublishLog) = NotPublished
                       ELSE PublishedContents(c) # Raises =>
                              ContentsAsOf(c, lastPublishLog) = PublishedContents(c))'
  <2>1. c \in Entities /\ lastPublishLog \in Nat
    BY <1>1, TypePoints DEF Containers
  <2>2. [Next]_vars
    BY <1>1, ContainersStep DEF containersVars
  <2>3. /\ lastPublishLog' \in {lastPublishLog, lastPublishLog + 1}
        /\ \A log \in 1 .. lastPublishLog : ReleasesRead'[log] = ReleasesRead[log]
        /\ lastPublishLog' # lastPublishLog
             => ReleasesRead'[lastPublishLog'] = published'.version
    BY <1>1, <2>2, ReleasesStay, Zenon
  <2>4. ASSUME NEW log \in 1 .. lastPublishLog
        PROVE  ContentsAsOf(c, log)' = ContentsAsOf(c, log)
    <3>1. PICK version : version = ReleasesRead[log] /\ version = ReleasesRead'[log]
      BY <2>3
    <3>2. version[c] = None \/ rows'[c][version[c]] = rows[c][version[c]]
      <4>1. version[c] \in {None} \cup DOMAIN dependencies[c]
        BY <1>1, <2>1, <3>1 DEF CreatedReleases
      <4>2. CASE version[c] # None
        BY <1>1, <4>1, <4>2, ListsStay
      <4>3. QED
        BY <4>2
    <3>3. ReadAt(rows', version, c) = ReadAt(rows, version, c)
      BY <3>2 DEF ReadAt
    <3>4. ContentsAsOf(c, log) = ReadAt(rows, version, c)
      BY <2>1, <3>1, AsOfReadsRelease
    <3>5. log \in 1 .. lastPublishLog'
      BY <2>1, <2>3
    <3>6. ContentsAsOf(c, log)' = ReadAt(rows', version, c)
      BY <2>1, <3>1, <3>5, AsOfReadsRelease
    <3>7. QED
      BY <3>3, <3>4, <3>6
  <2>5. ASSUME lastPublishLog' # lastPublishLog
        PROVE  (IF published.version[c] = None
                  THEN ContentsAsOf(c, lastPublishLog) = NotPublished
                  ELSE PublishedContents(c) # Raises =>
                         ContentsAsOf(c, lastPublishLog) = PublishedContents(c))'
    <3>1. PICK log \in 1 .. lastPublishLog' : log = lastPublishLog'
      BY <2>1, <2>3, <2>5
    <3>2. ReleasesRead'[log] = published'.version
      BY <2>3, <2>5, <3>1
    <3>3. ContentsAsOf(c, log)' = ReadAt(rows', published'.version, c)
      BY <2>1, <3>2, AsOfReadsRelease
    <3>4. /\ published'.version[c] = None => ReadAt(rows', published'.version, c) = NotPublished
          /\ published'.version[c] # None /\ PublishedContents(c)' # Raises =>
                ReadAt(rows', published'.version, c) = PublishedContents(c)'
      BY DEF ReadAt, PublishedContents, Read, PublishedRows
    <3>5. ContentsAsOf(c, lastPublishLog)' = ContentsAsOf(c, log)'
      BY <3>1 DEF ContentsAsOf, VersionsAsOf
    <3>6. Raises' = Raises /\ NotPublished' = NotPublished
      BY DEF Raises, NotPublished, Entry
    <3>7. QED
      BY <3>3, <3>4, <3>5, <3>6
  <2>6. QED
    BY <2>4, <2>5
<1>2. TypeOK /\ PublishedIInv /\ PublishedOrdered /\ TypeOK' /\ PublishedIInv'
        /\ PublishedOrdered' /\ CreatedReleases /\ TellIInv /\ [ContainersNext]_containersVars
        => [/\ \A log \in 1 .. lastPublishLog :
                 \A c \in Containers : ContentsAsOf(c, log)' = ContentsAsOf(c, log)
            /\ lastPublishLog' # lastPublishLog =>
                 \A c \in Containers :
                     (IF published.version[c] = None
                        THEN ContentsAsOf(c, lastPublishLog) = NotPublished
                        ELSE PublishedContents(c) # Raises =>
                               ContentsAsOf(c, lastPublishLog) = PublishedContents(c))'
           ]_containersVars
  BY <1>1 DEF TellIInv
<1>3. ContainersSpec => [](TypeOK /\ PublishedIInv /\ PublishedOrdered /\ CreatedReleases)
  BY ContainersImplementPublishing, TypeCorrect, PublishHistoriesConsistent, PublishedInOrder,
     ReleasesAlwaysCreated, PTL DEF ImplementsPublishing
<1>4. QED
  BY <1>2, <1>3, RowsAlwaysAgree, PTL DEF ContainersSpec, PastContentsStay

-----------------------------------------------------------------------------
(***************************************************************************)
(* Lists with items left out.  OnlyIn goes over a list from its first item *)
(* to its last: that such a function over the prefixes exists, and that a  *)
(* longer list has the shorter one's, is by the shortest prefix for which  *)
(* it fails.                                                               *)
(***************************************************************************)
Filters(f, list, kept, m) ==
    f = [n \in 0 .. m |->
            IF n = 0 THEN << >>
            ELSE IF list[n] \in kept THEN Append(f[n - 1], list[n])
            ELSE f[n - 1]]

\* Every prefix of a list can be filtered.
LEMMA FiltersExist ==
    ASSUME NEW list, NEW kept, NEW len \in Nat
    PROVE  \E f : Filters(f, list, kept, len)
<1>. DEFINE Fails == {m \in Nat : ~ \E f : Filters(f, list, kept, m)}
<1>1. SUFFICES ASSUME Fails # {} PROVE FALSE
  OBVIOUS
<1>2. PICK m \in Fails : \A k \in Fails : m <= k
  BY <1>1, LeastNumber
<1>3. m # 0
  <2>1. SUFFICES Filters([n \in 0 .. 0 |-> << >>], list, kept, 0)
    OBVIOUS
  <2>2. QED
    BY DEF Filters
<1>4. m - 1 \in Nat /\ m - 1 \notin Fails
  BY <1>2, <1>3
<1>5. PICK f : Filters(f, list, kept, m - 1)
  BY <1>4
<1>. DEFINE longer == [n \in 0 .. m |->
                IF n < m THEN f[n]
                ELSE IF list[n] \in kept THEN Append(f[n - 1], list[n]) ELSE f[n - 1]]
<1>6. ASSUME NEW n \in 0 .. m
      PROVE  longer[n] = IF n = 0 THEN << >>
                         ELSE IF list[n] \in kept THEN Append(longer[n - 1], list[n])
                         ELSE longer[n - 1]
  <2>1. CASE n = 0
    <3>1. longer[n] = f[n] /\ n \in 0 .. m - 1
      BY <1>3, <2>1
    <3>2. QED
      BY <1>5, <2>1, <3>1 DEF Filters
  <2>2. CASE n # 0 /\ n < m
    <3>1. n \in 0 .. m - 1 /\ longer[n] = f[n] /\ longer[n - 1] = f[n - 1]
      BY <2>2
    <3>2. f[n] = IF list[n] \in kept THEN Append(f[n - 1], list[n]) ELSE f[n - 1]
      BY <1>5, <2>2, <3>1 DEF Filters
    <3>3. QED
      BY <2>2, <3>1, <3>2
  <2>3. CASE n = m
    <3>1. longer[n - 1] = f[n - 1]
      BY <1>3, <2>3
    <3>2. QED
      BY <1>3, <2>3, <3>1
  <2>4. QED
    BY <2>1, <2>2, <2>3
<1>7. Filters(longer, list, kept, m)
  <2>1. DOMAIN longer = 0 .. m /\ longer = [n \in 0 .. m |-> longer[n]]
    OBVIOUS
  <2>. HIDE DEF longer
  <2>2. QED
    BY <1>6, <2>1 DEF Filters
<1>8. QED
  BY <1>2, <1>7

\* What OnlyIn computes.
LEMMA OnlyInFilters ==
    ASSUME NEW list, NEW kept, Len(list) \in Nat
    PROVE  \E f : Filters(f, list, kept, Len(list)) /\ OnlyIn(list, kept) = f[Len(list)]
<1>. DEFINE Is(f) == f = [n \in 0 .. Len(list) |->
            IF n = 0 THEN << >>
            ELSE IF list[n] \in kept THEN Append(f[n - 1], list[n])
            ELSE f[n - 1]]
            upTo == CHOOSE f : Is(f)
<1>1. OnlyIn(list, kept) = upTo[Len(list)]
  BY DEF OnlyIn
<1>2. PICK f : Filters(f, list, kept, Len(list))
  BY FiltersExist
<1>3. Is(upTo)
  <2>1. Is(f)
    BY <1>2 DEF Filters
  <2>. HIDE DEF Is
  <2>2. QED
    BY <2>1
<1>4. Filters(upTo, list, kept, Len(list))
  BY <1>3 DEF Filters
<1>5. QED
  BY <1>1, <1>4

\* Lists that start the same are filtered the same, as far as they are the same.
LEMMA FiltersAgree ==
    ASSUME NEW f, NEW g, NEW list, NEW longer, NEW kept, NEW m \in Nat, NEW len \in Nat,
           m <= len, Filters(f, list, kept, m), Filters(g, longer, kept, len),
           \A n \in 1 .. m : list[n] = longer[n]
    PROVE  f[m] = g[m]
<1>. DEFINE Differ == {n \in Nat : n <= m /\ f[n] # g[n]}
<1>1. SUFFICES ASSUME Differ # {} PROVE FALSE
  OBVIOUS
<1>2. PICK n \in Differ : \A k \in Differ : n <= k
  BY <1>1, LeastNumber
<1>3. n \in 0 .. m /\ n \in 0 .. len
  BY <1>2
<1>4. /\ f[n] = IF n = 0 THEN << >>
                ELSE IF list[n] \in kept THEN Append(f[n - 1], list[n]) ELSE f[n - 1]
      /\ g[n] = IF n = 0 THEN << >>
                ELSE IF longer[n] \in kept THEN Append(g[n - 1], longer[n]) ELSE g[n - 1]
  BY <1>3 DEF Filters
<1>5. n # 0
  BY <1>2, <1>4
<1>6. n - 1 \in Nat /\ n - 1 \notin Differ /\ n \in 1 .. m
  BY <1>2, <1>3, <1>5
<1>7. f[n - 1] = g[n - 1] /\ list[n] = longer[n]
  BY <1>3, <1>6
<1>8. QED
  BY <1>2, <1>4, <1>5, <1>7

\* Nothing is left of the empty list.
LEMMA OnlyInEmpty ==
    ASSUME NEW kept
    PROVE  OnlyIn(<< >>, kept) = << >>
<1>1. Len(<< >>) = 0
  BY EmptySeq
<1>2. PICK f : Filters(f, << >>, kept, 0) /\ OnlyIn(<< >>, kept) = f[0]
  BY <1>1, OnlyInFilters
<1>3. f[0] = << >>
  BY <1>2 DEF Filters
<1>4. QED
  BY <1>2, <1>3

\* The last item of a list is kept or left out, and so is the rest.
LEMMA OnlyInAppend ==
    ASSUME NEW S, NEW list \in Seq(S), NEW item \in S, NEW kept
    PROVE  OnlyIn(Append(list, item), kept) =
              IF item \in kept THEN Append(OnlyIn(list, kept), item) ELSE OnlyIn(list, kept)
<1>1. PICK longer : longer = Append(list, item)
  OBVIOUS
<1>2. PICK len \in Nat : len = Len(list)
  BY LenProperties
<1>3. /\ Len(longer) = len + 1
      /\ longer[len + 1] = item
      /\ \A n \in 1 .. len : list[n] = longer[n]
  BY <1>1, <1>2, AppendProperties
<1>4. PICK f : Filters(f, list, kept, len) /\ OnlyIn(list, kept) = f[len]
  BY <1>2, OnlyInFilters
<1>5. PICK g : Filters(g, longer, kept, len + 1) /\ OnlyIn(longer, kept) = g[len + 1]
  <2>1. Len(longer) \in Nat
    BY <1>3
  <2>2. QED
    BY <1>3, <2>1, OnlyInFilters
<1>6. f[len] = g[len]
  <2>1. len + 1 \in Nat /\ len <= len + 1
    OBVIOUS
  <2>2. QED
    BY <1>3, <1>4, <1>5, <2>1, FiltersAgree
<1>7. g[len + 1] = IF item \in kept THEN Append(g[len], item) ELSE g[len]
  <2>1. len + 1 \in 0 .. len + 1 /\ len + 1 # 0 /\ (len + 1) - 1 = len
    OBVIOUS
  <2>2. QED
    BY <1>3, <1>5, <2>1 DEF Filters
<1>8. QED
  BY <1>1, <1>4, <1>5, <1>6, <1>7

\* Leaving items out is the same for two sets that have the same of the items.
LEMMA OnlyInSame ==
    ASSUME NEW S, NEW list \in Seq(S), NEW kept, NEW other,
           \A i \in DOMAIN list : list[i] \in kept <=> list[i] \in other
    PROVE  OnlyIn(list, kept) = OnlyIn(list, other)
<1>1. PICK len \in Nat : len = Len(list) /\ DOMAIN list = 1 .. len
  BY LenProperties
<1>2. PICK f : Filters(f, list, kept, len) /\ OnlyIn(list, kept) = f[len]
  BY <1>1, OnlyInFilters
<1>3. PICK g : Filters(g, list, other, len) /\ OnlyIn(list, other) = g[len]
  BY <1>1, OnlyInFilters
<1>4. Filters(f, list, other, len)
  <2>1. \A n \in 0 .. len : n # 0 => (list[n] \in kept <=> list[n] \in other)
    BY <1>1
  <2>2. f = [n \in 0 .. len |->
            IF n = 0 THEN << >>
            ELSE IF list[n] \in other THEN Append(f[n - 1], list[n])
            ELSE f[n - 1]]
    BY <1>2, <2>1 DEF Filters
  <2>3. QED
    BY <2>2 DEF Filters
<1>5. f[len] = g[len]
  BY <1>3, <1>4, FiltersAgree
<1>6. QED
  BY <1>2, <1>3, <1>5

\* A list for which something fails, when there is one, has a shortest prefix
\* for which it does.
LEMMA ShortestList ==
    ASSUME NEW S, NEW Fail \in SUBSET Seq(S), Fail # {}, << >> \notin Fail
    PROVE  \E list \in Seq(S), item \in S : list \notin Fail /\ Append(list, item) \in Fail
<1>. DEFINE Lengths == {n \in Nat : \E list \in Fail : Len(list) = n}
<1>1. Lengths \in SUBSET Nat /\ Lengths # {}
  BY LenProperties
<1>2. PICK n \in Lengths : \A m \in Lengths : n <= m
  BY <1>1, LeastNumber
<1>3. PICK longer \in Fail : Len(longer) = n
  BY <1>2
<1>4. longer \in Seq(S) /\ longer # << >>
  BY <1>3
<1>5. PICK list \in Seq(S), item \in S : longer = Append(list, item)
  BY <1>4, SequenceEmptyOrAppend
<1>6. Len(longer) = Len(list) + 1 /\ Len(list) \in Nat
  BY <1>5, AppendProperties, LenProperties
<1>7. Len(list) \notin Lengths
  BY <1>2, <1>3, <1>6
<1>8. list \notin Fail
  BY <1>6, <1>7
<1>9. QED
  BY <1>3, <1>5, <1>8

\* What is left are items of the list that are kept.
LEMMA OnlyInType ==
    ASSUME NEW S, NEW list \in Seq(S), NEW kept
    PROVE  OnlyIn(list, kept) \in Seq(S \cap kept)
<1>. DEFINE Fail == {l \in Seq(S) : OnlyIn(l, kept) \notin Seq(S \cap kept)}
<1>1. << >> \notin Fail
  BY OnlyInEmpty, EmptySeq
<1>2. SUFFICES ASSUME Fail # {} PROVE FALSE
  OBVIOUS
<1>3. PICK l \in Seq(S), item \in S : l \notin Fail /\ Append(l, item) \in Fail
  <2>1. Fail \in SUBSET Seq(S)
    OBVIOUS
  <2>. HIDE DEF Fail
  <2>2. QED
    BY <1>1, <1>2, <2>1, ShortestList
<1>4. OnlyIn(l, kept) \in Seq(S \cap kept)
  BY <1>3
<1>5. OnlyIn(Append(l, item), kept) \in Seq(S \cap kept)
  <2>1. PICK before : before = OnlyIn(l, kept)
    OBVIOUS
  <2>2. OnlyIn(Append(l, item), kept) = IF item \in kept THEN Append(before, item) ELSE before
    BY <2>1, OnlyInAppend
  <2>3. item \in kept => Append(before, item) \in Seq(S \cap kept)
    BY <1>4, <2>1, AppendProperties
  <2>4. QED
    BY <1>4, <2>1, <2>2, <2>3
<1>6. QED
  BY <1>3, <1>5

\* Of two lists one after the other, the items of the one and then of the other
\* are left.
LEMMA OnlyInConcat ==
    ASSUME NEW S, NEW list \in Seq(S), NEW given \in Seq(S), NEW kept
    PROVE  OnlyIn(list \o given, kept) = OnlyIn(list, kept) \o OnlyIn(given, kept)
<1>. DEFINE Fail == {l \in Seq(S) :
                OnlyIn(list \o l, kept) # OnlyIn(list, kept) \o OnlyIn(l, kept)}
<1>1. PICK before \in Seq(S) : before = OnlyIn(list, kept)
  <2>1. OnlyIn(list, kept) \in Seq(S \cap kept)
    BY OnlyInType
  <2>2. QED
    BY <2>1, SeqMonotonic
<1>2. << >> \notin Fail
  <2>1. list \o << >> = list /\ before \o << >> = before
    BY ConcatEmptySeq
  <2>2. QED
    BY <1>1, <2>1, OnlyInEmpty
<1>3. SUFFICES ASSUME Fail # {} PROVE FALSE
  OBVIOUS
<1>4. PICK l \in Seq(S), item \in S : l \notin Fail /\ Append(l, item) \in Fail
  <2>1. Fail \in SUBSET Seq(S)
    OBVIOUS
  <2>. HIDE DEF Fail
  <2>2. QED
    BY <1>2, <1>3, <2>1, ShortestList
<1>5. PICK left \in Seq(S) : left = OnlyIn(l, kept)
  <2>1. OnlyIn(l, kept) \in Seq(S \cap kept)
    BY OnlyInType
  <2>2. QED
    BY <2>1, SeqMonotonic
<1>6. PICK both \in Seq(S) : both = list \o l
  BY ConcatProperties
<1>7. OnlyIn(both, kept) = before \o left
  BY <1>1, <1>4, <1>5, <1>6
<1>8. list \o Append(l, item) = Append(both, item)
  <2>1. Append(l, item) = l \o <<item>> /\ Append(both, item) = both \o <<item>>
    BY AppendIsConcat
  <2>2. <<item>> \in Seq(S)
    OBVIOUS
  <2>3. (list \o l) \o <<item>> = list \o (l \o <<item>>)
    BY <2>2, ConcatAssociative
  <2>4. QED
    BY <1>6, <2>1, <2>3
<1>9. before \o Append(left, item) = Append(before \o left, item)
  <2>1. before \o left \in Seq(S)
    BY ConcatProperties
  <2>2. Append(left, item) = left \o <<item>>
    BY AppendIsConcat
  <2>3. Append(before \o left, item) = (before \o left) \o <<item>>
    BY <2>1, AppendIsConcat
  <2>4. <<item>> \in Seq(S)
    OBVIOUS
  <2>5. (before \o left) \o <<item>> = before \o (left \o <<item>>)
    BY <2>4, ConcatAssociative
  <2>6. QED
    BY <2>2, <2>3, <2>5
<1>10. /\ OnlyIn(Append(both, item), kept) =
            IF item \in kept THEN Append(before \o left, item) ELSE before \o left
       /\ OnlyIn(Append(l, item), kept) =
            IF item \in kept THEN Append(left, item) ELSE left
  BY <1>5, <1>7, OnlyInAppend
<1>11. OnlyIn(list \o Append(l, item), kept)
          = OnlyIn(list, kept) \o OnlyIn(Append(l, item), kept)
  BY <1>1, <1>8, <1>9, <1>10
<1>12. QED
  BY <1>4, <1>11

\* Leaving out twice.
LEMMA OnlyInTwice ==
    ASSUME NEW S, NEW list \in Seq(S), NEW kept, NEW other
    PROVE  OnlyIn(OnlyIn(list, kept), other) = OnlyIn(list, kept \cap other)
<1>. DEFINE Fail == {l \in Seq(S) :
                OnlyIn(OnlyIn(l, kept), other) # OnlyIn(l, kept \cap other)}
<1>1. << >> \notin Fail
  BY OnlyInEmpty
<1>2. SUFFICES ASSUME Fail # {} PROVE FALSE
  OBVIOUS
<1>3. PICK l \in Seq(S), item \in S : l \notin Fail /\ Append(l, item) \in Fail
  <2>1. Fail \in SUBSET Seq(S)
    OBVIOUS
  <2>. HIDE DEF Fail
  <2>2. QED
    BY <1>1, <1>2, <2>1, ShortestList
<1>4. PICK left \in Seq(S) : left = OnlyIn(l, kept)
  <2>1. OnlyIn(l, kept) \in Seq(S \cap kept)
    BY OnlyInType
  <2>2. QED
    BY <2>1, SeqMonotonic
<1>5. OnlyIn(left, other) = OnlyIn(l, kept \cap other)
  BY <1>3, <1>4
<1>6. OnlyIn(Append(l, item), kept) = IF item \in kept THEN Append(left, item) ELSE left
  BY <1>4, OnlyInAppend
<1>7. OnlyIn(Append(left, item), other)
        = IF item \in other THEN Append(OnlyIn(left, other), item) ELSE OnlyIn(left, other)
  BY OnlyInAppend
<1>8. OnlyIn(Append(l, item), kept \cap other)
        = IF item \in kept \cap other THEN Append(OnlyIn(l, kept \cap other), item)
          ELSE OnlyIn(l, kept \cap other)
  BY OnlyInAppend
<1>9. OnlyIn(OnlyIn(Append(l, item), kept), other) = OnlyIn(Append(l, item), kept \cap other)
  <2>1. CASE item \in kept
    <3>1. OnlyIn(Append(l, item), kept) = Append(left, item)
      BY <1>6, <2>1
    <3>2. item \in kept \cap other <=> item \in other
      BY <2>1
    <3>3. OnlyIn(Append(left, item), other) = OnlyIn(Append(l, item), kept \cap other)
      <4>1. CASE item \in other
        <5>1. OnlyIn(Append(left, item), other) = Append(OnlyIn(left, other), item)
          BY <1>7, <4>1
        <5>2. OnlyIn(Append(l, item), kept \cap other)
                = Append(OnlyIn(l, kept \cap other), item)
          BY <1>8, <3>2, <4>1
        <5>3. QED
          BY <1>5, <5>1, <5>2, Zenon
      <4>2. CASE item \notin other
        BY <1>5, <1>7, <1>8, <3>2, <4>2
      <4>3. QED
        BY <4>1, <4>2
    <3>4. QED
      BY <3>1, <3>3, Zenon
  <2>2. CASE item \notin kept
    BY <1>5, <1>6, <1>8, <2>2
  <2>3. QED
    BY <2>1, <2>2
<1>10. QED
  BY <1>3, <1>9

\* Each item replaced by what a function makes of it.
Image(list, g) == [i \in DOMAIN list |-> g[list[i]]]
Values(S, g) == {g[item] : item \in S}

\* The image of a list is a list of the same length, item by item.
LEMMA ImageType ==
    ASSUME NEW S, NEW g, NEW list \in Seq(S)
    PROVE  /\ Image(list, g) \in Seq(Values(S, g))
           /\ Len(Image(list, g)) = Len(list)
           /\ \A i \in 1 .. Len(list) : Image(list, g)[i] = g[list[i]]
<1>1. PICK n \in Nat : n = Len(list) /\ DOMAIN list = 1 .. n
  BY LenProperties
<1>2. \A i \in 1 .. n : g[list[i]] \in Values(S, g)
  BY <1>1 DEF Values
<1>3. Image(list, g) = [i \in 1 .. n |-> g[list[i]]]
  BY <1>1 DEF Image
<1>4. QED
  BY <1>1, <1>2, <1>3

\* The image of a list grows by one when the list does.
LEMMA ImageAppend ==
    ASSUME NEW S, NEW g, NEW list \in Seq(S), NEW item \in S
    PROVE  /\ Image(<< >>, g) = << >>
           /\ Image(list, g) \in Seq(Values(S, g))
           /\ Len(Image(list, g)) = Len(list)
           /\ Image(Append(list, item), g) = Append(Image(list, g), g[item])
<1>1. \A l \in Seq(S) : Image(l, g) \in Seq(Values(S, g)) /\ Len(Image(l, g)) = Len(l)
  BY ImageType
<1>2. Image(<< >>, g) = << >>
  <2>1. << >> \in Seq(S) /\ Len(<< >>) = 0
    BY EmptySeq
  <2>2. Image(<< >>, g) \in Seq(Values(S, g)) /\ Len(Image(<< >>, g)) = 0
    BY <1>1, <2>1
  <2>3. QED
    BY <2>2, EmptySeq
<1>3. PICK len \in Nat : len = Len(list) /\ DOMAIN list = 1 .. len
  BY LenProperties
<1>4. PICK longer \in Seq(S) : longer = Append(list, item)
  BY AppendProperties
<1>5. /\ Len(longer) = len + 1 /\ longer[len + 1] = item
      /\ \A i \in 1 .. len : longer[i] = list[i]
  BY <1>3, <1>4, AppendProperties
<1>6. PICK short \in Seq(Values(S, g)) : short = Image(list, g) /\ Len(short) = len
  BY <1>1, <1>3
<1>7. PICK long \in Seq(Values(S, g)) : long = Image(longer, g) /\ Len(long) = len + 1
  BY <1>1, <1>5
<1>8. g[item] \in Values(S, g)
  BY DEF Values
<1>9. /\ Append(short, g[item]) \in Seq(Values(S, g))
      /\ Len(Append(short, g[item])) = len + 1
      /\ Append(short, g[item])[len + 1] = g[item]
      /\ \A i \in 1 .. len : Append(short, g[item])[i] = short[i]
  BY <1>6, <1>8, AppendProperties
<1>10. \A i \in 1 .. len + 1 : long[i] = Append(short, g[item])[i]
  <2>1. \A i \in 1 .. len + 1 : long[i] = g[longer[i]]
    BY <1>5, <1>7, ImageType
  <2>2. \A i \in 1 .. len : short[i] = g[list[i]]
    BY <1>3, <1>6, ImageType
  <2>3. \A i \in 1 .. len + 1 : i \in 1 .. len \/ i = len + 1
    OBVIOUS
  <2>4. QED
    BY <1>5, <1>9, <2>1, <2>2, <2>3
<1>11. long = Append(short, g[item])
  BY <1>7, <1>9, <1>10, SeqEqual
<1>12. QED
  BY <1>1, <1>2, <1>4, <1>6, <1>7, <1>11

\* Leaving out before or after replacing.
LEMMA OnlyInImage ==
    ASSUME NEW S, NEW g, NEW list \in Seq(S), NEW kept, NEW other,
           \A x \in S : x \in kept <=> g[x] \in other
    PROVE  OnlyIn(Image(list, g), other) = Image(OnlyIn(list, kept), g)
<1>. DEFINE Fail == {l \in Seq(S) :
                OnlyIn(Image(l, g), other) # Image(OnlyIn(l, kept), g)}
<1>1. << >> \notin Fail
  <2>1. CASE S = {}
    <3>1. << >> \in Seq(S) /\ Len(<< >>) = 0
      BY EmptySeq
    <3>2. Image(<< >>, g) \in Seq(Values(S, g)) /\ Len(Image(<< >>, g)) = 0
      BY <3>1, ImageType
    <3>3. Image(<< >>, g) = << >>
      BY <3>2, EmptySeq
    <3>4. QED
      BY <3>3, OnlyInEmpty
  <2>2. CASE S # {}
    <3>1. PICK item \in S : TRUE
      BY <2>2
    <3>2. Image(<< >>, g) = << >>
      BY <3>1, ImageAppend
    <3>3. QED
      BY <3>2, OnlyInEmpty
  <2>3. QED
    BY <2>1, <2>2
<1>2. SUFFICES ASSUME Fail # {} PROVE FALSE
  OBVIOUS
<1>3. PICK l \in Seq(S), item \in S : l \notin Fail /\ Append(l, item) \in Fail
  <2>1. Fail \in SUBSET Seq(S)
    OBVIOUS
  <2>. HIDE DEF Fail
  <2>2. QED
    BY <1>1, <1>2, <2>1, ShortestList
<1>4. PICK left \in Seq(S) : left = OnlyIn(l, kept)
  <2>1. OnlyIn(l, kept) \in Seq(S \cap kept)
    BY OnlyInType
  <2>2. QED
    BY <2>1, SeqMonotonic
<1>5. PICK image \in Seq(Values(S, g)) : image = Image(l, g)
  BY ImageAppend
<1>6. OnlyIn(image, other) = Image(left, g)
  BY <1>3, <1>4, <1>5
<1>7. /\ Image(Append(l, item), g) = Append(image, g[item])
      /\ Image(Append(left, item), g) = Append(Image(left, g), g[item])
  BY <1>5, ImageAppend
<1>8. /\ OnlyIn(Append(l, item), kept) = IF item \in kept THEN Append(left, item) ELSE left
      /\ OnlyIn(Append(image, g[item]), other)
            = IF g[item] \in other THEN Append(Image(left, g), g[item]) ELSE Image(left, g)
  <2>1. PICK T : T = Values(S, g)
    OBVIOUS
  <2>2. PICK x \in T : x = g[item]
    BY <2>1 DEF Values
  <2>3. image \in Seq(T)
    BY <2>1
  <2>4. OnlyIn(Append(image, x), other)
            = IF x \in other THEN Append(OnlyIn(image, other), x) ELSE OnlyIn(image, other)
    BY <2>3, OnlyInAppend
  <2>5. OnlyIn(Append(l, item), kept) = IF item \in kept THEN Append(left, item) ELSE left
    BY <1>4, OnlyInAppend
  <2>6. QED
    BY <1>6, <2>2, <2>4, <2>5
<1>9. OnlyIn(Image(Append(l, item), g), other) = Image(OnlyIn(Append(l, item), kept), g)
  BY <1>7, <1>8
<1>10. QED
  BY <1>3, <1>9

\* Images of lists one after the other.
LEMMA ImageConcat ==
    ASSUME NEW S, NEW g, NEW list \in Seq(S), NEW given \in Seq(S)
    PROVE  Image(list \o given, g) = Image(list, g) \o Image(given, g)
<1>1. \A l \in Seq(S) : /\ Image(l, g) \in Seq(Values(S, g)) /\ Len(Image(l, g)) = Len(l)
                        /\ \A i \in 1 .. Len(l) : Image(l, g)[i] = g[l[i]]
  <2>. SUFFICES ASSUME NEW l \in Seq(S)
                PROVE  /\ Image(l, g) \in Seq(Values(S, g)) /\ Len(Image(l, g)) = Len(l)
                       /\ \A i \in 1 .. Len(l) : Image(l, g)[i] = g[l[i]]
    OBVIOUS
  <2>1. Image(l, g) \in Seq(Values(S, g))
    BY ImageType
  <2>2. Len(Image(l, g)) = Len(l)
    BY ImageType
  <2>3. \A i \in 1 .. Len(l) : Image(l, g)[i] = g[l[i]]
    BY LenProperties DEF Image
  <2>4. QED
    BY <2>1, <2>2, <2>3
<1>2. PICK n \in Nat : n = Len(list)
  BY LenProperties
<1>3. PICK m \in Nat : m = Len(given)
  BY LenProperties
<1>4. PICK both \in Seq(S) : both = list \o given
  BY ConcatProperties
<1>5. /\ Len(both) = n + m
      /\ \A i \in 1 .. n + m : both[i] = IF i <= n THEN list[i] ELSE given[i - n]
  BY <1>2, <1>3, <1>4, ConcatProperties
<1>6. PICK first \in Seq(Values(S, g)) : /\ first = Image(list, g) /\ Len(first) = n
                              /\ \A i \in 1 .. n : first[i] = g[list[i]]
  BY <1>1, <1>2
<1>7. PICK second \in Seq(Values(S, g)) : /\ second = Image(given, g) /\ Len(second) = m
                               /\ \A i \in 1 .. m : second[i] = g[given[i]]
  BY <1>1, <1>3
<1>8. PICK image \in Seq(Values(S, g)) : /\ image = Image(both, g) /\ Len(image) = n + m
                              /\ \A i \in 1 .. n + m : image[i] = g[both[i]]
  BY <1>1, <1>5
<1>9. /\ first \o second \in Seq(Values(S, g))
      /\ Len(first \o second) = n + m
      /\ \A i \in 1 .. n + m :
            (first \o second)[i] = IF i <= n THEN first[i] ELSE second[i - n]
  <2>1. /\ first \o second \in Seq(Values(S, g))
        /\ Len(first \o second) = Len(first) + Len(second)
        /\ \A i \in 1 .. Len(first) + Len(second) :
              (first \o second)[i] = IF i <= Len(first) THEN first[i] ELSE second[i - Len(first)]
    BY ConcatProperties
  <2>2. Len(first) = n /\ Len(second) = m
    BY <1>6, <1>7
  <2>3. QED
    BY <2>1, <2>2
<1>10. ASSUME NEW i \in 1 .. n + m PROVE image[i] = (first \o second)[i]
  <2>1. image[i] = g[both[i]]
    BY <1>8
  <2>2. CASE i <= n
    <3>1. i \in 1 .. n
      BY <2>2
    <3>2. both[i] = list[i]
      BY <1>5, <2>2
    <3>3. first[i] = g[list[i]]
      BY <1>6, <3>1
    <3>4. (first \o second)[i] = first[i]
      BY <1>9, <2>2
    <3>5. QED
      BY <2>1, <3>2, <3>3, <3>4
  <2>3. CASE ~ (i <= n)
    <3>1. PICK j \in 1 .. m : j = i - n
      BY <2>3
    <3>2. both[i] = given[j]
      BY <1>5, <2>3, <3>1
    <3>3. second[j] = g[given[j]]
      BY <1>7
    <3>4. (first \o second)[i] = second[j]
      BY <1>9, <2>3, <3>1
    <3>5. QED
      BY <2>1, <3>2, <3>3, <3>4
  <2>4. QED
    BY <2>2, <2>3
<1>11. image = first \o second
  BY <1>8, <1>9, <1>10, SeqEqual
<1>12. QED
  BY <1>4, <1>6, <1>7, <1>8, <1>11

-----------------------------------------------------------------------------
(***************************************************************************)
(* Entity lists.  create_entity_list_with_rows looks at the last row of    *)
(* every pinned version only, so that a pin is to a version of the row's   *)
(* own entity when callers give a version one entity: the functions of     *)
(* units, subsections and sections take the entity from the version.       *)
(***************************************************************************)
PinsAgree ==
    \A list \in EntityLists : \A i, j \in DOMAIN list :
        list[i].pin # Unpinned /\ list[i].pin = list[j].pin
          => list[i].entity = list[j].entity

OwnRow == {row \in Row : row.pin # Unpinned => row.pin[1] = row.entity}

ListsIInv ==
    /\ rows \in [Containers -> Seq(Seq(OwnRow))]
    /\ versionNums \in [Entities -> Seq(Nat \ {0})]
    /\ \A e \in Entities : Len(versionNums[e]) = Len(dependencies[e])
    /\ \A c \in Containers : Len(rows[c]) = Len(dependencies[c])
    /\ \A c \in Containers : \A v \in DOMAIN rows[c] : \A i \in DOMAIN rows[c][v] :
          rows[c][v][i].pin # Unpinned =>
              rows[c][v][i].pin[2] \in DOMAIN dependencies[rows[c][v][i].pin[1]]

\* A valid list that starts with rows of the version before has its pins in order
\* when what callers added has.
LEMMA ValidListsPinTheirOwn ==
    ASSUME NEW list \in Seq(Row), IsValidList(list), NEW n \in Nat,
           \A i \in DOMAIN list : i <= n => list[i] \in OwnRow,
           \A i, j \in DOMAIN list :
              n < i /\ n < j /\ list[i].pin # Unpinned /\ list[i].pin = list[j].pin
                => list[i].entity = list[j].entity
    PROVE  list \in Seq(OwnRow)
<1>1. PICK len \in Nat : len = Len(list) /\ DOMAIN list = 1 .. len
  BY LenProperties
<1>2. ASSUME NEW i \in 1 .. len PROVE list[i] \in OwnRow
  <2>1. list[i] \in Row
    BY <1>1
  <2>2. CASE i <= n
    BY <1>1, <2>2
  <2>3. CASE n < i /\ list[i].pin # Unpinned
    <3>. DEFINE Left == {k \in Nat : k <= len - i /\ list[len - k].pin = list[i].pin}
    <3>1. len - i \in Left
      OBVIOUS
    <3>2. Left \in SUBSET Nat /\ Left # {}
      BY <3>1
    <3>3. PICK k \in Left : \A m \in Left : k <= m
      BY <3>2, LeastNumber
    <3>4. PICK last \in 1 .. len : last = len - k
      BY <3>3
    <3>5. list[last].pin = list[i].pin /\ i <= last
      BY <3>3, <3>4
    <3>6. ASSUME NEW j \in last + 1 .. len PROVE list[j].pin # list[last].pin
      <4>1. SUFFICES ASSUME list[j].pin = list[i].pin PROVE FALSE
        BY <3>5
      <4>2. len - j \in Nat /\ len - j <= len - i /\ len - (len - j) = j
        BY <3>5
      <4>3. len - j \in Left
        BY <4>1, <4>2
      <4>4. k <= len - j
        BY <3>3, <4>3
      <4>5. QED
        BY <3>3, <3>4, <4>4
    <3>7. list[last].pin[1] = list[last].entity
      BY <1>1, <2>3, <3>5, <3>6 DEF IsValidList
    <3>8. list[i].entity = list[last].entity
      <4>1. n < last
        BY <2>3, <3>5
      <4>2. QED
        BY <1>1, <2>3, <3>5, <4>1
    <3>9. list[i].pin[1] = list[i].entity
      BY <3>5, <3>7, <3>8
    <3>10. QED
      BY <2>1, <3>9 DEF OwnRow
  <2>4. CASE list[i].pin = Unpinned
    BY <2>1, <2>4 DEF OwnRow
  <2>5. QED
    BY <2>2, <2>3, <2>4
<1>3. QED
  BY <1>1, <1>2

\* Rows with their own pins are rows.
LEMMA OwnRowsAreRows ==
    ASSUME NEW list \in Seq(OwnRow)
    PROVE  list \in Seq(Row) /\ \A i \in DOMAIN list : list[i] \in OwnRow
<1>1. OwnRow \subseteq Row
  BY DEF OwnRow
<1>2. QED
  BY <1>1, SeqMonotonic

\* What callers pass for a container, of the type of its children, is a list.
LEMMA GivenLists ==
    ASSUME NEW c \in Containers, NEW given \in ListsFor(c)
    PROVE  given \in EntityLists /\ given \in Seq(Row)
<1>1. Level[c] \in 1 .. 3
  BY LevelsAssumption, LevelAssumption DEF Containers, IsContainer
<1>2. ListsFor(c) \subseteq EntityLists
  <2>1. CASE Level[c] = 1
    BY <2>1 DEF ListsFor, ComponentLists, ListsOfLevel
  <2>2. CASE Level[c] = 2
    BY <2>2 DEF ListsFor, UnitLists, ListsOfLevel
  <2>3. CASE Level[c] = 3
    BY <2>3 DEF ListsFor, SubsectionLists, ListsOfLevel
  <2>4. QED
    BY <1>1, <2>1, <2>2, <2>3
<1>3. QED
  BY <1>2, EntityListsAssumption

\* The list of the last version of a container.
LEMMA LastList ==
    ASSUME ListsIInv, NumbersIInv, NEW c \in Containers, Latest(c) # None
    PROVE  rows[c][Latest(c)] \in Seq(OwnRow) /\ Latest(c) \in DOMAIN rows[c]
<1>1. c \in Entities
  BY DEF Containers
<1>2. versionNums[c] # << >>
  BY DEF Latest
<1>3. Latest(c) \in DOMAIN versionNums[c]
  BY <1>1, <1>2, LatestIsHighest
<1>4. /\ versionNums[c] \in Seq(Nat \ {0}) /\ rows[c] \in Seq(Seq(OwnRow))
      /\ Len(versionNums[c]) = Len(rows[c])
  BY <1>1 DEF ListsIInv
<1>5. DOMAIN versionNums[c] = DOMAIN rows[c]
  BY <1>4, LenProperties
<1>6. QED
  BY <1>3, <1>4, <1>5, LenProperties

\* Every list a container gets, and every number, is one of the table's.
LEMMA NextLists ==
    ASSUME PinsAgree, ListsIInv, NumbersIInv, NEW c \in Containers,
           NEW num, NEW given \in ListsFor(c), NEW action \in {"append", "remove", "replace"},
           CreateNextContainerVersion(c, num, given, action)
    PROVE  \E list \in Seq(OwnRow) : NewContainerVersion(c, num, list)
<1>1. PICK list : /\ NewContainerVersion(c, num, list)
                  /\ list = IF Latest(c) = None THEN given
                            ELSE NextEntityList(rows[c][Latest(c)], given, action)
  BY DEF CreateNextContainerVersion
<1>2. IsValidList(list)
  BY <1>1 DEF NewContainerVersion
<1>3. given \in Seq(Row) /\ given \in EntityLists
  BY GivenLists
<1>4. CASE list = given
  <2>1. \A i \in DOMAIN given : i <= 0 => given[i] \in OwnRow
    BY <1>3, LenProperties
  <2>2. \A i, j \in DOMAIN given :
              0 < i /\ 0 < j /\ given[i].pin # Unpinned /\ given[i].pin = given[j].pin
                => given[i].entity = given[j].entity
    BY <1>3 DEF PinsAgree
  <2>3. given \in Seq(OwnRow)
    BY <1>2, <1>3, <1>4, <2>1, <2>2, ValidListsPinTheirOwn
  <2>4. QED
    BY <1>1, <1>4, <2>3
<1>5. CASE Latest(c) # None /\ action = "append"
  <2>1. PICK last \in Seq(OwnRow) : last = rows[c][Latest(c)]
    BY <1>5, LastList
  <2>2. list = last \o given
    BY <1>1, <1>5, <2>1 DEF NextEntityList
  <2>3. last \in Seq(Row) /\ \A i \in DOMAIN last : last[i] \in OwnRow
    BY OwnRowsAreRows
  <2>4. PICK n \in Nat : n = Len(last) /\ DOMAIN last = 1 .. n
    BY <2>3, LenProperties
  <2>5. PICK m \in Nat : m = Len(given) /\ DOMAIN given = 1 .. m
    BY <1>3, LenProperties
  <2>6. /\ list \in Seq(Row)
        /\ DOMAIN list = 1 .. n + m
        /\ \A i \in 1 .. n + m : list[i] = IF i <= n THEN last[i] ELSE given[i - n]
    <3>1. /\ last \o given \in Seq(Row)
          /\ Len(last \o given) = Len(last) + Len(given)
          /\ \A i \in 1 .. Len(last) + Len(given) :
                (last \o given)[i] = IF i <= Len(last) THEN last[i] ELSE given[i - Len(last)]
      BY <1>3, <2>3, ConcatProperties
    <3>2. QED
      BY <2>2, <2>4, <2>5, <3>1, LenProperties
  <2>7. \A i \in DOMAIN list : i <= n => list[i] \in OwnRow
    BY <2>3, <2>4, <2>6
  <2>8. \A i \in DOMAIN list : n < i => i - n \in DOMAIN given /\ list[i] = given[i - n]
    BY <2>5, <2>6
  <2>9. \A i, j \in DOMAIN list :
              n < i /\ n < j /\ list[i].pin # Unpinned /\ list[i].pin = list[j].pin
                => list[i].entity = list[j].entity
    BY <1>3, <2>8 DEF PinsAgree
  <2>10. list \in Seq(OwnRow)
    BY <1>2, <2>6, <2>7, <2>9, ValidListsPinTheirOwn
  <2>11. QED
    BY <1>1, <2>10
<1>6. CASE Latest(c) # None /\ action = "remove"
  <2>1. PICK last \in Seq(OwnRow) : last = rows[c][Latest(c)]
    BY <1>6, LastList
  <2>2. list = WithoutEntities(last, given)
    BY <1>1, <1>6, <2>1 DEF NextEntityList
  <2>3. PICK kept : list = OnlyIn(last, kept)
    BY <2>2 DEF WithoutEntities
  <2>4. list \in Seq(OwnRow \cap kept)
    BY <2>3, OnlyInType
  <2>5. QED
    BY <1>1, <2>4, SeqMonotonic
<1>7. QED
  BY <1>1, <1>4, <1>5, <1>6 DEF NextEntityList

\* So does every call on a container.
LEMMA ContainerCallLists ==
    ASSUME PinsAgree, ListsIInv, NumbersIInv, NEW c \in Containers,
           \/ CreateNextVersion(c)
           \/ \E list \in ListsFor(c), num \in 1 .. MaxVersionNum :
                  CreateContainerVersion(c, num, list)
    PROVE  \E num \in Nat \ {0}, list \in Seq(OwnRow) : NewContainerVersion(c, num, list)
<1>1. c \in Entities /\ MaxVersionNum \in Nat
  BY ContainersBoundsAssumption DEF Containers
<1>2. NextVersionNum(c) \in Nat \ {0}
  <2>1. CASE versionNums[c] = << >>
    BY <2>1 DEF NextVersionNum, Latest
  <2>2. CASE versionNums[c] # << >>
    <3>1. NextVersionNum(c) = versionNums[c][Latest(c)] + 1
      BY <1>1, <2>2, LatestIsHighest DEF NextVersionNum
    <3>2. versionNums[c][Latest(c)] \in Nat
      BY <1>1, <2>2, LatestIsHighest DEF NumbersIInv
    <3>3. QED
      BY <3>1, <3>2
  <2>3. QED
    BY <2>1, <2>2
<1>3. NumsFor(c) \subseteq Nat \ {0}
  BY <1>1, <1>2 DEF NumsFor
<1>4. CASE CreateNextVersion(c)
  <2>1. PICK num \in NumsFor(c) :
          \/ RetitleContainer(c, num)
          \/ \E given \in ListsFor(c), action \in {"append", "remove", "replace"} :
                CreateNextContainerVersion(c, num, given, action)
    BY <1>4 DEF CreateNextVersion
  <2>2. CASE RetitleContainer(c, num)
    <3>1. Latest(c) # None /\ NewContainerVersion(c, num, rows[c][Latest(c)])
      BY <2>2 DEF RetitleContainer
    <3>2. rows[c][Latest(c)] \in Seq(OwnRow)
      BY <3>1, LastList
    <3>3. QED
      BY <1>3, <3>1, <3>2
  <2>3. CASE \E given \in ListsFor(c), action \in {"append", "remove", "replace"} :
                CreateNextContainerVersion(c, num, given, action)
    <3>1. PICK given \in ListsFor(c), action \in {"append", "remove", "replace"} :
                CreateNextContainerVersion(c, num, given, action)
      BY <2>3
    <3>2. QED
      BY <1>3, <3>1, NextLists
  <2>4. QED
    BY <2>1, <2>2, <2>3
<1>5. CASE \E list \in ListsFor(c), num \in 1 .. MaxVersionNum :
              CreateContainerVersion(c, num, list)
  <2>1. PICK list \in ListsFor(c), num \in 1 .. MaxVersionNum :
              NewContainerVersion(c, num, list)
    BY <1>5 DEF CreateContainerVersion
  <2>2. list \in EntityLists /\ list \in Seq(Row)
    BY GivenLists
  <2>3. IsValidList(list)
    BY <2>1 DEF NewContainerVersion
  <2>4. \A i \in DOMAIN list : i <= 0 => list[i] \in OwnRow
    BY <2>2, LenProperties
  <2>5. \A i, j \in DOMAIN list :
              0 < i /\ 0 < j /\ list[i].pin # Unpinned /\ list[i].pin = list[j].pin
                => list[i].entity = list[j].entity
    BY <2>2 DEF PinsAgree
  <2>6. list \in Seq(OwnRow)
    BY <2>2, <2>3, <2>4, <2>5, ValidListsPinTheirOwn
  <2>7. num \in Nat \ {0}
    BY <1>1, <2>1
  <2>8. QED
    BY <2>1, <2>6, <2>7
<1>6. QED
  BY <1>4, <1>5

\* A new version of a container has its list and its number.
LEMMA NewListKeepsListsIInv ==
    ASSUME TypeOK, ListsIInv, NEW c \in Containers, NEW num \in Nat \ {0},
           NEW list \in Seq(OwnRow), NewContainerVersion(c, num, list)
    PROVE  ListsIInv'
<1>. DEFINE D == UnpinnedEntities(list)
<1>1. /\ rows' = [rows EXCEPT ![c] = Append(@, list)]
      /\ versionNums' = [versionNums EXCEPT ![c] = Append(@, num)]
      /\ dependencies' = [dependencies EXCEPT ![c] = Append(@, D)]
      /\ IsValidList(list)
  BY DEF NewContainerVersion, CreateVersion
<1>2. D \in SUBSET Entities
  <2>1. \A i \in DOMAIN list : list[i].entity \in Entities
    <3>1. \A i \in DOMAIN list : list[i] \in OwnRow
      BY OwnRowsAreRows
    <3>2. \A row \in OwnRow : row.entity \in Entities
      BY DEF OwnRow, Row
    <3>3. QED
      BY <3>1, <3>2
  <2>2. QED
    BY <2>1 DEF UnpinnedEntities
<1>. HIDE DEF D
<1>3. /\ c \in Entities /\ Containers \subseteq Entities
      /\ dependencies \in [Entities -> Seq(SUBSET Entities)]
      /\ rows \in [Containers -> Seq(Seq(OwnRow))]
      /\ versionNums \in [Entities -> Seq(Nat \ {0})]
      /\ Len(versionNums[c]) = Len(dependencies[c]) /\ Len(rows[c]) = Len(dependencies[c])
  BY DEF Containers, TypeOK, ListsIInv
<1>4. PICK before \in Seq(SUBSET Entities) : before = dependencies[c]
  BY <1>3
<1>5. PICK nums \in Seq(Nat \ {0}) : nums = versionNums[c]
  BY <1>3
<1>6. PICK lists \in Seq(Seq(OwnRow)) : lists = rows[c]
  BY <1>3
<1>7. PICK n \in Nat : /\ Len(before) = n /\ DOMAIN before = 1 .. n
                       /\ Len(nums) = n
                       /\ Len(lists) = n /\ DOMAIN lists = 1 .. n
  BY <1>3, <1>4, <1>5, <1>6, LenProperties
<1>8. /\ Append(before, D) \in Seq(SUBSET Entities)
      /\ Len(Append(before, D)) = n + 1
      /\ DOMAIN Append(before, D) = 1 .. n + 1
  BY <1>2, <1>7, AppendProperties, LenProperties
<1>9. /\ Append(nums, num) \in Seq(Nat \ {0})
      /\ Len(Append(nums, num)) = n + 1
  BY <1>7, AppendProperties
<1>10. /\ Append(lists, list) \in Seq(Seq(OwnRow))
       /\ Len(Append(lists, list)) = n + 1
       /\ DOMAIN Append(lists, list) = 1 .. n + 1
       /\ \A v \in 1 .. n : Append(lists, list)[v] = lists[v]
       /\ Append(lists, list)[n + 1] = list
  BY <1>7, AppendProperties, LenProperties
<1>11. /\ rows' \in [Containers -> Seq(Seq(OwnRow))]
       /\ rows'[c] = Append(lists, list)
       /\ \A x \in Containers : x # c => rows'[x] = rows[x]
  BY <1>1, <1>3, <1>6, <1>10
<1>12. /\ versionNums' \in [Entities -> Seq(Nat \ {0})]
       /\ versionNums'[c] = Append(nums, num)
       /\ \A x \in Entities : x # c => versionNums'[x] = versionNums[x]
  BY <1>1, <1>3, <1>5, <1>9
<1>13. /\ dependencies'[c] = Append(before, D)
       /\ \A x \in Entities : x # c => dependencies'[x] = dependencies[x]
  BY <1>1, <1>3, <1>4
<1>14. \A x \in Entities : DOMAIN dependencies[x] \subseteq DOMAIN dependencies'[x]
  BY <1>4, <1>7, <1>8, <1>13
<1>15. \A e \in Entities : Len(versionNums'[e]) = Len(dependencies'[e])
  BY <1>8, <1>9, <1>12, <1>13 DEF ListsIInv
<1>16. \A x \in Containers : Len(rows'[x]) = Len(dependencies'[x])
  BY <1>3, <1>8, <1>10, <1>11, <1>13 DEF ListsIInv
<1>17. ASSUME NEW x \in Containers, NEW v \in DOMAIN rows'[x], NEW i \in DOMAIN rows'[x][v],
              rows'[x][v][i].pin # Unpinned
       PROVE  rows'[x][v][i].pin[2] \in DOMAIN dependencies'[rows'[x][v][i].pin[1]]
  <2>1. PICK row : row = rows'[x][v][i]
    OBVIOUS
  <2>2. row \in OwnRow
    <3>1. rows'[x] \in Seq(Seq(OwnRow))
      BY <1>11
    <3>2. rows'[x][v] \in Seq(OwnRow)
      BY <3>1
    <3>3. QED
      BY <2>1, <3>2, OwnRowsAreRows
  <2>3. row.pin # Unpinned /\ row.pin[1] \in Entities
    BY <1>17, <2>1, <2>2 DEF OwnRow, Row
  <2>4. CASE x # c
    <3>1. v \in DOMAIN rows[x] /\ i \in DOMAIN rows[x][v] /\ rows[x][v][i] = row
      BY <1>11, <2>1, <2>4
    <3>2. row.pin[2] \in DOMAIN dependencies[row.pin[1]]
      BY <2>3, <3>1 DEF ListsIInv
    <3>3. QED
      BY <1>14, <2>1, <2>3, <3>2
  <2>5. CASE x = c /\ v \in 1 .. n
    <3>1. rows'[x][v] = lists[v]
      BY <1>10, <1>11, <2>5
    <3>2. v \in DOMAIN rows[x] /\ i \in DOMAIN rows[x][v] /\ rows[x][v][i] = row
      BY <1>6, <1>7, <2>1, <2>5, <3>1
    <3>3. row.pin[2] \in DOMAIN dependencies[row.pin[1]]
      BY <2>3, <3>2 DEF ListsIInv
    <3>4. QED
      BY <1>14, <2>1, <2>3, <3>3
  <2>6. CASE x = c /\ v = n + 1
    <3>1. rows'[x][v] = list
      BY <1>10, <1>11, <2>6
    <3>2. i \in DOMAIN list /\ list[i] = row
      BY <2>1, <3>1
    <3>3. row.pin[2] \in DOMAIN dependencies[row.pin[1]]
      BY <1>1, <2>3, <3>2 DEF IsValidList
    <3>4. QED
      BY <1>14, <2>1, <2>3, <3>3
  <2>7. v \in 1 .. n + 1 \/ x # c
    BY <1>10, <1>11
  <2>8. v \in 1 .. n + 1 => v \in 1 .. n \/ v = n + 1
    OBVIOUS
  <2>9. QED
    BY <2>4, <2>5, <2>6, <2>7, <2>8
<1>18. QED
  BY <1>11, <1>12, <1>15, <1>16, <1>17 DEF ListsIInv

\* A component's version has a number and no list.
LEMMA NewComponentVersionKeepsListsIInv ==
    ASSUME TypeOK, ListsIInv, NumbersIInv, NEW e \in Entities, CreateComponentVersion(e)
    PROVE  ListsIInv'
<1>1. /\ rows' = rows
      /\ versionNums' = [versionNums EXCEPT ![e] = Append(@, NextVersionNum(e))]
      /\ dependencies' = [dependencies EXCEPT ![e] = Append(@, {})]
      /\ e \notin Containers
  BY DEF CreateComponentVersion, CreateVersion, Containers
<1>2. PICK num \in Nat \ {0} : num = NextVersionNum(e)
  <2>1. CASE versionNums[e] = << >>
    BY <2>1 DEF NextVersionNum, Latest
  <2>2. CASE versionNums[e] # << >>
    <3>1. NextVersionNum(e) = versionNums[e][Latest(e)] + 1
      BY <2>2, LatestIsHighest DEF NextVersionNum
    <3>2. versionNums[e][Latest(e)] \in Nat
      BY <2>2, LatestIsHighest DEF NumbersIInv
    <3>3. QED
      BY <3>1, <3>2
  <2>3. QED
    BY <2>1, <2>2
<1>3. /\ Containers \subseteq Entities
      /\ dependencies \in [Entities -> Seq(SUBSET Entities)]
      /\ rows \in [Containers -> Seq(Seq(OwnRow))]
      /\ versionNums \in [Entities -> Seq(Nat \ {0})]
      /\ Len(versionNums[e]) = Len(dependencies[e])
  BY DEF Containers, TypeOK, ListsIInv
<1>4. PICK before \in Seq(SUBSET Entities) : before = dependencies[e]
  BY <1>3
<1>5. PICK nums \in Seq(Nat \ {0}) : nums = versionNums[e]
  BY <1>3
<1>6. PICK n \in Nat : Len(before) = n /\ Len(nums) = n /\ DOMAIN before = 1 .. n
  BY <1>3, <1>4, <1>5, LenProperties
<1>7. {} \in SUBSET Entities
  OBVIOUS
<1>8. /\ Append(before, {}) \in Seq(SUBSET Entities)
      /\ Len(Append(before, {})) = n + 1
      /\ DOMAIN Append(before, {}) = 1 .. n + 1
  BY <1>6, <1>7, AppendProperties, LenProperties
<1>9. /\ Append(nums, num) \in Seq(Nat \ {0})
      /\ Len(Append(nums, num)) = n + 1
  BY <1>6, AppendProperties
<1>10. /\ versionNums' \in [Entities -> Seq(Nat \ {0})]
       /\ versionNums'[e] = Append(nums, num)
       /\ \A x \in Entities : x # e => versionNums'[x] = versionNums[x]
  BY <1>1, <1>2, <1>3, <1>5, <1>9
<1>11. /\ dependencies'[e] = Append(before, {})
       /\ \A x \in Entities : x # e => dependencies'[x] = dependencies[x]
  BY <1>1, <1>3, <1>4
<1>12. \A x \in Entities : DOMAIN dependencies[x] \subseteq DOMAIN dependencies'[x]
  BY <1>4, <1>6, <1>8, <1>11
<1>13. \A x \in Entities : Len(versionNums'[x]) = Len(dependencies'[x])
  BY <1>8, <1>9, <1>10, <1>11 DEF ListsIInv
<1>14. \A x \in Containers : Len(rows'[x]) = Len(dependencies'[x])
  BY <1>1, <1>3, <1>11 DEF ListsIInv
<1>15. ASSUME NEW x \in Containers, NEW v \in DOMAIN rows[x], NEW i \in DOMAIN rows[x][v],
              rows[x][v][i].pin # Unpinned
       PROVE  rows[x][v][i].pin[2] \in DOMAIN dependencies'[rows[x][v][i].pin[1]]
  <2>1. PICK row : row = rows[x][v][i]
    OBVIOUS
  <2>2. row \in OwnRow
    <3>1. rows[x] \in Seq(Seq(OwnRow))
      BY <1>3
    <3>2. rows[x][v] \in Seq(OwnRow)
      BY <3>1
    <3>3. QED
      BY <2>1, <3>2, OwnRowsAreRows
  <2>3. row.pin # Unpinned /\ row.pin[1] \in Entities
    BY <1>15, <2>1, <2>2 DEF OwnRow, Row
  <2>4. row.pin[2] \in DOMAIN dependencies[row.pin[1]]
    BY <2>1, <2>3 DEF ListsIInv
  <2>5. QED
    BY <1>12, <2>1, <2>3, <2>4
<1>16. QED
  BY <1>1, <1>3, <1>10, <1>13, <1>14, <1>15 DEF ListsIInv

\* The tables of lists and numbers are kept by every call.
LEMMA ListsAlwaysInOrder ==
    ASSUME PinsAgree
    PROVE  ContainersSpec => [](TypeOK /\ NumbersIInv /\ ListsIInv)
<1>1. ContainersInit => ListsIInv
  <2>. SUFFICES ASSUME ContainersInit PROVE ListsIInv
    OBVIOUS
  <2>1. /\ rows = [c \in Containers |-> << >>]
        /\ versionNums = [e \in Entities |-> << >>]
        /\ dependencies = [e \in Entities |-> << >>]
        /\ Containers \subseteq Entities
    BY DEF ContainersInit, Init, Containers
  <2>2. << >> \in Seq(Seq(OwnRow)) /\ << >> \in Seq(Nat \ {0})
    BY EmptySeq
  <2>3. \A c \in Containers : DOMAIN rows[c] = {}
    <3>1. DOMAIN << >> = {}
      OBVIOUS
    <3>2. QED
      BY <2>1, <3>1
  <2>4. QED
    BY <2>1, <2>2, <2>3 DEF ListsIInv
<1>2. TypeOK /\ NumbersIInv /\ ListsIInv /\ [ContainersNext]_containersVars => ListsIInv'
  <2>. SUFFICES ASSUME TypeOK, NumbersIInv, ListsIInv, [ContainersNext]_containersVars
                PROVE  ListsIInv'
    OBVIOUS
  <2>1. CASE \E e \in Entities : CreateComponentVersion(e)
    BY <2>1, NewComponentVersionKeepsListsIInv
  <2>2. CASE \E c \in Containers :
               \/ CreateNextVersion(c)
               \/ \E list \in ListsFor(c), num \in 1 .. MaxVersionNum :
                      CreateContainerVersion(c, num, list)
    BY <2>2, ContainerCallLists, NewListKeepsListsIInv
  <2>3. CASE OtherCalls
    <3>1. dependencies' = dependencies /\ rows' = rows /\ versionNums' = versionNums
      BY <2>3 DEF OtherCalls, SetDraftVersion, ResetDraftsToPublished, PublishAllDrafts,
                  PublishFromDrafts
    <3>2. QED
      BY <3>1 DEF ListsIInv
  <2>4. CASE UNCHANGED containersVars
    BY <2>4 DEF containersVars, vars, ListsIInv
  <2>5. QED
    BY <2>1, <2>2, <2>3, <2>4 DEF ContainersNext
<1>3. ContainersSpec => []TypeOK
  BY ContainersImplementPublishing, TypeCorrect, PTL DEF ImplementsPublishing
<1>4. QED
  BY <1>1, <1>2, <1>3, NumbersAlwaysOrdered, PTL DEF ContainersSpec

\* The tables of containers are in order: every version has its list, its
\* dependencies and its number, and pins are to versions of the row's own entity, for
\* callers that give a version one entity.
THEOREM ContainersTypeCorrect ==
    ASSUME PinsAgree
    PROVE  ContainersSpec => []ContainersTypeOK
<1>1. TypeOK /\ ListsIInv => ContainersTypeOK
  <2>. SUFFICES ASSUME TypeOK, ListsIInv PROVE ContainersTypeOK
    OBVIOUS
  <2>1. Seq(Seq(OwnRow)) \subseteq Seq(Seq(Row))
    <3>1. Seq(OwnRow) \subseteq Seq(Row)
      BY OwnRowsAreRows
    <3>2. QED
      BY <3>1, SeqMonotonic
  <2>2. rows \in [Containers -> Seq(Seq(Row))]
    BY <2>1 DEF ListsIInv
  <2>3. ASSUME NEW c \in Containers, NEW v \in DOMAIN rows[c], NEW i \in DOMAIN rows[c][v],
               rows[c][v][i].pin # Unpinned
        PROVE  /\ rows[c][v][i].pin[1] = rows[c][v][i].entity
               /\ rows[c][v][i].pin[2] \in DOMAIN dependencies[rows[c][v][i].entity]
    <3>1. rows[c] \in Seq(Seq(OwnRow))
      BY DEF ListsIInv
    <3>2. rows[c][v] \in Seq(OwnRow)
      BY <3>1
    <3>3. rows[c][v][i] \in OwnRow
      BY <3>2, OwnRowsAreRows
    <3>4. rows[c][v][i].pin[1] = rows[c][v][i].entity
      BY <2>3, <3>3 DEF OwnRow
    <3>5. rows[c][v][i].pin[2] \in DOMAIN dependencies[rows[c][v][i].pin[1]]
      BY <2>3 DEF ListsIInv
    <3>6. QED
      BY <3>4, <3>5
  <2>4. QED
    BY <2>2, <2>3 DEF ContainersTypeOK, ListsIInv
<1>2. QED
  BY <1>1, ListsAlwaysInOrder, PTL

-----------------------------------------------------------------------------
(***************************************************************************)
(* What readers get of a list: what its rows say on a branch, children     *)
(* that are deleted left out.                                              *)
(***************************************************************************)
SomeEntries(version) == {EntryOf(row, version) : row \in Row}
ReadWith(version) == [row \in Row |-> EntryOf(row, version)]

\* Reading is replacing each row by its entry and leaving some out.
LEMMA EntriesAreImages ==
    ASSUME NEW list \in Seq(Row), NEW version
    PROVE  /\ Image(list, ReadWith(version)) \in Seq(SomeEntries(version))
           /\ Entries(list, version) =
                OnlyIn(Image(list, ReadWith(version)),
                       {entry \in SomeEntries(version) : entry.version # None})
<1>1. Values(Row, ReadWith(version)) = SomeEntries(version)
  BY DEF Values, ReadWith, SomeEntries
<1>2. PICK image : image = Image(list, ReadWith(version))
  OBVIOUS
<1>3. image \in Seq(SomeEntries(version))
  BY <1>1, <1>2, ImageType
<1>4. [i \in DOMAIN list |-> EntryOf(list[i], version)] = image
  <2>1. \A i \in DOMAIN list : list[i] \in Row
    OBVIOUS
  <2>2. QED
    BY <1>2, <2>1 DEF Image, ReadWith
<1>5. Entries(list, version) = OnlyIn(image, {entry \in ToSet(image) : entry.version # None})
  BY <1>4 DEF Entries
<1>6. \A i \in DOMAIN image :
          image[i] \in {entry \in ToSet(image) : entry.version # None}
            <=> image[i] \in {entry \in SomeEntries(version) : entry.version # None}
  <2>1. \A i \in DOMAIN image : image[i] \in ToSet(image) /\ image[i] \in SomeEntries(version)
    BY <1>3 DEF ToSet
  <2>2. QED
    BY <2>1
<1>7. QED
  BY <1>1, <1>2, <1>3, <1>5, <1>6, OnlyInSame

\* Rows that are kept for what they are, or left out for what they read as.
LEMMA EntriesOfKept ==
    ASSUME NEW list \in Seq(Row), NEW version, NEW kept, NEW other,
           \A i \in DOMAIN list :
              list[i] \in kept <=> EntryOf(list[i], version) \in other
    PROVE  Entries(OnlyIn(list, kept), version) = OnlyIn(Entries(list, version), other)
<1>. DEFINE S == {list[i] : i \in DOMAIN list}
            g == [row \in S |-> EntryOf(row, version)]
            shown == {entry \in SomeEntries(version) : entry.version # None}
<1>1. list \in Seq(S) /\ S \subseteq Row
  <2>1. PICK n \in Nat : n = Len(list) /\ DOMAIN list = 1 .. n
    BY LenProperties
  <2>2. \A i \in 1 .. n : list[i] \in S /\ list[i] \in Row
    BY <2>1
  <2>3. list = [i \in 1 .. n |-> list[i]]
    BY <2>1
  <2>4. S \subseteq Row
    BY <2>1, <2>2
  <2>. HIDE DEF S
  <2>5. [i \in 1 .. n |-> list[i]] \in Seq(S)
    BY <2>2
  <2>6. QED
    BY <2>3, <2>4, <2>5, Zenon
<1>2. \A row \in S : row \in kept <=> g[row] \in other
  OBVIOUS
<1>4. \A l \in Seq(S) : Image(l, g) = Image(l, ReadWith(version))
  <2>1. \A row \in S : g[row] = ReadWith(version)[row]
    BY <1>1 DEF ReadWith
  <2>. HIDE DEF S, g
  <2>2. QED
    BY <2>1 DEF Image
<1>. HIDE DEF S, g, shown
<1>5. PICK left \in Seq(S) : left = OnlyIn(list, kept)
  <2>1. OnlyIn(list, kept) \in Seq(S \cap kept)
    BY <1>1, OnlyInType
  <2>2. QED
    BY <2>1, SeqMonotonic
<1>6. left \in Seq(Row)
  BY <1>1, SeqMonotonic
<1>7. PICK image \in Seq(SomeEntries(version)) :
            image = Image(list, g) /\ image = Image(list, ReadWith(version))
  BY <1>1, <1>4, EntriesAreImages
<1>8. OnlyIn(image, other) = Image(left, g)
  <2>1. PICK W, f : W = S /\ f = g
    OBVIOUS
  <2>2. list \in Seq(W) /\ \A row \in W : row \in kept <=> f[row] \in other
    BY <1>1, <1>2, <2>1
  <2>3. OnlyIn(Image(list, f), other) = Image(OnlyIn(list, kept), f)
    BY <2>2, OnlyInImage
  <2>4. QED
    BY <1>5, <1>7, <2>1, <2>3
<1>10. Entries(left, version) = OnlyIn(OnlyIn(image, other), shown)
  BY <1>4, <1>5, <1>6, <1>8, EntriesAreImages DEF shown
<1>11. Entries(list, version) = OnlyIn(image, shown)
  BY <1>7, EntriesAreImages DEF shown
<1>12. OnlyIn(OnlyIn(image, other), shown) = OnlyIn(OnlyIn(image, shown), other)
  <2>1. OnlyIn(OnlyIn(image, other), shown) = OnlyIn(image, other \cap shown)
    BY <1>7, OnlyInTwice
  <2>2. OnlyIn(OnlyIn(image, shown), other) = OnlyIn(image, shown \cap other)
    BY <1>7, OnlyInTwice
  <2>3. other \cap shown = shown \cap other
    OBVIOUS
  <2>4. QED
    BY <2>1, <2>2, <2>3
<1>13. QED
  BY <1>5, <1>7, <1>10, <1>11, <1>12

\* Lists one after the other are read one after the other.
LEMMA EntriesConcat ==
    ASSUME NEW list \in Seq(Row), NEW given \in Seq(Row), NEW version
    PROVE  Entries(list \o given, version) = Entries(list, version) \o Entries(given, version)
<1>. DEFINE g == ReadWith(version)
            T == SomeEntries(version)
            shown == {entry \in SomeEntries(version) : entry.version # None}
<1>2. list \o given \in Seq(Row)
  BY ConcatProperties
<1>3. /\ Entries(list, version) = OnlyIn(Image(list, g), shown)
      /\ Entries(given, version) = OnlyIn(Image(given, g), shown)
      /\ Entries(list \o given, version) = OnlyIn(Image(list \o given, g), shown)
      /\ Image(list, g) \in Seq(T) /\ Image(given, g) \in Seq(T)
  BY <1>2, EntriesAreImages
<1>. HIDE DEF g, T, shown
<1>4. Image(list \o given, g) = Image(list, g) \o Image(given, g)
  BY ImageConcat
<1>5. OnlyIn(Image(list, g) \o Image(given, g), shown)
        = OnlyIn(Image(list, g), shown) \o OnlyIn(Image(given, g), shown)
  <2>1. PICK first \in Seq(T) : first = Image(list, g)
    BY <1>3
  <2>2. PICK second \in Seq(T) : second = Image(given, g)
    BY <1>3
  <2>3. OnlyIn(first \o second, shown) = OnlyIn(first, shown) \o OnlyIn(second, shown)
    BY OnlyInConcat
  <2>4. QED
    BY <2>1, <2>2, <2>3
<1>6. QED
  BY <1>3, <1>4, <1>5

\* Of entries that are read, which ones are left does not depend on how they are
\* collected.
LEMMA EntriesLeft ==
    ASSUME NEW list \in Seq(Row), NEW version, NEW left,
           left \subseteq SomeEntries(version)
    PROVE  /\ OnlyIn(Entries(list, version), left)
                = OnlyIn(Entries(list, version), {entry \in ToSet(Entries(list, version)) :
                                                      entry \in left})
           /\ Entries(list, version) \in Seq(SomeEntries(version))
<1>. DEFINE shown == {entry \in SomeEntries(version) : entry.version # None}
<1>1. PICK image \in Seq(SomeEntries(version)) : Entries(list, version) = OnlyIn(image, shown)
  BY EntriesAreImages
<1>. HIDE DEF shown
<1>2. PICK entries : entries = Entries(list, version)
  OBVIOUS
<1>3. entries \in Seq(SomeEntries(version))
  <2>1. OnlyIn(image, shown) \in Seq(SomeEntries(version) \cap shown)
    BY OnlyInType
  <2>2. QED
    BY <1>1, <1>2, <2>1, SeqMonotonic
<1>4. \A i \in DOMAIN entries :
          entries[i] \in left <=> entries[i] \in {entry \in ToSet(entries) : entry \in left}
  BY DEF ToSet
<1>5. QED
  BY <1>2, <1>3, <1>4, OnlyInSame

\* What readers of the draft get right after a new version of a container: its list,
\* for children at their drafts.
LEMMA ContentsWithRowsAfter ==
    ASSUME TypeOK, ListsIInv, NEW c \in Containers, NEW num, NEW list,
           NewContainerVersion(c, num, list),
           \A i \in DOMAIN list : list[i].pin = Unpinned => list[i].entity \in DraftRows
    PROVE  DraftContents(c)' = Entries(list, draft.version)
<1>. DEFINE target == [draft.version EXCEPT ![c] = Len(dependencies[c]) + 1]
<1>1. /\ rows' = [rows EXCEPT ![c] = Append(@, list)]
      /\ ChangeDrafts(target)
      /\ \A i \in DOMAIN list : Level[list[i].entity] < Level[c] /\ list[i].entity \in Entities
  BY DEF NewContainerVersion, CreateVersion
<1>2. /\ c \in Entities
      /\ dependencies[c] \in Seq(SUBSET Entities) /\ rows[c] \in Seq(Seq(OwnRow))
      /\ Len(rows[c]) = Len(dependencies[c])
      /\ draft.version \in [Entities -> Nat]
      /\ c \in DOMAIN rows
  BY TypePoints DEF TypeOK, ListsIInv, Containers, Tables
<1>3. PICK n \in Nat : n = Len(dependencies[c]) /\ n = Len(rows[c])
  BY <1>2, LenProperties
<1>4. target \in [Entities -> Nat]
  BY <1>2, <1>3
<1>5. draft'.version = target
  <2>. HIDE DEF target
  <2>1. QED
    BY <1>1, <1>4, ChangeDraftsTables
<1>6. draft'.version[c] = n + 1
  BY <1>2, <1>3, <1>5
<1>7. rows'[c][n + 1] = list
  <2>1. PICK lists \in Seq(Seq(OwnRow)) : lists = rows[c]
    BY <1>2
  <2>2. rows'[c] = Append(lists, list)
    BY <1>1, <1>2, <2>1
  <2>3. Append(lists, list)[Len(lists) + 1] = list
    BY AppendAnything
  <2>4. QED
    BY <1>3, <2>1, <2>2, <2>3
<1>8. ASSUME NEW e \in UnpinnedEntities(list) PROVE draft'.version[e] = draft.version[e]
  <2>1. PICK i \in DOMAIN list : e = list[i].entity
    BY DEF UnpinnedEntities
  <2>2. e \in Entities /\ Level[e] < Level[c]
    BY <1>1, <2>1
  <2>3. e # c
    <3>1. Level[c] \in Nat
      BY <1>2, LevelAssumption
    <3>2. QED
      BY <2>2, <3>1
  <2>4. QED
    BY <1>2, <1>5, <2>2, <2>3
<1>9. Entries(list, draft'.version) = Entries(list, draft.version)
  BY <1>8, SameChildrenSameEntries
<1>10. DraftRows \subseteq DraftRows'
  <2>1. dependencies' = [dependencies EXCEPT ![c] = Append(@, UnpinnedEntities(list))]
    BY DEF NewContainerVersion, CreateVersion
  <2>2. Append(dependencies[c], UnpinnedEntities(list)) # << >>
    <3>1. PICK before \in Seq(SUBSET Entities) : before = dependencies[c]
      BY <1>2
    <3>2. PICK D : D = UnpinnedEntities(list)
      OBVIOUS
    <3>3. Len(before) \in Nat /\ Len(Append(before, D)) = Len(before) + 1
      BY AppendAnything
    <3>4. Append(before, D) # << >>
      BY <3>3
    <3>5. QED
      BY <3>1, <3>2, <3>4
  <2>3. \A e \in Entities : dependencies[e] # << >> => dependencies'[e] # << >>
    BY <1>2, <2>1, <2>2 DEF TypeOK
  <2>4. QED
    BY <2>3 DEF DraftRows, HasDraft
<1>11. DraftContents(c)' = Entries(list, draft'.version)
  BY <1>6, <1>7, <1>10 DEF DraftContents, Read
<1>12. QED
  BY <1>9, <1>11

\* A part of the next step: what is left of a list after a call, for its readers.
KeepsTheRest(c, last, given, num) ==
    /\ CreateNextContainerVersion(c, num, given, "append") /\ ReadOnDraft(given) # Raises
          => DraftContents(c)' = ReadOnDraft(last) \o ReadOnDraft(given)
    /\ CreateNextContainerVersion(c, num, given, "remove")
          => DraftContents(c)' = OnlyIn(ReadOnDraft(last),
                {entry \in ToSet(ReadOnDraft(last)) :
                    \A i \in DOMAIN given : given[i].entity # entry.entity})

\* The items of two lists one after the other are theirs.
LEMMA PartsOfConcat ==
    ASSUME NEW list \in Seq(Row), NEW given \in Seq(Row)
    PROVE  \A i \in DOMAIN (list \o given) :
              \/ \E j \in DOMAIN list : (list \o given)[i] = list[j]
              \/ \E j \in DOMAIN given : (list \o given)[i] = given[j]
<1>1. PICK n \in Nat, m \in Nat : /\ n = Len(list) /\ DOMAIN list = 1 .. n
                                  /\ m = Len(given) /\ DOMAIN given = 1 .. m
  BY LenProperties
<1>2. DOMAIN (list \o given) = 1 .. n + m
  BY <1>1, ConcatProperties, LenProperties
<1>3. ASSUME NEW i \in 1 .. n + m
      PROVE  \/ \E j \in DOMAIN list : (list \o given)[i] = list[j]
             \/ \E j \in DOMAIN given : (list \o given)[i] = given[j]
  <2>1. CASE i <= n
    <3>1. (list \o given)[i] = list[i]
      BY <1>1, <2>1, ConcatProperties
    <3>2. QED
      BY <1>1, <2>1, <3>1
  <2>2. CASE ~ (i <= n)
    <3>1. (list \o given)[i] = given[i - n]
      BY <1>1, <2>2, ConcatProperties
    <3>2. i - n \in 1 .. m
      BY <2>2
    <3>3. QED
      BY <1>1, <3>1, <3>2
  <2>3. QED
    BY <2>1, <2>2
<1>4. QED
  BY <1>2, <1>3

\* The items of a list with some left out are its own.
LEMMA PartsOfOnlyIn ==
    ASSUME NEW list \in Seq(Row), NEW kept
    PROVE  \A i \in DOMAIN OnlyIn(list, kept) :
              \E j \in DOMAIN list : OnlyIn(list, kept)[i] = list[j]
<1>. DEFINE S == {list[j] : j \in DOMAIN list}
<1>1. list \in Seq(S)
  BY LenProperties
<1>. HIDE DEF S
<1>2. OnlyIn(list, kept) \in Seq(S \cap kept)
  BY <1>1, OnlyInType
<1>3. \A i \in DOMAIN OnlyIn(list, kept) : OnlyIn(list, kept)[i] \in S
  BY <1>2
<1>4. QED
  BY <1>3 DEF S

\* Appending adds to, and removing takes every reference to the entities from, what
\* the draft shows of the container's latest version, whichever of the children are
\* deleted, pinned or listed twice.
THEOREM AppendAndRemoveAlwaysKeepTheRest ==
    ASSUME PinsAgree
    PROVE  ContainersSpec => AppendAndRemoveKeepTheRest
<1>1. ASSUME TypeOK, NumbersIInv, ListsIInv, NEW c \in Containers, NEW given \in EntityLists,
             NEW num \in 1 .. MaxVersionNum, Latest(c) # None,
             ReadOnDraft(rows[c][Latest(c)]) # Raises
      PROVE  KeepsTheRest(c, rows[c][Latest(c)], given, num)
  <2>1. PICK last \in Seq(OwnRow) : last = rows[c][Latest(c)]
    BY <1>1, LastList
  <2>2. last \in Seq(Row) /\ \A i \in DOMAIN last : last[i] \in OwnRow
    BY OwnRowsAreRows
  <2>3. given \in Seq(Row)
    BY EntityListsAssumption
  <2>4. /\ ReadOnDraft(last) = Entries(last, draft.version)
        /\ \A i \in DOMAIN last : last[i].pin = Unpinned => last[i].entity \in DraftRows
    BY <1>1, <2>1 DEF ReadOnDraft, Read
  <2>6. ASSUME CreateNextContainerVersion(c, num, given, "append"), ReadOnDraft(given) # Raises
        PROVE  DraftContents(c)' = ReadOnDraft(last) \o ReadOnDraft(given)
    <3>1. NewContainerVersion(c, num, last \o given)
      BY <1>1, <2>1, <2>6 DEF CreateNextContainerVersion, NextEntityList
    <3>2. /\ ReadOnDraft(given) = Entries(given, draft.version)
          /\ \A i \in DOMAIN given : given[i].pin = Unpinned => given[i].entity \in DraftRows
      BY <2>6 DEF ReadOnDraft, Read
    <3>3. \A i \in DOMAIN (last \o given) :
              (last \o given)[i].pin = Unpinned => (last \o given)[i].entity \in DraftRows
      <4>1. \A i \in DOMAIN (last \o given) :
                \/ \E j \in DOMAIN last : (last \o given)[i] = last[j]
                \/ \E j \in DOMAIN given : (last \o given)[i] = given[j]
        BY <2>2, <2>3, PartsOfConcat
      <4>2. QED
        BY <2>4, <3>2, <4>1
    <3>4. DraftContents(c)' = Entries(last \o given, draft.version)
      BY <1>1, <3>1, <3>3, ContentsWithRowsAfter
    <3>5. QED
      BY <2>2, <2>3, <2>4, <3>2, <3>4, EntriesConcat
  <2>7. ASSUME CreateNextContainerVersion(c, num, given, "remove")
        PROVE  DraftContents(c)' = OnlyIn(ReadOnDraft(last),
                      {entry \in ToSet(ReadOnDraft(last)) :
                          \A i \in DOMAIN given : given[i].entity # entry.entity})
    <3>. DEFINE kept == {row \in ToSet(last) :
                            \A i \in DOMAIN given : given[i].entity # row.entity}
                others == {entry \in SomeEntries(draft.version) :
                            \A i \in DOMAIN given : given[i].entity # entry.entity}
    <3>1. NewContainerVersion(c, num, OnlyIn(last, kept))
      <4>1. NewContainerVersion(c, num, WithoutEntities(last, given))
        BY <1>1, <2>1, <2>7 DEF CreateNextContainerVersion, NextEntityList
      <4>2. QED
        BY <4>1 DEF WithoutEntities
    <3>2. DraftContents(c)' = Entries(OnlyIn(last, kept), draft.version)
      <4>. HIDE DEF kept
      <4>1. \A i \in DOMAIN OnlyIn(last, kept) :
               \E j \in DOMAIN last : OnlyIn(last, kept)[i] = last[j]
        BY <2>2, PartsOfOnlyIn
      <4>2. \A i \in DOMAIN OnlyIn(last, kept) :
               OnlyIn(last, kept)[i].pin = Unpinned
                 => OnlyIn(last, kept)[i].entity \in DraftRows
        BY <2>4, <4>1
      <4>3. QED
        BY <1>1, <3>1, <4>2, ContentsWithRowsAfter
    <3>3. ASSUME NEW i \in DOMAIN last
          PROVE  last[i] \in kept <=> EntryOf(last[i], draft.version) \in others
      <4>1. PICK row \in OwnRow : row = last[i]
        BY <2>2
      <4>2. EntryOf(row, draft.version).entity = row.entity
        BY DEF EntryOf, Entry, OwnRow
      <4>3. EntryOf(row, draft.version) \in SomeEntries(draft.version)
        BY DEF SomeEntries, OwnRow
      <4>4. row \in ToSet(last)
        BY <4>1 DEF ToSet
      <4>5. QED
        BY <4>1, <4>2, <4>3, <4>4
    <3>4. others \subseteq SomeEntries(draft.version)
      OBVIOUS
    <3>5. PICK entries \in Seq(SomeEntries(draft.version)) :
                  entries = Entries(last, draft.version)
      BY <2>2, <3>4, EntriesLeft
    <3>6. Entries(OnlyIn(last, kept), draft.version) = OnlyIn(entries, others)
      <4>. HIDE DEF kept, others
      <4>1. Entries(OnlyIn(last, kept), draft.version)
              = OnlyIn(Entries(last, draft.version), others)
        BY <2>2, <3>3, EntriesOfKept
      <4>2. QED
        BY <3>5, <4>1
    <3>7. \A i \in DOMAIN entries : entries[i] \in others <=>
              entries[i] \in {entry \in ToSet(entries) :
                                \A j \in DOMAIN given : given[j].entity # entry.entity}
      <4>1. \A i \in DOMAIN entries : /\ entries[i] \in ToSet(entries)
                                      /\ entries[i] \in SomeEntries(draft.version)
        BY DEF ToSet
      <4>2. QED
        BY <4>1
    <3>8. OnlyIn(entries, others)
            = OnlyIn(entries, {entry \in ToSet(entries) :
                                \A j \in DOMAIN given : given[j].entity # entry.entity})
      <4>. HIDE DEF others
      <4>1. QED
        BY <3>7, OnlyInSame
    <3>9. QED
      BY <2>4, <3>2, <3>5, <3>6, <3>8
  <2>8. QED
    BY <2>1, <2>6, <2>7 DEF KeepsTheRest
<1>. DEFINE Act == \A c \in Containers, given \in EntityLists, num \in 1 .. MaxVersionNum :
        LET last == rows[c][Latest(c)]
        IN  Latest(c) # None /\ ReadOnDraft(last) # Raises =>
              /\ CreateNextContainerVersion(c, num, given, "append")
                 /\ ReadOnDraft(given) # Raises
                    => DraftContents(c)' = ReadOnDraft(last) \o ReadOnDraft(given)
              /\ CreateNextContainerVersion(c, num, given, "remove")
                    => DraftContents(c)' = OnlyIn(ReadOnDraft(last),
                          {entry \in ToSet(ReadOnDraft(last)) :
                              \A i \in DOMAIN given : given[i].entity # entry.entity})
<1>2. TypeOK /\ NumbersIInv /\ ListsIInv => Act
  BY <1>1 DEF KeepsTheRest
<1>3. AppendAndRemoveKeepTheRest <=> [][Act]_containersVars
  BY DEF AppendAndRemoveKeepTheRest
<1>. HIDE DEF Act
<1>4. QED
  BY <1>2, <1>3, ListsAlwaysInOrder, PTL

-----------------------------------------------------------------------------
(***************************************************************************)
(* Collections: the type invariant, and that no change goes without a      *)
(* modified date.                                                          *)
(*                                                                         *)
(* Neither needs a stronger invariant.  The dates are proved call by call, *)
(* as all but set_collections go through SaveCollection.                   *)
(***************************************************************************)
\* Saving a row keeps the table's type.
LEMMA SavedRowIsTyped ==
    ASSUME CollectionsTypeOK, NEW k \in CollectionKeys, NEW row \in Collection,
           SaveCollection(k, row)
    PROVE  CollectionsTypeOK'
  BY DEF CollectionsTypeOK, SaveCollection

\* A call that saves one row dates the only collection it changes.
LEMMA SavedRowIsDated ==
    ASSUME NEW k, NEW row, SaveCollection(k, row), NEW other \in DOMAIN collections'
    PROVE  \/ Exists(other) /\ collections'[other] = collections[other]
           \/ other \in modified'
  BY DEF SaveCollection, Exists

\* A hard deletion takes a row away and leaves the others alone.
LEMMA HardDelete ==
    ASSUME NEW k, Exists(k), DeleteCollection(k, TRUE)
    PROVE  /\ collections' = [key \in DOMAIN collections \ {k} |-> collections[key]]
           /\ modified' = {}
  BY DEF DeleteCollection

\* Any other call on one collection saves a row of the right type.
LEMMA CallSavesRow ==
    ASSUME CollectionsTypeOK, NEW k,
           \/ \E enabled \in BOOLEAN : CreateCollection(k, enabled)
           \/ UpdateCollection(k)
           \/ DeleteCollection(k, FALSE)
           \/ RestoreCollection(k)
           \/ \E E \in SUBSET Entities : AddToCollection(k, E)
           \/ \E E \in SUBSET Entities : RemoveFromCollection(k, E)
    PROVE  \E row \in Collection : SaveCollection(k, row)
<1>1. CASE \E enabled \in BOOLEAN : CreateCollection(k, enabled)
  <2>1. PICK enabled \in BOOLEAN : CreateCollection(k, enabled)
    BY <1>1
  <2>2. [enabled |-> enabled, entities |-> {}] \in Collection
    BY DEF Collection
  <2>3. QED
    BY <2>1, <2>2 DEF CreateCollection
<1>2. ASSUME Exists(k) PROVE collections[k] \in Collection
  BY <1>2 DEF CollectionsTypeOK, Exists
<1>3. CASE UpdateCollection(k)
  BY <1>2, <1>3 DEF UpdateCollection
<1>4. CASE DeleteCollection(k, FALSE)
  <2>1. [collections[k] EXCEPT !.enabled = FALSE] \in Collection
    BY <1>2, <1>4 DEF DeleteCollection, Collection
  <2>2. QED
    BY <1>4, <2>1 DEF DeleteCollection
<1>5. CASE RestoreCollection(k)
  <2>1. [collections[k] EXCEPT !.enabled = TRUE] \in Collection
    BY <1>2, <1>5 DEF RestoreCollection, Collection
  <2>2. QED
    BY <1>5, <2>1 DEF RestoreCollection
<1>6. CASE \E E \in SUBSET Entities : AddToCollection(k, E)
  <2>1. PICK E \in SUBSET Entities : AddToCollection(k, E)
    BY <1>6
  <2>2. [collections[k] EXCEPT !.entities = @ \cup E] \in Collection
    BY <1>2, <2>1 DEF AddToCollection, Collection
  <2>3. QED
    BY <2>1, <2>2 DEF AddToCollection
<1>7. CASE \E E \in SUBSET Entities : RemoveFromCollection(k, E)
  <2>1. PICK E \in SUBSET Entities : RemoveFromCollection(k, E)
    BY <1>7
  <2>2. [collections[k] EXCEPT !.entities = @ \ E] \in Collection
    BY <1>2, <2>1 DEF RemoveFromCollection, Collection
  <2>3. QED
    BY <2>1, <2>2 DEF RemoveFromCollection
<1>8. QED
  BY <1>1, <1>3, <1>4, <1>5, <1>6, <1>7

\* The calls fall into three kinds.
LEMMA CallsOfOneCollection ==
    ASSUME CollectionsTypeOK, CollectionsNext
    PROVE  \/ \E k \in CollectionKeys : \E row \in Collection : SaveCollection(k, row)
           \/ \E k \in CollectionKeys : Exists(k) /\ DeleteCollection(k, TRUE)
           \/ \E e \in Entities, C \in SUBSET CollectionKeys : SetCollections(e, C)
<1>1. CASE \E e \in Entities, C \in SUBSET CollectionKeys : SetCollections(e, C)
  BY <1>1
<1>2. CASE \E k \in CollectionKeys : DeleteCollection(k, TRUE)
  BY <1>2 DEF DeleteCollection
<1>3. CASE \E k \in CollectionKeys :
             \/ \E enabled \in BOOLEAN : CreateCollection(k, enabled)
             \/ UpdateCollection(k)
             \/ DeleteCollection(k, FALSE)
             \/ RestoreCollection(k)
             \/ \E E \in SUBSET Entities : AddToCollection(k, E)
             \/ \E E \in SUBSET Entities : RemoveFromCollection(k, E)
  BY <1>3, CallSavesRow
<1>4. QED
  BY <1>1, <1>2, <1>3 DEF CollectionsNext

\* set_collections changes the membership of e and nothing else: the collections
\* it changes are the ones it dates.
LEMMA SetCollectionsIsDated ==
    ASSUME CollectionsTypeOK, NEW e \in Entities, NEW C \in SUBSET CollectionKeys,
           SetCollections(e, C), NEW k \in DOMAIN collections'
    PROVE  \/ Exists(k) /\ collections'[k] = collections[k]
           \/ k \in modified'
<1>1. k \in DOMAIN collections
  BY DEF SetCollections
<1>2. collections[k] \in Collection
  BY <1>1 DEF CollectionsTypeOK
<1>3. CASE k \in C /\ e \in collections[k].entities
  <2>1. collections'[k] = [collections[k] EXCEPT !.entities = @ \cup {e}]
    BY <1>1, <1>3 DEF SetCollections
  <2>2. collections[k].entities \cup {e} = collections[k].entities
    BY <1>3
  <2>3. QED
    BY <1>1, <1>2, <2>1, <2>2 DEF Collection, Exists
<1>4. CASE k \notin C /\ e \notin collections[k].entities
  <2>1. collections'[k] = [collections[k] EXCEPT !.entities = @ \ {e}]
    BY <1>1, <1>4 DEF SetCollections
  <2>2. collections[k].entities \ {e} = collections[k].entities
    BY <1>4
  <2>3. QED
    BY <1>1, <1>2, <2>1, <2>2 DEF Collection, Exists
<1>5. CASE k \in C <=> e \notin collections[k].entities
  BY <1>1, <1>5 DEF SetCollections, Affected, RelationsOf
<1>6. QED
  BY <1>3, <1>4, <1>5

\* Collections keep their type through every call.
LEMMA CollectionsTypeStep ==
    CollectionsTypeOK /\ [CollectionsNext]_collectionsVars => CollectionsTypeOK'
<1>. SUFFICES ASSUME CollectionsTypeOK, [CollectionsNext]_collectionsVars
              PROVE  CollectionsTypeOK'
  OBVIOUS
<1>1. CASE \E k \in CollectionKeys : \E row \in Collection : SaveCollection(k, row)
  BY <1>1, SavedRowIsTyped
<1>2. CASE \E k \in CollectionKeys : Exists(k) /\ DeleteCollection(k, TRUE)
  <2>1. PICK k \in CollectionKeys : Exists(k) /\ DeleteCollection(k, TRUE)
    BY <1>2
  <2>2. /\ collections' = [key \in DOMAIN collections \ {k} |-> collections[key]]
        /\ modified' = {}
    BY <2>1, HardDelete
  <2>3. QED
    BY <2>2 DEF CollectionsTypeOK
<1>3. CASE \E e \in Entities, C \in SUBSET CollectionKeys : SetCollections(e, C)
  <2>1. PICK e \in Entities, C \in SUBSET CollectionKeys : SetCollections(e, C)
    BY <1>3
  <2>2. DOMAIN collections' = DOMAIN collections
    BY <2>1 DEF SetCollections
  <2>3. ASSUME NEW k \in DOMAIN collections PROVE collections'[k] \in Collection
    <3>1. collections[k] \in Collection
      BY <2>3 DEF CollectionsTypeOK
    <3>2. collections'[k] =
            [collections[k] EXCEPT !.entities = IF k \in C THEN @ \cup {e} ELSE @ \ {e}]
      BY <2>1, <2>3 DEF SetCollections
    <3>3. QED
      BY <3>1, <3>2 DEF Collection
  <2>4. modified' \subseteq DOMAIN collections
    BY <2>1 DEF SetCollections, Affected, RelationsOf
  <2>5. QED
    BY <2>2, <2>3, <2>4 DEF CollectionsTypeOK
<1>4. CASE UNCHANGED collectionsVars
  BY <1>4 DEF collectionsVars, CollectionsTypeOK
<1>5. QED
  BY <1>1, <1>2, <1>3, <1>4, CallsOfOneCollection

\* Every reachable table of collections has rows of its type: what the calls of
\* collections/api.py leave, soft and hard deletions included.
THEOREM CollectionsTypeCorrect == CollectionsSpec => []CollectionsTypeOK
<1>1. CollectionsInit => CollectionsTypeOK
  BY DEF CollectionsInit, CollectionsTypeOK
<1>2. QED
  BY <1>1, CollectionsTypeStep, PTL DEF CollectionsSpec

\* Whatever one call changes it dates.
LEMMA CollectionsNextIsDated ==
    ASSUME CollectionsTypeOK, CollectionsNext
    PROVE  \A k \in DOMAIN collections' :
              \/ Exists(k) /\ collections'[k] = collections[k]
              \/ k \in modified'
<1>1. CASE \E k \in CollectionKeys : \E row \in Collection : SaveCollection(k, row)
  BY <1>1, SavedRowIsDated
<1>2. CASE \E k \in CollectionKeys : Exists(k) /\ DeleteCollection(k, TRUE)
  <2>1. PICK k \in CollectionKeys : Exists(k) /\ DeleteCollection(k, TRUE)
    BY <1>2
  <2>2. QED
    BY <2>1, HardDelete DEF Exists
<1>3. CASE \E e \in Entities, C \in SUBSET CollectionKeys : SetCollections(e, C)
  <2>1. PICK e \in Entities, C \in SUBSET CollectionKeys : SetCollections(e, C)
    BY <1>3
  <2>2. QED
    BY <2>1, SetCollectionsIsDated
<1>4. QED
  BY <1>1, <1>2, <1>3, CallsOfOneCollection

\* No call changes, creates, disables or enables a collection without setting its
\* modified date, soft-deleted collections that set_collections goes through
\* included.
THEOREM CollectionChangesAreDated == CollectionsSpec => ChangesAreDated
<1>1. ASSUME CollectionsTypeOK, [CollectionsNext]_collectionsVars
      PROVE  [\A k \in DOMAIN collections' :
                 \/ Exists(k) /\ collections'[k] = collections[k]
                 \/ k \in modified']_collectionsVars
  BY <1>1, CollectionsNextIsDated
<1>2. QED
  BY <1>1, CollectionsTypeCorrect, PTL DEF CollectionsSpec, ChangesAreDated

(***************************************************************************)
(* Collections of a package that is dumped and restored                    *)
(***************************************************************************)
\* The collections of an archive are collections of the dumped package.
ArchivedCollections ==
    stage # "editing" =>
        /\ DOMAIN archive.collections \subseteq CollectionKeys
        /\ \A k \in DOMAIN archive.collections : archive.collections[k] \subseteq Entities

DatedIInv == CollectionsTypeOK /\ ArchivedCollections

\* What a dump writes of the collections, whatever files are lost.
LEMMA DumpKeepsCollections ==
    ASSUME Dump
    PROVE  archive'.collections = [k \in EnabledCollections |-> collections[k].entities]
<1>1. CreateZip.collections = [k \in EnabledCollections |-> collections[k].entities]
  BY DEF CreateZip
<1>2. CASE archive' = CreateZip
  BY <1>1, <1>2
<1>3. CASE archive' = WithoutPackage(CreateZip)
  BY <1>1, <1>3 DEF WithoutPackage, CreateZip
<1>4. CASE \E lost \in Losses : archive' = Without(CreateZip, lost)
  BY <1>1, <1>4 DEF Without, CreateZip
<1>5. QED
  BY <1>2, <1>3, <1>4 DEF Dump

\* The collections change in an edit, when the package is emptied, and when
\* _save_collections writes those of the archive.
LEMMA CollectionsChangeIn ==
    ASSUME [BackupNext]_backupVars
    PROVE  \/ stage = "editing" /\ CollectionsNext
           \/ collections' = << >> /\ modified' = {}
           \/ /\ stage = "published versions"
              /\ collections' = [k \in DOMAIN archive.collections |->
                                    [enabled |-> TRUE, entities |-> archive.collections[k]]]
              /\ modified' = DOMAIN archive.collections
           \/ UNCHANGED collectionsVars
<1>1. CASE Edit
  BY <1>1 DEF Edit, UpdateLearningPackage
<1>2. CASE Dump \/ RollBack
  BY <1>2 DEF Dump, RollBack, NoPackage
<1>3. CASE PublishRestored
  BY <1>3 DEF PublishRestored
<1>4. CASE Refuse \/ FailToBegin
  BY <1>4 DEF Refuse, FailToBegin, packageVars
<1>5. CASE BeginRestore \/ BeginSecondBulk
  BY <1>5 DEF BeginRestore, BeginSecondBulk
<1>6. CASE SaveEntity \/ SavePublishedVersion \/ SaveDraftVersion
  BY <1>6 DEF SaveEntity, SavePublishedVersion, SaveDraftVersion
<1>7. CASE EndFirstBulk \/ EndRestore
  BY <1>7 DEF EndFirstBulk, EndRestore
<1>8. CASE UNCHANGED backupVars
  BY <1>8 DEF backupVars, packageVars, collectionsVars
<1>9. QED
  BY <1>1, <1>2, <1>3, <1>4, <1>5, <1>6, <1>7, <1>8 DEF BackupNext

\* An archive is written in one step and stays.
LEMMA ArchiveStays ==
    ASSUME [BackupNext]_backupVars
    PROVE  \/ stage = "editing" /\ stage' = "editing"
           \/ Dump
           \/ stage # "editing" /\ stage' # "editing" /\ archive' = archive /\ saved' = saved
<1>1. CASE Edit
  BY <1>1 DEF Edit
<1>2. CASE RollBack \/ PublishRestored
  BY <1>2 DEF RollBack, PublishRestored
<1>3. CASE Refuse \/ FailToBegin
  BY <1>3 DEF Refuse, FailToBegin
<1>4. CASE BeginRestore \/ BeginSecondBulk
  BY <1>4 DEF BeginRestore, BeginSecondBulk
<1>5. CASE SaveEntity \/ SavePublishedVersion \/ SaveDraftVersion
  BY <1>5 DEF SaveEntity, SavePublishedVersion, SaveDraftVersion
<1>6. CASE EndFirstBulk \/ EndRestore
  BY <1>6 DEF EndFirstBulk, EndRestore
<1>7. CASE UNCHANGED backupVars
  BY <1>7 DEF backupVars
<1>8. QED
  BY <1>1, <1>2, <1>3, <1>4, <1>5, <1>6, <1>7 DEF BackupNext

\* No step of the package loses the date of a collection that is linked.
LEMMA DatedIInvStep == DatedIInv /\ [BackupNext]_backupVars => DatedIInv'
<1>. SUFFICES ASSUME DatedIInv, [BackupNext]_backupVars
              PROVE  DatedIInv'
  OBVIOUS
<1>1. CollectionsTypeOK'
  <2>1. CASE CollectionsNext \/ UNCHANGED collectionsVars
    BY <2>1, CollectionsTypeStep DEF DatedIInv
  <2>2. CASE collections' = << >> /\ modified' = {}
    BY <2>2 DEF CollectionsTypeOK
  <2>3. CASE /\ stage = "published versions"
             /\ collections' = [k \in DOMAIN archive.collections |->
                                   [enabled |-> TRUE, entities |-> archive.collections[k]]]
             /\ modified' = DOMAIN archive.collections
    BY <2>3 DEF DatedIInv, ArchivedCollections, CollectionsTypeOK, Collection
  <2>4. QED
    BY <2>1, <2>2, <2>3, CollectionsChangeIn
<1>2. ArchivedCollections'
  <2>1. CASE Dump
    BY <2>1, DumpKeepsCollections
       DEF DatedIInv, CollectionsTypeOK, ArchivedCollections, EnabledCollections, Collection
  <2>2. QED
    BY <2>1, ArchiveStays DEF DatedIInv, ArchivedCollections
<1>3. QED
  BY <1>1, <1>2 DEF DatedIInv

\* Nor does a dump or a restore change a collection without setting its modified
\* date: a restored collection has its entities from one call that dates it, and
\* there is none before it.
THEOREM RestoredCollectionsAreDated == BackupSpec => ChangesAreDated
<1>1. BackupInit => DatedIInv
  BY DEF BackupInit, CollectionsInit, DatedIInv, CollectionsTypeOK, ArchivedCollections
<1>2. ASSUME DatedIInv, [BackupNext]_backupVars
      PROVE  [\A k \in DOMAIN collections' :
                 \/ Exists(k) /\ collections'[k] = collections[k]
                 \/ k \in modified']_collectionsVars
  <2>1. CASE CollectionsNext
    BY <1>2, <2>1, CollectionsNextIsDated DEF DatedIInv
  <2>2. CASE collections' = << >> /\ modified' = {}
    BY <2>2
  <2>3. CASE /\ collections' = [k \in DOMAIN archive.collections |->
                                   [enabled |-> TRUE, entities |-> archive.collections[k]]]
             /\ modified' = DOMAIN archive.collections
    BY <2>3
  <2>4. CASE UNCHANGED collectionsVars
    BY <2>4
  <2>5. QED
    BY <1>2, <2>1, <2>2, <2>3, <2>4, CollectionsChangeIn
<1>3. QED
  BY <1>1, <1>2, DatedIInvStep, PTL DEF BackupSpec, ChangesAreDated

-----------------------------------------------------------------------------
(***************************************************************************)
(* What is to be saved, in order: each entity before the versions that     *)
(* have it as a child, and nothing twice.                                  *)
(***************************************************************************)
Items == {"entity", "version"} \X Entities

MayPrecede(x, y) ==
    /\ x # y
    /\ x[1] = "version" /\ y[1] = "entity" => Level[x[2]] < Level[y[2]]

InOrder(items) ==
    \A i, j \in DOMAIN items : i < j => MayPrecede(items[i], items[j])

\* No item occurs twice.
Distinct(list) == \A i, j \in DOMAIN list : i < j => list[i] # list[j]

\* What a longer list has.
LEMMA AppendItems ==
    ASSUME NEW S, NEW list \in Seq(S), NEW item \in S
    PROVE  /\ ToSet(Append(list, item)) = ToSet(list) \cup {item}
           /\ Distinct(Append(list, item)) <=> Distinct(list) /\ item \notin ToSet(list)
<1>1. PICK longer : longer = Append(list, item)
  OBVIOUS
<1>2. PICK n \in Nat : n = Len(list) /\ DOMAIN list = 1 .. n
  BY LenProperties
<1>3. /\ DOMAIN longer = 1 .. n + 1
      /\ longer[n + 1] = item
      /\ \A i \in 1 .. n : longer[i] = list[i]
  BY <1>1, <1>2, AppendProperties, LenProperties
<1>4. ToSet(longer) = {longer[i] : i \in 1 .. n + 1} /\ ToSet(list) = {list[i] : i \in 1 .. n}
  BY <1>2, <1>3 DEF ToSet
<1>5. ToSet(longer) = ToSet(list) \cup {item}
  BY <1>3, <1>4
<1>6. Distinct(longer) => Distinct(list) /\ item \notin ToSet(list)
  BY <1>2, <1>3, <1>4 DEF Distinct
<1>7. ASSUME Distinct(list), item \notin ToSet(list) PROVE Distinct(longer)
  <2>. SUFFICES ASSUME NEW i \in 1 .. n + 1, NEW j \in 1 .. n + 1, i < j
                PROVE  longer[i] # longer[j]
    BY <1>3 DEF Distinct
  <2>1. i \in 1 .. n
    OBVIOUS
  <2>2. CASE j = n + 1
    BY <1>3, <1>4, <1>7, <2>1, <2>2
  <2>3. CASE j \in 1 .. n
    BY <1>2, <1>3, <1>7, <2>1, <2>3 DEF Distinct
  <2>4. QED
    BY <2>2, <2>3
<1>8. QED
  BY <1>1, <1>5, <1>6, <1>7

\* A filtered list has the items that are kept, and none twice if the list has not.
LEMMA OnlyInItems ==
    ASSUME NEW S, NEW list \in Seq(S), NEW kept
    PROVE  /\ ToSet(OnlyIn(list, kept)) = ToSet(list) \cap kept
           /\ Distinct(list) => Distinct(OnlyIn(list, kept))
<1>. DEFINE Right(l) == /\ ToSet(OnlyIn(l, kept)) = ToSet(l) \cap kept
                        /\ Distinct(l) => Distinct(OnlyIn(l, kept))
            Fail == {l \in Seq(S) : ~ Right(l)}
<1>1. << >> \notin Fail
  <2>1. ToSet(<< >>) = {} /\ Distinct(<< >>)
    BY DEF ToSet, Distinct
  <2>2. QED
    BY <2>1, OnlyInEmpty
<1>2. SUFFICES ASSUME Fail # {} PROVE FALSE
  OBVIOUS
<1>3. PICK l \in Seq(S), item \in S : l \notin Fail /\ Append(l, item) \in Fail
  <2>1. Fail \in SUBSET Seq(S)
    OBVIOUS
  <2>. HIDE DEF Fail
  <2>2. QED
    BY <1>1, <1>2, <2>1, ShortestList
<1>4. PICK before : before = OnlyIn(l, kept)
  OBVIOUS
<1>5. /\ ToSet(before) = ToSet(l) \cap kept
      /\ Distinct(l) => Distinct(before)
      /\ before \in Seq(S)
  <2>1. before \in Seq(S \cap kept)
    BY <1>4, OnlyInType
  <2>2. before \in Seq(S)
    BY <2>1, SeqMonotonic
  <2>3. QED
    BY <1>3, <1>4, <2>2
<1>6. OnlyIn(Append(l, item), kept) = IF item \in kept THEN Append(before, item) ELSE before
  BY <1>4, OnlyInAppend
<1>7. /\ ToSet(Append(l, item)) = ToSet(l) \cup {item}
      /\ Distinct(Append(l, item)) <=> Distinct(l) /\ item \notin ToSet(l)
      /\ ToSet(Append(before, item)) = ToSet(before) \cup {item}
      /\ Distinct(Append(before, item)) <=> Distinct(before) /\ item \notin ToSet(before)
  BY <1>5, AppendItems
<1>8. Right(Append(l, item))
  BY <1>5, <1>6, <1>7
<1>9. QED
  BY <1>3, <1>8

\* Two lists one after the other.
LEMMA ConcatInOrder ==
    ASSUME NEW S, NEW s \in Seq(S), NEW t \in Seq(S), InOrder(s), InOrder(t),
           \A x \in ToSet(s), y \in ToSet(t) : MayPrecede(x, y)
    PROVE  s \o t \in Seq(S) /\ InOrder(s \o t) /\ ToSet(s \o t) = ToSet(s) \cup ToSet(t)
<1>1. PICK both : both = s \o t
  OBVIOUS
<1>2. PICK n \in Nat : n = Len(s) /\ DOMAIN s = 1 .. n
  BY LenProperties
<1>3. PICK m \in Nat : m = Len(t) /\ DOMAIN t = 1 .. m
  BY LenProperties
<1>4. /\ both \in Seq(S)
      /\ DOMAIN both = 1 .. n + m
      /\ \A i \in 1 .. n + m : both[i] = IF i <= n THEN s[i] ELSE t[i - n]
  BY <1>1, <1>2, <1>3, ConcatProperties, LenProperties
<1>5. /\ ToSet(both) = {both[i] : i \in 1 .. n + m}
      /\ ToSet(s) = {s[i] : i \in 1 .. n}
      /\ ToSet(t) = {t[i] : i \in 1 .. m}
  BY <1>2, <1>3, <1>4 DEF ToSet
<1>6. /\ \A i \in 1 .. n : i \in 1 .. n + m /\ both[i] = s[i]
      /\ \A i \in 1 .. m : n + i \in 1 .. n + m /\ both[n + i] = t[i]
      /\ \A i \in 1 .. n + m : i \in 1 .. n \/ (i - n \in 1 .. m /\ both[i] = t[i - n])
  BY <1>4
<1>7. ToSet(both) = ToSet(s) \cup ToSet(t)
  <2>1. ToSet(both) \subseteq ToSet(s) \cup ToSet(t)
    BY <1>5, <1>6
  <2>2. ToSet(s) \subseteq ToSet(both)
    BY <1>5, <1>6
  <2>3. ToSet(t) \subseteq ToSet(both)
    <3>1. \A i \in 1 .. m : t[i] \in ToSet(both)
      <4>1. ASSUME NEW i \in 1 .. m PROVE t[i] \in ToSet(both)
        <5>1. n + i \in 1 .. n + m /\ both[n + i] = t[i]
          BY <1>6
        <5>2. QED
          BY <1>5, <5>1
      <4>2. QED
        BY <4>1
    <3>2. QED
      BY <1>5, <3>1
  <2>4. QED
    BY <2>1, <2>2, <2>3
<1>8. ASSUME NEW i \in 1 .. n + m, NEW j \in 1 .. n + m, i < j
      PROVE  MayPrecede(both[i], both[j])
  <2>1. CASE j <= n
    <3>1. i \in DOMAIN s /\ j \in DOMAIN s /\ both[i] = s[i] /\ both[j] = s[j]
      BY <1>2, <1>4, <1>8, <2>1
    <3>2. QED
      BY <1>8, <3>1 DEF InOrder
  <2>2. CASE i <= n /\ n < j
    <3>1. both[i] \in ToSet(s) /\ both[j] \in ToSet(t)
      BY <1>4, <1>5, <2>2
    <3>2. QED
      BY <3>1
  <2>3. CASE n < i
    <3>1. both[i] = t[i - n] /\ both[j] = t[j - n] /\ i - n < j - n
          /\ i - n \in DOMAIN t /\ j - n \in DOMAIN t
      BY <1>3, <1>4, <1>8, <2>3
    <3>2. QED
      BY <3>1 DEF InOrder
  <2>4. QED
    BY <1>8, <2>1, <2>2, <2>3
<1>9. InOrder(both)
  BY <1>4, <1>8 DEF InOrder
<1>10. QED
  BY <1>1, <1>4, <1>7, <1>9

\* The first item, and what is left.
LEMMA FirstItem ==
    ASSUME NEW S, NEW items \in Seq(S), items # << >>, InOrder(items)
    PROVE  /\ Head(items) \in S
           /\ Tail(items) \in Seq(S)
           /\ InOrder(Tail(items))
           /\ ToSet(Tail(items)) = ToSet(items) \ {Head(items)}
           /\ Head(items) \in ToSet(items)
           /\ \A x \in ToSet(Tail(items)) : MayPrecede(Head(items), x)
<1>1. PICK rest : rest = Tail(items)
  OBVIOUS
<1>2. PICK n \in Nat \ {0} : n = Len(items) /\ DOMAIN items = 1 .. n
  BY EmptySeq, LenProperties
<1>3. /\ rest \in Seq(S)
      /\ DOMAIN rest = 1 .. n - 1
      /\ \A i \in 1 .. n - 1 : rest[i] = items[i + 1]
      /\ Head(items) = items[1]
  BY <1>1, <1>2, HeadTailProperties, LenProperties
<1>4. /\ ToSet(rest) = {rest[i] : i \in 1 .. n - 1}
      /\ ToSet(items) = {items[i] : i \in 1 .. n}
  BY <1>2, <1>3 DEF ToSet
<1>5. ASSUME NEW i \in 1 .. n - 1
      PROVE  MayPrecede(items[1], rest[i]) /\ rest[i] \in ToSet(items)
  <2>1. rest[i] = items[i + 1] /\ i + 1 \in 1 .. n /\ 1 < i + 1 /\ 1 \in 1 .. n
    BY <1>3
  <2>2. QED
    BY <1>2, <1>4, <2>1 DEF InOrder
<1>6. ASSUME NEW i \in 1 .. n, items[i] # items[1] PROVE items[i] \in ToSet(rest)
  <2>1. i # 1
    BY <1>6
  <2>2. i - 1 \in 1 .. n - 1 /\ (i - 1) + 1 = i
    BY <2>1
  <2>3. QED
    BY <1>3, <1>4, <2>2
<1>7. \A x \in ToSet(rest) : MayPrecede(items[1], x) /\ x # items[1] /\ x \in ToSet(items)
  BY <1>4, <1>5 DEF MayPrecede
<1>8. items[1] \in ToSet(items) /\ items[1] \in S
  BY <1>2, <1>4
<1>9. ToSet(rest) = ToSet(items) \ {items[1]}
  BY <1>4, <1>6, <1>7
<1>10. InOrder(rest)
  <2>. SUFFICES ASSUME NEW i \in 1 .. n - 1, NEW j \in 1 .. n - 1, i < j
                PROVE  MayPrecede(rest[i], rest[j])
    BY <1>3 DEF InOrder
  <2>1. /\ rest[i] = items[i + 1] /\ rest[j] = items[j + 1]
        /\ i + 1 \in 1 .. n /\ j + 1 \in 1 .. n /\ i + 1 < j + 1
    BY <1>3
  <2>2. QED
    BY <1>2, <2>1 DEF InOrder
<1>11. QED
  BY <1>1, <1>3, <1>7, <1>8, <1>9, <1>10

\* Two lists that have nothing in common.
LEMMA ConcatDistinct ==
    ASSUME NEW S, NEW s \in Seq(S), NEW t \in Seq(S), Distinct(s), Distinct(t),
           \A x \in ToSet(s), y \in ToSet(t) : x # y
    PROVE  s \o t \in Seq(S) /\ Distinct(s \o t) /\ ToSet(s \o t) = ToSet(s) \cup ToSet(t)
<1>1. PICK both : both = s \o t
  OBVIOUS
<1>2. PICK n \in Nat : n = Len(s) /\ DOMAIN s = 1 .. n
  BY LenProperties
<1>3. PICK m \in Nat : m = Len(t) /\ DOMAIN t = 1 .. m
  BY LenProperties
<1>4. /\ both \in Seq(S)
      /\ DOMAIN both = 1 .. n + m
      /\ \A i \in 1 .. n + m : both[i] = IF i <= n THEN s[i] ELSE t[i - n]
  BY <1>1, <1>2, <1>3, ConcatProperties, LenProperties
<1>5. /\ ToSet(both) = {both[i] : i \in 1 .. n + m}
      /\ ToSet(s) = {s[i] : i \in 1 .. n}
      /\ ToSet(t) = {t[i] : i \in 1 .. m}
  BY <1>2, <1>3, <1>4 DEF ToSet
<1>6. ASSUME NEW i \in 1 .. n + m PROVE both[i] \in ToSet(s) \cup ToSet(t)
  <2>1. CASE i <= n
    BY <1>4, <1>5, <2>1
  <2>2. CASE n < i
    <3>1. i - n \in 1 .. m /\ both[i] = t[i - n]
      BY <1>4, <2>2
    <3>2. QED
      BY <1>5, <3>1
  <2>3. QED
    BY <2>1, <2>2
<1>7. ASSUME NEW i \in 1 .. n PROVE s[i] \in ToSet(both)
  <2>1. i \in 1 .. n + m /\ both[i] = s[i]
    BY <1>4
  <2>2. QED
    BY <1>5, <2>1
<1>8. ASSUME NEW i \in 1 .. m PROVE t[i] \in ToSet(both)
  <2>1. n + i \in 1 .. n + m /\ both[n + i] = t[i]
    BY <1>4
  <2>2. QED
    BY <1>5, <2>1
<1>9. ToSet(both) = ToSet(s) \cup ToSet(t)
  BY <1>5, <1>6, <1>7, <1>8
<1>10. ASSUME NEW i \in 1 .. n + m, NEW j \in 1 .. n + m, i < j PROVE both[i] # both[j]
  <2>1. CASE j <= n
    <3>1. i \in DOMAIN s /\ j \in DOMAIN s /\ both[i] = s[i] /\ both[j] = s[j]
      BY <1>2, <1>4, <1>10, <2>1
    <3>2. QED
      BY <1>10, <3>1 DEF Distinct
  <2>2. CASE i <= n /\ n < j
    <3>1. both[i] \in ToSet(s) /\ both[j] \in ToSet(t)
      BY <1>4, <1>5, <2>2
    <3>2. QED
      BY <3>1
  <2>3. CASE n < i
    <3>1. both[i] = t[i - n] /\ both[j] = t[j - n] /\ i - n < j - n
          /\ i - n \in DOMAIN t /\ j - n \in DOMAIN t
      BY <1>3, <1>4, <1>10, <2>3
    <3>2. QED
      BY <3>1 DEF Distinct
  <2>4. QED
    BY <1>10, <2>1, <2>2, <2>3
<1>11. Distinct(both)
  BY <1>4, <1>10 DEF Distinct
<1>12. QED
  BY <1>1, <1>4, <1>9, <1>11

\* EntityOrder has every entity once.
LEMMA OrderIsAList ==
    EntityOrder \in Seq(Entities) /\ Distinct(EntityOrder) /\ ToSet(EntityOrder) = Entities
  BY BackupAssumption DEF Distinct, IsInjective, ToSet

-----------------------------------------------------------------------------
\* What there is to save of the entities of one level.
LEMMA ItemsOfList ==
    ASSUME NEW order \in Seq(Entities), Distinct(order)
    PROVE  /\ EntityItems(order) \in Seq(Items) /\ InOrder(EntityItems(order))
           /\ ToSet(EntityItems(order)) = {<<"entity", e>> : e \in ToSet(order)}
           /\ VersionItems(order) \in Seq(Items) /\ InOrder(VersionItems(order))
           /\ ToSet(VersionItems(order)) = {<<"version", e>> : e \in ToSet(order)}
<1>1. PICK n \in Nat : n = Len(order) /\ DOMAIN order = 1 .. n
  BY LenProperties
<1>2. \A i \in 1 .. n : order[i] \in Entities
  BY <1>1
<1>3. ToSet(order) = {order[i] : i \in 1 .. n}
  BY <1>1 DEF ToSet
<1>4. PICK items : items = EntityItems(order)
  OBVIOUS
<1>5. items = [i \in 1 .. n |-> <<"entity", order[i]>>]
  BY <1>1, <1>4 DEF EntityItems
<1>6. items \in Seq(Items)
  BY <1>2, <1>5 DEF Items
<1>7. DOMAIN items = 1 .. n /\ \A i \in 1 .. n : items[i] = <<"entity", order[i]>>
  BY <1>5
<1>8. ToSet(items) = {<<"entity", e>> : e \in ToSet(order)}
  <2>1. ToSet(items) = {items[i] : i \in 1 .. n}
    BY <1>7 DEF ToSet
  <2>2. QED
    BY <1>3, <1>7, <2>1
<1>9. InOrder(items)
  <2>. SUFFICES ASSUME NEW i \in 1 .. n, NEW j \in 1 .. n, i < j
                PROVE  MayPrecede(items[i], items[j])
    BY <1>7 DEF InOrder
  <2>1. order[i] # order[j]
    BY <1>1 DEF Distinct
  <2>2. items[i] = <<"entity", order[i]>> /\ items[j] = <<"entity", order[j]>>
    BY <1>7
  <2>3. QED
    BY <2>1, <2>2 DEF MayPrecede
<1>10. PICK others : others = VersionItems(order)
  OBVIOUS
<1>11. others = [i \in 1 .. n |-> <<"version", order[i]>>]
  BY <1>1, <1>10 DEF VersionItems
<1>12. others \in Seq(Items)
  BY <1>2, <1>11 DEF Items
<1>13. DOMAIN others = 1 .. n /\ \A i \in 1 .. n : others[i] = <<"version", order[i]>>
  BY <1>11
<1>14. ToSet(others) = {<<"version", e>> : e \in ToSet(order)}
  <2>1. ToSet(others) = {others[i] : i \in 1 .. n}
    BY <1>13 DEF ToSet
  <2>2. QED
    BY <1>3, <1>13, <2>1
<1>15. InOrder(others)
  <2>. SUFFICES ASSUME NEW i \in 1 .. n, NEW j \in 1 .. n, i < j
                PROVE  MayPrecede(others[i], others[j])
    BY <1>13 DEF InOrder
  <2>1. order[i] # order[j]
    BY <1>1 DEF Distinct
  <2>2. others[i] = <<"version", order[i]>> /\ others[j] = <<"version", order[j]>>
    BY <1>13
  <2>3. QED
    BY <2>1, <2>2 DEF MayPrecede
<1>16. QED
  BY <1>4, <1>6, <1>8, <1>9, <1>10, <1>12, <1>14, <1>15

\* The entities of one level in the archive, in archive order.
LEMMA EntitiesOfLevel ==
    ASSUME NEW n, InArchive \subseteq Entities
    PROVE  /\ OfLevel(n) \in Seq(Entities)
           /\ Distinct(OfLevel(n))
           /\ ToSet(OfLevel(n)) = {e \in InArchive : Level[e] = n}
<1>. DEFINE kept == {e \in DOMAIN archive.entities : Level[e] = n}
<1>1. EntityOrder \in Seq(Entities) /\ Distinct(EntityOrder) /\ ToSet(EntityOrder) = Entities
  BY OrderIsAList
<1>2. OfLevel(n) = OnlyIn(EntityOrder, kept)
  BY DEF OfLevel
<1>3. kept = {e \in InArchive : Level[e] = n}
  BY DEF InArchive
<1>. HIDE DEF kept
<1>4. /\ OnlyIn(EntityOrder, kept) \in Seq(Entities \cap kept)
      /\ ToSet(OnlyIn(EntityOrder, kept)) = ToSet(EntityOrder) \cap kept
      /\ Distinct(OnlyIn(EntityOrder, kept))
  BY <1>1, OnlyInType, OnlyInItems
<1>5. OnlyIn(EntityOrder, kept) \in Seq(Entities)
  BY <1>4, SeqMonotonic
<1>6. QED
  BY <1>1, <1>2, <1>3, <1>4, <1>5

ItemsOfLevel(n) ==
    {<<"entity", e>> : e \in {d \in InArchive : Level[d] = n}}
      \cup {<<"version", e>> : e \in {d \in HavePublished : Level[d] = n}}

\* The items of one level: entities first, then the versions, nothing else.
LEMMA SavesOfLevel ==
    ASSUME NEW n, InArchive \subseteq Entities
    PROVE  /\ LevelToSave(n) \in Seq(Items)
           /\ InOrder(LevelToSave(n))
           /\ ToSet(LevelToSave(n)) = ItemsOfLevel(n)
<1>1. PICK order : order = OfLevel(n)
  OBVIOUS
<1>2. /\ order \in Seq(Entities) /\ Distinct(order)
      /\ ToSet(order) = {e \in InArchive : Level[e] = n}
  BY <1>1, EntitiesOfLevel
<1>3. PICK some : some = OnlyIn(order, HavePublished)
  OBVIOUS
<1>4. /\ some \in Seq(Entities \cap HavePublished) /\ Distinct(some)
      /\ ToSet(some) = ToSet(order) \cap HavePublished
  BY <1>2, <1>3, OnlyInType, OnlyInItems
<1>5. some \in Seq(Entities)
  BY <1>4, SeqMonotonic
<1>6. PICK s, t : s = EntityItems(order) /\ t = VersionItems(some)
  OBVIOUS
<1>7. /\ s \in Seq(Items) /\ InOrder(s) /\ ToSet(s) = {<<"entity", e>> : e \in ToSet(order)}
      /\ t \in Seq(Items) /\ InOrder(t) /\ ToSet(t) = {<<"version", e>> : e \in ToSet(some)}
  BY <1>2, <1>4, <1>5, <1>6, ItemsOfList
<1>8. \A x \in ToSet(s), y \in ToSet(t) : MayPrecede(x, y)
  BY <1>7 DEF MayPrecede
<1>9. s \o t \in Seq(Items) /\ InOrder(s \o t) /\ ToSet(s \o t) = ToSet(s) \cup ToSet(t)
  BY <1>7, <1>8, ConcatInOrder
<1>10. LevelToSave(n) = s \o t
  BY <1>1, <1>3, <1>6 DEF LevelToSave
<1>11. ToSet(some) = {d \in HavePublished : Level[d] = n}
  BY <1>2, <1>4 DEF HavePublished, InArchive
<1>12. QED
  BY <1>2, <1>7, <1>9, <1>10, <1>11 DEF ItemsOfLevel

\* The levels follow each other.
LEMMA NextLevelToSave ==
    ASSUME InArchive \subseteq Entities, NEW n \in 0 .. 3, NEW s \in Seq(Items), InOrder(s),
           ToSet(s) \subseteq UNION {ItemsOfLevel(m) : m \in 0 .. n - 1}
    PROVE  /\ s \o LevelToSave(n) \in Seq(Items)
           /\ InOrder(s \o LevelToSave(n))
           /\ ToSet(s \o LevelToSave(n)) = ToSet(s) \cup ItemsOfLevel(n)
<1>1. PICK t : t = LevelToSave(n)
  OBVIOUS
<1>2. t \in Seq(Items) /\ InOrder(t) /\ ToSet(t) = ItemsOfLevel(n)
  BY <1>1, SavesOfLevel
<1>3. ASSUME NEW x \in ToSet(s), NEW y \in ToSet(t) PROVE MayPrecede(x, y)
  <2>1. PICK m \in 0 .. n - 1 : x \in ItemsOfLevel(m)
    OBVIOUS
  <2>2. Level[x[2]] = m
    BY <2>1 DEF ItemsOfLevel
  <2>3. Level[y[2]] = n
    BY <1>2 DEF ItemsOfLevel
  <2>4. QED
    BY <2>1, <2>2, <2>3 DEF MayPrecede
<1>4. QED
  BY <1>1, <1>2, <1>3, ConcatInOrder

\* Everything that is saved before the publish.
LEMMA PublishedItems ==
    ASSUME InArchive \subseteq Entities
    PROVE  /\ PublishedToSave \in Seq(Items)
           /\ InOrder(PublishedToSave)
           /\ ToSet(PublishedToSave) = {<<"entity", e>> : e \in InArchive}
                                         \cup {<<"version", e>> : e \in HavePublished}
<1>1. PICK s0 : s0 = LevelToSave(0)
  OBVIOUS
<1>2. s0 \in Seq(Items) /\ InOrder(s0) /\ ToSet(s0) = ItemsOfLevel(0)
  BY <1>1, SavesOfLevel
<1>3. PICK s1 : s1 = s0 \o LevelToSave(1)
  OBVIOUS
<1>4. ToSet(s0) \subseteq UNION {ItemsOfLevel(m) : m \in 0 .. 1 - 1}
  BY <1>2
<1>5. s1 \in Seq(Items) /\ InOrder(s1) /\ ToSet(s1) = ToSet(s0) \cup ItemsOfLevel(1)
  BY <1>2, <1>3, <1>4, NextLevelToSave
<1>6. PICK s2 : s2 = s1 \o LevelToSave(2)
  OBVIOUS
<1>7. ToSet(s1) \subseteq UNION {ItemsOfLevel(m) : m \in 0 .. 2 - 1}
  BY <1>2, <1>5
<1>8. s2 \in Seq(Items) /\ InOrder(s2) /\ ToSet(s2) = ToSet(s1) \cup ItemsOfLevel(2)
  BY <1>5, <1>6, <1>7, NextLevelToSave
<1>9. PICK s3 : s3 = s2 \o LevelToSave(3)
  OBVIOUS
<1>10. ToSet(s2) \subseteq UNION {ItemsOfLevel(m) : m \in 0 .. 3 - 1}
  BY <1>2, <1>5, <1>8
<1>11. s3 \in Seq(Items) /\ InOrder(s3) /\ ToSet(s3) = ToSet(s2) \cup ItemsOfLevel(3)
  BY <1>8, <1>9, <1>10, NextLevelToSave
<1>12. PublishedToSave = s3
  BY <1>1, <1>3, <1>6, <1>9 DEF PublishedToSave
<1>13. ToSet(s3) = ItemsOfLevel(0) \cup ItemsOfLevel(1) \cup ItemsOfLevel(2) \cup ItemsOfLevel(3)
  BY <1>2, <1>5, <1>8, <1>11
<1>14. \A e \in InArchive : Level[e] = 0 \/ Level[e] = 1 \/ Level[e] = 2 \/ Level[e] = 3
  BY LevelsAssumption
<1>15. HavePublished \subseteq InArchive
  BY DEF HavePublished, InArchive
<1>16. ToSet(s3) = {<<"entity", e>> : e \in InArchive}
                     \cup {<<"version", e>> : e \in HavePublished}
  BY <1>13, <1>14, <1>15 DEF ItemsOfLevel
<1>17. QED
  BY <1>11, <1>12, <1>16

\* The drafts that are saved after the publish.
LEMMA DraftItems ==
    ASSUME InArchive \subseteq Entities
    PROVE  /\ DraftsToSave \in Seq(Items)
           /\ InOrder(DraftsToSave)
           /\ ToSet(DraftsToSave) = {<<"version", e>> : e \in HaveDraft}
<1>1. /\ OfLevel(0) \in Seq(Entities) /\ OfLevel(1) \in Seq(Entities)
      /\ OfLevel(2) \in Seq(Entities) /\ OfLevel(3) \in Seq(Entities)
      /\ Distinct(OfLevel(0)) /\ Distinct(OfLevel(1))
      /\ Distinct(OfLevel(2)) /\ Distinct(OfLevel(3))
      /\ ToSet(OfLevel(0)) = {e \in InArchive : Level[e] = 0}
      /\ ToSet(OfLevel(1)) = {e \in InArchive : Level[e] = 1}
      /\ ToSet(OfLevel(2)) = {e \in InArchive : Level[e] = 2}
      /\ ToSet(OfLevel(3)) = {e \in InArchive : Level[e] = 3}
  BY EntitiesOfLevel
<1>2. PICK one : one = OfLevel(0) \o OfLevel(1)
  OBVIOUS
<1>3. /\ one \in Seq(Entities) /\ Distinct(one)
      /\ ToSet(one) = {e \in InArchive : Level[e] \in 0 .. 1}
  <2>1. \A x \in ToSet(OfLevel(0)), y \in ToSet(OfLevel(1)) : x # y
    BY <1>1
  <2>2. /\ one \in Seq(Entities) /\ Distinct(one)
        /\ ToSet(one) = ToSet(OfLevel(0)) \cup ToSet(OfLevel(1))
    BY <1>1, <1>2, <2>1, ConcatDistinct
  <2>3. QED
    BY <1>1, <2>2
<1>4. PICK two : two = one \o OfLevel(2)
  OBVIOUS
<1>5. /\ two \in Seq(Entities) /\ Distinct(two)
      /\ ToSet(two) = {e \in InArchive : Level[e] \in 0 .. 2}
  <2>1. \A x \in ToSet(one), y \in ToSet(OfLevel(2)) : x # y
    BY <1>1, <1>3
  <2>2. /\ two \in Seq(Entities) /\ Distinct(two)
        /\ ToSet(two) = ToSet(one) \cup ToSet(OfLevel(2))
    BY <1>1, <1>3, <1>4, <2>1, ConcatDistinct
  <2>3. QED
    BY <1>1, <1>3, <2>2
<1>6. PICK order : order = two \o OfLevel(3)
  OBVIOUS
<1>7. order \in Seq(Entities) /\ Distinct(order) /\ ToSet(order) = InArchive
  <2>1. \A x \in ToSet(two), y \in ToSet(OfLevel(3)) : x # y
    BY <1>1, <1>5
  <2>2. /\ order \in Seq(Entities) /\ Distinct(order)
        /\ ToSet(order) = ToSet(two) \cup ToSet(OfLevel(3))
    BY <1>1, <1>5, <1>6, <2>1, ConcatDistinct
  <2>3. \A e \in InArchive : Level[e] \in 0 .. 2 \/ Level[e] = 3
    BY LevelsAssumption
  <2>4. ToSet(order) = InArchive
    BY <1>1, <1>5, <2>2, <2>3
  <2>5. QED
    BY <2>2, <2>4
<1>8. PICK some : some = OnlyIn(order, HaveDraft)
  OBVIOUS
<1>9. /\ some \in Seq(Entities \cap HaveDraft) /\ Distinct(some)
      /\ ToSet(some) = InArchive \cap HaveDraft
  BY <1>7, <1>8, OnlyInType, OnlyInItems
<1>10. some \in Seq(Entities)
  BY <1>9, SeqMonotonic
<1>11. DraftsToSave = VersionItems(some)
  BY <1>2, <1>4, <1>6, <1>8 DEF DraftsToSave
<1>12. InArchive \cap HaveDraft = HaveDraft
  BY DEF HaveDraft, InArchive
<1>13. QED
  BY <1>9, <1>10, <1>11, <1>12, ItemsOfList

-----------------------------------------------------------------------------
(***************************************************************************)
(* The tables of a package: every version has its number, its list or its  *)
(* contents, no number occurs twice, and the children of a container are   *)
(* of the type below its own.                                              *)
(***************************************************************************)
ChildRows(c) == {row \in Row : Level[row.entity] = Level[c] - 1}

PackageIInv ==
    /\ NumbersIInv
    /\ versionNums \in [Entities -> Seq(Nat \ {0})]
    /\ DOMAIN rows = Containers /\ DOMAIN contents = Components
    /\ \A e \in Entities :
          Len(versionNums[e]) = Len(dependencies[e]) /\ Distinct(versionNums[e])
    /\ \A c \in Containers :
          rows[c] \in Seq(Seq(ChildRows(c))) /\ Len(rows[c]) = Len(dependencies[c])
    /\ \A c \in Components :
          (\E S : contents[c] \in Seq(S)) /\ Len(contents[c]) = Len(dependencies[c])

\* What readers see of version v of e.
Version(e, v) ==
    IF v = None THEN << >>
    ELSE << NumOf(e, v), ChildrenKeys(e, v),
            IF IsContainer(e) THEN << >> ELSE contents[e][v].files >>

\* A version is added to e, with a list or with contents, and becomes the draft.
AddsVersion(e, num, list, content) ==
    /\ \E D \in SUBSET {d \in Entities : Level[d] < Level[e]} : CreateVersion(e, D)
    /\ num \notin VersionNumsOf(e)
    /\ versionNums' = [versionNums EXCEPT ![e] = Append(@, num)]
    /\ rows' = IF IsContainer(e) THEN [rows EXCEPT ![e] = Append(@, list)] ELSE rows
    /\ contents' = IF IsContainer(e) THEN contents
                   ELSE [contents EXCEPT ![e] = Append(@, content)]

\* What of e's row in a table stays when a version is appended to it.
LEMMA AppendedRow ==
    ASSUME NEW table, NEW e \in DOMAIN table, NEW S, table[e] \in Seq(S), NEW item, NEW n,
           Len(table[e]) = n
    PROVE  /\ n \in Nat /\ DOMAIN table[e] = 1 .. n
           /\ DOMAIN [table EXCEPT ![e] = Append(@, item)] = DOMAIN table
           /\ [table EXCEPT ![e] = Append(@, item)][e] = Append(table[e], item)
           /\ Len(Append(table[e], item)) = n + 1
           /\ DOMAIN Append(table[e], item) = 1 .. n + 1
           /\ Append(table[e], item)[n + 1] = item
           /\ \A v \in 1 .. n : Append(table[e], item)[v] = table[e][v]
           /\ \A d \in DOMAIN table :
                 d # e => [table EXCEPT ![e] = Append(@, item)][d] = table[d]
<1>1. PICK T : Append(table[e], item) \in Seq(T)
  BY AppendAnything
<1>2. /\ Len(table[e]) \in Nat
      /\ Len(Append(table[e], item)) = Len(table[e]) + 1
      /\ Append(table[e], item)[Len(table[e]) + 1] = item
      /\ \A i \in 1 .. Len(table[e]) : Append(table[e], item)[i] = table[e][i]
  BY AppendAnything
<1>3. DOMAIN table[e] = 1 .. n /\ DOMAIN Append(table[e], item) = 1 .. n + 1
  BY <1>1, <1>2, LenProperties
<1>4. QED
  BY <1>2, <1>3

\* The tables of one entity, in a package that is in order.
LEMMA TablesOfEntity ==
    ASSUME TypeOK, PackageIInv, NEW e \in Entities
    PROVE  /\ versionNums[e] \in Seq(Nat \ {0}) /\ e \in DOMAIN versionNums
           /\ DOMAIN versionNums[e] = DOMAIN dependencies[e]
           /\ dependencies[e] \in Seq(SUBSET Entities) /\ e \in DOMAIN dependencies
           /\ DOMAIN dependencies[e] = 1 .. Len(dependencies[e])
           /\ Len(dependencies[e]) \in Nat
           /\ Len(versionNums[e]) = Len(dependencies[e])
           /\ e \in Containers <=> IsContainer(e)
           /\ e \in Components <=> ~ IsContainer(e)
           /\ IsContainer(e) => /\ e \in DOMAIN rows
                                /\ rows[e] \in Seq(Seq(ChildRows(e)))
                                /\ Len(rows[e]) = Len(dependencies[e])
                                /\ DOMAIN rows[e] = DOMAIN dependencies[e]
           /\ ~ IsContainer(e) => /\ e \in DOMAIN contents
                                  /\ \E S : contents[e] \in Seq(S)
                                  /\ Len(contents[e]) = Len(dependencies[e])
                                  /\ DOMAIN contents[e] = DOMAIN dependencies[e]
<1>1. e \in Containers <=> IsContainer(e)
  BY DEF Containers
<1>2. e \in Components <=> ~ IsContainer(e)
  BY <1>1 DEF Components
<1>3. dependencies[e] \in Seq(SUBSET Entities) /\ e \in DOMAIN dependencies
  BY DEF TypeOK
<1>4. versionNums[e] \in Seq(Nat \ {0}) /\ e \in DOMAIN versionNums
      /\ Len(versionNums[e]) = Len(dependencies[e])
  BY DEF PackageIInv
<1>5. /\ DOMAIN dependencies[e] = 1 .. Len(dependencies[e])
      /\ Len(dependencies[e]) \in Nat
      /\ DOMAIN versionNums[e] = 1 .. Len(dependencies[e])
  BY <1>3, <1>4, LenProperties
<1>6. ASSUME IsContainer(e)
      PROVE  /\ e \in DOMAIN rows /\ rows[e] \in Seq(Seq(ChildRows(e)))
             /\ Len(rows[e]) = Len(dependencies[e])
             /\ DOMAIN rows[e] = DOMAIN dependencies[e]
  <2>1. e \in DOMAIN rows /\ rows[e] \in Seq(Seq(ChildRows(e)))
        /\ Len(rows[e]) = Len(dependencies[e])
    BY <1>1, <1>6 DEF PackageIInv
  <2>2. DOMAIN rows[e] = 1 .. Len(rows[e])
    BY <2>1, LenProperties
  <2>3. QED
    BY <1>5, <2>1, <2>2
<1>7. ASSUME ~ IsContainer(e)
      PROVE  /\ e \in DOMAIN contents /\ \E S : contents[e] \in Seq(S)
             /\ Len(contents[e]) = Len(dependencies[e])
             /\ DOMAIN contents[e] = DOMAIN dependencies[e]
  <2>1. e \in DOMAIN contents /\ Len(contents[e]) = Len(dependencies[e])
    BY <1>2, <1>7 DEF PackageIInv
  <2>2. PICK S : contents[e] \in Seq(S)
    BY <1>2, <1>7 DEF PackageIInv
  <2>3. DOMAIN contents[e] = 1 .. Len(contents[e])
    BY <2>2, LenProperties
  <2>4. QED
    BY <1>5, <2>1, <2>2, <2>3
<1>8. QED
  BY <1>1, <1>2, <1>3, <1>4, <1>5, <1>6, <1>7

\* The dependencies, the numbers and the branches when a version is added.
LEMMA AddedNumber ==
    ASSUME TypeOK, PackageIInv, NEW e \in Entities, NEW num \in Nat \ {0}, NEW list, NEW content,
           AddsVersion(e, num, list, content), NEW n, n = Len(dependencies[e])
    PROVE  /\ draft'.version = [draft.version EXCEPT ![e] = n + 1]
           /\ published' = published /\ openLogs' = openLogs
           /\ lastPublishLog' = lastPublishLog
           /\ n \in Nat
           /\ DOMAIN dependencies' = Entities /\ DOMAIN versionNums' = Entities
           /\ Len(dependencies'[e]) = n + 1 /\ Len(versionNums'[e]) = n + 1
           /\ DOMAIN dependencies'[e] = 1 .. n + 1
           /\ versionNums'[e][n + 1] = num
           /\ \A v \in 1 .. n : versionNums'[e][v] = versionNums[e][v]
           /\ \A d \in Entities : d # e =>
                 dependencies'[d] = dependencies[d] /\ versionNums'[d] = versionNums[d]
           /\ versionNums' \in [Entities -> Seq(Nat \ {0})]
           /\ Distinct(versionNums'[e])
           /\ NumbersIInv'
<1>1. PICK D \in SUBSET {d \in Entities : Level[d] < Level[e]} : CreateVersion(e, D)
  BY DEF AddsVersion
<1>2. /\ dependencies' = [dependencies EXCEPT ![e] = Append(@, D)]
      /\ ChangeDrafts([draft.version EXCEPT ![e] = Len(dependencies[e]) + 1])
      /\ published' = published /\ openLogs' = openLogs /\ lastPublishLog' = lastPublishLog
  BY <1>1 DEF CreateVersion
<1>3. versionNums' = [versionNums EXCEPT ![e] = Append(@, num)] /\ num \notin ToSet(versionNums[e])
  BY DEF AddsVersion, VersionNumsOf
<1>4. /\ versionNums[e] \in Seq(Nat \ {0}) /\ e \in DOMAIN versionNums
      /\ dependencies[e] \in Seq(SUBSET Entities) /\ e \in DOMAIN dependencies
      /\ n \in Nat /\ Len(versionNums[e]) = n
  BY TablesOfEntity
<1>5. [draft.version EXCEPT ![e] = n + 1] \in [Entities -> Nat]
  BY <1>4 DEF TypeOK, BranchTypeOK
<1>6. draft'.version = [draft.version EXCEPT ![e] = n + 1]
  BY <1>2, <1>5, ChangeDraftsTables
<1>7. /\ DOMAIN dependencies' = Entities
      /\ Len(dependencies'[e]) = n + 1 /\ DOMAIN dependencies'[e] = 1 .. n + 1
      /\ \A d \in Entities : d # e => dependencies'[d] = dependencies[d]
  <2>1. DOMAIN dependencies = Entities
    BY DEF TypeOK
  <2>2. QED
    BY <1>2, <1>4, <2>1, AppendedRow
<1>8. /\ DOMAIN versionNums' = Entities
      /\ Len(versionNums'[e]) = n + 1
      /\ versionNums'[e] = Append(versionNums[e], num)
      /\ versionNums'[e][n + 1] = num
      /\ \A v \in 1 .. n : versionNums'[e][v] = versionNums[e][v]
      /\ \A d \in Entities : d # e => versionNums'[d] = versionNums[d]
  <2>1. DOMAIN versionNums = Entities
    BY DEF PackageIInv
  <2>2. QED
    BY <1>3, <1>4, <2>1, AppendedRow
<1>9. Append(versionNums[e], num) \in Seq(Nat \ {0}) /\ Distinct(Append(versionNums[e], num))
  <2>1. Distinct(versionNums[e])
    BY DEF PackageIInv
  <2>2. QED
    BY <1>3, <1>4, <2>1, AppendItems, AppendProperties
<1>10. versionNums' \in [Entities -> Seq(Nat \ {0})]
  BY <1>3, <1>9 DEF PackageIInv
<1>11. NumbersIInv'
  BY <1>3, NewNumberKeepsNumbersIInv DEF PackageIInv
<1>12. QED
  BY <1>2, <1>4, <1>6, <1>7, <1>8, <1>9, <1>10, <1>11

\* The lists of a container when a version is added to it.
LEMMA AddedList ==
    ASSUME TypeOK, PackageIInv, NEW e \in Containers, NEW num, NEW content,
           NEW list \in Seq(ChildRows(e)),
           AddsVersion(e, num, list, content), NEW n, n = Len(dependencies[e])
    PROVE  /\ contents' = contents
           /\ DOMAIN rows' = DOMAIN rows
           /\ rows'[e] \in Seq(Seq(ChildRows(e))) /\ Len(rows'[e]) = n + 1
           /\ rows'[e][n + 1] = list
           /\ \A v \in 1 .. n : rows'[e][v] = rows[e][v]
           /\ \A d \in DOMAIN rows : d # e => rows'[d] = rows[d]
<1>1. e \in Entities /\ IsContainer(e)
  BY DEF Containers
<1>2. contents' = contents /\ rows' = [rows EXCEPT ![e] = Append(@, list)]
  BY <1>1 DEF AddsVersion
<1>3. e \in DOMAIN rows /\ rows[e] \in Seq(Seq(ChildRows(e))) /\ Len(rows[e]) = n
  BY <1>1, TablesOfEntity
<1>4. Append(rows[e], list) \in Seq(Seq(ChildRows(e)))
  BY <1>3, AppendProperties
<1>5. QED
  BY <1>2, <1>3, <1>4, AppendedRow

\* The contents of a component when a version is added to it.
LEMMA AddedContents ==
    ASSUME TypeOK, PackageIInv, NEW e \in Components, NEW num, NEW content, NEW list,
           AddsVersion(e, num, list, content), NEW n, n = Len(dependencies[e])
    PROVE  /\ rows' = rows
           /\ DOMAIN contents' = DOMAIN contents
           /\ \E S : contents'[e] \in Seq(S)
           /\ Len(contents'[e]) = n + 1
           /\ contents'[e][n + 1] = content
           /\ \A v \in 1 .. n : contents'[e][v] = contents[e][v]
           /\ \A d \in DOMAIN contents : d # e => contents'[d] = contents[d]
<1>1. e \in Entities /\ ~ IsContainer(e)
  BY DEF Components, Containers
<1>2. rows' = rows /\ contents' = [contents EXCEPT ![e] = Append(@, content)]
  BY <1>1 DEF AddsVersion
<1>3. PICK S : contents[e] \in Seq(S)
  BY <1>1, TablesOfEntity
<1>4. e \in DOMAIN contents /\ Len(contents[e]) = n
  BY <1>1, TablesOfEntity
<1>5. PICK T : Append(contents[e], content) \in Seq(T)
  BY <1>3, AppendAnything
<1>6. /\ DOMAIN contents' = DOMAIN contents
      /\ contents'[e] = Append(contents[e], content)
      /\ Len(Append(contents[e], content)) = n + 1
      /\ Append(contents[e], content)[n + 1] = content
      /\ \A v \in 1 .. n : Append(contents[e], content)[v] = contents[e][v]
      /\ \A d \in DOMAIN contents : d # e => contents'[d] = contents[d]
  BY <1>2, <1>3, <1>4, AppendedRow
<1>7. QED
  BY <1>2, <1>5, <1>6

\* A package stays in order when a version is added to it.
LEMMA AddedVersionKeepsPackage ==
    ASSUME TypeOK, PackageIInv, NEW e \in Entities, NEW num \in Nat \ {0}, NEW list, NEW content,
           IsContainer(e) => list \in Seq(ChildRows(e)),
           AddsVersion(e, num, list, content)
    PROVE  PackageIInv'
<1>1. PICK n : n = Len(dependencies[e])
  OBVIOUS
<1>2. /\ DOMAIN dependencies' = Entities
      /\ Len(dependencies'[e]) = n + 1 /\ Len(versionNums'[e]) = n + 1
      /\ \A d \in Entities : d # e =>
            dependencies'[d] = dependencies[d] /\ versionNums'[d] = versionNums[d]
      /\ versionNums' \in [Entities -> Seq(Nat \ {0})]
      /\ Distinct(versionNums'[e])
      /\ NumbersIInv'
  BY <1>1, AddedNumber
<1>3. ASSUME NEW d \in Entities
      PROVE  Len(versionNums'[d]) = Len(dependencies'[d]) /\ Distinct(versionNums'[d])
  BY <1>2 DEF PackageIInv
<1>4. Containers \subseteq Entities /\ Components \subseteq Entities
  BY DEF Containers, Components
<1>5. /\ DOMAIN rows' = Containers
      /\ \A c \in Containers :
            rows'[c] \in Seq(Seq(ChildRows(c))) /\ Len(rows'[c]) = Len(dependencies'[c])
  <2>1. CASE e \in Containers
    <3>1. list \in Seq(ChildRows(e))
      BY <2>1 DEF Containers
    <3>2. /\ DOMAIN rows' = DOMAIN rows
          /\ rows'[e] \in Seq(Seq(ChildRows(e))) /\ Len(rows'[e]) = n + 1
          /\ \A d \in DOMAIN rows : d # e => rows'[d] = rows[d]
      BY <1>1, <2>1, <3>1, AddedList
    <3>3. QED
      BY <1>2, <1>4, <3>2 DEF PackageIInv
  <2>2. CASE e \notin Containers
    <3>1. rows' = rows
      BY <1>1, <2>2, AddedContents DEF Components
    <3>2. QED
      BY <1>2, <1>4, <2>2, <3>1 DEF PackageIInv
  <2>3. QED
    BY <2>1, <2>2
<1>6. /\ DOMAIN contents' = Components
      /\ \A c \in Components :
            (\E S : contents'[c] \in Seq(S)) /\ Len(contents'[c]) = Len(dependencies'[c])
  <2>1. CASE e \in Components
    <3>1. /\ DOMAIN contents' = DOMAIN contents
          /\ \E S : contents'[e] \in Seq(S)
          /\ Len(contents'[e]) = n + 1
          /\ \A d \in DOMAIN contents : d # e => contents'[d] = contents[d]
      BY <1>1, <2>1, AddedContents
    <3>2. QED
      BY <1>2, <1>4, <3>1 DEF PackageIInv
  <2>2. CASE e \notin Components
    <3>1. e \in Containers
      BY <2>2 DEF Components
    <3>2. list \in Seq(ChildRows(e))
      BY <3>1 DEF Containers
    <3>3. contents' = contents
      BY <1>1, <3>1, <3>2, AddedList
    <3>4. QED
      BY <1>2, <1>4, <2>2, <3>3 DEF PackageIInv
  <2>3. QED
    BY <2>1, <2>2
<1>7. QED
  BY <1>2, <1>3, <1>5, <1>6 DEF PackageIInv, Distinct

\* The entities of a list of rows.
EntitiesIn(list) == [i \in DOMAIN list |-> list[i].entity]

\* Readers see the version that was added, and every other one as before.
LEMMA AddedVersionIsSeen ==
    ASSUME TypeOK, PackageIInv, NEW e \in Entities, NEW num \in Nat \ {0}, NEW list, NEW content,
           IsContainer(e) => list \in Seq(ChildRows(e)),
           AddsVersion(e, num, list, content), NEW n, n = Len(dependencies[e])
    PROVE  /\ Version(e, n + 1)' = << num, IF IsContainer(e) THEN EntitiesIn(list) ELSE << >>,
                                      IF IsContainer(e) THEN << >> ELSE content.files >>
           /\ \A d \in Entities : \A v \in {None} \cup DOMAIN dependencies[d] :
                 Version(d, v)' = Version(d, v)
<1>1. /\ n \in Nat
      /\ versionNums'[e][n + 1] = num
      /\ \A v \in 1 .. n : versionNums'[e][v] = versionNums[e][v]
      /\ \A d \in Entities : d # e => versionNums'[d] = versionNums[d]
  <2>1. versionNums' = [versionNums EXCEPT ![e] = Append(@, num)]
    BY DEF AddsVersion
  <2>2. /\ versionNums[e] \in Seq(Nat \ {0}) /\ e \in DOMAIN versionNums
        /\ Len(versionNums[e]) = n
    BY TablesOfEntity
  <2>3. DOMAIN versionNums = Entities
    BY DEF PackageIInv
  <2>4. QED
    BY <2>1, <2>2, <2>3, AppendedRow
<1>2. DOMAIN dependencies[e] = 1 .. n
  BY TablesOfEntity
<1>3. ASSUME IsContainer(e)
      PROVE  /\ contents' = contents /\ rows'[e][n + 1] = list
             /\ \A v \in 1 .. n : rows'[e][v] = rows[e][v]
             /\ \A d \in Entities : IsContainer(d) /\ d # e => rows'[d] = rows[d]
  <2>1. e \in Containers /\ list \in Seq(ChildRows(e))
    BY <1>3 DEF Containers
  <2>2. DOMAIN rows = Containers
    BY DEF PackageIInv
  <2>3. QED
    BY <2>1, <2>2, AddedList DEF Containers
<1>4. ASSUME ~ IsContainer(e)
      PROVE  /\ rows' = rows /\ contents'[e][n + 1] = content
             /\ \A v \in 1 .. n : contents'[e][v] = contents[e][v]
             /\ \A d \in Entities : ~ IsContainer(d) /\ d # e => contents'[d] = contents[d]
  <2>1. e \in Components
    BY <1>4 DEF Components, Containers
  <2>2. DOMAIN contents = Components
    BY DEF PackageIInv
  <2>3. QED
    BY <2>1, <2>2, AddedContents DEF Containers, Components
<1>5. n + 1 # None
  BY <1>1 DEF None
<1>6. NumOf(e, n + 1)' = num
  BY <1>1, <1>5 DEF NumOf
<1>7. Version(e, n + 1)' = << num, IF IsContainer(e) THEN EntitiesIn(list) ELSE << >>,
                              IF IsContainer(e) THEN << >> ELSE content.files >>
  <2>1. CASE IsContainer(e)
    <3>1. ChildrenKeys(e, n + 1)' = EntitiesIn(list)
      BY <1>3, <2>1 DEF ChildrenKeys, EntitiesIn
    <3>2. QED
      BY <1>5, <1>6, <2>1, <3>1 DEF Version
  <2>2. CASE ~ IsContainer(e)
    <3>1. ChildrenKeys(e, n + 1)' = << >>
      BY <2>2 DEF ChildrenKeys
    <3>2. contents'[e][n + 1].files = content.files
      BY <1>4, <2>2
    <3>3. QED
      BY <1>5, <1>6, <2>2, <3>1, <3>2 DEF Version
  <2>3. QED
    BY <2>1, <2>2
<1>8. ASSUME NEW d \in Entities, NEW v \in DOMAIN dependencies[d], v # None
      PROVE  Version(d, v)' = Version(d, v)
  <2>1. versionNums'[d][v] = versionNums[d][v]
    BY <1>1, <1>2, <1>8
  <2>2. IsContainer(d) => rows'[d][v] = rows[d][v]
    BY <1>2, <1>3, <1>4, <1>8
  <2>3. ~ IsContainer(d) => contents'[d][v] = contents[d][v]
    BY <1>2, <1>3, <1>4, <1>8
  <2>4. ChildrenKeys(d, v)' = ChildrenKeys(d, v)
    BY <2>2 DEF ChildrenKeys
  <2>5. NumOf(d, v)' = NumOf(d, v)
    BY <2>1 DEF NumOf
  <2>6. QED
    BY <2>3, <2>4, <2>5 DEF Version
<1>9. ASSUME NEW d \in Entities
      PROVE  Version(d, None)' = Version(d, None)
  BY DEF Version
<1>10. QED
  BY <1>7, <1>8, <1>9

-----------------------------------------------------------------------------
(***************************************************************************)
(* Every call that adds a version, in an edit or in a restore, is one that *)
(* AddsVersion describes.                                                  *)
(***************************************************************************)
\* The next number is a number.
LEMMA NextNumIsANumber ==
    ASSUME PackageIInv, NEW e \in Entities
    PROVE  NextVersionNum(e) \in Nat \ {0} /\ NextVersionNum(e) \notin VersionNumsOf(e)
<1>1. NumbersIInv /\ versionNums[e] \in Seq(Nat \ {0})
  BY DEF PackageIInv
<1>2. NextVersionNum(e) \in Nat /\ NextVersionNum(e) \notin VersionNumsOf(e)
  BY <1>1, NextNumIsFree
<1>3. ASSUME Latest(e) # None PROVE NextVersionNum(e) # 0
  <2>1. versionNums[e] # << >>
    BY <1>3 DEF Latest
  <2>2. Latest(e) \in DOMAIN versionNums[e]
    BY <1>1, <2>1, LatestIsHighest
  <2>3. PICK v : v = Latest(e)
    OBVIOUS
  <2>4. versionNums[e][v] \in Nat \ {0}
    BY <1>1, <2>2, <2>3
  <2>5. NextVersionNum(e) = versionNums[e][v] + 1
    BY <1>3, <2>3 DEF NextVersionNum
  <2>6. QED
    BY <2>4, <2>5
<1>4. ASSUME Latest(e) = None PROVE NextVersionNum(e) # 0
  BY <1>4 DEF NextVersionNum
<1>5. QED
  BY <1>2, <1>3, <1>4

\* The lists of a container that callers pass have its children.
LEMMA GivenChildren ==
    ASSUME NEW c \in Containers, NEW given \in ListsFor(c)
    PROVE  given \in Seq(ChildRows(c))
<1>1. given \in Seq(Row)
  BY GivenLists
<1>2. Level[c] = 1 \/ Level[c] = 2 \/ Level[c] = 3
  BY LevelsAssumption, LevelAssumption DEF Containers, IsContainer
<1>3. \A i \in DOMAIN given : Level[given[i].entity] = Level[c] - 1
  <2>1. CASE Level[c] = 1
    BY <2>1 DEF ListsFor, ComponentLists, ListsOfLevel
  <2>2. CASE Level[c] = 2
    BY <2>2 DEF ListsFor, UnitLists, ListsOfLevel
  <2>3. CASE Level[c] = 3
    BY <2>3 DEF ListsFor, SubsectionLists, ListsOfLevel
  <2>4. QED
    BY <1>2, <2>1, <2>2, <2>3
<1>4. PICK n \in Nat : n = Len(given) /\ DOMAIN given = 1 .. n
  BY <1>1, LenProperties
<1>5. \A i \in 1 .. n : given[i] \in ChildRows(c)
  BY <1>1, <1>3, <1>4 DEF ChildRows
<1>6. given = [i \in 1 .. n |-> given[i]]
  BY <1>1, <1>4
<1>7. QED
  BY <1>5, <1>6

\* The list of the last version has the children of its container.
LEMMA LastChildren ==
    ASSUME TypeOK, PackageIInv, NEW c \in Containers, Latest(c) # None
    PROVE  rows[c][Latest(c)] \in Seq(ChildRows(c))
<1>1. c \in Entities /\ IsContainer(c)
  BY DEF Containers
<1>2. versionNums[c] # << >>
  BY DEF Latest
<1>3. Latest(c) \in DOMAIN versionNums[c]
  BY <1>1, <1>2, LatestIsHighest DEF PackageIInv
<1>4. DOMAIN versionNums[c] = DOMAIN dependencies[c] /\ DOMAIN rows[c] = DOMAIN dependencies[c]
      /\ rows[c] \in Seq(Seq(ChildRows(c)))
  BY <1>1, TablesOfEntity
<1>5. QED
  BY <1>3, <1>4

\* So has the list of the next one.
LEMMA NextChildren ==
    ASSUME NEW c \in Containers, NEW last \in Seq(ChildRows(c)), NEW given \in Seq(ChildRows(c)),
           NEW action \in {"append", "remove", "replace"}
    PROVE  NextEntityList(last, given, action) \in Seq(ChildRows(c))
<1>1. CASE action = "append"
  <2>1. last \o given \in Seq(ChildRows(c))
    BY ConcatProperties
  <2>2. QED
    BY <1>1, <2>1 DEF NextEntityList
<1>2. CASE action = "remove"
  <2>1. PICK kept : WithoutEntities(last, given) = OnlyIn(last, kept)
    BY DEF WithoutEntities
  <2>2. OnlyIn(last, kept) \in Seq(ChildRows(c) \cap kept)
    BY OnlyInType
  <2>3. OnlyIn(last, kept) \in Seq(ChildRows(c))
    BY <2>2, SeqMonotonic
  <2>4. QED
    BY <1>2, <2>1, <2>3 DEF NextEntityList
<1>3. CASE action = "replace"
  BY <1>3 DEF NextEntityList
<1>4. QED
  BY <1>1, <1>2, <1>3

\* A new version of a container.
LEMMA NewListAddsVersion ==
    ASSUME NEW c \in Containers, NEW num, NEW list, NEW content,
           NewContainerVersion(c, num, list), contents' = contents
    PROVE  AddsVersion(c, num, list, content)
<1>1. IsContainer(c)
  BY DEF Containers
<1>2. \E D \in SUBSET {d \in Entities : Level[d] < Level[c]} : CreateVersion(c, D)
  BY NewContainerVersionCreatesVersion
<1>3. QED
  BY <1>1, <1>2 DEF NewContainerVersion, AddsVersion

\* Edits of a container's list.
LEMMA NextVersionAddsVersion ==
    ASSUME TypeOK, PackageIInv, NEW c \in Containers, CreateNextVersion(c), contents' = contents
    PROVE  \E num \in Nat \ {0}, list \in Seq(ChildRows(c)) : AddsVersion(c, num, list, << >>)
<1>0. c \in Entities
  BY DEF Containers
<1>1. PICK num \in NumsFor(c) :
        \/ RetitleContainer(c, num)
        \/ \E given \in ListsFor(c), action \in {"append", "remove", "replace"} :
              CreateNextContainerVersion(c, num, given, action)
  BY DEF CreateNextVersion
<1>2. num \in Nat \ {0}
  <2>1. NextVersionNum(c) \in Nat \ {0}
    BY <1>0, NextNumIsANumber
  <2>2. 1 .. MaxVersionNum \subseteq Nat \ {0}
    BY ContainersBoundsAssumption DEF ContainersBoundsAssumption
  <2>3. QED
    BY <2>1, <2>2 DEF NumsFor
<1>3. CASE RetitleContainer(c, num)
  <2>1. rows[c][Latest(c)] \in Seq(ChildRows(c))
    BY <1>3, LastChildren DEF RetitleContainer
  <2>2. NewContainerVersion(c, num, rows[c][Latest(c)])
    BY <1>3 DEF RetitleContainer
  <2>3. AddsVersion(c, num, rows[c][Latest(c)], << >>)
    BY <2>2, NewListAddsVersion
  <2>4. QED
    BY <1>2, <2>1, <2>3
<1>4. ASSUME NEW given \in ListsFor(c), NEW action \in {"append", "remove", "replace"},
             CreateNextContainerVersion(c, num, given, action)
      PROVE  \E list \in Seq(ChildRows(c)) : AddsVersion(c, num, list, << >>)
  <2>1. given \in Seq(ChildRows(c))
    BY GivenChildren
  <2>2. PICK list : list = IF Latest(c) = None THEN given
                           ELSE NextEntityList(rows[c][Latest(c)], given, action)
    OBVIOUS
  <2>3. list \in Seq(ChildRows(c))
    <3>1. CASE Latest(c) = None
      BY <2>1, <2>2, <3>1
    <3>2. CASE Latest(c) # None
      <4>1. PICK last : last = rows[c][Latest(c)]
        OBVIOUS
      <4>2. last \in Seq(ChildRows(c))
        BY <3>2, <4>1, LastChildren
      <4>3. NextEntityList(last, given, action) \in Seq(ChildRows(c))
        BY <2>1, <4>2, NextChildren
      <4>4. QED
        BY <2>2, <3>2, <4>1, <4>3
    <3>3. QED
      BY <3>1, <3>2
  <2>4. NewContainerVersion(c, num, list)
    BY <1>4, <2>2 DEF CreateNextContainerVersion
  <2>5. AddsVersion(c, num, list, << >>)
    BY <2>4, NewListAddsVersion
  <2>6. QED
    BY <2>3, <2>5
<1>5. QED
  BY <1>1, <1>2, <1>3, <1>4

\* Edits of a component.
LEMMA ComponentEditAddsVersion ==
    ASSUME PackageIInv, NEW c \in Components, NEW upload, CreateComponentVersion(c),
           contents' = [contents EXCEPT ![c] = Append(@, upload)]
    PROVE  AddsVersion(c, NextVersionNum(c), << >>, upload)
<1>1. c \in Entities
  BY DEF Components
<1>2. {} \in SUBSET {d \in Entities : Level[d] < Level[c]}
  OBVIOUS
<1>3. NextVersionNum(c) \notin VersionNumsOf(c)
  BY <1>1, NextNumIsANumber
<1>4. QED
  BY <1>2, <1>3 DEF CreateComponentVersion, AddsVersion

\* An edit adds a version or leaves all versions alone.
LEMMA EditsOfVersions ==
    ASSUME TypeOK, PackageIInv, Edit
    PROVE  \/ \E e \in Entities, num \in Nat \ {0} : \E list, content :
                 /\ IsContainer(e) => list \in Seq(ChildRows(e))
                 /\ AddsVersion(e, num, list, content)
           \/ UNCHANGED <<dependencies, rows, versionNums, contents>>
<1>1. CASE \E c \in Components, upload \in Uploads :
              /\ CreateComponentVersion(c)
              /\ contents' = [contents EXCEPT ![c] = Append(@, upload)]
  <2>1. PICK c \in Components, upload \in Uploads :
              /\ CreateComponentVersion(c)
              /\ contents' = [contents EXCEPT ![c] = Append(@, upload)]
    BY <1>1
  <2>2. AddsVersion(c, NextVersionNum(c), << >>, upload)
    BY <2>1, ComponentEditAddsVersion
  <2>3. c \in Entities /\ ~ IsContainer(c)
    BY DEF Components, Containers
  <2>4. NextVersionNum(c) \in Nat \ {0}
    BY <2>3, NextNumIsANumber
  <2>5. QED
    BY <2>2, <2>3, <2>4
<1>2. CASE \E c \in Containers : CreateNextVersion(c) /\ contents' = contents
  <2>1. PICK c \in Containers : CreateNextVersion(c) /\ contents' = contents
    BY <1>2
  <2>2. PICK num \in Nat \ {0}, list \in Seq(ChildRows(c)) : AddsVersion(c, num, list, << >>)
    BY <2>1, NextVersionAddsVersion
  <2>3. c \in Entities
    BY DEF Containers
  <2>4. QED
    BY <2>2, <2>3
<1>3. CASE OtherCalls /\ contents' = contents
  BY <1>3 DEF OtherCalls, SetDraftVersion, ResetDraftsToPublished, PublishAllDrafts,
              PublishFromDrafts
<1>4. CASE UNCHANGED <<containersVars, contents>>
  BY <1>4 DEF containersVars, vars
<1>5. QED
  BY <1>1, <1>2, <1>3, <1>4 DEF Edit, UpdateLearningPackage

\* Any edit is a call of Publishing, or none.
LEMMA EditIsACall ==
    ASSUME Edit
    PROVE  [Next]_vars
<1>1. CASE \E c \in Components : CreateComponentVersion(c)
  <2>1. PICK c \in Components : CreateVersion(c, {})
    BY <1>1 DEF CreateComponentVersion
  <2>2. c \in Entities
    BY DEF Components
  <2>3. QED
    BY <2>1, <2>2 DEF Next
<1>2. CASE \E c \in Containers : CreateNextVersion(c)
  <2>1. PICK c \in Containers : CreateNextVersion(c)
    BY <1>2
  <2>2. \E D \in SUBSET {d \in Entities : Level[d] < Level[c]} : CreateVersion(c, D)
    BY <2>1, NextVersionCreatesVersion
  <2>3. QED
    BY <2>2 DEF Next, Containers
<1>3. CASE OtherCalls
  BY <1>3, BoundsAssumption DEF OtherCalls, Next
<1>4. CASE UNCHANGED containersVars
  BY <1>4 DEF containersVars
<1>5. QED
  BY <1>1, <1>2, <1>3, <1>4 DEF Edit, UpdateLearningPackage

-----------------------------------------------------------------------------
(***************************************************************************)
(* The archive: what a dump writes, against what readers of the package    *)
(* saw when it was dumped.                                                 *)
(***************************************************************************)
NumSeen(was) == IF was = << >> THEN None ELSE was[1]

SavedOf(e) == {saved.draft[e], saved.published[e]}

BelowLevel(e) == {d \in Entities : Level[d] = Level[e] - 1}

\* What was seen of each entity is nothing, or a version; two numbers tell two versions
\* apart.
ArchivedSeen ==
    /\ DOMAIN saved.draft = Entities
    /\ \A e \in Entities :
          /\ \A was \in SavedOf(e) :
                was # << >> => was[1] \in Nat \ {0} /\ was[2] \in Seq(BelowLevel(e))
          /\ saved.draft[e] # << >> /\ saved.published[e] # << >>
                /\ saved.draft[e][1] = saved.published[e][1]
             => saved.draft[e] = saved.published[e]

\* The files of the entities have the numbers and the children.
ArchivedEntities ==
    /\ InArchive \subseteq Entities
    /\ \A e \in InArchive :
          /\ archive.entities[e].draft = NumSeen(saved.draft[e])
          /\ archive.entities[e].published = NumSeen(saved.published[e])
          /\ \A was \in SavedOf(e) :
                was # << >> => archive.entities[e].version[was[1]].children = was[2]
    /\ saved.allTitled => ~ HasUntitledVersion

\* The static files are those of the versions that were seen.
FilesOf(c, was) ==
    /\ \A file \in FilesFound(c, was[1]) :
          /\ file.key \in DOMAIN was[3] /\ IsWritten(was[3][file.key])
          /\ file.data = was[3][file.key][2]
    /\ \A k \in DOMAIN was[3] :
          IsWritten(was[3][k]) => \E file \in FilesFound(c, was[1]) : file.key = k

ArchivedFiles ==
    /\ \A file \in archive.files : \E c \in Components : \E was \in SavedOf(c) :
          was # << >> /\ file.key \in DOMAIN was[3]
    /\ \A c \in Components : \A was \in SavedOf(c) :
          KeepsFolder(c) /\ was # << >> => FilesOf(c, was)

SplitByKind(E) == <<E \cap Components, E \cap Containers>>

ArchivedMembers ==
    saved.collections = [k \in DOMAIN archive.collections |-> SplitByKind(archive.collections[k])]

Archived == ArchivedSeen /\ ArchivedEntities /\ ArchivedFiles /\ ArchivedMembers

\* The versions of the two branches.
LEMMA BranchVersions ==
    ASSUME TypeOK, NEW e \in Entities
    PROVE  /\ draft.version[e] \in {None} \cup DOMAIN dependencies[e]
           /\ published.version[e] \in {None} \cup DOMAIN dependencies[e]
           /\ VersionsToWrite(e) \subseteq DOMAIN dependencies[e]
           /\ draft.version[e] # None => draft.version[e] \in VersionsToWrite(e)
           /\ published.version[e] # None => published.version[e] \in VersionsToWrite(e)
           /\ Seen(draft)[e] = Version(e, draft.version[e])
           /\ Seen(published)[e] = Version(e, published.version[e])
<1>1. Seen(draft)[e] = Version(e, draft.version[e])
  BY DEF Seen, Version
<1>2. Seen(published)[e] = Version(e, published.version[e])
  BY DEF Seen, Version
<1>3. QED
  BY <1>1, <1>2 DEF TypeOK, BranchTypeOK, VersionsToWrite

\* What is seen of a version.
LEMMA VersionIsSeen ==
    ASSUME TypeOK, PackageIInv, NEW e \in Entities, NEW v \in DOMAIN dependencies[e]
    PROVE  /\ v # None /\ Version(e, v) # << >>
           /\ Version(e, v)[1] = versionNums[e][v] /\ NumOf(e, v) = versionNums[e][v]
           /\ versionNums[e][v] \in Nat \ {0}
           /\ Version(e, v)[2] = ChildrenKeys(e, v)
           /\ ChildrenKeys(e, v) \in Seq(BelowLevel(e))
           /\ Version(e, v)[3] = IF IsContainer(e) THEN << >> ELSE contents[e][v].files
<1>1. v # None
  <2>1. DOMAIN dependencies[e] = 1 .. Len(dependencies[e]) /\ Len(dependencies[e]) \in Nat
    BY TablesOfEntity
  <2>2. QED
    BY <2>1 DEF None
<1>2. NumOf(e, v) = versionNums[e][v]
  BY <1>1 DEF NumOf
<1>3. versionNums[e][v] \in Nat \ {0}
  <2>1. versionNums[e] \in Seq(Nat \ {0}) /\ DOMAIN versionNums[e] = DOMAIN dependencies[e]
    BY TablesOfEntity
  <2>2. QED
    BY <2>1
<1>4. ChildrenKeys(e, v) \in Seq(BelowLevel(e))
  <2>1. CASE IsContainer(e)
    <3>1. rows[e] \in Seq(Seq(ChildRows(e))) /\ DOMAIN rows[e] = DOMAIN dependencies[e]
      BY <2>1, TablesOfEntity
    <3>2. PICK list \in Seq(ChildRows(e)) : list = rows[e][v]
      BY <3>1
    <3>3. PICK n \in Nat : n = Len(list) /\ DOMAIN list = 1 .. n
      BY <3>2, LenProperties
    <3>4. \A i \in 1 .. n : list[i] \in ChildRows(e)
      BY <3>3
    <3>5. \A i \in 1 .. n : list[i].entity \in BelowLevel(e)
      BY <3>4 DEF ChildRows, BelowLevel, Row
    <3>6. ChildrenKeys(e, v) = [i \in 1 .. n |-> list[i].entity]
      BY <2>1, <3>2, <3>3 DEF ChildrenKeys
    <3>7. QED
      BY <3>5, <3>6
  <2>2. CASE ~ IsContainer(e)
    <3>1. ChildrenKeys(e, v) = << >>
      BY <2>2 DEF ChildrenKeys
    <3>2. QED
      BY <3>1, EmptySeq
  <2>3. QED
    BY <2>1, <2>2
<1>5. Version(e, v) = << NumOf(e, v), ChildrenKeys(e, v),
                         IF IsContainer(e) THEN << >> ELSE contents[e][v].files >>
  BY <1>1 DEF Version
<1>6. QED
  BY <1>1, <1>2, <1>3, <1>4, <1>5

\* The number tells which version it is.
LEMMA NumberTells ==
    ASSUME TypeOK, PackageIInv, NEW e \in Entities, NEW v \in DOMAIN dependencies[e],
           NEW w \in DOMAIN dependencies[e], versionNums[e][v] = versionNums[e][w]
    PROVE  v = w
<1>1. Distinct(versionNums[e])
  BY DEF PackageIInv
<1>2. /\ DOMAIN versionNums[e] = DOMAIN dependencies[e]
      /\ DOMAIN dependencies[e] = 1 .. Len(dependencies[e])
      /\ Len(dependencies[e]) \in Nat
  BY TablesOfEntity
<1>3. ~ v < w /\ ~ w < v
  BY <1>1, <1>2 DEF Distinct
<1>4. QED
  BY <1>2, <1>3

\* A component that keeps its folder shares it with no other.
LEMMA FolderTells ==
    ASSUME NEW c \in Components, NEW d \in Components, KeepsFolder(c), Folder(d) = EntityKey(c)
    PROVE  d = c
<1>1. c \in Entities /\ d \in Entities
  BY DEF Components
<1>2. FileName(d) = NameOf[c] /\ FileName(c) = NameOf[c]
  BY DEF Folder, EntityKey, KeepsFolder
<1>3. NameOf[c] \in DOMAIN Slug /\ NameOf[d] \in DOMAIN Slug
  BY <1>1, BackupAssumption
<1>4. SlugifyHashed(NameOf[c]) # NameOf[c] /\ SlugifyHashed(NameOf[d]) # NameOf[c]
  BY <1>3, HashAssumption
<1>5. /\ Slug[NameOf[c]] = NameOf[c] /\ Slug[NameOf[d]] = NameOf[c]
      /\ ~ \E x \in EntitiesBefore(c) : Slug[NameOf[x]] = Slug[NameOf[c]]
      /\ ~ \E x \in EntitiesBefore(d) : Slug[NameOf[x]] = Slug[NameOf[d]]
  BY <1>2, <1>4 DEF FileName
<1>6. c \notin EntitiesBefore(d) /\ d \notin EntitiesBefore(c)
  BY <1>5
<1>7. PICK n \in Nat : n = Len(EntityOrder) /\ DOMAIN EntityOrder = 1 .. n
  BY OrderIsAList, LenProperties
<1>8. PICK i \in 1 .. n, j \in 1 .. n : EntityOrder[i] = c /\ EntityOrder[j] = d
  BY <1>1, <1>7, OrderIsAList DEF ToSet
<1>9. ~ i < j
  BY <1>6, <1>7, <1>8 DEF EntitiesBefore
<1>10. ~ j < i
  BY <1>6, <1>7, <1>8 DEF EntitiesBefore
<1>11. i = j
  BY <1>9, <1>10
<1>12. QED
  BY <1>8, <1>11

\* What is in an archive, whatever it lost.
LEMMA DumpWrites ==
    ASSUME Dump
    PROVE  /\ saved' = Snapshot
           /\ DOMAIN archive'.entities \subseteq Entities
           /\ \A e \in DOMAIN archive'.entities : archive'.entities[e] = EntityToml(e)
           /\ archive'.files = UNION {StaticFiles(c) : c \in Components}
           /\ archive'.key = packageKey
<1>1. saved' = Snapshot
  BY DEF Dump
<1>2. CASE archive' = CreateZip
  BY <1>1, <1>2 DEF CreateZip
<1>3. CASE archive' = WithoutPackage(CreateZip)
  BY <1>1, <1>3 DEF CreateZip, WithoutPackage
<1>4. CASE \E lost \in Losses : archive' = Without(CreateZip, lost)
  BY <1>1, <1>4 DEF CreateZip, Without
<1>5. QED
  BY <1>2, <1>3, <1>4 DEF Dump

\* What readers saw then.
LEMMA DumpSees ==
    ASSUME TypeOK, Dump, NEW e \in Entities
    PROVE  /\ saved'.draft[e] = Version(e, draft.version[e])
           /\ saved'.published[e] = Version(e, published.version[e])
           /\ \A was \in SavedOf(e)' :
                 was # << >> => \E v \in VersionsToWrite(e) : was = Version(e, v)
<1>1. saved' = Snapshot
  BY DumpWrites
<1>2. saved'.draft[e] = Version(e, draft.version[e])
      /\ saved'.published[e] = Version(e, published.version[e])
  BY <1>1, BranchVersions DEF Snapshot
<1>3. Version(e, None) = << >>
  BY DEF Version
<1>4. QED
  BY <1>2, <1>3, BranchVersions DEF SavedOf

\* A dump remembers the versions that it sees, with children below the entity.
LEMMA DumpArchivesSeen ==
    ASSUME TypeOK, PackageIInv, Dump
    PROVE  ArchivedSeen'
<1>1. DOMAIN saved'.draft = Entities
  BY DumpWrites DEF Snapshot, Seen
<1>2. ASSUME NEW e \in Entities, NEW was \in SavedOf(e)', was # << >>
      PROVE  was[1] \in Nat \ {0} /\ was[2] \in Seq(BelowLevel(e))
  <2>1. PICK v \in VersionsToWrite(e) : was = Version(e, v)
    BY <1>2, DumpSees
  <2>2. v \in DOMAIN dependencies[e]
    BY BranchVersions
  <2>3. QED
    BY <2>1, <2>2, VersionIsSeen
<1>3. ASSUME NEW e \in Entities, saved'.draft[e] # << >>, saved'.published[e] # << >>,
             saved'.draft[e][1] = saved'.published[e][1]
      PROVE  saved'.draft[e] = saved'.published[e]
  <2>1. PICK v, w : v = draft.version[e] /\ w = published.version[e]
    OBVIOUS
  <2>2. saved'.draft[e] = Version(e, v) /\ saved'.published[e] = Version(e, w)
    BY <2>1, DumpSees
  <2>3. v # None /\ w # None
    BY <1>3, <2>2 DEF Version
  <2>4. v \in DOMAIN dependencies[e] /\ w \in DOMAIN dependencies[e]
    BY <2>1, <2>3, BranchVersions
  <2>5. versionNums[e][v] = versionNums[e][w]
    BY <1>3, <2>2, <2>4, VersionIsSeen
  <2>6. QED
    BY <2>2, <2>4, <2>5, NumberTells
<1>4. QED
  BY <1>1, <1>2, <1>3 DEF ArchivedSeen

\* The file of an entity has its versions by their numbers.
LEMMA TomlOfVersion ==
    ASSUME TypeOK, PackageIInv, NEW e \in Entities
    PROVE  /\ \A v \in VersionsToWrite(e) :
                 EntityToml(e).version[NumOf(e, v)] = VersionToml(e, v)
           /\ \A num \in DOMAIN EntityToml(e).version :
                 \E v \in VersionsToWrite(e) : EntityToml(e).version[num] = VersionToml(e, v)
<1>. DEFINE nums == {NumOf(e, v) : v \in VersionsToWrite(e)}
            At(num) == CHOOSE v \in VersionsToWrite(e) : NumOf(e, v) = num
<1>1. EntityToml(e).version = [num \in nums |-> VersionToml(e, At(num))]
  BY DEF EntityToml
<1>2. ASSUME NEW num \in nums PROVE At(num) \in VersionsToWrite(e) /\ NumOf(e, At(num)) = num
  OBVIOUS
<1>3. ASSUME NEW v \in VersionsToWrite(e) PROVE NumOf(e, v) \in nums /\ At(NumOf(e, v)) = v
  <2>1. NumOf(e, v) \in nums
    OBVIOUS
  <2>. HIDE DEF At, nums
  <2>2. PICK w : w = At(NumOf(e, v))
    OBVIOUS
  <2>3. w \in VersionsToWrite(e) /\ NumOf(e, w) = NumOf(e, v)
    BY <1>2, <2>1, <2>2
  <2>4. v \in DOMAIN dependencies[e] /\ w \in DOMAIN dependencies[e]
    BY <2>3, BranchVersions
  <2>5. versionNums[e][v] = versionNums[e][w]
    BY <2>3, <2>4, VersionIsSeen
  <2>6. QED
    BY <2>1, <2>2, <2>4, <2>5, NumberTells
<1>. HIDE DEF At, nums
<1>4. \A v \in VersionsToWrite(e) : EntityToml(e).version[NumOf(e, v)] = VersionToml(e, v)
  BY <1>1, <1>3
<1>5. ASSUME NEW num \in DOMAIN EntityToml(e).version
      PROVE  \E v \in VersionsToWrite(e) : EntityToml(e).version[num] = VersionToml(e, v)
  BY <1>1, <1>2, <1>5
<1>6. QED
  BY <1>4, <1>5

\* A dump writes of each entity the numbers that the snapshot has.
LEMMA DumpArchivesEntities ==
    ASSUME TypeOK, PackageIInv, Dump
    PROVE  ArchivedEntities'
<1>1. /\ DOMAIN archive'.entities \subseteq Entities
      /\ \A e \in DOMAIN archive'.entities : archive'.entities[e] = EntityToml(e)
  BY DumpWrites
<1>2. ASSUME NEW e \in DOMAIN archive'.entities
      PROVE  /\ archive'.entities[e].draft = NumSeen(saved'.draft[e])
             /\ archive'.entities[e].published = NumSeen(saved'.published[e])
  <2>1. e \in Entities /\ archive'.entities[e] = EntityToml(e)
    BY <1>1
  <2>2. ASSUME NEW v \in {None} \cup DOMAIN dependencies[e]
        PROVE  NumSeen(Version(e, v)) = NumOf(e, v)
    <3>1. CASE v = None
      BY <3>1 DEF NumSeen, Version, NumOf
    <3>2. CASE v # None
      <4>1. v \in DOMAIN dependencies[e]
        BY <3>2
      <4>2. QED
        BY <2>1, <4>1, VersionIsSeen DEF NumSeen
    <3>3. QED
      BY <3>1, <3>2
  <2>3. /\ draft.version[e] \in {None} \cup DOMAIN dependencies[e]
        /\ published.version[e] \in {None} \cup DOMAIN dependencies[e]
    BY <2>1, BranchVersions
  <2>4. EntityToml(e).draft = NumOf(e, draft.version[e])
        /\ EntityToml(e).published = NumOf(e, published.version[e])
    BY DEF EntityToml
  <2>5. saved'.draft[e] = Version(e, draft.version[e])
        /\ saved'.published[e] = Version(e, published.version[e])
    BY <2>1, DumpSees
  <2>6. QED
    BY <2>1, <2>2, <2>3, <2>4, <2>5
<1>3. ASSUME NEW e \in DOMAIN archive'.entities, NEW was \in SavedOf(e)', was # << >>
      PROVE  archive'.entities[e].version[was[1]].children = was[2]
  <2>1. e \in Entities /\ archive'.entities[e] = EntityToml(e)
    BY <1>1
  <2>2. PICK v \in VersionsToWrite(e) : was = Version(e, v)
    BY <1>3, <2>1, DumpSees
  <2>3. v \in DOMAIN dependencies[e]
    BY <2>1, BranchVersions
  <2>4. was[1] = NumOf(e, v) /\ was[2] = ChildrenKeys(e, v)
    BY <2>1, <2>2, <2>3, VersionIsSeen
  <2>5. EntityToml(e).version[was[1]] = VersionToml(e, v)
    BY <2>1, <2>4, TomlOfVersion
  <2>6. QED
    BY <2>1, <2>4, <2>5 DEF VersionToml
<1>4. ASSUME saved'.allTitled, NEW e \in DOMAIN archive'.entities,
             NEW num \in DOMAIN archive'.entities[e].version
      PROVE  archive'.entities[e].version[num].titled
  <2>1. e \in Entities /\ archive'.entities[e] = EntityToml(e)
    BY <1>1
  <2>2. PICK v \in VersionsToWrite(e) : EntityToml(e).version[num] = VersionToml(e, v)
    BY <1>4, <2>1, TomlOfVersion
  <2>3. \A c \in Components : \A w \in VersionsToWrite(c) : contents[c][w].titled
    <3>1. saved' = Snapshot
      BY DumpWrites
    <3>2. Snapshot.allTitled
      BY <1>4, <3>1
    <3>3. QED
      BY <3>2 DEF Snapshot
  <2>4. e \in Components <=> ~ IsContainer(e)
    BY <2>1 DEF Components, Containers
  <2>5. VersionToml(e, v).titled = (IsContainer(e) \/ contents[e][v].titled)
    BY DEF VersionToml
  <2>6. IsContainer(e) \/ contents[e][v].titled
    BY <1>4, <2>3, <2>4
  <2>7. QED
    BY <2>1, <2>2, <2>5, <2>6
<1>5. saved'.allTitled => ~ HasUntitledVersion'
  BY <1>4 DEF HasUntitledVersion
<1>6. QED
  BY <1>1, <1>2, <1>3, <1>5 DEF ArchivedEntities, InArchive

-----------------------------------------------------------------------------
\* The file with the content at key k of version v of c.
FileOf(c, v, k) ==
    [folder |-> Folder(c), num |-> NumOf(c, v), key |-> k, data |-> contents[c][v].files[k][2]]

\* The files that are written for a component.
LEMMA WrittenFiles ==
    ASSUME NEW c, NEW file
    PROVE  file \in StaticFiles(c) <=>
             \E v \in VersionsToWrite(c) : \E k \in DOMAIN contents[c][v].files :
                IsWritten(contents[c][v].files[k]) /\ file = FileOf(c, v, k)
<1>. DEFINE Of(v) == {FileOf(c, v, k) :
                        k \in {key \in DOMAIN contents[c][v].files :
                                  IsWritten(contents[c][v].files[key])}}
<1>1. StaticFiles(c) = UNION {Of(v) : v \in VersionsToWrite(c)}
  BY DEF StaticFiles, FileOf
<1>2. ASSUME NEW v
      PROVE  file \in Of(v) <=>
                \E k \in DOMAIN contents[c][v].files :
                    IsWritten(contents[c][v].files[k]) /\ file = FileOf(c, v, k)
  OBVIOUS
<1>. HIDE DEF Of
<1>3. QED
  BY <1>1, <1>2

\* The fields of a file.
LEMMA FieldsOfFile ==
    ASSUME NEW c, NEW v, NEW k
    PROVE  /\ FileOf(c, v, k).folder = Folder(c)
           /\ FileOf(c, v, k).num = NumOf(c, v)
           /\ FileOf(c, v, k).key = k
           /\ FileOf(c, v, k).data = contents[c][v].files[k][2]
  BY DEF FileOf

\* A dump writes the static files that the versions of the snapshot have.
LEMMA DumpArchivesFiles ==
    ASSUME TypeOK, PackageIInv, Dump
    PROVE  ArchivedFiles'
<1>1. archive'.files = UNION {StaticFiles(c) : c \in Components}
  BY DumpWrites
<1>2. ASSUME NEW c \in Components
      PROVE  c \in Entities /\ ~ IsContainer(c)
  BY DEF Components, Containers
<1>3. ASSUME NEW c \in Components, NEW v \in VersionsToWrite(c)
      PROVE  /\ v \in DOMAIN dependencies[c]
             /\ Version(c, v)[1] = NumOf(c, v)
             /\ Version(c, v)[3] = contents[c][v].files
             /\ Version(c, v) # << >>
             /\ NumOf(c, v) = versionNums[c][v]
  <2>1. c \in Entities /\ ~ IsContainer(c)
    BY <1>2
  <2>2. v \in DOMAIN dependencies[c]
    BY <2>1, BranchVersions
  <2>3. QED
    BY <2>1, <2>2, VersionIsSeen
<1>4. ASSUME NEW c \in Components, NEW v \in VersionsToWrite(c)
      PROVE  Version(c, v) \in SavedOf(c)'
  <2>1. saved'.draft[c] = Version(c, draft.version[c])
        /\ saved'.published[c] = Version(c, published.version[c])
    BY <1>2, DumpSees
  <2>2. v = draft.version[c] \/ v = published.version[c]
    BY DEF VersionsToWrite
  <2>3. QED
    BY <2>1, <2>2 DEF SavedOf
<1>5. ASSUME NEW file \in archive'.files
      PROVE  \E c \in Components : \E was \in SavedOf(c)' :
                was # << >> /\ file.key \in DOMAIN was[3]
  <2>1. PICK c \in Components : file \in StaticFiles(c)
    BY <1>1
  <2>2. PICK v \in VersionsToWrite(c) : \E k \in DOMAIN contents[c][v].files :
            file = FileOf(c, v, k)
    BY <2>1, WrittenFiles
  <2>3. PICK k \in DOMAIN contents[c][v].files : file = FileOf(c, v, k)
    BY <2>2
  <2>4. file.key = k
    BY <2>3, FieldsOfFile
  <2>5. QED
    BY <1>3, <1>4, <2>3, <2>4
<1>6. ASSUME NEW c \in Components, NEW was \in SavedOf(c)', KeepsFolder(c), was # << >>
      PROVE  FilesOf(c, was)'
  <2>1. PICK v \in VersionsToWrite(c) : was = Version(c, v)
    BY <1>2, <1>6, DumpSees
  <2>2. PICK files : files = contents[c][v].files
    OBVIOUS
  <2>3. was[1] = NumOf(c, v) /\ was[3] = files
    BY <1>3, <2>1, <2>2
  <2>4. ASSUME NEW file \in FilesFound(c, was[1])'
        PROVE  /\ file.key \in DOMAIN files /\ IsWritten(files[file.key])
               /\ file.data = files[file.key][2]
    <3>1. file \in archive'.files /\ file.folder = EntityKey(c) /\ file.num = was[1]
      BY <2>4 DEF FilesFound
    <3>2. PICK d \in Components : file \in StaticFiles(d)
      BY <1>1, <3>1
    <3>3. PICK w \in VersionsToWrite(d) : \E k \in DOMAIN contents[d][w].files :
              IsWritten(contents[d][w].files[k]) /\ file = FileOf(d, w, k)
      BY <3>2, WrittenFiles
    <3>4. PICK k \in DOMAIN contents[d][w].files :
              IsWritten(contents[d][w].files[k]) /\ file = FileOf(d, w, k)
      BY <3>3
    <3>5. /\ file.folder = Folder(d) /\ file.num = NumOf(d, w) /\ file.key = k
          /\ file.data = contents[d][w].files[k][2]
      BY <3>4, FieldsOfFile
    <3>6. d = c
      BY <1>6, <3>1, <3>5, FolderTells
    <3>7. versionNums[c][w] = versionNums[c][v]
      BY <1>3, <2>3, <3>1, <3>5, <3>6
    <3>8. w = v
      BY <1>2, <1>3, <3>6, <3>7, NumberTells
    <3>9. QED
      BY <2>2, <3>4, <3>5, <3>6, <3>8
  <2>5. ASSUME NEW k \in DOMAIN files, IsWritten(files[k])
        PROVE  \E file \in FilesFound(c, was[1])' : file.key = k
    <3>1. PICK file : file = FileOf(c, v, k)
      OBVIOUS
    <3>2. file \in StaticFiles(c)
      BY <2>2, <2>5, <3>1, WrittenFiles
    <3>3. file \in archive'.files
      BY <1>1, <3>2
    <3>4. file.folder = Folder(c) /\ file.num = was[1] /\ file.key = k
      BY <2>3, <3>1, FieldsOfFile
    <3>5. Folder(c) = EntityKey(c)
      BY <1>6 DEF KeepsFolder, Folder, EntityKey
    <3>6. QED
      BY <3>3, <3>4, <3>5 DEF FilesFound
  <2>6. QED
    BY <2>3, <2>4, <2>5 DEF FilesOf
<1>7. QED
  BY <1>5, <1>6 DEF ArchivedFiles

\* A dump writes the members that the snapshot has of each collection.
LEMMA DumpArchivesMembers ==
    ASSUME Dump
    PROVE  ArchivedMembers'
<1>1. archive'.collections = [k \in EnabledCollections |-> collections[k].entities]
  BY DumpKeepsCollections
<1>2. saved' = Snapshot
  BY DumpWrites
<1>3. saved'.collections = [k \in EnabledCollections |-> SplitByKind(collections[k].entities)]
  BY <1>2 DEF Snapshot, SeenCollections, SplitByKind, CollectionComponents, CollectionContainers
<1>4. QED
  BY <1>1, <1>3 DEF ArchivedMembers

\* Until the package is edited no more.
ArchivedIInv == stage # "editing" => Archived

\* Only a dump writes an archive, and no later step changes it.
LEMMA ArchivedStep ==
    ASSUME TypeOK, PackageIInv, ArchivedIInv, [BackupNext]_backupVars
    PROVE  ArchivedIInv'
<1>1. CASE Dump
  BY <1>1, DumpArchivesSeen, DumpArchivesEntities, DumpArchivesFiles, DumpArchivesMembers
     DEF ArchivedIInv, Archived
<1>2. CASE stage # "editing" /\ archive' = archive /\ saved' = saved
  BY <1>2 DEF ArchivedIInv, Archived, ArchivedSeen, ArchivedEntities, ArchivedFiles,
              ArchivedMembers, SavedOf, InArchive, HasUntitledVersion, FilesOf, FilesFound
<1>3. QED
  BY <1>1, <1>2, ArchiveStays DEF ArchivedIInv

-----------------------------------------------------------------------------
(***************************************************************************)
(* Saving one version                                                      *)
(***************************************************************************)
\* The version seen of e is the one that was seen, without the children that were
\* lost.
IsAsSaved(e, seen, was) ==
    /\ seen # << >>
    /\ seen[1] = was[1] /\ seen[2] = OnlyIn(was[2], InArchive)
    /\ e \in Components /\ KeepsFolder(e) /\ HasPlainKeys(was) => seen[3] = Kept(was[3])

IsRestored(e, seen, was) == IF was = << >> THEN seen = << >> ELSE IsAsSaved(e, seen, was)

\* All entities that may be children of e are there.
HasEntitiesBelow(e) == \A d \in InArchive : Level[d] = Level[e] - 1 => d \in entities

\* What an added version changes for readers.
LEMMA SeenAfterVersion ==
    ASSUME TypeOK, PackageIInv, NEW e \in Entities, NEW num \in Nat \ {0}, NEW list, NEW content,
           IsContainer(e) => list \in Seq(ChildRows(e)),
           AddsVersion(e, num, list, content)
    PROVE  /\ Seen(draft)'[e] = << num, IF IsContainer(e) THEN EntitiesIn(list) ELSE << >>,
                                   IF IsContainer(e) THEN << >> ELSE content.files >>
           /\ \A d \in Entities : d # e => /\ Seen(draft)'[d] = Seen(draft)[d]
                                           /\ draft'.version[d] = draft.version[d]
                                           /\ versionNums'[d] = versionNums[d]
           /\ \A d \in Entities : /\ Seen(published)'[d] = Seen(published)[d]
                                  /\ published'.version[d] = published.version[d]
<1>1. PICK n : n = Len(dependencies[e])
  OBVIOUS
<1>2. /\ draft'.version = [draft.version EXCEPT ![e] = n + 1]
      /\ published' = published
      /\ \A d \in Entities : d # e =>
           dependencies'[d] = dependencies[d] /\ versionNums'[d] = versionNums[d]
  BY <1>1, AddedNumber
<1>3. /\ Version(e, n + 1)' = << num, IF IsContainer(e) THEN EntitiesIn(list) ELSE << >>,
                                 IF IsContainer(e) THEN << >> ELSE content.files >>
      /\ \A d \in Entities : \A v \in {None} \cup DOMAIN dependencies[d] :
            Version(d, v)' = Version(d, v)
  BY <1>1, AddedVersionIsSeen
<1>4. DOMAIN draft.version = Entities
  BY DEF TypeOK, BranchTypeOK
<1>5. /\ draft'.version[e] = n + 1
      /\ \A d \in Entities : d # e => draft'.version[d] = draft.version[d]
  BY <1>2, <1>4
<1>6. ASSUME NEW d \in Entities, NEW v, v = draft'.version[d]
      PROVE  Seen(draft)'[d] = Version(d, v)'
  BY <1>6 DEF Seen, Version
<1>7. ASSUME NEW d \in Entities, NEW v, v = published'.version[d]
      PROVE  Seen(published)'[d] = Version(d, v)'
  BY <1>7 DEF Seen, Version
<1>8. Seen(draft)'[e] = Version(e, n + 1)'
  BY <1>5, <1>6
<1>9. ASSUME NEW d \in Entities, d # e PROVE Seen(draft)'[d] = Seen(draft)[d]
  <2>1. PICK v : v = draft.version[d]
    OBVIOUS
  <2>2. v \in {None} \cup DOMAIN dependencies[d] /\ Seen(draft)[d] = Version(d, v)
    BY <2>1, BranchVersions
  <2>3. Seen(draft)'[d] = Version(d, v)'
    BY <1>5, <1>6, <1>9, <2>1
  <2>4. QED
    BY <1>3, <2>2, <2>3
<1>10. ASSUME NEW d \in Entities PROVE Seen(published)'[d] = Seen(published)[d]
  <2>1. PICK v : v = published.version[d]
    OBVIOUS
  <2>2. v \in {None} \cup DOMAIN dependencies[d] /\ Seen(published)[d] = Version(d, v)
    BY <2>1, BranchVersions
  <2>3. Seen(published)'[d] = Version(d, v)'
    BY <1>2, <1>7, <2>1
  <2>4. QED
    BY <1>3, <2>2, <2>3
<1>11. QED
  BY <1>2, <1>3, <1>5, <1>8, <1>9, <1>10

\* The children that _resolve_children finds.
LEMMA ResolvedChildren ==
    ASSUME Archived, NEW e \in InArchive, IsContainer(e), NEW was \in SavedOf(e), was # << >>,
           entities \subseteq InArchive, HasEntitiesBelow(e)
    PROVE  /\ ResolveChildren(e, was[1]) \in Seq(ChildRows(e))
           /\ EntitiesIn(ResolveChildren(e, was[1])) = OnlyIn(was[2], InArchive)
<1>1. InArchive \subseteq Entities /\ archive.entities[e].version[was[1]].children = was[2]
  BY DEF Archived, ArchivedEntities
<1>2. was[2] \in Seq(BelowLevel(e))
  BY <1>1 DEF Archived, ArchivedSeen
<1>3. PICK known : known = OnlyIn(was[2], {d \in entities : Level[d] = Level[e] - 1})
  OBVIOUS
<1>4. PICK children : children = was[2]
  OBVIOUS
<1>5. \A i \in DOMAIN children :
          children[i] \in {d \in entities : Level[d] = Level[e] - 1} <=> children[i] \in InArchive
  <2>1. \A i \in DOMAIN children : children[i] \in BelowLevel(e)
    BY <1>2, <1>4
  <2>2. QED
    BY <2>1 DEF BelowLevel, HasEntitiesBelow
<1>6. known = OnlyIn(children, InArchive)
  BY <1>2, <1>3, <1>4, <1>5, OnlyInSame
<1>7. known \in Seq(BelowLevel(e))
  <2>1. known \in Seq(BelowLevel(e) \cap InArchive)
    BY <1>2, <1>4, <1>6, OnlyInType
  <2>2. QED
    BY <2>1, SeqMonotonic
<1>8. PICK n \in Nat : n = Len(known) /\ DOMAIN known = 1 .. n
  BY <1>7, LenProperties
<1>9. PICK list : list = ResolveChildren(e, was[1])
  OBVIOUS
<1>10. list = [i \in 1 .. n |-> [entity |-> known[i], pin |-> Unpinned]]
  BY <1>1, <1>3, <1>8, <1>9 DEF ResolveChildren
<1>11. \A i \in 1 .. n : known[i] \in BelowLevel(e)
  BY <1>7, <1>8
<1>12. \A i \in 1 .. n : [entity |-> known[i], pin |-> Unpinned] \in ChildRows(e)
  BY <1>11 DEF ChildRows, Row, BelowLevel
<1>13. list \in Seq(ChildRows(e))
  BY <1>10, <1>12
<1>14. EntitiesIn(list) = [i \in 1 .. n |-> known[i]]
  BY <1>10 DEF EntitiesIn
<1>15. known = [i \in 1 .. n |-> known[i]]
  BY <1>7, <1>8
<1>16. QED
  BY <1>4, <1>6, <1>9, <1>13, <1>14, <1>15

\* The contents that _resolve_static_files finds.
LEMMA ResolvedContents ==
    ASSUME Archived, NEW e \in Components, NEW was \in SavedOf(e), was # << >>,
           KeepsFolder(e), HasPlainKeys(was), NEW given \in ResolvedFiles(e, was[1])
    PROVE  given = Kept(was[3])
<1>1. PICK before, num : before = was[3] /\ num = was[1]
  OBVIOUS
<1>2. FilesOf(e, was)
  BY DEF Archived, ArchivedFiles
<1>3. /\ \A file \in FilesFound(e, num) :
            /\ file.key \in DOMAIN before /\ IsWritten(before[file.key])
            /\ file.data = before[file.key][2]
      /\ \A k \in DOMAIN before :
            IsWritten(before[k]) => \E file \in FilesFound(e, num) : file.key = k
  BY <1>1, <1>2 DEF FilesOf
<1>4. \A k \in DOMAIN before : KeyAfter[<<k, num>>] = k
  BY <1>1 DEF HasPlainKeys
<1>5. PICK keys : keys = {key \in DOMAIN before : IsWritten(before[key])}
  OBVIOUS
<1>6. {KeyAfter[<<file.key, num>>] : file \in FilesFound(e, num)} = keys
  <2>1. ASSUME NEW file \in FilesFound(e, num) PROVE KeyAfter[<<file.key, num>>] \in keys
    <3>1. PICK k : k = file.key
      OBVIOUS
    <3>2. k \in DOMAIN before /\ IsWritten(before[k])
      BY <1>3, <3>1
    <3>3. KeyAfter[<<k, num>>] = k
      BY <1>4, <3>2
    <3>4. QED
      BY <1>5, <3>1, <3>2, <3>3
  <2>2. ASSUME NEW k \in keys
        PROVE  \E file \in FilesFound(e, num) : KeyAfter[<<file.key, num>>] = k
    <3>1. k \in DOMAIN before /\ IsWritten(before[k])
      BY <1>5
    <3>2. PICK file \in FilesFound(e, num) : file.key = k
      BY <1>3, <3>1
    <3>3. KeyAfter[<<k, num>>] = k
      BY <1>4, <3>1
    <3>4. QED
      BY <3>2, <3>3
  <2>3. QED
    BY <2>1, <2>2
<1>7. PICK T : /\ given \in [keys -> T]
               /\ \A k \in keys : \E file \in FilesFound(e, num) :
                     /\ KeyAfter[<<file.key, num>>] = k
                     /\ given[k] = IF k = BlockXml THEN Text(file.data) ELSE File(file.data)
  <2>1. PICK T : T = {Text(f.data) : f \in archive.files} \cup {File(f.data) : f \in archive.files}
    OBVIOUS
  <2>2. given \in ResolvedFiles(e, num)
    BY <1>1
  <2>3. ResolvedFiles(e, num) = {g \in [keys -> T] :
            \A k \in keys : \E file \in FilesFound(e, num) :
                /\ KeyAfter[<<file.key, num>>] = k
                /\ g[k] = IF k = BlockXml THEN Text(file.data) ELSE File(file.data)}
    BY <1>6, <2>1 DEF ResolvedFiles
  <2>4. QED
    BY <2>2, <2>3
<1>8. ASSUME NEW k \in keys
      PROVE  given[k] = IF k = BlockXml THEN Text(before[k][2]) ELSE File(before[k][2])
  <2>1. PICK file \in FilesFound(e, num) :
            /\ KeyAfter[<<file.key, num>>] = k
            /\ given[k] = IF k = BlockXml THEN Text(file.data) ELSE File(file.data)
    BY <1>7
  <2>2. file.key = k
    BY <1>3, <1>4, <2>1
  <2>3. file.data = before[k][2]
    BY <1>3, <2>2
  <2>4. QED
    BY <2>1, <2>3
<1>9. given = [k \in keys |-> IF k = BlockXml THEN Text(before[k][2]) ELSE File(before[k][2])]
  BY <1>7, <1>8
<1>10. QED
  BY <1>1, <1>5, <1>9 DEF Kept

\* A version of a container is added with its children.
LEMMA ContainerIsRestored ==
    ASSUME TypeOK, PackageIInv, Archived, NEW e \in InArchive, IsContainer(e),
           NEW was \in SavedOf(e), was # << >>,
           entities \subseteq InArchive, HasEntitiesBelow(e),
           RestoreContainerVersion(e, was[1])
    PROVE  \E list \in Seq(ChildRows(e)) :
              /\ AddsVersion(e, was[1], list, << >>)
              /\ EntitiesIn(list) = OnlyIn(was[2], InArchive)
<1>1. e \in Containers
  BY DEF Archived, ArchivedEntities, Containers
<1>2. PICK list : list = ResolveChildren(e, was[1])
  OBVIOUS
<1>3. list \in Seq(ChildRows(e)) /\ EntitiesIn(list) = OnlyIn(was[2], InArchive)
  BY <1>2, ResolvedChildren
<1>4. NewContainerVersion(e, was[1], list) /\ contents' = contents
  BY <1>2 DEF RestoreContainerVersion, CreateNextContainerVersion, NextEntityList
<1>5. AddsVersion(e, was[1], list, << >>)
  BY <1>1, <1>4, NewListAddsVersion
<1>6. QED
  BY <1>3, <1>5

\* A version of a component is added with its contents, unless those of an older
\* version are kept.
LEMMA ComponentIsRestored ==
    ASSUME TypeOK, PackageIInv, Archived, NEW e \in InArchive, ~ IsContainer(e),
           NEW was \in SavedOf(e), was # << >>, NEW ignore,
           ignore \/ versionNums[e] = << >>,
           RestoreComponentVersion(e, was[1], ignore)
    PROVE  \E content :
              /\ AddsVersion(e, was[1], << >>, content)
              /\ KeepsFolder(e) /\ HasPlainKeys(was) => content.files = Kept(was[3])
<1>1. e \in Components
  BY DEF Archived, ArchivedEntities, Components, Containers
<1>2. PICK given \in ResolvedFiles(e, was[1]) : contents' = [contents EXCEPT ![e] =
          Append(@, [titled |-> archive.entities[e].version[was[1]].titled,
                     files  |-> NewContents(e, given, ignore)])]
  BY DEF RestoreComponentVersion
<1>3. NewContents(e, given, ignore) = given
  BY DEF NewContents, Latest
<1>4. PICK content : content = [titled |-> archive.entities[e].version[was[1]].titled,
                                files  |-> given]
  OBVIOUS
<1>5. contents' = [contents EXCEPT ![e] = Append(@, content)] /\ content.files = given
  BY <1>2, <1>3, <1>4
<1>6. {} \in SUBSET {d \in Entities : Level[d] < Level[e]}
  OBVIOUS
<1>7. AddsVersion(e, was[1], << >>, content)
  BY <1>5, <1>6 DEF RestoreComponentVersion, AddsVersion
<1>8. KeepsFolder(e) /\ HasPlainKeys(was) => content.files = Kept(was[3])
  BY <1>1, <1>2, <1>5, ResolvedContents
<1>9. QED
  BY <1>7, <1>8

\* What saving one version does.
SavesVersion(e, was) ==
    /\ PackageIInv'
    /\ [Next]_vars
    /\ IsAsSaved(e, Seen(draft)'[e], was)
    /\ \A d \in Entities : d # e => /\ Seen(draft)'[d] = Seen(draft)[d]
                                    /\ draft'.version[d] = draft.version[d]
                                    /\ versionNums'[d] = versionNums[d]
    /\ \A d \in Entities : /\ Seen(published)'[d] = Seen(published)[d]
                           /\ published'.version[d] = published.version[d]

\* A version that a restore adds is a version that some call could create.
LEMMA AddsVersionIsACall ==
    ASSUME NEW e \in Entities, NEW num, NEW list, NEW content, AddsVersion(e, num, list, content)
    PROVE  [Next]_vars
<1>1. \E D \in SUBSET {d \in Entities : Level[d] < Level[e]} : CreateVersion(e, D)
  BY DEF AddsVersion
<1>2. QED
  BY <1>1 DEF Next

\* The next item on the list saves the version that readers saw in the archive.
LEMMA VersionIsSaved ==
    ASSUME TypeOK, PackageIInv, Archived, NEW e \in InArchive,
           NEW was \in SavedOf(e), was # << >>, NEW ignore,
           entities \subseteq InArchive, HasEntitiesBelow(e),
           ignore \/ versionNums[e] = << >>,
           IF IsContainer(e) THEN RestoreContainerVersion(e, was[1])
                             ELSE RestoreComponentVersion(e, was[1], ignore)
    PROVE  SavesVersion(e, was)
<1>1. e \in Entities /\ was[1] \in Nat \ {0}
  BY DEF Archived, ArchivedSeen, ArchivedEntities
<1>2. ASSUME NEW list, NEW content, IsContainer(e) => list \in Seq(ChildRows(e)),
             AddsVersion(e, was[1], list, content),
             IsContainer(e) => EntitiesIn(list) = OnlyIn(was[2], InArchive),
             ~ IsContainer(e) /\ KeepsFolder(e) /\ HasPlainKeys(was)
                => content.files = Kept(was[3])
      PROVE  SavesVersion(e, was)
  <2>1. PICK num \in Nat \ {0} : num = was[1]
    BY <1>1
  <2>2. AddsVersion(e, num, list, content)
    BY <1>2, <2>1
  <2>3. PackageIInv'
    BY <1>1, <1>2, <2>1, <2>2, AddedVersionKeepsPackage
  <2>4. [Next]_vars
    BY <1>1, <2>2, AddsVersionIsACall
  <2>5. /\ Seen(draft)'[e] = << num, IF IsContainer(e) THEN EntitiesIn(list) ELSE << >>,
                                IF IsContainer(e) THEN << >> ELSE content.files >>
        /\ \A d \in Entities : d # e => /\ Seen(draft)'[d] = Seen(draft)[d]
                                        /\ draft'.version[d] = draft.version[d]
                                        /\ versionNums'[d] = versionNums[d]
        /\ \A d \in Entities : /\ Seen(published)'[d] = Seen(published)[d]
                               /\ published'.version[d] = published.version[d]
    BY <1>1, <1>2, <2>2, SeenAfterVersion
  <2>6. ~ IsContainer(e) => was[2] = << >>
    <3>1. was[2] \in Seq(BelowLevel(e))
      BY <1>1 DEF Archived, ArchivedSeen
    <3>2. ~ IsContainer(e) => BelowLevel(e) = {}
      BY <1>1, LevelAssumption DEF IsContainer, BelowLevel
    <3>3. QED
      BY <3>1, <3>2, EmptySeq
  <2>7. ~ IsContainer(e) => OnlyIn(was[2], InArchive) = << >>
    BY <2>6, OnlyInEmpty
  <2>8. e \in Components <=> ~ IsContainer(e)
    BY <1>1 DEF Components, Containers
  <2>9. IsAsSaved(e, Seen(draft)'[e], was)
    BY <1>2, <2>1, <2>5, <2>7, <2>8 DEF IsAsSaved
  <2>10. QED
    BY <2>3, <2>4, <2>5, <2>9 DEF SavesVersion
<1>3. CASE IsContainer(e)
  <2>1. PICK list \in Seq(ChildRows(e)) :
            /\ AddsVersion(e, was[1], list, << >>)
            /\ EntitiesIn(list) = OnlyIn(was[2], InArchive)
    BY <1>3, ContainerIsRestored
  <2>2. QED
    BY <1>2, <1>3, <2>1
<1>4. CASE ~ IsContainer(e)
  <2>1. PICK content :
            /\ AddsVersion(e, was[1], << >>, content)
            /\ KeepsFolder(e) /\ HasPlainKeys(was) => content.files = Kept(was[3])
    BY <1>4, ComponentIsRestored
  <2>2. QED
    BY <1>2, <1>4, <2>1
<1>5. QED
  BY <1>3, <1>4

-----------------------------------------------------------------------------
(***************************************************************************)
(* How far a restore has got.  What is left to save is not there yet; what *)
(* is not left is as it was seen when the package was dumped.              *)
(***************************************************************************)
\* The version of e on a branch is the one that the package had published, the draft
\* it had, or both.
PublishedAsSaved(e) == IsRestored(e, Seen(published)[e], saved.published[e])
DraftAsPublished(e) == IsRestored(e, Seen(draft)[e], saved.published[e])
DraftAsSaved(e) == IsAsSaved(e, Seen(draft)[e], saved.draft[e])
DraftAsRestored(e) == IsRestored(e, Seen(draft)[e], DraftOf(e))

PackageIsEmpty ==
    entities = {} /\ \A e \in Entities : versionNums[e] = << >> /\ draft.version[e] = None

SavingPublished ==
    /\ toSave \in Seq(Items) /\ InOrder(toSave)
    /\ ToSet(toSave) \subseteq {<<"entity", e>> : e \in InArchive}
                                 \cup {<<"version", e>> : e \in HavePublished}
    /\ entities = {e \in InArchive : <<"entity", e>> \notin ToSet(toSave)}
    /\ \A e \in InArchive :
          IF <<"version", e>> \in ToSet(toSave)
            THEN versionNums[e] = << >>
            ELSE DraftAsPublished(e)

SavedCollections ==
    collections = [k \in DOMAIN archive.collections |->
                      [enabled |-> TRUE, entities |-> archive.collections[k]]]

PublishedSaved ==
    /\ entities = InArchive
    /\ SavedCollections
    /\ \A e \in InArchive : PublishedAsSaved(e)

SavingDrafts ==
    /\ toSave \in Seq(Items) /\ InOrder(toSave)
    /\ ToSet(toSave) \subseteq {<<"version", e>> : e \in HaveDraft}
    /\ \A e \in InArchive :
          IF e \in HaveDraft /\ <<"version", e>> \notin ToSet(toSave)
            THEN DraftAsSaved(e)
            ELSE draft.version[e] = published.version[e]

Progress ==
    /\ stage = "loading" => PackageIsEmpty
    /\ stage = "refused" => HasErrors
    /\ stage = "published versions" => SavingPublished
    /\ stage \in {"published", "draft versions", "restored"} => PublishedSaved
    /\ stage = "published" => \A e \in Entities : draft.version[e] = published.version[e]
    /\ stage = "draft versions" => SavingDrafts
    /\ stage = "restored" => \A e \in InArchive : DraftAsRestored(e)
    /\ stage \in {"published versions", "published", "draft versions", "restored"} =>
          packageKey \notin TakenKeys \cup {archive.key}

RestoreIInv == TypeOK /\ PackageIInv /\ ArchivedIInv /\ Progress

\* A package without anything is in order.
LEMMA NoPackageIsInOrder ==
    ASSUME NoPackage
    PROVE  Init' /\ PackageIInv' /\ PackageIsEmpty'
<1>1. Init'
  BY DEF NoPackage, Init
<1>2. NumbersIInv' /\ versionNums' \in [Entities -> Seq(Nat \ {0})]
  <2>1. versionNums' = [e \in Entities |-> << >>]
    BY DEF NoPackage
  <2>2. << >> \in Seq(Nat) /\ << >> \in Seq(Nat \ {0})
    BY EmptySeq
  <2>3. QED
    BY <2>1, <2>2 DEF NumbersIInv, HasHighest
<1>3. /\ DOMAIN rows' = Containers /\ DOMAIN contents' = Components
      /\ \A c \in Containers : rows'[c] = << >>
      /\ \A c \in Components : contents'[c] = << >>
      /\ \A e \in Entities : versionNums'[e] = << >> /\ dependencies'[e] = << >>
  BY DEF NoPackage, EmptyContents
<1>4. Containers \subseteq Entities /\ Components \subseteq Entities
  BY DEF Containers, Components
<1>5. Distinct(<< >>)
  BY DEF Distinct
<1>6. \A c \in Containers : rows'[c] \in Seq(Seq(ChildRows(c)))
  BY <1>3, EmptySeq
<1>7. \A c \in Components : \E S : contents'[c] \in Seq(S)
  BY <1>3, EmptySeq
<1>8. PackageIInv'
  <2>1. \A e \in Entities :
            Len(versionNums'[e]) = Len(dependencies'[e]) /\ Distinct(versionNums'[e])
    BY <1>3, <1>5
  <2>2. \A c \in Containers : Len(rows'[c]) = Len(dependencies'[c])
    BY <1>3, <1>4
  <2>3. \A c \in Components : Len(contents'[c]) = Len(dependencies'[c])
    BY <1>3, <1>4
  <2>4. QED
    BY <1>2, <1>3, <1>6, <1>7, <2>1, <2>2, <2>3 DEF PackageIInv, Distinct
<1>9. PackageIsEmpty'
  BY <1>3 DEF NoPackage, PackageIsEmpty, EmptyBranch
<1>10. QED
  BY <1>1, <1>8, <1>9

\* What is seen stays when no version is added and a branch stays where it is.
LEMMA SeenSame ==
    ASSUME UNCHANGED <<rows, versionNums, contents>>, NEW e \in Entities
    PROVE  /\ draft'.version[e] = draft.version[e] => Seen(draft)'[e] = Seen(draft)[e]
           /\ published'.version[e] = published.version[e]
                => Seen(published)'[e] = Seen(published)[e]
           /\ published'.version[e] = draft.version[e] => Seen(published)'[e] = Seen(draft)[e]
<1>1. \A v : NumOf(e, v)' = NumOf(e, v) /\ ChildrenKeys(e, v)' = ChildrenKeys(e, v)
  BY DEF NumOf, ChildrenKeys
<1>2. ASSUME draft'.version[e] = draft.version[e] PROVE Seen(draft)'[e] = Seen(draft)[e]
  BY <1>2 DEF Seen, NumOf, ChildrenKeys
<1>3. ASSUME published'.version[e] = published.version[e]
      PROVE  Seen(published)'[e] = Seen(published)[e]
  BY <1>3 DEF Seen, NumOf, ChildrenKeys
<1>4. ASSUME published'.version[e] = draft.version[e]
      PROVE  Seen(published)'[e] = Seen(draft)[e]
  BY <1>4 DEF Seen, NumOf, ChildrenKeys
<1>5. QED
  BY <1>2, <1>3, <1>4

\* What an archive says stays with it.
LEMMA ArchiveSame ==
    ASSUME archive' = archive, saved' = saved
    PROVE  /\ InArchive' = InArchive /\ HavePublished' = HavePublished /\ HaveDraft' = HaveDraft
           /\ HasErrors' <=> HasErrors
           /\ \A e \in Entities : DraftOf(e)' = DraftOf(e)
<1>1. InArchive' = InArchive
  BY DEF InArchive
<1>2. HavePublished' = HavePublished /\ HaveDraft' = HaveDraft
  BY DEF HavePublished, HaveDraft, IsVersionAlreadyExists
<1>3. HasErrors' <=> HasErrors
  BY DEF HasErrors, LacksPackage, HasUntitledVersion, HasTomlFile, HasUnknownEntity
<1>4. \A e \in Entities : DraftOf(e)' = DraftOf(e)
  BY DEF DraftOf
<1>5. QED
  BY <1>1, <1>2, <1>3, <1>4

\* What is as it was saved stays so with what is seen.
LEMMA RestoredStays ==
    ASSUME archive' = archive, saved' = saved, NEW e \in Entities
    PROVE  /\ Seen(draft)'[e] = Seen(draft)[e] =>
                /\ DraftAsPublished(e)' <=> DraftAsPublished(e)
                /\ DraftAsSaved(e)' <=> DraftAsSaved(e)
                /\ DraftAsRestored(e)' <=> DraftAsRestored(e)
           /\ Seen(published)'[e] = Seen(published)[e] =>
                (PublishedAsSaved(e)' <=> PublishedAsSaved(e))
           /\ Seen(published)'[e] = Seen(draft)[e] =>
                (PublishedAsSaved(e)' <=> DraftAsPublished(e))
<1>1. InArchive' = InArchive /\ DraftOf(e)' = DraftOf(e)
  BY ArchiveSame
<1>2. Seen(draft)'[e] = Seen(draft)[e] =>
                /\ DraftAsPublished(e)' <=> DraftAsPublished(e)
                /\ DraftAsSaved(e)' <=> DraftAsSaved(e)
                /\ DraftAsRestored(e)' <=> DraftAsRestored(e)
  BY <1>1 DEF DraftAsPublished, DraftAsSaved, DraftAsRestored, IsRestored, IsAsSaved
<1>3. Seen(published)'[e] = Seen(published)[e] =>
                (PublishedAsSaved(e)' <=> PublishedAsSaved(e))
  BY <1>1 DEF PublishedAsSaved, IsRestored, IsAsSaved
<1>4. Seen(published)'[e] = Seen(draft)[e] =>
                (PublishedAsSaved(e)' <=> DraftAsPublished(e))
  BY <1>1 DEF PublishedAsSaved, DraftAsPublished, IsRestored, IsAsSaved
<1>5. QED
  BY <1>2, <1>3, <1>4

-----------------------------------------------------------------------------
(***************************************************************************)
(* What each step of a dump and a restore keeps                            *)
(***************************************************************************)
\* Calls that add no version keep the tables.
LEMMA TablesStay ==
    ASSUME PackageIInv, UNCHANGED <<dependencies, rows, versionNums, contents>>
    PROVE  PackageIInv'
  BY DEF PackageIInv, NumbersIInv, HasHighest

\* An edit keeps the tables together; no restore has begun.
LEMMA EditKeeps ==
    ASSUME RestoreIInv, Edit
    PROVE  TypeOK' /\ PackageIInv' /\ Progress'
<1>1. TypeOK /\ PackageIInv
  BY DEF RestoreIInv
<1>2. TypeOK'
  BY <1>1, EditIsACall, NextKeepsType
<1>3. PackageIInv'
  <2>1. CASE \E e \in Entities, num \in Nat \ {0} : \E list, content :
                 /\ IsContainer(e) => list \in Seq(ChildRows(e))
                 /\ AddsVersion(e, num, list, content)
    BY <1>1, <2>1, AddedVersionKeepsPackage
  <2>2. CASE UNCHANGED <<dependencies, rows, versionNums, contents>>
    BY <1>1, <2>2, TablesStay
  <2>3. QED
    BY <1>1, <2>1, <2>2, EditsOfVersions
<1>4. stage' = "editing"
  BY DEF Edit
<1>5. Progress'
  BY <1>4 DEF Progress
<1>6. QED
  BY <1>2, <1>3, <1>5

\* Dumping and rolling back leave nothing of a package.
LEMMA DumpKeeps ==
    ASSUME Dump \/ RollBack
    PROVE  TypeOK' /\ PackageIInv' /\ Progress'
<1>1. NoPackage /\ stage' \in {"loading", "failed"}
  BY DEF Dump, RollBack
<1>2. Init' /\ PackageIInv' /\ PackageIsEmpty'
  BY <1>1, NoPackageIsInOrder
<1>3. TypeOK'
  BY <1>2, InitIsTyped, PTL
<1>4. Progress'
  BY <1>1, <1>2 DEF Progress
<1>5. QED
  BY <1>2, <1>3, <1>4

\* Refusing an archive and failing at its key leave the package as empty as it was.
LEMMA RefusalKeeps ==
    ASSUME RestoreIInv, Refuse \/ FailToBegin
    PROVE  TypeOK' /\ PackageIInv' /\ Progress'
<1>1. UNCHANGED packageVars /\ archive' = archive /\ saved' = saved
  BY DEF Refuse, FailToBegin
<1>2. /\ UNCHANGED vars
      /\ UNCHANGED <<dependencies, rows, versionNums, contents>>
  BY <1>1 DEF packageVars, containersVars, vars
<1>3. TypeOK' /\ PackageIInv'
  BY <1>2, NextKeepsType, TablesStay DEF RestoreIInv
<1>4. stage' = "failed" \/ (stage' = "refused" /\ HasErrors)
  BY DEF Refuse, FailToBegin
<1>5. HasErrors' <=> HasErrors
  BY <1>1, ArchiveSame
<1>6. Progress'
  BY <1>4, <1>5 DEF Progress
<1>7. QED
  BY <1>3, <1>6

\* Nothing is there when the restore begins, and everything is left to save.
LEMMA BeginKeeps ==
    ASSUME RestoreIInv, BeginRestore
    PROVE  TypeOK' /\ PackageIInv' /\ Progress'
<1>1. /\ stage = "loading" /\ stage' = "published versions"
      /\ archive' = archive /\ saved' = saved
      /\ UNCHANGED <<dependencies, rows, versionNums, contents, draft, entities>>
      /\ BeginBulk
      /\ toSave' = PublishedToSave
  BY DEF BeginRestore, BeginBulk
<1>2. TypeOK' /\ PackageIInv'
  BY <1>1, NextKeepsType, TablesStay DEF RestoreIInv, Next
<1>3. PackageIsEmpty /\ Archived
  BY <1>1 DEF RestoreIInv, Progress, ArchivedIInv
<1>4. InArchive \subseteq Entities
  BY <1>3 DEF Archived, ArchivedEntities
<1>5. /\ toSave' \in Seq(Items) /\ InOrder(toSave')
      /\ ToSet(toSave') = {<<"entity", e>> : e \in InArchive}
                            \cup {<<"version", e>> : e \in HavePublished}
  BY <1>1, <1>4, PublishedItems
<1>6. InArchive' = InArchive /\ HavePublished' = HavePublished
  BY <1>1, ArchiveSame
<1>7. entities' = {e \in InArchive : <<"entity", e>> \notin ToSet(toSave')}
  BY <1>1, <1>3, <1>5 DEF PackageIsEmpty
<1>8. ASSUME NEW e \in InArchive
      PROVE  IF <<"version", e>> \in ToSet(toSave') THEN versionNums'[e] = << >>
                                                    ELSE DraftAsPublished(e)'
  <2>1. e \in Entities /\ versionNums'[e] = << >> /\ draft'.version[e] = None
    BY <1>1, <1>3, <1>4 DEF PackageIsEmpty
  <2>2. ASSUME e \notin HavePublished PROVE DraftAsPublished(e)'
    <3>1. archive.entities[e].published = None
      BY <2>2 DEF HavePublished, InArchive
    <3>2. NumSeen(saved.published[e]) = None
      BY <1>3, <3>1 DEF Archived, ArchivedEntities
    <3>3. saved.published[e] = << >>
      BY <1>3, <2>1, <3>2 DEF Archived, ArchivedSeen, SavedOf, NumSeen, None
    <3>4. Seen(draft)'[e] = << >>
      BY <2>1 DEF Seen
    <3>5. saved'.published[e] = << >>
      BY <1>1, <3>3
    <3>6. QED
      BY <3>4, <3>5 DEF DraftAsPublished, IsRestored
  <2>3. QED
    BY <1>5, <2>1, <2>2
<1>9. SavingPublished'
  BY <1>5, <1>6, <1>7, <1>8 DEF SavingPublished
<1>10. packageKey' \notin TakenKeys \cup {archive'.key}
  BY <1>1 DEF BeginRestore, IsKeyAccepted
<1>11. QED
  BY <1>1, <1>2, <1>9, <1>10 DEF Progress

-----------------------------------------------------------------------------
\* The first item on the list of what is left.
LEMMA FirstToSave ==
    ASSUME toSave \in Seq(Items), InOrder(toSave), toSave # << >>, toSave' = Tail(toSave)
    PROVE  /\ toSave' \in Seq(Items) /\ InOrder(toSave')
           /\ Head(toSave) \in ToSet(toSave)
           /\ Head(toSave) \in Items
           /\ ToSet(toSave') = ToSet(toSave) \ {Head(toSave)}
           /\ \A x \in ToSet(toSave') : MayPrecede(Head(toSave), x)
  BY FirstItem

\* An item is an entity or a version.
LEMMA KindOfItem ==
    ASSUME NEW E, NEW V,
           NEW x \in {<<"entity", e>> : e \in E} \cup {<<"version", e>> : e \in V}
    PROVE  /\ x[1] = "entity" => \E e \in E : x = <<"entity", e>>
           /\ x[1] = "version" => \E e \in V : x = <<"version", e>>
<1>1. CASE x \in {<<"entity", e>> : e \in E}
  <2>1. PICK e \in E : x = <<"entity", e>>
    BY <1>1
  <2>2. x[1] = "entity"
    BY <2>1
  <2>3. QED
    BY <2>1, <2>2
<1>2. CASE x \in {<<"version", e>> : e \in V}
  <2>1. PICK e \in V : x = <<"version", e>>
    BY <1>2
  <2>2. x[1] = "version"
    BY <2>1
  <2>3. QED
    BY <2>1, <2>2
<1>3. QED
  BY <1>1, <1>2

\* An item of the list is an entity or a version.
LEMMA KindsDiffer == \A d, e : <<"entity", d>> # <<"version", e>>
  OBVIOUS

\* One entity is there and no longer on the list.
LEMMA EntityKeeps ==
    ASSUME RestoreIInv, SaveEntity
    PROVE  TypeOK' /\ PackageIInv' /\ Progress'
<1>1. /\ stage = "published versions" /\ stage' = "published versions"
      /\ archive' = archive /\ saved' = saved /\ packageKey' = packageKey
      /\ UNCHANGED <<rows, versionNums, contents, draft>>
      /\ toSave # << >> /\ toSave' = Tail(toSave)
      /\ Head(toSave)[1] = "entity"
      /\ UNCHANGED vars /\ UNCHANGED dependencies
  BY DEF SaveEntity, containersVars, vars
<1>2. TypeOK' /\ PackageIInv'
  BY <1>1, NextKeepsType, TablesStay DEF RestoreIInv
<1>3. SavingPublished /\ Archived /\ packageKey \notin TakenKeys \cup {archive.key}
  BY <1>1 DEF RestoreIInv, Progress, ArchivedIInv
<1>4. /\ toSave' \in Seq(Items) /\ InOrder(toSave')
      /\ Head(toSave) \in ToSet(toSave)
      /\ ToSet(toSave') = ToSet(toSave) \ {Head(toSave)}
  BY <1>1, <1>3, FirstToSave DEF SavingPublished
<1>5. PICK e \in InArchive : Head(toSave) = <<"entity", e>>
  <2>1. Head(toSave) \in {<<"entity", e>> : e \in InArchive}
                           \cup {<<"version", e>> : e \in HavePublished}
    BY <1>3, <1>4 DEF SavingPublished
  <2>2. Head(toSave)[1] = "entity"
    BY <1>1
  <2>3. QED
    BY <2>1, <2>2, KindOfItem
<1>6. entities' = entities \cup {e}
  <2>1. Head(toSave)[2] = e
    BY <1>5
  <2>2. QED
    BY <2>1 DEF SaveEntity, CreateContainer, CreateComponent, CreatePublishableEntity
<1>7. entities' = {d \in InArchive : <<"entity", d>> \notin ToSet(toSave')}
  BY <1>3, <1>4, <1>5, <1>6 DEF SavingPublished
<1>8. InArchive' = InArchive /\ HavePublished' = HavePublished
  BY <1>1, ArchiveSame
<1>9. ASSUME NEW d \in InArchive
      PROVE  IF <<"version", d>> \in ToSet(toSave') THEN versionNums'[d] = << >>
                                                    ELSE DraftAsPublished(d)'
  <2>1. d \in Entities
    BY <1>3 DEF Archived, ArchivedEntities
  <2>2. Seen(draft)'[d] = Seen(draft)[d]
    BY <1>1, <2>1, SeenSame
  <2>3. DraftAsPublished(d)' <=> DraftAsPublished(d)
    BY <1>1, <2>1, <2>2, RestoredStays
  <2>4. <<"version", d>> \in ToSet(toSave') <=> <<"version", d>> \in ToSet(toSave)
    BY <1>4, <1>5
  <2>5. QED
    BY <1>1, <1>3, <2>3, <2>4 DEF SavingPublished
<1>10. ToSet(toSave') \subseteq {<<"entity", x>> : x \in InArchive}
                                  \cup {<<"version", x>> : x \in HavePublished}
  BY <1>3, <1>4 DEF SavingPublished
<1>11. SavingPublished'
  BY <1>4, <1>7, <1>8, <1>9, <1>10 DEF SavingPublished
<1>12. QED
  BY <1>1, <1>2, <1>3, <1>11 DEF Progress

\* A published version is saved below its children's entities, as the first
\* version of its entity.
LEMMA PublishedVersionIsSaved ==
    ASSUME RestoreIInv, SavePublishedVersion
    PROVE  \E e \in HavePublished :
              /\ Head(toSave) = <<"version", e>>
              /\ saved.published[e] # << >>
              /\ SavesVersion(e, saved.published[e])
<1>1. /\ stage = "published versions"
      /\ toSave # << >> /\ toSave' = Tail(toSave)
      /\ Head(toSave)[1] = "version"
  BY DEF SavePublishedVersion
<1>2. SavingPublished /\ Archived
  BY <1>1 DEF RestoreIInv, Progress, ArchivedIInv
<1>3. /\ Head(toSave) \in ToSet(toSave)
      /\ ToSet(toSave') = ToSet(toSave) \ {Head(toSave)}
      /\ \A x \in ToSet(toSave') : MayPrecede(Head(toSave), x)
  BY <1>1, <1>2, FirstToSave DEF SavingPublished
<1>4. PICK e \in HavePublished : Head(toSave) = <<"version", e>>
  <2>1. Head(toSave) \in {<<"entity", e>> : e \in InArchive}
                           \cup {<<"version", e>> : e \in HavePublished}
    BY <1>2, <1>3 DEF SavingPublished
  <2>2. QED
    BY <1>1, <2>1, KindOfItem
<1>5. e \in InArchive /\ archive.entities[e].published # None
  BY DEF HavePublished, InArchive
<1>6. e \in Entities
  BY <1>2, <1>5 DEF Archived, ArchivedEntities
<1>7. PICK was : was = saved.published[e]
  OBVIOUS
<1>8. archive.entities[e].published = NumSeen(was)
  BY <1>2, <1>5, <1>7 DEF Archived, ArchivedEntities
<1>9. was # << >> /\ archive.entities[e].published = was[1] /\ was \in SavedOf(e)
  BY <1>5, <1>7, <1>8 DEF NumSeen, SavedOf
<1>10. entities \subseteq InArchive /\ versionNums[e] = << >>
  BY <1>2, <1>3, <1>4, <1>5 DEF SavingPublished
<1>11. HasEntitiesBelow(e)
  <2>1. ASSUME NEW d \in InArchive, Level[d] = Level[e] - 1, d \notin entities PROVE FALSE
    <3>1. <<"entity", d>> \in ToSet(toSave)
      BY <1>2, <2>1 DEF SavingPublished
    <3>2. <<"entity", d>> \in ToSet(toSave')
      BY <1>3, <1>4, <3>1
    <3>3. MayPrecede(<<"version", e>>, <<"entity", d>>)
      BY <1>3, <1>4, <3>2
    <3>4. Level[e] < Level[d]
      BY <3>3 DEF MayPrecede
    <3>5. d \in Entities
      BY <1>2 DEF Archived, ArchivedEntities
    <3>6. QED
      BY <1>6, <2>1, <3>4, <3>5, LevelAssumption
  <2>2. QED
    BY <2>1 DEF HasEntitiesBelow
<1>12. IF IsContainer(e) THEN RestoreContainerVersion(e, was[1])
                         ELSE RestoreComponentVersion(e, was[1], FALSE)
  <2>1. Head(toSave)[2] = e
    BY <1>4
  <2>2. QED
    BY <1>9, <2>1 DEF SavePublishedVersion
<1>13. SavesVersion(e, was)
  BY <1>2, <1>5, <1>9, <1>10, <1>11, <1>12, VersionIsSaved DEF RestoreIInv
<1>14. QED
  BY <1>4, <1>7, <1>9, <1>13

\* One published version is there and no longer on the list.
LEMMA PublishedVersionKeeps ==
    ASSUME RestoreIInv, SavePublishedVersion
    PROVE  TypeOK' /\ PackageIInv' /\ Progress'
<1>1. /\ stage = "published versions" /\ stage' = "published versions"
      /\ archive' = archive /\ saved' = saved
      /\ packageKey' = packageKey /\ entities' = entities
      /\ toSave # << >> /\ toSave' = Tail(toSave)
  BY DEF SavePublishedVersion, RestoreContainerVersion, RestoreComponentVersion
<1>2. PICK e \in HavePublished :
          /\ Head(toSave) = <<"version", e>>
          /\ saved.published[e] # << >>
          /\ SavesVersion(e, saved.published[e])
  BY PublishedVersionIsSaved
<1>3. SavingPublished /\ Archived /\ packageKey \notin TakenKeys \cup {archive.key}
  BY <1>1 DEF RestoreIInv, Progress, ArchivedIInv
<1>4. e \in InArchive /\ InArchive \subseteq Entities
  BY <1>3 DEF Archived, ArchivedEntities, HavePublished, InArchive
<1>5. TypeOK' /\ PackageIInv'
  BY <1>2, NextKeepsType DEF SavesVersion, RestoreIInv
<1>6. /\ toSave' \in Seq(Items) /\ InOrder(toSave')
      /\ ToSet(toSave') = ToSet(toSave) \ {Head(toSave)}
  BY <1>1, <1>3, FirstToSave DEF SavingPublished
<1>7. InArchive' = InArchive /\ HavePublished' = HavePublished
  BY <1>1, ArchiveSame
<1>8. entities' = {d \in InArchive : <<"entity", d>> \notin ToSet(toSave')}
  BY <1>1, <1>2, <1>3, <1>6, KindsDiffer DEF SavingPublished
<1>9. DraftAsPublished(e)'
  <2>1. IsAsSaved(e, Seen(draft)'[e], saved.published[e])
    BY <1>2 DEF SavesVersion
  <2>2. QED
    BY <1>1, <1>2, <1>7, <2>1 DEF DraftAsPublished, IsRestored, IsAsSaved
<1>10. ASSUME NEW d \in InArchive
       PROVE  IF <<"version", d>> \in ToSet(toSave') THEN versionNums'[d] = << >>
                                                     ELSE DraftAsPublished(d)'
  <2>1. CASE d = e
    BY <1>2, <1>6, <1>9, <2>1
  <2>2. CASE d # e
    <3>1. Seen(draft)'[d] = Seen(draft)[d] /\ versionNums'[d] = versionNums[d]
      BY <1>2, <1>4, <2>2 DEF SavesVersion
    <3>2. DraftAsPublished(d)' <=> DraftAsPublished(d)
      BY <1>1, <1>4, <3>1, RestoredStays
    <3>3. <<"version", d>> \in ToSet(toSave') <=> <<"version", d>> \in ToSet(toSave)
      BY <1>2, <1>6, <2>2
    <3>4. QED
      BY <1>3, <3>1, <3>2, <3>3 DEF SavingPublished
  <2>3. QED
    BY <2>1, <2>2
<1>11. ToSet(toSave') \subseteq {<<"entity", x>> : x \in InArchive}
                                  \cup {<<"version", x>> : x \in HavePublished}
  BY <1>3, <1>6 DEF SavingPublished
<1>12. SavingPublished'
  BY <1>6, <1>7, <1>8, <1>10, <1>11 DEF SavingPublished
<1>13. QED
  BY <1>1, <1>3, <1>5, <1>12 DEF Progress

-----------------------------------------------------------------------------
\* The end of a bulk context moves no draft.
LEMMA EndBulkMovesNothing ==
    ASSUME TypeOK, EndBulk
    PROVE  draft'.version = draft.version /\ published' = published
<1>1. PICK n \in Nat : n = Len(openLogs) /\ DOMAIN openLogs = 1 .. n
  BY LenProperties DEF TypeOK
<1>2. n # 0
  BY <1>1, EmptySeq DEF EndBulk, TypeOK
<1>3. openLogs[n] \in Nat
  BY <1>1, <1>2 DEF TypeOK
<1>4. Tables(draft)
  BY DEF TypeOK, BranchTypeOK, Tables
<1>5. draft' = WithSideEffects(dependencies, draft, openLogs[n])
  BY <1>1 DEF EndBulk
<1>6. QED
  BY <1>3, <1>4, <1>5, SideEffectsTables DEF EndBulk

\* Nothing is on an empty list.
LEMMA NothingListed == ToSet(<< >>) = {}
  BY DEF ToSet

\* Everything is published when all published versions are there.
LEMMA PublishKeeps ==
    ASSUME RestoreIInv, PublishRestored
    PROVE  TypeOK' /\ PackageIInv' /\ Progress'
<1>1. /\ stage = "published versions" /\ stage' = "published" /\ toSave = << >>
      /\ archive' = archive /\ saved' = saved
      /\ packageKey' = packageKey /\ entities' = entities
      /\ UNCHANGED <<dependencies, rows, versionNums, contents, draft>>
      /\ PublishAllDrafts
      /\ collections' = [k \in DOMAIN archive.collections |->
                            [enabled |-> TRUE, entities |-> archive.collections[k]]]
  BY DEF PublishRestored, PublishAllDrafts, PublishFromDrafts
<1>2. TypeOK' /\ PackageIInv'
  BY <1>1, NextKeepsType, TablesStay DEF RestoreIInv, Next
<1>3. SavingPublished /\ Archived /\ packageKey \notin TakenKeys \cup {archive.key}
  BY <1>1 DEF RestoreIInv, Progress, ArchivedIInv
<1>4. \A e \in Entities : draft'.version[e] = published'.version[e]
  BY <1>1, PublishAllIsAll DEF RestoreIInv
<1>5. ToSet(toSave) = {}
  BY <1>1, NothingListed
<1>6. InArchive' = InArchive
  BY <1>1, ArchiveSame
<1>7. entities' = InArchive
  BY <1>1, <1>3, <1>5 DEF SavingPublished
<1>8. ASSUME NEW e \in InArchive PROVE PublishedAsSaved(e)'
  <2>1. e \in Entities
    BY <1>3 DEF Archived, ArchivedEntities
  <2>2. DraftAsPublished(e)
    BY <1>3, <1>5 DEF SavingPublished
  <2>3. published'.version[e] = draft.version[e]
    BY <1>1, <1>4, <2>1
  <2>4. Seen(published)'[e] = Seen(draft)[e]
    BY <1>1, <2>1, <2>3, SeenSame
  <2>5. QED
    BY <1>1, <2>1, <2>2, <2>4, RestoredStays
<1>9. PublishedSaved'
  BY <1>1, <1>6, <1>7, <1>8 DEF PublishedSaved, SavedCollections
<1>10. QED
  BY <1>1, <1>2, <1>3, <1>4, <1>9 DEF Progress

\* What was published stays when nothing but drafts and logs change.
LEMMA PublishedStays ==
    ASSUME PublishedSaved, InArchive \subseteq Entities,
           archive' = archive, saved' = saved, entities' = entities, collections' = collections,
           \A e \in Entities : Seen(published)'[e] = Seen(published)[e]
    PROVE  PublishedSaved'
<1>1. InArchive' = InArchive
  BY ArchiveSame
<1>2. ASSUME NEW e \in InArchive PROVE PublishedAsSaved(e)'
  BY RestoredStays DEF PublishedSaved
<1>3. QED
  BY <1>1, <1>2 DEF PublishedSaved, SavedCollections

\* The first bulk context ends with everything published, and the second begins.
LEMMA BetweenBulksKeeps ==
    ASSUME RestoreIInv, EndFirstBulk \/ BeginSecondBulk
    PROVE  TypeOK' /\ PackageIInv' /\ Progress'
<1>1. /\ stage = "published"
      /\ archive' = archive /\ saved' = saved /\ collections' = collections
      /\ packageKey' = packageKey /\ entities' = entities
      /\ UNCHANGED <<dependencies, rows, versionNums, contents, published>>
      /\ EndBulk \/ BeginBulk
  BY DEF EndFirstBulk, BeginSecondBulk, EndBulk, BeginBulk, collectionsVars
<1>2. TypeOK' /\ PackageIInv'
  BY <1>1, NextKeepsType, TablesStay DEF RestoreIInv, Next
<1>3. /\ PublishedSaved /\ Archived /\ packageKey \notin TakenKeys \cup {archive.key}
      /\ \A e \in Entities : draft.version[e] = published.version[e]
  BY <1>1 DEF RestoreIInv, Progress, ArchivedIInv
<1>4. draft'.version = draft.version
  BY <1>1, EndBulkMovesNothing DEF RestoreIInv, BeginBulk
<1>5. InArchive \subseteq Entities
  BY <1>3 DEF Archived, ArchivedEntities
<1>6. \A e \in Entities : Seen(published)'[e] = Seen(published)[e]
  BY <1>1, SeenSame
<1>7. PublishedSaved'
  BY <1>1, <1>3, <1>5, <1>6, PublishedStays
<1>8. \A e \in Entities : draft'.version[e] = published'.version[e]
  BY <1>1, <1>3, <1>4
<1>9. CASE EndFirstBulk
  <2>1. stage' = "published"
    BY <1>1, <1>9 DEF EndFirstBulk
  <2>2. QED
    BY <1>1, <1>2, <1>3, <1>7, <1>8, <2>1 DEF Progress
<1>10. CASE BeginSecondBulk
  <2>1. stage' = "draft versions" /\ toSave' = DraftsToSave
    BY <1>10 DEF BeginSecondBulk
  <2>2. /\ toSave' \in Seq(Items) /\ InOrder(toSave')
        /\ ToSet(toSave') = {<<"version", e>> : e \in HaveDraft}
    BY <1>5, <2>1, DraftItems
  <2>3. InArchive' = InArchive /\ HaveDraft' = HaveDraft
    BY <1>1, ArchiveSame
  <2>4. ASSUME NEW e \in InArchive
        PROVE  /\ e \in HaveDraft => <<"version", e>> \in ToSet(toSave')
               /\ draft'.version[e] = published'.version[e]
    BY <1>5, <1>8, <2>2
  <2>5. SavingDrafts'
    BY <2>2, <2>3, <2>4 DEF SavingDrafts
  <2>6. QED
    BY <1>1, <1>2, <1>3, <1>7, <2>1, <2>5 DEF Progress
<1>11. QED
  BY <1>9, <1>10

\* A version with a draft of its own is added to a package that has everything else.
LEMMA DraftVersionIsSaved ==
    ASSUME RestoreIInv, SaveDraftVersion
    PROVE  \E e \in HaveDraft :
              /\ Head(toSave) = <<"version", e>>
              /\ SavesVersion(e, saved.draft[e])
<1>1. /\ stage = "draft versions"
      /\ toSave # << >> /\ toSave' = Tail(toSave)
  BY DEF SaveDraftVersion
<1>2. SavingDrafts /\ PublishedSaved /\ Archived
  BY <1>1 DEF RestoreIInv, Progress, ArchivedIInv
<1>3. Head(toSave) \in ToSet(toSave)
  BY <1>1, <1>2, FirstToSave DEF SavingDrafts
<1>4. PICK e \in HaveDraft : Head(toSave) = <<"version", e>>
  BY <1>2, <1>3 DEF SavingDrafts
<1>5. e \in InArchive /\ archive.entities[e].draft # None
  BY DEF HaveDraft, InArchive
<1>6. e \in Entities
  BY <1>2, <1>5 DEF Archived, ArchivedEntities
<1>7. PICK was : was = saved.draft[e]
  OBVIOUS
<1>8. archive.entities[e].draft = NumSeen(was)
  BY <1>2, <1>5, <1>7 DEF Archived, ArchivedEntities
<1>9. was # << >> /\ archive.entities[e].draft = was[1] /\ was \in SavedOf(e)
  BY <1>5, <1>7, <1>8 DEF NumSeen, SavedOf
<1>10. entities \subseteq InArchive /\ HasEntitiesBelow(e)
  BY <1>2 DEF PublishedSaved, HasEntitiesBelow
<1>11. IF IsContainer(e) THEN RestoreContainerVersion(e, was[1])
                         ELSE RestoreComponentVersion(e, was[1], TRUE)
  <2>1. Head(toSave)[2] = e
    BY <1>4
  <2>2. QED
    BY <1>9, <2>1 DEF SaveDraftVersion
<1>12. SavesVersion(e, was)
  BY <1>2, <1>5, <1>9, <1>10, <1>11, VersionIsSaved DEF RestoreIInv
<1>13. QED
  BY <1>4, <1>7, <1>12

\* One draft version is there and no longer on the list.
LEMMA DraftVersionKeeps ==
    ASSUME RestoreIInv, SaveDraftVersion
    PROVE  TypeOK' /\ PackageIInv' /\ Progress'
<1>1. /\ stage = "draft versions" /\ stage' = "draft versions"
      /\ archive' = archive /\ saved' = saved /\ collections' = collections
      /\ packageKey' = packageKey /\ entities' = entities
      /\ toSave # << >> /\ toSave' = Tail(toSave)
  BY DEF SaveDraftVersion, RestoreContainerVersion, RestoreComponentVersion, collectionsVars
<1>2. PICK e \in HaveDraft :
          /\ Head(toSave) = <<"version", e>>
          /\ SavesVersion(e, saved.draft[e])
  BY DraftVersionIsSaved
<1>3. /\ SavingDrafts /\ PublishedSaved /\ Archived
      /\ packageKey \notin TakenKeys \cup {archive.key}
  BY <1>1 DEF RestoreIInv, Progress, ArchivedIInv
<1>4. e \in InArchive /\ InArchive \subseteq Entities
  BY <1>3 DEF Archived, ArchivedEntities, HaveDraft, InArchive
<1>5. TypeOK' /\ PackageIInv'
  BY <1>2, NextKeepsType DEF SavesVersion, RestoreIInv
<1>6. /\ toSave' \in Seq(Items) /\ InOrder(toSave')
      /\ ToSet(toSave') = ToSet(toSave) \ {Head(toSave)}
  BY <1>1, <1>3, FirstToSave DEF SavingDrafts
<1>7. InArchive' = InArchive /\ HaveDraft' = HaveDraft
  BY <1>1, ArchiveSame
<1>8. PublishedSaved'
  <2>1. \A d \in Entities : Seen(published)'[d] = Seen(published)[d]
    BY <1>2 DEF SavesVersion
  <2>2. QED
    BY <1>1, <1>3, <1>4, <2>1, PublishedStays
<1>9. DraftAsSaved(e)'
  <2>1. IsAsSaved(e, Seen(draft)'[e], saved.draft[e])
    BY <1>2 DEF SavesVersion
  <2>2. QED
    BY <1>1, <1>7, <2>1 DEF DraftAsSaved, IsAsSaved
<1>10. ASSUME NEW d \in InArchive
       PROVE  IF d \in HaveDraft /\ <<"version", d>> \notin ToSet(toSave')
                THEN DraftAsSaved(d)'
                ELSE draft'.version[d] = published'.version[d]
  <2>1. CASE d = e
    BY <1>2, <1>6, <1>9, <2>1
  <2>2. CASE d # e
    <3>1. /\ Seen(draft)'[d] = Seen(draft)[d]
          /\ draft'.version[d] = draft.version[d]
          /\ published'.version[d] = published.version[d]
      BY <1>2, <1>4, <2>2 DEF SavesVersion
    <3>2. DraftAsSaved(d)' <=> DraftAsSaved(d)
      BY <1>1, <1>4, <3>1, RestoredStays
    <3>3. <<"version", d>> \in ToSet(toSave') <=> <<"version", d>> \in ToSet(toSave)
      BY <1>2, <1>6, <2>2
    <3>4. QED
      BY <1>3, <3>1, <3>2, <3>3 DEF SavingDrafts
  <2>3. QED
    BY <2>1, <2>2
<1>11. ToSet(toSave') \subseteq {<<"version", x>> : x \in HaveDraft}
  BY <1>3, <1>6 DEF SavingDrafts
<1>12. SavingDrafts'
  BY <1>6, <1>7, <1>10, <1>11 DEF SavingDrafts
<1>13. QED
  BY <1>1, <1>3, <1>5, <1>8, <1>12 DEF Progress

\* An entity without a draft of its own had the published version for its draft,
\* or a deleted one.
LEMMA NoDraftOfItsOwn ==
    ASSUME Archived, NEW e \in InArchive, e \notin HaveDraft
    PROVE  DraftOf(e) = saved.published[e]
<1>1. e \in Entities
  BY DEF Archived, ArchivedEntities
<1>2. PICK draftWas, publishedWas :
          draftWas = saved.draft[e] /\ publishedWas = saved.published[e]
  OBVIOUS
<1>3. /\ archive.entities[e].draft = NumSeen(draftWas)
      /\ archive.entities[e].published = NumSeen(publishedWas)
  BY <1>2 DEF Archived, ArchivedEntities
<1>4. ASSUME draftWas # << >> PROVE draftWas = publishedWas
  <2>1. draftWas[1] \in Nat \ {0} /\ archive.entities[e].draft = draftWas[1]
    BY <1>1, <1>2, <1>3, <1>4 DEF Archived, ArchivedSeen, SavedOf, NumSeen
  <2>2. draftWas[1] = archive.entities[e].published
    BY <2>1 DEF HaveDraft, IsVersionAlreadyExists, InArchive, None
  <2>3. publishedWas # << >> /\ publishedWas[1] = draftWas[1]
    BY <1>3, <2>1, <2>2 DEF NumSeen, None
  <2>4. QED
    BY <1>1, <1>2, <1>4, <2>3 DEF Archived, ArchivedSeen
<1>5. QED
  BY <1>2, <1>4 DEF DraftOf

\* With nothing left on the list, everything is restored.
LEMMA EndKeeps ==
    ASSUME RestoreIInv, EndRestore
    PROVE  TypeOK' /\ PackageIInv' /\ Progress'
<1>1. /\ stage = "draft versions" /\ stage' = "restored" /\ toSave = << >>
      /\ archive' = archive /\ saved' = saved /\ collections' = collections
      /\ packageKey' = packageKey /\ entities' = entities
      /\ UNCHANGED <<dependencies, rows, versionNums, contents, published>>
      /\ EndBulk
  BY DEF EndRestore, EndBulk, collectionsVars
<1>2. TypeOK' /\ PackageIInv'
  BY <1>1, NextKeepsType, TablesStay DEF RestoreIInv, Next
<1>3. /\ SavingDrafts /\ PublishedSaved /\ Archived
      /\ packageKey \notin TakenKeys \cup {archive.key}
  BY <1>1 DEF RestoreIInv, Progress, ArchivedIInv
<1>4. draft'.version = draft.version
  BY <1>1, EndBulkMovesNothing DEF RestoreIInv
<1>5. InArchive \subseteq Entities /\ InArchive' = InArchive
  BY <1>1, <1>3, ArchiveSame DEF Archived, ArchivedEntities
<1>6. \A e \in Entities : /\ Seen(published)'[e] = Seen(published)[e]
                          /\ Seen(draft)'[e] = Seen(draft)[e]
  BY <1>1, <1>4, SeenSame
<1>7. PublishedSaved'
  BY <1>1, <1>3, <1>5, <1>6, PublishedStays
<1>8. ASSUME NEW e \in InArchive PROVE DraftAsRestored(e)
  <2>1. e \in Entities
    BY <1>5
  <2>2. CASE e \in HaveDraft
    <3>1. DraftAsSaved(e)
      BY <1>1, <1>3, <2>2, NothingListed DEF SavingDrafts
    <3>2. saved.draft[e] # << >>
      <4>1. archive.entities[e].draft # None
        BY <2>2 DEF HaveDraft
      <4>2. archive.entities[e].draft = NumSeen(saved.draft[e])
        BY <1>3 DEF Archived, ArchivedEntities
      <4>3. QED
        BY <4>1, <4>2 DEF NumSeen
    <3>3. DraftOf(e) = saved.draft[e]
      BY <3>2 DEF DraftOf
    <3>4. QED
      BY <3>1, <3>2, <3>3 DEF DraftAsRestored, DraftAsSaved, IsRestored
  <2>3. CASE e \notin HaveDraft
    <3>1. draft.version[e] = published.version[e]
      BY <1>3, <2>3 DEF SavingDrafts
    <3>2. Seen(draft)[e] = Seen(published)[e]
      BY <2>1, <3>1 DEF Seen
    <3>3. DraftOf(e) = saved.published[e]
      BY <1>3, <2>3, NoDraftOfItsOwn
    <3>4. PublishedAsSaved(e)
      BY <1>3 DEF PublishedSaved
    <3>5. QED
      BY <3>2, <3>3, <3>4 DEF DraftAsRestored, PublishedAsSaved
  <2>4. QED
    BY <2>2, <2>3
<1>9. ASSUME NEW e \in InArchive' PROVE DraftAsRestored(e)'
  BY <1>1, <1>5, <1>6, <1>8, RestoredStays
<1>10. QED
  BY <1>1, <1>2, <1>3, <1>7, <1>9 DEF Progress

-----------------------------------------------------------------------------
\* A package that nobody edited yet is in order.
LEMMA InitIsInOrder == BackupInit => RestoreIInv
<1>. SUFFICES ASSUME BackupInit PROVE RestoreIInv
  OBVIOUS
<1>1. /\ Init
      /\ rows = [c \in Containers |-> << >>]
      /\ versionNums = [e \in Entities |-> << >>]
      /\ dependencies = [e \in Entities |-> << >>]
      /\ contents = [c \in Components |-> << >>]
      /\ stage = "editing"
  BY DEF BackupInit, ContainersInit, Init, EmptyContents
<1>2. TypeOK
  BY <1>1, InitIsTyped
<1>3. Containers \subseteq Entities /\ Components \subseteq Entities
  BY DEF Containers, Components
<1>4. PackageIInv
  <2>1. NumbersIInv /\ versionNums \in [Entities -> Seq(Nat \ {0})]
    <3>1. << >> \in Seq(Nat) /\ << >> \in Seq(Nat \ {0})
      BY EmptySeq
    <3>2. QED
      BY <1>1, <3>1 DEF NumbersIInv, HasHighest
  <2>2. \A e \in Entities : Len(versionNums[e]) = Len(dependencies[e]) /\ Distinct(versionNums[e])
    BY <1>1 DEF Distinct
  <2>3. \A c \in Containers :
            /\ rows[c] \in Seq(Seq(ChildRows(c)))
            /\ Len(rows[c]) = Len(dependencies[c])
    BY <1>1, <1>3, EmptySeq
  <2>4. \A c \in Components :
            (\E S : contents[c] \in Seq(S)) /\ Len(contents[c]) = Len(dependencies[c])
    BY <1>1, <1>3, EmptySeq
  <2>5. QED
    BY <1>1, <2>1, <2>2, <2>3, <2>4 DEF PackageIInv
<1>5. ArchivedIInv /\ Progress
  BY <1>1 DEF ArchivedIInv, Progress
<1>6. QED
  BY <1>2, <1>4, <1>5 DEF RestoreIInv

\* Every step of a dump and a restore keeps the invariant.
LEMMA RestoreIInvStep == RestoreIInv /\ [BackupNext]_backupVars => RestoreIInv'
<1>. SUFFICES ASSUME RestoreIInv, [BackupNext]_backupVars
              PROVE  RestoreIInv'
  OBVIOUS
<1>1. ArchivedIInv'
  BY ArchivedStep DEF RestoreIInv
<1>2. TypeOK' /\ PackageIInv' /\ Progress'
  <2>1. CASE Edit
    BY <2>1, EditKeeps
  <2>2. CASE Dump \/ RollBack
    BY <2>2, DumpKeeps
  <2>3. CASE Refuse \/ FailToBegin
    BY <2>3, RefusalKeeps
  <2>4. CASE BeginRestore
    BY <2>4, BeginKeeps
  <2>5. CASE SaveEntity
    BY <2>5, EntityKeeps
  <2>6. CASE SavePublishedVersion
    BY <2>6, PublishedVersionKeeps
  <2>7. CASE PublishRestored
    BY <2>7, PublishKeeps
  <2>8. CASE EndFirstBulk \/ BeginSecondBulk
    BY <2>8, BetweenBulksKeeps
  <2>9. CASE SaveDraftVersion
    BY <2>9, DraftVersionKeeps
  <2>10. CASE EndRestore
    BY <2>10, EndKeeps
  <2>11. CASE UNCHANGED backupVars
    <3>1. /\ archive' = archive /\ saved' = saved /\ entities' = entities
          /\ collections' = collections /\ packageKey' = packageKey
          /\ stage' = stage /\ toSave' = toSave
          /\ UNCHANGED <<dependencies, rows, versionNums, contents, draft, published>>
          /\ UNCHANGED vars
      BY <2>11 DEF backupVars, packageVars, containersVars, collectionsVars, vars
    <3>2. TypeOK' /\ PackageIInv'
      BY <3>1, NextKeepsType, TablesStay DEF RestoreIInv
    <3>3. /\ InArchive' = InArchive /\ HavePublished' = HavePublished /\ HaveDraft' = HaveDraft
          /\ HasErrors' <=> HasErrors
      BY <3>1, ArchiveSame
    <3>4. ASSUME stage # "editing", NEW e \in InArchive
          PROVE  /\ DraftAsPublished(e)' <=> DraftAsPublished(e)
                 /\ DraftAsSaved(e)' <=> DraftAsSaved(e)
                 /\ DraftAsRestored(e)' <=> DraftAsRestored(e)
                 /\ PublishedAsSaved(e)' <=> PublishedAsSaved(e)
      <4>1. e \in Entities
        BY <3>4 DEF RestoreIInv, ArchivedIInv, Archived, ArchivedEntities
      <4>2. Seen(draft)'[e] = Seen(draft)[e] /\ Seen(published)'[e] = Seen(published)[e]
        BY <3>1, <4>1, SeenSame
      <4>3. QED
        BY <3>1, <4>1, <4>2, RestoredStays
    <3>5. stage # "editing" => (SavingPublished' <=> SavingPublished)
      BY <3>1, <3>3, <3>4 DEF SavingPublished
    <3>6. stage # "editing" => (PublishedSaved' <=> PublishedSaved)
      BY <3>1, <3>3, <3>4 DEF PublishedSaved, SavedCollections
    <3>7. stage # "editing" => (SavingDrafts' <=> SavingDrafts)
      BY <3>1, <3>3, <3>4 DEF SavingDrafts
    <3>8. PackageIsEmpty' <=> PackageIsEmpty
      BY <3>1 DEF PackageIsEmpty
    <3>9. Progress'
      BY <3>1, <3>3, <3>4, <3>5, <3>6, <3>7, <3>8 DEF RestoreIInv, Progress
    <3>10. QED
      BY <3>2, <3>9
  <2>12. QED
    BY <2>1, <2>2, <2>3, <2>4, <2>5, <2>6, <2>7, <2>8, <2>9, <2>10, <2>11 DEF BackupNext
<1>3. QED
  BY <1>1, <1>2 DEF RestoreIInv

\* Every state of a package is in order.
LEMMA RestoreIInvHolds == BackupSpec => [](RestoreIInv /\ DatedIInv)
<1>1. BackupInit => DatedIInv
  BY DEF BackupInit, CollectionsInit, DatedIInv, CollectionsTypeOK, ArchivedCollections
<1>2. QED
  BY <1>1, InitIsInOrder, RestoreIInvStep, DatedIInvStep, PTL DEF BackupSpec

-----------------------------------------------------------------------------
\* Readers of a restored entity see what was saved of it.
LEMMA SeenAsSaved ==
    ASSUME Archived, NEW e \in Entities, NEW was \in SavedOf(e), NEW seen,
           IsRestored(e, seen, was), NEW some, NEW saw, some[e] = seen, saw[e] = was
    PROVE  SeenOf(some, e) = SeenOf(saw, e)
<1>1. CASE was = << >>
  BY <1>1 DEF IsRestored, SeenOf
<1>2. CASE was # << >>
  <2>1. seen # << >> /\ seen[1] = was[1] /\ seen[2] = OnlyIn(was[2], InArchive)
    BY <1>2 DEF IsRestored, IsAsSaved
  <2>2. was[2] \in Seq(BelowLevel(e))
    BY <1>2 DEF Archived, ArchivedSeen
  <2>3. InArchive \cap InArchive = InArchive
    OBVIOUS
  <2>4. OnlyIn(seen[2], InArchive) = OnlyIn(was[2], InArchive)
    BY <2>1, <2>2, <2>3, OnlyInTwice
  <2>5. QED
    BY <1>2, <2>1, <2>4 DEF SeenOf
<1>3. QED
  BY <1>1, <1>2

\* The restored collections have the components and the containers they had.
LEMMA CollectionsAsSaved ==
    ASSUME Archived, SavedCollections
    PROVE  SeenCollections = saved.collections
<1>1. EnabledCollections = DOMAIN archive.collections
  BY DEF SavedCollections, EnabledCollections
<1>2. \A k \in DOMAIN archive.collections : collections[k].entities = archive.collections[k]
  BY DEF SavedCollections
<1>3. SeenCollections = [k \in DOMAIN archive.collections |-> SplitByKind(archive.collections[k])]
  BY <1>1, <1>2 DEF SeenCollections, CollectionComponents, CollectionContainers, SplitByKind
<1>4. QED
  BY <1>3 DEF Archived, ArchivedMembers

\* Why an archive is refused.
LEMMA RefusedFor ==
    ASSUME Archived, DatedIInv, stage # "editing", HasErrors
    PROVE  \/ ~ archive.package \/ InArchive # Entities
           \/ \E e \in Entities, seen \in {saved.draft, saved.published} :
                 seen[e] # << >> /\ DOMAIN seen[e][3] \cap TomlKeys # {}
           \/ ~ saved.allTitled
<1>1. CASE LacksPackage
  BY <1>1 DEF LacksPackage
<1>2. CASE HasUntitledVersion
  BY <1>2 DEF Archived, ArchivedEntities
<1>3. CASE HasTomlFile
  <2>1. PICK file \in archive.files : file.key \in TomlKeys
    BY <1>3 DEF HasTomlFile
  <2>2. PICK c \in Components : \E was \in SavedOf(c) : was # << >> /\ file.key \in DOMAIN was[3]
    BY <2>1 DEF Archived, ArchivedFiles
  <2>3. PICK was \in SavedOf(c) : was # << >> /\ file.key \in DOMAIN was[3]
    BY <2>2
  <2>4. PICK seen \in {saved.draft, saved.published} : seen[c] = was
    BY DEF SavedOf
  <2>5. seen[c] # << >> /\ DOMAIN seen[c][3] \cap TomlKeys # {}
    BY <2>1, <2>3, <2>4
  <2>6. c \in Entities
    BY DEF Components
  <2>7. QED
    BY <2>5, <2>6
<1>4. CASE HasUnknownEntity
  BY <1>4 DEF HasUnknownEntity, DatedIInv, ArchivedCollections, InArchive
<1>5. QED
  BY <1>1, <1>2, <1>3, <1>4 DEF HasErrors

\* A restored package is the dumped one, for every package and every mix of edits,
\* publishes, resets, deletions and pins before the dump: each entity of the archive
\* has its version numbers and children on both branches, and the collections their
\* members; and an archive is refused for no other reason than the three.
THEOREM PackagesAreRestored == BackupSpec => []PackageIsRestored
<1>1. ASSUME RestoreIInv, DatedIInv PROVE PackageIsRestored
  <2>1. ASSUME stage = "restored"
        PROVE  /\ packageKey \notin TakenKeys \cup {archive.key}
               /\ entities = InArchive
               /\ \A e \in InArchive :
                     /\ SeenOf(Seen(published), e) = SeenOf(saved.published, e)
                     /\ SeenOf(Seen(draft), e)
                          = SeenOf([saved.draft EXCEPT ![e] = DraftOf(e)], e)
               /\ SeenCollections = saved.collections
    <3>1. /\ Archived /\ PublishedSaved
          /\ packageKey \notin TakenKeys \cup {archive.key}
          /\ \A e \in InArchive : DraftAsRestored(e)
      BY <1>1, <2>1 DEF RestoreIInv, Progress, ArchivedIInv
    <3>2. ASSUME NEW e \in InArchive
          PROVE  /\ SeenOf(Seen(published), e) = SeenOf(saved.published, e)
                 /\ SeenOf(Seen(draft), e)
                      = SeenOf([saved.draft EXCEPT ![e] = DraftOf(e)], e)
      <4>1. e \in Entities
        BY <3>1 DEF Archived, ArchivedEntities
      <4>2. saved.published[e] \in SavedOf(e) /\ DraftOf(e) \in SavedOf(e)
        BY DEF SavedOf, DraftOf
      <4>3. IsRestored(e, Seen(published)[e], saved.published[e])
            /\ IsRestored(e, Seen(draft)[e], DraftOf(e))
        BY <3>1 DEF PublishedSaved, PublishedAsSaved, DraftAsRestored
      <4>4. PICK saw, was, seen : /\ saw = [saved.draft EXCEPT ![e] = DraftOf(e)]
                                  /\ was = DraftOf(e) /\ seen = Seen(draft)
        OBVIOUS
      <4>5. SeenOf(Seen(published), e) = SeenOf(saved.published, e)
        BY <3>1, <4>1, <4>2, <4>3, SeenAsSaved
      <4>6. SeenOf(Seen(draft), e) = SeenOf([saved.draft EXCEPT ![e] = DraftOf(e)], e)
        <5>1. saw[e] = was
          BY <3>1, <4>1, <4>4 DEF Archived, ArchivedSeen
        <5>2. was \in SavedOf(e) /\ IsRestored(e, seen[e], was)
          BY <4>2, <4>3, <4>4
        <5>3. SeenOf(seen, e) = SeenOf(saw, e)
          BY <3>1, <4>1, <5>1, <5>2, SeenAsSaved
        <5>4. QED
          BY <4>4, <5>3
      <4>7. QED
        BY <4>5, <4>6
    <3>3. entities = InArchive /\ SeenCollections = saved.collections
      BY <3>1, CollectionsAsSaved DEF PublishedSaved
    <3>4. QED
      BY <3>1, <3>2, <3>3
  <2>2. ASSUME stage = "refused"
        PROVE  \/ ~ archive.package \/ InArchive # Entities
               \/ \E e \in Entities, seen \in {saved.draft, saved.published} :
                     seen[e] # << >> /\ DOMAIN seen[e][3] \cap TomlKeys # {}
               \/ ~ saved.allTitled
    <3>1. Archived /\ HasErrors /\ stage # "editing"
      BY <1>1, <2>2 DEF RestoreIInv, Progress, ArchivedIInv
    <3>2. QED
      BY <1>1, <3>1, RefusedFor
  <2>3. QED
    BY <2>1, <2>2 DEF PackageIsRestored
<1>2. QED
  BY <1>1, RestoreIInvHolds, PTL

\* No file of a restored component is lost, and none comes from its other version,
\* whatever its versions hold: components whose folder is looked up by the name it
\* was written with, and keys without a version folder, as the property says.
THEOREM ContentsOfPackagesAreRestored == BackupSpec => []ContentsAreRestored
<1>1. ASSUME RestoreIInv PROVE ContentsAreRestored
  <2>1. ASSUME stage = "restored", NEW c \in Components \cap InArchive, KeepsFolder(c)
        PROVE  /\ saved.published[c] # << >> /\ HasPlainKeys(saved.published[c]) =>
                     Seen(published)[c][3] = Kept(saved.published[c][3])
               /\ DraftOf(c) # << >> /\ HasPlainKeys(DraftOf(c)) =>
                     Seen(draft)[c][3] = Kept(DraftOf(c)[3])
    <3>1. PublishedAsSaved(c) /\ DraftAsRestored(c)
      BY <1>1, <2>1 DEF RestoreIInv, Progress, PublishedSaved
    <3>2. QED
      BY <2>1, <3>1 DEF PublishedAsSaved, DraftAsRestored, IsRestored, IsAsSaved
  <2>2. QED
    BY <2>1 DEF ContentsAreRestored
<1>2. QED
  BY <1>1, RestoreIInvHolds, PTL

-----------------------------------------------------------------------------
(***************************************************************************)
(* Unpublished changes.  The digests of the dumped package and those of    *)
(* the restored one are of other logs, but both tell whether the branches  *)
(* differ at or below a container; and that can be read off what was seen  *)
(* of them, the numbers and the children, which is what comes back.        *)
(***************************************************************************)
ChildrenSeen(seen, e) == IF seen[e] = << >> THEN {} ELSE ToSet(seen[e][2])

\* The least set that has the children of c and their own.
BelowSeen(seen, c) ==
    {e \in Entities : \A T \in SUBSET Entities :
        (\A x \in {c} \cup T : ChildrenSeen(seen, x) \subseteq T) => e \in T}

\* Two branches differ at or below c.
DiffersIn(one, other, c) ==
    \E e \in {c} \cup BelowSeen(one, c) : NumSeen(one[e]) # NumSeen(other[e])

NoPins == \A c \in Containers : \A v \in DOMAIN rows[c] : \A i \in DOMAIN rows[c][v] :
             rows[c][v][i].pin = Unpinned

\* The draft of c, if it has one, pins none of its children.
HasNoPins(c) ==
    draft.version[c] # None =>
        \A i \in DOMAIN rows[c][draft.version[c]] : rows[c][draft.version[c]][i].pin = Unpinned

\* Children that are not pinned are what a version depends on.
LEMMA ChildrenAreDependencies ==
    ASSUME TypeOK, RowsIInv, PackageIInv, NEW e \in Entities, draft.version[e] # None,
           e \in Containers => HasNoPins(e)
    PROVE  ChildrenSeen(Seen(draft), e) = dependencies[e][draft.version[e]]
<1>1. PICK v : v = draft.version[e]
  OBVIOUS
<1>2. v \in DOMAIN dependencies[e]
  BY <1>1, BranchVersions
<1>3. PICK seen : seen = Seen(draft)[e]
  OBVIOUS
<1>4. seen # << >> /\ seen[2] = ChildrenKeys(e, v)
  BY <1>1, <1>2, <1>3, BranchVersions, VersionIsSeen
<1>5. ChildrenSeen(Seen(draft), e) = ToSet(ChildrenKeys(e, v))
  BY <1>3, <1>4 DEF ChildrenSeen
<1>6. CASE e \in Containers
  <2>1. IsContainer(e)
    BY <1>6 DEF Containers
  <2>2. PICK list : list = rows[e][v]
    OBVIOUS
  <2>3. ChildrenKeys(e, v) = [i \in DOMAIN list |-> list[i].entity]
    BY <2>1, <2>2 DEF ChildrenKeys
  <2>4. ToSet(ChildrenKeys(e, v)) = {list[i].entity : i \in DOMAIN list}
    BY <2>3 DEF ToSet
  <2>5. \A i \in DOMAIN list : list[i].pin = Unpinned
    BY <1>1, <1>6, <2>2 DEF HasNoPins
  <2>6. UnpinnedEntities(list) = {list[i].entity : i \in DOMAIN list}
    BY <2>5 DEF UnpinnedEntities
  <2>7. dependencies[e][v] = UnpinnedEntities(list)
    BY <1>2, <1>6, <2>2, DependenciesAreChildren
  <2>8. QED
    BY <1>1, <1>5, <2>4, <2>6, <2>7
<1>7. CASE e \notin Containers
  <2>1. ~ IsContainer(e)
    BY <1>7 DEF Containers
  <2>2. ToSet(ChildrenKeys(e, v)) = {}
    BY <2>1 DEF ChildrenKeys, ToSet
  <2>3. Level[e] \in Nat /\ ~ Level[e] > 0
    BY <2>1, LevelAssumption DEF IsContainer
  <2>4. GoesDown(dependencies)
    BY TypeGoesDown
  <2>5. \A d \in dependencies[e][v] : d \in Entities /\ Level[d] < Level[e]
    BY <1>2, <2>4 DEF GoesDown
  <2>6. \A d \in dependencies[e][v] : FALSE
    BY <2>3, <2>5, LevelAssumption
  <2>7. dependencies[e][v] = {}
    BY <2>6
  <2>8. QED
    BY <1>1, <1>5, <2>2, <2>7
<1>8. QED
  BY <1>6, <1>7

\* So what is seen below an entity is what is below it.
LEMMA BelowIsSeen ==
    ASSUME TypeOK, RowsIInv, PackageIInv, \A c \in Containers : HasNoPins(c), NEW c \in Entities
    PROVE  BelowSeen(Seen(draft), c) = Descendants(dependencies, draft, {c})
<1>1. PICK seen : seen = Seen(draft)
  OBVIOUS
<1>2. ASSUME NEW e \in Entities
      PROVE  ChildrenSeen(seen, e)
               = IF draft.version[e] = None THEN {} ELSE dependencies[e][draft.version[e]]
  <2>1. CASE draft.version[e] = None
    <3>1. seen[e] = << >>
      BY <1>1, <2>1, BranchVersions DEF Version
    <3>2. QED
      BY <2>1, <3>1 DEF ChildrenSeen
  <2>2. CASE draft.version[e] # None
    BY <1>1, <2>2, ChildrenAreDependencies
  <2>3. QED
    BY <2>1, <2>2
<1>3. \A T \in SUBSET Entities :
          (\A x \in {c} \cup T : ChildrenSeen(seen, x) \subseteq T)
            <=> DependenciesOf(dependencies, draft, {c} \cup T) \subseteq T
  <2>. SUFFICES ASSUME NEW T \in SUBSET Entities
                PROVE  (\A x \in {c} \cup T : ChildrenSeen(seen, x) \subseteq T)
                         <=> DependenciesOf(dependencies, draft, {c} \cup T) \subseteq T
    OBVIOUS
  <2>1. {c} \cup T \subseteq Entities
    OBVIOUS
  <2>2. \A x \in {c} \cup T : ChildrenSeen(seen, x)
               = IF draft.version[x] = None THEN {} ELSE dependencies[x][draft.version[x]]
    BY <1>2, <2>1
  <2>3. QED
    BY <2>2 DEF DependenciesOf
<1>4. BelowSeen(seen, c) = Descendants(dependencies, draft, {c})
  BY <1>3 DEF BelowSeen, Descendants
<1>5. QED
  BY <1>1, <1>4

\* Versions are the same on both branches when their numbers are.
LEMMA SameNumberSameVersion ==
    ASSUME TypeOK, PackageIInv, NEW e \in Entities
    PROVE  NumSeen(Seen(draft)[e]) = NumSeen(Seen(published)[e])
             <=> draft.version[e] = published.version[e]
<1>1. PICK v, w : v = draft.version[e] /\ w = published.version[e]
  OBVIOUS
<1>2. Seen(draft)[e] = Version(e, v) /\ Seen(published)[e] = Version(e, w)
  BY <1>1, BranchVersions
<1>3. v \in {None} \cup DOMAIN dependencies[e] /\ w \in {None} \cup DOMAIN dependencies[e]
  BY <1>1, BranchVersions
<1>4. NumSeen(Version(e, None)) = None
  BY DEF Version, NumSeen
<1>5. \A u \in DOMAIN dependencies[e] :
          /\ u # None
          /\ NumSeen(Version(e, u)) = versionNums[e][u] /\ versionNums[e][u] \in Nat \ {0}
  BY VersionIsSeen DEF NumSeen
<1>6. NumSeen(Version(e, v)) = NumSeen(Version(e, w)) <=> v = w
  <2>1. CASE v = None \/ w = None
    BY <1>3, <1>4, <1>5, <2>1 DEF None
  <2>2. CASE v \in DOMAIN dependencies[e] /\ w \in DOMAIN dependencies[e]
    BY <1>5, <2>2, NumberTells
  <2>3. QED
    BY <1>3, <2>1, <2>2
<1>7. QED
  BY <1>1, <1>2, <1>6

\* contains_unpublished_changes says whether readers see the branches differ at or
\* below an entity, when nothing is pinned and nothing published is deleted.
LEMMA UnpublishedIsSeen ==
    ASSUME PublishingIInv, RowsIInv, PackageIInv, openLogs = << >>,
           \A c \in Containers : HasNoPins(c),
           \A e \in Entities : draft.version[e] = None => published.version[e] = None,
           NEW c \in Entities
    PROVE  ContainsUnpublishedChanges(c) <=> DiffersIn(Seen(draft), Seen(published), c)
<1>1. TypeOK /\ IInv /\ PublishedIInv /\ DigestsIInv
  BY DEF PublishingIInv
<1>2. ContainsUnpublishedChanges(c)
        <=> TreeOf(dependencies, draft, c) # TreeOf(dependencies, published, c)
  BY <1>1, DigestsTell
<1>3. PICK D : D = {c} \cup Descendants(dependencies, draft, {c})
  OBVIOUS
<1>4. D \subseteq Entities
  BY <1>3 DEF Descendants
<1>5. TreeOf(dependencies, draft, c) = TreeOf(dependencies, published, c)
        <=> \A d \in D : draft.version[d] = published.version[d]
  <2>1. ASSUME \A d \in D : draft.version[d] = published.version[d]
        PROVE  TreeOf(dependencies, draft, c) = TreeOf(dependencies, published, c)
    <3>1. dependencies \in [Entities -> Seq(SUBSET Entities)] /\ Points(dependencies, draft)
      BY <1>1, TypePoints
    <3>2. \A d \in {c} \cup Descendants(dependencies, draft, {c}) :
              draft.version[d] = published.version[d]
      BY <1>3, <2>1
    <3>3. QED
      BY <3>1, <3>2, AgreeBelow
  <2>2. ASSUME TreeOf(dependencies, draft, c) = TreeOf(dependencies, published, c),
               NEW d \in D
        PROVE  draft.version[d] = published.version[d]
    <3>1. CASE draft.version[d] = None
      BY <1>4, <3>1
    <3>2. CASE draft.version[d] # None
      <4>1. <<d, draft.version[d]>> \in TreeOf(dependencies, draft, c)
        BY <1>3, <3>2 DEF TreeOf
      <4>2. <<d, draft.version[d]>> \in TreeOf(dependencies, published, c)
        BY <2>2, <4>1
      <4>3. QED
        BY <4>2 DEF TreeOf
    <3>3. QED
      BY <3>1, <3>2
  <2>3. QED
    BY <2>1, <2>2
<1>6. D = {c} \cup BelowSeen(Seen(draft), c)
  BY <1>1, <1>3, BelowIsSeen
<1>7. \A d \in D : draft.version[d] = published.version[d]
                     <=> NumSeen(Seen(draft)[d]) = NumSeen(Seen(published)[d])
  BY <1>1, <1>4, SameNumberSameVersion
<1>8. DiffersIn(Seen(draft), Seen(published), c)
        <=> \E d \in D : draft.version[d] # published.version[d]
  BY <1>6, <1>7 DEF DiffersIn
<1>9. QED
  BY <1>2, <1>5, <1>8

\* A container with a version on both branches has something to compare.
LEMMA VersionHasRecord ==
    ASSUME NEW h, NEW version, NEW log, NEW last \in Nat, Consistent(h, version, log, last),
           version # None
    PROVE  log # NoLog
<1>1. h # << >> /\ h \in Seq(LogRecord)
  BY DEF Consistent
<1>2. PICK n \in Nat : n = Len(h)
  BY <1>1, LenProperties
<1>3. n # 0
  BY <1>1, <1>2, EmptySeq
<1>4. h[n].log \in 1 .. last
  BY <1>2, <1>3 DEF Consistent
<1>5. log = h[n].log
  BY <1>1, <1>2 DEF Consistent, LatestLog
<1>6. QED
  BY <1>4, <1>5 DEF NoLog

\* An entity that has a draft and a published version is on both branches.
LEMMA VersionsAreOnBothBranches ==
    ASSUME TypeOK, IInv, PublishedIInv, NEW e \in Entities,
           draft.version[e] # None, published.version[e] # None
    PROVE  IsOnBothBranches(e)
<1>1. lastDraftLog \in Nat /\ lastPublishLog \in Nat
  BY TypePoints
<1>2. /\ Consistent(draft.records[e], draft.version[e], draft.logRecord[e], lastDraftLog)
      /\ Consistent(published.records[e], published.version[e], published.logRecord[e],
                    lastPublishLog)
  BY DEF IInv, PublishedIInv, Sound
<1>3. draft.logRecord[e] # NoLog /\ published.logRecord[e] # NoLog
  BY <1>1, <1>2, VersionHasRecord
<1>4. QED
  BY <1>3 DEF IsOnBothBranches

\* The archive remembers which containers differed.
ArchivedUnpublished ==
    /\ ~ saved.hasPins
    /\ \A e \in Entities : saved.draft[e] = << >> => saved.published[e] = << >>
    => \A c \in {x \in Containers : saved.published[x] # << >>} :
          c \in saved.unpublished <=> DiffersIn(saved.draft, saved.published, c)

\* What contains_unpublished_changes said when the package was dumped.
LEMMA DumpArchivesUnpublished ==
    ASSUME PublishingIInv, RowsIInv, PackageIInv, openLogs = << >>, Dump
    PROVE  ArchivedUnpublished'
<1>1. TypeOK /\ IInv /\ PublishedIInv
  BY DEF PublishingIInv
<1>2. saved' = Snapshot
  BY DumpWrites
<1>3. /\ saved'.draft = Seen(draft) /\ saved'.published = Seen(published)
      /\ saved'.hasPins = HasPins
      /\ saved'.unpublished =
            {c \in Containers : IsOnBothBranches(c) /\ ContainsUnpublishedChanges(c)}
  BY <1>2 DEF Snapshot
<1>4. ASSUME NEW e \in Entities
      PROVE  /\ Seen(draft)[e] = << >> <=> draft.version[e] = None
             /\ Seen(published)[e] = << >> <=> published.version[e] = None
  <2>1. Version(e, None) = << >>
    BY DEF Version
  <2>2. \A v \in DOMAIN dependencies[e] : v # None /\ Version(e, v) # << >>
    BY <1>1, VersionIsSeen
  <2>3. /\ draft.version[e] \in {None} \cup DOMAIN dependencies[e]
        /\ published.version[e] \in {None} \cup DOMAIN dependencies[e]
        /\ Seen(draft)[e] = Version(e, draft.version[e])
        /\ Seen(published)[e] = Version(e, published.version[e])
    BY <1>1, BranchVersions
  <2>4. QED
    BY <2>1, <2>2, <2>3
<1>5. ASSUME ~ HasPins,
             \A e \in Entities : Seen(draft)[e] = << >> => Seen(published)[e] = << >>,
             NEW c \in Containers, Seen(published)[c] # << >>
      PROVE  IsOnBothBranches(c) /\ ContainsUnpublishedChanges(c)
               <=> DiffersIn(Seen(draft), Seen(published), c)
  <2>1. c \in Entities
    BY DEF Containers
  <2>2. \A e \in Entities : draft.version[e] = None => published.version[e] = None
    BY <1>4, <1>5
  <2>3. ASSUME NEW x \in Containers PROVE HasNoPins(x)
    <3>1. x \in Entities
      BY DEF Containers
    <3>2. draft.version[x] # None => draft.version[x] \in VersionsToWrite(x)
      BY <1>1, <3>1, BranchVersions
    <3>3. QED
      BY <1>5, <3>2 DEF HasPins, HasNoPins
  <2>4. ContainsUnpublishedChanges(c) <=> DiffersIn(Seen(draft), Seen(published), c)
    BY <2>1, <2>2, <2>3, UnpublishedIsSeen
  <2>5. IsOnBothBranches(c)
    BY <1>1, <1>4, <1>5, <2>1, <2>2, VersionsAreOnBothBranches
  <2>6. QED
    BY <2>4, <2>5
<1>6. ASSUME ~ saved'.hasPins,
             \A e \in Entities : saved'.draft[e] = << >> => saved'.published[e] = << >>,
             NEW c \in Containers, saved'.published[c] # << >>
      PROVE  c \in saved'.unpublished <=> DiffersIn(saved'.draft, saved'.published, c)
  BY <1>3, <1>5, <1>6
<1>7. QED
  BY <1>6 DEF ArchivedUnpublished, DiffersIn, BelowSeen, ChildrenSeen, NumSeen

\* Branches that are as they were saved differ where they did.
LEMMA DiffersAsSaved ==
    ASSUME NEW one, NEW other, NEW one2, NEW other2, NEW c \in Entities,
           \A e \in Entities : /\ NumSeen(one[e]) = NumSeen(one2[e])
                               /\ NumSeen(other[e]) = NumSeen(other2[e])
                               /\ ChildrenSeen(one, e) = ChildrenSeen(one2, e)
    PROVE  DiffersIn(one, other, c) <=> DiffersIn(one2, other2, c)
<1>1. \A T \in SUBSET Entities :
          (\A x \in {c} \cup T : ChildrenSeen(one, x) \subseteq T)
            <=> (\A x \in {c} \cup T : ChildrenSeen(one2, x) \subseteq T)
  OBVIOUS
<1>2. BelowSeen(one, c) = BelowSeen(one2, c)
  BY <1>1 DEF BelowSeen
<1>3. {c} \cup BelowSeen(one, c) \subseteq Entities
  BY DEF BelowSeen
<1>4. QED
  BY <1>2, <1>3 DEF DiffersIn

\* Nothing is missing of what is restored from an archive that lost nothing.
LEMMA SeenSameAsSaved ==
    ASSUME Archived, InArchive = Entities, NEW e \in Entities, NEW was \in SavedOf(e),
           NEW seen, NEW saw, saw[e] = was, IsRestored(e, seen[e], was)
    PROVE  /\ NumSeen(seen[e]) = NumSeen(saw[e])
           /\ ChildrenSeen(seen, e) = ChildrenSeen(saw, e)
           /\ seen[e] = << >> <=> saw[e] = << >>
<1>1. CASE was = << >>
  BY <1>1 DEF IsRestored, NumSeen, ChildrenSeen
<1>2. CASE was # << >>
  <2>1. seen[e] # << >> /\ seen[e][1] = was[1] /\ seen[e][2] = OnlyIn(was[2], InArchive)
    BY <1>2 DEF IsRestored, IsAsSaved
  <2>2. was[2] \in Seq(BelowLevel(e))
    BY <1>2 DEF Archived, ArchivedSeen
  <2>3. PICK children \in Seq(BelowLevel(e)) : children = was[2]
    BY <2>2
  <2>4. ToSet(OnlyIn(children, InArchive)) = ToSet(children) \cap InArchive
    BY OnlyInItems
  <2>5. ToSet(children) \subseteq Entities
    BY LenProperties DEF ToSet, BelowLevel
  <2>6. ToSet(seen[e][2]) = ToSet(was[2])
    BY <2>1, <2>3, <2>4, <2>5
  <2>7. QED
    BY <1>2, <2>1, <2>6 DEF NumSeen, ChildrenSeen
<1>3. QED
  BY <1>1, <1>2

-----------------------------------------------------------------------------
\* Each step of a dump and a restore is a call of Publishing, or starts anew.
LEMMA BackupStepIsACall ==
    ASSUME RestoreIInv, [BackupNext]_backupVars
    PROVE  [Next]_vars \/ Dump \/ RollBack
<1>1. CASE Edit
  BY <1>1, EditIsACall
<1>2. CASE SavePublishedVersion
  BY <1>2, PublishedVersionIsSaved DEF SavesVersion
<1>3. CASE SaveDraftVersion
  BY <1>3, DraftVersionIsSaved DEF SavesVersion
<1>4. CASE BeginRestore \/ BeginSecondBulk
  BY <1>4 DEF BeginRestore, BeginSecondBulk, Next
<1>5. CASE EndFirstBulk \/ EndRestore
  BY <1>5 DEF EndFirstBulk, EndRestore, Next
<1>6. CASE PublishRestored
  BY <1>6 DEF PublishRestored, Next
<1>7. CASE Refuse \/ FailToBegin \/ SaveEntity \/ UNCHANGED backupVars
  BY <1>7 DEF Refuse, FailToBegin, SaveEntity, backupVars, packageVars, containersVars
<1>8. QED
  BY <1>1, <1>2, <1>3, <1>4, <1>5, <1>6, <1>7 DEF BackupNext

\* What a step does to the lists of children: a new list for a container, below the
\* dependencies it gives, unpinned from the dump on; or none.
AddsList(c) ==
    \E num, list :
        /\ NewContainerVersion(c, num, list)
        /\ stage # "editing" => \A i \in DOMAIN list : list[i].pin = Unpinned

AddsNoList(e) == ~ IsContainer(e) /\ CreateVersion(e, {}) /\ UNCHANGED rows

\* A version that is restored adds a list that is not pinned, or none.
LEMMA RestoredListIsUnpinned ==
    ASSUME NEW e, NEW num, NEW ignore,
           IF IsContainer(e) THEN RestoreContainerVersion(e, num)
                             ELSE RestoreComponentVersion(e, num, ignore)
    PROVE  (IsContainer(e) /\ AddsList(e)) \/ AddsNoList(e)
<1>1. CASE IsContainer(e)
  <2>1. PICK list : list = ResolveChildren(e, num)
    OBVIOUS
  <2>2. NewContainerVersion(e, num, list)
    BY <1>1, <2>1 DEF RestoreContainerVersion, CreateNextContainerVersion, NextEntityList
  <2>3. \A i \in DOMAIN list : list[i].pin = Unpinned
    BY <2>1 DEF ResolveChildren
  <2>4. QED
    BY <1>1, <2>2, <2>3 DEF AddsList
<1>2. CASE ~ IsContainer(e)
  BY <1>2 DEF RestoreComponentVersion, AddsNoList
<1>3. QED
  BY <1>1, <1>2

\* Every step adds one list, adds a version without one, leaves the lists alone, or
\* drops them all.
LEMMA BackupStepOfLists ==
    ASSUME RestoreIInv, [BackupNext]_backupVars
    PROVE  \/ \E e \in Entities : (IsContainer(e) /\ AddsList(e)) \/ AddsNoList(e)
           \/ UNCHANGED <<dependencies, rows>>
           \/ Dump
           \/ RollBack
<1>1. CASE Edit
  <2>1. CASE \E c \in Components : CreateComponentVersion(c)
    <3>1. PICK c \in Components : CreateComponentVersion(c)
      BY <2>1
    <3>2. c \in Entities /\ AddsNoList(c)
      BY <3>1 DEF CreateComponentVersion, AddsNoList, Components
    <3>3. QED
      BY <3>2
  <2>2. CASE \E c \in Containers : CreateNextVersion(c)
    <3>1. PICK c \in Containers : CreateNextVersion(c)
      BY <2>2
    <3>2. \E num, list : NewContainerVersion(c, num, list)
      BY <3>1 DEF CreateNextVersion, RetitleContainer, CreateNextContainerVersion
    <3>3. AddsList(c)
      BY <1>1, <3>2 DEF AddsList, Edit
    <3>4. c \in Entities /\ IsContainer(c)
      BY DEF Containers
    <3>5. QED
      BY <3>3, <3>4
  <2>3. CASE OtherCalls
    BY <2>3 DEF OtherCalls, SetDraftVersion, ResetDraftsToPublished, PublishAllDrafts,
                PublishFromDrafts
  <2>4. CASE UNCHANGED containersVars
    BY <2>4 DEF containersVars, vars
  <2>5. QED
    BY <1>1, <2>1, <2>2, <2>3, <2>4 DEF Edit, UpdateLearningPackage
<1>2. CASE SavePublishedVersion
  <2>1. PICK e \in HavePublished : Head(toSave) = <<"version", e>>
    BY <1>2, PublishedVersionIsSaved
  <2>2. Head(toSave)[2] = e
    BY <2>1
  <2>3. (IsContainer(e) /\ AddsList(e)) \/ AddsNoList(e)
    BY <1>2, <2>2, RestoredListIsUnpinned DEF SavePublishedVersion
  <2>4. stage # "editing"
    BY <1>2 DEF SavePublishedVersion
  <2>5. e \in Entities
    BY <2>4 DEF RestoreIInv, ArchivedIInv, Archived, ArchivedEntities, HavePublished, InArchive
  <2>6. QED
    BY <2>3, <2>5
<1>3. CASE SaveDraftVersion
  <2>1. PICK e \in HaveDraft : Head(toSave) = <<"version", e>>
    BY <1>3, DraftVersionIsSaved
  <2>2. Head(toSave)[2] = e
    BY <2>1
  <2>3. (IsContainer(e) /\ AddsList(e)) \/ AddsNoList(e)
    BY <1>3, <2>2, RestoredListIsUnpinned DEF SaveDraftVersion
  <2>4. stage # "editing"
    BY <1>3 DEF SaveDraftVersion
  <2>5. e \in Entities
    BY <2>4 DEF RestoreIInv, ArchivedIInv, Archived, ArchivedEntities, HaveDraft, InArchive
  <2>6. QED
    BY <2>3, <2>5
<1>4. CASE BeginRestore \/ BeginSecondBulk
  BY <1>4 DEF BeginRestore, BeginSecondBulk, BeginBulk
<1>5. CASE EndFirstBulk \/ EndRestore
  BY <1>5 DEF EndFirstBulk, EndRestore, EndBulk
<1>6. CASE PublishRestored
  BY <1>6 DEF PublishRestored, PublishAllDrafts, PublishFromDrafts
<1>7. CASE Refuse \/ FailToBegin \/ SaveEntity \/ UNCHANGED backupVars
  BY <1>7 DEF Refuse, FailToBegin, SaveEntity, backupVars, packageVars, containersVars, vars
<1>8. QED
  BY <1>1, <1>2, <1>3, <1>4, <1>5, <1>6, <1>7 DEF BackupNext

-----------------------------------------------------------------------------
\* From the dump on no list pins a child and the archive knows which containers
\* differed; what the digests rest on holds throughout.
UnpublishedIInv ==
    /\ PublishingIInv
    /\ RowsIInv
    /\ stage \in {"editing", "restored"} => openLogs = << >>
    /\ stage # "editing" => NoPins /\ ArchivedUnpublished

\* A package without versions.
HasNoRows ==
    /\ rows = [c \in Containers |-> << >>]
    /\ dependencies = [e \in Entities |-> << >>]

\* A package without versions has no list that is pinned.
LEMMA NoRows == HasNoRows => RowsIInv /\ NoPins
<1>. SUFFICES ASSUME HasNoRows PROVE RowsIInv /\ NoPins
  OBVIOUS
<1>1. << >> \in Seq({}) /\ Len(<< >>) = 0
  OBVIOUS
<1>2. \A c \in Containers : rows[c] = << >> /\ dependencies[c] = << >>
  BY DEF HasNoRows, Containers
<1>3. RowsIInv
  BY <1>1, <1>2 DEF HasNoRows, RowsIInv
<1>4. NoPins
  BY <1>2 DEF NoPins
<1>5. QED
  BY <1>3, <1>4

\* The invariant holds of a package that is new.
LEMMA InitIsInUnpublishedIInv == BackupInit => UnpublishedIInv
<1>. SUFFICES ASSUME BackupInit PROVE UnpublishedIInv
  OBVIOUS
<1>1. /\ Init
      /\ rows = [c \in Containers |-> << >>]
      /\ dependencies = [e \in Entities |-> << >>]
      /\ openLogs = << >>
      /\ stage = "editing"
  BY DEF BackupInit, ContainersInit, Init
<1>2. PublishingIInv /\ RowsIInv
  BY <1>1, InitIsInPublishingIInv, NoRows DEF HasNoRows
<1>3. QED
  BY <1>1, <1>2 DEF UnpublishedIInv

\* An unpinned list after lists that are not pinned.
LEMMA NewListIsNotPinned ==
    ASSUME RowsIInv, NoPins, NEW c \in Containers, NEW num, NEW list,
           NewContainerVersion(c, num, list),
           \A i \in DOMAIN list : list[i].pin = Unpinned
    PROVE  NoPins'
<1>1. rows' = [rows EXCEPT ![c] = Append(@, list)]
  BY DEF NewContainerVersion
<1>2. rows'[c] = Append(rows[c], list)
  BY <1>1 DEF RowsIInv
<1>3. PICK S : rows[c] \in Seq(S)
  BY DEF RowsIInv
<1>4. PICK s \in Seq(S) : s = rows[c]
  BY <1>3
<1>5. PICK k \in Nat : k = Len(s)
  BY LenProperties
<1>6. /\ \E T : Append(s, list) \in Seq(T)
      /\ Len(Append(s, list)) = k + 1
      /\ Append(s, list)[k + 1] = list
      /\ \A i \in 1 .. k : Append(s, list)[i] = s[i]
  BY <1>5, AppendAnything, Zenon
<1>7. PICK longer : longer = Append(s, list)
  OBVIOUS
<1>8. DOMAIN longer = 1 .. k + 1 /\ DOMAIN s = 1 .. k
  BY <1>5, <1>6, <1>7, LenProperties
<1>9. ASSUME NEW v \in DOMAIN longer, NEW i \in DOMAIN longer[v]
      PROVE  longer[v][i].pin = Unpinned
  <2>1. CASE v = k + 1
    BY <1>6, <1>7, <2>1
  <2>2. CASE v # k + 1
    <3>1. v \in 1 .. k
      BY <1>8, <2>2
    <3>2. longer[v] = s[v] /\ v \in DOMAIN rows[c] /\ s[v] = rows[c][v]
      BY <1>4, <1>6, <1>7, <1>8, <3>1
    <3>3. QED
      BY <3>2 DEF NoPins
  <2>3. QED
    BY <2>1, <2>2
<1>10. \A x \in Containers : x # c => rows'[x] = rows[x]
  BY <1>1 DEF RowsIInv
<1>11. ASSUME NEW x \in Containers, NEW v \in DOMAIN rows'[x], NEW i \in DOMAIN rows'[x][v]
       PROVE  rows'[x][v][i].pin = Unpinned
  <2>1. CASE x = c
    BY <1>2, <1>4, <1>7, <1>9, <2>1
  <2>2. CASE x # c
    BY <1>10, <2>2 DEF NoPins
  <2>3. QED
    BY <2>1, <2>2
<1>12. QED
  BY <1>11 DEF NoPins

\* The lists of a package stay what its dependencies say, and from the dump on
\* none of them is pinned.
LEMMA ListsStep ==
    ASSUME RestoreIInv, UnpublishedIInv, [BackupNext]_backupVars
    PROVE  /\ RowsIInv'
           /\ stage' # "editing" => NoPins'
<1>1. TypeOK /\ RowsIInv /\ (stage # "editing" => NoPins)
  BY DEF RestoreIInv, UnpublishedIInv
<1>2. stage # "editing" \/ stage' = "editing" \/ Dump
  BY ArchiveStays
<1>3. CASE Dump \/ RollBack
  <2>1. HasNoRows'
    BY <1>3 DEF Dump, RollBack, NoPackage, HasNoRows
  <2>2. QED
    BY <2>1, NoRows, PTL
<1>4. CASE UNCHANGED <<dependencies, rows>> /\ ~ Dump
  BY <1>1, <1>2, <1>4 DEF RowsIInv, NoPins
<1>5. ASSUME NEW e \in Entities, IsContainer(e), AddsList(e), ~ Dump
      PROVE  RowsIInv' /\ (stage' # "editing" => NoPins')
  <2>1. e \in Containers
    BY <1>5 DEF Containers
  <2>2. PICK num, list : /\ NewContainerVersion(e, num, list)
                         /\ stage # "editing" => \A i \in DOMAIN list : list[i].pin = Unpinned
    BY <1>5 DEF AddsList
  <2>3. RowsIInv'
    BY <1>1, <2>1, <2>2, NewListKeepsRowsIInv
  <2>4. ASSUME stage' # "editing" PROVE NoPins'
    <3>1. NoPins /\ \A i \in DOMAIN list : list[i].pin = Unpinned
      BY <1>1, <1>2, <1>5, <2>2, <2>4
    <3>2. QED
      BY <1>1, <2>1, <2>2, <3>1, NewListIsNotPinned
  <2>5. QED
    BY <2>3, <2>4
<1>6. ASSUME NEW e \in Entities, AddsNoList(e), ~ Dump
      PROVE  RowsIInv' /\ (stage' # "editing" => NoPins')
  <2>1. ~ IsContainer(e) /\ rows' = rows
        /\ dependencies' = [dependencies EXCEPT ![e] = Append(@, {})]
    BY <1>6 DEF AddsNoList, CreateVersion
  <2>2. \A c \in Containers : dependencies'[c] = dependencies[c]
    BY <1>1, <2>1 DEF Containers, TypeOK
  <2>3. RowsIInv'
    BY <1>1, <2>1, <2>2 DEF RowsIInv, Containers, IsContainer
  <2>4. NoPins \/ stage' = "editing"
    BY <1>1, <1>2, <1>6
  <2>5. QED
    BY <2>1, <2>3, <2>4 DEF NoPins
<1>7. QED
  BY <1>3, <1>4, <1>5, <1>6, BackupStepOfLists

\* No bulk context is open in an edit, and none after a restore.
LEMMA BulkContextsStep ==
    ASSUME UnpublishedIInv, [BackupNext]_backupVars, stage' \in {"editing", "restored"}
    PROVE  openLogs' = << >>
<1>1. stage \in {"editing", "restored"} => openLogs = << >>
  BY DEF UnpublishedIInv
<1>2. CASE Edit
  <2>1. stage = "editing"
    BY <1>2 DEF Edit
  <2>2. CASE \E c \in Components : CreateComponentVersion(c)
    BY <1>1, <2>1, <2>2 DEF CreateComponentVersion, CreateVersion
  <2>3. CASE \E c \in Containers : CreateNextVersion(c)
    BY <1>1, <2>1, <2>3 DEF CreateNextVersion, RetitleContainer, CreateNextContainerVersion,
                            NewContainerVersion, CreateVersion
  <2>4. CASE OtherCalls
    BY <1>1, <2>1, <2>4 DEF OtherCalls, SetDraftVersion, ResetDraftsToPublished, ChangeDrafts,
                            PublishAllDrafts, PublishFromDrafts
  <2>5. CASE UNCHANGED containersVars
    BY <1>1, <2>1, <2>5 DEF containersVars, vars
  <2>6. QED
    BY <1>2, <2>2, <2>3, <2>4, <2>5 DEF Edit, UpdateLearningPackage
<1>3. CASE EndRestore
  <2>1. TypeOK /\ Len(openLogs) <= 1 /\ openLogs # << >>
    BY <1>3 DEF UnpublishedIInv, PublishingIInv, NotNested, EndRestore, EndBulk
  <2>2. openLogs' = SubSeq(openLogs, 1, Len(openLogs) - 1)
    BY <1>3 DEF EndRestore, EndBulk
  <2>3. openLogs \in Seq(Nat)
    BY <2>1 DEF TypeOK
  <2>4. Len(openLogs) = 1
    BY <2>1, <2>3
  <2>5. openLogs' = SubSeq(openLogs, 1, 0)
    BY <2>2, <2>4
  <2>6. QED
    BY <2>3, <2>5
<1>4. CASE Dump \/ RollBack
  BY <1>4 DEF Dump, RollBack
<1>5. CASE BeginRestore \/ BeginSecondBulk \/ PublishRestored
  BY <1>5 DEF BeginRestore, BeginSecondBulk, PublishRestored
<1>6. CASE Refuse \/ FailToBegin
  BY <1>6 DEF Refuse, FailToBegin
<1>7. CASE EndFirstBulk \/ SaveEntity \/ SavePublishedVersion \/ SaveDraftVersion
  BY <1>7 DEF EndFirstBulk, SaveEntity, SavePublishedVersion, SaveDraftVersion
<1>8. CASE UNCHANGED backupVars
  BY <1>1, <1>8 DEF backupVars, packageVars, containersVars, vars
<1>9. QED
  BY <1>2, <1>3, <1>4, <1>5, <1>6, <1>7, <1>8 DEF BackupNext

\* Every step keeps the invariant.
LEMMA UnpublishedIInvStep ==
    ASSUME MaxNesting <= 1, RestoreIInv, UnpublishedIInv, [BackupNext]_backupVars
    PROVE  UnpublishedIInv'
<1>1. PublishingIInv'
  <2>1. CASE [Next]_vars
    BY <2>1, PublishingIInvStep DEF UnpublishedIInv
  <2>2. CASE Dump \/ RollBack
    <3>1. Init'
      BY <2>2, NoPackageIsInOrder DEF Dump, RollBack
    <3>2. QED
      BY <3>1, InitIsInPublishingIInv, PTL
  <2>3. QED
    BY <2>1, <2>2, BackupStepIsACall
<1>2. RowsIInv' /\ (stage' # "editing" => NoPins')
  BY ListsStep
<1>3. stage' \in {"editing", "restored"} => openLogs' = << >>
  BY BulkContextsStep
<1>4. stage' # "editing" => ArchivedUnpublished'
  <2>1. CASE Dump
    <3>1. PublishingIInv /\ RowsIInv /\ PackageIInv /\ openLogs = << >>
      BY <2>1 DEF UnpublishedIInv, RestoreIInv, Dump
    <3>2. QED
      BY <2>1, <3>1, DumpArchivesUnpublished
  <2>2. CASE stage # "editing" /\ saved' = saved
    BY <2>2 DEF UnpublishedIInv, ArchivedUnpublished
  <2>3. QED
    BY <2>1, <2>2, ArchiveStays
<1>5. QED
  BY <1>1, <1>2, <1>3, <1>4 DEF UnpublishedIInv

\* A restored container has unpublished changes exactly if it had some when it was
\* dumped, whatever was edited, published, reset and restored before: the digests
\* of the new package tell the same as those of the old one, although none of them
\* is copied; the exceptions are the property's, pins and deleted drafts.
THEOREM UnpublishedChangesAreAlwaysRestored ==
    ASSUME MaxNesting <= 1
    PROVE  BackupSpec => []UnpublishedChangesAreRestored
<1>1. ASSUME RestoreIInv, UnpublishedIInv PROVE UnpublishedChangesAreRestored
  <2>. SUFFICES ASSUME stage = "restored", InArchive = Entities, ~ saved.hasPins,
                       \A e \in Entities : saved.draft[e] = << >> => saved.published[e] = << >>,
                       NEW c \in Containers, saved.published[c] # << >>
                PROVE  ContainsUnpublishedChanges(c) <=> c \in saved.unpublished
    BY DEF UnpublishedChangesAreRestored
  <2>1. /\ TypeOK /\ PackageIInv /\ Archived /\ PublishedSaved
        /\ \A e \in InArchive : DraftAsRestored(e)
    BY <1>1 DEF RestoreIInv, ArchivedIInv, Progress
  <2>2. PublishingIInv /\ RowsIInv /\ openLogs = << >> /\ NoPins /\ ArchivedUnpublished
    BY <1>1 DEF UnpublishedIInv
  <2>3. PICK drafts, publishes : drafts = Seen(draft) /\ publishes = Seen(published)
    OBVIOUS
  <2>4. PICK oldDrafts, oldPublishes :
            oldDrafts = saved.draft /\ oldPublishes = saved.published
    OBVIOUS
  <2>5. ASSUME NEW e \in Entities
        PROVE  /\ NumSeen(drafts[e]) = NumSeen(oldDrafts[e])
               /\ ChildrenSeen(drafts, e) = ChildrenSeen(oldDrafts, e)
               /\ drafts[e] = << >> <=> oldDrafts[e] = << >>
               /\ NumSeen(publishes[e]) = NumSeen(oldPublishes[e])
               /\ ChildrenSeen(publishes, e) = ChildrenSeen(oldPublishes, e)
               /\ publishes[e] = << >> <=> oldPublishes[e] = << >>
    <3>1. oldDrafts[e] \in SavedOf(e) /\ oldPublishes[e] \in SavedOf(e)
      BY <2>4 DEF SavedOf
    <3>2. DraftOf(e) = oldDrafts[e]
      BY <2>4 DEF DraftOf
    <3>3. /\ IsRestored(e, drafts[e], oldDrafts[e])
          /\ IsRestored(e, publishes[e], oldPublishes[e])
      BY <2>1, <2>3, <2>4, <3>2 DEF DraftAsRestored, PublishedSaved, PublishedAsSaved
    <3>4. /\ NumSeen(drafts[e]) = NumSeen(oldDrafts[e])
          /\ ChildrenSeen(drafts, e) = ChildrenSeen(oldDrafts, e)
          /\ drafts[e] = << >> <=> oldDrafts[e] = << >>
      BY <2>1, <3>1, <3>3, SeenSameAsSaved
    <3>5. /\ NumSeen(publishes[e]) = NumSeen(oldPublishes[e])
          /\ ChildrenSeen(publishes, e) = ChildrenSeen(oldPublishes, e)
          /\ publishes[e] = << >> <=> oldPublishes[e] = << >>
      BY <2>1, <3>1, <3>3, SeenSameAsSaved
    <3>6. QED
      BY <3>4, <3>5
  <2>6. ASSUME NEW e \in Entities, draft.version[e] = None PROVE published.version[e] = None
    <3>1. drafts[e] = << >>
      BY <2>3, <2>6 DEF Seen
    <3>2. publishes[e] = << >>
      BY <2>4, <2>5, <3>1
    <3>3. published.version[e] \in {None} \cup DOMAIN dependencies[e]
          /\ publishes[e] = Version(e, published.version[e])
      BY <2>1, <2>3, BranchVersions
    <3>4. \A v \in DOMAIN dependencies[e] : Version(e, v) # << >>
      BY <2>1, VersionIsSeen
    <3>5. QED
      BY <3>2, <3>3, <3>4
  <2>7. ASSUME NEW x \in Containers PROVE HasNoPins(x)
    <3>1. x \in Entities
      BY DEF Containers
    <3>2. draft.version[x] # None => draft.version[x] \in DOMAIN dependencies[x]
      BY <2>1, <3>1, BranchVersions
    <3>3. dependencies[x] \in Seq(SUBSET Entities)
      BY <2>1, <3>1 DEF TypeOK
    <3>4. DOMAIN rows[x] = DOMAIN dependencies[x]
      BY <2>2, <3>3, LenProperties DEF RowsIInv
    <3>5. QED
      BY <2>2, <3>2, <3>4 DEF HasNoPins, NoPins
  <2>8. c \in Entities
    BY DEF Containers
  <2>9. ContainsUnpublishedChanges(c) <=> DiffersIn(drafts, publishes, c)
    BY <2>1, <2>2, <2>3, <2>6, <2>7, <2>8, UnpublishedIsSeen
  <2>10. DiffersIn(drafts, publishes, c) <=> DiffersIn(oldDrafts, oldPublishes, c)
    BY <2>5, <2>8, DiffersAsSaved
  <2>11. c \in saved.unpublished <=> DiffersIn(oldDrafts, oldPublishes, c)
    BY <2>2, <2>4 DEF ArchivedUnpublished
  <2>12. QED
    BY <2>9, <2>10, <2>11
<1>2. RestoreIInv /\ UnpublishedIInv /\ [BackupNext]_backupVars => UnpublishedIInv'
  BY UnpublishedIInvStep
<1>3. QED
  BY <1>1, <1>2, InitIsInUnpublishedIInv, RestoreIInvHolds, PTL DEF BackupSpec

=============================================================================
