----------------------------- MODULE Containers -----------------------------
(***************************************************************************)
(* Units, Subsections and Sections: PublishableEntities whose versions     *)
(* have an EntityList of children, pinned to a version or not.  The        *)
(* container functions of publishing/api.py and the units, subsections and *)
(* sections apps on top of them, which differ in the type of their         *)
(* children only.                                                          *)
(*                                                                         *)
(* The module extends Publishing: a container version is an entity version *)
(* whose dependencies are its unpinned children, and every other call is   *)
(* one of Publishing's.                                                    *)
(***************************************************************************)
EXTENDS Publishing

CONSTANTS
    EntityLists,        \* bound: the lists of ContainerEntityRows callers pass
    MaxVersionNum,      \* bound: force_version_num
    MaxChildren         \* bound: rows of an EntityList

ASSUME ContainersBoundsAssumption == {MaxVersionNum, MaxChildren} \subseteq Nat

VARIABLES
    rows,           \* EntityList: for each container, the rows of versions 1, 2, ...
    versionNums     \* the version_num of each version; `dependencies` and `rows` list
                    \* versions in the order they were created

containersVars == <<vars, rows, versionNums>>

Unpinned == << >>       \* entity_version is null

\* EntityListRow: a child, pinned to a version <<entity, version>> or not.
Row == [entity : Entities, pin : {Unpinned} \cup (Entities \X Nat)]

ASSUME EntityListsAssumption == EntityLists \subseteq Seq(Row)

\* Components are at level 0, units at 1, subsections at 2, sections at 3.
ASSUME LevelsAssumption == \A e \in Entities : Level[e] \in 0 .. 3

\* The items of a list that are in `kept`, in their order.
OnlyIn(list, kept) ==
    LET upTo[n \in 0 .. Len(list)] ==
            IF n = 0 THEN << >>
            ELSE IF list[n] \in kept THEN Append(upTo[n - 1], list[n])
            ELSE upTo[n - 1]
    IN  upTo[Len(list)]

IsContainer(e) == Level[e] > 0
Containers == {e \in Entities : IsContainer(e)}

ContainersInit ==
    /\ Init
    /\ rows = [c \in Containers |-> << >>]
    /\ versionNums = [e \in Entities |-> << >>]

(***************************************************************************)
(* Version numbers                                                         *)
(***************************************************************************)
VersionNumsOf(e) == ToSet(versionNums[e])

\* Mutant: the version created last.
Latest_ByCreation(e) == Len(versionNums[e])

\* VersioningHelper.latest: the version with the highest number, None without
\* versions.
Latest(e) ==
    IF versionNums[e] = << >> THEN None
    ELSE CHOOSE v \in DOMAIN versionNums[e] :
            \A w \in DOMAIN versionNums[e] : versionNums[e][w] <= versionNums[e][v]

NextVersionNum(e) == IF Latest(e) = None THEN 1 ELSE versionNums[e][Latest(e)] + 1

(***************************************************************************)
(* Entity lists                                                            *)
(***************************************************************************)
\* Mutant: pinned versions may be of any entity.
IsValidList_AnyPin(list) == TRUE

\* The checks of create_entity_list_with_rows and of the foreign keys below it.
\* pinned_entities is a dict: of rows pinned to one version the last counts.
IsValidList(list) ==
    \A i \in DOMAIN list :
        list[i].pin # Unpinned =>
            /\ list[i].pin[2] \in DOMAIN dependencies[list[i].pin[1]]
            /\ (\A j \in i + 1 .. Len(list) : list[j].pin # list[i].pin)
                  => list[i].pin[1] = list[i].entity

\* Mutant: EntityList.rows was cached before the rows were created.
UnpinnedEntities_CachedEarly(list) == {}

\* The dependencies _create_container_version declares.
UnpinnedEntities(list) ==
    {list[i].entity : i \in {j \in DOMAIN list : list[j].pin = Unpinned}}

\* Mutant: only rows with the same pin are taken away.
WithoutEntities_SamePin(list, given) ==
    OnlyIn(list, ToSet(list) \ ToSet(given))

\* REMOVE: every row of the given entities, pinned or not.
WithoutEntities(list, given) ==
    OnlyIn(list, {row \in ToSet(list) : \A i \in DOMAIN given : given[i].entity # row.entity})

\* create_next_entity_list, for the rows of the last version.
NextEntityList(last, given, action) ==
    CASE action = "append"  -> last \o given
      [] action = "remove"  -> WithoutEntities(last, given)
      [] action = "replace" -> given

(***************************************************************************)
(* Actions                                                                 *)
(***************************************************************************)
\* create_publishable_entity_version with the unique (entity, version_num): the
\* versions of components.
CreateComponentVersion(e) ==
    /\ ~ IsContainer(e)
    /\ CreateVersion(e, {})
    /\ versionNums' = [versionNums EXCEPT ![e] = Append(@, NextVersionNum(e))]
    /\ UNCHANGED rows

\* _create_container_version.  A number that is taken raises an IntegrityError and
\* the transaction leaves nothing.
NewContainerVersion(c, num, list) ==
    /\ num \notin VersionNumsOf(c)
    /\ Len(list) <= MaxChildren
    /\ \A i \in DOMAIN list : list[i].entity \in {d \in Entities : Level[d] < Level[c]}
    /\ IsValidList(list)
    /\ CreateVersion(c, UnpinnedEntities(list))
    /\ rows' = [rows EXCEPT ![c] = Append(@, list)]
    /\ versionNums' = [versionNums EXCEPT ![c] = Append(@, num)]

\* create_container_version, create_unit_version and its like: an explicit number.
CreateContainerVersion(c, num, list) == NewContainerVersion(c, num, list)

\* create_next_container_version with entity_rows.  Without a last version
\* APPEND and REMOVE raise.
CreateNextContainerVersion(c, num, given, action) ==
    /\ Latest(c) # None \/ action = "replace"
    /\ NewContainerVersion(c, num,
            IF Latest(c) = None THEN given
            ELSE NextEntityList(rows[c][Latest(c)], given, action))

\* create_next_container_version with entity_rows = None: the title changes and
\* the EntityList of the last version is kept.
RetitleContainer(c, num) ==
    /\ Latest(c) # None
    /\ NewContainerVersion(c, num, rows[c][Latest(c)])

\* The numbers a caller gets: the next one, or force_version_num.
NumsFor(c) == {NextVersionNum(c)} \cup (1 .. MaxVersionNum)

ListsOfLevel(n) == {list \in EntityLists : \A i \in DOMAIN list : Level[list[i].entity] = n}

\* _pub_entities_for_components, _pub_entities_for_units, _pub_entities_for_subsections:
\* anything but a child of the right type or a version of one is a TypeError.
ComponentLists  == ListsOfLevel(0)
UnitLists       == ListsOfLevel(1)
SubsectionLists == ListsOfLevel(2)

ListsFor(c) ==
    CASE Level[c] = 1 -> ComponentLists
      [] Level[c] = 2 -> UnitLists
      [] Level[c] = 3 -> SubsectionLists

\* create_next_unit_version, create_next_subsection_version, create_next_section_version
CreateNextVersion(c) ==
    \E num \in NumsFor(c) :
        \/ RetitleContainer(c, num)
        \/ \E given \in ListsFor(c), action \in {"append", "remove", "replace"} :
              CreateNextContainerVersion(c, num, given, action)

\* The other calls on drafts, each on its own (Publishing has the bulk contexts).
OtherCalls ==
    /\ \/ \E e \in Entities, v \in 0 .. MaxVersions : SetDraftVersion(e, v)
       \/ ResetDraftsToPublished
       \/ PublishAllDrafts
       \/ \E S \in SUBSET Entities, withDependencies \in BOOLEAN :
            PublishFromDrafts(S, withDependencies, FALSE)
    /\ UNCHANGED <<rows, versionNums>>

ContainersNext ==
    \/ \E e \in Entities : CreateComponentVersion(e)
    \/ \E c \in Containers :
         \/ CreateNextVersion(c)
         \/ \E list \in ListsFor(c), num \in 1 .. MaxVersionNum :
                CreateContainerVersion(c, num, list)
    \/ OtherCalls

ContainersSpec == ContainersInit /\ [][ContainersNext]_containersVars

-----------------------------------------------------------------------------
(***************************************************************************)
(* What readers get                                                        *)
(***************************************************************************)
\* ContainerEntityListEntry
Entry(entity, version, pinned) == [entity |-> entity, version |-> version, pinned |-> pinned]

\* A row as an entry, when unpinned children are at version[child].
EntryOf(row, version) ==
    IF row.pin = Unpinned THEN Entry(row.entity, version[row.entity], FALSE)
                          ELSE Entry(row.pin[1], row.pin[2], TRUE)

\* The entries of a list, children that are deleted left out.
Entries(list, version) ==
    LET entries == [i \in DOMAIN list |-> EntryOf(list[i], version)]
    IN  OnlyIn(entries, {entry \in ToSet(entries) : entry.version # None})

\* The entities with a Draft row, from their first version on, and those with a
\* Published row, from the first publish that they are part of.
DraftRows == {e \in Entities : HasDraft(e)}
PublishedRows == {e \in Entities : published.logRecord[e] # NoLog}

\* A reader gets a RelatedObjectDoesNotExist instead of a list.
Raises == <<Entry("raises", None, FALSE)>>

\* The loop of get_entities_in_container over the rows of a list: entity.draft and
\* entity.published raise for an unpinned child without such a row.
Read(list, version, there) ==
    IF \A i \in DOMAIN list : list[i].pin = Unpinned => list[i].entity \in there
      THEN Entries(list, version)
      ELSE Raises

\* get_entities_in_container, get_components_in_unit and its like, for a container
\* with a version on the branch.
DraftContents(c) == Read(rows[c][draft.version[c]], draft.version, DraftRows)
PublishedContents(c) == Read(rows[c][published.version[c]], published.version, PublishedRows)

\* Mutant: unpinned children are read at their current published version.
VersionsAsOf_Current(log) == published.version

\* What get_published_version_as_of finds for each unpinned child.
VersionsAsOf(log) == [e \in Entities |-> VersionAsOf(published.records[e], log)]

NotPublished == <<Entry("not published", None, FALSE)>>

\* get_components_in_published_unit_as_of and its like.
ContentsAsOf(c, log) ==
    LET v == VersionAsOf(published.records[c], log)
    IN  IF v = None THEN NotPublished ELSE Entries(rows[c][v], VersionsAsOf(log))

\* get_containers_with_entity
ContainersWithEntity(br, e, ignorePinned) ==
    {c \in Containers :
        /\ br.version[c] # None
        /\ \E i \in DOMAIN rows[c][br.version[c]] :
              LET row == rows[c][br.version[c]][i]
              IN  row.entity = e /\ (ignorePinned => row.pin = Unpinned)}

-----------------------------------------------------------------------------
(***************************************************************************)
(* Properties                                                              *)
(***************************************************************************)
\* Every version has its list, its dependencies and its number; pins are to
\* versions of the row's own entity.
ContainersTypeOK ==
    /\ TypeOK
    /\ rows \in [Containers -> Seq(Seq(Row))]
    /\ versionNums \in [Entities -> Seq(Nat \ {0})]
    /\ \A e \in Entities : Len(versionNums[e]) = Len(dependencies[e])
    /\ \A c \in Containers : Len(rows[c]) = Len(dependencies[c])
    /\ \A c \in Containers : \A v \in DOMAIN rows[c] : \A i \in DOMAIN rows[c][v] :
          LET row == rows[c][v][i]
          IN  row.pin # Unpinned =>
                 row.pin[1] = row.entity /\ row.pin[2] \in DOMAIN dependencies[row.entity]

\* create_next_* without a forced number never collides with an existing version,
\* whatever numbers were forced before: latest is by number, not by creation.
NextVersionNumIsFree ==
    \A e \in Entities : NextVersionNum(e) \notin VersionNumsOf(e)

\* Readers of the draft and of the published container d get the same children at
\* the same versions, unless one of them raises, and the published one raises for
\* children only that are deleted, or have no version, on the draft.
SameForReaders(d) ==
    /\ DraftContents(d) # Raises /\ PublishedContents(d) # Raises
          => DraftContents(d) = PublishedContents(d)
    /\ \A e \in UnpinnedEntities(rows[d][published.version[d]]) \ PublishedRows :
          draft.version[e] = None

\* When contains_unpublished_changes says no, readers of the draft and of the
\* published container get the same, pinned children or not, and so do readers of
\* the containers below: nothing but a child that was never published can come
\* between them.
NoUnpublishedChangesMeansSameContents ==
    openLogs = << >> =>
        \A c \in {x \in Containers : IsOnBothBranches(x)} :
            ~ ContainsUnpublishedChanges(c) /\ draft.version[c] # None =>
                /\ SameForReaders(c)
                /\ \A d \in Descendants(dependencies, draft, {c}) \cap Containers :
                      draft.version[d] # None => SameForReaders(d)

\* Children that are soft-deleted are left out of what readers of a published
\* container get and keep nobody from reading the others: "As long as this
\* hasn't been soft-deleted" is the loop's only condition on a row.
DeletedChildrenAreLeftOut ==
    \A c \in {x \in Containers : published.version[x] # None} :
        (\A e \in UnpinnedEntities(rows[c][published.version[c]]) \ PublishedRows :
            HasDraft(e) /\ draft.version[e] = None)
          => PublishedContents(c) # Raises

\* A change of an entity is told to every container that get_containers_with_entity
\* finds for it, pinned references left aside: the rows of the containers and
\* the dependencies the log's side effects follow agree.
UsersAreTold ==
    /\ openLogs = << >> /\ lastDraftLog > 0 =>
          \A e \in ChangedIn(draft, lastDraftLog) :
              ContainersWithEntity(draft, e, TRUE) \subseteq ChangedIn(draft, lastDraftLog)
    /\ lastPublishLog > 0 =>
          \A e \in ChangedIn(published, lastPublishLog) :
              ContainersWithEntity(published, e, TRUE) \subseteq ChangedIn(published, lastPublishLog)

\* A published container read as of a PublishLog gives what it gave right after
\* that publish, if it could be read then, at every later time: edits, deletions,
\* new lists, forced numbers and later publishes do not reach into the past.
PastContentsStay ==
    [][/\ \A log \in 1 .. lastPublishLog :
            \A c \in Containers : ContentsAsOf(c, log)' = ContentsAsOf(c, log)
       /\ lastPublishLog' # lastPublishLog =>
            \A c \in Containers :
                (IF published.version[c] = None
                   THEN ContentsAsOf(c, lastPublishLog) = NotPublished
                   ELSE PublishedContents(c) # Raises =>
                          ContentsAsOf(c, lastPublishLog) = PublishedContents(c))']_containersVars

\* What a reader of the draft gets for a list.
ReadOnDraft(list) == Read(list, draft.version, DraftRows)

\* Appending adds to, and removing takes every reference to the entities from, what
\* the draft shows of the container's latest version, which need not be the one
\* its draft is at, whichever of the children are deleted, pinned or listed twice.
AppendAndRemoveKeepTheRest ==
    [][\A c \in Containers, given \in EntityLists, num \in 1 .. MaxVersionNum :
        LET last == rows[c][Latest(c)]
        IN  Latest(c) # None /\ ReadOnDraft(last) # Raises =>
              /\ CreateNextContainerVersion(c, num, given, "append")
                 /\ ReadOnDraft(given) # Raises
                    => DraftContents(c)' = ReadOnDraft(last) \o ReadOnDraft(given)
              /\ CreateNextContainerVersion(c, num, given, "remove")
                    => DraftContents(c)' = OnlyIn(ReadOnDraft(last),
                          {entry \in ToSet(ReadOnDraft(last)) :
                              \A i \in DOMAIN given : given[i].entity # entry.entity})
      ]_containersVars

\* Containers add nothing to what Publishing lets happen to versions, branches and
\* logs: every container call is, below, one of its calls.
ImplementsPublishing == Spec

=============================================================================
