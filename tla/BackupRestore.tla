--------------------------- MODULE BackupRestore ---------------------------
(***************************************************************************)
(* Dumping a learning package to a zip archive and restoring it as a new   *)
(* package: backup_restore/zipper.py with toml.py and serializers.py.      *)
(*                                                                         *)
(* The variables of Containers and Collections first hold the package that *)
(* is edited and dumped; from the dump on they hold the new package, which *)
(* starts empty and is filled by the same calls.  Everything from loading  *)
(* on is one transaction: it ends "restored" or leaves nothing.            *)
(***************************************************************************)
EXTENDS Containers, Collections

CONSTANTS
    EntityOrder,    \* the entities in the order of their keys
    NameOf,         \* the local_key of a component, the key of a container
    ComponentType,  \* namespace and name of the type of each component
    Slug,           \* slugify, for each name
    BlockXml,       \* the key "block.xml"
    KeyAfter,       \* KeyAfter[<<k, n>>]: what is left of key k after the last "v<n>/"
    TomlKeys,       \* keys that end with ".toml"
    NoData,         \* the empty text
    Uploads,        \* bound: the contents of the versions that callers create
    Losses,         \* bound: the entity files that get lost from an archive
    PackageKeys,    \* keys of learning packages
    TakenKeys,      \* the keys of the other packages on the site
    StagedKey,      \* the key that is generated for a restored package
    OrgAndSlug,     \* the keys that have an organization and a slug in them
    MaxEdits        \* bound: calls before the dump

Components == Entities \ Containers

ASSUME BackupAssumption ==
    /\ EntityOrder \in Seq(Entities)
    /\ ToSet(EntityOrder) = Entities /\ IsInjective(EntityOrder)
    /\ Components \subseteq DOMAIN ComponentType
    /\ \A e \in Entities : NameOf[e] \in DOMAIN Slug
    /\ Losses \subseteq SUBSET Entities
    /\ TakenKeys \cup OrgAndSlug \subseteq PackageKeys
    /\ StagedKey \in PackageKeys \ TakenKeys
    /\ MaxEdits \in Nat

VARIABLES
    packageKey,     \* LearningPackage.key
    entities,       \* the entities that have been created
    contents,   \* ComponentVersion: for each component, whether versions 1, 2, ... have a
                \* title and the Content at each of their keys
    archive,    \* the zip file
    saved,      \* what readers of the dumped package saw
    stage,      \* where create_zip and load have got to
    toSave,     \* the entities and versions that are still to be saved
    edits

packageVars == <<containersVars, collectionsVars, packageKey, entities, contents>>
backupVars == <<packageVars, archive, saved, stage, toSave, edits>>

NoKey == << >>

\* A Content, by what it holds: text, or a file in the storage.
Text(data) == <<"text", data>>
File(data) == <<"file", data>>

(***************************************************************************)
(* The dump                                                                *)
(***************************************************************************)
EntitiesBefore(e) ==
    {EntityOrder[i] : i \in {j \in DOMAIN EntityOrder :
        \E k \in j + 1 .. Len(EntityOrder) : EntityOrder[k] = e}}

\* slugify_hashed_filename: the slug and a hash that tells the names apart.
SlugifyHashed(name) == <<Slug[name], name>>

\* No name of the package is what slugify_hashed_filename makes of a name, its slug
\* with 3 bytes of blake2b at the end.
ASSUME HashAssumption == \A name, other \in DOMAIN Slug : SlugifyHashed(name) # other

\* get_entity_toml_filename, for the entities in the order of their keys.
FileName(e) ==
    IF \E d \in EntitiesBefore(e) : Slug[NameOf[d]] = Slug[NameOf[e]]
      THEN SlugifyHashed(NameOf[e])
      ELSE Slug[NameOf[e]]

NumOf(e, v) == IF v = None THEN None ELSE versionNums[e][v]

\* get_versions_to_write: the draft and the published version.
VersionsToWrite(e) == {draft.version[e], published.version[e]} \ {None}

\* get_container_children_entities_keys: pinned or not, deleted or not.
ChildrenKeys(e, v) ==
    IF IsContainer(e) THEN [i \in DOMAIN rows[e][v] |-> rows[e][v][i].entity] ELSE << >>

\* toml_publishable_entity_version
VersionToml(e, v) ==
    [ children |-> ChildrenKeys(e, v),
      titled   |-> IsContainer(e) \/ contents[e][v].titled ]

\* toml_publishable_entity
EntityToml(e) ==
    [ draft     |-> NumOf(e, draft.version[e]),
      published |-> NumOf(e, published.version[e]),
      version   |-> [num \in {NumOf(e, v) : v \in VersionsToWrite(e)} |->
          VersionToml(e, CHOOSE v \in VersionsToWrite(e) : NumOf(e, v) = num)] ]

\* Has a content something to write?
IsWritten(content) == content # Text(NoData)

\* component_root_folder / entity_filename
Folder(e) == <<ComponentType[e], FileName(e)>>

StaticFiles(e) ==
    UNION {
        {[folder |-> Folder(e), num |-> NumOf(e, v), key |-> k,
          data |-> contents[e][v].files[k][2]] :
            k \in {key \in DOMAIN contents[e][v].files : IsWritten(contents[e][v].files[key])}}
        : v \in VersionsToWrite(e)}

\* create_zip
CreateZip ==
    [ package     |-> TRUE,
      key         |-> packageKey,
      entities    |-> [e \in Entities |-> EntityToml(e)],
      files       |-> UNION {StaticFiles(c) : c \in Components},
      collections |-> [k \in EnabledCollections |-> collections[k].entities] ]

\* An archive that lost package.toml.
WithoutPackage(zip) == [zip EXCEPT !.package = FALSE]

\* An archive that lost the files of some entities.
Without(zip, lost) ==
    [zip EXCEPT !.entities = [e \in Entities \ lost |-> zip.entities[e]]]

(***************************************************************************)
(* Validation                                                              *)
(***************************************************************************)
\* check_mandatory_files
LacksPackage == ~ archive.package

\* _validate_versions: EntityVersionSerializer wants a title that is not blank.
HasUntitledVersion ==
    \E e \in DOMAIN archive.entities : \E num \in DOMAIN archive.entities[e].version :
        ~ archive.entities[e].version[num].titled

\* _extract_entities: whatever ends with ".toml" below entities/ is read as the file
\* of an entity, a static file of a component too, which has no key in it.
HasTomlFile == \E file \in archive.files : file.key \in TomlKeys

\* _extract_collections: every entity of a collection has its file.
HasUnknownEntity ==
    \E k \in DOMAIN archive.collections :
        ~ archive.collections[k] \subseteq DOMAIN archive.entities

HasErrors == LacksPackage \/ HasUntitledVersion \/ HasTomlFile \/ HasUnknownEntity

\* The entities of one type, in archive order.
OfLevel(n) == OnlyIn(EntityOrder, {e \in DOMAIN archive.entities : Level[e] = n})

\* Something to save: an entity, or the version of one.
EntityItems(order) == [i \in DOMAIN order |-> <<"entity", order[i]>>]
VersionItems(order) == [i \in DOMAIN order |-> <<"version", order[i]>>]

\* The entities with a published version.
HavePublished == {e \in DOMAIN archive.entities : archive.entities[e].published # None}

\* _save_components and its like: the entities, then their published versions.
LevelToSave(n) == EntityItems(OfLevel(n)) \o VersionItems(OnlyIn(OfLevel(n), HavePublished))

\* _save, up to the publish
PublishedToSave == LevelToSave(0) \o LevelToSave(1) \o LevelToSave(2) \o LevelToSave(3)

\* Mutant: versions up to the published one are taken to exist.
IsVersionAlreadyExists_Older(e, num) == num <= archive.entities[e].published

\* _is_version_already_exists
IsVersionAlreadyExists(e, num) == num = archive.entities[e].published

\* The entities with a draft of its own.
HaveDraft ==
    {e \in DOMAIN archive.entities :
        /\ archive.entities[e].draft # None
        /\ ~ IsVersionAlreadyExists(e, archive.entities[e].draft)}

\* _save_draft_versions
DraftsToSave ==
    VersionItems(OnlyIn(OfLevel(0) \o OfLevel(1) \o OfLevel(2) \o OfLevel(3), HaveDraft))

(***************************************************************************)
(* Saving one version                                                      *)
(***************************************************************************)
\* _resolve_children: keys of created entities of the right type, unpinned.
ResolveChildren(e, num) ==
    LET known == OnlyIn(archive.entities[e].version[num].children,
                    {d \in entities : Level[d] = Level[e] - 1})
    IN  [i \in DOMAIN known |-> [entity |-> known[i], pin |-> Unpinned]]

\* The key of a component: the namespace and name of its type, and its local_key.
EntityKey(e) == <<ComponentType[e], NameOf[e]>>

\* PublishableEntity.key
KeyOf(e) == IF IsContainer(e) THEN NameOf[e] ELSE EntityKey(e)

\* The folder is looked up by the key.
FilesFound(e, num) == {file \in archive.files : file.folder = EntityKey(e) /\ file.num = num}

\* _resolve_static_files: block.xml becomes a text, everything else a file.  Of
\* files that end up at one key the last in the archive counts.
ResolvedFiles(e, num) ==
    LET keys == {KeyAfter[<<file.key, num>>] : file \in FilesFound(e, num)}
    IN  {given \in [keys -> {Text(f.data) : f \in archive.files}
                             \cup {File(f.data) : f \in archive.files}] :
            \A k \in keys : \E file \in FilesFound(e, num) :
                /\ KeyAfter[<<file.key, num>>] = k
                /\ given[k] = IF k = BlockXml THEN Text(file.data) ELSE File(file.data)}

\* The contents create_next_component_version gives a version.
NewContents(e, given, ignorePreviousContent) ==
    IF ignorePreviousContent \/ Latest(e) = None THEN given
    ELSE given @@ contents[e][Latest(e)].files

\* create_next_component_version with force_version_num
RestoreComponentVersion(e, num, ignorePreviousContent) ==
    /\ num \notin VersionNumsOf(e)
    /\ CreateVersion(e, {})
    /\ versionNums' = [versionNums EXCEPT ![e] = Append(@, num)]
    /\ \E given \in ResolvedFiles(e, num) :
          contents' = [contents EXCEPT ![e] =
              Append(@, [titled |-> archive.entities[e].version[num].titled,
                         files  |-> NewContents(e, given, ignorePreviousContent)])]
    /\ UNCHANGED <<packageKey, entities, rows>>

\* create_next_unit_version and its like with force_version_num
RestoreContainerVersion(e, num) ==
    /\ CreateNextContainerVersion(e, num, ResolveChildren(e, num), "replace")
    /\ UNCHANGED <<packageKey, entities, contents>>

(***************************************************************************)
(* Actions                                                                 *)
(***************************************************************************)
EmptyContents == [c \in Components |-> << >>]

BackupInit ==
    /\ ContainersInit
    /\ CollectionsInit
    /\ packageKey \in PackageKeys \ TakenKeys
    /\ entities = Entities
    /\ contents = EmptyContents
    /\ archive = << >> /\ saved = << >>
    /\ stage = "editing" /\ toSave = << >>
    /\ edits = 0

\* update_learning_package with a key, which has to be unique.
UpdateLearningPackage(key) ==
    /\ key \notin TakenKeys
    /\ packageKey' = key
    /\ UNCHANGED <<containersVars, collectionsVars, entities, contents>>

\* What somebody does to the package before it is dumped: every call of Containers
\* and Collections, components with contents.
Edit ==
    /\ stage = "editing" /\ edits < MaxEdits
    /\ edits' = edits + 1
    /\ \/ /\ \E c \in Components, upload \in Uploads :
                /\ CreateComponentVersion(c)
                /\ contents' = [contents EXCEPT ![c] = Append(@, upload)]
          /\ UNCHANGED <<collectionsVars, packageKey, entities>>
       \/ /\ \/ \E c \in Containers : CreateNextVersion(c)
             \/ OtherCalls
          /\ UNCHANGED <<collectionsVars, packageKey, entities, contents>>
       \/ /\ CollectionsNext
          /\ UNCHANGED <<containersVars, packageKey, entities, contents>>
       \/ \E key \in PackageKeys : UpdateLearningPackage(key)
    /\ UNCHANGED <<archive, saved, stage, toSave>>

\* What readers see of a branch: for each entity the number, the children and the
\* contents of its version.
Seen(br) ==
    [e \in Entities |->
        IF br.version[e] = None THEN << >>
        ELSE << NumOf(e, br.version[e]),
                ChildrenKeys(e, br.version[e]),
                IF IsContainer(e) THEN << >> ELSE contents[e][br.version[e]].files >>]

HasPins ==
    \E c \in Containers : \E v \in VersionsToWrite(c) :
        \E i \in DOMAIN rows[c][v] : rows[c][v][i].pin # Unpinned

\* get_collection_components, get_collection_containers
CollectionComponents(k) == collections[k].entities \cap Components
CollectionContainers(k) == collections[k].entities \cap Containers

SeenCollections ==
    [k \in EnabledCollections |-> <<CollectionComponents(k), CollectionContainers(k)>>]

Snapshot ==
    [ draft       |-> Seen(draft),
      published   |-> Seen(published),
      unpublished |-> {c \in Containers : IsOnBothBranches(c) /\ ContainsUnpublishedChanges(c)},
      hasPins     |-> HasPins,
      allTitled   |-> \A c \in Components : \A v \in VersionsToWrite(c) : contents[c][v].titled,
      collections |-> SeenCollections ]

\* The new package before it is loaded, and after it was rolled back.
NoPackage ==
    /\ dependencies' = [e \in Entities |-> << >>]
    /\ draft' = EmptyBranch /\ published' = EmptyBranch
    /\ lastDraftLog' = 0 /\ lastPublishLog' = 0 /\ openLogs' = << >>
    /\ rows' = [c \in Containers |-> << >>]
    /\ versionNums' = [e \in Entities |-> << >>]
    /\ collections' = << >> /\ modified' = {}
    /\ packageKey' = NoKey /\ entities' = {}
    /\ contents' = EmptyContents

\* create_zip_file
Dump ==
    /\ stage = "editing"
    /\ saved' = Snapshot
    /\ \/ archive' = CreateZip
       \/ archive' = WithoutPackage(CreateZip)
       \/ \E lost \in Losses : archive' = Without(CreateZip, lost)
    /\ stage' = "loading"
    /\ NoPackage
    /\ edits' = 0
    /\ UNCHANGED toSave

\* load, with the errors that are found before anything is saved.
Refuse ==
    /\ stage = "loading" /\ HasErrors
    /\ stage' = "refused"
    /\ UNCHANGED <<packageVars, archive, saved, toSave, edits>>

\* The key of the new package, when the caller gives one and when not.
NewKey(given) == IF given = NoKey THEN StagedKey ELSE given

\* create_learning_package and generate_staged_lp_key raise nothing for this key.
\* The dumped package is still there.
IsKeyAccepted(given) ==
    /\ NewKey(given) \notin TakenKeys \cup {archive.key}
    /\ given = NoKey => archive.key \in OrgAndSlug

\* load: the package and the first bulk context of _save.
BeginRestore ==
    /\ stage = "loading" /\ ~ HasErrors
    /\ \E given \in {NoKey} \cup PackageKeys :
          IsKeyAccepted(given) /\ packageKey' = NewKey(given)
    /\ BeginBulk
    /\ stage' = "published versions"
    /\ toSave' = PublishedToSave
    /\ UNCHANGED <<rows, versionNums, collectionsVars, entities, contents, archive, saved, edits>>

\* load, when the key raises.
FailToBegin ==
    /\ stage = "loading" /\ ~ HasErrors
    /\ \E given \in {NoKey} \cup PackageKeys : ~ IsKeyAccepted(given)
    /\ stage' = "failed"
    /\ UNCHANGED <<packageVars, archive, saved, toSave, edits>>

\* create_publishable_entity: the key is unique in the package.
CreatePublishableEntity(e, key) ==
    /\ \A d \in entities : KeyOf(d) # key
    /\ entities' = entities \cup {e}

\* create_component: the key is made of the type and the local_key.
CreateComponent(e) == CreatePublishableEntity(e, EntityKey(e))

\* create_container, under create_unit, create_subsection and create_section.
CreateContainer(e) == CreatePublishableEntity(e, NameOf[e])

\* One entity, from _save_components, _save_units, _save_subsections, _save_sections.
SaveEntity ==
    /\ stage = "published versions" /\ toSave # << >>
    /\ LET e == Head(toSave)[2]
       IN  /\ Head(toSave)[1] = "entity"
           /\ IF IsContainer(e) THEN CreateContainer(e) ELSE CreateComponent(e)
    /\ toSave' = Tail(toSave)
    /\ UNCHANGED <<containersVars, collectionsVars, packageKey, contents, archive, saved,
                   stage, edits>>

\* _save_components, _save_units, _save_subsections, _save_sections: one version.
SavePublishedVersion ==
    /\ stage = "published versions" /\ toSave # << >>
    /\ Head(toSave)[1] = "version"
    /\ LET e == Head(toSave)[2]
           num == archive.entities[e].published
       IN  IF IsContainer(e) THEN RestoreContainerVersion(e, num)
                             ELSE RestoreComponentVersion(e, num, FALSE)
    /\ toSave' = Tail(toSave)
    /\ UNCHANGED <<collectionsVars, archive, saved, stage, edits>>

\* _save_collections, then publish_all_drafts.
PublishRestored ==
    /\ stage = "published versions" /\ toSave = << >>
    /\ collections' = [k \in DOMAIN archive.collections |->
                          [enabled |-> TRUE, entities |-> archive.collections[k]]]
    /\ modified' = DOMAIN archive.collections
    /\ PublishAllDrafts
    /\ stage' = "published"
    /\ UNCHANGED <<rows, versionNums, packageKey, entities, contents, archive, saved, toSave,
                   edits>>

\* The end of the first bulk context.
EndFirstBulk ==
    /\ stage = "published" /\ openLogs # << >>
    /\ EndBulk
    /\ UNCHANGED <<rows, versionNums, collectionsVars, packageKey, entities, contents, archive,
                   saved, stage, toSave, edits>>

BeginSecondBulk ==
    /\ stage = "published" /\ openLogs = << >>
    /\ BeginBulk
    /\ stage' = "draft versions"
    /\ toSave' = DraftsToSave
    /\ UNCHANGED <<rows, versionNums, collectionsVars, packageKey, entities, contents, archive,
                   saved, edits>>

\* Mutant: drafts keep the contents of the published version.
SaveDraftVersion_KeepsContent ==
    /\ stage = "draft versions" /\ toSave # << >>
    /\ LET e == Head(toSave)[2]
           num == archive.entities[e].draft
       IN  IF IsContainer(e) THEN RestoreContainerVersion(e, num)
                             ELSE RestoreComponentVersion(e, num, FALSE)
    /\ toSave' = Tail(toSave)
    /\ UNCHANGED <<collectionsVars, archive, saved, stage, edits>>

\* _save_draft_versions: one version.
SaveDraftVersion ==
    /\ stage = "draft versions" /\ toSave # << >>
    /\ LET e == Head(toSave)[2]
           num == archive.entities[e].draft
       IN  IF IsContainer(e) THEN RestoreContainerVersion(e, num)
                             ELSE RestoreComponentVersion(e, num, TRUE)
    /\ toSave' = Tail(toSave)
    /\ UNCHANGED <<collectionsVars, archive, saved, stage, edits>>

\* The end of the second bulk context, of load and of the transaction.
EndRestore ==
    /\ stage = "draft versions" /\ toSave = << >>
    /\ archive.key \in OrgAndSlug
    /\ EndBulk
    /\ stage' = "restored"
    /\ UNCHANGED <<rows, versionNums, collectionsVars, packageKey, entities, contents, archive,
                   saved, toSave, edits>>

\* load takes the key of the archive apart for its result when all is saved; when
\* that raises, the transaction is rolled back.
RollBack ==
    /\ stage = "draft versions" /\ toSave = << >>
    /\ archive.key \notin OrgAndSlug
    /\ NoPackage
    /\ stage' = "failed"
    /\ UNCHANGED <<archive, saved, toSave, edits>>

BackupNext ==
    \/ Edit
    \/ Dump
    \/ Refuse
    \/ BeginRestore
    \/ FailToBegin
    \/ SaveEntity
    \/ SavePublishedVersion
    \/ PublishRestored
    \/ EndFirstBulk
    \/ BeginSecondBulk
    \/ SaveDraftVersion
    \/ EndRestore
    \/ RollBack

BackupSpec == BackupInit /\ [][BackupNext]_backupVars

-----------------------------------------------------------------------------
(***************************************************************************)
(* Properties                                                              *)
(***************************************************************************)
InArchive == DOMAIN archive.entities

\* The version seen of e, without its contents and the children that were lost.
SeenOf(seen, e) ==
    IF seen[e] = << >> THEN << >>
    ELSE <<seen[e][1], OnlyIn(seen[e][2], InArchive)>>

\* A draft that is deleted is not in the archive: the restored draft is the
\* published version.
DraftOf(e) == IF saved.draft[e] = << >> THEN saved.published[e] ELSE saved.draft[e]

\* The restored package is the dumped one under a key of its own: every entity in
\* the archive with its version numbers and children on both branches, whatever
\* was published, reset, pinned or forced to an older number, and the enabled
\* collections.  A dump is refused only when it lost files, when a component has
\* a ".toml" file, and when a version has no title.
PackageIsRestored ==
    /\ stage = "restored" =>
          /\ packageKey \notin TakenKeys \cup {archive.key}
          /\ entities = InArchive
          /\ \A e \in InArchive :
                /\ SeenOf(Seen(published), e) = SeenOf(saved.published, e)
                /\ SeenOf(Seen(draft), e) = SeenOf([saved.draft EXCEPT ![e] = DraftOf(e)], e)
          /\ SeenCollections = saved.collections
    /\ stage = "refused" =>
          \/ ~ archive.package \/ InArchive # Entities
          \/ \E e \in Entities, seen \in {saved.draft, saved.published} :
                seen[e] # << >> /\ DOMAIN seen[e][3] \cap TomlKeys # {}
          \/ ~ saved.allTitled

\* Is the folder of c in the archive the one it will be looked up by?
KeepsFolder(c) == FileName(c) = NameOf[c]

\* What a restored version has for the contents it had: the same data at every key,
\* empty texts left out.
Kept(before) ==
    [k \in {key \in DOMAIN before : IsWritten(before[key])} |->
        IF k = BlockXml THEN Text(before[k][2]) ELSE File(before[k][2])]

HasPlainKeys(seen) == \A k \in DOMAIN seen[3] : KeyAfter[<<k, seen[1]>>] = k

\* Components whose folder in the archive is named by their local_key, and whose
\* keys have no version folder in them, have on each branch the contents they
\* had: no file is lost, and none of the published version comes back in a
\* draft that had dropped it.
ContentsAreRestored ==
    stage = "restored" =>
        \A c \in {x \in Components \cap InArchive : KeepsFolder(x)} :
            /\ saved.published[c] # << >> /\ HasPlainKeys(saved.published[c]) =>
                  Seen(published)[c][3] = Kept(saved.published[c][3])
            /\ DraftOf(c) # << >> /\ HasPlainKeys(DraftOf(c)) =>
                  Seen(draft)[c][3] = Kept(DraftOf(c)[3])

\* Containers that had unpublished changes have them again, and those that had none
\* have none: the digests of the two branches, computed in two restored logs,
\* agree exactly where those of the dumped package did.  Pins and deletions of
\* drafts, which the archive does not keep, left aside.
UnpublishedChangesAreRestored ==
    /\ stage = "restored" /\ InArchive = Entities
    /\ ~ saved.hasPins
    /\ \A e \in Entities : saved.draft[e] = << >> => saved.published[e] = << >>
    => \A c \in {x \in Containers : saved.published[x] # << >>} :
          ContainsUnpublishedChanges(c) <=> c \in saved.unpublished

=============================================================================
