-------------------------- MODULE MCBackupRestore --------------------------
(***************************************************************************)
(* An instance of BackupRestore for TLC: a Unit with two Components of the *)
(* same local_key in a Subsection, published, edited a few times, dumped   *)
(* and restored.                                                           *)
(***************************************************************************)
EXTENDS BackupRestore

CONSTANTS c1, c2, u1, s1, k1, html, video, intro, unit1, subsection1, block, image, old_image, settings,
          lib_key, staged_key, other_key, plain_key

MCEntities == {c1, c2, u1, s1}
MCEntityOrder == <<s1, c1, u1, c2>>
MCLevel == [e \in Entities |-> CASE e = u1 -> 1 [] e = s1 -> 2 [] OTHER -> 0]
MCCollectionKeys == {k1}
MCNameOf == [e \in Entities |->
    CASE e = u1 -> unit1 [] e = s1 -> subsection1 [] OTHER -> intro]
MCComponentType == [c \in {c1, c2} |-> IF c = c1 THEN html ELSE video]
MCSlug == [name \in {intro, unit1, subsection1} |-> name]

Keys == {block, image, old_image, settings}

\* old_image is in a folder "v3" of the component.
MCKeyAfter == [p \in Keys \X (1 .. 9) |-> IF p = <<old_image, 3>> THEN image ELSE p[1]]

MCTomlKeys == {settings}
MCNoData == 0
MCLosses == {{c1}}

MCPackageKeys == {lib_key, staged_key, other_key, plain_key}
MCTakenKeys == {other_key}
MCOrgAndSlug == {lib_key, staged_key, other_key}

Upload(titled, files) == [titled |-> titled, files |-> files]

CourseUpload == Upload(TRUE, [k \in {block, image} |-> IF k = block THEN Text(1) ELSE File(1)])

\* Without the image, with another one and an empty text, with a ".toml" file, and
\* without a title.
MCUploads == {
    Upload(TRUE, [k \in {block} |-> Text(2)]),
    Upload(TRUE, [k \in {block, old_image} |-> IF k = block THEN Text(0) ELSE File(2)]),
    Upload(TRUE, [k \in {settings} |-> File(1)]),
    Upload(FALSE, << >>) }

Child(e) == [entity |-> e, pin |-> Unpinned]

MCEntityLists == { <<Child(c2), Child(c1)>>, <<[entity |-> c1, pin |-> <<c1, 1>>]>>, <<Child(u1)>> }

CourseRows == [c \in Containers |->
    IF c = u1 THEN << <<Child(c1), Child(c2)>> >> ELSE << <<Child(u1)>> >>]

CourseDependencies == [e \in Entities |->
    CASE e = u1 -> <<{c1, c2}>> [] e = s1 -> <<{u1}>> [] OTHER -> <<{}>>]

Created == [e \in Entities |-> 1]

\* All created in one bulk context and published whole, with a collection.
CourseInit ==
    /\ dependencies = CourseDependencies
    /\ rows = CourseRows
    /\ versionNums = [e \in Entities |-> <<2>>]
    /\ draft = WithSideEffects(dependencies, Repoint(EmptyBranch, 1, Created), 1)
    /\ published = WithSideEffects(dependencies,
                        RecordPublish(EmptyBranch, 1, Entities), 1)
    /\ lastDraftLog = 1
    /\ lastPublishLog = 1
    /\ openLogs = << >>
    /\ collections = [k \in {k1} |-> [enabled |-> TRUE, entities |-> {c1}]]
    /\ modified = {}
    /\ packageKey = lib_key
    /\ entities = Entities
    /\ contents = [c \in Components |-> <<CourseUpload>>]
    /\ archive = << >> /\ saved = << >>
    /\ stage = "editing" /\ toSave = << >>
    /\ edits = 0

CourseSpec == CourseInit /\ [][BackupNext]_backupVars

=============================================================================
