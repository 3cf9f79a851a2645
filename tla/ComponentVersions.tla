------------------------- MODULE ComponentVersions -------------------------
(***************************************************************************)
(* What create_next_component_version of components/api.py promises its    *)
(* callers, whatever goes on next to it: a new version of the Component is *)
(* there at once, with all of its files; it is an existing version with    *)
(* some files replaced or removed; and no version changes afterwards.      *)
(*                                                                         *)
(* Components shows how sessions, the database and the file storage bring  *)
(* this about.                                                             *)
(***************************************************************************)
EXTENDS Integers, FiniteSets

CONSTANTS
    Keys,           \* paths of the files of a ComponentVersion
    MediaTypes,
    Data,           \* what a file or a text may hold; stands for its hash_digest too
    GuessType,      \* mimetypes.guess_type: the MediaType for each key
    Calls,          \* bound: the arguments callers pass
    None

\* A Content row, by its unique (media_type, hash_digest).
Contents == MediaTypes \X Data

\* content_to_replace gives each of its keys bytes, the id of a Content, or None.
IsCall(call) ==
    /\ call.bytes \subseteq Keys
    /\ DOMAIN call.replace \subseteq Keys
    /\ \A k \in DOMAIN call.replace :
          call.replace[k] \in IF k \in call.bytes THEN Data ELSE Contents \cup {None}
    /\ call.forceVersionNum \in (Nat \ {0}) \cup {None}
    /\ call.ignorePreviousContent \in BOOLEAN

ASSUME ComponentsAssumption ==
    /\ GuessType \in [Keys -> MediaTypes]
    /\ None \notin Contents
    /\ None \notin Nat
    /\ \A call \in Calls : IsCall(call)

VARIABLE versions   \* for each version_num the Content at each of the version's keys

Versions == DOMAIN versions

\* versioning.latest is n: the highest number, 0 when there is no version.
IsLatest(n) ==
    IF Versions = {} THEN n = 0
    ELSE n \in Versions /\ \A m \in Versions : m <= n

ContentsOfVersion(n) == IF n = 0 THEN << >> ELSE versions[n]

\* The Content a call gives a key.
ContentGiven(call, k) ==
    IF k \in call.bytes THEN <<GuessType[k], call.replace[k]>> ELSE call.replace[k]

NewKeys(call) == {k \in DOMAIN call.replace : call.replace[k] # None}

\* Old associations, unless in conflict with the new ones or marked for deletion.
KeptKeys(last, call) ==
    IF call.ignorePreviousContent THEN {} ELSE DOMAIN last \ DOMAIN call.replace

NextContents(last, call) ==
    [k \in NewKeys(call) \cup KeptKeys(last, call) |->
        IF k \in NewKeys(call) THEN ContentGiven(call, k) ELSE last[k]]

\* force_version_num, or the number after the version the call starts from.
VersionNum(base, call) ==
    IF call.forceVersionNum # None THEN call.forceVersionNum ELSE base + 1

Edit(base, call) ==
    /\ base \in Versions \cup {0}
    /\ VersionNum(base, call) \notin Versions
    /\ versions' = [n \in Versions \cup {VersionNum(base, call)} |->
                       IF n \in Versions THEN versions[n]
                       ELSE NextContents(ContentsOfVersion(base), call)]

EditsInit == versions = << >>

EditsNext == \E call \in Calls : \E base \in Versions \cup {0} : Edit(base, call)

EditsSpec == EditsInit /\ [][EditsNext]_versions

=============================================================================
