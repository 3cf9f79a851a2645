----------------------------- MODULE Components -----------------------------
(***************************************************************************)
(* Sessions that edit one Component: components/api.py and contents/api.py *)
(* over a database with transactions and a file storage without.           *)
(*                                                                         *)
(* A session's calls run in one transaction, statement by statement.  It   *)
(* sees the rows that are committed and its own; a row that would break a  *)
(* unique constraint waits for the transaction that wrote the other one.   *)
(* A transaction may fail at any statement (an error of the storage, a     *)
(* deadlock, a lost connection, an exception of the caller): its rows go,  *)
(* the files it wrote stay.                                                *)
(***************************************************************************)
EXTENDS ComponentVersions

CONSTANTS
    Sessions,
    Idle,
    MaxVersionNum       \* bound

ASSUME VersionNumAssumption == MaxVersionNum \in Nat

VARIABLES
    contents,   \* Content: [text, hasFile] of the committed rows
    files,      \* the file storage, at content/<package>/<hash_digest>
    tx,         \* each session's transaction
    storage     \* the kind of storage the site is configured with

componentsVars == <<versions, contents, files, tx, storage>>

\* A write to a file system may stop midway, and save() leaves an existing file
\* alone and takes another name.  An object store has a file whole or not at all.
FileSystemStorage == storage = "file system"

Stored == DOMAIN contents

\* What one get_or_create_*_content call stores.
Item(content, text, hasFile) == [content |-> content, text |-> text, hasFile |-> hasFile]

Running(s) == tx[s] # Idle

\* A transaction: the version it makes (num = None: text on its own), the items
\* still to be stored and the one at hand, its uncommitted Content rows, and its
\* next statement.
Transaction(num, made, items, next) ==
    [num |-> num, made |-> made, items |-> items, item |-> None, rows |-> {}, next |-> next]

At(s, next) == Running(s) /\ tx[s].next = next

RowKeys(s) == {row.content : row \in tx[s].rows}

\* A row of another session's transaction stands in the way.
VersionIsLocked(s, num) ==
    \E t \in Sessions \ {s} : Running(t) /\ tx[t].next # "version" /\ tx[t].num = num

ContentIsLocked(s, content) ==
    \E t \in Sessions \ {s} : Running(t) /\ content \in RowKeys(t)

ComponentsInit ==
    /\ EditsInit
    /\ contents = << >>
    /\ files = [d \in Data |-> "missing"]
    /\ tx = [s \in Sessions |-> Idle]
    /\ storage \in {"file system", "object store"}

\* A transaction that fails.
Rollback(s) ==
    /\ tx' = [tx EXCEPT ![s] = Idle]
    /\ UNCHANGED <<versions, contents>>

\* Mutant: a failed transaction takes away the files of its rows.
FilesAfterFailure_Removed(s) ==
    {[d \in Data |-> IF \E row \in tx[s].rows : row.content[2] = d THEN "missing"
                     ELSE files[d]]}

\* What a failed transaction leaves in the storage, which may have broken down in
\* the middle of a new file.
FilesAfterFailure(s) ==
    IF FileSystemStorage /\ At(s, "file") /\ files[tx[s].item.content[2]] = "missing"
    THEN {files, [files EXCEPT ![tx[s].item.content[2]] = "partial"]}
    ELSE {files}

Fail(s) ==
    /\ Running(s)
    /\ Rollback(s)
    /\ files' \in FilesAfterFailure(s)

(***************************************************************************)
(* create_next_component_version                                           *)
(***************************************************************************)
ItemsOf(call) ==
    {Item(ContentGiven(call, k), FALSE, TRUE) : k \in call.bytes \cap NewKeys(call)}

\* The latest version is read before the transaction, and its associations, which
\* do not change any more, at its end.  Content ids are of committed rows.
StartEdit(s, call, last) ==
    /\ ~ Running(s)
    /\ IsLatest(last)
    /\ \A k \in NewKeys(call) \ call.bytes : call.replace[k] \in Stored
    /\ VersionNum(last, call) <= MaxVersionNum
    /\ tx' = [tx EXCEPT ![s] = Transaction(VersionNum(last, call),
                                   NextContents(ContentsOfVersion(last), call),
                                   ItemsOf(call), "version")]
    /\ UNCHANGED <<versions, contents, files>>

\* Mutant: version_num is not unique.
InsertVersion_NotUnique(s) ==
    /\ Running(s) /\ tx[s].next = "version"
    /\ tx' = [tx EXCEPT ![s].next = "contents"]
    /\ UNCHANGED <<versions, contents, files>>

\* The version row, with the unique (entity, version_num): when the number is taken
\* by then, an IntegrityError and nothing but Fail.
InsertVersion(s) ==
    /\ Running(s) /\ tx[s].next = "version"
    /\ ~ VersionIsLocked(s, tx[s].num)
    /\ tx[s].num \notin Versions
    /\ tx' = [tx EXCEPT ![s].next = "contents"]
    /\ UNCHANGED <<versions, contents, files>>

(***************************************************************************)
(* get_or_create_text_content, get_or_create_file_content                  *)
(***************************************************************************)
StartText(s, content, createFile) ==
    /\ ~ Running(s)
    /\ tx' = [tx EXCEPT ![s] =
                 Transaction(None, << >>, {Item(content, TRUE, createFile)}, "contents")]
    /\ UNCHANGED <<versions, contents, files>>

\* Mutant: rows of transactions that may yet fail are found too.
Found_Uncommitted(s) == Stored \cup UNION {RowKeys(t) : t \in {u \in Sessions : Running(u)}}

\* The rows that s sees.
Found(s) == Stored \cup RowKeys(s)

\* Content.objects.get.  A row that is there is taken as it is, text or file.
GetContent(s, item) ==
    /\ At(s, "contents") /\ item \in tx[s].items
    /\ tx' = [tx EXCEPT ![s].items = @ \ {item},
                        ![s].item = IF item.content \in Found(s) THEN None ELSE item,
                        ![s].next = IF item.content \in Found(s) THEN @ ELSE "row"]
    /\ UNCHANGED <<versions, contents, files>>

\* Mutant: (media_type, hash_digest) is not unique.
InsertContent_NotUnique(s) ==
    /\ At(s, "row")
    /\ tx' = [tx EXCEPT ![s].rows = @ \cup {tx[s].item},
                        ![s].next = IF tx[s].item.hasFile THEN "file" ELSE "contents"]
    /\ UNCHANGED <<versions, contents, files>>

\* content.save(), with the unique (media_type, hash_digest), as above.
InsertContent(s) ==
    /\ At(s, "row")
    /\ ~ ContentIsLocked(s, tx[s].item.content)
    /\ tx[s].item.content \notin Stored
    /\ tx' = [tx EXCEPT ![s].rows = @ \cup {tx[s].item},
                        ![s].next = IF tx[s].item.hasFile THEN "file" ELSE "contents"]
    /\ UNCHANGED <<versions, contents, files>>

\* The file of the item at hand, after Content.write_file: an existing file of the
\* right size is left alone.
WriteFile(s) ==
    /\ At(s, "file")
    /\ LET d == tx[s].item.content[2]
       IN  files' = [files EXCEPT ![d] =
                        IF @ = "partial" /\ FileSystemStorage THEN @ ELSE "whole"]
    /\ tx' = [tx EXCEPT ![s].next = "contents"]
    /\ UNCHANGED <<versions, contents>>

Commit(s) ==
    /\ At(s, "contents") /\ tx[s].items = {}
    /\ contents' = [c \in Stored \cup RowKeys(s) |->
          IF c \in RowKeys(s)
          THEN LET row == CHOOSE r \in tx[s].rows : r.content = c
               IN  [text |-> row.text, hasFile |-> row.hasFile]
          ELSE contents[c]]
    /\ versions' = IF tx[s].num = None THEN versions
                   ELSE [n \in Versions \cup {tx[s].num} |->
                            IF n = tx[s].num THEN tx[s].made ELSE versions[n]]
    /\ tx' = [tx EXCEPT ![s] = Idle]
    /\ UNCHANGED files

\* A statement of the session s.
Step(s) ==
    \/ \E call \in Calls, last \in Versions \cup {0} : StartEdit(s, call, last)
    \/ \E content \in Contents, createFile \in BOOLEAN : StartText(s, content, createFile)
    \/ InsertVersion(s)
    \/ Running(s) /\ \E item \in tx[s].items : GetContent(s, item)
    \/ InsertContent(s)
    \/ WriteFile(s)
    \/ Commit(s)
    \/ Fail(s)

ComponentsNext ==
    /\ \E s \in Sessions : Step(s)
    /\ UNCHANGED storage

ComponentsSpec == ComponentsInit /\ [][ComponentsNext]_componentsVars

-----------------------------------------------------------------------------
(***************************************************************************)
(* Properties                                                              *)
(***************************************************************************)
\* get_redirect_response_for_component_asset
AssetResponse(n, k) ==
    IF n \notin Versions \/ k \notin DOMAIN versions[n] THEN "not found"
    ELSE IF contents[versions[n][k]].hasFile THEN "redirect" ELSE "no download file"

\* What Content.clean demands of a row: a text, a file or both.
Items ==
    {item \in [content : Contents, text : BOOLEAN, hasFile : BOOLEAN] :
        item.text \/ item.hasFile}

\* Committed versions have committed contents, which are stored as text, as a file
\* or both, and transactions have what their next statement needs.
ComponentsTypeOK ==
    /\ Versions \subseteq Nat \ {0}
    /\ Stored \subseteq Contents
    /\ \A c \in Stored :
          /\ contents[c] \in [text : BOOLEAN, hasFile : BOOLEAN]
          /\ contents[c].text \/ contents[c].hasFile
    /\ \A n \in Versions : \A k \in DOMAIN versions[n] : k \in Keys /\ versions[n][k] \in Stored
    /\ files \in [Data -> {"missing", "partial", "whole"}]
    /\ storage \in {"file system", "object store"}
    /\ \A s \in Sessions : Running(s) =>
          /\ tx[s].next \in {"version", "contents", "row", "file"}
          /\ tx[s].next \in {"row", "file"} => tx[s].item \in Items

\* What there may be at a path once Content.write_file has returned.
LeftByWrite == IF FileSystemStorage THEN {"whole", "partial"} ELSE {"whole"}

\* A committed Content that says it has a file has one, whichever transactions
\* failed before or after writing it and whoever stored the same bytes under
\* another media type.  An object store has all of its bytes; a file system need
\* not once a write of it broke off, since the next one goes to another name.
FilesAreThere == \A c \in Stored : contents[c].hasFile => files[c[2]] \in LeftByWrite

\* What a version's files are, and how requests for them are answered, stays.
AssetsStay ==
    [][\A n \in Versions, k \in Keys :
          /\ versions'[n] = versions[n]
          /\ AssetResponse(n, k)' = AssetResponse(n, k)]_componentsVars

\* Sessions at once, some failing, make versions as if each edit were one step:
\* none is lost, torn or built on a version that is not the one below it.
ImplementsEdits == EditsSpec

=============================================================================
