----------------------------- MODULE TagImport -----------------------------
(***************************************************************************)
(* Importing tags into one closed taxonomy, by several workers at once,    *)
(* while the tagging API edits its tags (import_export/api.py, tasks.py,   *)
(* models/import_export.py).                                               *)
(*                                                                         *)
(* import_tags is not one transaction: the check for a task in progress,   *)
(* the creation of the task, the plan and its execution each see the       *)
(* database as it is then, and a worker may die between any two of them.   *)
(* The execution is a transaction; it is one step here.                    *)
(***************************************************************************)
EXTENDS TagImportPlan

CONSTANTS Workers,      \* processes that run import_tags
          Files,        \* well-formed files: sequences of items
          InitialTags,  \* tables of the taxonomy to start from
          MaxTasks,     \* bound on the import tasks created
          MaxEdits      \* bound on the calls that edit tags

\* What parsers.py lets through: every item has an id and a value.
ASSUME FilesAssumption ==
    Files \subseteq Seq([id : ExternalIds, value : Values, parent : ExternalIds \cup {None}])

\* The primary keys are the first numbers.
ASSUME InitialTagsAssumption == \A table \in InitialTags : table \in Seq(Rows) /\ IsTable(table)

VARIABLES
    tags,       \* the Tags of the taxonomy
    lastTag,    \* the last primary key given to one
    tasks,      \* status of each TagImportTask, in order of creation
    workers,    \* what each worker is doing
    edits       \* the number of calls that edited tags

importVars == << tags, lastTag, tasks, workers, edits >>

Finished == {"success", "error"}
TaskStates == {"loading_data", "planning", "executing"} \cup Finished

Idle == [pc |-> "idle"]

\* A worker at a step of import_tags, with its task once it has created one.
\* The arguments of the call are chosen where they are first read.
Step(pc, task) == [pc |-> pc, task |-> task]

\* A worker with a plan: the file and flag it was made from, and the tags.
Planned(task, file, replace, plan) ==
    [pc |-> "execute", task |-> task, file |-> file, replace |-> replace,
     actions |-> plan.actions, planned |-> tags]

ImportInit ==
    /\ tags \in InitialTags
    /\ lastTag = Cardinality(DOMAIN tags)
    /\ tasks = << >>
    /\ workers = [w \in Workers |-> Idle]
    /\ edits = 0

At(w, pc) == workers[w].pc = pc

\* The worker gets to a step, or returns.
Goes(w, pc) == workers' = [workers EXCEPT ![w] = Step(pc, workers[w].task)]
Returns(w) == workers' = [workers EXCEPT ![w] = Idle]

(***************************************************************************)
(* import_tags, step by step                                               *)
(***************************************************************************)
\* _check_unique_import_task looks at the last task only.
ImportIsAllowed == IF tasks = << >> THEN TRUE ELSE tasks[Len(tasks)] \in Finished

CheckUniqueTask(w) ==
    /\ At(w, "idle")
    /\ ImportIsAllowed
    /\ Len(tasks) + Cardinality({v \in Workers : At(v, "create")}) < MaxTasks
    /\ workers' = [workers EXCEPT ![w] = Step("create", 0)]
    /\ UNCHANGED << tags, lastTag, tasks >>

CreateTask(w) ==
    /\ At(w, "create")
    /\ tasks' = Append(tasks, "loading_data")
    /\ workers' = [workers EXCEPT ![w] = Step("parse", Len(tasks) + 1)]
    /\ UNCHANGED << tags, lastTag >>

SetStatus(w, status) == tasks' = [tasks EXCEPT ![workers[w].task] = status]

\* Mutant: the errors are logged and the status is left.
ParseFile_KeepsStatus(w) ==
    /\ At(w, "parse")
    /\ \/ SetStatus(w, "planning") /\ Goes(w, "plan")
       \/ UNCHANGED tasks /\ Returns(w)
    /\ UNCHANGED << tags, lastTag >>

\* log_start_planning, or handle_parser_errors of a malformed file.
ParseFile(w) ==
    /\ At(w, "parse")
    /\ \/ SetStatus(w, "planning") /\ Goes(w, "plan")
       \/ SetStatus(w, "error") /\ Returns(w)
    /\ UNCHANGED << tags, lastTag >>

\* generate_actions; then handle_plan_errors, end_success of a call that only
\* plans, or log_start_execute.
MakePlan(w) ==
    /\ At(w, "plan")
    /\ \E file \in Files, replace, planOnly \in BOOLEAN :
         \E plan \in Plans(tags, file, replace) :
            CASE ~plan.valid -> SetStatus(w, "error") /\ Returns(w)
              [] plan.valid /\ planOnly -> SetStatus(w, "success") /\ Returns(w)
              [] OTHER ->
                   /\ SetStatus(w, "executing")
                   /\ workers' = [workers EXCEPT ![w] =
                                     Planned(workers[w].task, file, replace, plan)]
    /\ UNCHANGED << tags, lastTag >>

\* Mutant: an exception is not caught.
ExecutePlan_KeepsStatus(w) ==
    /\ At(w, "execute")
    /\ LET end == Execute(tags, lastTag, workers[w].actions)
       IN  \/ /\ end.ok
              /\ tags' = end.tags
              /\ lastTag' = end.lastTag
              /\ Goes(w, "end")
              /\ UNCHANGED tasks
           \/ /\ ~end.ok
              /\ Returns(w)
              /\ UNCHANGED << tags, lastTag, tasks >>

\* The transaction commits, or it rolls back and log_exception ends the task.
ExecutePlan(w) ==
    /\ At(w, "execute")
    /\ LET end == Execute(tags, lastTag, workers[w].actions)
       IN  \/ /\ end.ok
              /\ tags' = end.tags
              /\ lastTag' = end.lastTag
              /\ Goes(w, "end")
              /\ UNCHANGED tasks
           \/ /\ ~end.ok
              /\ SetStatus(w, "error")
              /\ Returns(w)
              /\ UNCHANGED << tags, lastTag >>

EndSuccess(w) ==
    /\ At(w, "end")
    /\ SetStatus(w, "success")
    /\ Returns(w)
    /\ UNCHANGED << tags, lastTag >>

\* The process dies; its transaction, if one is open, rolls back.
Die(w) ==
    /\ ~At(w, "idle") /\ ~At(w, "dead")
    /\ Goes(w, "dead")
    /\ UNCHANGED << tags, lastTag, tasks >>

Work(w) ==
    CreateTask(w) \/ ParseFile(w) \/ MakePlan(w) \/ ExecutePlan(w) \/ EndSuccess(w)

(***************************************************************************)
(* Meanwhile, the API edits the tags.  A call that raises changes nothing. *)
(***************************************************************************)
CreateTag ==
    /\ \E v \in Values, parentValue \in Values \cup {None},
          x \in ExternalIds \cup {None} :
         tags' \in AddTag(tags, lastTag + 1, v, parentValue, x)
    /\ lastTag' = lastTag + 1

RenameTag ==
    /\ \E v, newValue \in Values : tags' \in UpdateTag(tags, v, newValue)
    /\ lastTag' = lastTag

RemoveTags ==
    /\ \E V \in SUBSET Values, withSubtags \in BOOLEAN :
         tags' \in DeleteTags(tags, V, withSubtags)
    /\ lastTag' = lastTag

EditTags ==
    /\ edits < MaxEdits
    /\ edits' = edits + 1
    /\ CreateTag \/ RenameTag \/ RemoveTags
    /\ UNCHANGED << tasks, workers >>

ImportNext ==
    \/ \E w \in Workers : (CheckUniqueTask(w) \/ Work(w) \/ Die(w)) /\ UNCHANGED edits
    \/ EditTags

\* A worker that has started goes on unless it dies: the call runs in one
\* thread and waits for nobody.  This is weak fairness of Work(w), with what
\* enables it and what it does to w written out: w is at one of the steps of
\* Work and leaves it.  Nothing obliges anyone to start an import.
Fairness ==
    \A w \in Workers :
        \/ []<>(At(w, "idle") \/ At(w, "dead"))
        \/ []<><< workers'[w] # workers[w] >>_importVars

ImportSpec == ImportInit /\ [][ImportNext]_importVars /\ Fairness

(***************************************************************************)
(* Properties                                                              *)
(***************************************************************************)
\* The rows satisfy the constraints, keys are older than the last one given,
\* tasks are in one of the states of TagImportTaskState, and workers have
\* tasks that exist.
ImportTypeOK ==
    /\ IsTable(tags) /\ \A t \in DOMAIN tags : t \in 1 .. lastTag
    /\ tasks \in Seq(TaskStates)
    /\ \A w \in Workers :
         ~At(w, "idle") => workers[w].task \in 0 .. Len(tasks)

\* A task that is neither SUCCESS nor ERROR belongs to a worker that is still
\* at it, or that died over it (import_export/api.py:40): every way out of
\* import_tags gives the task its last status.
UnfinishedTasksHaveWorkers ==
    \A i \in DOMAIN tasks :
        tasks[i] \notin Finished =>
            \E w \in Workers : ~At(w, "idle") /\ workers[w].task = i

\* Unless a worker dies, imports do not lock the taxonomy for ever: again and
\* again _check_unique_import_task lets one start.
ImportsAreNotBlockedForever ==
    []<>(ImportIsAllowed \/ \E w \in Workers : At(w, "dead"))

\* The execution of w's plan commits, with the tags as the plan saw them.
ExecutesFresh(w) ==
    At(w, "execute") /\ workers'[w].pc = "end" /\ tags = workers[w].planned

IdsOf(file) == {file[i].id : i \in DOMAIN file}

\* The tag of the item has its value and its parent.  An item may name a
\* parent that a replacing import deletes: the tag is a root then.
ItemHolds(table, item) ==
    \E t \in ByExternalId(table, item.id) :
        /\ table[t].value = item.value
        /\ \/ ParentId(table, t) = item.parent
           \/ table[t].parent = None /\ ByExternalId(table, item.parent) = {}

\* What an import does to the tags, if nobody changes them between its plan and
\* its execution and no two share an id (_get_tag_id): the items of the file
\* hold, whatever the order of deletions and the cascade, except items that
\* share their id; and the tags that are not in the file are gone if the import
\* replaces, and as they were if it does not (import_tags;
\* TagImportPlan.generate_actions and execute).
ImportsDoWhatTheFileSays ==
    [][\A w \in Workers : ExecutesFresh(w) /\ IdsDiffer(tags, DOMAIN tags) =>
         LET file == workers[w].file
             others(table) == {t \in DOMAIN table : ExportId(table, t) \notin IdsOf(file)}
         IN  /\ \A i \in DOMAIN file :
                  \/ ItemHolds(tags', file[i])
                  \/ \E j \in DOMAIN file \ {i} : file[j].id = file[i].id
             /\ IF workers[w].replace
                  THEN others(tags') = {}
                  ELSE Restrict(tags', others(tags')) = Restrict(tags, others(tags))
      ]_importVars

\* "You need to add parent before the child in your file."
ParentsFirst(file) ==
    \A i \in DOMAIN file :
        file[i].parent # None => \E j \in 1 .. i - 1 : file[j].id = file[i].parent

IdsOnce(file) == \A i, j \in DOMAIN file : file[i].id = file[j].id => i = j

\* An item without a parent does not move a tag whose parent has no
\* external_id: applies_for compares null with null.
LeavesUnderUnnamed(table, file) ==
    \E i \in DOMAIN file : \E t \in ByExternalId(table, file[i].id) :
        /\ file[i].parent = None /\ table[t].parent # None
        /\ ParentId(table, t) = None

\* Nothing makes a tag its own ancestor, which would never let get_lineage
\* return: no edit does, and no import of a file with parents before their
\* children and every id once, if the tags are as they were planned for and
\* none stays under an unnamed parent that the file wants at the top.
\* (Validation accepts other files: the parent need only exist.)
HierarchyStays ==
    [][ \/ ~IsHierarchy(tags)
        \/ IsHierarchy(tags)'
        \/ \E w \in Workers :
             LET file == workers[w].file
             IN  /\ At(w, "execute") /\ workers'[w].pc = "end"
                 /\ \/ ~ParentsFirst(file) \/ ~IdsOnce(file)
                    \/ LeavesUnderUnnamed(tags, file)
                    \/ tags # workers[w].planned
      ]_importVars

\* "The output file can be used to recreate the taxonomy with parse_import"
\* (parsers.py:77): into an empty taxonomy, an export gives back each tag that
\* get_filtered_tags lists, with its value and the value of its parent, unless
\* two of them share an id.
ByValues(table, T) ==
    {<< table[t].value, IF table[t].parent = None THEN None
                        ELSE table[table[t].parent].value >> : t \in T}

ExportsRecreateTheListedTags ==
    IdsDiffer(tags, Listed(tags)) =>
    \A file \in Exports(tags) : \A plan \in Plans(NoTags, file, FALSE) :
        LET end == Execute(NoTags, 0, plan.actions)
        IN  /\ plan.valid /\ end.ok
            /\ ByValues(end.tags, DOMAIN end.tags) = ByValues(tags, Listed(tags))

=============================================================================
