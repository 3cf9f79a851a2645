---------------------------- MODULE MCPublishing ----------------------------
(***************************************************************************)
(* Instances of Publishing for TLC.  Components have rank 0, Units rank 1  *)
(* and Subsections rank 2.                                                 *)
(***************************************************************************)
EXTENDS Publishing

CONSTANTS c1, c2, u1, u2, s1

MCLevel == [e \in Entities |->
    CASE e \in {c1, c2} -> 0 [] e \in {u1, u2} -> 1 [] OTHER -> 2]

Pair == {c1, u1}              \* a Unit with one Component
Chain == {c1, u1, s1}         \* and a Subsection above it
Diamond == {c1, u1, u2, s1}   \* a Component in both Units of a Subsection

(***************************************************************************)
(* The runs explore single edits from the empty package and, to reach bulk *)
(* contexts with something to change in them, those after a course that is *)
(* created in one bulk context and published whole.                        *)
(***************************************************************************)
CONSTANT MaxCourseLogs    \* bound: DraftChangeLogs created in the course

CourseDependencies == [e \in Entities |->
    CASE e \in {c1, c2} -> <<{}>>
      [] e \in {u1, u2} -> <<{c1}>>
      [] OTHER -> <<{u1, u2} \cap Entities>>]

\* The entities of the ranks below n are created.
CourseUpTo(n) == [e \in Entities |-> IF Level[e] < n THEN CourseDependencies[e] ELSE << >>]

IsCourse == \A e \in Entities : draft.records[e] # << >> /\ draft.records[e][1].log = 1

\* The course is created bottom-up in the first log, and nothing else is done there.
InCourseLog ==
    /\ dependencies' \in {CourseUpTo(n) : n \in 0 .. 3}
    /\ draft'.version = [e \in Entities |-> Len(dependencies'[e])]
    /\ lastPublishLog' = lastPublishLog
    /\ openLogs' = << >> => dependencies = CourseDependencies

InCourse ==
    /\ lastDraftLog' <= MaxCourseLogs
    /\ lastPublishLog = 0 => lastPublishLog' = 1 /\ published'.version = draft.version

CourseNext ==
    /\ Next
    /\ CASE openLogs = <<1>> -> InCourseLog
         [] openLogs # <<1>> /\ IsCourse -> InCourse
         [] OTHER -> openLogs' = << >> \/ (openLogs' = <<1>> /\ lastPublishLog = 0)

CourseSpec == Init /\ [][CourseNext]_vars

=============================================================================
