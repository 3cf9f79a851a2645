---------------------------- MODULE MCContainers ----------------------------
(***************************************************************************)
(* An instance of Containers for TLC: two Components in a Unit that lists  *)
(* one of them three times, in a Subsection.                               *)
(***************************************************************************)
EXTENDS Containers

CONSTANTS c1, c2, u1, s1

MCEntities == {c1, c2, u1, s1}
MCLevel == [e \in Entities |-> CASE e \in {c1, c2} -> 0 [] e = u1 -> 1 [] OTHER -> 2]

Child(e) == [entity |-> e, pin |-> Unpinned]
PinnedChild(e, v) == [entity |-> e, pin |-> <<e, v>>]

\* What callers pass: a child, two of them one of which is pinned, and a pin to a
\* version of another entity, which is refused.
MCEntityLists ==
    { <<Child(c1)>>,
      <<PinnedChild(c2, 1), Child(c1)>>,
      <<Child(u1)>>,
      <<[entity |-> u1, pin |-> <<c1, 1>>]>> }

UnitRows == <<Child(c1), PinnedChild(c1, 1), Child(c2), Child(c1)>>

CourseRows == [c \in Containers |-> IF c = u1 THEN <<UnitRows>> ELSE << <<Child(u1)>> >>]

CourseDependencies ==
    [e \in Entities |-> CASE e = u1 -> <<{c1, c2}>> [] e = s1 -> <<{u1}>> [] OTHER -> <<{}>>]

Created == [e \in Entities |-> 1]

\* A course made in one bulk context, with the forced numbers of a restored package.
CourseMade ==
    /\ dependencies = CourseDependencies
    /\ rows = CourseRows
    /\ versionNums = [e \in Entities |-> <<2>>]
    /\ draft = WithSideEffects(dependencies, Repoint(EmptyBranch, 1, Created), 1)
    /\ lastDraftLog = 1
    /\ openLogs = << >>

\* The first publish found nothing to publish.
NothingPublished ==
    /\ published = EmptyBranch
    /\ lastPublishLog = 1

WholeCoursePublished ==
    /\ published = WithSideEffects(dependencies, RecordPublish(EmptyBranch, 1, Entities), 1)
    /\ lastPublishLog = 1

CourseInit == CourseMade /\ (NothingPublished \/ WholeCoursePublished)

CourseSpec == CourseInit /\ [][ContainersNext]_containersVars

=============================================================================
