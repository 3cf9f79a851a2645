------------------------- MODULE MCConcurrentEdits -------------------------
(***************************************************************************)
(* An instance of ConcurrentEdits for TLC: two sessions on the Components  *)
(* of a published course, in which every Component has a second version.   *)
(***************************************************************************)
EXTENDS ConcurrentEdits

CONSTANTS c1, c2, u1, u2, s1

\* Two Components in two Units of a Subsection, one of them in both.
MCEntities == {c1, c2, u1, u2, s1}

MCLevel == [e \in Entities |-> CASE e \in {c1, c2} -> 0 [] e \in {u1, u2} -> 1 [] OTHER -> 2]

MCEdited == {c1, c2}

CourseDependencies == [e \in Entities |->
    CASE e \in {c1, c2} -> <<{}, {}>>
      [] e = u1 -> <<{c1, c2}>>
      [] e = u2 -> <<{c2}>>
      [] e = s1 -> <<{u1, u2}>>]

SessionSymmetry == Permutations(Sessions)

Created == [e \in Entities |-> 1]

CourseInit ==
    /\ dependencies = CourseDependencies
    /\ draft = WithSideEffects(dependencies, Repoint(EmptyBranch, 1, Created), 1)
    /\ published = WithSideEffects(dependencies, RecordPublish(EmptyBranch, 1, Entities), 1)
    /\ lastDraftLog = 1
    /\ lastPublishLog = 1
    /\ openLogs = << >>
    /\ tx = [s \in Sessions |-> Idle]
    /\ ConcurrentInit

CourseSpec == CourseInit /\ [][ConcurrentNext]_concurrentVars

=============================================================================
