------------------------------ MODULE Releases ------------------------------
(***************************************************************************)
(* What publishing promises, without any log: authors change drafts one at *)
(* a time or discard them all, and a release publishes some of them.  A    *)
(* release, once made, can be read for ever: it is what the whole learning *)
(* package had published at that time (get_published_version_as_of).       *)
(***************************************************************************)
EXTENDS Naturals, Sequences

CONSTANT Entities

VARIABLES
    draft,        \* the draft version of each entity, None when it has none
    published,    \* the published version of each entity
    releases      \* published, as it was after each publish so far

vars == <<draft, published, releases>>

None == 0
Nothing == [e \in Entities |-> None]

Init ==
    /\ draft = Nothing
    /\ published = Nothing
    /\ releases = << >>

\* An author creates, replaces, restores or deletes the draft of one entity.
Edit ==
    /\ draft' \in [Entities -> Nat]
    /\ \E e \in Entities : \A x \in Entities \ {e} : draft'[x] = draft[x]
    /\ UNCHANGED <<published, releases>>

\* All drafts go back to what is published.
Discard ==
    /\ draft' = published
    /\ UNCHANGED <<published, releases>>

\* The drafts of some entities are published; the rest stays as it was.
Release ==
    /\ \E P \in SUBSET Entities :
          published' = [e \in Entities |-> IF e \in P THEN draft[e] ELSE published[e]]
    /\ releases' = Append(releases, published')
    /\ UNCHANGED draft

Next == Edit \/ Discard \/ Release

Spec == Init /\ [][Next]_vars

=============================================================================
