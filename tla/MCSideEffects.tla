---------------------------- MODULE MCSideEffects ---------------------------
(***************************************************************************)
(* Instances of SideEffects for TLC.                                       *)
(***************************************************************************)
EXTENDS SideEffects

CONSTANTS a, b, c, d, e

Four == {a, b, c, d}
Five == {a, b, c, d, e}

\* Every graph over four entities whose dependencies go from later to earlier
\* ones, and every graph at all, cycles included, over the first three.
Below == [x \in Entities |->
    CASE x = a -> {} [] x = b -> {a} [] x = c -> {a, b} [] OTHER -> {a, b, c}]
AcyclicGraphs == {g \in [Entities -> SUBSET {a, b, c}] : \A x \in Entities : g[x] \subseteq Below[x]}
ThreeNodeGraphs == {g \in [Entities -> SUBSET {a, b, c}] : g[d] = {}}
AllGraphs == AcyclicGraphs \cup ThreeNodeGraphs

\* A Component in two Units of one Subsection of a Section.
SharedComponent == {[x \in Entities |->
    CASE x = a -> {} [] x \in {b, c} -> {a} [] x = d -> {b, c} [] OTHER -> {d}]}

=============================================================================
