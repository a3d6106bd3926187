---------------------------- MODULE MCParentEdges ----------------------------
(* A small instance of ParentEdges for TLC, and its notion of a cycle      *)
(* compared with the one of the Graphs module.                             *)
EXTENDS ParentEdges, TLC

G == INSTANCE Graphs

CONSTANTS s1, s2, s3, t1, t2

\* No set is closed under the parents exactly if no path returns to its start.
ASSUME CyclesAgree ==
    \A g \in Graph :
        Acyclic(g) <=> ~G!HasCycle([node |-> System,
                                  edge |-> {e \in System \X System : g[e[1]] = e[2]}])

Symmetric == Permutations(System) \cup Permutations(Txn)
==============================================================================
