--------------------------- MODULE MCRestServices ---------------------------
(***************************************************************************)
(* Instances of RestServices for TLC: three namespaces, each the parent of *)
(* the next, so that a lineage has every length the protocol allows.       *)
(***************************************************************************)
EXTENDS RestServices, TLC

CONSTANTS root, child, grandchild

ThreeNamespaces == {root, child, grandchild}

ParentChain ==
    [n \in ThreeNamespaces |->
        IF n = root THEN NoNamespace ELSE IF n = child THEN root ELSE child]

=============================================================================
