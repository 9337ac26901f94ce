------------------------------ MODULE MCHelmet ------------------------------
(* Small instances of Helmet for TLC.                                      *)
EXTENDS Helmet

\* The process that is being replaced has the gate on; for its successor alice is
\* root, and whoever is not runs ungated.
MCRequireApproval == [l \in Loops |-> l = "old"]
MCRoots == [l \in Loops |-> IF l = "old" THEN {} ELSE {"alice"}]
=============================================================================
