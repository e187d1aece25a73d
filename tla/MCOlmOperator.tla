--------------------------- MODULE MCOlmOperator ---------------------------
(***************************************************************************)
(* Instances of OlmOperator: two operators that share a namespace, as      *)
(* testpmd-operator and trex-operator do in example_cnf_deploy.            *)
(***************************************************************************)
EXTENDS OlmOperator

CONSTANTS testpmd, trex

MCOperators == {testpmd, trex}

Include(o, g, a, p, s, v) ==
  [op |-> o, group |-> g, approval |-> a, pin |-> p, skippable |-> s, validate |-> v]

\* A default include, a pinned one, and an automatic one that may be skipped and
\* does not validate.
MCRequests ==
  { Include(testpmd, "shared", "Manual", 0, FALSE, TRUE),
    Include(testpmd, "shared", "Manual", 1, FALSE, TRUE),
    Include(trex, "shared", "Automatic", 0, TRUE, FALSE) }

\* Only Manual includes that pin nothing; one uses an OperatorGroup of its own.
MCManualRequests ==
  { Include(testpmd, "shared", "Manual", 0, FALSE, TRUE),
    Include(testpmd, "shared", "Manual", 0, FALSE, FALSE),
    Include(trex, "shared", "Manual", 0, TRUE, FALSE),
    Include(trex, "trex", "Manual", 0, TRUE, TRUE) }

\* The attempts of a wait differ from none at all only in where the cluster
\* moves between two of them: one retry shows it.
MCTries      == [w \in Waits |-> IF w \in {"plan", "package"} THEN 1 ELSE 0]
=============================================================================
