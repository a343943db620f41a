----------------------- MODULE MCInferenceCoordinator -----------------------
(* Instances for TLC: which priority, kind, model and size each operation has. *)
EXTENDS InferenceCoordinator

CONSTANTS i1, i2, b1, m1, m2, m3

MCPriority == [op \in Operations |-> IF op \in {i1, i2} THEN "interactive" ELSE "background"]
MCKind == [op \in Operations |-> IF op = b1 THEN "embed" ELSE "countTokens"]
MCModel == [op \in Operations |-> CASE op = i1 -> m1 [] op = b1 -> m2 [] OTHER -> m3]
MCBytes == [op \in Operations |-> IF op \in {i1, b1} THEN 2 ELSE 1]
=============================================================================
