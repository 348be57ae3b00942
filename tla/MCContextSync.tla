---------------------------- MODULE MCContextSync ---------------------------
EXTENDS ContextSync

\* A value that changes, and a component that comes and goes.
TwoLabels == {"cta", "row"}
TwoFaces ==
  { [l \in TwoLabels |-> 1],
    [l \in TwoLabels |-> IF l = "cta" THEN 2 ELSE 0] }
=============================================================================
