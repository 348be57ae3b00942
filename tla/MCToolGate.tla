----------------------------- MODULE MCToolGate -----------------------------
EXTENDS ToolGate

\* A raise and a different raise; the app asks for the second.
OneAsk == {[from |-> 1, to |-> 3]}
TwoAsks == {[from |-> 1, to |-> 2], [from |-> 1, to |-> 3]}
=============================================================================
