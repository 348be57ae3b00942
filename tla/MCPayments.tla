----------------------------- MODULE MCPayments -----------------------------
(* Three requests of m1, which has both rows, one of m2, which has no      *)
(* limit row, and one of m3, which has no wallet.                          *)
EXTENDS Payments

MCPayer == [r \in Requests |-> CASE r = 4 -> "m2" [] r = 5 -> "m3" [] OTHER -> "m1"]

\* m1's first two fit the limit but not the wallet; the third fits both, alone.
MCAmount == <<2, 3, 4, 2, 1>>

MCBalance == [m \in Merchants |-> 4]
MCLimit == [m \in Merchants |-> 6]
MCUsed == [m \in Merchants |-> 1]
=============================================================================
