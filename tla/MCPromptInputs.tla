--------------------------- MODULE MCPromptInputs ---------------------------
(***************************************************************************)
(* One run of two models that share no state and feed the same prompt: the *)
(* screen the app shows (ContextSync), and what memory holds (Recall).     *)
(* One moves only while the other is at its start, so that the run         *)
(* explores each and not their product.                                    *)
(*                                                                         *)
(* s1 of m1 ended before; s2 of m1 and s3 of m2 are live.  An entry with   *)
(* many tags to escape does not fit its slot beside another; the second    *)
(* edition drops article "b" and changes "a".  70 and 69 are on the two    *)
(* sides of the floor.                                                     *)
(***************************************************************************)
EXTENDS MCContextSync, Recall

MCTexts == {"fees", "limits", "payout", "decoy", "vague", "asked", "raised"}
MCChars ==
  [t \in Texts |-> CASE t = "payout" -> 400 [] t = "limits" -> 300 [] t = "raised" -> 120
                     [] OTHER -> 80]
MCEscapes == [t \in Texts |-> CASE t = "payout" -> 200 [] t = "limits" -> 100 [] OTHER -> 0]
MCSimilarity ==
  [t \in Texts |-> CASE t = "fees" -> 95 [] t = "payout" -> 90 [] t = "limits" -> 85
                     [] t = "decoy" -> 80 [] t = "vague" -> 69 [] OTHER -> 70]

First  == [a \in Slugs |-> IF a = "a" THEN {"fees", "payout"} ELSE {"vague"}]
Second == [a \in Slugs |-> IF a = "a" THEN {"limits", "payout"} ELSE {}]
MCEditions == {First, Second}

MCOwner == [s \in Sessions |-> IF s = "s3" THEN "m2" ELSE "m1"]
MCSummaryText == [s \in Sessions |-> IF s = "s2" THEN "decoy" ELSE "raised"]
MCIssueText == [s \in Sessions |-> IF s = "s3" THEN "decoy" ELSE "asked"]
MCIdentity == [m \in Merchants |-> IF m = "m1" THEN 250 ELSE 330]

-----------------------------------------------------------------------------
\* One of ContextSync's initial states is enough for Recall to start from.
AtRest == Init /\ tree = None /\ face = [l \in Labels |-> 1]

PromptInit == Init /\ RecallInit
PromptNext ==
  \/ RecallInit /\ Next /\ UNCHANGED recallVars
  \/ AtRest /\ RecallNext /\ UNCHANGED vars
PromptSpec == PromptInit /\ [][PromptNext]_<<vars, recallVars>> /\ Fairness
=============================================================================
