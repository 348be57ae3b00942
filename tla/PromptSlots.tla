----------------------------- MODULE PromptSlots -----------------------------
(***************************************************************************)
(* The slots memory fills in the system prompt, as operators: open issues  *)
(* behind the identity line, and the retrieved knowledge.  A text counts   *)
(* by its characters, by those PromptBuilder's escape adds to it, and by   *)
(* whether looks_injected drops it.  Budgets are the code's.               *)
(***************************************************************************)
EXTENDS Integers, Sequences, SequencesExt, Lists

CONSTANTS
  Texts,
  Chars, Escapes,       \* a text's length; what escape_slot_tags adds to it
  Suspect               \* texts that look like an instruction

ASSUME TextsAssumption ==
  /\ Chars \in [Texts -> Nat \ {0}] /\ Escapes \in [Texts -> Nat]
  /\ Suspect \subseteq Texts

PROFILE_SLOT_BUDGET == 200
KNOWLEDGE_SLOT_BUDGET == 300
KNOWLEDGE_HEADER == 91
OPEN_ISSUES_HEADER == 186
RETRIEVAL_TOP_K == 3

\* estimate_tokens: chars / 3.5 and a tenth, rounded up.
Tokens(chars) == (11 * chars + 34) \div 35

\* Three entries at the cap, the header and the newlines fit the slot.
ENTRY_CHARS ==
  ((KNOWLEDGE_SLOT_BUDGET * 35) \div 11 - KNOWLEDGE_HEADER - RETRIEVAL_TOP_K)
    \div RETRIEVAL_TOP_K

\* A header and lines of these lengths, joined by newlines.
Joined(header, sizes) ==
  LET joined[n \in 0..Len(sizes)] == IF n = 0 THEN header ELSE joined[n - 1] + 1 + sizes[n]
  IN joined[Len(sizes)]

\* Mutant: a budget check that stops one line late.
FitOneMore(header, sizes, budget) ==
  CHOOSE n \in 0..Len(sizes) :
    /\ n = 0 \/ Tokens(Joined(header, SubSeq(sizes, 1, n - 1))) <= budget
    /\ \A m \in n + 1..Len(sizes) : Tokens(Joined(header, SubSeq(sizes, 1, m - 1))) > budget

\* Lines are dropped from the tail until the rest fits.
Fit(header, sizes, budget) ==
  CHOOSE n \in 0..Len(sizes) :
    /\ n = 0 \/ Tokens(Joined(header, SubSeq(sizes, 1, n))) <= budget
    /\ \A m \in n + 1..Len(sizes) : Tokens(Joined(header, SubSeq(sizes, 1, m))) > budget

Clean(items) == Without(items, {item \in ToSet(items) : item.text \in Suspect})

\* "- ", the summary, " (opened ", the date, ")".
IssueSize(issue) == Chars[issue.text] + Escapes[issue.text] + 22
IssueSizes(issues) == [n \in DOMAIN issues |-> IssueSize(issues[n])]

\* Newest first; the stored tuple is oldest first.
render_open_issues(issues, budget) ==
  LET kept == Clean(Reverse(issues))
  IN SubSeq(kept, 1, Fit(OPEN_ISSUES_HEADER, IssueSizes(kept), budget))

\* The identity line has no tag in it; what it leaves is for the issues.
compose_profile_slot(identity, issues) ==
  render_open_issues(issues, PROFILE_SLOT_BUDGET - Tokens(identity))

\* A cut takes the rest of a word as well: the cap is the longest it leaves.
truncate_to_chars(chars, cap) == IF chars <= cap THEN chars ELSE cap

\* "[kb 0.83] " and "[past call 0.75] " are part of the entry and of its cap.
Label(kind) == IF kind = "kb_article" THEN 10 ELSE 17
EntrySize(result) ==
  truncate_to_chars(Label(result.kind) + Chars[result.text], ENTRY_CHARS) + Escapes[result.text]
EntrySizes(results) == [n \in DOMAIN results |-> EntrySize(results[n])]

\* The longest head of the results that fits; of nothing, KNOWLEDGE_UNAVAILABLE.
render_knowledge_slot(results) ==
  LET kept == Clean(results)
  IN SubSeq(kept, 1, Fit(KNOWLEDGE_HEADER, EntrySizes(kept), KNOWLEDGE_SLOT_BUDGET))
=============================================================================
