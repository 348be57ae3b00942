------------------------------- MODULE Chunker -------------------------------
(***************************************************************************)
(* The sentence chunker (voice/chunker.py): how a reply's text is cut into *)
(* the sentences that are synthesised.  A character is one of "a" (a word  *)
(* on the abbreviation list, or an initial), "w" (another word), "1" (a    *)
(* digit), "." , "!" (any terminal that needs no lookahead), "," (a clause *)
(* break), ")" (a quote or bracket that attaches) and " ".                 *)
(***************************************************************************)
EXTENDS Integers, Sequences, FiniteSetsExt, SequencesExt

CONSTANT MAX_SENTENCE_CHARS

ASSUME ChunkerAssumption == MAX_SENTENCE_CHARS \in Nat \ {0}

Space == " "
Glyphs == {"a", "w", "1", ".", "!", ",", ")", Space}
Attaches == {")", "!", "."}

CharAt(buf, i) == IF i \in DOMAIN buf THEN buf[i] ELSE "end"

\* Mutant: the lookahead is forgotten.
IsTerminalPeriodAtOnce(buf, i) == CharAt(buf, i - 1) \notin {".", "a"}

\* _is_terminal_period.
IsTerminalPeriod(buf, i) ==
  /\ CharAt(buf, i + 1) \notin {"1", "."}
  /\ CharAt(buf, i - 1) \notin {".", "a"}
  /\ ~(CharAt(buf, i + 1) = "end" /\ CharAt(buf, i - 1) = "1")

\* _extend_cut: what is attached to the sentence that ends after the first cut characters.
ExtendCut(buf, cut) ==
  CHOOSE n \in cut..Len(buf) :
    /\ \A i \in (cut + 1)..n : buf[i] \in Attaches
    /\ CharAt(buf, n + 1) \notin Attaches

\* _find_terminal_cut: 0 when the buffer holds no complete sentence.
TerminalCut(buf) ==
  LET ends == {i \in DOMAIN buf : buf[i] = "!" \/ (buf[i] = "." /\ IsTerminalPeriod(buf, i))}
  IN IF ends = {} THEN 0 ELSE ExtendCut(buf, Min(ends))

\* _find_overflow_cut: the last clause break, or the last space, of the longest sentence.
RightMost(buf, c) == Max({0} \union {i \in 1..MAX_SENTENCE_CHARS : buf[i] = c})
OverflowCut(buf) ==
  IF RightMost(buf, ",") > 1 THEN RightMost(buf, ",")
  ELSE IF RightMost(buf, Space) > 1 THEN RightMost(buf, Space) - 1
  ELSE MAX_SENTENCE_CHARS

\* _drain, one piece: where the next sentence ends, 0 for "wait".
NextCut(buf) ==
  IF TerminalCut(buf) > 0 THEN TerminalCut(buf)
  ELSE IF Len(buf) > MAX_SENTENCE_CHARS THEN OverflowCut(buf)
  ELSE 0

\* The last n characters.
Rear(text, n) == SubSeq(text, Len(text) - n + 1, Len(text))

\* feed of a whole reply, then flush: the pieces, before they are stripped.
Pieces(text) ==
  LET piece[n \in 0..Len(text)] ==   \* the pieces of the last n characters
        LET buf == Rear(text, n)
        IN IF n = 0 THEN <<>>
           ELSE IF NextCut(buf) = 0 THEN <<buf>>
           ELSE <<SubSeq(buf, 1, NextCut(buf))>> \o piece[n - NextCut(buf)]
  IN piece[Len(text)]

\* str.strip.
Inked(piece) == {i \in DOMAIN piece : piece[i] # Space}
Strip(piece) ==
  IF Inked(piece) = {} THEN <<>> ELSE SubSeq(piece, Min(Inked(piece)), Max(Inked(piece)))

\* _drain and flush: no sentence of nothing.
Kept(pieces) ==
  FlattenSeq([k \in DOMAIN pieces |->
                IF Strip(pieces[k]) = <<>> THEN <<>> ELSE <<Strip(pieces[k])>>])
Sentences(text) == Kept(Pieces(text))
=============================================================================
