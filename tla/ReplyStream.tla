----------------------------- MODULE ReplyStream -----------------------------
(***************************************************************************)
(* One completion of the dialogue model, from the request to the words     *)
(* that are spoken: OpenRouterLLM's event stream, LLMRouter's first-token  *)
(* deadline with its one retry, the reassembly of streamed tool calls, the *)
(* round of the tool loop that consumes it, and the sentence chunker.      *)
(*                                                                         *)
(* The gateway is the environment: it may stall before the first event or  *)
(* after, refuse, break off, send what it should not (a fragment without   *)
(* its id, an id twice, a malformed line) or end early.  The turn may be   *)
(* cancelled at any await.  A tool call's arguments are the positions of   *)
(* the chunks they came in.                                                *)
(***************************************************************************)
EXTENDS Integers, Sequences, FiniteSets, Chunker

CONSTANTS
  Indices, Ids, Chars,       \* tool-call slots, call ids, the characters of a reply
  MAX_TOOL_CALL_INDICES, MAX_ARGUMENT_PARTS,   \* the assembler's limits
  MAX_REPLY_CHARS,           \* the consumer's limit
  MaxChunks,                 \* bound: lines the gateway sends
  Absent

ASSUME ReplyAssumption ==
  /\ Indices \subseteq Nat /\ Chars \subseteq Glyphs
  /\ {MAX_TOOL_CALL_INDICES, MAX_ARGUMENT_PARTS, MAX_REPLY_CHARS, MaxChunks} \subseteq Nat \ {0}
  /\ Absent \notin [id : Ids \union {Absent}, parts : Seq(Nat)]

VARIABLES
  phase,      \* of the request: "first" event awaited, "retry", "forward", "over"
  attempt,    \* 1 or 2
  open,       \* the attempts whose HTTP response is open
  sent,       \* history: what this attempt's response has carried
  partials,   \* _ToolCallAssembler: index -> what has arrived, or Absent
  content, calls, recorded,   \* what the round holds: text, calls, usage frames
  outcome     \* "none", "reply", "failed" or "cancelled"

replyVars == <<phase, attempt, open, sent, partials, content, calls, recorded, outcome>>

Running == phase \in {"first", "forward"}

\* A finite set of numbers in ascending order: the k-th has k - 1 below it.
Ascending(S) ==
  [k \in 1..Cardinality(S) |-> CHOOSE x \in S : Cardinality({y \in S : y < x}) = k - 1]

-----------------------------------------------------------------------------
(* The assembler.                                                          *)

Empty == [i \in Indices |-> Absent]
Pending(p) == {i \in Indices : p[i] # Absent}

\* _feed: the fragment of chunk n; the limits and a missing index are refused.
Refused(p, f) ==
  \/ f.index \notin Pending(p) /\ Cardinality(Pending(p)) >= MAX_TOOL_CALL_INDICES
  \/ f.index \in Pending(p) /\ f.part /\ Len(p[f.index].parts) >= MAX_ARGUMENT_PARTS

Feed(p, f, n) ==
  LET old == IF p[f.index] = Absent THEN [id |-> Absent, parts |-> <<>>] ELSE p[f.index]
  IN [p EXCEPT ![f.index] = [id |-> IF old.id = Absent THEN f.id ELSE old.id,
                             parts |-> IF f.part THEN Append(old.parts, n) ELSE old.parts]]

\* flush: the calls in index order; one without an id, or an id twice, is an error.
Whole(p) ==
  /\ \A i \in Pending(p) : p[i].id # Absent
  /\ \A i, j \in Pending(p) : p[i].id = p[j].id => i = j
Flush(p) == LET order == Ascending(Pending(p))
            IN [k \in DOMAIN order |-> p[order[k]]]

-----------------------------------------------------------------------------
(* The consumer: the stream is closed in its frame on every exit.          *)

Over(o) == phase' = "over" /\ outcome' = o /\ open' = {}

\* An exception: the stream's or the consumer's.  The turn is answered with an apology.
Fails == Over("failed") /\ UNCHANGED <<partials, content, calls, recorded>>

\* _ingest_event of a content delta; a reply that grows past its limit is refused.
Hears(c) ==
  /\ content' = (IF c = Absent THEN content ELSE Append(content, c))
  /\ IF Len(content') > MAX_REPLY_CHARS THEN Over("failed")
     ELSE phase' = "forward" /\ UNCHANGED <<open, outcome>>

-----------------------------------------------------------------------------
(* One line of the response, through the router to the round.              *)

Content(c) == Hears(c) /\ UNCHANGED <<partials, calls, recorded>>

\* Fragments go to the assembler; content beside them is passed on.
Fragment(f) ==
  IF Refused(partials, f) THEN Fails
  ELSE /\ partials' = Feed(partials, f, Len(sent) + 1)
       /\ Hears(f.content) /\ UNCHANGED <<calls, recorded>>

\* The usage frame flushes what is pending, then is metered (record_turn).  The arguments
\* may not parse.
Usage ==
  \/ /\ Whole(partials)
     /\ calls' = calls \o Flush(partials) /\ partials' = Empty
     /\ recorded' = recorded + 1
     /\ Hears(Absent)
  \/ /\ Pending(partials) # {} /\ Fails

\* Mutant: only the usage frame flushes.
EndsDropping ==
  /\ Over("reply") /\ UNCHANGED <<partials, content, calls, recorded>>

\* The response ends: calls still pending are flushed.
Ends ==
  \/ /\ Whole(partials)
     /\ calls' = calls \o Flush(partials) /\ partials' = Empty
     /\ Over("reply") /\ UNCHANGED <<content, recorded>>
  \/ Pending(partials) # {} /\ Fails

Fragments ==
  {f \in [index : Indices, id : Ids \union {Absent}, part : BOOLEAN, content : {Absent, "1"}] :
     /\ f.id = Absent => f.part
     /\ f.content # Absent => f.part /\ f.id # Absent}

Line ==
  /\ Running /\ Len(sent) < MaxChunks
  /\ \/ \E c \in Chars : Content(c) /\ sent' = Append(sent, [kind |-> "content", content |-> c])
     \/ \E f \in Fragments : Fragment(f) /\ sent' = Append(sent, [kind |-> "tool", frag |-> f])
     \/ Usage /\ sent' = Append(sent, [kind |-> "usage"])
  /\ UNCHANGED attempt

LastLine == Running /\ Ends /\ UNCHANGED <<attempt, sent>>

\* The gateway refuses, breaks off or sends a malformed line.
Breaks == Running /\ Fails /\ UNCHANGED <<attempt, sent>>

\* The HTTP client's read timeout.
Silence == Running /\ Fails /\ UNCHANGED <<attempt, sent>>

-----------------------------------------------------------------------------
(* The first-token deadline.                                               *)

\* _open_with_ttft_retry: the stalled stream is closed; the second stall is the end.
Deadline ==
  /\ phase = "first"
  /\ IF attempt = 1 THEN /\ phase' = "retry" /\ open' = open \ {1} /\ UNCHANGED outcome
     ELSE Over("failed")
  /\ UNCHANGED <<attempt, sent, partials, content, calls, recorded>>

Retry ==
  /\ phase = "retry"
  /\ phase' = "first" /\ attempt' = 2 /\ open' = open \union {2}
  /\ UNCHANGED <<sent, partials, content, calls, recorded, outcome>>

\* Mutant: a turn cancelled while it waits for the first token walks away.
CancelUnclosed ==
  /\ phase # "over"
  /\ phase' = "over" /\ outcome' = "cancelled"
  /\ open' = (IF phase = "first" THEN open ELSE {})
  /\ UNCHANGED <<attempt, sent, partials, content, calls, recorded>>

\* The turn is cancelled: each frame closes the stream it holds.
Cancel ==
  /\ phase # "over"
  /\ Over("cancelled")
  /\ UNCHANGED <<attempt, sent, partials, content, calls, recorded>>

ReplyInit ==
  /\ phase = "first" /\ attempt = 1 /\ open = {1} /\ sent = <<>>
  /\ partials = Empty /\ content = <<>> /\ calls = <<>> /\ recorded = 0 /\ outcome = "none"

ReplyNext == Line \/ LastLine \/ Breaks \/ Silence \/ Deadline \/ Retry \/ Cancel

\* The two clocks run and the router acts; the gateway need not say anything.
ReplySpec ==
  /\ ReplyInit /\ [][ReplyNext]_replyVars
  /\ WF_replyVars(Deadline) /\ WF_replyVars(Retry) /\ WF_replyVars(Silence)

-----------------------------------------------------------------------------
(* Properties.                                                             *)

\* What a response carries, by definition.  A usage frame ends a batch of calls: a line's
\* batch is the number of usage frames before it.
Batch(s, n) == Cardinality({k \in DOMAIN s : k < n /\ s[k].kind = "usage"})
Batches(s) == Batch(s, Len(s) + 1) + 1

\* The lines of a slot in a batch, and its call: the first id named there, and every part in
\* order.
Lines(s, b, i) ==
  {k \in DOMAIN s : s[k].kind = "tool" /\ Batch(s, k) = b /\ s[k].frag.index = i}
Named(s, ns) == {k \in ns : s[k].frag.id # Absent}
Parted(s, ns) == {k \in ns : s[k].frag.part}
CallOf(s, ns) ==
  [id |-> IF Named(s, ns) = {} THEN Absent ELSE s[Min(Named(s, ns))].frag.id,
   parts |-> Ascending(Parted(s, ns))]

\* Batch after batch, each in index order.
Slots(s, b) == {i \in Indices : Lines(s, b, i) # {}}
CallsOf(s, b) == LET order == Ascending(Slots(s, b))
                 IN [k \in DOMAIN order |-> CallOf(s, Lines(s, b, order[k]))]
CallsIn(s) == FlattenSeq([n \in 1..Batches(s) |-> CallsOf(s, n - 1)])

\* The characters beside them.
Says(line) == CASE line.kind = "content" -> line.content
                [] line.kind = "tool"    -> line.frag.content
                [] line.kind = "usage"   -> Absent
Heard(s) == {k \in DOMAIN s : Says(s[k]) # Absent}
TextIn(s) == LET said == Ascending(Heard(s))
             IN [n \in DOMAIN said |-> Says(s[said[n]])]

\* When the stream completes, the round holds exactly what the model sent on the attempt
\* that answered: every call whole and once, whatever the order its fragments came in, and
\* every character (_ToolCallAssembler, _forward_events, _ingest_event).
ReplyIsWhole == outcome = "reply" => calls = CallsIn(sent) /\ content = TextIn(sent)

\* Every response opened is closed, whether the model answers, stalls before or after its
\* first token, or the turn is cancelled (_close_quietly, aclosing); none is waited for
\* for ever.
StreamsAreClosed == (phase # "over") ~> (phase = "over" /\ open = {})

\* _screen_output: an empty reply, and one the output check does not pass, is replaced.
Fallback == <<"w", ".">>
Screened(text) == IF text = <<>> THEN {Fallback} ELSE {text, Fallback}

Printed(text) ==
  FlattenSeq([k \in DOMAIN text |-> IF text[k] = Space THEN <<>> ELSE <<text[k]>>])
EndsIn(text, tail) ==
  Len(text) >= Len(tail) /\ SubSeq(text, Len(text) - Len(tail) + 1, Len(text)) = tail

\* The sentences spoken are the reply as it passed the screen, nothing lost between them,
\* and a short reply is not cut inside a number (SentenceChunker).
SpeechIsWhole ==
  outcome = "reply" =>
    \A text \in Screened(content) :
      /\ Printed(FlattenSeq(Sentences(text))) = Printed(text)
      /\ Len(text) <= MAX_SENTENCE_CHARS =>
           \A k \in 2..Len(Pieces(text)) :
             ~(EndsIn(Pieces(text)[k - 1], <<"1", ".">>) /\ Head(Pieces(text)[k]) = "1")

\* From the gateway's fragments to the sentences spoken, nothing of a reply is lost, repeated
\* or misplaced (LLMRouter, _screen_output, SentenceChunker).
ReplyReachesCaller == ReplyIsWhole /\ SpeechIsWhole

\* conversation_manager.py, _screen_output: "dead air is the one thing a voice channel can't
\* ship" -- every answered turn has something to say.
NoDeadAir ==
  outcome = "reply" /\ calls = <<>> =>
    \A text \in Screened(content) : Sentences(text) # <<>>
=============================================================================
