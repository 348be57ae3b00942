----------------------------- MODULE CallMemory -----------------------------
(***************************************************************************)
(* What one call leaves in memory: the transcript window and the rolling   *)
(* summary in the session hash, the costs of its completions, and after    *)
(* hang-up the ledger row, the saved summary and the merchant's profile.   *)
(*                                                                         *)
(* Actors share one event loop and interleave at their awaits: the turn    *)
(* loop (ConversationManager), the folds Summarizer.kick detaches, the     *)
(* media meters, and on_call_ended.  A second call of the same merchant    *)
(* may end at the same time and merge into the same profile row.  Turns    *)
(* are their numbers, every completion and every metered unit of media     *)
(* costs 1, an issue is its id.                                            *)
(***************************************************************************)
EXTENDS Integers, Sequences, FiniteSets, FiniteSetsExt, SequencesExt, Lists

CONSTANTS
  FIRST_FOLD_TURN, FOLD_INTERVAL, WINDOW_TURNS,  \* summarizer.py
  MAX_BUFFERED_TURNS,                            \* summarizer.py
  MAX_TRANSCRIPT_TURNS,                          \* session_memory.py: counts messages
  MAX_OPEN_ISSUES,                               \* user_profile.py
  END_RETRY_ATTEMPTS,                            \* run.py
  Issues,             \* ids a tool may confirm
  MaxTurns, MaxMedia, MaxRounds, MaxConfirmed, MaxFaults,
  None

ASSUME MemoryAssumption ==
  /\ {FOLD_INTERVAL, WINDOW_TURNS, MAX_BUFFERED_TURNS, MAX_TRANSCRIPT_TURNS,
      MAX_OPEN_ISSUES, END_RETRY_ATTEMPTS} \subseteq Nat \ {0}
  /\ FIRST_FOLD_TURN \in Nat /\ WINDOW_TURNS < FIRST_FOLD_TURN
  /\ {MaxTurns, MaxMedia, MaxRounds, MaxConfirmed, MaxFaults} \subseteq Nat
  /\ None \notin [thru : Int, of : SUBSET Int] /\ None \notin {"own", "rival"}
  /\ None \notin Seq(Issues)

VARIABLES
  phase,              \* of the call: talking, then on_call_ended's steps
  turnNo, turn,       \* ConversationManager: the turn, what it is awaiting
  rounds,             \* its completions so far
  window,             \* transcript in session:{id}: the turn of each message
  buffer, dropped,    \* Summarizer._buffer; turns its overflow shed
  summary, stored,    \* Summarizer._summary; the summary in session:{id}
  folds,              \* fold tasks in flight
  records, media, published,  \* CostTracker: completions, media, its watermark
  counter, rmw,       \* session:{id}.cost_usd; each actor's add_cost in flight
  ledger, tail,       \* call_costs; completions after it was written
  tries, ended, saved,   \* end(): attempts; the state flip; conversation_summaries
  profile, lock,      \* user_profiles: the row, its row lock
  merges, merged,     \* each call's merge in flight; the calls whose merge is over
  faults

turnVars == <<turnNo, turn, rounds, window>>
foldVars == <<buffer, dropped, summary, stored, folds>>
costVars == <<records, media, published, counter, rmw>>
endVars  == <<ledger, tail, tries, ended, saved>>
profVars == <<profile, lock, merges, merged>>
vars     == <<phase, turnVars, foldVars, costVars, endVars, profVars, faults>>

Fault == faults < MaxFaults /\ faults' = faults + 1

\* A rolling summary: the boundary it claims, the turns its text was made from.
Covered(s) == IF s = None THEN {} ELSE s.of
Thru(s) == IF s = None THEN 0 ELSE s.thru

-----------------------------------------------------------------------------
(* The turn loop.                                                          *)

\* append_message, best effort: a failed write leaves the window.
AppendMessage(w, t) ==
  LET all == Append(w, t)
  IN SubSeq(all, IF Len(all) > MAX_TRANSCRIPT_TURNS
                 THEN Len(all) - MAX_TRANSCRIPT_TURNS + 1 ELSE 1, Len(all))

\* ContextBuilder.build: the turns the prompt shows, when the reads in up succeed.  A read
\* that fails leaves its slot empty and the turn goes on.
Window(up) == IF "window" \in up THEN ToSet(window) ELSE {}
SummarySlot(up) == IF "summary" \in up THEN Covered(stored) ELSE {}
PromptTurns(up) == Window(up) \cup SummarySlot(up)

StartTurn ==
  /\ phase = "talking" /\ turn = "idle" /\ turnNo < MaxTurns
  /\ turnNo' = turnNo + 1 /\ turn' = "thinking" /\ rounds' = 0
  /\ \/ window' = AppendMessage(window, turnNo + 1) /\ UNCHANGED faults
     \/ Fault /\ UNCHANGED window
  /\ UNCHANGED <<phase, foldVars, costVars, endVars, profVars>>

\* Mutant: hands over all media metered so far, every time.
TakeAllMediaCost == <<media, published>>

\* take_unpublished_media_cost: the media since the watermark, and the watermark.
TakeUnpublishedMediaCost == <<media - published, media>>

\* A usage frame: record_turn, then add_cost begins.
Usage ==
  /\ turn = "thinking" /\ rounds < MaxRounds
  /\ records' = records + 1 /\ rounds' = rounds + 1
  /\ published' = TakeUnpublishedMediaCost[2]
  /\ rmw' = [rmw EXCEPT !["turn"] =
               [read |-> None, delta |-> 1 + TakeUnpublishedMediaCost[1]]]
  /\ turn' = "billing"
  /\ UNCHANGED <<phase, turnNo, window, foldVars, media, counter, endVars, profVars, faults>>

\* record_stt_audio, record_tts_text: synchronous callbacks of the media path.
Meter ==
  /\ phase = "talking" /\ media < MaxMedia
  /\ media' = media + 1
  /\ UNCHANGED <<phase, turnVars, foldVars, records, published, counter, rmw,
                 endVars, profVars, faults>>

\* add_cost is a read and a write with an await between them.
ReadCost(a) ==
  /\ rmw[a] # None /\ rmw[a].read = None
  /\ rmw' = [rmw EXCEPT ![a].read = counter]
  /\ UNCHANGED <<phase, turnVars, foldVars, records, media, published, counter,
                 endVars, profVars, faults>>

\* The write lands; the actor goes on.
WriteCost(a) ==
  /\ rmw[a] # None /\ rmw[a].read # None
  /\ counter' = rmw[a].read + rmw[a].delta
  /\ rmw' = [rmw EXCEPT ![a] = None]
  /\ turn' = IF a = "turn" THEN "thinking" ELSE turn
  /\ folds' = IF a = "fold"
              THEN {[f EXCEPT !.at = IF f.at = "billing" /\ f.ok THEN "writing" ELSE @] :
                      f \in {g \in folds : g.at # "billing" \/ g.ok}}
              ELSE folds
  /\ UNCHANGED <<phase, turnNo, rounds, window, buffer, dropped, summary, stored,
                 records, media, published, endVars, profVars, faults>>

\* Redis raises, before the write took effect or after: the turn goes to its
\* apology, the fold ends.
CostFails(a) ==
  /\ rmw[a] # None /\ Fault
  /\ counter' \in {counter} \cup
       (IF rmw[a].read = None THEN {} ELSE {rmw[a].read + rmw[a].delta})
  /\ rmw' = [rmw EXCEPT ![a] = None]
  /\ turn' = IF a = "turn" THEN "apology" ELSE turn
  /\ folds' = IF a = "fold" THEN {f \in folds : f.at # "billing"} ELSE folds
  /\ UNCHANGED <<phase, turnNo, rounds, window, buffer, dropped, summary, stored,
                 records, media, published, endVars, profVars>>

\* Summarizer.observe_turn: the oldest turns are shed over the cap.
Shed(b) == {t \in b : Cardinality({u \in b : u >= t}) > MAX_BUFFERED_TURNS}
Observe(b) ==
  /\ dropped' = dropped \cup Shed(b)
  /\ buffer' = b \ Shed(b)

ShouldFold(n) == n >= FIRST_FOLD_TURN /\ (n - FIRST_FOLD_TURN) % FOLD_INTERVAL = 0
SummaryThruTurn(n) == n - WINDOW_TURNS

\* _render_prompt: the summary so far and the turns that depart from the buffer.
RenderPrompt(departing) == Covered(summary) \cup departing

\* A fold task has read what it will summarise by the time anything else runs.
FoldTask(thru, b) ==
  [thru |-> thru, of |-> RenderPrompt({t \in b : t <= thru}), at |-> "model", ok |-> FALSE]

\* Mutant: no single flight.
KickAlways(n, b) ==
  folds' = IF ShouldFold(n) /\ SummaryThruTurn(n) > Thru(summary)
           THEN folds \cup {FoldTask(SummaryThruTurn(n), b)} ELSE folds

\* Summarizer.kick: at a fold point whose boundary is not covered, one at a time.
\* A task that finds nothing to fold ends at once.
Kick(n, b) ==
  folds' = IF /\ ShouldFold(n) /\ SummaryThruTurn(n) > Thru(summary) /\ folds = {}
              /\ \E t \in b : t <= SummaryThruTurn(n)
           THEN {FoldTask(SummaryThruTurn(n), b)} ELSE folds

\* The reply, or the apology of a turn that failed, is appended; observe, kick.
FinishTurn ==
  /\ turn \in {"thinking", "apology"}
  /\ turn' = "idle"
  /\ \/ window' = AppendMessage(window, turnNo) /\ UNCHANGED faults
     \/ Fault /\ UNCHANGED window
  /\ Observe(buffer \cup {turnNo})
  /\ Kick(turnNo, buffer')
  /\ UNCHANGED <<phase, turnNo, rounds, summary, stored, costVars, endVars, profVars>>

-----------------------------------------------------------------------------
(* The fold: Summarizer._guarded_fold, one detached task.                  *)

\* _consume: the usage frame is recorded, and add_cost follows.
Consume ==
  /\ records' = records + 1
  /\ rmw' = [rmw EXCEPT !["fold"] = [read |-> None, delta |-> 1]]

\* The model answers with a usage frame; the text may still turn out unusable.
FoldAnswers ==
  \E f \in folds :
    /\ f.at = "model"
    /\ \E ok \in BOOLEAN :
         /\ folds' = (folds \ {f}) \cup {[f EXCEPT !.at = "billing", !.ok = ok]}
         /\ IF ok THEN UNCHANGED faults ELSE Fault
    /\ Consume
    /\ UNCHANGED <<phase, turnVars, buffer, dropped, summary, stored, media, published,
                   counter, endVars, profVars>>

\* No usage frame came: the router failed or the fold timed out.
FoldFails ==
  \E f \in folds :
    /\ f.at = "model" /\ Fault
    /\ folds' = folds \ {f}
    /\ UNCHANGED <<phase, turnVars, buffer, dropped, summary, stored, costVars, endVars,
                   profVars>>

\* Mutant: the buffer is shed when the write is tried, not when it has landed.
FoldWritesShedFirst ==
  \E f \in folds :
    /\ f.at = "writing"
    /\ folds' = folds \ {f}
    /\ buffer' = {t \in buffer : t > f.thru}
    /\ LET new == [thru |-> f.thru, of |-> f.of]
       IN \/ stored' = new /\ summary' = new /\ UNCHANGED faults
          \/ Fault /\ UNCHANGED <<stored, summary>>
    /\ UNCHANGED <<phase, turnVars, dropped, costVars, endVars, profVars>>

\* set_summary, and only after it the task's own state.  A failure or the timeout
\* may hit before the write took effect or after.
FoldWrites ==
  \E f \in folds :
    /\ f.at = "writing"
    /\ folds' = folds \ {f}
    /\ LET new == [thru |-> f.thru, of |-> f.of]
       IN \/ /\ stored' = new /\ summary' = new
             /\ buffer' = {t \in buffer : t > f.thru}
             /\ UNCHANGED faults
          \/ Fault /\ stored' \in {stored, new} /\ UNCHANGED <<summary, buffer>>
    /\ UNCHANGED <<phase, turnVars, dropped, costVars, endVars, profVars>>

-----------------------------------------------------------------------------
(* on_call_ended: drain, finalize, end, then the post-call memory.         *)

\* The turn that runs is cancelled; a cost write it awaits may have landed.
HangUp ==
  /\ phase = "talking"
  /\ phase' = "draining"
  /\ turn' = "idle"
  /\ rmw' = [rmw EXCEPT !["turn"] = None]
  /\ \/ UNCHANGED counter
     \/ /\ rmw["turn"] # None /\ rmw["turn"].read # None
        /\ counter' = rmw["turn"].read + rmw["turn"].delta
  /\ UNCHANGED <<turnNo, rounds, window, foldVars, records, media, published,
                 endVars, profVars, faults>>

\* The turn records flushed to session:{id}:turns, one per completion, and the total.
Ledger == [turns |-> records, total |-> records + media]

\* Mutant: finalize does not wait for the fold in flight.
FinalizeUndrained ==
  /\ phase = "draining"
  /\ \/ phase' = "ending" /\ ledger' = Ledger /\ UNCHANGED faults
     \/ phase' = "dead" /\ Fault /\ UNCHANGED ledger
  /\ UNCHANGED <<turnVars, foldVars, costVars, tail, tries, ended, saved, profVars>>

\* drain, then CostTracker.finalize.  It is not retried: when it raises, end() is
\* never reached.
Finalize ==
  /\ phase = "draining" /\ folds = {}
  /\ \/ phase' = "ending" /\ ledger' = Ledger /\ UNCHANGED faults
     \/ phase' = "dead" /\ Fault /\ UNCHANGED ledger
  /\ UNCHANGED <<turnVars, foldVars, costVars, tail, tries, ended, saved, profVars>>

\* _end_with_retry.  end() refuses a call without a ledger, and commits the flip and
\* the drain of the turn records together; a duplicate end() returns before the memory
\* stages, so a commit whose reply was lost leaves them out.
End ==
  /\ phase = "ending"
  /\ tries' = tries + 1
  /\ \/ /\ ended \/ ledger # None
        /\ ended' = TRUE /\ phase' = (IF ended THEN "done" ELSE "summary")
        /\ UNCHANGED faults
     \/ /\ Fault
        /\ ended' \in {ended, TRUE}
        /\ phase' = IF tries' < END_RETRY_ATTEMPTS THEN "ending" ELSE "dead"
  /\ UNCHANGED <<turnVars, foldVars, costVars, ledger, tail, saved, profVars>>

\* fold_pending has landed.
Folded(new, departing) ==
  stored' = new /\ summary' = new /\ buffer' = buffer \ departing

\* _save_summary: fold_pending up to turn_count, which is the number of turn records, then
\* the row.  With nothing left to fold, what the last fold stored is saved, if anything.  A
\* step that fails ends the stage with what the steps before it did.
SaveSummary ==
  /\ phase = "summary"
  /\ phase' = "profile"
  /\ LET departing == {t \in buffer : t <= ledger.turns}
         new == [thru |-> ledger.turns, of |-> RenderPrompt(departing)]
     IN \/ Fault /\ UNCHANGED <<buffer, summary, stored, records, counter, tail, saved>>
        \/ /\ departing = {} /\ saved' = stored
           /\ UNCHANGED <<buffer, summary, stored, records, counter, tail, faults>>
        \/ /\ departing # {}
           /\ records' = records + 1 /\ tail' = tail + 1
           /\ \/ Folded(new, departing) /\ counter' = counter + 1 /\ saved' = new
                 /\ UNCHANGED faults
              \/ Folded(new, departing) /\ counter' = counter + 1 /\ saved' \in {saved, new}
                 /\ Fault
              \/ /\ Fault /\ counter' \in {counter, counter + 1}
                 /\ stored' \in {stored} \cup (IF counter' > counter THEN {new} ELSE {})
                 /\ UNCHANGED <<summary, buffer, saved>>
  /\ UNCHANGED <<turnVars, dropped, folds, media, published, rmw, ledger, tries, ended,
                 profVars>>

-----------------------------------------------------------------------------
(* UserProfileMemory.merge_post_call, in one transaction.  merges[c] is    *)
(* [open, row] between its read and its write, None outside.               *)

Calls == {"own", "rival"}

\* _open_issues: what a call's tools confirmed, in order.
Confirmed == {s \in UNION {[1..n -> Issues] : n \in 0..MaxConfirmed} : IsInjective(s)}

\* _validate_issues: an absent row is a profile with no issues.
Load(row) == IF row = None THEN <<>>
             ELSE SubSeq(row, IF Len(row) > MAX_OPEN_ISSUES
                              THEN Len(row) - MAX_OPEN_ISSUES + 1 ELSE 1, Len(row))

\* _evict_to_cap: the oldest issues this merge did not touch; if that is not enough,
\* the oldest of all.
Evict(list, touched) ==
  LET surplus == Len(list) - MAX_OPEN_ISSUES
      old == Without(list, touched)
      out == IF surplus <= 0 THEN {} ELSE ToSet(SubSeq(old, 1, Min({surplus, Len(old)})))
  IN Load(Without(list, out))

\* _open_issue for one after the other: a known issue is rebuilt in its place, a new one
\* appended.
OpenIssues(list, opened) == list \o Without(opened, ToSet(list))

\* _merge_issues: the confirmed issues, then the cap.
MergeIssues(current, opened) == Evict(OpenIssues(current, opened), ToSet(opened))

MayMerge(c) ==
  /\ IF c = "own" THEN phase = "profile" ELSE phase \in {"profile", "done"}
  /\ c \notin merged /\ merges[c] = None

\* Mutant: the read takes no row lock.
MergeReadUnlocked(c) ==
  /\ MayMerge(c)
  /\ \E o \in Confirmed : merges' = [merges EXCEPT ![c] = [open |-> o, row |-> profile]]
  /\ UNCHANGED <<phase, turnVars, foldVars, costVars, endVars, profile, lock, merged, faults>>

\* SELECT ... FOR UPDATE: only a row that exists can be locked.
MergeRead(c) ==
  /\ MayMerge(c)
  /\ lock = None
  /\ lock' = IF profile = None THEN None ELSE c
  /\ \E o \in Confirmed : merges' = [merges EXCEPT ![c] = [open |-> o, row |-> profile]]
  /\ UNCHANGED <<phase, turnVars, foldVars, costVars, endVars, profile, merged, faults>>

Merging(c) == merges[c] # None

MergeOver(c) ==
  /\ merges' = [merges EXCEPT ![c] = None] /\ merged' = merged \cup {c}
  /\ lock' = IF lock = c THEN None ELSE lock
  /\ phase' = IF c = "own" THEN "done" ELSE phase
  /\ UNCHANGED <<turnVars, foldVars, costVars, endVars>>

\* INSERT ... ON CONFLICT DO UPDATE of the whole row, and the commit.
MergeWrite(c) ==
  /\ Merging(c) /\ lock \in {None, c}
  /\ profile' = MergeIssues(Load(merges[c].row), merges[c].open)
  /\ MergeOver(c) /\ UNCHANGED faults

\* The stage fails and is skipped.
MergeFails(c) == Merging(c) /\ Fault /\ MergeOver(c) /\ UNCHANGED profile

-----------------------------------------------------------------------------

Init ==
  /\ phase = "talking"
  /\ turnNo = 0 /\ turn = "idle" /\ rounds = 0 /\ window = <<>>
  /\ buffer = {} /\ dropped = {} /\ summary = None /\ stored = None /\ folds = {}
  /\ records = 0 /\ media = 0 /\ published = 0 /\ counter = 0
  /\ rmw = [a \in {"turn", "fold"} |-> None]
  /\ ledger = None /\ tail = 0 /\ tries = 0 /\ ended = FALSE /\ saved = None
  /\ profile \in {None} \cup Confirmed
  /\ lock = None /\ merges = [c \in Calls |-> None] /\ merged = {}
  /\ faults = 0

Next ==
  \/ StartTurn \/ Usage \/ Meter \/ FinishTurn
  \/ \E a \in {"turn", "fold"} : ReadCost(a) \/ WriteCost(a) \/ CostFails(a)
  \/ FoldAnswers \/ FoldFails \/ FoldWrites
  \/ HangUp \/ Finalize \/ End \/ SaveSummary
  \/ \E c \in Calls : MergeRead(c) \/ MergeWrite(c) \/ MergeFails(c)

Spec == Init /\ [][Next]_vars

-----------------------------------------------------------------------------
(* Properties.                                                             *)

Summaries == {None} \cup [thru : 0..(MaxTurns * (MaxRounds + 1)), of : SUBSET (1..MaxTurns)]

\* Every variable has its type; at most one fold runs, and only it bills as "fold".
TypeOK ==
  /\ phase \in {"talking", "draining", "ending", "summary", "profile", "done", "dead"}
  /\ turnNo \in 0..MaxTurns /\ turn \in {"idle", "thinking", "billing", "apology"}
  /\ rounds \in 0..MaxRounds
  /\ window \in Seq(1..MaxTurns) /\ Len(window) <= MAX_TRANSCRIPT_TURNS
  /\ buffer \in SUBSET (1..MaxTurns) /\ Cardinality(buffer) <= MAX_BUFFERED_TURNS
  /\ dropped \in SUBSET (1..MaxTurns)
  /\ summary \in Summaries /\ stored \in Summaries /\ saved \in Summaries
  /\ Cardinality(folds) <= 1
  /\ rmw["fold"] # None => \E f \in folds : f.at = "billing"
  /\ records \in Nat /\ media \in 0..MaxMedia /\ published \in 0..media
  /\ tries \in 0..END_RETRY_ATTEMPTS
  /\ profile \in {None} \cup Seq(Issues)
  /\ lock \in {None} \cup Calls /\ faults \in 0..MaxFaults

\* A turn the summarizer observed is in the stored summary's text, still in its buffer,
\* or was shed and counted: no failure of the model, of Redis or of the clock makes a
\* fold lose a turn silently.
NothingForgotten ==
  LET observed == 1..(IF turn = "idle" /\ phase = "talking" THEN turnNo ELSE turnNo - 1)
  IN observed \subseteq Covered(stored) \cup buffer \cup dropped

\* During the call the boundary the prompt renders from never moves back.
SummaryAdvances == [][phase' = "talking" => Thru(stored') >= Thru(stored)]_vars

\* The cost-cap counter in Redis, which turn and fold update without a lock, may lag
\* the spend but never exceeds it: a watchdog that reads it sees no money the call did
\* not cost (CostTracker.take_unpublished_media_cost, SessionMemory.add_cost).
CounterNeverOverstates == counter <= records + media

\* The ledger row is the whole spend of the call up to hang-up, the folds' included:
\* no completion is recorded between it and the final summary's own.
LedgerHoldsCall ==
  ledger # None => folds = {} /\ ledger.total = records - tail + media

\* Both accounts of a call's money, the running one and the final one, add up to what its
\* completions and its media cost, or to less of it while it runs.
MoneyAddsUp == CounterNeverOverstates /\ LedgerHoldsCall

\* A merge loses an issue of the row only by the cap, and one its own call confirmed only
\* when that call confirmed more than the cap -- unless it started before the row existed.
ProfileKeepsIssues ==
  [][\A c \in Calls :
       LET m == merges[c]
       IN (profile' # profile /\ c \in merged' \ merged /\ profile # None /\ m.row # None)
            => \A i \in ToSet(profile) \ ToSet(profile') :
                 /\ Len(profile') = MAX_OPEN_ISSUES
                 /\ i \in ToSet(m.open) => Len(m.open) > MAX_OPEN_ISSUES]_vars

\* docs/09-memory-architecture.md, section 4.1: the rendered window and the summary
\* never leave a gap.  What the prompt renders is the transcript in Redis.
PromptSeesEveryTurn ==
  turn = "thinking" => 1..(turnNo - 1) \subseteq PromptTurns({"window", "summary"})

\* session_memory.py, add_cost: "nothing else ever writes this session's cost_usd
\* concurrently" -- so with nothing failing, every cost that was handed over is counted.
NoCostIsLost ==
  faults = 0 /\ phase = "talking" /\ (\A a \in {"turn", "fold"} : rmw[a] = None) =>
    counter = records + published
=============================================================================
