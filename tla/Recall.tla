------------------------------- MODULE Recall -------------------------------
(***************************************************************************)
(* What a call is told of the knowledge base and of the merchant's earlier *)
(* calls.  The seeder rebuilds kb_articles and their chunks; a call that   *)
(* ends saves its summary, with a chunk where the embedding works, and an  *)
(* open issue; a call that begins searches the chunks once and keeps what  *)
(* it found in ctx:{session}:knowledge, which its prompts quote.           *)
(*                                                                         *)
(* The writers are transactions at READ COMMITTED: a search sees what was  *)
(* committed when it ran.  One seeder runs at a time, it is an operator's  *)
(* command.  Vectors are gone: a text has its similarity to the setup      *)
(* query.  CallMemory has the fold and the profile merge in their steps.   *)
(***************************************************************************)
EXTENDS PromptSlots, FiniteSets, FiniteSetsExt

CONSTANTS
  Slugs, Editions,          \* an edition: the chunks of each article, {} where it has none
  Sessions, Owner,          \* a session's merchant
  SummaryText, IssueText,   \* what a session's call leaves behind
  Past,                     \* sessions that ended before
  Similarity,               \* to the setup query, in hundredths
  Identity,                 \* length of the merchants identity line
  MaxSeeds, MaxLosses,
  Null

Merchants == {Owner[s] : s \in Sessions}

ASSUME RecallAssumption ==
  /\ Editions \subseteq [Slugs -> SUBSET Texts]
  /\ DOMAIN Owner = Sessions /\ Past \subseteq Sessions
  /\ SummaryText \in [Sessions -> Texts] /\ IssueText \in [Sessions -> Texts]
  /\ Similarity \in [Texts -> 0..100]
  /\ Identity \in [Merchants -> Nat \ {0}]
  /\ {MaxSeeds, MaxLosses} \subseteq Nat
  /\ Null \notin Texts \cup Merchants /\ IsFiniteSet(Slugs) /\ IsFiniteSet(Sessions)

RETRIEVAL_FLOOR == 70

VARIABLES
  articles, chunks,    \* committed kb_articles, memory_chunks
  summaries,           \* conversation_summaries
  issues,              \* user_profiles.open_issues, oldest first
  seed, seeds,         \* the seeder's transaction; how many began
  edition,             \* the last one committed
  call,                \* where each session's call is
  hits, slot,          \* retrieve's results; ctx:{session}:knowledge
  save,                \* what ConversationSummaryStore.save did
  losses

kbVars   == <<articles, edition>>
seedVars == <<seed, seeds>>
callVars == <<call, hits, slot>>
pastVars == <<summaries, issues, save>>
recallVars == <<kbVars, chunks, seedVars, callVars, pastVars, losses>>

SummaryChunk(s) ==
  [kind |-> "call_summary", source |-> s, owner |-> Owner[s], text |-> SummaryText[s]]

Issue(s) == [text |-> IssueText[s]]

RecallInit ==
  /\ articles = [a \in Slugs |-> {}] /\ edition = articles
  /\ chunks = {SummaryChunk(s) : s \in Past}
  /\ summaries = [s \in Sessions |-> IF s \in Past THEN SummaryText[s] ELSE Null]
  /\ issues = [m \in Merchants |-> SetToSeq({Issue(s) : s \in {p \in Past : Owner[p] = m}})]
  /\ seed = Null /\ seeds = 0
  /\ call = [s \in Sessions |-> IF s \in Past THEN "done" ELSE "none"]
  /\ hits = [s \in Sessions |-> <<>>] /\ slot = [s \in Sessions |-> Null]
  /\ save = [s \in Sessions |-> "none"]
  /\ losses = 0

\* A statement, a request, the answer to a COMMIT or a whole worker is lost.
Loss == losses < MaxLosses /\ losses' = losses + 1

-----------------------------------------------------------------------------
(* scripts/seed_kb.py: one transaction.                                    *)

KbChunk(slug, text) == [kind |-> "kb_article", source |-> slug, owner |-> Null, text |-> text]
KbChunksOf(e) == UNION {{KbChunk(slug, text) : text \in e[slug]} : slug \in Slugs}
CallChunks == {c \in chunks : c.kind = "call_summary"}

\* An article is inserted, updated or left; one the edition dropped keeps its row, unless
\* --reset wiped them all.
Upserted(e, reset) ==
  [slug \in Slugs |-> IF e[slug] # {} THEN e[slug] ELSE IF reset THEN {} ELSE articles[slug]]

SeedStarts(e, reset) ==
  /\ seed = Null /\ seeds < MaxSeeds
  /\ seeds' = seeds + 1
  /\ seed' = [edition |-> e, articles |-> Upserted(e, reset), embedded |-> KbChunksOf(e) = {}]
  /\ UNCHANGED <<kbVars, chunks, callVars, pastVars, losses>>

\* One batched embed between the delete and the inserts.
EmbedChunks ==
  /\ seed # Null /\ ~seed.embedded
  /\ seed' = [seed EXCEPT !.embedded = TRUE]
  /\ UNCHANGED <<kbVars, chunks, seeds, callVars, pastVars, losses>>

\* Mutant: nothing is deleted.
RebuiltBeside(e) == chunks \cup KbChunksOf(e)

\* Every kb chunk is deleted, the edition's are written.
Rebuilt(e) == CallChunks \cup KbChunksOf(e)

WriteSeed ==
  /\ articles' = seed.articles /\ edition' = seed.edition
  /\ chunks' = Rebuilt(seed.edition)

SeedCommits ==
  /\ seed # Null /\ seed.embedded
  /\ WriteSeed /\ seed' = Null
  /\ UNCHANGED <<seeds, callVars, pastVars, losses>>

\* A bad category, a short answer to the embed, a lost connection: rolled back, unless it
\* was the COMMIT's answer that was lost.
SeedFails ==
  /\ seed # Null /\ Loss
  /\ \/ UNCHANGED <<kbVars, chunks>>
     \/ seed.embedded /\ WriteSeed
  /\ seed' = Null
  /\ UNCHANGED <<seeds, callVars, pastVars>>

-----------------------------------------------------------------------------
(* Call setup.                                                             *)

Goto(s, at) == call' = [call EXCEPT ![s] = at]

\* Mutant: a call summary has no owner to look at.
AnyScope(c, s) == TRUE

\* memory_scope: the knowledge base, or the merchant's own.
InScope(c, s) == c.kind = "kb_article" \/ c.owner = Owner[s]

InOrder(entries) ==
  \A m, n \in DOMAIN entries :
    m < n => Similarity[entries[m].text] >= Similarity[entries[n].text]

\* search, nearest first.  A scan of the index that gives up early has some of the rows.
Results(s) ==
  LET visible == {c \in chunks : InScope(c, s)}
  IN {found \in UNION {[1..n -> visible] : n \in 0..RETRIEVAL_TOP_K} :
        IsInjective(found) /\ InOrder(found)}

\* retrieve: a filter, never a top-up.
Relevant(results) == Without(results, {c \in chunks : Similarity[c.text] < RETRIEVAL_FLOOR})

\* attach(), on a first connection or after a crash of the worker, then the search.
Search(s) ==
  /\ call[s] = "none" /\ Goto(s, "found")
  /\ \E results \in Results(s) : hits' = [hits EXCEPT ![s] = Relevant(results)]
  /\ UNCHANGED <<kbVars, chunks, seedVars, slot, pastVars, losses>>

Store(s) == slot' = [slot EXCEPT ![s] = render_knowledge_slot(hits[s])]
Prefetched(s) == Goto(s, "talking") /\ hits' = [hits EXCEPT ![s] = <<>>]

StorePrefetch(s) ==
  /\ call[s] = "found" /\ Store(s) /\ Prefetched(s)
  /\ UNCHANGED <<kbVars, chunks, seedVars, pastVars, losses>>

\* No provider, or neither an error code nor a screen to ask with.
PrefetchSkipped(s) ==
  /\ call[s] = "none" /\ Prefetched(s)
  /\ UNCHANGED <<kbVars, chunks, seedVars, slot, pastVars, losses>>

\* Any exception, or the second the brain factory gives it.  A key an earlier call of the
\* session stored stays; the SET may have landed.
PrefetchFails(s) ==
  /\ call[s] \in {"none", "found"} /\ Loss /\ Prefetched(s)
  /\ \/ UNCHANGED slot
     \/ call[s] = "found" /\ Store(s)
  /\ UNCHANGED <<kbVars, chunks, seedVars, pastVars>>

\* The key's hour is over, or Redis evicted it.
Expires(s) ==
  /\ slot[s] # Null /\ slot' = [slot EXCEPT ![s] = Null]
  /\ UNCHANGED <<kbVars, chunks, seedVars, call, hits, pastVars, losses>>

-----------------------------------------------------------------------------
(* After the call.                                                         *)

\* The end transaction has committed; without a fold there is nothing to save.  The save
\* writes the row, then embeds and inserts the chunk behind a SAVEPOINT: whatever fails in
\* there, the row is still to be committed.
CallEnds(s) ==
  /\ call[s] = "talking"
  /\ \E next \in {"row and chunk", "row", "merging"} : Goto(s, next)
  /\ UNCHANGED <<kbVars, chunks, seedVars, hits, slot, pastVars, losses>>

\* Mutant: without the SAVEPOINT the failed insert takes the row with it.
WriteBoth(s, embedded) ==
  IF embedded
  THEN /\ summaries' = [summaries EXCEPT ![s] = SummaryText[s]]
       /\ chunks' = chunks \cup {SummaryChunk(s)}
  ELSE UNCHANGED <<summaries, chunks>>

WriteSummary(s, embedded) ==
  /\ summaries' = [summaries EXCEPT ![s] = SummaryText[s]]
  /\ chunks' = IF embedded THEN chunks \cup {SummaryChunk(s)} ELSE chunks

Saved(s, outcome) == Goto(s, "merging") /\ save' = [save EXCEPT ![s] = outcome]

SaveCommits(s) ==
  /\ call[s] \in {"row", "row and chunk"}
  /\ WriteSummary(s, call[s] = "row and chunk") /\ Saved(s, "stored")
  /\ UNCHANGED <<kbVars, seedVars, hits, slot, issues, losses>>

\* Caught by _run_post_call_memory, and not tried again: the session has ended.
SaveFails(s) ==
  /\ call[s] \in {"row", "row and chunk"} /\ Loss
  /\ \/ UNCHANGED <<summaries, chunks>>
     \/ WriteSummary(s, call[s] = "row and chunk")
  /\ Saved(s, "failed")
  /\ UNCHANGED <<kbVars, seedVars, hits, slot, issues>>

MergeProfile(s) ==
  /\ call[s] = "merging" /\ Goto(s, "done")
  /\ \/ /\ issues' = [issues EXCEPT ![Owner[s]] = Append(@, Issue(s))]
        /\ UNCHANGED losses
     \/ Loss /\ UNCHANGED issues
  /\ UNCHANGED <<kbVars, chunks, seedVars, hits, slot, summaries, save>>

\* The worker goes.  Redis keeps the key, and the merchant may call back unless the session
\* has ended; a transaction in flight is rolled back.
Killed(s) ==
  /\ call[s] \notin {"none", "done"} /\ Loss
  /\ hits' = [hits EXCEPT ![s] = <<>>]
  /\ Goto(s, IF call[s] \in {"found", "talking"} THEN "none" ELSE "done")
  /\ UNCHANGED <<kbVars, chunks, seedVars, slot, pastVars>>

\* What a turn of the call quotes; a read that fails leaves a slot empty as well.
KnowledgeSlot(s) == IF slot[s] = Null THEN <<>> ELSE slot[s]
ProfileSlot(s) == compose_profile_slot(Identity[Owner[s]], issues[Owner[s]])
Prompt(s) == [user_profile |-> ProfileSlot(s), knowledge |-> KnowledgeSlot(s)]

Seeder ==
  \/ \E e \in Editions, reset \in BOOLEAN : SeedStarts(e, reset)
  \/ EmbedChunks \/ SeedCommits \/ SeedFails

Call(s) ==
  \/ Search(s) \/ StorePrefetch(s) \/ PrefetchSkipped(s) \/ PrefetchFails(s) \/ Expires(s)
  \/ CallEnds(s) \/ SaveCommits(s) \/ SaveFails(s) \/ MergeProfile(s) \/ Killed(s)

RecallNext == Seeder \/ \E s \in Sessions : Call(s)

RecallSpec == RecallInit /\ [][RecallNext]_recallVars

-----------------------------------------------------------------------------
\* The chunks a search can meet are those of the last edition committed, every one of them
\* and no other, and each is text of an article that is there: neither a failed rebuild nor
\* one under way shows (_rebuild_chunks, seed_kb's one commit).
KnowledgeIsWhole ==
  /\ chunks \ CallChunks = KbChunksOf(edition)
  /\ \A c \in chunks \ CallChunks : c.text \in articles[c.source]

\* A save that returned has its row, whether the embedding worked or not, and a chunk is never
\* there without the row it quotes, of the same merchant (the SAVEPOINT in save).
SummaryOutlivesEmbedding ==
  /\ \A s \in Sessions : save[s] = "stored" => summaries[s] = SummaryText[s]
  /\ \A c \in CallChunks : c.text = summaries[c.source] /\ c.owner = Owner[c.source]

\* What the prompts of a call quote as knowledge: rows in its merchant's scope, above the
\* floor, screened, nearest first, inside the slot's budget; behind the identity line, the
\* merchant's newest issues, screened, at most one token over the slot's budget, the rounding
\* of two estimates.
PromptQuotes ==
  \A s \in {t \in Sessions : call[t] = "talking"} :
    LET quoted == Prompt(s).knowledge
        shown  == Prompt(s).user_profile
        told   == issues[Owner[s]]
        fresh  == {k \in DOMAIN told : told[k].text \notin Suspect}
    IN /\ \A n \in DOMAIN quoted :
            /\ quoted[n].owner \in {Null, Owner[s]} /\ quoted[n].text \notin Suspect
            /\ Similarity[quoted[n].text] >= RETRIEVAL_FLOOR
       /\ InOrder(quoted)
       /\ quoted # <<>> =>
            Tokens(Joined(KNOWLEDGE_HEADER, EntrySizes(quoted))) <= KNOWLEDGE_SLOT_BUDGET
       /\ \A n \in DOMAIN shown : shown[n].text \notin Suspect
       /\ shown # <<>> =>
            /\ shown[1] = told[Max(fresh)]
            /\ Tokens(Identity[Owner[s]] + 1 + Joined(OPEN_ISSUES_HEADER, IssueSizes(shown)))
                 <= PROFILE_SLOT_BUDGET + 1
=============================================================================
