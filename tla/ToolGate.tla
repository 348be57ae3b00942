------------------------------ MODULE ToolGate ------------------------------
(***************************************************************************)
(* The tool loop of one session: ConversationManager (one turn at a time), *)
(* ToolExecutor's confirmation gate and idempotency, and the limit request *)
(* it carries out, which POST /v1/limits/increase-requests also submits.   *)
(*                                                                         *)
(* request_limit_increase is the only tool that changes anything, so a     *)
(* batch is the sequence of its arguments; calls that are read-only,       *)
(* refused or invalid change nothing and are left out of it.  A session    *)
(* may see several calls, after a crash of the worker; each numbers its    *)
(* turns from 1.  A proposal gets a number when it is written to Redis.    *)
(***************************************************************************)
EXTENDS Integers, Sequences

CONSTANTS
    Asks,        \* arguments the model may emit: [from, to], in limit steps
    RestAsks,    \* those the app may submit
    Limits,      \* daily limits a row may hold
    FirstLimit,  \* the limit before the call
    MaxRounds,   \* _MAX_TOOL_ROUNDS
    MaxBatch,    \* bound: mutating calls in one batch
    MaxTurns,    \* bound: turns of all calls together
    MaxCalls,    \* bound: calls of the session
    MaxIds,      \* bound: proposals written
    MaxRest,     \* bound: requests the merchant submits over REST
    Words,       \* what an utterance may be taken for
    Faults       \* subset of {"redis", "db", "audit", "kill", "llm"}

ASSUME ConstantsAssumption ==
    /\ Limits \subseteq Nat /\ FirstLimit \in Limits
    /\ RestAsks \subseteq Asks
    /\ Asks \subseteq [from : Limits, to : Limits]
    /\ {MaxRounds, MaxBatch, MaxTurns, MaxCalls, MaxIds, MaxRest} \subseteq Nat
    /\ Words \subseteq {"yes", "no", "other"}
    /\ Faults \subseteq {"redis", "db", "audit", "kill", "llm"}

VARIABLES
    pend,      \* session:{id}.pending_confirm in Redis
    idem,      \* idempotency:{id}:{tool}:{turn} in Redis
    keys,      \* turns whose key a tool_invocations row holds (UNIQUE)
    okRows,    \* those of them whose row has status ok
    limit,     \* the merchant_limits row
    holder,    \* transaction holding its FOR UPDATE lock
    view,      \* the row as each transaction read it
    call, turnsLeft, turnNo, affirmed, round, batch,
    pc,        \* where the call's only task is
    got,       \* what this tool call read of pend
    outcome,   \* of _run_mutating, until it is stored
    rest, restAsk, restLeft,   \* the REST request in progress
    atOpen, nextId, execs, cancelled, declined, cut   \* history

redisVars   == <<pend, idem>>
rowVars     == <<keys, okRows, limit, holder, view>>
turnVars    == <<call, turnsLeft, turnNo, affirmed, round, batch, atOpen>>
taskVars    == <<pc, got, outcome>>
restVars    == <<rest, restAsk, restLeft>>
historyVars == <<nextId, execs, cancelled, declined, cut>>
vars == <<redisVars, rowVars, turnVars, taskVars, restVars, historyVars>>

Turns  == 1..MaxTurns
Ids    == 1..MaxIds
None   == [id |-> 0]                         \* no pending action
NoAsk  == [from |-> 0, to |-> 0]
Proposals == [id : Ids, args : Asks, turn : Turns]

FirstRow == [paise |-> FirstLimit, status |-> "none", to |-> FirstLimit]

Init ==
    /\ pend = None /\ idem = [t \in Turns |-> "none"]
    /\ keys = {} /\ okRows = {}
    /\ limit = FirstRow
    /\ holder = "none" /\ view = [tx \in {"call", "rest"} |-> limit]
    /\ call = 1 /\ turnsLeft = MaxTurns /\ turnNo = 0 /\ affirmed = FALSE /\ round = 0 /\ batch = <<>>
    /\ atOpen = 0
    /\ pc = "listening" /\ got = None /\ outcome = "none"
    /\ rest = "idle" /\ restAsk = NoAsk /\ restLeft = MaxRest
    /\ nextId = 1 /\ execs = [p \in Ids |-> 0]
    /\ cancelled = {} /\ declined = {} /\ cut = {}

-----------------------------------------------------------------------------
(* ConversationManager: on_stt_final, _run_turn, _run_tool_loop. *)

\* classify_affirmation: a clean yes counts only if something is pending.
\* A "no" is whatever the negation pattern catches.
Affirms(word, p) == word = "yes" /\ p # None

\* The turn opens: the pending action is read before any tool runs, and the
\* caller's words are classified against it.
OnSttFinal(word) ==
    /\ pc = "listening" /\ turnsLeft > 0
    /\ turnNo' = turnNo + 1 /\ turnsLeft' = turnsLeft - 1
    /\ affirmed' = Affirms(word, pend)
    /\ atOpen' = IF affirmed' THEN pend.id ELSE 0
    /\ declined' = IF word = "no" /\ pend # None THEN declined \cup {pend.id}
                                                 ELSE declined
    /\ round' = 0 /\ pc' = "stream"
    /\ UNCHANGED <<redisVars, rowVars, restVars, call, batch, got, outcome,
                   nextId, execs, cancelled, cut>>

TurnOver ==
    pc' = "listening" /\ affirmed' = FALSE /\ atOpen' = 0 /\ round' = 0

\* The opening read of Redis, the context or the model raised: the caller
\* hears the apology and the turn is over.
TurnFails ==
    /\ Faults \cap {"redis", "llm"} # {}
    /\ \/ pc = "stream" /\ UNCHANGED <<turnNo, turnsLeft>>
       \/ /\ pc = "listening" /\ turnsLeft > 0
          /\ turnNo' = turnNo + 1 /\ turnsLeft' = turnsLeft - 1
    /\ TurnOver
    /\ UNCHANGED <<redisVars, rowVars, restVars, historyVars, call, batch, got,
                   outcome>>

\* A stream without tool calls is the reply.
Reply ==
    /\ pc = "stream"
    /\ TurnOver
    /\ UNCHANGED <<redisVars, rowVars, restVars, historyVars, call, turnsLeft, turnNo,
                   batch, got, outcome>>

\* The rounds are used up: the batch is dropped with its narration, and the
\* turn ends with the fallback.
DropBatch ==
    /\ pc = "stream" /\ round >= MaxRounds
    /\ TurnOver
    /\ UNCHANGED <<redisVars, rowVars, restVars, historyVars, call, turnsLeft, turnNo,
                   batch, got, outcome>>

Batches == UNION {[1..n -> Asks] : n \in 0..MaxBatch}

\* Bound: the calls write at most the proposals that are left.
WithinIds(calls) ==
    \/ nextId + Len(calls) - 1 <= MaxIds
    \/ pend # None /\ \A i \in 1..Len(calls) : calls[i] = pend.args

\* The stream ends with tool calls; execute() runs them one after the other,
\* as the batch holds a mutating call (one of reads only is the empty batch).
UnboundedRounds(calls) ==
    /\ pc = "stream" /\ WithinIds(calls)
    /\ batch' = calls /\ round' = IF round < MaxRounds THEN round + 1 ELSE round
    /\ pc' = "calls"
    /\ UNCHANGED <<redisVars, rowVars, restVars, historyVars, call, turnsLeft,
                   turnNo, affirmed, atOpen, got, outcome>>

Execute(calls) ==
    /\ pc = "stream" /\ round < MaxRounds
    /\ WithinIds(calls)
    /\ batch' = calls /\ round' = round + 1
    /\ pc' = "calls"
    /\ UNCHANGED <<redisVars, rowVars, restVars, historyVars, call, turnsLeft,
                   turnNo, affirmed, atOpen, got, outcome>>

\* Every result is in the messages: stream again.
BatchDone ==
    /\ pc = "calls" /\ batch = <<>>
    /\ pc' = "stream"
    /\ UNCHANGED <<redisVars, rowVars, turnVars, restVars, historyVars, got,
                   outcome>>

-----------------------------------------------------------------------------
(* ToolExecutor._execute_one for the head of the batch. *)

Ask == Head(batch)

\* The result of this call is known; the executor takes the next one.
CallDone ==
    pc' = "calls" /\ batch' = Tail(batch) /\ got' = None /\ outcome' = "none"

\* The loop keeps its turn: what a tool call leaves alone.
TurnKept == UNCHANGED <<call, turnsLeft, turnNo, affirmed, round, atOpen>>

\* A stored envelope answers the call, whatever its arguments.
Replay ==
    /\ pc = "calls" /\ batch # <<>> /\ idem[turnNo] # "none"
    /\ CallDone
    /\ TurnKept /\ UNCHANGED <<redisVars, rowVars, restVars, historyVars>>

Matches == got # None /\ got.args = Ask

\* _confirm_tier: a proposal of this very turn cannot have been affirmed.
EligibleWithoutAnchor(p) == p # None /\ p.args = Ask

Eligible(p) == p # None /\ p.args = Ask /\ p.turn # turnNo

ConfirmTier ==
    /\ pc = "calls" /\ batch # <<>> /\ idem[turnNo] = "none"
    /\ got' = pend
    /\ pc' = IF affirmed /\ Eligible(pend) THEN "lock" ELSE "hold"
    /\ TurnKept /\ UNCHANGED <<redisVars, rowVars, restVars, historyVars,
                               batch, outcome>>

\* A Redis command failed, having been applied or not.  The exception becomes
\* the result of the call; its audit row carries no key.
RedisFails(applied) ==
    /\ "redis" \in Faults
    /\ CallDone
    /\ TurnKept /\ UNCHANGED <<rowVars, restVars, cancelled>>
    /\ applied

ReadFails ==
    /\ pc = "calls" /\ batch # <<>>
    /\ RedisFails(UNCHANGED <<redisVars, nextId, execs, declined, cut>>)

\* _hold_gate, first half: a new proposal replaces the pending one in Redis
\* before anything is committed to Postgres.  A matching one is left as is.
WriteProposal ==
    /\ pend' = [id |-> nextId, args |-> Ask, turn |-> turnNo]
    /\ nextId' = nextId + 1

\* The order a review corrected: the old proposal is audited cancelled, and
\* then the Redis write may fail.
HoldGateAuditFirst ==
    /\ pc = "hold"
    /\ cancelled' = IF Matches THEN cancelled ELSE cancelled \cup ({got.id} \ {0})
    /\ \/ ~Matches /\ WriteProposal /\ pc' = "audit" /\ UNCHANGED <<batch, got, outcome>>
       \/ Matches /\ pc' = "audit" /\ UNCHANGED <<pend, nextId, batch, got, outcome>>
       \/ "redis" \in Faults /\ CallDone /\ UNCHANGED <<pend, nextId>>
    /\ TurnKept /\ UNCHANGED <<idem, rowVars, restVars, execs, declined, cut>>

HoldGate ==
    /\ pc = "hold"
    /\ IF Matches THEN /\ pc' = "audit" /\ declined' = declined \ {got.id}
                       /\ UNCHANGED <<pend, nextId>>
                  ELSE /\ WriteProposal
                       /\ pc' = IF got = None THEN "audit" ELSE "cancel"
                       /\ UNCHANGED declined
    /\ TurnKept /\ UNCHANGED <<idem, rowVars, restVars, batch, got, outcome,
                               execs, cancelled, cut>>

HoldFails ==
    /\ pc = "hold" /\ ~Matches
    /\ RedisFails(\/ UNCHANGED <<redisVars, nextId, execs, declined, cut>>
                  \/ /\ WriteProposal
                     /\ UNCHANGED <<idem, execs, declined, cut>>)

\* Second half: the old proposal is audited cancelled (best effort).
CancelSuperseded ==
    /\ pc = "cancel"
    /\ cancelled' \in {cancelled \cup {got.id}}
                      \cup (IF "audit" \in Faults THEN {cancelled} ELSE {})
    /\ pc' = "audit"
    /\ TurnKept /\ UNCHANGED <<redisVars, rowVars, restVars, batch, got, outcome,
                               nextId, execs, declined, cut>>

\* An audit insert that carries this turn's key: a duplicate is dropped, and a
\* failed insert is only logged.
AuditKey ==
    /\ keys' \in {keys \cup {turnNo}} \cup (IF "audit" \in Faults THEN {keys} ELSE {})
    /\ UNCHANGED okRows

\* Third part: the hold itself is audited, and the gate is the result.
AuditHold ==
    /\ pc = "audit"
    /\ AuditKey /\ CallDone
    /\ TurnKept /\ UNCHANGED <<redisVars, limit, holder, view, restVars, historyVars>>

-----------------------------------------------------------------------------
(* _run_mutating and LimitRepo.submit_increase_request, in one transaction. *)

\* get without with_for_update: nobody is kept out.
PlainGet(tx) == view' = [view EXCEPT ![tx] = limit] /\ UNCHANGED holder

\* The row is read, and stays locked until the transaction is over.
GetForUpdate(tx) ==
    /\ holder = "none"
    /\ holder' = tx /\ view' = [view EXCEPT ![tx] = limit]

Release(tx) ==
    /\ holder' = IF holder = tx THEN "none" ELSE holder
    /\ view' = [view EXCEPT ![tx] = FirstRow]

LockRow ==
    /\ pc = "lock" /\ GetForUpdate("call")
    /\ pc' = "commit"
    /\ TurnKept /\ UNCHANGED <<redisVars, keys, okRows, limit, restVars,
                               historyVars, batch, got, outcome>>

\* A stale view, a request already open, or no increase is an AppError.
Accepts(ask, row) ==
    /\ ask.from = row.paise
    /\ row.status # "submitted"
    /\ ask.to > row.paise

Submit(ask) == limit' = [limit EXCEPT !.status = "submitted", !.to = ask.to]

\* Business write and ok row commit together; the UNIQUE key may refuse them.
\* The commit may be acknowledged or not.
CommitMutation ==
    /\ pc = "commit" /\ Accepts(Ask, view["call"]) /\ turnNo \notin keys
    /\ Submit(Ask) /\ Release("call")
    /\ keys' = keys \cup {turnNo} /\ okRows' = okRows \cup {turnNo}
    /\ execs' = [execs EXCEPT ![got.id] = @ + 1]
    /\ outcome' \in {"ok"} \cup (IF "db" \in Faults THEN {"error"} ELSE {})
    /\ pc' = "store"
    /\ TurnKept /\ UNCHANGED <<redisVars, restVars, batch, got, nextId, cancelled,
                               declined, cut>>

\* Refused, timed out or failed: everything rolls back, and an error row is
\* written in a fresh transaction.
MutationFails ==
    /\ \/ /\ pc = "commit" /\ Release("call")
          /\ ~Accepts(Ask, view["call"]) \/ turnNo \in keys \/ "db" \in Faults
       \/ pc = "lock" /\ holder # "none" /\ UNCHANGED <<holder, view>>  \* 2 s
    /\ AuditKey
    /\ outcome' = "error" /\ pc' = "store"
    /\ TurnKept /\ UNCHANGED <<redisVars, limit, restVars, historyVars, batch, got>>

\* Errors forgotten, or stored as successes.
StoreOkOnly ==
    /\ pc = "store"
    /\ idem' = IF outcome = "ok" THEN [idem EXCEPT ![turnNo] = "ok"] ELSE idem
    /\ pc' = "clear"
    /\ TurnKept /\ UNCHANGED <<pend, rowVars, restVars, historyVars, batch, got,
                               outcome>>

\* set_idempotency, for an ok outcome and for an error.
StoreEnvelope ==
    /\ pc = "store"
    /\ idem' = [idem EXCEPT ![turnNo] = outcome]
    /\ pc' = "clear"
    /\ TurnKept /\ UNCHANGED <<pend, rowVars, restVars, historyVars, batch, got,
                               outcome>>

\* set_pending_confirm(None): the decision is consumed.
ClearForgotten ==
    /\ pc = "clear"
    /\ CallDone
    /\ TurnKept /\ UNCHANGED <<redisVars, rowVars, restVars, historyVars>>

ClearPending ==
    /\ pc = "clear"
    /\ pend' = None
    /\ CallDone
    /\ TurnKept /\ UNCHANGED <<idem, rowVars, restVars, historyVars>>

\* A Redis failure here leaves the committed decision behind.
StoreFails ==
    /\ pc \in {"store", "clear"}
    /\ RedisFails(/\ cut' = cut \cup {got.id}
                  /\ UNCHANGED <<nextId, execs, declined>>
                  /\ \/ UNCHANGED redisVars
                     \/ /\ pc = "store" /\ UNCHANGED pend
                        /\ idem' = [idem EXCEPT ![turnNo] = outcome]
                     \/ pc = "clear" /\ pend' = None /\ UNCHANGED idem)

-----------------------------------------------------------------------------
(* The worker dies or the call is torn down without ending the session; the  *)
(* next call of the session starts with a new ConversationManager.           *)

Killed ==
    /\ "kill" \in Faults /\ call < MaxCalls
    /\ call' = call + 1
    /\ TurnOver
    /\ turnNo' = 0 /\ batch' = <<>> /\ got' = None /\ outcome' = "none"
    /\ Release("call")
    /\ cut' = IF pc \in {"store", "clear"} THEN cut \cup {got.id} ELSE cut
    /\ UNCHANGED <<redisVars, keys, okRows, limit, restVars, turnsLeft, nextId,
                   execs, cancelled, declined>>

-----------------------------------------------------------------------------
(* The same row seen from outside the call. *)

\* create_increase_request in its own transaction, from the app.
RestLock(ask) ==
    /\ rest = "idle" /\ restLeft > 0
    /\ GetForUpdate("rest")
    /\ rest' = "locked" /\ restAsk' = ask
    /\ restLeft' = restLeft - 1
    /\ UNCHANGED <<redisVars, keys, okRows, limit, turnVars, taskVars, historyVars>>

RestCommit ==
    /\ rest = "locked"
    /\ IF Accepts(restAsk, view["rest"]) THEN Submit(restAsk) ELSE UNCHANGED limit
    /\ Release("rest") /\ rest' = "idle" /\ restAsk' = NoAsk
    /\ UNCHANGED <<redisVars, keys, okRows, restLeft, turnVars, taskVars,
                   historyVars>>

\* The scheduled job that decides an open request (outside this repository).
Decide(verdict) ==
    /\ limit.status = "submitted" /\ holder = "none"
    /\ limit' = [limit EXCEPT !.status = verdict,
                              !.paise = IF verdict = "approved" THEN limit.to ELSE @]
    /\ UNCHANGED <<redisVars, keys, okRows, holder, view, turnVars, taskVars, restVars,
                   historyVars>>

-----------------------------------------------------------------------------
ToolStep ==
    \/ Replay \/ ConfirmTier \/ HoldGate \/ CancelSuperseded \/ AuditHold
    \/ LockRow \/ CommitMutation \/ MutationFails \/ StoreEnvelope \/ ClearPending
    \/ ReadFails \/ HoldFails \/ StoreFails

TurnStep ==
    \/ BatchDone \/ Reply \/ DropBatch \/ TurnFails
    \/ \E calls \in Batches : Execute(calls)

Next ==
    \/ ToolStep \/ TurnStep \/ Killed
    \/ \E word \in Words : OnSttFinal(word)
    \/ \E ask \in RestAsks : RestLock(ask)
    \/ RestCommit
    \/ \E verdict \in {"approved", "rejected"} : Decide(verdict)

Spec == Init /\ [][Next]_vars

\* The event loop runs the call's task; the row lock is held by a live
\* transaction that goes on.
Fairness == WF_vars(ToolStep) /\ WF_vars(TurnStep) /\ WF_vars(RestCommit)
FairSpec == Spec /\ Fairness

-----------------------------------------------------------------------------
(* Properties. *)

TypeOK ==
    /\ pend \in Proposals \cup {None}
    /\ idem \in [Turns -> {"none", "ok", "error"}]
    /\ keys \subseteq Turns /\ okRows \subseteq keys
    /\ limit \in [paise : Limits, to : Limits,
                  status : {"none", "submitted", "approved", "rejected"}]
    /\ holder \in {"none", "call", "rest"}
    /\ \A tx \in {"call", "rest"} : view[tx].paise \in Limits
    /\ call \in 1..MaxCalls /\ turnNo \in 0..MaxTurns /\ turnsLeft \in 0..MaxTurns
    /\ affirmed \in BOOLEAN /\ round \in 0..MaxRounds
    /\ batch \in Seq(Asks) /\ Len(batch) <= MaxBatch
    /\ pc \in {"listening", "stream", "calls", "hold", "cancel", "audit", "lock",
               "commit", "store", "clear"}
    /\ got \in Proposals \cup {None}
    /\ outcome \in {"none", "ok", "error"}
    /\ rest \in {"idle", "locked"} /\ restAsk \in Asks \cup {NoAsk}
    /\ restLeft \in 0..MaxRest
    /\ nextId \in 1..MaxIds + 1 /\ atOpen \in 0..MaxIds
    /\ execs \in [Ids -> Nat]
    /\ cancelled \subseteq Ids /\ declined \subseteq Ids /\ cut \subseteq Ids

\* The gate keeps the promise of module Confirmation: a limit request is
\* submitted only for the proposal that was pending when the caller said yes,
\* although the model may re-emit, change or supersede it in any round of the
\* turn and turn numbers restart with each call (_confirm_tier's anchor).
Gate == INSTANCE Confirmation WITH
            live    <- pend.id,
            granted <- IF affirmed THEN atOpen ELSE 0,
            used    <- nextId - 1,
            done    <- {p \in Ids : execs[p] > 0}
GateConfirms == Gate!Spec

\* A confirmed proposal is carried out a second time only if its outcome could
\* not be recorded: the worker died or Redis failed between the commit and the
\* clearing of the pending action (module docstring's "crash window").
OncePerDecision == \A p \in Ids : execs[p] > 1 => p \in cut

\* What Postgres records as cancelled is never what the gate would match a yes
\* against (_hold_gate writes Redis before either audit row).
SupersededIsDead == pend.id \notin cancelled

\* A decision is spent once it is made: neither the same proposal again nor one that was
\* superseded can be carried out on it (_confirm_tier, _hold_gate).
DecisionIsSpent == OncePerDecision /\ SupersededIsDead

\* A pending action leaves Redis only for another proposal or once the outcome
\* of its decision is stored for replay (order of _confirm_tier's two writes).
PendingOutlivesCrash ==
    [][pend # None /\ pend' = None => idem[turnNo] # "none"]_vars

\* Two submitters, the call and the app, never overwrite each other: an open
\* request stays what it is until it is decided (get with_for_update).
OpenRequestStands ==
    [][limit.status = "submitted" /\ limit'.status = "submitted"
           => limit' = limit]_vars

\* However often the model asks for tools, and whatever fails, the turn ends
\* and the caller is answered (_MAX_TOOL_ROUNDS, errors as results).
TurnIsAnswered == pc # "listening" ~> pc = "listening"

\* docs/10-tool-calling.md:257: on a no, the pending action is cancelled and
\* cleared.  A declined proposal that is not stated again is never carried out.
DeclinedIsDead ==
    [][\A p \in declined : execs'[p] = execs[p]]_vars
=============================================================================
