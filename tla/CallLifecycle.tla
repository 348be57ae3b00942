---------------------------- MODULE CallLifecycle ----------------------------
(***************************************************************************)
(* One session_id from its first connection to its durable end: the REST   *)
(* token endpoints (api/routes/sessions.py), the signaling gate            *)
(* (voice/signaling.py), CallSession.close (voice/call_session.py), the    *)
(* frame of VoiceAgentWorker.run (voice/worker.py), the post-call pipeline *)
(* of voice/run.py and SessionManager.end (agent/session_manager.py).      *)
(*                                                                         *)
(* Sessions share nothing but the process, so one is enough.  A connection *)
(* attempt c \in Conns is one accepted WebSocket; if it passes the gate it *)
(* owns a CallSession, its worker and its CostTracker.  What the turns do  *)
(* inside run() is TurnMachine's business: here run() is one phase.        *)
(***************************************************************************)
EXTENDS Naturals, FiniteSets

CONSTANTS
    None,       \* Python's None for a connection
    Conns,      \* bound: connection attempts of this session
    MaxTokens,  \* bound: one-time tokens minted for it
    MaxDeletes, \* bound: operator DELETEs waiting in the pub/sub connection
    Attempts,   \* _END_RETRY_ATTEMPTS
    Faults      \* what the environment may do, a subset of FaultKinds

FaultKinds == {"setup",    \* the peer factory raises
               "brain",    \* attach() or the prefetch raises
               "blip",     \* end() raises, but not on every attempt
               "db",       \* any Redis or Postgres call of the pipeline raises
               "giveup",   \* the pipeline outlives _FINALIZE_TIMEOUT_S
               "kill"}     \* the worker process dies

ASSUME CallConstants ==
    /\ IsFiniteSet(Conns) /\ None \notin Conns
    /\ MaxTokens \in Nat \ {0} /\ MaxDeletes \in Nat /\ Attempts \in Nat \ {0}
    /\ Faults \subseteq FaultKinds

Token  == 1..MaxTokens
Closers == {"handler", "control"}    \* handle_connection's finally, close_one

VARIABLES
    row, costs, turnList, drained,  \* Postgres and Redis: the durable record
    token, minted, remint,          \* signal_token:{id} and who asks for it
    conn, key, wsOpen,              \* handle_connection and its WebSocket
    active,                         \* SignalingServer._active[session_id]
    call,                           \* the CallSession of each connection
    life, ctl, inbox,               \* main(), close_one's target, the pub/sub
    lost                            \* history: calls whose pipeline was cut short

durable == <<row, costs, turnList, drained, lost>>
api     == <<token, minted, remint>>
sockets == <<conn, key, wsOpen, active>>
process == <<life, ctl, inbox>>
vars    == <<durable, api, sockets, call, process>>

Closer(at, egress) == [at |-> at, egress |-> egress]
Idle   == Closer("idle", FALSE)
NoCall == [run |-> "none", fin |-> "none", attempt |-> 0,
           ingress |-> "closed", peer |-> "closed", egress |-> "none",
           closer |-> [k \in Closers |-> Idle]]
NewCall == [NoCall EXCEPT !.run = "building", !.ingress = "open", !.peer = "open"]

\* POST /v1/sessions has run: the row is there and its token is stored.
Init ==
    /\ row = "created" /\ costs = None /\ turnList = {} /\ drained = {} /\ lost = {}
    /\ token = 1 /\ minted = 1 /\ remint = "idle"
    /\ conn = [c \in Conns |-> "new"]
    /\ key = [c \in Conns |-> 0]
    /\ wsOpen = [c \in Conns |-> FALSE]
    /\ active = None
    /\ call = [c \in Conns |-> NoCall]
    /\ life = "up" /\ ctl = None /\ inbox = 0

Finished == {"none", "done", "failed"}
Over     == {"none", "over"}
\* Connections whose CallSession still has work that touches the session.
LiveCalls == {c \in Conns : call[c].run \notin Over \/ call[c].fin \notin Finished}

Sets(c, r) == call' = [call EXCEPT ![c] = r]

-----------------------------------------------------------------------------
(***************************************************************************)
(* The REST side: POST /v1/sessions/{id}/token and DELETE.                 *)
(***************************************************************************)

\* remint_session_token reads the row; an ended session is a 409.
RemintChecks ==
    /\ remint = "idle" /\ minted < MaxTokens
    /\ row # "ended"
    /\ remint' = "checked"
    /\ UNCHANGED <<durable, token, minted, sockets, call, process>>

\* ... and then overwrites the stored digest.
RemintStores ==
    /\ remint = "checked"
    /\ minted' = minted + 1 /\ token' = minted' /\ remint' = "idle"
    /\ UNCHANGED <<durable, sockets, call, process>>

\* The connect deadline passes.
TokenExpires ==
    /\ token # 0 /\ token' = 0
    /\ UNCHANGED <<durable, minted, remint, sockets, call, process>>

\* DELETE publishes on a lossy channel: only a subscribed worker hears it.
Delete ==
    /\ life = "up" /\ inbox < MaxDeletes
    /\ inbox' = inbox + 1
    /\ UNCHANGED <<durable, api, sockets, call, life, ctl>>

-----------------------------------------------------------------------------
(***************************************************************************)
(* handle_connection: authenticate, the one-connection gate, the message   *)
(* loop, the finally.                                                      *)
(***************************************************************************)

Connect(c) ==
    /\ life \in {"up", "stopping"} /\ conn[c] = "new"
    /\ \E k \in 1..minted : key' = [key EXCEPT ![c] = k]
    /\ conn' = [conn EXCEPT ![c] = "auth"]
    /\ wsOpen' = [wsOpen EXCEPT ![c] = TRUE]
    /\ UNCHANGED <<durable, api, active, call, process>>

\* The connection is over and its transport closed.
HandlerReturns(c) ==
    /\ conn' = [conn EXCEPT ![c] = "over"]
    /\ wsOpen' = [wsOpen EXCEPT ![c] = FALSE]

\* verify_and_burn's comparison of the digests.
Authentic(c) == token = key[c]

\* _authenticate, with the GETDEL: the stored digest is gone whatever the verdict.
VerifyAndBurn(c) ==
    /\ conn[c] = "auth"
    /\ token' = 0
    /\ key' = [key EXCEPT ![c] = 0]
    /\ IF Authentic(c) THEN conn' = [conn EXCEPT ![c] = "gate"] /\ UNCHANGED wsOpen
                         ELSE HandlerReturns(c)
    /\ UNCHANGED <<durable, minted, remint, active, call, process>>

SlotTaken == active # None

\* The coroutine resumes: the slot is taken, or the peer factory raises.
Rejected(c) ==
    /\ conn[c] = "gate"
    /\ SlotTaken \/ "setup" \in Faults
    /\ HandlerReturns(c)
    /\ UNCHANGED <<durable, api, key, active, call, process>>

\* ... or a CallSession is built and registered: its worker starts.
Admitted(c) ==
    /\ conn[c] = "gate" /\ ~SlotTaken
    /\ conn' = [conn EXCEPT ![c] = "open"]
    /\ active' = c
    /\ Sets(c, NewCall)
    /\ UNCHANGED <<durable, api, key, wsOpen, process>>

\* An offer is dispatched; handle_offer refuses a closed peer.
OfferArrives(c) ==
    /\ conn[c] = "open" /\ wsOpen[c] /\ call[c].peer = "open"
    /\ conn' = [conn EXCEPT ![c] = "offer"]
    /\ UNCHANGED <<durable, api, key, wsOpen, active, call, process>>

\* peer.handle_offer returns (a close may have run meanwhile) or raises; the
\* egress task is created by the first that returns.
OfferAnswered(c) ==
    /\ conn[c] = "offer"
    /\ conn' = [conn EXCEPT ![c] = "open"]
    /\ \/ UNCHANGED call
       \/ call[c].egress = "none" /\ Sets(c, [call[c] EXCEPT !.egress = "created"])
    /\ UNCHANGED <<durable, api, key, wsOpen, active, process>>

\* The client goes away, with or without a bye.
Disconnects(c) ==
    /\ conn[c] \in {"open", "offer"} /\ wsOpen[c]
    /\ wsOpen' = [wsOpen EXCEPT ![c] = FALSE]
    /\ UNCHANGED <<durable, api, conn, key, active, call, process>>

MessageLoopEnds(c) ==
    /\ conn[c] = "open" /\ ~wsOpen[c]
    /\ conn' = [conn EXCEPT ![c] = "closing"]
    /\ UNCHANGED <<durable, api, key, wsOpen, active, call, process>>

SlotFreedFirst(c) == conn[c] = "closing"

TornDown(c) == conn[c] = "closing" /\ call[c].closer["handler"].at = "done"

\* Only after the full teardown is the slot popped.
SlotFreed(c) ==
    /\ TornDown(c)
    /\ active' = None
    /\ HandlerReturns(c)
    /\ UNCHANGED <<durable, api, key, call, process>>

-----------------------------------------------------------------------------
(***************************************************************************)
(* close_one and its callers: the session-control subscriber and the       *)
(* shutdown, one call at a time.                                           *)
(***************************************************************************)

ControlMessage ==
    /\ life = "up" /\ ctl = None /\ inbox > 0
    /\ inbox' = inbox - 1
    /\ ctl' = active
    /\ UNCHANGED <<durable, api, sockets, call, life>>

\* close_one's last step: the transport is closed, the slot is not popped.
ControlDone ==
    /\ ctl # None /\ call[ctl].closer["control"].at = "done"
    /\ wsOpen' = [wsOpen EXCEPT ![ctl] = FALSE]
    /\ Sets(ctl, [call[ctl] EXCEPT !.closer["control"] = Idle])
    /\ ctl' = None
    /\ life' = IF life = "stopping" THEN "closing" ELSE life
    /\ UNCHANGED <<durable, api, conn, key, active, inbox>>

\* SIGTERM cancels the subscriber in the middle of whatever it awaits: a
\* half-closed peer stays half closed (its ingress too, unless the track's
\* drain had been cancelled), a gather passes the cancellation on.
StopRequested ==
    /\ life = "up" /\ life' = "stopping"
    /\ ctl' = None /\ inbox' = 0
    /\ IF ctl = None THEN UNCHANGED call
       ELSE \E ingress \in {call[ctl].ingress, "closed"} :
              LET at == call[ctl].closer["control"].at IN
              Sets(ctl, [call[ctl] EXCEPT
                  !.closer["control"] = Idle,
                  !.ingress = IF at = "peer" THEN ingress ELSE @,
                  !.run = IF at = "gather" /\ @ = "shield" THEN "over" ELSE @])
    /\ UNCHANGED <<durable, api, sockets>>

\* close_all's snapshot of the live calls.
CloseAll ==
    /\ life = "stopping" /\ ctl = None
    /\ IF active # None THEN ctl' = active /\ UNCHANGED life
                        ELSE life' = "closing" /\ UNCHANGED ctl
    /\ UNCHANGED <<durable, api, sockets, call, inbox>>

\* serve()'s exit closes every WebSocket ...
ServerCloses ==
    /\ life = "closing" /\ \E c \in Conns : wsOpen[c]
    /\ wsOpen' = [c \in Conns |-> FALSE]
    /\ UNCHANGED <<durable, api, conn, key, active, call, process>>

\* What a process leaves behind: its tasks are gone, the next one starts empty.
ProcessGone ==
    /\ life' = "up" /\ ctl' = None /\ inbox' = 0
    /\ active' = None
    /\ wsOpen' = [c \in Conns |-> FALSE]
    /\ conn' = [c \in Conns |-> IF conn[c] = "new" THEN "new" ELSE "over"]
    /\ call' = [c \in Conns |-> NoCall] /\ key' = [c \in Conns |-> 0]
    /\ lost' = lost \cup LiveCalls
    /\ UNCHANGED <<row, costs, turnList, drained, api>>

\* ... and waits for its handlers; main() returns and is started again.
Restarted ==
    /\ life = "closing"
    /\ \A c \in Conns : conn[c] \in {"new", "over"}
    /\ ProcessGone

Killed == "kill" \in Faults /\ ProcessGone

-----------------------------------------------------------------------------
(***************************************************************************)
(* CallSession.close, which two callers may run at once.                   *)
(***************************************************************************)

At(c, k) == call[c].closer[k].at

Summoned(c, k) ==
    /\ At(c, k) = "idle"
    /\ IF k = "handler" THEN conn[c] = "closing" ELSE ctl = c

\* After the peer: stop the egress (which a task not yet started forgets),
\* close the dispatcher's queue, and wait for the tasks there are now.
WaitForTasks(r, k) ==
    [r EXCEPT !.closer[k] = Closer("tasks", r.egress # "none"),
              !.egress = IF @ = "running" THEN "stopped" ELSE @]

\* PeerSession.close: the first caller tears the peer down, a later one
\* finds it closed and returns at once.
SecondCloseReturns(r, k) == [r EXCEPT !.closer[k] = Closer("done", FALSE)]

SecondClose(r, k) == WaitForTasks(r, k)

BeginClose(c, k) ==
    /\ Summoned(c, k)
    /\ Sets(c, IF call[c].peer = "open"
                 THEN [call[c] EXCEPT !.peer = "closed",
                                      !.closer[k] = Closer("peer", FALSE)]
                 ELSE SecondClose(call[c], k))
    /\ UNCHANGED <<durable, api, sockets, process>>

PeerClosed(c, k) ==
    /\ At(c, k) = "peer"
    /\ Sets(c, WaitForTasks([call[c] EXCEPT !.ingress = "closed"], k))
    /\ UNCHANGED <<durable, api, sockets, process>>

\* Every task this closer waits for is over.
TasksOver(c, k) ==
    /\ call[c].run = "over"
    /\ call[c].closer[k].egress => call[c].egress = "ended"

CloseWaitsForever(c, k) == FALSE

\* _CLOSE_TIMEOUT_S: what is pending is cancelled and gathered.  run() dies
\* in its brain factory, leaves its task group, or leaves its shielded wait.
CloseTimesOut(c, k) ==
    /\ At(c, k) = "tasks" /\ ~TasksOver(c, k)
    /\ Sets(c, [call[c] EXCEPT
          !.closer[k].at = "gather",
          !.egress = IF call[c].closer[k].egress THEN "ended" ELSE @,
          !.run = CASE @ \in {"building", "shield"} -> "over"
                    [] @ = "loops" -> "aborting"
                    [] OTHER -> @])
    /\ UNCHANGED <<durable, api, sockets, process>>

TasksDone(c, k) ==
    /\ At(c, k) \in {"tasks", "gather"} /\ TasksOver(c, k)
    /\ Sets(c, [call[c] EXCEPT !.closer[k].at = "finalize"])
    /\ UNCHANGED <<durable, api, sockets, process>>

FinalizeForgotten(c) == call[c].run = "over"

FinalizeOver(c) == call[c].fin \in Finished

\* _await_finalize: no task, a finished one, or the budget is spent.
FinalizeAwaited(c, k) ==
    /\ At(c, k) = "finalize"
    /\ FinalizeOver(c) \/ "giveup" \in Faults
    /\ Sets(c, [call[c] EXCEPT !.closer[k] = Closer("done", FALSE)])
    /\ UNCHANGED <<durable, api, sockets, process>>

-----------------------------------------------------------------------------
(***************************************************************************)
(* The call's tasks: egress, the remote track, VoiceAgentWorker.run.       *)
(***************************************************************************)

EgressRuns(c) ==
    /\ \/ call[c].egress = "created" /\ Sets(c, [call[c] EXCEPT !.egress = "running"])
       \/ call[c].egress = "stopped" /\ Sets(c, [call[c] EXCEPT !.egress = "ended"])
    /\ UNCHANGED <<durable, api, sockets, process>>

\* The remote track ends by itself: _drain_track closes the ingress.
TrackEnds(c) ==
    /\ call[c].ingress = "open" /\ call[c].egress # "none"
    /\ Sets(c, [call[c] EXCEPT !.ingress = "closed"])
    /\ UNCHANGED <<durable, api, sockets, process>>

\* The brain factory: attach, prefetch, and a fresh CostTracker.
BrainBuilt(c) ==
    /\ call[c].run = "building"
    /\ \/ Sets(c, [call[c] EXCEPT !.run = "loops"])
       \/ "brain" \in Faults /\ Sets(c, [call[c] EXCEPT !.run = "over"])
    /\ UNCHANGED <<durable, api, sockets, process>>

\* The task group is over (drained, crashed, or cancelled): run()'s finally
\* creates the finalize task and awaits it shielded.
GroupOver(c) ==
    /\ call[c].run \in {"loops", "aborting"}
    /\ Sets(c, [call[c] EXCEPT !.run = "shield", !.fin = "flush"])
    /\ UNCHANGED <<durable, api, sockets, process>>

RunReturns(c) ==
    /\ call[c].run = "shield" /\ call[c].fin \in Finished
    /\ Sets(c, [call[c] EXCEPT !.run = "over"])
    /\ UNCHANGED <<durable, api, sockets, process>>

-----------------------------------------------------------------------------
(***************************************************************************)
(* on_call_ended: drain the summarizer, CostTracker.finalize (turn records *)
(* to Redis, then the call_costs upsert), SessionManager.end with retries. *)
(***************************************************************************)

\* The call may or may not have recorded an LLM turn.
FlushTurns(c) ==
    /\ call[c].fin = "flush"
    /\ Sets(c, [call[c] EXCEPT !.fin = "upsert"])
    /\ turnList' \in {turnList, turnList \cup {c}}
    /\ UNCHANGED <<row, costs, drained, lost, api, sockets, process>>

UpsertCosts(c) ==
    /\ call[c].fin = "upsert"
    /\ Sets(c, [call[c] EXCEPT !.fin = "end"])
    /\ costs' = c
    /\ UNCHANGED <<row, turnList, drained, lost, api, sockets, process>>

\* finalize() is not retried.
FinalizeFails(c) ==
    /\ "db" \in Faults /\ call[c].fin \in {"flush", "upsert"}
    /\ Sets(c, [call[c] EXCEPT !.fin = "failed"])
    /\ lost' = lost \cup {c}
    /\ UNCHANGED <<row, costs, turnList, drained, api, sockets, process>>

\* Every call numbers its turn records from 1, and (session_id, turn_no) is
\* the primary key of conversation_turns.
TurnsCollide == Cardinality(turnList) > 1

NeverDuplicateEnd == FALSE

DuplicateEnd == row = "ended"

\* end(): a no-op on an ended row, else the gate on the cost row, the flip
\* and the drain, in one transaction.
Ends(c) ==
    /\ call[c].fin = "end"
    /\ \/ DuplicateEnd /\ UNCHANGED <<row, drained>>
       \/ /\ ~DuplicateEnd /\ costs # None /\ ~TurnsCollide
          /\ row' = "ended" /\ drained' = turnList
    /\ Sets(c, [call[c] EXCEPT !.fin = "done", !.attempt = 0])
    /\ UNCHANGED <<costs, turnList, lost, api, sockets, process>>

NoRetry(c) == TRUE

LastAttempt(c) == call[c].attempt + 1 = Attempts

\* end() raises and rolls back; _end_with_retry tries again, up to Attempts.
EndRaises(c) ==
    /\ call[c].fin = "end"
    /\ \/ "db" \in Faults
       \/ "blip" \in Faults /\ call[c].attempt + 1 < Attempts
       \/ ~DuplicateEnd /\ (costs = None \/ TurnsCollide)
    /\ IF LastAttempt(c)
         THEN /\ Sets(c, [call[c] EXCEPT !.fin = "failed", !.attempt = 0])
              /\ lost' = lost \cup {c}
         ELSE /\ Sets(c, [call[c] EXCEPT !.attempt = @ + 1])
              /\ UNCHANGED lost
    /\ UNCHANGED <<row, costs, turnList, drained, api, sockets, process>>

-----------------------------------------------------------------------------
Rest == RemintChecks \/ RemintStores \/ TokenExpires \/ Delete

Client(c) == Connect(c) \/ OfferArrives(c) \/ Disconnects(c) \/ TrackEnds(c)

Handler(c) ==
    \/ VerifyAndBurn(c) \/ Rejected(c) \/ Admitted(c) \/ OfferAnswered(c)
    \/ MessageLoopEnds(c) \/ SlotFreed(c)

Close(c, k) ==
    \/ BeginClose(c, k) \/ PeerClosed(c, k) \/ CloseTimesOut(c, k)
    \/ TasksDone(c, k) \/ FinalizeAwaited(c, k)

Worker(c) == BrainBuilt(c) \/ GroupOver(c) \/ RunReturns(c) \/ EgressRuns(c)

Pipeline(c) ==
    FlushTurns(c) \/ UpsertCosts(c) \/ FinalizeFails(c) \/ Ends(c) \/ EndRaises(c)

Main == ControlMessage \/ ControlDone \/ CloseAll \/ ServerCloses \/ Restarted

Next ==
    \/ Rest \/ Main \/ StopRequested \/ Killed
    \/ \E c \in Conns :
         \/ Client(c) \/ Handler(c) \/ Worker(c) \/ Pipeline(c)
         \/ \E k \in Closers : Close(c, k)

Spec == Init /\ [][Next]_vars

(***************************************************************************)
(* Fairness.  The event loop runs every task that can step; the handshake, *)
(* aiortc's close, the database and the two close budgets end by           *)
(* themselves, and a track group whose ingress is closed drains (TurnsEnd  *)
(* of TurnMachine).  Nothing obliges a client, an operator or SIGTERM.     *)
(***************************************************************************)
FairSpec ==
    /\ Spec
    /\ WF_vars(Main)
    /\ \A c \in Conns :
         /\ WF_vars(Handler(c)) /\ WF_vars(Pipeline(c))
         /\ WF_vars(BrainBuilt(c) \/ RunReturns(c))
         /\ WF_vars(EgressRuns(c))
         /\ WF_vars((call[c].ingress = "closed" \/ call[c].run = "aborting") /\ GroupOver(c))
         /\ \A k \in Closers : WF_vars(Close(c, k))

-----------------------------------------------------------------------------
CallType == [run : {"none", "building", "loops", "aborting", "shield", "over"},
             fin : {"none", "flush", "upsert", "end", "done", "failed"},
             attempt : 0..(Attempts - 1),
             ingress : {"open", "closed"}, peer : {"open", "closed"},
             egress : {"none", "created", "running", "stopped", "ended"},
             closer : [Closers -> [at : {"idle", "peer", "tasks", "gather",
                                         "finalize", "done"},
                                   egress : BOOLEAN]]]

\* Every variable has the values the code gives it.
TypeOK ==
    /\ row \in {"created", "ended"} /\ costs \in Conns \cup {None}
    /\ turnList \subseteq Conns /\ drained \subseteq Conns /\ lost \subseteq Conns
    /\ token \in 0..MaxTokens /\ minted \in Token /\ remint \in {"idle", "checked"}
    /\ conn \in [Conns -> {"new", "auth", "gate", "open", "offer", "closing", "over"}]
    /\ key \in [Conns -> 0..MaxTokens] /\ wsOpen \in [Conns -> BOOLEAN]
    /\ active \in Conns \cup {None} /\ call \in [Conns -> CallType]
    /\ life \in {"up", "stopping", "closing"}
    /\ ctl \in Conns \cup {None} /\ inbox \in 0..MaxDeletes

\* handle_connection's finally: the slot stays occupied for the full
\* teardown, so no second CallSession, worker or CostTracker of the session
\* exists while a first one runs or is still writing its record.
SlotHeldUntilDone == LiveCalls \subseteq {active}

\* A finished connection leaves no pacer behind, although stop() is forgotten
\* by an egress task that starts after it and an offer may be answered while
\* an operator is closing the call.
EgressEndsWithCall ==
    \A c \in Conns : conn[c] = "over" => call[c].egress \in {"none", "ended"}

\* Teardown leaves nothing of a call behind the slot it gives back: no session object, no
\* pacer (handle_connection's finally, CallSession.close).
TeardownIsWhole == SlotHeldUntilDone /\ EgressEndsWithCall

\* The primary key of conversation_turns never makes end() fail by itself:
\* two calls have flushed turn records of a session that has not ended only
\* after the pipeline of one of them was cut short.
TurnsNeverCollide ==
    row = "created" /\ Cardinality(turnList) > 1 => turnList \cap lost # {}

\* docs/05 3.1: the session ends once and its turns are drained once,
\* whatever later calls, retries and repeated hang-ups do.
DrainedOnce == [][row = "ended" => row' = "ended" /\ drained' = drained]_vars

\* A connection that has gone gives its slot back, so a reconnect is not
\* answered SESSION_ALREADY_ACTIVE forever.
SlotComesFree == \A c \in Conns : (active = c /\ ~wsOpen[c]) ~> active # c

\* Every hang-up path (client, transport, operator DELETE, shutdown) of a
\* call whose brain was built reaches the durable end of the session.
HungUpCallEnds ==
    \A c \in Conns :
        (call[c].run = "loops" /\ (~wsOpen[c] \/ ctl = c)) ~> row = "ended"

\* Both: however a call is hung up, its session ends and its slot comes back.
TeardownEnds == SlotComesFree /\ HungUpCallEnds

\* The comment of handle_connection's finally: a second call must not
\* corrupt call_costs, and "Reordering is what actually closes the window".
EndedLedgerIsFinal == [][row = "ended" => costs' = costs]_vars

\* _await_finalize: "`self._worker.finalize_task` is reliably set here
\* whenever `self._worker` is not None".
FinalizeTaskIsSet ==
    \A c \in Conns : \A k \in Closers : At(c, k) = "finalize" => call[c].fin # "none"
==============================================================================
