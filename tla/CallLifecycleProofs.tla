------------------------- MODULE CallLifecycleProofs -------------------------
(***************************************************************************)
(* Type correctness of CallLifecycle and its safety properties, for every  *)
(* set of connections, every bound and every fault except "giveup" (with   *)
(* the pipeline's budget spent the slot is freed early, as                 *)
(* CallSession._await_finalize documents).                                 *)
(***************************************************************************)
EXTENDS CallLifecycle, FiniteSetTheorems, TLAPS

Holding == {"open", "offer", "closing"}   \* handle_connection owns the slot
Busy    == {"flush", "upsert", "end"}     \* the pipeline is under way

\* What a connection at p and its call r owe each other.  A closer past its
\* waits has seen run() over, and at its end the pipeline finished; a handler
\* that holds no slot left nothing running; the handler closes only after its
\* message loop, so no offer is answered behind its back and the egress it
\* saw is the egress there is.
CloserInv(r) ==
    \A k \in Closers :
        /\ r.closer[k].at \in {"finalize", "done"} => r.run = "over"
        /\ r.closer[k].at = "done" => r.fin \in Finished
        /\ r.closer[k].egress => r.egress # "none"

HandlerInv(p, r) ==
    LET h == r.closer["handler"] IN
    /\ h.at # "idle" => p \in {"closing", "over"}
    /\ h.at \in {"tasks", "gather", "finalize"} /\ ~h.egress => r.egress = "none"
    /\ h.at \in {"finalize", "done"} => r.egress \in {"none", "ended"}

QuietInv(p, r) ==
    p \notin Holding =>
        r.run \in Over /\ r.fin \in Finished /\ r.egress \in {"none", "ended"}

CallInv(p, r) == CloserInv(r) /\ HandlerInv(p, r) /\ QuietInv(p, r)

Calls == \A c \in Conns : CallInv(conn[c], call[c])

SlotOwner == \A c \in Conns : conn[c] \in Holding <=> active = c

\* Turn records wait in Redis for the end only on behalf of a pipeline that
\* is under way or was cut short.
Owed ==
    row = "created" =>
        \A c \in turnList : c \in lost \/ call[c].fin \in Busy

MintsLeft == remint = "checked" => minted < MaxTokens

LInv == TypeOK /\ MintsLeft /\ SlotOwner /\ Calls /\ Owed

-----------------------------------------------------------------------------
(***************************************************************************)
(* Facts about one call record.                                            *)
(***************************************************************************)
CloserType == [at : {"idle", "peer", "tasks", "gather", "finalize", "done"},
               egress : BOOLEAN]

LEMMA CallTyped ==
    ASSUME TypeOK, NEW c \in Conns
    PROVE  /\ call[c] \in CallType
           /\ call[c].closer \in [Closers -> CloserType]
BY DEF TypeOK, CallType, CloserType

LEMMA NoCallType == NoCall \in CallType /\ NewCall \in CallType
<1>1. 0 \in 0..(Attempts - 1)
  BY CallConstants
<1>2. [k \in Closers |-> Idle] \in [Closers -> CloserType]
  BY DEF Idle, Closer, CloserType
<1>3. NoCall \in CallType
  BY <1>1, <1>2 DEF NoCall, CallType, CloserType
<1> QED BY <1>3, Zenon DEF NewCall, CallType

\* A call not yet begun suits any connection, one just begun an open one.
LEMMA FreshCall ==
    \A p : CallInv(p, NoCall) /\ (p \in Holding => CallInv(p, NewCall))
<1>1. /\ NoCall.run = "none" /\ NoCall.fin = "none" /\ NoCall.egress = "none"
      /\ \A k \in Closers : NoCall.closer[k] = Idle
  BY DEF NoCall
<1>2. NewCall.fin = "none" /\ NewCall.egress = "none" /\ NewCall.closer = NoCall.closer
  BY DEF NewCall, NoCall
<1>3. Idle.at = "idle" /\ Idle.egress = FALSE
  BY DEF Idle, Closer
<1> QED
  BY <1>1, <1>2, <1>3 DEF CallInv, CloserInv, HandlerInv, QuietInv, Over, Finished, Closers

\* What Sets does to the calls.
LEMMA SetsCalls ==
    ASSUME TypeOK, NEW c \in Conns, NEW r \in CallType, Sets(c, r)
    PROVE  /\ call' \in [Conns -> CallType]
           /\ call'[c] = r
           /\ \A d \in Conns \ {c} : call'[d] = call[d]
BY DEF TypeOK, Sets

-----------------------------------------------------------------------------
(***************************************************************************)
(* How a step disturbs the invariant: it rewrites one call, or it rewrites *)
(* none and moves a connection.                                            *)
(***************************************************************************)

\* TypeOK without the calls, and what else does not mention them.
FlatOK ==
    /\ row \in {"created", "ended"} /\ costs \in Conns \cup {None}
    /\ turnList \subseteq Conns /\ drained \subseteq Conns /\ lost \subseteq Conns
    /\ token \in 0..MaxTokens /\ minted \in Token /\ remint \in {"idle", "checked"}
    /\ conn \in [Conns -> {"new", "auth", "gate", "open", "offer", "closing", "over"}]
    /\ key \in [Conns -> 0..MaxTokens] /\ wsOpen \in [Conns -> BOOLEAN]
    /\ active \in Conns \cup {None}
    /\ life \in {"up", "stopping", "closing"}
    /\ ctl \in Conns \cup {None} /\ inbox \in 0..MaxDeletes
    /\ MintsLeft /\ SlotOwner

CallsOK == call \in [Conns -> CallType] /\ Calls /\ Owed

LEMMA Parts == (LInv <=> FlatOK /\ CallsOK) /\ (LInv' <=> FlatOK' /\ CallsOK')
BY DEF LInv, TypeOK, FlatOK, CallsOK

LEMMA FlatKept ==
    ASSUME FlatOK, UNCHANGED <<durable, api, sockets, process>>
    PROVE  FlatOK'
BY DEF FlatOK, MintsLeft, SlotOwner, durable, api, sockets, process

\* Call c becomes r, which suits its connection and still owes its records.
LEMMA OneCallMoves ==
    ASSUME LInv, NEW c \in Conns, NEW r \in CallType, Sets(c, r),
           CallInv(conn'[c], r),
           \A d \in Conns \ {c} : conn'[d] = conn[d],
           row' = "created" => row = "created",
           turnList' \subseteq turnList \cup {c},
           lost \subseteq lost',
           row' = "created" /\ c \in turnList' => c \in lost' \/ r.fin \in Busy
    PROVE  CallsOK'
<1>1. /\ call' \in [Conns -> CallType]
      /\ call'[c] = r
      /\ \A d \in Conns \ {c} : call'[d] = call[d]
  BY SetsCalls DEF LInv
<1>2. Calls'
  <2> SUFFICES ASSUME NEW d \in Conns PROVE CallInv(conn'[d], call'[d])
    BY DEF Calls
  <2>1. CASE d = c
    BY <1>1, <2>1
  <2>2. CASE d # c
    BY <1>1, <2>2 DEF LInv, Calls
  <2> QED BY <2>1, <2>2
<1>3. Owed'
  <2> SUFFICES ASSUME row' = "created", NEW d \in turnList'
               PROVE  d \in lost' \/ call'[d].fin \in Busy
    BY DEF Owed
  <2>1. CASE d = c
    BY <1>1, <2>1
  <2>2. CASE d # c
    BY <1>1, <2>2 DEF LInv, Owed, TypeOK
  <2> QED BY <2>1, <2>2
<1> QED BY <1>1, <1>2, <1>3 DEF CallsOK

\* The same for a step on the call alone that keeps the durable record.
LEMMA CallMoves ==
    ASSUME LInv, NEW c \in Conns, NEW r \in CallType, Sets(c, r),
           CallInv(conn[c], r), r.fin = call[c].fin \/ r.fin \in Busy,
           UNCHANGED <<durable, api, sockets, process>>
    PROVE  LInv'
<1>1. CallsOK'
  <2>1. row' = "created" /\ c \in turnList' => c \in lost' \/ r.fin \in Busy
    BY DEF durable, LInv, Owed
  <2> QED BY <2>1, OneCallMoves DEF durable, sockets
<1> QED BY <1>1, Parts, FlatKept

\* No call changes, and the connection that moves suits its call.
LEMMA ConnMoves ==
    ASSUME LInv, UNCHANGED call, UNCHANGED durable,
           \A d \in Conns : CallInv(conn'[d], call[d])
    PROVE  CallsOK'
BY DEF LInv, TypeOK, CallsOK, Calls, Owed, durable

\* A connection that moves without entering or leaving the slot.
LEMMA SuitsElsewhere ==
    ASSUME NEW r, NEW p, NEW q, CallInv(p, r),
           p \in Holding <=> q \in Holding,
           p \in {"closing", "over"} => q \in {"closing", "over"}
    PROVE  CallInv(q, r)
BY DEF CallInv, HandlerInv, QuietInv

-----------------------------------------------------------------------------
LEMMA InitLInv == Init => LInv
<1> SUFFICES ASSUME Init PROVE LInv
  OBVIOUS
<1> USE CallConstants DEF Init
<1>1. \A c \in Conns : CallInv(conn[c], call[c])
  BY FreshCall
<1>2. TypeOK
  BY NoCallType DEF TypeOK, Token
<1>3. SlotOwner /\ MintsLeft /\ Owed
  BY DEF SlotOwner, MintsLeft, Owed, Holding
<1> QED BY <1>1, <1>2, <1>3 DEF LInv, Calls

-----------------------------------------------------------------------------
(***************************************************************************)
(* The call's tasks and its pipeline.                                      *)
(***************************************************************************)
\* A run() or a pipeline that moves on.
LEMMA WorkSuits ==
    ASSUME NEW p, NEW r, NEW s, CallInv(p, r),
           s.egress = r.egress, s.closer = r.closer,
           r.run = "over" => s.run = "over",
           p \in Holding \/ (s.run \in Over /\ s.fin \in Finished),
           r.run = "over" /\ r.fin \in Finished => s.fin \in Finished
    PROVE  CallInv(p, s)
BY DEF CallInv, CloserInv, HandlerInv, QuietInv, Over

LEMMA WorkerLInv ==
    ASSUME LInv, NEW c \in Conns, NEW r, r = call[c], Worker(c)
    PROVE  LInv'
<1>1. r = call[c] /\ r \in CallType /\ CallInv(conn[c], r)
  BY CallTyped DEF LInv, Calls
<1>2. CASE BrainBuilt(c)
  <2>0. PICK x \in {"loops", "over"} : Sets(c, [call[c] EXCEPT !.run = x])
    BY <1>2 DEF BrainBuilt
  <2> DEFINE s == [r EXCEPT !.run = x]
  <2>1. Sets(c, s) /\ s = [r EXCEPT !.run = x]
    BY <2>0, <1>1
  <2> HIDE DEF s
  <2>2. /\ s \in CallType /\ s.run = x /\ s.fin = r.fin /\ s.egress = r.egress
        /\ s.closer = r.closer
    BY <1>1, <2>1 DEF CallType
  <2>3. conn[c] \in Holding
    BY <1>1, <1>2 DEF BrainBuilt, CallInv, QuietInv, Over
  <2>4. CallInv(conn[c], s)
    BY <1>1, <1>2, <2>2, <2>3, WorkSuits DEF BrainBuilt
  <2> QED BY <1>2, <1>1, <2>0, <2>1, <2>2, <2>4, CallMoves DEF BrainBuilt
<1>3. CASE GroupOver(c)
  <2> DEFINE s == [r EXCEPT !.run = "shield", !.fin = "flush"]
  <2>1. Sets(c, s) /\ s = [r EXCEPT !.run = "shield", !.fin = "flush"]
    BY <1>3, <1>1 DEF GroupOver
  <2> HIDE DEF s
  <2>2. /\ s \in CallType /\ s.run = "shield" /\ s.fin = "flush" /\ s.egress = r.egress
        /\ s.closer = r.closer
    BY <1>1, <2>1 DEF CallType
  <2>3. conn[c] \in Holding /\ r.run \notin Over
    BY <1>1, <1>3 DEF GroupOver, CallInv, QuietInv, Over
  <2>4. CallInv(conn[c], s)
    BY <1>1, <2>2, <2>3, WorkSuits DEF Over
  <2> QED BY <1>3, <1>1, <2>1, <2>2, <2>4, CallMoves DEF GroupOver, Busy
<1>4. CASE RunReturns(c)
  <2> DEFINE s == [r EXCEPT !.run = "over"]
  <2>1. Sets(c, s) /\ s = [r EXCEPT !.run = "over"]
    BY <1>4, <1>1 DEF RunReturns
  <2> HIDE DEF s
  <2>2. /\ s \in CallType /\ s.run = "over" /\ s.fin = r.fin /\ s.egress = r.egress
        /\ s.closer = r.closer
    BY <1>1, <2>1 DEF CallType
  <2>3. CallInv(conn[c], s)
    BY <1>1, <1>4, <2>2, WorkSuits DEF RunReturns, Over
  <2> QED BY <1>4, <1>1, <2>1, <2>2, <2>3, CallMoves DEF RunReturns
<1>5. CASE EgressRuns(c)
  <2>0. PICK x \in {"running", "ended"} : 
            /\ Sets(c, [call[c] EXCEPT !.egress = x])
            /\ call[c].egress \in {"created", "stopped"}
    BY <1>5 DEF EgressRuns
  <2> DEFINE s == [r EXCEPT !.egress = x]
  <2>1. Sets(c, s) /\ s = [r EXCEPT !.egress = x]
    BY <2>0, <1>1
  <2> HIDE DEF s
  <2>2. /\ s \in CallType /\ s.run = r.run /\ s.fin = r.fin /\ s.egress = x
        /\ s.closer = r.closer
    BY <1>1, <2>1 DEF CallType
  <2>3. CallInv(conn[c], s)
    BY <1>1, <2>0, <2>2 DEF CallInv, CloserInv, HandlerInv, QuietInv
  <2> QED BY <1>5, <1>1, <2>0, <2>1, <2>2, <2>3, CallMoves DEF EgressRuns
<1> QED BY <1>2, <1>3, <1>4, <1>5 DEF Worker

\* A step of the pipeline outside the durable end: the call's records stay owed.
LEMMA PipelineLInv ==
    ASSUME LInv, NEW c \in Conns, NEW r, r = call[c], Pipeline(c)
    PROVE  LInv'
<1>0. 0 \in 0..(Attempts - 1)
  BY CallConstants
<1>1. r = call[c] /\ r \in CallType /\ CallInv(conn[c], r) /\ c # None
  BY CallTyped, CallConstants DEF LInv, Calls
<1>2. UNCHANGED <<api, sockets, process>>
  BY DEF Pipeline, FlushTurns, UpsertCosts, FinalizeFails, Ends, EndRaises
<1>3. r.fin \in Busy /\ conn[c] \in Holding
  BY <1>1 DEF Pipeline, FlushTurns, UpsertCosts, FinalizeFails, Ends, EndRaises, Busy,
              CallInv, QuietInv, Finished
<1>4. FlatOK'
  <2>1. FlatOK
    BY Parts
  <2>2. /\ row' \in {"created", "ended"} /\ costs' \in Conns \cup {None}
        /\ turnList' \subseteq Conns /\ drained' \subseteq Conns /\ lost' \subseteq Conns
    BY <2>1 DEF FlatOK, Pipeline, FlushTurns, UpsertCosts, FinalizeFails, Ends, EndRaises
  <2> QED BY <1>2, <2>1, <2>2 DEF FlatOK, MintsLeft, SlotOwner, api, sockets, process
<1>5. CASE FlushTurns(c)
  <2> DEFINE s == [r EXCEPT !.fin = "upsert"]
  <2>1. Sets(c, s) /\ s = [r EXCEPT !.fin = "upsert"]
    BY <1>1, <1>5 DEF FlushTurns
  <2> HIDE DEF s
  <2>2. /\ s \in CallType /\ s.run = r.run /\ s.fin = "upsert" /\ s.egress = r.egress
        /\ s.closer = r.closer
    BY <1>1, <2>1 DEF CallType
  <2>3. CallInv(conn[c], s)
    BY <1>1, <1>3, <2>2, WorkSuits DEF Busy, Finished
  <2>4. CallsOK'
    BY <1>2, <1>5, <2>1, <2>2, <2>3, OneCallMoves DEF FlushTurns, sockets, Busy
  <2> QED BY <1>4, <2>4, Parts
<1>6. CASE UpsertCosts(c)
  <2> DEFINE s == [r EXCEPT !.fin = "end"]
  <2>1. Sets(c, s) /\ s = [r EXCEPT !.fin = "end"]
    BY <1>1, <1>6 DEF UpsertCosts
  <2> HIDE DEF s
  <2>2. /\ s \in CallType /\ s.run = r.run /\ s.fin = "end" /\ s.egress = r.egress
        /\ s.closer = r.closer
    BY <1>1, <2>1 DEF CallType
  <2>3. CallInv(conn[c], s)
    BY <1>1, <1>3, <2>2, WorkSuits DEF Busy, Finished
  <2>4. CallsOK'
    BY <1>2, <1>6, <2>1, <2>2, <2>3, OneCallMoves DEF UpsertCosts, sockets, Busy
  <2> QED BY <1>4, <2>4, Parts
<1>7. CASE FinalizeFails(c)
  <2> DEFINE s == [r EXCEPT !.fin = "failed"]
  <2>1. Sets(c, s) /\ s = [r EXCEPT !.fin = "failed"]
    BY <1>1, <1>7 DEF FinalizeFails
  <2> HIDE DEF s
  <2>2. /\ s \in CallType /\ s.run = r.run /\ s.fin = "failed" /\ s.egress = r.egress
        /\ s.closer = r.closer
    BY <1>1, <2>1 DEF CallType
  <2>3. CallInv(conn[c], s)
    BY <1>1, <1>3, <2>2, WorkSuits DEF Busy, Finished
  <2>4. CallsOK'
    BY <1>2, <1>7, <2>1, <2>2, <2>3, OneCallMoves DEF FinalizeFails, sockets, Busy
  <2> QED BY <1>4, <2>4, Parts
<1>8. CASE Ends(c)
  <2> DEFINE s == [r EXCEPT !.fin = "done", !.attempt = 0]
  <2>1. Sets(c, s) /\ s = [r EXCEPT !.fin = "done", !.attempt = 0]
    BY <1>1, <1>8 DEF Ends
  <2> HIDE DEF s
  <2>2. /\ s \in CallType /\ s.run = r.run /\ s.fin = "done" /\ s.egress = r.egress
        /\ s.closer = r.closer
    BY <1>1, <2>1, <1>0 DEF CallType
  <2>3. CallInv(conn[c], s)
    BY <1>1, <1>3, <2>2, WorkSuits DEF Busy, Finished
  <2>4. row' = "ended" /\ UNCHANGED <<turnList, lost>>
    BY <1>8 DEF Ends, DuplicateEnd
  <2>5. CallsOK'
    BY <1>2, <2>1, <2>2, <2>3, <2>4, OneCallMoves DEF sockets
  <2> QED BY <1>4, <2>5, Parts
<1>9. CASE EndRaises(c)
  <2>1. CASE LastAttempt(c)
    <3> DEFINE s == [r EXCEPT !.fin = "failed", !.attempt = 0]
    <3>1. /\ Sets(c, s) /\ s = [r EXCEPT !.fin = "failed", !.attempt = 0]
          /\ UNCHANGED <<row, turnList>> /\ lost' = lost \cup {c}
      BY <1>1, <1>9, <2>1 DEF EndRaises
    <3> HIDE DEF s
    <3>2. /\ s \in CallType /\ s.run = r.run /\ s.fin = "failed" /\ s.egress = r.egress
          /\ s.closer = r.closer
      BY <1>1, <3>1, <1>0 DEF CallType
    <3>3. CallInv(conn[c], s)
      BY <1>1, <1>3, <3>2, WorkSuits DEF Busy, Finished
    <3>4. CallsOK'
      BY <1>2, <3>1, <3>2, <3>3, OneCallMoves DEF sockets, Busy
    <3> QED BY <1>4, <3>4, Parts
  <2>2. CASE ~LastAttempt(c)
    <3> DEFINE s == [r EXCEPT !.attempt = @ + 1]
    <3>1. /\ Sets(c, s) /\ s = [r EXCEPT !.attempt = r.attempt + 1]
          /\ UNCHANGED durable
      BY <1>1, <1>9, <2>2 DEF EndRaises, durable
    <3> HIDE DEF s
    <3>2. r.attempt + 1 \in 0..(Attempts - 1)
      BY <1>1, <2>2, CallConstants DEF LastAttempt, CallType
    <3>3. /\ s \in CallType /\ s.run = r.run /\ s.fin = r.fin /\ s.egress = r.egress
          /\ s.closer = r.closer
      BY <1>1, <3>1, <3>2 DEF CallType
    <3>4. CallInv(conn[c], s)
      BY <1>1, <1>3, <3>3, WorkSuits DEF Busy, Finished
    <3> QED BY <1>1, <1>2, <3>1, <3>3, <3>4, CallMoves
  <2> QED BY <2>1, <2>2
<1> QED BY <1>5, <1>6, <1>7, <1>8, <1>9 DEF Pipeline

-----------------------------------------------------------------------------
(***************************************************************************)
(* CallSession.close.                                                      *)
(***************************************************************************)

\* A closer k that goes on to x, with what it does to the tasks meanwhile.
LEMMA CloserSuits ==
    ASSUME NEW p, NEW r \in CallType, NEW s, NEW k \in Closers, NEW x \in CloserType,
           CallInv(p, r), s.closer = [r.closer EXCEPT ![k] = x],
           s.fin = r.fin, r.run \in Over => s.run = r.run,
           \/ s.egress = r.egress
           \/ r.egress = "running" /\ s.egress = "stopped"
           \/ r.closer[k].egress /\ s.egress = "ended",
           x.at \in {"finalize", "done"} => s.run = "over",
           x.at = "done" => s.fin \in Finished,
           x.egress => s.egress # "none",
           k = "handler" =>
             /\ x.at # "idle" => p \in {"closing", "over"}
             /\ x.at \in {"tasks", "gather", "finalize"} /\ ~x.egress => s.egress = "none"
             /\ x.at \in {"finalize", "done"} => s.egress \in {"none", "ended"}
    PROVE  CallInv(p, s)
<1>1. /\ s.closer[k] = x
      /\ \A j \in Closers \ {k} : s.closer[j] = r.closer[j]
  BY DEF CallType
<1>2. CloserInv(s)
  BY <1>1 DEF CallInv, CloserInv, Over
<1>3. HandlerInv(p, s)
  <2>1. CASE k = "handler"
    BY <1>1, <2>1 DEF HandlerInv
  <2>2. CASE k # "handler"
    <3>1. s.closer["handler"] = r.closer["handler"]
      BY <1>1, <2>2 DEF Closers
    <3> QED BY <3>1 DEF CallInv, CloserInv, HandlerInv
  <2> QED BY <2>1, <2>2
<1>4. QuietInv(p, s)
  BY DEF CallInv, QuietInv
<1> QED BY <1>2, <1>3, <1>4 DEF CallInv

LEMMA WaitRecord ==
    ASSUME NEW r \in CallType, NEW k \in Closers, NEW s, s = WaitForTasks(r, k)
    PROVE  /\ s \in CallType /\ s.run = r.run /\ s.fin = r.fin
           /\ s.egress = IF r.egress = "running" THEN "stopped" ELSE r.egress
           /\ s.closer = [r.closer EXCEPT ![k] = Closer("tasks", r.egress # "none")]
<1> DEFINE x == Closer("tasks", r.egress # "none")
           e == IF r.egress = "running" THEN "stopped" ELSE r.egress
<1>1. x \in CloserType
  BY DEF Closer, CloserType
<1>2. e \in {"none", "created", "running", "stopped", "ended"}
  BY DEF CallType
<1>3. s = [r EXCEPT !.closer[k] = x, !.egress = e]
  BY DEF WaitForTasks
<1> HIDE DEF x, e
<1>4. [r.closer EXCEPT ![k] = x] \in [Closers -> CloserType]
  BY <1>1 DEF CallType, CloserType
<1>5. s = [r EXCEPT !.closer = [r.closer EXCEPT ![k] = x], !.egress = e]
  BY <1>3, Zenon DEF CallType
<1> HIDE <1>3
<1>6. s \in CallType /\ s.run = r.run /\ s.fin = r.fin /\ s.egress = e
      /\ s.closer = [r.closer EXCEPT ![k] = x]
  BY <1>2, <1>4, <1>5, Zenon DEF CallType, CloserType
<1> QED BY <1>6 DEF x, e

\* Waiting for the tasks suits a closer that has begun.
LEMMA WaitSuits ==
    ASSUME NEW p, NEW r \in CallType, NEW k \in Closers, CallInv(p, r),
           k = "handler" => p \in {"closing", "over"}
    PROVE  WaitForTasks(r, k) \in CallType /\ CallInv(p, WaitForTasks(r, k))
           /\ WaitForTasks(r, k).fin = r.fin
<1> DEFINE s == WaitForTasks(r, k)
           x == Closer("tasks", r.egress # "none")
<1>1. /\ s \in CallType /\ s.run = r.run /\ s.fin = r.fin
      /\ s.egress = IF r.egress = "running" THEN "stopped" ELSE r.egress
      /\ s.closer = [r.closer EXCEPT ![k] = x]
  BY WaitRecord
<1>2. x \in CloserType /\ x.at = "tasks" /\ x.egress = (r.egress # "none")
  BY DEF Closer, CloserType
<1> HIDE DEF s, x
<1>3. /\ s.egress = r.egress \/ (r.egress = "running" /\ s.egress = "stopped")
      /\ x.egress => s.egress # "none"
      /\ ~x.egress => s.egress = "none"
  BY <1>1, <1>2
<1>4. CallInv(p, s)
  <2>1. s.fin = r.fin /\ (r.run \in Over => s.run = r.run)
    BY <1>1
  <2>2. x.at \notin {"finalize", "done"}
    BY <1>2
  <2>3. s.closer = [r.closer EXCEPT ![k] = x] /\ x \in CloserType
    BY <1>1, <1>2
  <2> QED BY <1>3, <2>1, <2>2, <2>3, CloserSuits
<1> QED BY <1>1, <1>4 DEF s

LEMMA CloseLInv ==
    ASSUME LInv, "giveup" \notin Faults,
           NEW c \in Conns, NEW k \in Closers, NEW r, r = call[c], Close(c, k)
    PROVE  LInv'
<1>1. r = call[c] /\ r \in CallType /\ CallInv(conn[c], r)
  BY CallTyped DEF LInv, Calls
<1>2. r.closer \in [Closers -> CloserType]
  BY <1>1 DEF CallType, CloserType
<1>3. UNCHANGED <<durable, api, sockets, process>>
  BY DEF Close, BeginClose, PeerClosed, CloseTimesOut, TasksDone, FinalizeAwaited
<1>4. CASE BeginClose(c, k)
  <2>1. k = "handler" => conn[c] = "closing"
    BY <1>4 DEF BeginClose, Summoned
  <2>2. CASE r.peer = "open"
    <3> DEFINE x == Closer("peer", FALSE)
               s == [r EXCEPT !.peer = "closed", !.closer[k] = x]
    <3>1. Sets(c, s) /\ s = [r EXCEPT !.peer = "closed", !.closer[k] = x]
      BY <1>1, <1>4, <2>2 DEF BeginClose
    <3>2. x \in CloserType /\ x.at = "peer" /\ x.egress = FALSE
      BY DEF Closer, CloserType
    <3> HIDE DEF s, x
    <3>3. /\ s \in CallType /\ s.run = r.run /\ s.fin = r.fin /\ s.egress = r.egress
          /\ s.closer = [r.closer EXCEPT ![k] = x]
      BY <1>1, <1>2, <3>1, <3>2 DEF CallType, CloserType
    <3>4. CallInv(conn[c], s)
      BY <1>1, <2>1, <3>2, <3>3, CloserSuits
    <3> QED BY <1>1, <1>3, <3>1, <3>3, <3>4, CallMoves
  <2>3. CASE r.peer # "open"
    <3>1. Sets(c, WaitForTasks(r, k))
      BY <1>1, <1>4, <2>3 DEF BeginClose, SecondClose
    <3> QED BY <1>1, <1>3, <2>1, <3>1, WaitSuits, CallMoves
  <2> QED BY <2>2, <2>3
<1>5. CASE PeerClosed(c, k)
  <2> DEFINE q == [r EXCEPT !.ingress = "closed"]
  <2>1. Sets(c, WaitForTasks(q, k)) /\ q = [r EXCEPT !.ingress = "closed"]
    BY <1>1, <1>5 DEF PeerClosed
  <2> HIDE DEF q
  <2>2. /\ q \in CallType /\ q.run = r.run /\ q.fin = r.fin /\ q.egress = r.egress
        /\ q.closer = r.closer
    BY <1>1, <2>1 DEF CallType
  <2>3. CallInv(conn[c], q)
    BY <1>1, <2>2 DEF CallInv, CloserInv, HandlerInv, QuietInv
  <2>4. k = "handler" => conn[c] \in {"closing", "over"}
    BY <1>1, <1>5 DEF PeerClosed, At, CallInv, HandlerInv
  <2> QED BY <1>1, <1>3, <2>1, <2>2, <2>3, <2>4, WaitSuits, CallMoves
<1>6. CASE CloseTimesOut(c, k)
  <2> DEFINE x == [r.closer[k] EXCEPT !.at = "gather"]
             e == IF r.closer[k].egress THEN "ended" ELSE r.egress
             u == CASE r.run \in {"building", "shield"} -> "over"
                    [] r.run = "loops" -> "aborting"
                    [] OTHER -> r.run
             s == [r EXCEPT !.closer[k] = x, !.egress = e, !.run = u]
  <2>1. Sets(c, s) /\ s = [r EXCEPT !.closer[k] = x, !.egress = e, !.run = u]
    BY <1>1, <1>2, <1>6 DEF CloseTimesOut
  <2>2. /\ x \in CloserType /\ x.at = "gather" /\ x.egress = r.closer[k].egress
        /\ e \in {"none", "created", "running", "stopped", "ended"}
        /\ e = r.egress \/ (r.closer[k].egress /\ e = "ended")
        /\ r.closer[k].egress => e = "ended"
    BY <1>1, <1>2 DEF CloserType, CallType
  <2>3. /\ u \in {"none", "building", "loops", "aborting", "shield", "over"}
        /\ r.run \in Over => u = r.run
    BY <1>1 DEF CallType, Over
  <2> HIDE DEF s, x, e, u
  <2>4. /\ s \in CallType /\ s.run = u /\ s.fin = r.fin /\ s.egress = e
        /\ s.closer = [r.closer EXCEPT ![k] = x]
    BY <1>1, <1>2, <2>1, <2>2, <2>3, ZenonT(30) DEF CallType, CloserType
  <2>5. k = "handler" =>
          /\ conn[c] \in {"closing", "over"}
          /\ ~r.closer[k].egress => r.egress = "none"
    BY <1>1, <1>6 DEF CloseTimesOut, At, CallInv, HandlerInv
  <2>6. CallInv(conn[c], s)
    BY <1>1, <2>2, <2>3, <2>4, <2>5, CloserSuits
  <2> QED BY <1>1, <1>3, <2>1, <2>4, <2>6, CallMoves
<1>7. CASE TasksDone(c, k)
  <2> DEFINE x == [r.closer[k] EXCEPT !.at = "finalize"]
             s == [r EXCEPT !.closer[k] = x]
  <2>1. Sets(c, s) /\ s = [r EXCEPT !.closer[k] = x]
    BY <1>1, <1>2, <1>7 DEF TasksDone
  <2>2. x \in CloserType /\ x.at = "finalize" /\ x.egress = r.closer[k].egress
    BY <1>2 DEF CloserType
  <2> HIDE DEF s, x
  <2>3. /\ s \in CallType /\ s.run = r.run /\ s.fin = r.fin /\ s.egress = r.egress
        /\ s.closer = [r.closer EXCEPT ![k] = x]
    BY <1>1, <1>2, <2>1, <2>2 DEF CallType, CloserType
  <2>4. /\ r.run = "over" /\ r.closer[k].at \in {"tasks", "gather"}
        /\ r.closer[k].egress => r.egress = "ended"
    BY <1>1, <1>7 DEF TasksDone, At, TasksOver
  <2>5. k = "handler" =>
          /\ conn[c] \in {"closing", "over"}
          /\ ~r.closer[k].egress => r.egress = "none"
    BY <1>1, <2>4 DEF CallInv, HandlerInv
  <2>6. CallInv(conn[c], s)
    BY <1>1, <2>2, <2>3, <2>4, <2>5, CloserSuits
  <2> QED BY <1>1, <1>3, <2>1, <2>3, <2>6, CallMoves
<1>8. CASE FinalizeAwaited(c, k)
  <2> DEFINE x == Closer("done", FALSE)
             s == [r EXCEPT !.closer[k] = x]
  <2>1. Sets(c, s) /\ s = [r EXCEPT !.closer[k] = x]
    BY <1>1, <1>8 DEF FinalizeAwaited
  <2>2. x \in CloserType /\ x.at = "done" /\ x.egress = FALSE
    BY DEF Closer, CloserType
  <2> HIDE DEF s, x
  <2>3. /\ s \in CallType /\ s.run = r.run /\ s.fin = r.fin /\ s.egress = r.egress
        /\ s.closer = [r.closer EXCEPT ![k] = x]
    BY <1>1, <1>2, <2>1, <2>2 DEF CallType, CloserType
  <2>4. r.closer[k].at = "finalize" /\ r.fin \in Finished
    BY <1>1, <1>8 DEF FinalizeAwaited, At, FinalizeOver
  <2>5. /\ r.run = "over"
        /\ k = "handler" => conn[c] \in {"closing", "over"} /\ r.egress \in {"none", "ended"}
    BY <1>1, <2>4 DEF CallInv, CloserInv, HandlerInv
  <2>6. CallInv(conn[c], s)
    BY <1>1, <2>2, <2>3, <2>4, <2>5, CloserSuits
  <2> QED BY <1>1, <1>3, <2>1, <2>3, <2>6, CallMoves
<1> QED BY <1>4, <1>5, <1>6, <1>7, <1>8 DEF Close

-----------------------------------------------------------------------------
(***************************************************************************)
(* REST, the client, the handler.                                          *)
(***************************************************************************)
LEMMA RestLInv == ASSUME LInv, Rest PROVE LInv'
<1>1. UNCHANGED <<durable, call, conn>>
  BY DEF Rest, RemintChecks, RemintStores, TokenExpires, Delete, sockets
<1>2. CallsOK'
  BY <1>1, ConnMoves DEF LInv, Calls
<1>3. FlatOK
  BY Parts
<1>4. FlatOK'
  <2> USE <1>3, CallConstants DEF FlatOK, MintsLeft, SlotOwner, Token, durable, sockets, process
  <2>1. CASE RemintChecks
    BY <2>1 DEF RemintChecks
  <2>2. CASE RemintStores
    BY <2>2 DEF RemintStores
  <2>3. CASE TokenExpires
    BY <2>3 DEF TokenExpires
  <2>4. CASE Delete
    BY <2>4 DEF Delete, api
  <2> QED BY <2>1, <2>2, <2>3, <2>4 DEF Rest
<1> QED BY <1>2, <1>4, Parts

Stages == {"new", "auth", "gate", "open", "offer", "closing", "over"}

\* Connection c moves to p, on the same side of the gate, and no call changes.
LEMMA StageMoves ==
    ASSUME LInv, NEW c \in Conns, NEW p \in Stages,
           conn' = [conn EXCEPT ![c] = p],
           conn[c] \in Holding <=> p \in Holding,
           conn[c] \in {"closing", "over"} => p \in {"closing", "over"},
           key' \in [Conns -> 0..MaxTokens], wsOpen' \in [Conns -> BOOLEAN],
           token' \in 0..MaxTokens,
           UNCHANGED <<durable, minted, remint, active, call, process>>
    PROVE  LInv'
<1>1. FlatOK
  BY Parts
<1>2. conn'[c] = p /\ \A d \in Conns \ {c} : conn'[d] = conn[d]
  BY <1>1 DEF FlatOK
<1>3. FlatOK'
  <2>1. conn' \in [Conns -> Stages]
    BY <1>1 DEF FlatOK, Stages
  <2>2. SlotOwner'
    BY <1>1, <1>2 DEF FlatOK, SlotOwner
  <2> QED BY <1>1, <2>1, <2>2 DEF FlatOK, MintsLeft, Stages, durable, process
<1>4. \A d \in Conns : CallInv(conn'[d], call[d])
  BY <1>2, SuitsElsewhere DEF LInv, Calls
<1> QED BY <1>3, <1>4, ConnMoves, Parts

LEMMA ClientLInv == ASSUME LInv, NEW c \in Conns, Client(c) PROVE LInv'
<1>1. FlatOK
  BY Parts
<1>2. CASE Connect(c)
  <2>1. PICK k \in 1..minted : key' = [key EXCEPT ![c] = k]
    BY <1>2 DEF Connect
  <2>2. k \in 0..MaxTokens
    BY <1>1, <2>1, CallConstants DEF FlatOK, Token
  <2>3. /\ key' \in [Conns -> 0..MaxTokens] /\ wsOpen' \in [Conns -> BOOLEAN]
        /\ token' \in 0..MaxTokens
    BY <1>1, <1>2, <2>1, <2>2 DEF Connect, FlatOK, api
  <2> QED BY <1>2, <2>3, StageMoves DEF Connect, Holding, Stages, api
<1>3. CASE OfferArrives(c)
  <2>1. /\ key' \in [Conns -> 0..MaxTokens] /\ wsOpen' \in [Conns -> BOOLEAN]
        /\ token' \in 0..MaxTokens
    BY <1>1, <1>3 DEF OfferArrives, FlatOK, api
  <2> QED BY <1>3, <2>1, StageMoves DEF OfferArrives, Holding, Stages, api
<1>4. CASE Disconnects(c)
  <2>1. CallsOK'
    BY <1>4, ConnMoves DEF Disconnects, LInv, Calls
  <2>2. FlatOK'
    BY <1>1, <1>4 DEF Disconnects, FlatOK, MintsLeft, SlotOwner, durable, api, process
  <2> QED BY <2>1, <2>2, Parts
<1>5. CASE TrackEnds(c)
  <2> DEFINE r == call[c]
             s == [r EXCEPT !.ingress = "closed"]
  <2>1. r \in CallType /\ CallInv(conn[c], r)
    BY CallTyped DEF LInv, Calls
  <2>2. Sets(c, s) /\ s = [r EXCEPT !.ingress = "closed"]
    BY <1>5 DEF TrackEnds
  <2> HIDE DEF s
  <2>3. /\ s \in CallType /\ s.run = r.run /\ s.fin = r.fin /\ s.egress = r.egress
        /\ s.closer = r.closer
    <3> HIDE DEF r
    <3> QED BY <2>1, <2>2 DEF CallType
  <2>4. CallInv(conn[c], s)
    BY <2>1, <2>3 DEF CallInv, CloserInv, HandlerInv, QuietInv
  <2> QED BY <1>5, <2>2, <2>3, <2>4, CallMoves DEF TrackEnds
<1> QED BY <1>2, <1>3, <1>4, <1>5 DEF Client

LEMMA HandlerLInv == ASSUME LInv, NEW c \in Conns, Handler(c) PROVE LInv'
<1>1. FlatOK
  BY Parts
<1>2. call[c] \in CallType /\ CallInv(conn[c], call[c])
  BY CallTyped DEF LInv, Calls
<1>3. CASE VerifyAndBurn(c)
  <2>1. PICK p \in {"gate", "over"} : conn' = [conn EXCEPT ![c] = p]
    BY <1>3 DEF VerifyAndBurn, HandlerReturns
  <2>2. /\ key' \in [Conns -> 0..MaxTokens] /\ wsOpen' \in [Conns -> BOOLEAN]
        /\ token' \in 0..MaxTokens
    <3>1. /\ key' = [key EXCEPT ![c] = 0] /\ token' = 0
          /\ wsOpen' = wsOpen \/ wsOpen' = [wsOpen EXCEPT ![c] = FALSE]
      BY <1>3 DEF VerifyAndBurn, HandlerReturns
    <3>2. 0 \in 0..MaxTokens
      BY CallConstants
    <3> QED BY <1>1, <3>1, <3>2 DEF FlatOK
  <2>3. conn[c] = "auth" /\ UNCHANGED <<durable, minted, remint, active, call, process>>
    BY <1>3 DEF VerifyAndBurn
  <2>4. p \in Stages /\ p \notin Holding /\ conn[c] \notin Holding \cup {"closing", "over"}
    BY <2>1, <2>3 DEF Stages, Holding
  <2> QED BY <2>1, <2>2, <2>3, <2>4, StageMoves
<1>4. CASE Rejected(c)
  <2>1. /\ key' \in [Conns -> 0..MaxTokens] /\ wsOpen' \in [Conns -> BOOLEAN]
        /\ token' \in 0..MaxTokens
    BY <1>1, <1>4 DEF Rejected, HandlerReturns, FlatOK, api
  <2> QED BY <1>4, <2>1, StageMoves DEF Rejected, HandlerReturns, Holding, Stages, api
<1>5. CASE MessageLoopEnds(c)
  <2>1. /\ key' \in [Conns -> 0..MaxTokens] /\ wsOpen' \in [Conns -> BOOLEAN]
        /\ token' \in 0..MaxTokens
    BY <1>1, <1>5 DEF MessageLoopEnds, FlatOK, api
  <2> QED BY <1>5, <2>1, StageMoves DEF MessageLoopEnds, Holding, Stages, api
<1>6. CASE Admitted(c)
  <2>1. /\ conn[c] = "gate" /\ active = None /\ active' = c
        /\ conn' = [conn EXCEPT ![c] = "open"] /\ Sets(c, NewCall)
        /\ UNCHANGED <<durable, api, key, wsOpen, process>>
    BY <1>6 DEF Admitted, SlotTaken
  <2>2. conn'[c] = "open" /\ \A d \in Conns \ {c} : conn'[d] = conn[d]
    BY <1>1, <2>1 DEF FlatOK
  <2>3. CallInv(conn'[c], NewCall)
    BY <2>2, FreshCall DEF Holding
  <2>4. row = "created" /\ c \in turnList => c \in lost
    BY <1>2, <2>1 DEF CallInv, QuietInv, Holding, Finished, Busy, LInv, Owed
  <2>5. CallsOK'
    BY <2>1, <2>2, <2>3, <2>4, NoCallType, OneCallMoves DEF durable
  <2>6. SlotOwner'
    BY <1>1, <2>1, <2>2, CallConstants DEF FlatOK, SlotOwner, Holding
  <2>7. conn' \in [Conns -> Stages]
    BY <1>1, <2>1 DEF FlatOK, Stages
  <2>8. FlatOK'
    BY <1>1, <2>1, <2>6, <2>7 DEF FlatOK, MintsLeft, Stages, durable, api, process
  <2> QED BY <2>5, <2>8, Parts
<1>7. CASE OfferAnswered(c)
  <2>1. /\ conn[c] = "offer" /\ conn' = [conn EXCEPT ![c] = "open"]
        /\ UNCHANGED <<durable, api, key, wsOpen, active, process>>
    BY <1>7 DEF OfferAnswered
  <2>2. conn'[c] = "open" /\ \A d \in Conns \ {c} : conn'[d] = conn[d]
    BY <1>1, <2>1 DEF FlatOK
  <2>3. CASE UNCHANGED call
    <3>1. /\ key' \in [Conns -> 0..MaxTokens] /\ wsOpen' \in [Conns -> BOOLEAN]
          /\ token' \in 0..MaxTokens
      BY <1>1, <2>1 DEF FlatOK, api
    <3> QED BY <2>1, <2>3, <3>1, StageMoves DEF Holding, Stages, api
  <2>4. CASE call[c].egress = "none" /\ Sets(c, [call[c] EXCEPT !.egress = "created"])
    <3> DEFINE r == call[c]
               s == [r EXCEPT !.egress = "created"]
    <3>1. Sets(c, s) /\ s = [r EXCEPT !.egress = "created"]
      BY <2>4
    <3> HIDE DEF s
    <3>2. /\ s \in CallType /\ s.run = r.run /\ s.fin = r.fin /\ s.egress = "created"
          /\ s.closer = r.closer
      <4>1. r \in CallType
        BY <1>2
      <4> HIDE DEF r
      <4> QED BY <3>1, <4>1 DEF CallType
    <3>3. CallInv(conn'[c], s)
      BY <1>2, <2>1, <2>2, <3>2 DEF CallInv, CloserInv, HandlerInv, QuietInv, Holding
    <3>4. row = "created" /\ c \in turnList => c \in lost \/ s.fin \in Busy
      BY <3>2 DEF LInv, Owed
    <3>5. CallsOK'
      BY <2>1, <2>2, <3>1, <3>2, <3>3, <3>4, OneCallMoves DEF durable
    <3>6. SlotOwner'
      BY <1>1, <2>1, <2>2 DEF FlatOK, SlotOwner, Holding
    <3>7. conn' \in [Conns -> Stages]
      BY <1>1, <2>1 DEF FlatOK, Stages
    <3>8. FlatOK'
      BY <1>1, <2>1, <3>6, <3>7 DEF FlatOK, MintsLeft, Stages, durable, api, process
    <3> QED BY <3>5, <3>8, Parts
  <2> QED BY <1>7, <2>3, <2>4 DEF OfferAnswered
<1>8. CASE SlotFreed(c)
  <2>1. /\ conn[c] = "closing" /\ call[c].closer["handler"].at = "done" /\ active' = None
        /\ conn' = [conn EXCEPT ![c] = "over"] /\ wsOpen' = [wsOpen EXCEPT ![c] = FALSE]
        /\ UNCHANGED <<durable, api, key, call, process>>
    BY <1>8 DEF SlotFreed, TornDown, HandlerReturns
  <2>2. conn'[c] = "over" /\ \A d \in Conns \ {c} : conn'[d] = conn[d]
    BY <1>1, <2>1 DEF FlatOK
  <2>3. CallInv("over", call[c])
    BY <1>2, <2>1 DEF CallInv, CloserInv, HandlerInv, QuietInv, Closers, Over
  <2>4. CallsOK'
    BY <2>1, <2>2, <2>3, ConnMoves DEF LInv, Calls
  <2>5. active = c
    BY <1>1, <2>1 DEF FlatOK, SlotOwner, Holding
  <2>6. SlotOwner'
    BY <1>1, <2>1, <2>2, <2>5, CallConstants DEF FlatOK, SlotOwner, Holding
  <2>7. conn' \in [Conns -> Stages]
    BY <1>1, <2>1 DEF FlatOK, Stages
  <2>8. FlatOK'
    BY <1>1, <2>1, <2>6, <2>7 DEF FlatOK, MintsLeft, Stages, durable, api, process
  <2> QED BY <2>4, <2>8, Parts
<1> QED BY <1>3, <1>4, <1>5, <1>6, <1>7, <1>8 DEF Handler

-----------------------------------------------------------------------------
(***************************************************************************)
(* The operator, the shutdown and the process.                             *)
(***************************************************************************)

\* Whatever the process was doing, what it leaves owes nothing new.
LEMMA ProcessGoneLInv == ASSUME LInv, ProcessGone PROVE LInv'
<1>1. FlatOK
  BY Parts
<1>2. \A c \in Conns : call'[c] = NoCall /\ conn'[c] \in {"new", "over"}
  BY DEF ProcessGone
<1>3. Calls'
  BY <1>2, FreshCall DEF Calls
<1>4. Owed'
  <2> SUFFICES ASSUME row = "created", NEW c \in turnList, c \notin lost
               PROVE  c \in LiveCalls
    BY DEF ProcessGone, Owed
  <2>1. c \in Conns /\ call[c].fin \in Busy
    BY <1>1 DEF LInv, Owed, FlatOK
  <2> QED BY <2>1 DEF LiveCalls, Busy, Finished
<1>5. CallsOK'
  BY <1>3, <1>4, NoCallType DEF CallsOK, ProcessGone
<1>6. SlotOwner'
  BY <1>2, CallConstants DEF ProcessGone, SlotOwner, Holding
<1>7. FlatOK'
  <2>1. conn' \in [Conns -> Stages] /\ wsOpen' \in [Conns -> BOOLEAN]
    BY <1>1 DEF ProcessGone, FlatOK, Stages
  <2>2. key' \in [Conns -> 0..MaxTokens] /\ inbox' \in 0..MaxDeletes
    BY CallConstants DEF ProcessGone
  <2>3. lost' \subseteq Conns
    BY <1>1 DEF ProcessGone, FlatOK, LiveCalls
  <2> QED BY <1>1, <1>6, <2>1, <2>2, <2>3 DEF ProcessGone, FlatOK, MintsLeft, Stages, api
<1> QED BY <1>5, <1>7, Parts

LEMMA MainLInv == ASSUME LInv, Main PROVE LInv'
<1>1. FlatOK
  BY Parts
<1>2. CASE ControlMessage \/ CloseAll \/ ServerCloses
  <2>1. UNCHANGED <<durable, call, conn>>
    BY <1>2 DEF ControlMessage, CloseAll, ServerCloses, sockets
  <2>2. CallsOK'
    BY <2>1, ConnMoves DEF LInv, Calls
  <2>3. FlatOK'
    <3> USE <1>1, CallConstants DEF FlatOK, MintsLeft, SlotOwner, durable, api, sockets, process
    <3>1. CASE ControlMessage
      BY <3>1 DEF ControlMessage
    <3>2. CASE CloseAll
      BY <3>2 DEF CloseAll
    <3>3. CASE ServerCloses
      BY <3>3 DEF ServerCloses
    <3> QED BY <1>2, <3>1, <3>2, <3>3
  <2> QED BY <2>2, <2>3, Parts
<1>3. CASE ControlDone
  <2>1. ctl \in Conns
    BY <1>1, <1>3 DEF ControlDone, FlatOK
  <2> DEFINE r == call[ctl]
             x == Idle
             s == [r EXCEPT !.closer["control"] = x]
  <2>2. r \in CallType /\ CallInv(conn[ctl], r) /\ r.closer \in [Closers -> CloserType]
    BY <2>1, CallTyped DEF LInv, Calls
  <2>3. Sets(ctl, s) /\ s = [r EXCEPT !.closer["control"] = x]
    BY <1>3 DEF ControlDone
  <2>4. x \in CloserType /\ x.at = "idle" /\ x.egress = FALSE /\ "control" \in Closers
    BY DEF Idle, Closer, CloserType, Closers
  <2> HIDE DEF s, x
  <2>5. /\ s \in CallType /\ s.run = r.run /\ s.fin = r.fin /\ s.egress = r.egress
        /\ s.closer = [r.closer EXCEPT !["control"] = x]
    <3> HIDE DEF r
    <3> QED BY <2>2, <2>3, <2>4 DEF CallType, CloserType
  <2>6. CallInv(conn[ctl], s)
    BY <2>2, <2>4, <2>5, CloserSuits
  <2>7. UNCHANGED <<durable, api, conn, key, active, inbox>>
    BY <1>3 DEF ControlDone
  <2>8. row = "created" /\ ctl \in turnList => ctl \in lost \/ s.fin \in Busy
    BY <2>5 DEF LInv, Owed
  <2>9. CallsOK'
    BY <2>1, <2>3, <2>5, <2>6, <2>7, <2>8, OneCallMoves DEF durable
  <2>10. FlatOK'
    BY <1>1, <1>3, <2>7 DEF ControlDone, FlatOK, MintsLeft, SlotOwner, durable, api
  <2> QED BY <2>9, <2>10, Parts
<1>4. CASE Restarted
  BY <1>4, ProcessGoneLInv DEF Restarted
<1> QED BY <1>2, <1>3, <1>4 DEF Main

LEMMA StopLInv == ASSUME LInv, StopRequested PROVE LInv'
<1>1. FlatOK
  BY Parts
<1>2. FlatOK'
  BY <1>1, CallConstants
     DEF StopRequested, FlatOK, MintsLeft, SlotOwner, durable, api, sockets
<1>3. CASE ctl = None
  BY <1>2, <1>3, ConnMoves, Parts DEF StopRequested, LInv, Calls, sockets
<1>4. CASE ctl # None
  <2>1. ctl \in Conns
    BY <1>1, <1>4 DEF FlatOK
  <2> DEFINE r == call[ctl]
             x == Idle
             at == r.closer["control"].at
  <2>2. r \in CallType /\ CallInv(conn[ctl], r) /\ r.closer \in [Closers -> CloserType]
    BY <2>1, CallTyped DEF LInv, Calls
  <2>3. PICK i \in {r.ingress, "closed"} :
          Sets(ctl, [r EXCEPT !.closer["control"] = x,
                              !.ingress = IF at = "peer" THEN i ELSE @,
                              !.run = IF at = "gather" /\ @ = "shield" THEN "over" ELSE @])
    BY <1>4 DEF StopRequested
  <2> DEFINE j == IF at = "peer" THEN i ELSE r.ingress
             u == IF at = "gather" /\ r.run = "shield" THEN "over" ELSE r.run
             s == [r EXCEPT !.closer["control"] = x, !.ingress = j, !.run = u]
  <2>4. Sets(ctl, s) /\ s = [r EXCEPT !.closer["control"] = x, !.ingress = j, !.run = u]
    BY <2>3
  <2>5. x \in CloserType /\ x.at = "idle" /\ x.egress = FALSE /\ "control" \in Closers
    BY DEF Idle, Closer, CloserType, Closers
  <2>6. /\ j \in {"open", "closed"}
        /\ u \in {"none", "building", "loops", "aborting", "shield", "over"}
        /\ r.run \in Over => u = r.run
    BY <2>2 DEF CallType, Over
  <2> HIDE DEF s, x, j, u
  <2>7. /\ s \in CallType /\ s.run = u /\ s.fin = r.fin /\ s.egress = r.egress
        /\ s.closer = [r.closer EXCEPT !["control"] = x]
    <3> HIDE DEF r
    <3> QED BY <2>2, <2>4, <2>5, <2>6 DEF CallType, CloserType
  <2>8. CallInv(conn[ctl], s)
    BY <2>2, <2>5, <2>6, <2>7, CloserSuits
  <2>9. UNCHANGED <<durable, conn>>
    BY DEF StopRequested, sockets
  <2>10. row = "created" /\ ctl \in turnList => ctl \in lost \/ s.fin \in Busy
    BY <2>7 DEF LInv, Owed
  <2>11. CallsOK'
    BY <2>1, <2>4, <2>7, <2>8, <2>9, <2>10, OneCallMoves DEF durable
  <2> QED BY <1>2, <2>11, Parts
<1> QED BY <1>3, <1>4

-----------------------------------------------------------------------------
\* The invariant is inductive unless the pipeline may be given up on.
LEMMA NextLInv ==
    ASSUME "giveup" \notin Faults PROVE LInv /\ [Next]_vars => LInv'
<1> SUFFICES ASSUME LInv, [Next]_vars PROVE LInv'
  OBVIOUS
<1>1. CASE Rest
  BY <1>1, RestLInv
<1>2. CASE Main
  BY <1>2, MainLInv
<1>3. CASE StopRequested
  BY <1>3, StopLInv
<1>4. CASE Killed
  BY <1>4, ProcessGoneLInv DEF Killed
<1>5. ASSUME NEW c \in Conns, Client(c) PROVE LInv'
  BY <1>5, ClientLInv
<1>6. ASSUME NEW c \in Conns, Handler(c) PROVE LInv'
  BY <1>6, HandlerLInv
<1>7. ASSUME NEW c \in Conns, Worker(c) PROVE LInv'
  BY <1>7, WorkerLInv
<1>8. ASSUME NEW c \in Conns, Pipeline(c) PROVE LInv'
  BY <1>8, PipelineLInv
<1>9. ASSUME NEW c \in Conns, NEW k \in Closers, Close(c, k) PROVE LInv'
  BY <1>9, CloseLInv
<1>10. CASE UNCHANGED vars
  <2>1. UNCHANGED <<durable, api, sockets, call, process>>
    BY <1>10 DEF vars
  <2>2. FlatOK'
    BY <2>1, FlatKept, Parts
  <2>3. CallsOK'
    BY <2>1, ConnMoves DEF sockets, LInv, Calls
  <2> QED BY <2>2, <2>3, Parts
<1> QED BY <1>1, <1>2, <1>3, <1>4, <1>5, <1>6, <1>7, <1>8, <1>9, <1>10 DEF Next

LEMMA AlwaysLInv == ASSUME "giveup" \notin Faults PROVE Spec => []LInv
<1>1. LInv /\ [Next]_vars => LInv'
  BY NextLInv
<1> QED BY <1>1, InitLInv, PTL DEF Spec

\* A call with work left belongs to the connection that holds the slot.
LEMMA BusyHolds ==
    ASSUME LInv, NEW c \in Conns, call[c].run \notin Over \/ call[c].fin \notin Finished
    PROVE  active = c
BY DEF LInv, Calls, CallInv, QuietInv, SlotOwner

-----------------------------------------------------------------------------
\* Every variable keeps the values the code gives it: the attempts of
\* _end_with_retry stay below the limit, tokens within those minted.
THEOREM CallTypeCorrect == ASSUME "giveup" \notin Faults PROVE Spec => []TypeOK
<1>1. LInv => TypeOK
  BY DEF LInv
<1> QED BY <1>1, AlwaysLInv, PTL

\* handle_connection gives its slot back only after the whole teardown: no
\* CallSession of the session is live beside the one in _active, whichever
\* way calls end, unless the pipeline outlives its budget.
THEOREM SlotHeld == ASSUME "giveup" \notin Faults PROVE Spec => []SlotHeldUntilDone
<1>1. LInv => SlotHeldUntilDone
  BY BusyHolds DEF SlotHeldUntilDone, LiveCalls
<1> QED BY <1>1, AlwaysLInv, PTL

\* No pacer outlives its connection, whatever offers and closes raced.
THEOREM EgressEnds == ASSUME "giveup" \notin Faults PROVE Spec => []EgressEndsWithCall
<1>1. LInv => EgressEndsWithCall
  BY DEF LInv, Calls, CallInv, QuietInv, EgressEndsWithCall, Holding
<1> QED BY <1>1, AlwaysLInv, PTL

\* Both: a slot that is free has neither a call nor a pacer left behind it.
THEOREM TornDownWhole == ASSUME "giveup" \notin Faults PROVE Spec => []TeardownIsWhole
BY SlotHeld, EgressEnds, PTL DEF TeardownIsWhole

\* The turn numbers of two calls meet in one session's list only after a
\* pipeline was cut short, however many calls the session has.
THEOREM NeverCollide == ASSUME "giveup" \notin Faults PROVE Spec => []TurnsNeverCollide
<1>1. LInv => TurnsNeverCollide
  <2> SUFFICES ASSUME LInv, row = "created", turnList \cap lost = {}
               PROVE  ~(Cardinality(turnList) > 1)
    BY DEF TurnsNeverCollide
  <2>1. turnList \subseteq {active}
    <3> SUFFICES ASSUME NEW c \in turnList PROVE active = c
      OBVIOUS
    <3>1. c \in Conns /\ call[c].fin \in Busy
      BY DEF LInv, TypeOK, Owed
    <3> QED BY <3>1, BusyHolds DEF Busy, Finished
  <2>2. /\ IsFiniteSet({active}) /\ Cardinality({active}) = 1
    BY FS_Singleton
  <2>3. /\ IsFiniteSet(turnList) /\ Cardinality(turnList) <= 1
    BY <2>1, <2>2, FS_Subset
  <2>4. Cardinality(turnList) \in Nat
    BY <2>3, FS_CardinalityType
  <2> QED BY <2>3, <2>4
<1> QED BY <1>1, AlwaysLInv, PTL

\* SessionManager.end is idempotent: an ended row stays ended and its turns
\* are drained once, under every fault and any number of later calls.
THEOREM DrainOnce == Spec => DrainedOnce
<1> DEFINE Once == row = "ended" => row' = "ended" /\ drained' = drained
<1>1. [Next]_vars => [Once]_vars
  <2> SUFFICES ASSUME Next, row = "ended" PROVE row' = "ended" /\ drained' = drained
    OBVIOUS
  <2>1. CASE Rest
    BY <2>1 DEF Rest, RemintChecks, RemintStores, TokenExpires, Delete, durable
  <2>2. CASE Main \/ StopRequested \/ Killed
    BY <2>2 DEF Main, ControlMessage, ControlDone, CloseAll, ServerCloses, Restarted,
                StopRequested, Killed, ProcessGone, durable
  <2>3. ASSUME NEW c \in Conns, Client(c) \/ Handler(c) \/ Worker(c)
        PROVE  row' = "ended" /\ drained' = drained
    BY <2>3 DEF Client, Connect, OfferArrives, Disconnects, TrackEnds, Handler,
                VerifyAndBurn, Rejected, Admitted, OfferAnswered, MessageLoopEnds,
                SlotFreed, Worker, BrainBuilt, GroupOver, RunReturns, EgressRuns, durable
  <2>4. ASSUME NEW c \in Conns, Pipeline(c)
        PROVE  row' = "ended" /\ drained' = drained
    BY <2>4 DEF Pipeline, FlushTurns, UpsertCosts, FinalizeFails, Ends, EndRaises,
                DuplicateEnd
  <2>5. ASSUME NEW c \in Conns, NEW k \in Closers, Close(c, k)
        PROVE  row' = "ended" /\ drained' = drained
    BY <2>5 DEF Close, BeginClose, PeerClosed, CloseTimesOut, TasksDone,
                FinalizeAwaited, durable
  <2> QED BY <2>1, <2>2, <2>3, <2>4, <2>5 DEF Next
<1>2. DrainedOnce <=> [][Once]_vars
  BY DEF DrainedOnce
<1> QED BY <1>1, <1>2, PTL DEF Spec
==============================================================================
