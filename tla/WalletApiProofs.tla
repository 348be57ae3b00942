-------------------------- MODULE WalletApiProofs ---------------------------
(***************************************************************************)
(* What stands between a merchant and its wallet, for every value of the   *)
(* constants: the confirmation gate (ToolGate), the payments (Payments),   *)
(* and the limiter in front of the REST routes (RateWindow).               *)
(*                                                                         *)
(* The gate rests on GateInv.  While a tool call is past the read of the   *)
(* pending action, what it read is what Redis holds; once the caller       *)
(* affirmed, the pending action is the one the turn opened with or was     *)
(* proposed in this very turn, which the anchor refuses.  On it rests that *)
(* the tool loop implements module Confirmation.                           *)
(*                                                                         *)
(* A payment past its limit check holds the row that it read: PaymentsInv  *)
(* says what it knows.  Its copy of the wallet may be old, and is never    *)
(* less than what the payments since have left.  RateInv says that whoever *)
(* was let in within the last window is still in the set that is counted.  *)
(***************************************************************************)
EXTENDS ToolGate, Payments, RateWindow, SequenceTheorems, FiniteSetTheorems, TLAPS

Steps == {"listening", "stream", "calls", "hold", "cancel", "audit", "lock", "commit",
          "store", "clear"}

Types ==
  /\ pend \in Proposals \cup {None} /\ got \in Proposals \cup {None}
  /\ idem \in [Turns -> {"none", "ok", "error"}]
  /\ turnNo \in Nat /\ turnsLeft \in Nat /\ turnNo + turnsLeft <= MaxTurns
  /\ affirmed \in BOOLEAN
  /\ batch \in Seq(Asks)
  /\ pc \in Steps /\ outcome \in {"none", "ok", "error"}
  /\ nextId \in Nat

\* The calls of b write no more proposals than the bound leaves, or none at all.
Room(b) ==
  \/ idem[turnNo] # "none"
  \/ nextId + Len(b) - 1 <= MaxIds
  \/ pend # None /\ \A i \in 1..Len(b) : b[i] = pend.args

\* The tool call under way and what it knows.
Task ==
  /\ pc # "listening" => turnNo \in Turns
  /\ pc \notin {"listening", "stream", "calls"} => batch # <<>>
  /\ pc \in {"hold", "lock", "commit", "store", "clear"} => got = pend
  /\ pc \in {"lock", "commit"} => affirmed /\ atOpen = pend.id
  /\ pc \in {"lock", "commit", "store", "clear"} => pend # None
  /\ pc = "hold" => idem[turnNo] = "none"
  /\ pc = "cancel" => got.id < pend.id /\ got.id # 0
  /\ pc = "store" => outcome # "none"
  /\ pc = "clear" => idem[turnNo] # "none"
  /\ pc \in {"calls", "hold", "lock", "commit", "store"} => Room(batch)
  /\ pc \in {"cancel", "audit"} => Room(Tail(batch))

\* The anchor: in an affirmed turn the pending action is the one the yes was about, or
\* it is a proposal of this very turn.
Anchored == affirmed => pend.id \in {0, atOpen} \/ pend.turn = turnNo

GateInv == Types /\ Task /\ Anchored /\ pend.id < nextId

-----------------------------------------------------------------------------
LEMMA ProposalIds ==
  ASSUME NEW p \in Proposals \cup {None}
  PROVE  /\ p # None <=> p.id # 0
         /\ p # None => p \in Proposals /\ p.id \in Ids /\ p.args \in Asks /\ p.turn \in Turns
         /\ p.id \in Nat
BY ConstantsAssumption DEF Proposals, None, Ids

LEMMA TailFacts ==
  ASSUME NEW b \in Seq(Asks), b # <<>>
  PROVE  /\ Tail(b) \in Seq(Asks) /\ Len(b) \in Nat \ {0} /\ Len(Tail(b)) = Len(b) - 1
         /\ Head(b) \in Asks /\ Head(b) = b[1]
         /\ \A i \in 1..Len(Tail(b)) : Tail(b)[i] = b[i + 1] /\ i + 1 \in 1..Len(b)
OBVIOUS

\* Room for the batch is room for what is left of it.
LEMMA RoomForTail ==
  ASSUME Types, NEW b \in Seq(Asks), b # <<>>, Room(b)
  PROVE  Room(Tail(b))
BY TailFacts, ConstantsAssumption DEF Room, Types

LEMMA InitGate == Init => GateInv
<1>1. MaxTurns \in Nat
  BY ConstantsAssumption
<1>2. ASSUME Init PROVE Types
  <2>1. pend = None /\ got = None /\ batch = <<>> /\ nextId = 1 /\ pc = "listening"
        /\ outcome = "none" /\ affirmed = FALSE /\ turnNo = 0 /\ turnsLeft = MaxTurns
    BY <1>2 DEF Init
  <2>2. idem = [t \in Turns |-> "none"]
    BY <1>2 DEF Init
  <2>3. idem \in [Turns -> {"none", "ok", "error"}]
    BY <2>2
  <2>4. batch \in Seq(Asks)
    BY <2>1
  <2>5. pend \in Proposals \cup {None} /\ got \in Proposals \cup {None}
    BY <2>1
  <2>6. turnNo \in Nat /\ turnsLeft \in Nat /\ turnNo + turnsLeft <= MaxTurns /\ nextId \in Nat
    BY <1>1, <2>1
  <2>7. pc \in Steps /\ outcome \in {"none", "ok", "error"} /\ affirmed \in BOOLEAN
    BY <2>1 DEF Steps
  <2> QED BY <2>3, <2>4, <2>5, <2>6, <2>7 DEF Types
<1>3. Init => Task /\ Anchored /\ pend.id < nextId
  BY DEF Init, Task, Anchored, None
<1> QED BY <1>2, <1>3 DEF GateInv

\* An action of the environment, or of the same row seen from outside, that leaves the
\* call and its Redis fields alone.
gateVars == <<pend, got, idem, turnNo, turnsLeft, affirmed, batch, pc, outcome, nextId, atOpen>>

LEMMA GateStutter == GateInv /\ UNCHANGED gateVars => GateInv'
BY DEF GateInv, Types, Task, Anchored, Room, gateVars

\* A tool call ends: the rest of the batch stays within the bound.
LEMMA GateCallDone ==
  ASSUME GateInv, CallDone, TurnKept, batch # <<>>, pc \notin {"listening", "stream"},
         pend' \in Proposals \cup {None}, idem' \in [Turns -> {"none", "ok", "error"}],
         nextId' \in Nat, pend'.id < nextId', Anchored', Room(batch)'
  PROVE  GateInv'
<1>1. Types'
  BY TailFacts DEF GateInv, Types, CallDone, TurnKept, Steps
<1>2. Task'
  BY <1>1 DEF GateInv, Types, Task, CallDone, TurnKept, Room
<1> QED BY <1>1, <1>2 DEF GateInv

\* A new proposal has a number within the bound: it does not match, so the batch was
\* admitted by its length.
LEMMA WriteFits ==
  ASSUME GateInv, pc = "hold", ~Matches, WriteProposal
  PROVE  /\ pend' \in Proposals /\ pend'.id = nextId /\ nextId' = nextId + 1
         /\ nextId + Len(batch) - 1 <= MaxIds
<1>1. /\ batch # <<>> /\ batch \in Seq(Asks) /\ got = pend /\ idem[turnNo] = "none"
      /\ Room(batch) /\ turnNo \in Turns /\ nextId \in Nat /\ pend.id < nextId
      /\ pend \in Proposals \cup {None}
  BY DEF GateInv, Types, Task
<1>2. nextId + Len(batch) - 1 <= MaxIds
  <2>1. pend # None => batch[1] # pend.args /\ 1 \in 1..Len(batch)
    BY <1>1, TailFacts DEF Matches, Ask
  <2> QED BY <1>1, <2>1 DEF Room
<1>3. nextId \in Ids
  <2>1. pend.id \in Nat
    BY <1>1, ProposalIds
  <2>2. MaxIds \in Nat
    BY ConstantsAssumption
  <2> QED BY <1>1, <1>2, <2>1, <2>2, TailFacts DEF Ids
<1>4. Ask \in Asks
  BY <1>1, TailFacts DEF Ask
<1> QED BY <1>1, <1>2, <1>3, <1>4 DEF WriteProposal, Proposals

LEMMA GateNext == GateInv /\ [Next]_vars => GateInv'
<1> SUFFICES ASSUME GateInv, [Next]_vars PROVE GateInv'
  OBVIOUS
<1> USE DEF TurnKept, redisVars, rowVars, turnVars, taskVars, restVars, historyVars
<1>0. MaxTurns \in Nat /\ MaxIds \in Nat
  BY ConstantsAssumption
<1>1. ASSUME NEW word \in Words, OnSttFinal(word) PROVE GateInv'
  <2>1. turnNo' \in Turns
    BY <1>0, <1>1 DEF OnSttFinal, GateInv, Types, Turns
  <2>2. Types'
    BY <1>1 DEF OnSttFinal, Affirms, GateInv, Types, Steps
  <2>3. Task'
    BY <1>1, <2>1 DEF OnSttFinal, GateInv, Task, Room
  <2>4. Anchored' /\ pend'.id < nextId'
    BY <1>1 DEF OnSttFinal, GateInv, Anchored
  <2> QED BY <2>2, <2>3, <2>4 DEF GateInv
<1>2. CASE TurnFails \/ Reply \/ DropBatch \/ Killed
  <2>1. /\ pc' = "listening" /\ affirmed' = FALSE /\ UNCHANGED <<pend, idem, nextId>>
        /\ turnNo' \in Nat /\ turnsLeft' \in Nat /\ turnNo' + turnsLeft' <= MaxTurns
        /\ batch' \in Seq(Asks) /\ got' \in Proposals \cup {None}
        /\ outcome' \in {"none", "ok", "error"}
    <3>1. CASE TurnFails
      BY <3>1 DEF TurnFails, TurnOver, GateInv, Types
    <3>2. CASE Reply \/ DropBatch
      BY <3>2 DEF Reply, DropBatch, TurnOver, GateInv, Types
    <3>3. CASE Killed
      <4>1. /\ turnNo' = 0 /\ turnsLeft' = turnsLeft
            /\ batch' = <<>> /\ got' = None /\ outcome' = "none"
        BY <3>3 DEF Killed
      <4>2. turnsLeft <= MaxTurns
        BY <1>0 DEF GateInv, Types
      <4> QED BY <3>3, <4>1, <4>2 DEF Killed, TurnOver, GateInv, Types
    <3> QED BY <1>2, <3>1, <3>2, <3>3
  <2>2. Types'
    BY <2>1 DEF GateInv, Types, Steps
  <2>3. Task' /\ Anchored' /\ pend'.id < nextId'
    BY <2>1 DEF GateInv, Task, Anchored
  <2> QED BY <2>2, <2>3 DEF GateInv
<1>3. ASSUME NEW calls \in Batches, Execute(calls) PROVE GateInv'
  <2>1. calls \in Seq(Asks)
    BY <1>0 DEF Batches
  <2>2. Types'
    BY <1>3, <2>1 DEF Execute, GateInv, Types, Steps
  <2>3. Room(batch)'
    BY <1>3 DEF Execute, WithinIds, Room
  <2>4. Task' /\ Anchored' /\ pend'.id < nextId'
    BY <1>3, <2>3 DEF Execute, GateInv, Task, Anchored
  <2> QED BY <2>2, <2>4 DEF GateInv
<1>4. CASE BatchDone
  BY <1>4 DEF BatchDone, GateInv, Types, Task, Anchored, Steps
<1>5. CASE Replay
  <2>1. Room(batch)'
    BY <1>5 DEF Replay, CallDone, Room
  <2> QED BY <1>5, <2>1, GateCallDone DEF Replay, GateInv, Types, Anchored
<1>6. CASE ConfirmTier
  <2>1. Types'
    BY <1>6 DEF ConfirmTier, GateInv, Types, Steps
  <2>2. Room(batch)'
    BY <1>6 DEF ConfirmTier, GateInv, Task, Room
  <2>3. affirmed /\ Eligible(pend) => pend # None /\ atOpen = pend.id
    BY ProposalIds DEF Eligible, GateInv, Types, Anchored
  <2>4. Task' /\ Anchored' /\ pend'.id < nextId'
    BY <1>6, <2>2, <2>3 DEF ConfirmTier, GateInv, Task, Anchored
  <2> QED BY <2>1, <2>4 DEF GateInv
<1>7. CASE ReadFails
  <2>1. Room(Tail(batch)) /\ batch # <<>>
    BY <1>7, RoomForTail DEF ReadFails, GateInv, Types, Task
  <2>2. Room(batch)'
    BY <1>7, <2>1 DEF ReadFails, RedisFails, CallDone, Room
  <2> QED BY <1>7, <2>1, <2>2, GateCallDone DEF ReadFails, RedisFails, GateInv, Types, Anchored
<1>8. CASE HoldGate
  <2>1. CASE Matches
    <3>1. pend' = pend /\ nextId' = nextId /\ idem' = idem /\ batch' = batch /\ pc' = "audit"
      BY <1>8, <2>1 DEF HoldGate
    <3>2. Types'
      BY <1>8, <3>1 DEF HoldGate, GateInv, Types, Steps
    <3>3. Room(Tail(batch)) /\ batch # <<>>
      BY <1>8, RoomForTail DEF HoldGate, GateInv, Types, Task
    <3>4. Task' /\ Anchored' /\ pend'.id < nextId'
      BY <1>8, <3>1, <3>3 DEF HoldGate, GateInv, Task, Anchored, Room
    <3> QED BY <3>2, <3>4 DEF GateInv
  <2>2. CASE ~Matches
    <3>1. /\ WriteProposal /\ pc' = (IF got = None THEN "audit" ELSE "cancel")
          /\ UNCHANGED <<idem, batch, got, outcome, affirmed, turnNo, turnsLeft, atOpen>>
          /\ pc = "hold"
      BY <1>8, <2>2 DEF HoldGate
    <3>2. pend' \in Proposals /\ pend'.id = nextId /\ nextId' = nextId + 1
          /\ nextId + Len(batch) - 1 <= MaxIds
      BY <2>2, <3>1, WriteFits
    <3>3. Types'
      BY <3>1, <3>2 DEF GateInv, Types, Steps
    <3>4. batch # <<>> /\ got = pend /\ turnNo \in Turns
      BY <3>1 DEF GateInv, Task
    <3>5. Room(Tail(batch))'
      BY <3>1, <3>2, <3>4, TailFacts DEF Room, GateInv, Types
    <3>6. got # None => got.id < nextId /\ got.id # 0
      BY <3>4, ProposalIds DEF GateInv, Types
    <3>7. Task'
      BY <3>1, <3>2, <3>4, <3>5, <3>6 DEF GateInv, Task
    <3>8. Anchored' /\ pend'.id < nextId'
      BY <3>1, <3>2 DEF WriteProposal, Anchored, GateInv, Types
    <3> QED BY <3>3, <3>7, <3>8 DEF GateInv
  <2> QED BY <2>1, <2>2
<1>9. CASE HoldFails
  <2>1. pc = "hold" /\ ~Matches /\ CallDone /\ batch # <<>> /\ idem' = idem
    BY <1>9 DEF HoldFails, RedisFails, GateInv, Task
  <2>2. CASE UNCHANGED <<pend, nextId>>
    <3>1. Room(Tail(batch))
      BY <2>1, RoomForTail DEF GateInv, Types, Task
    <3>2. Room(batch)'
      BY <1>9, <2>1, <2>2, <3>1 DEF CallDone, Room, HoldFails, RedisFails
    <3> QED BY <1>9, <2>1, <2>2, <3>2, GateCallDone
        DEF HoldFails, RedisFails, GateInv, Types, Anchored
  <2>3. CASE WriteProposal
    <3>1. pend' \in Proposals /\ pend'.id = nextId /\ nextId' = nextId + 1
          /\ nextId + Len(batch) - 1 <= MaxIds
      BY <2>1, <2>3, WriteFits
    <3>2. Room(batch)'
      BY <2>1, <3>1, TailFacts DEF CallDone, Room, GateInv, Types
    <3>3. Anchored'
      BY <1>9, <2>3 DEF HoldFails, RedisFails, WriteProposal, Anchored
    <3> QED BY <1>9, <2>1, <3>1, <3>2, <3>3, GateCallDone
        DEF HoldFails, RedisFails, GateInv, Types
  <2> QED BY <1>9, <2>2, <2>3 DEF HoldFails, RedisFails
<1>10. CASE CancelSuperseded
  BY <1>10 DEF CancelSuperseded, GateInv, Types, Task, Anchored, Steps, Room
<1>11. CASE AuditHold
  <2>1. Room(batch)' /\ batch # <<>>
    BY <1>11 DEF AuditHold, CallDone, Room, GateInv, Task
  <2> QED BY <1>11, <2>1, GateCallDone DEF AuditHold, GateInv, Types, Anchored
<1>12. CASE LockRow
  BY <1>12 DEF LockRow, GateInv, Types, Task, Anchored, Steps, Room
<1>13. CASE CommitMutation \/ MutationFails
  <2>1. /\ pc' = "store" /\ outcome' \in {"ok", "error"} /\ pc \in {"lock", "commit"}
        /\ UNCHANGED <<pend, idem, batch, got, nextId, turnNo, turnsLeft, affirmed, atOpen>>
    BY <1>13 DEF CommitMutation, MutationFails
  <2> QED BY <2>1 DEF GateInv, Types, Task, Anchored, Steps, Room
<1>14. CASE StoreEnvelope
  <2>1. idem' \in [Turns -> {"none", "ok", "error"}] /\ idem'[turnNo] # "none"
    BY <1>14 DEF StoreEnvelope, GateInv, Types, Task
  <2> QED BY <1>14, <2>1 DEF StoreEnvelope, GateInv, Types, Task, Anchored, Steps
<1>15. CASE ClearPending
  <2>1. Room(batch)' /\ batch # <<>> /\ CallDone /\ pend' = None
    BY <1>15 DEF ClearPending, CallDone, Room, GateInv, Task
  <2>2. Anchored' /\ pend'.id < nextId'
    BY <1>15, <2>1, ProposalIds DEF ClearPending, Anchored, None, GateInv, Types
  <2> QED BY <1>15, <2>1, <2>2, GateCallDone DEF ClearPending, GateInv, Types
<1>16. CASE StoreFails
  <2>1. pc \in {"store", "clear"} /\ CallDone /\ batch # <<>> /\ nextId' = nextId
    BY <1>16 DEF StoreFails, RedisFails, GateInv, Task
  <2>2. CASE UNCHANGED <<pend, idem>>
    <3>1. Room(Tail(batch))
      BY <2>1, RoomForTail DEF GateInv, Types, Task, Room
    <3>2. Room(batch)'
      BY <1>16, <2>1, <2>2, <3>1 DEF CallDone, Room, StoreFails, RedisFails
    <3> QED BY <1>16, <2>1, <2>2, <3>2, GateCallDone
        DEF StoreFails, RedisFails, GateInv, Types, Anchored
  <2>3. CASE pc = "store" /\ pend' = pend /\ idem' = [idem EXCEPT ![turnNo] = outcome]
    <3>1. idem' \in [Turns -> {"none", "ok", "error"}] /\ idem'[turnNo] # "none"
      BY <2>3 DEF GateInv, Types, Task
    <3>2. Room(batch)'
      BY <1>16, <3>1 DEF Room, StoreFails, RedisFails
    <3> QED BY <1>16, <2>1, <2>3, <3>1, <3>2, GateCallDone
        DEF StoreFails, RedisFails, GateInv, Types, Anchored
  <2>4. CASE pc = "clear" /\ pend' = None /\ idem' = idem
    <3>1. Room(batch)'
      BY <1>16, <2>4 DEF Room, StoreFails, RedisFails, GateInv, Task
    <3>2. Anchored' /\ pend'.id < nextId'
      BY <1>16, <2>1, <2>4, ProposalIds DEF StoreFails, RedisFails, Anchored, None, GateInv, Types
    <3> QED BY <1>16, <2>1, <2>4, <3>1, <3>2, GateCallDone
        DEF StoreFails, RedisFails, GateInv, Types
  <2> QED BY <1>16, <2>2, <2>3, <2>4 DEF StoreFails, RedisFails
<1>17. ASSUME NEW ask \in RestAsks, RestLock(ask) PROVE GateInv'
  BY <1>17, GateStutter DEF RestLock, gateVars
<1>18. CASE RestCommit
  BY <1>18, GateStutter DEF RestCommit, gateVars
<1>19. ASSUME NEW ruling \in {"approved", "rejected"}, Decide(ruling) PROVE GateInv'
  BY <1>19, GateStutter DEF Decide, gateVars
<1>20. CASE UNCHANGED vars
  BY <1>20, GateStutter DEF vars, gateVars
<1> QED
  BY <1>1, <1>2, <1>3, <1>4, <1>5, <1>6, <1>7, <1>8, <1>9, <1>10, <1>11, <1>12, <1>13, <1>14,
     <1>15, <1>16, <1>17, <1>18, <1>19, <1>20 DEF Next, ToolStep, TurnStep

\* What a tool call has read is what Redis holds until the call is over, and in an
\* affirmed turn only the proposal the caller heard is pending, or one too new for
\* his yes: the single task of the call and the anchor of _confirm_tier.
THEOREM GateInvariant == Spec => []GateInv
BY InitGate, GateNext, PTL DEF Spec

-----------------------------------------------------------------------------
(* The tool loop implements Confirmation. *)

Carried == execs \in [Ids -> Nat]

\* Only a commit carries a proposal out.
LEMMA ExecsKept ==
  Next => CommitMutation \/ UNCHANGED execs
<1> USE DEF TurnKept, restVars, historyVars
<1>1. ToolStep => CommitMutation \/ UNCHANGED execs
  BY DEF ToolStep, Replay, ConfirmTier, HoldGate, CancelSuperseded, AuditHold, LockRow,
         MutationFails, StoreEnvelope, ClearPending, ReadFails, HoldFails, StoreFails,
         RedisFails
<1>2. TurnStep \/ Killed => UNCHANGED execs
  BY DEF TurnStep, BatchDone, Reply, DropBatch, TurnFails, Execute, Killed
<1>3. \A word \in Words : OnSttFinal(word) => UNCHANGED execs
  BY DEF OnSttFinal
<1>4. \A ask \in RestAsks : RestLock(ask) => UNCHANGED execs
  BY DEF RestLock
<1>5. RestCommit \/ (\E ruling \in {"approved", "rejected"} : Decide(ruling)) => UNCHANGED execs
  BY DEF RestCommit, Decide
<1> QED BY <1>1, <1>2, <1>3, <1>4, <1>5 DEF Next

\* The commit carries out the pending proposal, and the yes was about it.
LEMMA CommitFacts ==
  ASSUME GateInv, Carried, CommitMutation
  PROVE  /\ pend \in Proposals /\ pend.id \in Ids /\ pend.id # 0 /\ got = pend
         /\ affirmed /\ atOpen = pend.id /\ pc = "commit" /\ pc' = "store"
         /\ execs' = [execs EXCEPT ![pend.id] = execs[pend.id] + 1] /\ execs' \in [Ids -> Nat]
         /\ UNCHANGED <<pend, nextId, affirmed, atOpen, cut, cancelled>>
<1>1. pend \in Proposals \cup {None} /\ pend # None /\ got = pend /\ affirmed /\ atOpen = pend.id
  BY DEF CommitMutation, GateInv, Types, Task
<1>2. pend.id \in Ids /\ pend \in Proposals /\ pend.id # 0
  BY <1>1, ProposalIds
<1>3. execs' = [execs EXCEPT ![got.id] = @ + 1] /\ pc = "commit" /\ pc' = "store"
      /\ UNCHANGED <<pend, nextId, affirmed, atOpen, cut, cancelled>>
  BY DEF CommitMutation, TurnKept, redisVars
<1>4. execs' = [execs EXCEPT ![pend.id] = execs[pend.id] + 1] /\ execs' \in [Ids -> Nat]
  BY <1>1, <1>2, <1>3 DEF Carried
<1> QED BY <1>1, <1>2, <1>3, <1>4

LEMMA CarriedNext == GateInv /\ Carried /\ [Next]_vars => Carried'
BY ExecsKept, CommitFacts DEF Carried, vars, historyVars

\* The pending action changes in three ways: a new proposal takes its place, it is
\* cleared at the end of a decision, or it stays.
Proposes == pc = "hold" /\ ~Matches /\ WriteProposal /\ UNCHANGED <<atOpen, affirmed>>
Clears   == pc = "clear" /\ pend' = None /\ UNCHANGED <<nextId, atOpen, affirmed>>

LEMMA PendSteps ==
  ASSUME GateInv, Next
  PROVE  Proposes \/ Clears \/ UNCHANGED <<pend, nextId>>
<1> USE DEF TurnKept, redisVars, restVars, historyVars
<1>1. ASSUME ToolStep PROVE Proposes \/ Clears \/ UNCHANGED <<pend, nextId>>
  <2>1. CASE Replay \/ ConfirmTier \/ CancelSuperseded \/ AuditHold \/ LockRow
              \/ CommitMutation \/ MutationFails \/ StoreEnvelope \/ ReadFails
    BY <2>1 DEF Replay, ConfirmTier, CancelSuperseded, AuditHold, LockRow, CommitMutation,
                MutationFails, StoreEnvelope, ReadFails, RedisFails
  <2>2. CASE HoldGate \/ HoldFails
    BY <2>2 DEF HoldGate, HoldFails, RedisFails, Proposes
  <2>3. CASE ClearPending \/ StoreFails
    BY <2>3 DEF ClearPending, StoreFails, RedisFails, Clears
  <2> QED BY <1>1, <2>1, <2>2, <2>3 DEF ToolStep
<1>2. TurnStep \/ Killed => UNCHANGED <<pend, nextId>>
  BY DEF TurnStep, BatchDone, Reply, DropBatch, TurnFails, Execute, Killed
<1>3. \A word \in Words : OnSttFinal(word) => UNCHANGED <<pend, nextId>>
  BY DEF OnSttFinal
<1>4. \A ask \in RestAsks : RestLock(ask) => UNCHANGED <<pend, nextId>>
  BY DEF RestLock
<1>5. RestCommit \/ (\E ruling \in {"approved", "rejected"} : Decide(ruling))
        => UNCHANGED <<pend, nextId>>
  BY DEF RestCommit, Decide
<1> QED BY <1>1, <1>2, <1>3, <1>4, <1>5 DEF Next

\* What the caller's yes is about changes when a turn opens or ends.
Speaks ==
  /\ affirmed' \in BOOLEAN
  /\ affirmed' => atOpen' = pend.id
  /\ UNCHANGED <<pend, nextId, execs>>

LEMMA GrantSteps ==
  ASSUME GateInv, Next
  PROVE  Speaks \/ UNCHANGED <<affirmed, atOpen>>
<1> USE DEF TurnKept, turnVars, redisVars, restVars, historyVars
<1>1. ToolStep => UNCHANGED <<affirmed, atOpen>>
  BY DEF ToolStep, Replay, ConfirmTier, HoldGate, CancelSuperseded, AuditHold, LockRow,
         CommitMutation, MutationFails, StoreEnvelope, ClearPending, ReadFails, HoldFails,
         StoreFails, RedisFails
<1>2. Reply \/ DropBatch \/ TurnFails \/ Killed => Speaks
  BY DEF Speaks, Reply, DropBatch, TurnFails, Killed, TurnOver
<1>3. BatchDone \/ (\E calls \in Batches : Execute(calls)) => UNCHANGED <<affirmed, atOpen>>
  BY DEF BatchDone, Execute
<1>4. \A word \in Words : OnSttFinal(word) => Speaks
  BY DEF Speaks, OnSttFinal, Affirms
<1>5. \A ask \in RestAsks : RestLock(ask) => UNCHANGED <<affirmed, atOpen>>
  BY DEF RestLock
<1>6. RestCommit \/ (\E ruling \in {"approved", "rejected"} : Decide(ruling))
        => UNCHANGED <<affirmed, atOpen>>
  BY DEF RestCommit, Decide
<1> QED BY <1>1, <1>2, <1>3, <1>4, <1>5, <1>6 DEF Next, TurnStep

LEMMA GateStep == GateInv /\ Carried /\ [Next]_vars => [Gate!Next]_(Gate!vars)
<1> SUFFICES ASSUME GateInv, Carried, [Next]_vars PROVE Gate!Next \/ UNCHANGED Gate!vars
  OBVIOUS
<1> USE DEF Gate!vars
<1>1. CASE UNCHANGED vars
  BY <1>1 DEF vars, redisVars, turnVars, historyVars
<1>2. CASE CommitMutation
  <2>1. {p \in Ids : execs'[p] > 0} = {p \in Ids : execs[p] > 0} \cup {pend.id}
    BY <1>2, CommitFacts DEF Carried
  <2>2. pend.id # 0 /\ affirmed /\ atOpen = pend.id
        /\ UNCHANGED <<pend, nextId, affirmed, atOpen>>
    BY <1>2, CommitFacts
  <2>3. Gate!CarryOut
    BY <2>1, <2>2 DEF Gate!CarryOut
  <2> QED BY <2>3 DEF Gate!Next
<1>3. CASE Next /\ UNCHANGED execs
  <2>1. CASE Proposes
    <3>1. pend'.id = nextId /\ nextId' = nextId + 1 /\ nextId \in Nat
      BY <2>1, WriteFits DEF Proposes, GateInv, Types
    <3>2. Gate!Propose
      BY <1>3, <2>1, <3>1 DEF Gate!Propose, Proposes
    <3> QED BY <3>2 DEF Gate!Next
  <2>2. CASE Clears
    <3>1. Gate!Forget
      BY <1>3, <2>2 DEF Gate!Forget, Clears, None
    <3> QED BY <3>1 DEF Gate!Next
  <2>3. CASE UNCHANGED <<pend, nextId>>
    <3>1. CASE UNCHANGED <<affirmed, atOpen>>
      BY <1>3, <2>3, <3>1
    <3>2. CASE Speaks
      <4>1. Gate!Speak
        BY <3>2 DEF Gate!Speak, Speaks
      <4> QED BY <4>1 DEF Gate!Next
    <3> QED BY <1>3, <3>1, <3>2, GrantSteps
  <2> QED BY <1>3, <2>1, <2>2, <2>3, PendSteps
<1> QED BY <1>1, <1>2, <1>3, ExecsKept

\* A limit request is submitted only for the proposal that was pending when the caller
\* said yes: ToolExecutor's gate implements the abstract one.
THEOREM GateImplements == Spec => GateConfirms
<1>1. Init => Gate!Init /\ Carried
  BY DEF Init, Gate!Init, Carried, None
<1> QED BY <1>1, InitGate, GateNext, CarriedNext, GateStep, PTL DEF Spec, GateConfirms, Gate!Spec

-----------------------------------------------------------------------------
(* A decision is carried out once. *)

\* A proposal that was carried out and can still be affirmed is one whose outcome is
\* being recorded right now, or whose recording was cut short.
Once ==
  /\ Carried
  /\ \A p \in Ids : p >= nextId => execs[p] = 0
  /\ \A p \in Ids : execs[p] > 0 /\ p \notin cut =>
       execs[p] = 1 /\ (pend.id = p => pc \in {"store", "clear"})

\* A call leaves its two last writes by clearing the pending action, or marked as cut.
LEMMA CutSteps ==
  ASSUME GateInv, Next
  PROVE  /\ cut \subseteq cut'
         /\ pc \in {"store", "clear"} =>
              pc' \in {"store", "clear"} \/ pend' = None \/ pend.id \in cut'
<1> USE DEF TurnKept, historyVars
<1>1. CASE ToolStep
  <2>1. CASE Replay \/ ConfirmTier \/ CancelSuperseded \/ AuditHold \/ LockRow
              \/ CommitMutation \/ MutationFails \/ StoreEnvelope \/ HoldGate
    BY <2>1 DEF Replay, ConfirmTier, CancelSuperseded, AuditHold, LockRow, CommitMutation,
                MutationFails, StoreEnvelope, HoldGate
  <2>2. CASE ReadFails \/ HoldFails \/ ClearPending
    BY <2>2 DEF ReadFails, HoldFails, RedisFails, ClearPending
  <2>3. CASE StoreFails
    BY <2>3 DEF StoreFails, RedisFails, GateInv, Task
  <2> QED BY <1>1, <2>1, <2>2, <2>3 DEF ToolStep
<1>2. CASE TurnStep
  BY <1>2 DEF TurnStep, BatchDone, Reply, DropBatch, TurnFails, Execute
<1>3. CASE Killed
  BY <1>3 DEF Killed, GateInv, Task
<1>4. CASE \E word \in Words : OnSttFinal(word)
  BY <1>4 DEF OnSttFinal
<1>5. CASE (\E ask \in RestAsks : RestLock(ask)) \/ RestCommit
            \/ \E ruling \in {"approved", "rejected"} : Decide(ruling)
  BY <1>5 DEF RestLock, RestCommit, Decide, taskVars
<1> QED BY <1>1, <1>2, <1>3, <1>4, <1>5 DEF Next

LEMMA OnceNext == GateInv /\ Once /\ [Next]_vars => Once'
<1> SUFFICES ASSUME GateInv, Once, [Next]_vars PROVE Once'
  OBVIOUS
<1>1. CASE UNCHANGED vars
  BY <1>1 DEF vars, redisVars, taskVars, historyVars, Once, Carried
<1>2. CASE CommitMutation
  <2>1. /\ pend.id \in Ids /\ pend.id \notin cut => execs[pend.id] = 0
        /\ pend.id < nextId /\ nextId \in Nat /\ pend.id \in Nat
    BY <1>2, CommitFacts DEF Once, Carried, GateInv, Types, Ids
  <2>2. \A p \in Ids \ {pend.id} : execs'[p] = execs[p]
    BY <1>2, CommitFacts DEF Once, Carried
  <2>3. execs'[pend.id] = execs[pend.id] + 1
    BY <1>2, <2>1, CommitFacts DEF Once, Carried
  <2>4. UNCHANGED <<pend, nextId, cut>> /\ pc' = "store" /\ Carried'
    BY <1>2, CommitFacts DEF Once, Carried
  <2>5. \A p \in Ids : p >= nextId' => execs'[p] = 0
    BY <2>1, <2>2, <2>4 DEF Once, Ids
  <2>6. \A p \in Ids : execs'[p] > 0 /\ p \notin cut' =>
          execs'[p] = 1 /\ (pend'.id = p => pc' \in {"store", "clear"})
    BY <2>1, <2>2, <2>3, <2>4 DEF Once
  <2> QED BY <2>4, <2>5, <2>6 DEF Once
<1>3. CASE Next /\ UNCHANGED execs
  <2>1. pend' = pend \/ pend' = None \/ pend'.id = nextId
    BY <1>3, PendSteps, WriteFits DEF Proposes, Clears
  <2>2. nextId' >= nextId /\ nextId \in Nat /\ nextId' \in Nat
    BY <1>3, PendSteps, WriteFits DEF Proposes, Clears, GateInv, Types
  <2>3. \A p \in Ids : p >= nextId' => execs'[p] = 0
    BY <1>3, <2>2 DEF Once, Ids, Carried
  <2>4. ASSUME NEW p \in Ids, execs'[p] > 0, p \notin cut'
        PROVE  execs'[p] = 1 /\ (pend'.id = p => pc' \in {"store", "clear"})
    <3>1. p \notin cut /\ execs[p] = 1 /\ (pend.id = p => pc \in {"store", "clear"})
      BY <1>3, <2>4, CutSteps DEF Once
    <3>2. pend'.id = p => pend' = pend
      <4>1. p # nextId
        BY <2>2, <3>1 DEF Once, Ids
      <4>2. p # 0
        BY DEF Ids
      <4> QED BY <2>1, <4>1, <4>2 DEF None
    <3>3. pend'.id = p => pc' \in {"store", "clear"}
      <4> SUFFICES ASSUME pend'.id = p PROVE pc' \in {"store", "clear"}
        OBVIOUS
      <4>1. pend' = pend /\ pc \in {"store", "clear"} /\ pend # None
        BY <3>1, <3>2 DEF GateInv, Task
      <4> QED BY <1>3, <2>4, <4>1, CutSteps
    <3> QED BY <1>3, <3>1, <3>3
  <2> QED BY <1>3, <2>3, <2>4, CarriedNext DEF Once
<1> QED BY <1>1, <1>2, <1>3, ExecsKept

\* A confirmed proposal is carried out a second time only if the worker died or Redis
\* failed between its commit and the clearing of the pending action.
THEOREM CarriedOnce == Spec => []OncePerDecision
<1>1. Init => Once
  BY DEF Init, Once, Carried
<1>2. Once => OncePerDecision
  BY DEF Once, Carried, OncePerDecision
<1> QED BY <1>1, <1>2, InitGate, GateNext, OnceNext, PTL DEF Spec

-----------------------------------------------------------------------------
(* What Postgres calls cancelled, and what leaves Redis. *)

Superseded == cancelled \subseteq {p \in Ids : p < nextId} /\ pend.id \notin cancelled

LEMMA CancelSteps ==
  ASSUME GateInv, Next
  PROVE  \/ UNCHANGED cancelled
         \/ CancelSuperseded
<1> USE DEF TurnKept, historyVars
<1>1. ToolStep => UNCHANGED cancelled \/ CancelSuperseded
  BY DEF ToolStep, Replay, ConfirmTier, HoldGate, AuditHold, LockRow, CommitMutation,
         MutationFails, StoreEnvelope, ClearPending, ReadFails, HoldFails, StoreFails,
         RedisFails
<1>2. TurnStep \/ Killed => UNCHANGED cancelled
  BY DEF TurnStep, BatchDone, Reply, DropBatch, TurnFails, Execute, Killed
<1>3. \A word \in Words : OnSttFinal(word) => UNCHANGED cancelled
  BY DEF OnSttFinal
<1>4. \A ask \in RestAsks : RestLock(ask) => UNCHANGED cancelled
  BY DEF RestLock
<1>5. RestCommit \/ (\E ruling \in {"approved", "rejected"} : Decide(ruling))
        => UNCHANGED cancelled
  BY DEF RestCommit, Decide
<1> QED BY <1>1, <1>2, <1>3, <1>4, <1>5 DEF Next

LEMMA SupersededNext == GateInv /\ Superseded /\ [Next]_vars => Superseded'
<1> SUFFICES ASSUME GateInv, Superseded, [Next]_vars PROVE Superseded'
  OBVIOUS
<1>1. CASE UNCHANGED vars
  BY <1>1 DEF vars, redisVars, historyVars, Superseded
<1>2. CASE CancelSuperseded
  <2>1. UNCHANGED <<pend, nextId>> /\ cancelled' \subseteq cancelled \cup {got.id}
    BY <1>2 DEF CancelSuperseded, redisVars
  <2>2. got.id < pend.id /\ got.id # 0 /\ pend.id < nextId /\ nextId \in Nat
        /\ got \in Proposals \cup {None} /\ pend \in Proposals \cup {None}
    BY <1>2 DEF CancelSuperseded, GateInv, Types, Task
  <2>3. got.id \in Ids /\ got.id \in Nat /\ pend.id \in Nat
    BY <2>2, ProposalIds
  <2> QED BY <2>1, <2>2, <2>3 DEF Superseded
<1>3. CASE Next /\ UNCHANGED cancelled
  <2>1. CASE Proposes
    <3>1. pend'.id = nextId /\ nextId' = nextId + 1 /\ nextId \in Nat
      BY <2>1, WriteFits DEF Proposes, GateInv, Types
    <3> QED BY <1>3, <3>1 DEF Superseded, Ids
  <2>2. CASE Clears
    BY <1>3, <2>2 DEF Clears, Superseded, None, Ids
  <2>3. CASE UNCHANGED <<pend, nextId>>
    BY <1>3, <2>3 DEF Superseded
  <2> QED BY <1>3, <2>1, <2>2, <2>3, PendSteps
<1> QED BY <1>1, <1>2, <1>3, CancelSteps

\* What Postgres records as cancelled can never be confirmed any more: the gate writes
\* the new proposal to Redis before it audits the old one.
THEOREM CancelledIsDead == Spec => []SupersededIsDead
<1>1. Init => Superseded
  BY DEF Init, Superseded, None
<1>2. Superseded => SupersededIsDead
  BY DEF Superseded, SupersededIsDead
<1> QED BY <1>1, <1>2, InitGate, GateNext, SupersededNext, PTL DEF Spec

\* Both: no proposal is carried out on a decision that was spent or taken back.
THEOREM DecisionsSpent == Spec => []DecisionIsSpent
BY CarriedOnce, CancelledIsDead, PTL DEF DecisionIsSpent

\* A pending action leaves Redis only for another one, or when the outcome of its
\* decision is stored for replay.
THEOREM PendingOutlives == Spec => PendingOutlivesCrash
<1>1. GateInv /\ [Next]_vars => [pend # None /\ pend' = None => idem[turnNo] # "none"]_vars
  <2> SUFFICES ASSUME GateInv, Next, pend # None, pend' = None
               PROVE  idem[turnNo] # "none"
    BY DEF vars
  <2>1. CASE Proposes
    <3>1. pend' \in Proposals
      BY <2>1, WriteFits DEF Proposes
    <3> QED BY <3>1, ProposalIds DEF Proposals, None, Ids
  <2>2. CASE Clears
    BY <2>2 DEF Clears, GateInv, Task
  <2> QED BY <2>1, <2>2, PendSteps
<1> QED BY <1>1, InitGate, GateNext, PTL DEF Spec, PendingOutlivesCrash

-----------------------------------------------------------------------------
(* The row: two submitters. *)

\* The transaction that is about to write holds the lock, and has read the row as it is.
RowView ==
  /\ view = [tx \in {"call", "rest"} |-> view[tx]]
  /\ limit = [paise |-> limit.paise, status |-> limit.status, to |-> limit.to]
  /\ pc = "commit" => holder = "call" /\ view["call"] = limit
  /\ rest = "locked" => holder = "rest" /\ view["rest"] = limit

\* A step that touches neither the row nor the progress of the two transactions.
rowSteps == <<limit, holder, view, rest>>

LEMMA RowNext ==
  GateInv /\ RowView /\ [Next]_vars =>
    /\ RowView'
    /\ limit.status = "submitted" /\ limit'.status = "submitted" => limit' = limit
<1> SUFFICES ASSUME GateInv, RowView, [Next]_vars
             PROVE  /\ RowView'
                    /\ limit.status = "submitted" /\ limit'.status = "submitted" => limit' = limit
  OBVIOUS
<1> USE DEF TurnKept, rowVars, restVars
<1>1. ASSUME UNCHANGED rowSteps, pc' = "commit" => pc = "commit"
      PROVE  RowView' /\ limit' = limit
  BY <1>1 DEF rowSteps, RowView
<1>2. CASE \/ Replay \/ ConfirmTier \/ HoldGate \/ CancelSuperseded \/ AuditHold
           \/ StoreEnvelope \/ ClearPending \/ ReadFails \/ HoldFails \/ StoreFails
  BY <1>1, <1>2 DEF rowSteps, Replay, ConfirmTier, HoldGate, CancelSuperseded, AuditHold,
         AuditKey, StoreEnvelope, ClearPending, ReadFails, HoldFails, StoreFails, RedisFails,
         CallDone
<1>3. CASE TurnStep \/ \E word \in Words : OnSttFinal(word)
  BY <1>1, <1>3 DEF rowSteps, TurnStep, BatchDone, Reply, DropBatch, TurnFails, Execute,
                    TurnOver, OnSttFinal
<1>4. CASE UNCHANGED vars
  BY <1>1, <1>4 DEF rowSteps, vars, taskVars
<1>5. CASE LockRow
  BY <1>5 DEF LockRow, GetForUpdate, RowView
<1>6. CASE CommitMutation
  <2>1. holder = "call" /\ view["call"] = limit /\ limit.status # "submitted" /\ rest # "locked"
    BY <1>6 DEF CommitMutation, RowView, Accepts
  <2> QED BY <1>6, <2>1 DEF CommitMutation, Submit, Release, RowView
<1>7. CASE MutationFails \/ Killed
  <2>1. limit' = limit /\ rest' = rest /\ pc' # "commit"
    BY <1>7 DEF MutationFails, Killed, TurnOver
  <2>2. \/ UNCHANGED <<holder, view>>
        \/ Release("call")
    BY <1>7 DEF MutationFails, Killed
  <2> QED BY <2>1, <2>2 DEF Release, RowView
<1>8. ASSUME NEW ask \in RestAsks, RestLock(ask) PROVE RowView' /\ limit' = limit
  BY <1>8 DEF RestLock, GetForUpdate, RowView, taskVars
<1>9. CASE RestCommit
  <2>1. holder = "rest" /\ view["rest"] = limit /\ pc # "commit" /\ pc' = pc /\ rest' = "idle"
    BY <1>9 DEF RestCommit, RowView, taskVars
  <2> QED BY <1>9, <2>1 DEF RestCommit, Accepts, Submit, Release, RowView
<1>10. ASSUME NEW ruling \in {"approved", "rejected"}, Decide(ruling)
       PROVE  RowView' /\ limit'.status # "submitted"
  BY <1>10 DEF Decide, RowView, taskVars
<1> QED
  BY <1>2, <1>3, <1>4, <1>5, <1>6, <1>7, <1>8, <1>9, <1>10 DEF Next, ToolStep, LockRow

\* The call and the app never overwrite each other's open request: the row is read for
\* update, and the reader holds it until its transaction is over.
THEOREM OpenRequestKept == Spec => OpenRequestStands
<1>1. Init => RowView
  BY DEF Init, RowView, FirstRow
<1>2. GateInv /\ RowView /\ [Next]_vars =>
        [limit.status = "submitted" /\ limit'.status = "submitted" => limit' = limit]_vars
  BY RowNext
<1> QED BY <1>1, <1>2, InitGate, GateNext, RowNext, PTL DEF Spec, OpenRequestStands

-----------------------------------------------------------------------------
(* Payments.                                                               *)

\* The transaction of r is open and has read the wallet.
Paying(r) == step[r] \in {"limit", "debit", "declined", "paid"}

\* What r knows of its merchant's limit, which it holds if there is one, until it commits.
Bound(r) ==
  /\ step[r] \in {"debit", "paid"} /\ Payer[r] \in HasLimit =>
       usedSeen[r] + Amount[r] <= Limit[Payer[r]]
  /\ step[r] \in {"debit", "declined", "paid"} /\ Payer[r] \in HasLimit =>
       limitOwner[Payer[r]] = r /\ usedSeen[r] = used[Payer[r]]
  /\ step[r] = "declined" => code[r] \in Declines
  /\ step[r] = "declined" /\ code[r] = "DAILY_LIMIT_EXCEEDED" /\ Payer[r] \in HasLimit =>
       usedSeen[r] + Amount[r] > Limit[Payer[r]]
  /\ step[r] = "paid" => Amount[r] <= seen[r]

\* Nothing is recorded or answered before the end, and what is stays explained.
Told(r) ==
  /\ step[r] # "done" => row[r] = "none" /\ answer[r] = 0
  /\ step[r] = "done" => answer[r] # 0
  /\ answer[r] = 402 => row[r] \in Declines
  /\ answer[r] = 201 => row[r] = "succeeded"
  /\ answer[r] \in {404, 429} => row[r] = "none"
  /\ row[r] = "DAILY_LIMIT_EXCEEDED" /\ Payer[r] \in HasLimit =>
       used[Payer[r]] + Amount[r] > Limit[Payer[r]]

\* The copy of the wallet r decides on is of some earlier time.
Stale(r) == Paying(r) => seen[r] >= Balance0[Payer[r]] - Total(PaidBy(Payer[r]))

Purse(m) ==
  /\ IsFiniteSet(Paise(PaidBy(m)))
  /\ balance[m] >= Balance0[m] - Total(PaidBy(m))
  /\ m \in HasLimit => used[m] = Used0[m] + Total(PaidBy(m)) /\ used[m] <= Limit[m]

PaymentsInv ==
  /\ PaymentsTypeOK
  /\ \A r \in Requests : Bound(r) /\ Told(r) /\ Stale(r)
  /\ \A m \in Merchants : Purse(m)

-----------------------------------------------------------------------------
\* One more payment adds its amount.
LEMMA TotalAdds ==
  ASSUME NEW S \in SUBSET Requests, NEW r \in Requests, r \notin S, IsFiniteSet(Paise(S))
  PROVE  /\ IsFiniteSet(Paise(S \cup {r})) /\ Total(S) \in Nat
         /\ Total(S \cup {r}) = Total(S) + Amount[r]
<1> DEFINE mine == {r} \X (1..Amount[r])
<1>1. Amount[r] \in Nat \ {0} BY PaymentsAssumption
<1>2. IsFiniteSet(1..Amount[r]) /\ Cardinality(1..Amount[r]) = Amount[r]
  BY <1>1, FS_Interval, SMTT(20)
<1>3. IsFiniteSet({r}) /\ Cardinality({r}) = 1 BY FS_Singleton
<1>4. IsFiniteSet(mine) /\ Cardinality(mine) = Amount[r]
  <2>1. IsFiniteSet(mine) /\ Cardinality(mine) = Cardinality({r}) * Cardinality(1..Amount[r])
    BY <1>2, <1>3, FS_Product
  <2>2. 1 * Amount[r] = Amount[r] BY <1>1
  <2> QED BY <2>1, <2>2, <1>2, <1>3
<1>5. Paise(S \cup {r}) = Paise(S) \cup mine BY DEF Paise
<1>6. Paise(S) \cap mine = {} BY DEF Paise
<1>7. Cardinality(Paise(S)) \in Nat BY FS_CardinalityType
<1> HIDE DEF mine
<1>8. /\ IsFiniteSet(Paise(S) \cup mine)
      /\ Cardinality(Paise(S) \cup mine)
           = Cardinality(Paise(S)) + Cardinality(mine) - Cardinality({})
  BY <1>4, <1>6, FS_Union
<1>9. Cardinality({}) = 0 BY FS_EmptySet
<1>10. Cardinality(Paise(S) \cup mine) = Cardinality(Paise(S)) + Amount[r]
  BY <1>1, <1>4, <1>7, <1>8, <1>9
<1> QED BY <1>5, <1>7, <1>8, <1>10 DEF Total

LEMMA InitPaymentsInv == PaymentsInit => PaymentsInv
<1> SUFFICES ASSUME PaymentsInit PROVE PaymentsInv OBVIOUS
<1> USE PaymentsAssumption
<1>1. PaymentsTypeOK BY DEF PaymentsInit, PaymentsTypeOK, Declines
<1>2. ASSUME NEW r \in Requests PROVE Bound(r) /\ Told(r) /\ Stale(r)
  BY DEF PaymentsInit, Bound, Told, Stale, Paying
<1>3. ASSUME NEW m \in Merchants PROVE Purse(m)
  <2>1. PaidBy(m) = {} BY DEF PaymentsInit, PaidBy
  <2>2. Paise(PaidBy(m)) = {} BY <2>1 DEF Paise
  <2>3. Total(PaidBy(m)) = 0 BY <2>2, FS_EmptySet DEF Total
  <2> QED BY <2>2, <2>3, FS_EmptySet DEF Purse, PaymentsInit
<1> QED BY <1>1, <1>2, <1>3 DEF PaymentsInv

\* Before a transaction's end: no row, no balance and no usage changes, and r alone moves.
LEMMA OpenStep ==
  ASSUME PaymentsInv, NEW r \in Requests, UNCHANGED storeVars, PaymentsTypeOK',
         Bound(r)', Told(r)', Stale(r)',
         \A q \in Requests \ {r} :
           /\ step'[q] = step[q] /\ seen'[q] = seen[q] /\ usedSeen'[q] = usedSeen[q]
           /\ code'[q] = code[q] /\ answer'[q] = answer[q]
           /\ \A m \in Merchants : limitOwner[m] = q => limitOwner'[m] = q
  PROVE  PaymentsInv'
<1> USE PaymentsAssumption DEF storeVars
<1>1. \A m : PaidBy(m)' = PaidBy(m) BY DEF PaidBy
<1>2. \A m : Total(PaidBy(m))' = Total(PaidBy(m)) BY <1>1 DEF Total, Paise
<1>3. ASSUME NEW q \in Requests PROVE Bound(q)' /\ Told(q)' /\ Stale(q)'
  <2>1. CASE q = r BY <2>1
  <2>2. CASE q # r
    <3>0. Payer[q] \in Merchants OBVIOUS
    <3>1. Bound(q)' BY <2>2, <3>0 DEF PaymentsInv, Bound
    <3>2. Told(q)' BY <2>2 DEF PaymentsInv, Told
    <3>3. Stale(q)' BY <2>2, <1>2 DEF PaymentsInv, Stale, Paying
    <3> QED BY <3>1, <3>2, <3>3
  <2> QED BY <2>1, <2>2
<1>4. ASSUME NEW m \in Merchants PROVE Purse(m)'
  BY <1>1, <1>2 DEF PaymentsInv, Purse, Paise
<1> QED BY <1>3, <1>4 DEF PaymentsInv

LEMMA RateCheckedKeeps ==
  ASSUME PaymentsInv, NEW r \in Requests, RateChecked(r) PROVE PaymentsInv'
<1> USE PaymentsAssumption DEF RateChecked, Goto, Respond, storeVars, lockVars
<1>1. PaymentsTypeOK' BY DEF PaymentsInv, PaymentsTypeOK
<1>2. Bound(r)' /\ Told(r)' /\ Stale(r)'
  BY DEF PaymentsInv, PaymentsTypeOK, Bound, Told, Stale, Paying
<1> QED BY <1>1, <1>2, OpenStep DEF PaymentsInv, PaymentsTypeOK

LEMMA FindWalletKeeps ==
  ASSUME PaymentsInv, NEW r \in Requests, FindWallet(r) PROVE PaymentsInv'
<1> USE PaymentsAssumption DEF FindWallet, Goto, Respond, storeVars, lockVars
<1>0. Payer[r] \in Merchants OBVIOUS
<1>1. PaymentsTypeOK' BY <1>0 DEF PaymentsInv, PaymentsTypeOK
<1>2. Bound(r)' /\ Told(r)' BY DEF PaymentsInv, PaymentsTypeOK, Bound, Told
<1>3. Stale(r)'
  <2>1. Total(PaidBy(Payer[r]))' = Total(PaidBy(Payer[r])) BY DEF Total, Paise, PaidBy
  <2>2. balance[Payer[r]] >= Balance0[Payer[r]] - Total(PaidBy(Payer[r]))
    BY <1>0 DEF PaymentsInv, Purse
  <2> QED BY <2>1, <2>2 DEF PaymentsInv, PaymentsTypeOK, Stale, Paying
<1> QED BY <1>1, <1>2, <1>3, OpenStep DEF PaymentsInv, PaymentsTypeOK

LEMMA LockLimitKeeps ==
  ASSUME PaymentsInv, NEW r \in Requests, LockLimit(r) PROVE PaymentsInv'
<1> USE PaymentsAssumption DEF LockLimit, Goto, Decline, LimitFree, Exceeded, storeVars, Declines
<1>0. Payer[r] \in Merchants /\ Amount[r] \in Nat \ {0} OBVIOUS
<1>1. PaymentsTypeOK' BY <1>0 DEF PaymentsInv, PaymentsTypeOK
<1>2. Told(r)' BY DEF PaymentsInv, PaymentsTypeOK, Told
<1>3. Bound(r)' BY <1>0 DEF PaymentsInv, PaymentsTypeOK, Bound
<1>4. Stale(r)'
  <2>1. Total(PaidBy(Payer[r]))' = Total(PaidBy(Payer[r])) BY DEF Total, Paise, PaidBy
  <2> QED BY <2>1 DEF PaymentsInv, PaymentsTypeOK, Stale, Paying
<1>5. \A q \in Requests \ {r} :
        /\ step'[q] = step[q] /\ seen'[q] = seen[q] /\ usedSeen'[q] = usedSeen[q]
        /\ code'[q] = code[q] /\ answer'[q] = answer[q]
        /\ \A m \in Merchants : limitOwner[m] = q => limitOwner'[m] = q
  BY <1>0 DEF PaymentsInv, PaymentsTypeOK
<1> QED BY <1>1, <1>2, <1>3, <1>4, <1>5, OpenStep

LEMMA DebitKeeps ==
  ASSUME PaymentsInv, NEW r \in Requests, DebitIfSufficient(r) PROVE PaymentsInv'
<1> USE PaymentsAssumption
    DEF DebitIfSufficient, Goto, Decline, Sufficient, storeVars, Declines
<1>0. Payer[r] \in Merchants /\ Amount[r] \in Nat \ {0} OBVIOUS
<1>1. PaymentsTypeOK' BY <1>0 DEF PaymentsInv, PaymentsTypeOK
<1>2. Told(r)' BY DEF PaymentsInv, PaymentsTypeOK, Told
<1>3. Bound(r)' BY <1>0 DEF PaymentsInv, PaymentsTypeOK, Bound
<1>4. Stale(r)'
  <2>1. Total(PaidBy(Payer[r]))' = Total(PaidBy(Payer[r])) BY DEF Total, Paise, PaidBy
  <2> QED BY <2>1 DEF PaymentsInv, PaymentsTypeOK, Stale, Paying
<1> QED BY <1>1, <1>2, <1>3, <1>4, OpenStep DEF PaymentsInv, PaymentsTypeOK

\* The end of a transaction that paid nobody: it leaves no row, or its decline's.
LEMMA UnpaidEnd ==
  ASSUME PaymentsInv, NEW r \in Requests, step[r] # "done", Unlock(r), Goto(r, "done"),
         UNCHANGED <<balance, used, seen, usedSeen, code>>,
         NEW status \in {402, 500}, Respond(r, status), failures' \in 0..MaxFailures,
         \/ row' = row /\ status = 500
         \/ WriteRow(r, code[r]) /\ step[r] = "declined"
  PROVE  PaymentsInv'
<1> USE PaymentsAssumption DEF Goto, Respond, Unlock, Released, Declines, WriteRow
<1>1. PaymentsTypeOK' BY DEF PaymentsInv, PaymentsTypeOK, Bound
<1>2. \A m : PaidBy(m)' = PaidBy(m) BY DEF PaymentsInv, PaymentsTypeOK, PaidBy, Told, Bound
<1>3. \A m : Total(PaidBy(m))' = Total(PaidBy(m)) BY <1>2 DEF Total, Paise
<1>4. ASSUME NEW q \in Requests PROVE Bound(q)' /\ Told(q)' /\ Stale(q)'
  <2>0. Payer[q] \in Merchants OBVIOUS
  <2>1. Bound(q)' BY <2>0 DEF PaymentsInv, PaymentsTypeOK, Bound
  <2>2. Told(q)'
    <3>1. CASE q # r BY <3>1 DEF PaymentsInv, PaymentsTypeOK, Told
    <3>2. CASE q = r BY <3>2, <2>0 DEF PaymentsInv, PaymentsTypeOK, Told, Bound
    <3> QED BY <3>1, <3>2
  <2>3. Stale(q)' BY <1>3 DEF PaymentsInv, PaymentsTypeOK, Stale, Paying
  <2> QED BY <2>1, <2>2, <2>3
<1>5. ASSUME NEW m \in Merchants PROVE Purse(m)'
  <2>1. Paise(PaidBy(m))' = Paise(PaidBy(m)) BY <1>2 DEF Paise
  <2>2. balance' = balance /\ used' = used /\ Purse(m) BY DEF PaymentsInv
  <2> QED BY <2>1, <2>2, <1>3 DEF Purse
<1> QED BY <1>1, <1>4, <1>5 DEF PaymentsInv

\* The end of one that paid: whoever else is past the limit check holds another merchant's
\* limit, or there is none.
LEMMA PaidEnd ==
  ASSUME PaymentsInv, NEW r \in Requests, step[r] = "paid", WriteSuccess(r), Unlock(r),
         Goto(r, "done"), UNCHANGED <<seen, usedSeen, code>>,
         NEW status \in {201, 500}, Respond(r, status), failures' \in 0..MaxFailures
  PROVE  PaymentsInv'
<1> USE PaymentsAssumption
    DEF Goto, Respond, Unlock, Released, Declines, WriteSuccess, WriteRow, WriteDebit, WriteUsage
<1>m. Payer[r] \in Merchants /\ Amount[r] \in Nat \ {0} OBVIOUS
<1> PICK m0 \in Merchants : m0 = Payer[r] BY <1>m
<1>0. /\ m0 \in Merchants /\ Amount[r] \in Nat \ {0} /\ row[r] = "none"
      /\ seen[r] \in Nat /\ Amount[r] <= seen[r]
      /\ m0 \in HasLimit => /\ limitOwner[m0] = r /\ usedSeen[r] = used[m0]
                            /\ usedSeen[r] + Amount[r] <= Limit[m0]
  <2>1. Bound(r) /\ Told(r) /\ seen \in [Requests -> Nat] BY DEF PaymentsInv, PaymentsTypeOK
  <2>2. row[r] = "none" BY <2>1 DEF Told
  <2>3. Amount[r] <= seen[r] BY <2>1 DEF Bound
  <2>4. m0 \in HasLimit => /\ limitOwner[m0] = r /\ usedSeen[r] = used[m0]
                           /\ usedSeen[r] + Amount[r] <= Limit[m0]
    BY <2>1 DEF Bound
  <2> QED BY <2>1, <2>2, <2>3, <2>4, <1>m
<1>1. PaymentsTypeOK' BY <1>0 DEF PaymentsInv, PaymentsTypeOK
<1>2. \A m : m # m0 => PaidBy(m)' = PaidBy(m) BY DEF PaymentsInv, PaymentsTypeOK, PaidBy
<1>3. PaidBy(m0)' = PaidBy(m0) \cup {r} /\ r \notin PaidBy(m0)
  BY <1>0 DEF PaymentsInv, PaymentsTypeOK, PaidBy
<1>4. /\ IsFiniteSet(Paise(PaidBy(m0))') /\ Total(PaidBy(m0)) \in Nat
      /\ Total(PaidBy(m0))' = Total(PaidBy(m0)) + Amount[r]
  <2>1. IsFiniteSet(Paise(PaidBy(m0))) BY <1>0 DEF PaymentsInv, Purse
  <2>2. PaidBy(m0) \in SUBSET Requests BY DEF PaidBy
  <2>3. /\ IsFiniteSet(Paise(PaidBy(m0) \cup {r})) /\ Total(PaidBy(m0)) \in Nat
        /\ Total(PaidBy(m0) \cup {r}) = Total(PaidBy(m0)) + Amount[r]
    BY <1>3, <2>1, <2>2, TotalAdds
  <2>4. Paise(PaidBy(m0))' = Paise(PaidBy(m0) \cup {r}) BY <1>3 DEF Paise
  <2>5. Total(PaidBy(m0))' = Total(PaidBy(m0) \cup {r}) BY <2>4 DEF Total
  <2> QED BY <2>3, <2>4, <2>5
<1>5. \A m : m # m0 => /\ Paise(PaidBy(m))' = Paise(PaidBy(m))
                       /\ Total(PaidBy(m))' = Total(PaidBy(m))
  BY <1>2 DEF Total, Paise
<1>6. ASSUME NEW q \in Requests PROVE Bound(q)' /\ Told(q)' /\ Stale(q)'
  <2>0. Payer[q] \in Merchants /\ Amount[q] \in Nat \ {0} OBVIOUS
  <2>1. Bound(q)'
    <3>1. CASE q = r BY <3>1 DEF PaymentsInv, PaymentsTypeOK, Bound
    <3>2. CASE q # r BY <3>2, <2>0, <1>0 DEF PaymentsInv, PaymentsTypeOK, Bound
    <3> QED BY <3>1, <3>2
  <2>2. Told(q)'
    <3>1. CASE q = r BY <3>1, <1>0 DEF PaymentsInv, PaymentsTypeOK, Told
    <3>2. CASE q # r
      <4>1. /\ step'[q] = step[q] /\ row'[q] = row[q] /\ answer'[q] = answer[q] /\ Told(q)
        BY <3>2 DEF PaymentsInv, PaymentsTypeOK
      <4>2. /\ used'[Payer[q]] >= used[Payer[q]] /\ used[Payer[q]] \in Nat
            /\ used'[Payer[q]] \in Nat
        BY <2>0, <1>0, <1>1 DEF PaymentsInv, PaymentsTypeOK
      <4>3. Payer[q] \in HasLimit => Limit[Payer[q]] \in Nat BY <2>0
      <4> QED BY <4>1, <4>2, <4>3, <2>0 DEF Told
    <3> QED BY <3>1, <3>2
  <2>3. Stale(q)'
    <3>1. CASE q = r BY <3>1 DEF PaymentsInv, PaymentsTypeOK, Stale, Paying
    <3>2. CASE q # r /\ Payer[q] # m0
      BY <3>2, <1>5 DEF PaymentsInv, PaymentsTypeOK, Stale, Paying
    <3>3. CASE q # r /\ Payer[q] = m0
      <4>1. Balance0[m0] \in Nat /\ Total(PaidBy(m0)) \in Nat BY <1>4
      <4>2. seen'[q] = seen[q] /\ seen[q] \in Nat /\ step'[q] = step[q]
        BY <3>3 DEF PaymentsInv, PaymentsTypeOK
      <4>3. Paying(q) => seen[q] >= Balance0[m0] - Total(PaidBy(m0))
        BY <3>3 DEF PaymentsInv, Stale
      <4>4. Paying(q)' => seen'[q] >= Balance0[m0] - Total(PaidBy(m0))'
        BY <4>1, <4>2, <4>3, <1>0, <1>4 DEF Paying
      <4> QED BY <3>3, <4>4 DEF Stale
    <3> QED BY <3>1, <3>2, <3>3
  <2> QED BY <2>1, <2>2, <2>3
<1>7. ASSUME NEW m \in Merchants PROVE Purse(m)'
  <2>1. CASE m # m0 BY <2>1, <1>5 DEF PaymentsInv, PaymentsTypeOK, Purse
  <2>2. CASE m = m0
    <3>1. seen[r] >= Balance0[m0] - Total(PaidBy(m0)) BY DEF PaymentsInv, Stale, Paying
    <3>2. balance'[m0] = seen[r] - Amount[r] BY <1>0 DEF PaymentsInv, PaymentsTypeOK
    <3>3. balance'[m0] >= Balance0[m0] - Total(PaidBy(m0))' BY <3>1, <3>2, <1>0, <1>4
    <3>4. m0 \in HasLimit => /\ used'[m0] = Used0[m0] + Total(PaidBy(m0))'
                             /\ used'[m0] <= Limit[m0]
      <4> SUFFICES ASSUME m0 \in HasLimit
                   PROVE  /\ used'[m0] = Used0[m0] + Total(PaidBy(m0))'
                          /\ used'[m0] <= Limit[m0]
        OBVIOUS
      <4>1. used[m0] = Used0[m0] + Total(PaidBy(m0)) BY <1>0 DEF PaymentsInv, Purse
      <4>2. used'[m0] = used[m0] + Amount[r]
        BY <1>0 DEF PaymentsInv, PaymentsTypeOK
      <4> QED BY <4>1, <4>2, <1>0, <1>4
    <3> QED BY <2>2, <3>3, <3>4, <1>4 DEF Purse
  <2> QED BY <2>1, <2>2
<1> QED BY <1>1, <1>6, <1>7 DEF PaymentsInv

LEMMA FailKeeps ==
  ASSUME PaymentsInv, NEW r \in Requests, Fail(r) PROVE PaymentsInv'
<1>1. failures' \in 0..MaxFailures
  BY PaymentsAssumption DEF Fail, PaymentsInv, PaymentsTypeOK
<1>2. CASE UNCHANGED storeVars
  BY <1>1, <1>2, UnpaidEnd DEF Fail, storeVars
<1>3. CASE step[r] = "declined" /\ WriteDecline(r)
  <2>1. /\ WriteRow(r, code[r])
        /\ UNCHANGED <<balance, used, seen, usedSeen, code>>
    BY <1>3 DEF WriteDecline, Fail
  <2>2. Unlock(r) /\ Goto(r, "done") /\ Respond(r, 500) /\ step[r] # "done" BY DEF Fail
  <2> QED BY <1>1, <1>3, <2>1, <2>2, UnpaidEnd
<1>4. CASE step[r] = "paid" /\ WriteSuccess(r)
  BY <1>1, <1>4, PaidEnd DEF Fail
<1> QED BY <1>2, <1>3, <1>4 DEF Fail

LEMMA KeepsPaymentsInv == PaymentsInv /\ [PaymentsNext]_paymentVars => PaymentsInv'
<1> SUFFICES ASSUME PaymentsInv, [PaymentsNext]_paymentVars PROVE PaymentsInv' OBVIOUS
<1>0. failures \in 0..MaxFailures BY DEF PaymentsInv, PaymentsTypeOK
<1>1. ASSUME NEW r \in Requests, CreatePayment(r) PROVE PaymentsInv'
  <2>1. CASE RateChecked(r) BY <2>1, RateCheckedKeeps
  <2>2. CASE FindWallet(r) BY <2>2, FindWalletKeeps
  <2>3. CASE LockLimit(r) BY <2>3, LockLimitKeeps
  <2>4. CASE DebitIfSufficient(r) BY <2>4, DebitKeeps
  <2>5. CASE CommitDecline(r)
    BY <2>5, <1>0, UnpaidEnd DEF CommitDecline, WriteDecline
  <2>6. CASE CommitSuccess(r) BY <2>6, <1>0, PaidEnd DEF CommitSuccess
  <2> QED BY <1>1, <2>1, <2>2, <2>3, <2>4, <2>5, <2>6 DEF CreatePayment
<1>2. ASSUME NEW r \in Requests, Fail(r) PROVE PaymentsInv' BY <1>2, FailKeeps
<1>3. CASE UNCHANGED paymentVars
  <2>1. /\ UNCHANGED <<balance, used, walletOwner, limitOwner, row>>
        /\ UNCHANGED <<step, seen, usedSeen, code, answer, failures>>
    BY <1>3 DEF paymentVars, storeVars, lockVars, sessionVars
  <2>2. PaymentsTypeOK' BY <2>1 DEF PaymentsInv, PaymentsTypeOK
  <2>3. ASSUME NEW m PROVE PaidBy(m)' = PaidBy(m) BY <2>1 DEF PaidBy
  <2>4. ASSUME NEW r \in Requests PROVE Bound(r)' /\ Told(r)' /\ Stale(r)'
    <3>1. Bound(r) /\ Told(r) /\ Stale(r) BY DEF PaymentsInv
    <3>2. Bound(r)' BY <2>1, <3>1 DEF Bound
    <3>3. Told(r)' BY <2>1, <3>1 DEF Told
    <3>4. Stale(r)' BY <2>1, <2>3, <3>1 DEF Stale, Paying, Total, Paise
    <3> QED BY <3>2, <3>3, <3>4
  <2>5. ASSUME NEW m \in Merchants PROVE Purse(m)'
    BY <2>1, <2>3 DEF PaymentsInv, Purse, Total, Paise
  <2> QED BY <2>2, <2>4, <2>5 DEF PaymentsInv
<1> QED BY <1>1, <1>2, <1>3 DEF PaymentsNext

\* The day's usage is what succeeded, never more than the limit, and a wallet loses nothing
\* for a payment that did not: for any number of merchants, payments and failures.
THEOREM PaymentsSettled == PaymentsSpec => []PaymentsSettle
<1>1. PaymentsInv => PaymentsSettle
  BY PaymentsAssumption
     DEF PaymentsInv, Purse, PaymentsSettle, UsageIsPayouts, LimitHolds, NothingTakenUnpaid
<1> QED BY <1>1, InitPaymentsInv, KeepsPaymentsInv, PTL DEF PaymentsSpec

\* An answer is backed by a committed row, and a decline of the limit's stays explained by
\* the limit that is read later.
THEOREM AnswersBacked == PaymentsSpec => []AnswerIsBacked
<1>1. ASSUME PaymentsInv PROVE AnswerIsRecorded
  BY <1>1 DEF PaymentsInv, PaymentsTypeOK, Told, AnswerIsRecorded
<1>2. ASSUME PaymentsInv PROVE DeclineExplained
  BY <1>2, PaymentsAssumption
     DEF PaymentsInv, PaymentsTypeOK, Told, DeclineExplained, PaymentStatus, LimitContext, Declines
<1> QED BY <1>1, <1>2, InitPaymentsInv, KeepsPaymentsInv, PTL DEF PaymentsSpec, AnswerIsBacked

-----------------------------------------------------------------------------
(* The rate limiter.                                                       *)

RateTypes ==
  /\ clock \in Nat \ {0} /\ deadline \in Nat \cup {Unset} /\ outages \in Nat
  /\ members \subseteq [at : Nat, by : Callers] /\ IsFiniteSet(members)
  /\ stamp \in [Callers -> Nat \cup {Unset}]
  /\ verdict \in [Callers -> {"none", "admitted", "429", "500"}]

\* A caller sends the clock it read, at most MaxLag late.
Timely ==
  \A c \in Callers :
    /\ stamp[c] # Unset => stamp[c] <= clock
    /\ verdict[c] # "none" => stamp[c] # Unset
    /\ Sent(c) => clock <= stamp[c] + MaxLag

\* The key does not expire before its youngest member would have been trimmed.
KeyLives ==
  members # {} =>
    /\ deadline # Unset /\ clock < deadline /\ deadline <= clock + WindowSize
    /\ \A x \in members : x.at + WindowSize <= deadline

\* Whoever was let in within the last window is still counted.
Counted ==
  \A c \in Callers :
    verdict[c] = "admitted" /\ stamp[c] + WindowSize > clock =>
      [at |-> stamp[c], by |-> c] \in members

\* What is counted is a caller's attempt.
Attempted == \A x \in members : x.at = stamp[x.by] /\ verdict[x.by] # "none"

RateInv ==
  /\ RateTypes /\ Timely /\ KeyLives /\ Counted /\ Attempted
  /\ RateHolds /\ RetryAfterWorks

\* Every caller the pipeline lets in together with c is in the set it counted.
LEMMA CountBounds ==
  ASSUME NEW kept, IsFiniteSet(kept), NEW S \in SUBSET Callers, NEW f \in [S -> kept],
         \A c, d \in S : f[c] = f[d] => c = d
  PROVE  IsFiniteSet(S) /\ Cardinality(S) <= Cardinality(kept)
<1>1. f \in Injection(S, kept) BY DEF Injection, IsInjective
<1> QED BY <1>1, FS_Injection

\* Attempts are never taken back: a refusal keeps its cause.
LEMMA CauseStays ==
  ASSUME RateInv, NEW c \in Callers, verdict[c] = "429", stamp'[c] = stamp[c],
         \A d \in Callers : verdict[d] # "none" => stamp'[d] = stamp[d] /\ verdict'[d] # "none"
  PROVE  Cardinality(Attempts(c)') >= RateLimit
<1>1. Attempts(c) \subseteq Attempts(c)' /\ Attempts(c)' \subseteq Callers BY DEF Attempts
<1>2. IsFiniteSet(Attempts(c)') /\ Cardinality(Attempts(c)') \in Nat
  BY <1>1, RateAssumption, FS_Subset, FS_CardinalityType
<1>3. IsFiniteSet(Attempts(c)) /\ Cardinality(Attempts(c)) <= Cardinality(Attempts(c)')
  BY <1>1, <1>2, FS_Subset
<1>4. Cardinality(Attempts(c)) \in Nat BY <1>3, FS_CardinalityType
<1>5. Cardinality(Attempts(c)) >= RateLimit BY DEF RateInv, RetryAfterWorks
<1> QED BY <1>2, <1>3, <1>4, <1>5, RateAssumption

LEMMA InitRateInv == RateInit => RateInv
<1> SUFFICES ASSUME RateInit PROVE RateInv OBVIOUS
<1> USE RateAssumption DEF RateInit
<1>1. RateTypes BY FS_EmptySet DEF RateTypes
<1>2. Timely /\ KeyLives /\ Counted /\ Attempted /\ RetryAfterWorks
  BY DEF Timely, KeyLives, Counted, Attempted, RetryAfterWorks, Sent
<1>3. RateHolds
  <2>1. \A first, last : AdmittedIn(first, last) = {} BY DEF AdmittedIn
  <2> QED BY <2>1, FS_EmptySet DEF RateHolds
<1> QED BY <1>1, <1>2, <1>3 DEF RateInv

LEMMA KeepsRateInv == RateInv /\ [RateNext]_rateVars => RateInv'
<1> SUFFICES ASSUME RateInv, [RateNext]_rateVars PROVE RateInv' OBVIOUS
<1> USE RateAssumption
<1>t. RateTypes /\ Timely /\ KeyLives /\ Counted /\ Attempted /\ RateHolds BY DEF RateInv
<1>w. WindowSize \in Nat \ {0} /\ RateLimit \in Nat \ {0} /\ MaxLag \in Nat /\ MaxLag < WindowSize
  OBVIOUS
<1>1. ASSUME Tick PROVE RateInv'
  <2>1. RateTypes' BY <1>1, <1>t, FS_EmptySet DEF Tick, RateTypes, windowVars, callerVars
  <2>2. Timely' BY <1>1, <1>t DEF Tick, Timely, Sent, RateTypes, callerVars
  <2>3. KeyLives' BY <1>1, <1>t, <1>w DEF Tick, KeyLives, RateTypes, windowVars
  <2>4. Counted'
    <3> SUFFICES ASSUME NEW c \in Callers, verdict[c] = "admitted",
                        stamp[c] + WindowSize > clock + 1
                 PROVE  [at |-> stamp[c], by |-> c] \in members'
      BY <1>1 DEF Counted, Tick, callerVars
    <3>1. stamp[c] \in Nat BY <1>t DEF RateTypes, Timely
    <3>2. [at |-> stamp[c], by |-> c] \in members
      BY <1>t, <1>w, <3>1 DEF Counted, RateTypes
    <3>3. stamp[c] + WindowSize <= deadline /\ deadline \in Nat
      BY <1>t, <3>2 DEF KeyLives, RateTypes
    <3>4. deadline # clock + 1 BY <3>1, <3>3, <1>t, <1>w DEF RateTypes
    <3> QED BY <3>2, <3>4, <1>1 DEF Tick, windowVars
  <2>5. RateHolds'
    <3> SUFFICES ASSUME NEW first \in 1..clock + 1
                 PROVE  Cardinality(AdmittedIn(first, first + WindowSize - MaxLag - 1)) <= RateLimit
      BY <1>1 DEF RateHolds, Tick, AdmittedIn, callerVars
    <3>1. CASE first \in 1..clock BY <3>1, <1>t DEF RateHolds
    <3>2. CASE first = clock + 1
      <4>1. AdmittedIn(first, first + WindowSize - MaxLag - 1) = {}
        BY <3>2, <1>t, <1>w DEF AdmittedIn, Timely, RateTypes
      <4> QED BY <4>1, <1>w, FS_EmptySet
    <3> QED BY <3>1, <3>2, <1>t DEF RateTypes
  <2>6. Attempted' BY <1>1, <1>t DEF Tick, Attempted, windowVars, callerVars
  <2>7. RetryAfterWorks' BY <1>1, CauseStays DEF Tick, RetryAfterWorks, callerVars
  <2> QED BY <2>1, <2>2, <2>3, <2>4, <2>5, <2>6, <2>7 DEF RateInv
<1>2. ASSUME NEW c \in Callers, ReadClock(c) PROVE RateInv'
  <2>0. verdict[c] = "none" BY <1>2, <1>t DEF ReadClock, Timely, RateTypes
  <2>1. RateTypes' BY <1>2, <1>t DEF ReadClock, RateTypes, windowVars
  <2>2. Timely' BY <1>2, <1>t, <1>w, <2>0 DEF ReadClock, Timely, Sent, RateTypes
  <2>3. KeyLives' BY <1>2, <1>t DEF ReadClock, KeyLives, windowVars
  <2>4. Counted' BY <1>2, <1>t, <2>0 DEF ReadClock, Counted, windowVars, RateTypes
  <2>5. \A first, last : AdmittedIn(first, last)' = AdmittedIn(first, last)
    BY <1>2, <1>t, <2>0 DEF ReadClock, AdmittedIn, RateTypes
  <2>6. RateHolds' BY <2>5, <1>2, <1>t DEF ReadClock, RateHolds
  <2>7. Attempted' BY <1>2, <1>t, <2>0 DEF ReadClock, Attempted, windowVars, RateTypes
  <2>8. RetryAfterWorks'
    <3> SUFFICES ASSUME NEW d \in Callers, verdict[d] = "429"
                 PROVE  Cardinality(Attempts(d)') >= RateLimit
      BY <1>2 DEF ReadClock, RetryAfterWorks
    <3>1. \A e \in Callers : verdict[e] # "none" => stamp'[e] = stamp[e] /\ verdict'[e] # "none"
      BY <1>2, <1>t, <2>0 DEF ReadClock, RateTypes
    <3> QED BY <3>1, CauseStays
  <2> QED BY <2>1, <2>2, <2>3, <2>4, <2>6, <2>7, <2>8 DEF RateInv
<1>3. ASSUME NEW c \in Callers, Sent(c), clock' = clock, stamp' = stamp, outages' \in Nat,
             NEW given \in {"none", "admitted", "429", "500"}, given # "none",
             verdict' = [verdict EXCEPT ![c] = given],
             members' = Trim(members, stamp[c]) \cup {[at |-> stamp[c], by |-> c]},
             deadline' = clock + WindowSize,
             given = "admitted" => Cardinality(members') <= RateLimit,
             given = "429" => Cardinality(members') > RateLimit
      PROVE  RateInv'
  <2>0. /\ stamp[c] \in Nat /\ stamp[c] <= clock /\ clock <= stamp[c] + MaxLag
        /\ verdict[c] = "none"
    BY <1>3, <1>t DEF Sent, Timely, RateTypes
  <2>1. RateTypes'
    <3>1. Trim(members, stamp[c]) \subseteq members BY DEF Trim
    <3>2. IsFiniteSet(Trim(members, stamp[c])) BY <3>1, <1>t, FS_Subset DEF RateTypes
    <3>3. IsFiniteSet(members') BY <3>2, <1>3, FS_AddElement
    <3> QED BY <3>1, <3>3, <2>0, <1>t, <1>w, <1>3 DEF RateTypes
  <2>2. Timely' BY <1>3, <1>t DEF Timely, Sent, RateTypes
  <2>3. KeyLives'
    <3> SUFFICES ASSUME NEW x \in members' PROVE x.at + WindowSize <= clock + WindowSize
      BY <1>3, <1>t, <1>w DEF KeyLives, RateTypes
    <3>1. CASE x = [at |-> stamp[c], by |-> c] BY <3>1, <2>0, <1>t, <1>w DEF RateTypes
    <3>2. CASE x \in members
      <4>1. /\ x.at + WindowSize <= deadline /\ deadline <= clock + WindowSize
            /\ deadline \in Nat /\ x.at \in Nat
        BY <3>2, <1>t DEF KeyLives, RateTypes
      <4> QED BY <4>1, <1>t, <1>w DEF RateTypes
    <3> QED BY <3>1, <3>2, <1>3 DEF Trim
  <2>4. Counted'
    <3> SUFFICES ASSUME NEW d \in Callers, verdict'[d] = "admitted",
                        stamp[d] + WindowSize > clock
                 PROVE  [at |-> stamp[d], by |-> d] \in members'
      BY <1>3 DEF Counted
    <3>1. CASE d = c BY <3>1, <1>3
    <3>2. CASE d # c
      <4>1. verdict[d] = "admitted" BY <3>2, <1>3, <1>t DEF RateTypes
      <4>2. [at |-> stamp[d], by |-> d] \in members BY <4>1, <1>t DEF Counted
      <4>3. stamp[d] \in Nat BY <4>1, <1>t DEF Timely, RateTypes
      <4>4. stamp[d] > stamp[c] - WindowSize BY <4>3, <2>0, <1>w, <1>t DEF RateTypes
      <4> QED BY <4>2, <4>4, <1>3 DEF Trim
    <3> QED BY <3>1, <3>2
  <2>5. RateHolds'
    <3> SUFFICES ASSUME NEW first \in 1..clock
                 PROVE  Cardinality(AdmittedIn(first, first + WindowSize - MaxLag - 1)')
                          <= RateLimit
      BY <1>3 DEF RateHolds, AdmittedIn
    <3> DEFINE end == first + WindowSize - MaxLag - 1
               S   == AdmittedIn(first, end)'
    <3>1. CASE given = "admitted" /\ stamp[c] \in first..end
      <4>1. ASSUME NEW d \in S PROVE [at |-> stamp[d], by |-> d] \in members'
        <5>1. verdict'[d] = "admitted" /\ d \in Callers /\ stamp[d] \in first..end
          BY <1>3 DEF AdmittedIn
        <5>2. stamp[d] + WindowSize > clock
          BY <5>1, <3>1, <2>0, <1>t, <1>w DEF RateTypes
        <5> QED BY <5>1, <5>2, <2>4, <1>3 DEF Counted
      <4> DEFINE f == [d \in S |-> [at |-> stamp[d], by |-> d]]
      <4>2. f \in [S -> members'] BY <4>1
      <4>3. \A d, e \in S : f[d] = f[e] => d = e OBVIOUS
      <4>4. S \in SUBSET Callers BY DEF AdmittedIn
      <4>5. IsFiniteSet(members') /\ members' \subseteq [at : Nat, by : Callers]
        BY <2>1 DEF RateTypes
      <4>6. Cardinality(members') \in Nat BY <4>5, FS_CardinalityType
      <4> HIDE DEF f, S
      <4>7. IsFiniteSet(S) /\ Cardinality(S) <= Cardinality(members')
        BY <4>2, <4>3, <4>4, <4>5, CountBounds
      <4>8. Cardinality(S) \in Nat BY <4>7, FS_CardinalityType
      <4> QED BY <4>6, <4>7, <4>8, <3>1, <1>3, <1>w DEF S
    <3>2. CASE ~(given = "admitted" /\ stamp[c] \in first..end)
      <4>1. S = AdmittedIn(first, end) BY <3>2, <2>0, <1>3, <1>t DEF AdmittedIn, RateTypes
      <4> QED BY <4>1, <1>t DEF RateHolds
    <3> QED BY <3>1, <3>2
  <2>6. Attempted'
    <3> SUFFICES ASSUME NEW x \in members' PROVE x.at = stamp[x.by] /\ verdict'[x.by] # "none"
      BY <1>3 DEF Attempted
    <3>1. CASE x = [at |-> stamp[c], by |-> c] BY <3>1, <1>3, <1>t DEF RateTypes
    <3>2. CASE x \in members BY <3>2, <1>3, <1>t DEF Attempted, RateTypes
    <3> QED BY <3>1, <3>2, <1>3 DEF Trim
  <2>7. \A d \in Callers : verdict[d] # "none" => stamp'[d] = stamp[d] /\ verdict'[d] # "none"
    BY <1>3, <1>t DEF RateTypes
  <2>8. ASSUME given = "429" PROVE Cardinality(Attempts(c)') >= RateLimit
    <3> DEFINE mine   == [at |-> stamp[c], by |-> c]
               others == members' \ {mine}
               f      == [x \in others |-> x.by]
    <3>1. IsFiniteSet(members') /\ members' \subseteq [at : Nat, by : Callers] /\ mine \in members'
      BY <2>1, <1>3 DEF RateTypes
    <3>2. IsFiniteSet(others) /\ Cardinality(others) = Cardinality(members') - 1
      BY <3>1, FS_RemoveElement
    <3>3. ASSUME NEW x \in others PROVE x.by \in Attempts(c)'
      <4>1. x \in members /\ x.at > stamp[c] - WindowSize BY <1>3 DEF Trim
      <4>2. x.by \in Callers /\ x.at = stamp[x.by] /\ verdict'[x.by] # "none"
        BY <4>1, <2>6, <1>3, <1>t DEF Attempted, RateTypes
      <4>3. x = [at |-> x.at, by |-> x.by] BY <4>1, <1>t DEF RateTypes
      <4>4. x.by # c BY <4>2, <4>3
      <4> QED BY <4>1, <4>2, <4>4, <1>3 DEF Attempts
    <3>4. \A x, y \in others : f[x] = f[y] => x = y
      <4> SUFFICES ASSUME NEW x \in others, NEW y \in others, x.by = y.by PROVE x = y
        OBVIOUS
      <4>1. x.at = stamp[x.by] /\ y.at = stamp[y.by] BY <2>6, <1>3 DEF Attempted
      <4>2. x = [at |-> x.at, by |-> x.by] /\ y = [at |-> y.at, by |-> y.by] BY <3>1
      <4> QED BY <4>1, <4>2
    <3>5. f \in [others -> Attempts(c)'] BY <3>3
    <3>6. IsFiniteSet(Attempts(c)')
      <4>1. Attempts(c)' \in SUBSET Callers BY DEF Attempts
      <4> QED BY <4>1, RateAssumption, FS_Subset
    <3> HIDE DEF f, others, mine
    <3>7. f \in Injection(others, Attempts(c)') BY <3>4, <3>5 DEF Injection, IsInjective
    <3>8. Cardinality(others) <= Cardinality(Attempts(c)') BY <3>6, <3>7, FS_Injection
    <3>9. /\ Cardinality(members') \in Nat /\ Cardinality(others) \in Nat
          /\ Cardinality(Attempts(c)') \in Nat
      BY <3>1, <3>2, <3>6, FS_CardinalityType
    <3> QED BY <3>2, <3>8, <3>9, <2>8, <1>3, <1>w
  <2>9. RetryAfterWorks'
    <3> SUFFICES ASSUME NEW d \in Callers, verdict'[d] = "429"
                 PROVE  Cardinality(Attempts(d)') >= RateLimit
      BY DEF RetryAfterWorks
    <3>1. CASE d = c BY <3>1, <2>8, <1>3, <1>t DEF RateTypes
    <3>2. CASE d # c
      <4>1. verdict[d] = "429" BY <3>2, <1>3, <1>t DEF RateTypes
      <4> QED BY <4>1, <2>7, CauseStays
    <3> QED BY <3>1, <3>2
  <2> QED BY <2>1, <2>2, <2>3, <2>4, <2>5, <2>6, <2>9 DEF RateInv
<1>4. ASSUME NEW c \in Callers, Pipeline(c) PROVE RateInv'
  <2> DEFINE kept   == Trim(members, stamp[c]) \cup {[at |-> stamp[c], by |-> c]}
             given == IF Cardinality(kept) > RateLimit THEN "429" ELSE "admitted"
  <2>1. IsFiniteSet(kept)
    <3>1. Trim(members, stamp[c]) \subseteq members BY DEF Trim
    <3>2. IsFiniteSet(Trim(members, stamp[c])) BY <3>1, <1>t, FS_Subset DEF RateTypes
    <3> QED BY <3>2, FS_AddElement
  <2>2. Cardinality(kept) \in Nat BY <2>1, FS_CardinalityType
  <2>3. /\ Sent(c) /\ clock' = clock /\ stamp' = stamp /\ outages' = outages
        /\ verdict' = [verdict EXCEPT ![c] = given]
        /\ members' = kept /\ deadline' = clock + WindowSize
    BY <1>4 DEF Pipeline
  <2>4. given = "admitted" => Cardinality(members') <= RateLimit BY <2>2, <2>3, <1>w
  <2>8. given = "429" => Cardinality(members') > RateLimit BY <2>2, <2>3, <1>w
  <2>5. given \in {"none", "admitted", "429", "500"} /\ given # "none" OBVIOUS
  <2>6. outages' \in Nat BY <2>3, <1>t DEF RateTypes
  <2>7. members' = Trim(members, stamp[c]) \cup {[at |-> stamp[c], by |-> c]} BY <2>3
  <2> HIDE DEF kept, given
  <2> QED BY <2>3, <2>4, <2>5, <2>6, <2>7, <2>8, <1>3
<1>5. ASSUME NEW c \in Callers, Outage(c) PROVE RateInv'
  <2>0. /\ Sent(c) /\ clock' = clock /\ stamp' = stamp /\ outages' \in Nat
        /\ verdict' = [verdict EXCEPT ![c] = "500"]
    BY <1>5, <1>t DEF Outage, RateTypes
  <2>1. CASE UNCHANGED windowVars
    <3>1. RateTypes' BY <2>0, <2>1, <1>t DEF RateTypes, windowVars
    <3>2. Timely' BY <2>0, <1>t DEF Timely, Sent, RateTypes
    <3>3. KeyLives' BY <2>0, <2>1, <1>t DEF KeyLives, windowVars
    <3>4. Counted' BY <2>0, <2>1, <1>t DEF Counted, windowVars, RateTypes
    <3>5. \A first, last : AdmittedIn(first, last)' = AdmittedIn(first, last)
      BY <2>0, <1>t DEF AdmittedIn, RateTypes, Sent
    <3>6. RateHolds' BY <3>5, <2>0, <1>t DEF RateHolds
    <3>7. Attempted' BY <2>0, <2>1, <1>t DEF Attempted, windowVars, RateTypes
    <3>8. \A d \in Callers : verdict[d] # "none" => stamp'[d] = stamp[d] /\ verdict'[d] # "none"
      BY <2>0, <1>t DEF RateTypes
    <3>9. RetryAfterWorks'
      <4> SUFFICES ASSUME NEW d \in Callers, verdict'[d] = "429"
                   PROVE  Cardinality(Attempts(d)') >= RateLimit
        BY DEF RetryAfterWorks
      <4>1. verdict[d] = "429" BY <2>0, <1>t DEF RateTypes
      <4> QED BY <4>1, <3>8, <2>0, CauseStays
    <3> QED BY <3>1, <3>2, <3>3, <3>4, <3>6, <3>7, <3>9 DEF RateInv
  <2>2. CASE /\ members' = Trim(members, stamp[c]) \cup {[at |-> stamp[c], by |-> c]}
             /\ deadline' = clock + WindowSize
    BY <2>0, <2>2, <1>3
  <2> QED BY <2>1, <2>2, <1>5 DEF Outage
<1>6. CASE UNCHANGED rateVars
  BY <1>6 DEF rateVars, windowVars, callerVars, RateInv, RateTypes, Timely, Sent, KeyLives,
     Counted, Attempted, RateHolds, AdmittedIn, RetryAfterWorks, Attempts
<1> QED BY <1>1, <1>2, <1>4, <1>5, <1>6 DEF RateNext

\* However callers interleave and whatever becomes of their pipelines, no stretch of time a
\* window long, less the lag of a timestamp, lets more than the limit in, and a refused caller
\* has as many attempts of others to blame.
THEOREM FairAdmission == RateSpec => []AdmissionIsFair
<1>1. RateInv => AdmissionIsFair BY DEF RateInv, AdmissionIsFair
<1> QED BY <1>1, InitRateInv, KeepsRateInv, PTL DEF RateSpec
=============================================================================
