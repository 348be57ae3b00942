-------------------------- MODULE TurnMachineProofs --------------------------
(***************************************************************************)
(* Type correctness and safety of TurnMachine, for every number of         *)
(* utterances, sentences and audio frames and every debounce: one turn in  *)
(* flight, the duck, the queue's owner, the frozen caption, the silence of *)
(* an interrupted turn and the order of the state frames.  The first needs *)
(* that no VAD hop is due in the loop tick in which a turn ends, and the   *)
(* others build on it.                                                     *)
(***************************************************************************)
EXTENDS TurnMachine, TLAPS

\* Utterances not yet spent: each confirmed utterance is open, queued,
\* waiting for its task's first step, or already a turn.
Bit(b) == IF b THEN 1 ELSE 0

Counting ==
    turnNo + Len(starting) + Bit(pending # None) + Bit(ep = "active") <= utt

TInv == TypeOK /\ Counting

-----------------------------------------------------------------------------
\* Becoming a record of the type keeps every turn of the type.
LEMMA BecomesType ==
    ASSUME turn \in [Turns -> TurnType], NEW t \in Turns, NEW r \in TurnType,
           Becomes(t, r)
    PROVE  turn' \in [Turns -> TurnType]
BY DEF Becomes

LEMMA NoTurnType == NoTurn \in TurnType
BY ConstantsAssumption DEF NoTurn, TurnType, None

LEMMA EndedType == ASSUME NEW r \in TurnType PROVE Ended(r) \in TurnType
<1>1. r.flags \cap {"interrupted"} \in SUBSET Flags
  BY DEF TurnType
<1>2. 0 \in Nat /\ 0 \in 0..MaxAudio /\ 0 \in 0..MaxSentences /\ None \in 0..MaxUtt
  BY ConstantsAssumption DEF None
<1>3. [r EXCEPT !.pc = "ended", !.utt = None, !.text = None] \in TurnType
  BY <1>2, Zenon DEF TurnType
<1>4. ASSUME NEW s \in TurnType
      PROVE  [s EXCEPT !.waiter = "none", !.base = 0] \in TurnType
  BY <1>2 DEF TurnType
<1> QED
  BY <1>1, <1>2, <1>3, <1>4, Zenon DEF Ended, TurnType

\* A turn that is live, or the open waiter's, has a number.
LEMMA SlotTypes ==
    ASSUME TInv
    PROVE  /\ Armed => current \in Turns
           /\ waiterOf # None => waiterOf \in Turns
BY DEF TInv, TypeOK, TurnsOK, Armed, Turns, None

LEMMA UttRange == ASSUME TInv PROVE utt \in Nat /\ utt <= MaxUtt /\ turnNo \in Nat
                                     /\ Len(starting) \in Nat
BY ConstantsAssumption DEF TInv, TypeOK, VadOK, TurnsOK

-----------------------------------------------------------------------------
LEMMA InitTInv == Init => TInv
<1> SUFFICES ASSUME Init PROVE TInv
  OBVIOUS
<1> USE ConstantsAssumption DEF Init, None
<1>1. VadOK /\ SttOK /\ WireOK /\ LifeOK /\ AudioOK
  BY DEF VadOK, SttOK, WireOK, LifeOK, AudioOK
<1>2. TurnsOK
  BY NoTurnType DEF TurnsOK
<1>3. FlagsOK
  BY DEF FlagsOK
<1>4. Counting
  BY DEF Counting, Bit
<1> QED
  BY <1>1, <1>2, <1>3, <1>4 DEF TInv, TypeOK

LEMMA VadTInv == TInv /\ VadLoop => TInv'
<1> SUFFICES ASSUME TInv, VadLoop PROVE TInv'
  OBVIOUS
<1> USE ConstantsAssumption DEF None
<1>1. CASE SpeechFrame
  <2> USE <1>1 DEF SpeechFrame
  <2>1. VadOK' /\ SttOK' /\ TurnsOK' /\ WireOK' /\ LifeOK'
    BY DEF TInv, TypeOK, VadOK, SttOK, TurnsOK, WireOK, LifeOK, sttVars, turnVars,
           wireVars, lifeVars
  <2>2. AudioOK'
    BY DEF TInv, TypeOK, AudioOK, DebounceTick
  <2>3. FlagsOK'
    BY DEF TInv, TypeOK, FlagsOK, Duck, turnVars, lifeVars
  <2>4. Counting'
    BY DEF TInv, TypeOK, Counting, Bit, VadOK, turnVars
  <2> QED BY <2>1, <2>2, <2>3, <2>4 DEF TInv, TypeOK
<1>2. CASE UtteranceOpens
  <2> USE <1>2 DEF UtteranceOpens, SpeechStart
  <2>1. VadOK' /\ SttOK' /\ TurnsOK' /\ WireOK' /\ LifeOK'
    BY DEF TInv, TypeOK, VadOK, SttOK, TurnsOK, WireOK, LifeOK, sttVars, turnVars,
           wireVars, lifeVars
  <2>2. AudioOK'
    BY DEF TInv, TypeOK, AudioOK, DebounceTick, audioVars
  <2>3. FlagsOK'
    BY DEF TInv, TypeOK, FlagsOK, turnVars, lifeVars, audioVars
  <2>4. Counting'
    BY UttRange DEF TInv, TypeOK, Counting, Bit, VadOK, turnVars
  <2> QED BY <2>1, <2>2, <2>3, <2>4 DEF TInv, TypeOK
<1>3. CASE BargeInCommits
  <2> USE <1>3 DEF BargeInCommits, SpeechStart
  <2>1. current \in Turns
    BY SlotTypes
  <2>2. VadOK' /\ SttOK' /\ LifeOK'
    BY DEF TInv, TypeOK, VadOK, SttOK, LifeOK, sttVars, lifeVars
  <2>3. AudioOK'
    BY DEF TInv, TypeOK, AudioOK, Flush
  <2>4. FlagsOK'
    BY DEF TInv, TypeOK, FlagsOK, Unduck, lifeVars
  <2>5. WireOK'
    <3>1. PlayedSince(current) \in Int
      BY <2>1, SMTT(20) DEF TInv, TypeOK, AudioOK, TurnsOK, TurnType, PlayedSince
    <3>2. captions' \in [Turns -> Seq(Int)]
      BY <2>1, <3>1 DEF TInv, TypeOK, WireOK
    <3>3. wire' \in [state : {"listening", "thinking", "speaking"}, turn : 0..MaxUtt]
      BY <2>1 DEF TInv, TypeOK, TurnsOK
    <3> QED BY <3>2, <3>3 DEF WireOK
  <2>6. TurnsOK'
    <3> DEFINE f == turn[current].flags
                 \cup {"interrupted", "final_sent", "listening_sent"}
                 \cup (IF TaskRunning(current) THEN {"cancelling"} ELSE {})
    <3>1. turn[current] \in TurnType
      BY <2>1 DEF TInv, TypeOK, TurnsOK
    <3>2. f \in SUBSET Flags
      BY <3>1 DEF TurnType, Flags
    <3>3. Becomes(current, [turn[current] EXCEPT !.flags = f])
      OBVIOUS
    <3> HIDE DEF f
    <3>4. [turn[current] EXCEPT !.flags = f] \in TurnType
      BY <3>1, <3>2 DEF TurnType
    <3>5. turn' \in [Turns -> TurnType]
      BY <2>1, <3>3, <3>4, BecomesType DEF TInv, TypeOK, TurnsOK
    <3> QED BY <3>5 DEF TInv, TypeOK, TurnsOK
  <2>7. Counting'
    BY UttRange DEF TInv, TypeOK, Counting, Bit, VadOK
  <2> QED BY <2>2, <2>3, <2>4, <2>5, <2>6, <2>7 DEF TInv, TypeOK
<1>4. CASE SilenceFrame
  <2> USE <1>4 DEF SilenceFrame, SilenceUnducks
  <2>1. VadOK' /\ SttOK' /\ TurnsOK' /\ WireOK' /\ LifeOK'
    BY DEF TInv, TypeOK, VadOK, SttOK, TurnsOK, WireOK, LifeOK, sttVars, turnVars,
           wireVars, lifeVars
  <2>2. AudioOK'
    BY DEF TInv, TypeOK, AudioOK, DebounceTick
  <2>3. FlagsOK'
    BY DEF TInv, TypeOK, FlagsOK, Unduck, turnVars, lifeVars
  <2>4. Counting'
    BY DEF TInv, TypeOK, Counting, Bit, VadOK, turnVars
  <2> QED BY <2>1, <2>2, <2>3, <2>4 DEF TInv, TypeOK
<1>5. CASE UtteranceSuppressed
  <2> USE <1>5 DEF UtteranceSuppressed, Closes, SilenceUnducks
  <2>1. VadOK' /\ SttOK' /\ TurnsOK' /\ WireOK' /\ LifeOK'
    BY DEF TInv, TypeOK, VadOK, SttOK, TurnsOK, WireOK, LifeOK, sttVars, turnVars,
           wireVars, lifeVars
  <2>2. AudioOK'
    BY DEF TInv, TypeOK, AudioOK, DebounceTick
  <2>3. FlagsOK'
    BY DEF TInv, TypeOK, FlagsOK, Unduck, turnVars, lifeVars
  <2>4. Counting'
    BY UttRange DEF TInv, TypeOK, Counting, Bit, VadOK, turnVars
  <2> QED BY <2>1, <2>2, <2>3, <2>4 DEF TInv, TypeOK
<1>6. CASE EndpointFires
  <2> USE <1>6 DEF EndpointFires, Closes, SilenceUnducks, OnEndpoint
  <2>1. VadOK' /\ SttOK' /\ WireOK' /\ LifeOK'
    BY DEF TInv, TypeOK, VadOK, SttOK, WireOK, LifeOK, sttVars, wireVars, lifeVars
  <2>2. AudioOK'
    BY DEF TInv, TypeOK, AudioOK, DebounceTick
  <2>3. FlagsOK'
    BY DEF TInv, TypeOK, FlagsOK, Unduck, lifeVars
  <2>4. utt \in Utts
    BY UttRange DEF TInv, Counting, Bit, Utts
  <2>5. TurnsOK'
    <3>1. starting' \in Seq(Utts)
      BY <2>4 DEF TInv, TypeOK, TurnsOK
    <3>2. pending' \in 0..MaxUtt
      BY <2>4 DEF TInv, TypeOK, TurnsOK, Utts
    <3> QED BY <3>1, <3>2 DEF TInv, TypeOK, TurnsOK
  <2>6. Counting'
    BY <2>4, UttRange DEF TInv, TypeOK, Counting, Bit, VadOK, TurnsOK
  <2> QED BY <2>1, <2>2, <2>3, <2>5, <2>6 DEF TInv, TypeOK
<1> QED
  BY <1>1, <1>2, <1>3, <1>4, <1>5, <1>6 DEF VadLoop

LEMMA SttTInv == TInv /\ SttLoop => TInv'
<1> SUFFICES ASSUME TInv, SttLoop PROVE TInv'
  OBVIOUS
<1> USE ConstantsAssumption DEF None
<1>0. ASSUME OnPartial
      PROVE  /\ VadOK' /\ worded' \in BOOLEAN
             /\ ep' = ep /\ utt' = utt
  BY <1>0 DEF OnPartial, TInv, TypeOK, VadOK
<1>1. CASE SttPartial
  <2> USE <1>1 DEF SttPartial
  <2>1. VadOK' /\ ep' = ep /\ utt' = utt /\ worded' \in BOOLEAN
    BY <1>0
  <2>2. SttOK'
    BY UttRange DEF TInv, TypeOK, SttOK
  <2>3. TurnsOK' /\ AudioOK' /\ WireOK' /\ LifeOK'
    BY DEF TInv, TypeOK, TurnsOK, AudioOK, WireOK, LifeOK, turnVars, audioVars,
           bargeVars, wireVars, lifeVars
  <2>4. FlagsOK'
    BY <2>1 DEF TInv, TypeOK, FlagsOK, turnVars, audioVars, bargeVars, lifeVars
  <2>5. Counting'
    BY <2>1 DEF TInv, Counting, Bit, turnVars
  <2> QED BY <2>1, <2>2, <2>3, <2>4, <2>5 DEF TInv, TypeOK
<1>2. CASE SttFinal
  <2> USE <1>2 DEF SttFinal
  <2>1. VadOK' /\ ep' = ep /\ utt' = utt /\ worded' \in BOOLEAN
    BY <1>0
  <2>2. sttNext \in 0..MaxUtt
    BY UttRange DEF TInv, TypeOK, SttOK
  <2>3. SttOK'
    BY <2>2 DEF TInv, TypeOK, SttOK
  <2>4. TurnsOK'
    <3>1. turn' \in [Turns -> TurnType]
      <4>1. CASE waiterOf # None /\ turn[waiterOf].waiter = "open"
        <5>1. waiterOf \in Turns /\ turn[waiterOf] \in TurnType
          BY <4>1, SlotTypes DEF TInv, TypeOK, TurnsOK
        <5>2. [turn[waiterOf] EXCEPT !.waiter = "result", !.text = sttNext] \in TurnType
          BY <5>1, <2>2, Zenon DEF TurnType
        <5> QED BY <4>1, <5>1, <5>2, BecomesType DEF TInv, TypeOK, TurnsOK
      <4>2. CASE ~(waiterOf # None /\ turn[waiterOf].waiter = "open")
        BY <4>2 DEF TInv, TypeOK, TurnsOK
      <4> QED BY <4>1, <4>2
    <3> QED BY <3>1 DEF TInv, TypeOK, TurnsOK
  <2>5. AudioOK' /\ WireOK' /\ LifeOK'
    BY DEF TInv, TypeOK, AudioOK, WireOK, LifeOK, audioVars, bargeVars, wireVars, lifeVars
  <2>6. FlagsOK'
    BY <2>1 DEF TInv, TypeOK, FlagsOK, audioVars, bargeVars, lifeVars
  <2>7. Counting'
    BY <2>1 DEF TInv, Counting, Bit
  <2> QED BY <2>1, <2>3, <2>4, <2>5, <2>6, <2>7 DEF TInv, TypeOK
<1>3. CASE SttStreamDies
  <2> USE <1>3 DEF SttStreamDies
  <2>1. SttOK'
    <3>1. sttNext' \in 1..(MaxUtt + 1)
      BY UttRange DEF TInv, TypeOK, SttOK
    <3> QED BY <3>1 DEF TInv, TypeOK, SttOK
  <2>2. TurnsOK'
    <3>1. turn' \in [Turns -> TurnType]
      <4>1. CASE waiterOf # None /\ turn[waiterOf].waiter = "open"
        <5>1. waiterOf \in Turns /\ turn[waiterOf] \in TurnType
          BY <4>1, SlotTypes DEF TInv, TypeOK, TurnsOK
        <5>2. [turn[waiterOf] EXCEPT !.waiter = "died"] \in TurnType
          BY <5>1 DEF TurnType
        <5> QED BY <4>1, <5>1, <5>2, BecomesType DEF TInv, TypeOK, TurnsOK
      <4>2. CASE ~(waiterOf # None /\ turn[waiterOf].waiter = "open")
        BY <4>2 DEF TInv, TypeOK, TurnsOK
      <4> QED BY <4>1, <4>2
    <3> QED BY <3>1 DEF TInv, TypeOK, TurnsOK
  <2>3. VadOK' /\ AudioOK' /\ WireOK'
    BY DEF TInv, TypeOK, VadOK, AudioOK, WireOK, vadVars, audioVars, bargeVars, wireVars
  <2>4. LifeOK'
    BY DEF TInv, TypeOK, LifeOK
  <2>5. FlagsOK'
    BY DEF TInv, TypeOK, FlagsOK, vadVars, audioVars, bargeVars
  <2>6. Counting'
    BY DEF TInv, Counting, Bit, vadVars
  <2> QED BY <2>1, <2>2, <2>3, <2>4, <2>5, <2>6 DEF TInv, TypeOK
<1> QED
  BY <1>1, <1>2, <1>3 DEF SttLoop

LEMMA BeginsTInv == TInv /\ TurnBegins => TInv'
<1> SUFFICES ASSUME TInv, TurnBegins PROVE TInv'
  OBVIOUS
<1> USE ConstantsAssumption DEF None
<1>1. /\ starting # <<>> /\ starting \in Seq(Utts)
      /\ Head(starting) \in Utts /\ starting' = Tail(starting)
      /\ Len(starting') = Len(starting) - 1 /\ starting' \in Seq(Utts)
  BY DEF TurnBegins, TInv, TypeOK, TurnsOK
<1>2. turnNo' = turnNo + 1 /\ turnNo' \in Turns /\ current' = turnNo'
  <2>1. Len(starting) \in Nat \ {0}
    BY <1>1
  <2>2. Bit(pending # None) \in Nat /\ Bit(ep = "active") \in Nat
    BY DEF Bit
  <2> QED BY <2>1, <2>2, UttRange DEF TurnBegins, TInv, Counting, Turns
<1>3. VadOK' /\ AudioOK' /\ LifeOK'
  BY DEF TurnBegins, TInv, TypeOK, VadOK, AudioOK, LifeOK, vadVars, audioVars,
         bargeVars, lifeVars
<1>4. SttOK'
  BY DEF TurnBegins, TInv, TypeOK, SttOK
<1>5. WireOK'
  BY <1>2 DEF TurnBegins, TInv, TypeOK, WireOK, Turns
<1>6. FlagsOK'
  BY DEF TurnBegins, TInv, TypeOK, FlagsOK, vadVars, audioVars, bargeVars, lifeVars
<1>7. TurnsOK'
  <2>0. Head(starting) \in 0..MaxUtt /\ played \in Nat /\ pendingFinal \in 0..MaxUtt
    BY <1>1 DEF TInv, TypeOK, AudioOK, SttOK, Utts
  <2>1. ASSUME NEW pc \in {"final", "brain"}, NEW text \in 0..MaxUtt,
               NEW waiter \in {"none", "open"}
        PROVE  Opened(pc, text, waiter) \in TurnType
    BY <2>0 DEF Opened, TurnType
  <2>2. turn' \in [Turns -> TurnType]
    <3>1. CASE pendingFinal # None
      <4>1. Opened("brain", pendingFinal, "none") \in TurnType
        BY <2>0, <2>1
      <4> QED BY <3>1, <4>1, <1>2, BecomesType DEF TurnBegins, TInv, TypeOK, TurnsOK
    <3>2. CASE pendingFinal = None
      <4>1. Opened("final", None, "open") \in TurnType
        BY <2>1
      <4> QED BY <3>2, <4>1, <1>2, BecomesType DEF TurnBegins, TInv, TypeOK, TurnsOK
    <3> QED BY <3>1, <3>2
  <2>3. waiterOf' \in 0..MaxUtt
    BY <1>2 DEF TurnBegins, TInv, TypeOK, TurnsOK, Turns
  <2>4. turnNo' \in 0..MaxUtt /\ current' \in 0..MaxUtt /\ pending' \in 0..MaxUtt
    BY <1>2 DEF TurnBegins, TInv, TypeOK, TurnsOK, Turns
  <2> QED BY <1>1, <2>2, <2>3, <2>4 DEF TurnsOK
<1>8. Counting'
  BY <1>1, <1>2, UttRange DEF TurnBegins, TInv, Counting, Bit, vadVars
<1> QED BY <1>3, <1>4, <1>5, <1>6, <1>7, <1>8 DEF TInv, TypeOK

\* A step that rewrites one turn's record and may close the waiter.
LEMMA QuietTInv ==
    ASSUME TInv, NEW t \in Turns, NEW r \in TurnType, Becomes(t, r),
           waiterOf' \in {waiterOf, None},
           UNCHANGED <<vadVars, sttVars, turnNo, current, pending, starting, hopDue,
                       audioVars, bargeVars, wireVars, lifeVars>>
    PROVE  TInv'
<1>1. turn' \in [Turns -> TurnType]
  BY BecomesType DEF TInv, TypeOK, TurnsOK
<1>2. waiterOf' \in 0..MaxUtt
  BY ConstantsAssumption DEF TInv, TypeOK, TurnsOK, None
<1>3. VadOK' /\ SttOK' /\ TurnsOK' /\ AudioOK' /\ WireOK' /\ LifeOK'
  BY <1>1, <1>2 DEF TInv, TypeOK, VadOK, SttOK, TurnsOK, AudioOK, WireOK, LifeOK,
     vadVars, sttVars, audioVars, bargeVars, wireVars, lifeVars
<1>4. FlagsOK'
  BY DEF TInv, TypeOK, FlagsOK, vadVars, audioVars, bargeVars, lifeVars
<1>5. Counting'
  BY DEF TInv, Counting, Bit, vadVars
<1> QED BY <1>3, <1>4, <1>5 DEF TInv, TypeOK

\* The parts of a turn's finally that the two ways to reach it share.
LEMMA FinallyTInv ==
    ASSUME TInv, NEW t \in Turns, Finally(t), waiterOf' \in {waiterOf, None}
    PROVE  TInv'
<1> USE ConstantsAssumption DEF None
<1>1. VadOK' /\ SttOK' /\ LifeOK'
  BY DEF Finally, TInv, TypeOK, VadOK, SttOK, LifeOK, vadVars, sttVars
<1>2. AudioOK'
  BY DEF Finally, TInv, TypeOK, AudioOK
<1>3. FlagsOK'
  <2>1. ducked' \in BOOLEAN /\ paused' \in BOOLEAN
    BY DEF Finally, SafetyNet, Unduck, TInv, TypeOK, FlagsOK
  <2>2. hopDue' \in BOOLEAN
    BY DEF Finally
  <2>3. errors' \in BOOLEAN /\ crashed' \in BOOLEAN /\ worded' \in BOOLEAN
    BY DEF Finally, TInv, TypeOK, FlagsOK, vadVars
  <2> QED BY <2>1, <2>2, <2>3 DEF FlagsOK
<1>4. WireOK'
  BY DEF Finally, SaysListening, TInv, TypeOK, WireOK, Turns
<1>5. TurnsOK'
  <2>1. Ended(turn[t]) \in TurnType
    BY EndedType DEF TInv, TypeOK, TurnsOK
  <2>2. turn' \in [Turns -> TurnType]
    BY <2>1, BecomesType DEF Finally, TInv, TypeOK, TurnsOK
  <2>3. starting' \in Seq(Utts)
    <3>1. pending # None => pending \in Utts
      BY DEF TInv, TypeOK, TurnsOK, Utts
    <3>2. starting \in Seq(Utts)
      BY DEF TInv, TypeOK, TurnsOK
    <3>3. starting' = starting \/ (pending # None /\ starting' = Append(starting, pending))
      BY DEF Finally
    <3> QED BY <3>1, <3>2, <3>3
  <2> QED BY <2>2, <2>3 DEF Finally, TInv, TypeOK, TurnsOK
<1>6. Counting'
  <2>1. Len(starting') + Bit(pending' # None) <= Len(starting) + Bit(pending # None)
    BY DEF Finally, Bit, TInv, TypeOK, TurnsOK
  <2>2. Len(starting') \in Nat /\ Bit(pending' # None) \in Nat /\ Bit(pending # None) \in Nat
    BY <1>5 DEF Bit, TurnsOK
  <2> QED BY <2>1, <2>2, UttRange DEF Finally, Bit, TInv, Counting, vadVars
<1> QED BY <1>1, <1>2, <1>3, <1>4, <1>5, <1>6 DEF TInv, TypeOK

LEMMA TurnTInv == ASSUME TInv, NEW t \in Turns, TurnTask(t) PROVE TInv'
<1> USE ConstantsAssumption DEF None
<1>0. turn[t] \in TurnType
  BY DEF TInv, TypeOK, TurnsOK
<1>1. CASE FinalTimesOut(t)
  <2>1. [turn[t] EXCEPT !.waiter = "expired"] \in TurnType
    BY <1>0 DEF TurnType
  <2> QED BY <1>1, <2>1, QuietTInv DEF FinalTimesOut
<1>2. CASE FinalCollected(t)
  <2> DEFINE text == IF turn[t].waiter = "result" THEN turn[t].text ELSE latestPartial
  <2>1. text \in 0..MaxUtt
    BY <1>0 DEF TurnType, TInv, TypeOK, SttOK
  <2>2. Becomes(t, [turn[t] EXCEPT !.pc = "brain", !.waiter = "none", !.text = text])
    BY <1>2 DEF FinalCollected
  <2> HIDE DEF text
  <2>3. [turn[t] EXCEPT !.pc = "brain", !.waiter = "none", !.text = text] \in TurnType
    BY <1>0, <2>1, Zenon DEF TurnType
  <2> QED BY <1>2, <2>2, <2>3, QuietTInv DEF FinalCollected
<1>3. ASSUME NEW n \in 0..MaxSentences, StartSpeaking(t, n),
             waiterOf' \in {waiterOf, None},
             UNCHANGED <<vadVars, sttVars, turnNo, current, pending, starting, hopDue,
                         audioVars, bargeVars, wireVars, lifeVars>>
      PROVE  TInv'
  <2>1. [turn[t] EXCEPT !.pc = "speak", !.waiter = "none", !.task = "created", !.left = n]
          \in TurnType
    BY <1>0, Zenon DEF TurnType
  <2> QED BY <1>3, <2>1, QuietTInv DEF StartSpeaking
<1>4. CASE Reask(t)
  <2>1. 1 \in 0..MaxSentences
    OBVIOUS
  <2> QED BY <1>3, <1>4, <2>1 DEF Reask
<1>5. CASE BrainReplies(t)
  BY <1>3, <1>5 DEF BrainReplies
<1>6. CASE TurnEnds(t)
  BY <1>6, FinallyTInv DEF TurnEnds
<1>7. CASE TurnAborted(t)
  BY <1>7, FinallyTInv DEF TurnAborted
<1> QED
  BY <1>1, <1>2, <1>4, <1>5, <1>6, <1>7 DEF TurnTask

LEMMA SpeakTInv == ASSUME TInv, NEW t \in Turns, SpeakTask(t) PROVE TInv'
<1> USE ConstantsAssumption DEF None
<1>0. turn[t] \in TurnType
  BY DEF TInv, TypeOK, TurnsOK
<1>1. CASE SentenceDispatched(t)
  <2>1. turn[t].left - 1 \in 0..MaxSentences
    BY <1>0, <1>1 DEF SentenceDispatched, TurnType
  <2>2. [turn[t] EXCEPT !.task = "synth", !.left = turn[t].left - 1] \in TurnType
    BY <1>0, <2>1, Zenon DEF TurnType
  <2> QED BY <1>1, <2>2, QuietTInv DEF SentenceDispatched
<1>2. CASE ChunkArrives(t)
  <2> DEFINE f == turn[t].flags \cup {"speaking"}
             a == turn[t].audio + 1
  <2>1. f \in SUBSET Flags
    BY <1>0 DEF TurnType, Flags
  <2>2. a \in 0..MaxAudio
    BY <1>0, <1>2, SMTT(20) DEF ChunkArrives, TurnType
  <2>3. Becomes(t, [turn[t] EXCEPT !.audio = a, !.flags = f])
    BY <1>2 DEF ChunkArrives
  <2> HIDE DEF f, a
  <2>4. [turn[t] EXCEPT !.audio = a, !.flags = f] \in TurnType
    BY <1>0, <2>1, <2>2, Zenon DEF TurnType
  <2>5. TurnsOK'
    BY <1>2, <2>3, <2>4, BecomesType DEF ChunkArrives, TInv, TypeOK, TurnsOK
  <2>6. VadOK' /\ SttOK' /\ LifeOK'
    BY <1>2 DEF ChunkArrives, TInv, TypeOK, VadOK, SttOK, LifeOK, vadVars, sttVars,
                lifeVars
  <2>7. AudioOK'
    BY <1>2 DEF ChunkArrives, TInv, TypeOK, AudioOK, bargeVars
  <2>8. WireOK'
    BY <1>2 DEF ChunkArrives, TInv, TypeOK, WireOK, Turns
  <2>9. FlagsOK'
    BY <1>2 DEF ChunkArrives, TInv, TypeOK, FlagsOK, vadVars, bargeVars, lifeVars
  <2>10. Counting'
    BY <1>2 DEF ChunkArrives, TInv, Counting, Bit, vadVars
  <2> QED BY <2>5, <2>6, <2>7, <2>8, <2>9, <2>10 DEF TInv, TypeOK
<1>3. CASE SynthesisEnds(t)
  <2>1. [turn[t] EXCEPT !.task = "playout"] \in TurnType
    BY <1>0 DEF TurnType
  <2> QED BY <1>3, <2>1, QuietTInv DEF SynthesisEnds
<1>4. CASE PlayoutEnds(t)
  <2> DEFINE f == turn[t].flags \cup {"final_sent"}
  <2>1. f \in SUBSET Flags
    BY <1>0 DEF TurnType, Flags
  <2>2. Becomes(t, [turn[t] EXCEPT !.task = "done", !.flags = f])
    BY <1>4 DEF PlayoutEnds
  <2> HIDE DEF f
  <2>3. [turn[t] EXCEPT !.task = "done", !.flags = f] \in TurnType
    BY <1>0, <2>1, Zenon DEF TurnType
  <2>4. TurnsOK'
    BY <1>4, <2>2, <2>3, BecomesType DEF PlayoutEnds, TInv, TypeOK, TurnsOK
  <2>5. VadOK' /\ SttOK' /\ AudioOK' /\ LifeOK'
    BY <1>4 DEF PlayoutEnds, TInv, TypeOK, VadOK, SttOK, AudioOK, LifeOK, vadVars,
                sttVars, audioVars, bargeVars, lifeVars
  <2>6. WireOK'
    <3>1. turn[t].audio \in Int
      BY <1>0 DEF TurnType
    <3>2. captions' \in [Turns -> Seq(Int)]
      <4>1. captions \in [Turns -> Seq(Int)]
        BY DEF TInv, TypeOK, WireOK
      <4>2. Append(captions[t], turn[t].audio) \in Seq(Int)
        BY <3>1, <4>1
      <4> QED BY <1>4, <4>1, <4>2 DEF PlayoutEnds
    <3> QED BY <1>4, <3>2 DEF PlayoutEnds, TInv, TypeOK, WireOK
  <2>7. FlagsOK'
    BY <1>4 DEF PlayoutEnds, TInv, TypeOK, FlagsOK, vadVars, audioVars, bargeVars, lifeVars
  <2>8. Counting'
    BY <1>4 DEF PlayoutEnds, TInv, Counting, Bit, vadVars
  <2> QED BY <2>4, <2>5, <2>6, <2>7, <2>8 DEF TInv, TypeOK
<1>5. CASE SpeakCancelled(t)
  <2>1. [turn[t] EXCEPT !.task = "cancelled"] \in TurnType
    BY <1>0 DEF TurnType
  <2> QED BY <1>5, <2>1, QuietTInv DEF SpeakCancelled
<1> QED
  BY <1>1, <1>2, <1>3, <1>4, <1>5 DEF SpeakTask

\* The pacer and the steps of run() and its task group.
RunStep ==
    \/ FramePlayed \/ HangUp \/ CloseTimesOut \/ LoopCrashes \/ GroupEnds
    \/ \E l \in {"vad", "stt"} : LoopEnds(l)

\* Every child of the group is cancelled: the turns keep their type.
LEMMA CancelsType ==
    ASSUME turn \in [Turns -> TurnType], CancelsSpeaking
    PROVE  turn' \in [Turns -> TurnType]
<1>1. ASSUME NEW t \in Turns
      PROVE  [turn[t] EXCEPT !.flags = @ \cup {"cancelling"}] \in TurnType
  <2> DEFINE f == turn[t].flags \cup {"cancelling"}
  <2>1. turn[t] \in TurnType
    OBVIOUS
  <2>2. f \in SUBSET Flags
    BY <2>1 DEF TurnType, Flags
  <2> HIDE DEF f
  <2>3. [turn[t] EXCEPT !.flags = f] \in TurnType
    BY <2>1, <2>2 DEF TurnType
  <2> QED BY <2>3 DEF f
<1> QED BY <1>1, Zenon DEF CancelsSpeaking

LEMMA RunTInv == TInv /\ RunStep => TInv'
<1> SUFFICES ASSUME TInv, RunStep PROVE TInv'
  OBVIOUS
<1> USE ConstantsAssumption DEF None
<1>1. CASE FramePlayed
  <2>1. VadOK' /\ SttOK' /\ TurnsOK' /\ WireOK' /\ LifeOK'
    BY <1>1 DEF FramePlayed, TInv, TypeOK, VadOK, SttOK, TurnsOK, WireOK, LifeOK,
                vadVars, sttVars, turnVars, wireVars, lifeVars
  <2>2. AudioOK'
    <3>1. Head(queue) \in Turns /\ queue' \in Seq(Turns)
      BY <1>1 DEF FramePlayed, TInv, TypeOK, AudioOK
    <3>2. heard' \in [Turns -> Nat]
      BY <1>1, <3>1 DEF FramePlayed, TInv, TypeOK, AudioOK
    <3> QED BY <1>1, <3>1, <3>2 DEF FramePlayed, TInv, TypeOK, AudioOK, bargeVars
  <2>3. FlagsOK'
    BY <1>1 DEF FramePlayed, TInv, TypeOK, FlagsOK, vadVars, turnVars, bargeVars, lifeVars
  <2>4. Counting'
    BY <1>1 DEF FramePlayed, TInv, Counting, Bit, vadVars, turnVars
  <2> QED BY <2>1, <2>2, <2>3, <2>4 DEF TInv, TypeOK
<1>2. ASSUME UNCHANGED <<vadVars, sttVars, turnVars, audioVars, bargeVars, wireVars>>,
             LifeOK', errors' = errors, crashed' = crashed
      PROVE  TInv'
  <2>1. VadOK' /\ SttOK' /\ TurnsOK' /\ AudioOK' /\ WireOK'
    BY <1>2 DEF TInv, TypeOK, VadOK, SttOK, TurnsOK, AudioOK, WireOK, vadVars, sttVars,
                turnVars, audioVars, bargeVars, wireVars
  <2>2. FlagsOK'
    BY <1>2 DEF TInv, TypeOK, FlagsOK, vadVars, turnVars, audioVars, bargeVars
  <2>3. Counting'
    BY <1>2 DEF TInv, Counting, Bit, vadVars, turnVars
  <2> QED BY <1>2, <2>1, <2>2, <2>3 DEF TInv, TypeOK
<1>3. CASE HangUp
  <2>1. LifeOK'
    BY <1>3 DEF HangUp, TInv, TypeOK, LifeOK
  <2> QED BY <1>2, <1>3, <2>1 DEF HangUp
<1>4. CASE \E l \in {"vad", "stt"} : LoopEnds(l)
  <2>1. LifeOK'
    BY <1>4 DEF LoopEnds, TInv, TypeOK, LifeOK
  <2> QED BY <1>2, <1>4, <2>1 DEF LoopEnds
<1>5. CASE GroupEnds
  <2>1. LifeOK'
    BY <1>5 DEF GroupEnds, TInv, TypeOK, LifeOK
  <2> QED BY <1>2, <1>5, <2>1 DEF GroupEnds
<1>6. ASSUME Abort, crashed' \in BOOLEAN PROVE TInv'
  <2>1. turn' \in [Turns -> TurnType]
    BY <1>6, CancelsType DEF Abort, TInv, TypeOK, TurnsOK
  <2>2. starting' \in Seq(Utts) /\ Len(starting') = 0
    BY <1>6 DEF Abort
  <2>3. TurnsOK'
    BY <1>6, <2>1, <2>2 DEF Abort, TInv, TypeOK, TurnsOK
  <2>4. VadOK' /\ SttOK' /\ AudioOK' /\ WireOK'
    BY <1>6 DEF Abort, TInv, TypeOK, VadOK, SttOK, AudioOK, WireOK, vadVars, sttVars,
                audioVars, bargeVars, wireVars
  <2>5. LifeOK'
    BY <1>6 DEF Abort, LifeOK
  <2>6. FlagsOK'
    BY <1>6 DEF Abort, TInv, TypeOK, FlagsOK, vadVars, audioVars, bargeVars
  <2>7. Counting'
    BY <1>6, <2>2, UttRange DEF Abort, TInv, Counting, Bit, vadVars
  <2> QED BY <2>3, <2>4, <2>5, <2>6, <2>7 DEF TInv, TypeOK
<1>7. crashed \in BOOLEAN
  BY DEF TInv, TypeOK, FlagsOK
<1>8. CASE CloseTimesOut
  BY <1>6, <1>7, <1>8 DEF CloseTimesOut
<1>9. CASE LoopCrashes
  BY <1>6, <1>9 DEF LoopCrashes
<1> QED
  BY <1>1, <1>3, <1>4, <1>5, <1>8, <1>9 DEF RunStep

LEMMA StutterTInv == TInv /\ UNCHANGED vars => TInv'
<1> SUFFICES ASSUME TInv, UNCHANGED vars PROVE TInv'
  OBVIOUS
<1>1. VadOK' /\ SttOK' /\ TurnsOK' /\ AudioOK' /\ WireOK' /\ LifeOK'
  BY DEF vars, TInv, TypeOK, VadOK, SttOK, TurnsOK, AudioOK, WireOK, LifeOK, vadVars,
         sttVars, turnVars, audioVars, bargeVars, wireVars, lifeVars
<1>2. FlagsOK'
  BY DEF vars, TInv, TypeOK, FlagsOK, vadVars, turnVars, audioVars, bargeVars, lifeVars
<1>3. Counting'
  BY DEF vars, TInv, Counting, Bit, vadVars, turnVars
<1> QED BY <1>1, <1>2, <1>3 DEF TInv, TypeOK

\* How the proofs split a step.
LEMMA NextCases ==
    [Next]_vars <=>
        \/ VadLoop \/ SttLoop \/ TurnBegins \/ RunStep
        \/ \E t \in Turns : TurnTask(t) \/ SpeakTask(t)
        \/ Terminated \/ UNCHANGED vars
BY DEF Next, RunStep

LEMMA NextTInv == TInv /\ [Next]_vars => TInv'
BY VadTInv, SttTInv, BeginsTInv, TurnTInv, SpeakTInv, RunTInv, StutterTInv, NextCases
   DEF Terminated

\* No counter of a call leaves its range: in particular there are never more
\* turns than utterances, so a turn's number always indexes the turn tables.
THEOREM TypeCorrect == Spec => []TypeOK
<1>1. TInv => TypeOK
  BY DEF TInv
<1> QED BY InitTInv, NextTInv, <1>1, PTL DEF Spec

LEMMA AlwaysTInv == Spec => []TInv
BY InitTInv, NextTInv, PTL DEF Spec

-----------------------------------------------------------------------------
(* Safety.                                                                 *)

Alive == life \in {"running", "draining"}

\* A turn's record before its number is given out.
FreshTurn(t) == turn[t].pc = "none" /\ heard[t] = 0 /\ captions[t] = <<>>

\* The slot: the current turn is the one live turn, and a created task finds
\* the slot free.
Slot ==
    /\ hopDue = FALSE
    /\ current # None => current \in Live
    /\ Live \subseteq {current}
    /\ Len(starting) <= 1
    /\ starting # <<>> => current = None

SlotInv == TInv /\ Slot

\* Nothing is started once the group aborts.
Stopped ==
    /\ ~Alive => starting = <<>> /\ loops = {}
    /\ RunReturned => current = None

\* How far a turn's speaking subtask may be.
TaskOK ==
    \A t \in Turns :
        /\ turn[t].pc \in {"none", "final", "brain"} => turn[t].task = "none"
        /\ turn[t].pc = "speak" => turn[t].task # "none"
        /\ turn[t].pc \in {"none", "final", "brain"} => turn[t].flags = {}
        /\ Has(t, "interrupted") /\ TaskRunning(t) => Has(t, "cancelling")
        /\ t \in Live /\ (Has(t, "cancelling") \/ turn[t].task = "cancelled")
             => Has(t, "interrupted") \/ ~Alive

\* The frames of the turn in flight are queued or played, each once.
Accounting ==
    /\ current # None =>
         IF Has(current, "interrupted")
           THEN queue = <<>>
           ELSE /\ played + Len(queue) = turn[current].base + turn[current].audio
                /\ heard[current] = PlayedSince(current)
    /\ current # None =>
         /\ turn[current].pc \in {"final", "brain"} => queue = <<>>
         /\ turn[current].task = "done" => queue = <<>>
         /\ \A i \in 1..Len(queue) : queue[i] = current
    /\ current = None /\ queue # <<>> => ~Alive

\* A turn still able to enqueue has no caption, and none whose frames are queued.
Uncaptioned ==
    /\ \A t \in Turns : t > turnNo => FreshTurn(t)
    /\ \A t \in Turns : turn[t].pc \in {"final", "brain"} => captions[t] = <<>>
    /\ \A t \in Turns : turn[t].pc = "speak" /\ TaskRunning(t) /\ ~Has(t, "cancelling")
                          => captions[t] = <<>>
    /\ \A i \in 1..Len(queue) : captions[queue[i]] = <<>>

AudioInv ==
    /\ SlotInv /\ Stopped /\ TaskOK /\ Accounting /\ Uncaptioned
    /\ OnlyCurrentReplyQueued /\ CaptionIsWhatWasHeard

-----------------------------------------------------------------------------
LivePc == {"final", "brain", "speak"}

LEMMA TurnTyped == ASSUME TInv, NEW t \in Turns
                   PROVE  turn[t] \in TurnType /\ turn[t].flags \in SUBSET Flags
BY DEF TInv, TypeOK, TurnsOK, TurnType

\* What a step that rewrites one turn does to the set of live turns.
LEMMA BecomesLive ==
    ASSUME TInv, NEW t \in Turns, NEW r, Becomes(t, r)
    PROVE  /\ turn'[t] = r
           /\ \A u \in Turns \ {t} : turn'[u] = turn[u]
           /\ r.pc \in LivePc => Live' = Live \cup {t}
           /\ r.pc \notin LivePc => Live' = Live \ {t}
BY DEF TInv, TypeOK, TurnsOK, Becomes, Live, LivePc

\* A step that leaves the slot alone and no turn's liveness changed.
LEMMA SlotKept ==
    ASSUME Slot, Live' = Live, UNCHANGED <<current, starting, hopDue>>
    PROVE  Slot'
BY DEF Slot

LEMMA InitSlot == Init => Slot
<1> SUFFICES ASSUME Init PROVE Slot
  OBVIOUS
<1>1. Live = {}
  BY DEF Init, Live, NoTurn
<1> QED BY <1>1 DEF Init, Slot

LEMMA VadSlot == SlotInv /\ VadLoop => Slot'
<1> SUFFICES ASSUME SlotInv, VadLoop PROVE Slot'
  OBVIOUS
<1> USE DEF SlotInv
<1>1. ASSUME UNCHANGED turnVars PROVE Slot'
  <2>1. Live' = Live
    BY <1>1 DEF turnVars, Live
  <2> QED BY <1>1, <2>1, SlotKept DEF turnVars
<1>2. CASE SpeechFrame \/ UtteranceOpens \/ SilenceFrame \/ UtteranceSuppressed
  BY <1>1, <1>2 DEF SpeechFrame, UtteranceOpens, SilenceFrame, UtteranceSuppressed
<1>3. CASE BargeInCommits
  <2>1. current \in Turns
    BY <1>3, SlotTypes DEF BargeInCommits
  <2>2. current \in Live
    BY <1>3 DEF BargeInCommits, Armed, Slot
  <2> DEFINE r == [turn[current] EXCEPT !.flags =
                     @ \cup {"interrupted", "final_sent", "listening_sent"}
                       \cup (IF TaskRunning(current) THEN {"cancelling"} ELSE {})]
  <2>3. Becomes(current, r)
    BY <1>3 DEF BargeInCommits
  <2>4. r.pc = turn[current].pc
    BY <2>1, TurnTyped DEF TurnType
  <2> HIDE DEF r
  <2>5. Live' = Live
    BY <2>1, <2>2, <2>3, <2>4, BecomesLive DEF Live, LivePc
  <2> QED BY <1>3, <2>5, SlotKept DEF BargeInCommits
<1>4. CASE EndpointFires
  <2>1. Live' = Live
    BY <1>4 DEF EndpointFires, Live
  <2>2. starting = <<>>
    BY <1>4 DEF EndpointFires, EndpointReady, Slot
  <2>3. Len(starting') <= 1
    BY <1>4, <2>2 DEF EndpointFires, OnEndpoint
  <2>4. starting' # <<>> => current' = None
    BY <1>4, <2>2 DEF EndpointFires, OnEndpoint
  <2> QED BY <1>4, <2>1, <2>3, <2>4 DEF EndpointFires, Slot
<1> QED
  BY <1>2, <1>3, <1>4 DEF VadLoop

LEMMA SttSlot == SlotInv /\ SttLoop => Slot'
<1> SUFFICES ASSUME SlotInv, SttLoop PROVE Slot'
  OBVIOUS
<1> USE DEF SlotInv
<1>1. UNCHANGED <<current, starting, hopDue>>
  BY DEF SttLoop, SttPartial, SttFinal, SttStreamDies, turnVars
<1>2. Live' = Live
  <2>1. CASE UNCHANGED turn
    BY <2>1 DEF Live
  <2>2. ASSUME NEW r, Becomes(waiterOf, r), waiterOf # None,
               turn[waiterOf].waiter = "open", r.pc = turn[waiterOf].pc
        PROVE  Live' = Live
    <3>1. waiterOf \in Turns
      BY <2>2, SlotTypes
    <3> QED BY <2>2, <3>1, BecomesLive DEF Live, LivePc
  <2>3. CASE SttPartial
    BY <2>1, <2>3 DEF SttPartial, turnVars
  <2>4. CASE SttFinal
    <3>1. CASE waiterOf # None /\ turn[waiterOf].waiter = "open"
      <4> DEFINE r == [turn[waiterOf] EXCEPT !.waiter = "result", !.text = sttNext]
      <4>1. Becomes(waiterOf, r)
        BY <2>4, <3>1 DEF SttFinal
      <4>2. r.pc = turn[waiterOf].pc
        BY <3>1, SlotTypes, TurnTyped DEF TurnType
      <4> HIDE DEF r
      <4> QED BY <2>2, <3>1, <4>1, <4>2
    <3>2. CASE ~(waiterOf # None /\ turn[waiterOf].waiter = "open")
      BY <2>1, <2>4, <3>2 DEF SttFinal
    <3> QED BY <3>1, <3>2
  <2>5. CASE SttStreamDies
    <3>1. CASE waiterOf # None /\ turn[waiterOf].waiter = "open"
      <4> DEFINE r == [turn[waiterOf] EXCEPT !.waiter = "died"]
      <4>1. Becomes(waiterOf, r)
        BY <2>5, <3>1 DEF SttStreamDies
      <4>2. r.pc = turn[waiterOf].pc
        BY <3>1, SlotTypes, TurnTyped DEF TurnType
      <4> HIDE DEF r
      <4> QED BY <2>2, <3>1, <4>1, <4>2
    <3>2. CASE ~(waiterOf # None /\ turn[waiterOf].waiter = "open")
      BY <2>1, <2>5, <3>2 DEF SttStreamDies
    <3> QED BY <3>1, <3>2
  <2> QED BY <2>3, <2>4, <2>5 DEF SttLoop
<1> QED BY <1>1, <1>2, SlotKept

\* A begun turn has a number no turn had, and finds the slot free.
LEMMA BeginsFacts ==
    ASSUME TInv, TurnBegins
    PROVE  /\ turnNo' = turnNo + 1 /\ turnNo' \in Turns /\ current' = turnNo'
           /\ \E pc, text, waiter :
                pc \in {"final", "brain"} /\ Becomes(turnNo', Opened(pc, text, waiter))
<1>1. turnNo' \in Turns
  <2>1. TInv'
    BY BeginsTInv
  <2> QED BY <2>1, UttRange DEF TInv, TypeOK, TurnsOK, TurnBegins, Turns
<1>2. \E pc, text, waiter :
         pc \in {"final", "brain"} /\ Becomes(turnNo', Opened(pc, text, waiter))
  BY DEF TurnBegins
<1> QED BY <1>1, <1>2 DEF TurnBegins

LEMMA BeginsSlot == SlotInv /\ TurnBegins => Slot'
<1> SUFFICES ASSUME SlotInv, TurnBegins PROVE Slot'
  OBVIOUS
<1> USE DEF SlotInv
<1>1. PICK pc, text, waiter :
         pc \in {"final", "brain"} /\ Becomes(turnNo', Opened(pc, text, waiter))
  BY BeginsFacts
<1>2. Opened(pc, text, waiter).pc \in LivePc
  BY <1>1 DEF Opened, LivePc
<1>3. Live' = Live \cup {turnNo'}
  BY <1>1, <1>2, BeginsFacts, BecomesLive
<1>4. Live = {}
  <2>1. Live \subseteq {None}
    BY DEF TurnBegins, Slot
  <2>2. None \notin Live
    BY DEF Live, Turns, None
  <2> QED BY <2>1, <2>2
<1>5. starting' = <<>>
  BY DEF TurnBegins, Slot, TInv, TypeOK, TurnsOK
<1> QED BY <1>3, <1>4, <1>5, BeginsFacts DEF TurnBegins, Slot

\* A turn that ends was the current one.
LEMMA FinallySlot ==
    ASSUME SameTick = FALSE, SlotInv, NEW t \in Live, Finally(t)
    PROVE  Slot' /\ Live' = {}
<1> USE DEF SlotInv
<1>1. t \in Turns /\ t = current
  BY DEF Slot, Live
<1>2. starting = <<>> /\ current # None
  BY <1>1 DEF Slot, Turns, None
<1>3. Ended(turn[t]).pc \notin LivePc
  BY <1>1, TurnTyped DEF Ended, LivePc, TurnType
<1>4. Live' = {}
  <2>1. Live' = Live \ {t}
    BY <1>1, <1>3, BecomesLive DEF Finally
  <2> QED BY <1>1, <2>1 DEF Slot
<1>5. Len(starting') <= 1
  BY <1>2 DEF Finally
<1> QED BY <1>4, <1>5 DEF Finally, Slot

\* The other steps of a turn's tasks keep it live.
LEMMA WorkingTurn ==
    ASSUME SlotInv, NEW t \in Turns, TurnTask(t) \/ SpeakTask(t),
           ~TurnEnds(t), ~TurnAborted(t)
    PROVE  /\ t \in Live /\ t = current
           /\ \E r : Becomes(t, r) /\ r.pc \in LivePc
           /\ UNCHANGED <<current, starting, hopDue>>
<1> USE DEF SlotInv
<1>1. UNCHANGED <<current, starting, hopDue>>
  BY DEF TurnTask, SpeakTask, FinalTimesOut, FinalCollected, Reask, BrainReplies,
         SentenceDispatched, ChunkArrives, SynthesisEnds, PlayoutEnds, SpeakCancelled
<1>2. turn[t].pc \in LivePc
  BY DEF TurnTask, SpeakTask, FinalTimesOut, FinalCollected, Reask, BrainReplies,
         SentenceDispatched, ChunkArrives, SynthesisEnds, PlayoutEnds, SpeakCancelled,
         SpeakStep, LivePc
<1>3. \E r : Becomes(t, r) /\ r.pc \in LivePc
  <2>0. turn[t] \in TurnType
    BY TurnTyped
  <2>1. CASE FinalTimesOut(t)
    <3>1. [turn[t] EXCEPT !.waiter = "expired"].pc = turn[t].pc
      BY <2>0 DEF TurnType
    <3> QED BY <1>2, <2>1, <3>1 DEF FinalTimesOut
  <2>2. CASE FinalCollected(t)
    <3> DEFINE text == IF turn[t].waiter = "result" THEN turn[t].text ELSE latestPartial
    <3>1. Becomes(t, [turn[t] EXCEPT !.pc = "brain", !.waiter = "none", !.text = text])
      BY <2>2 DEF FinalCollected
    <3> HIDE DEF text
    <3>2. [turn[t] EXCEPT !.pc = "brain", !.waiter = "none", !.text = text].pc = "brain"
      BY <2>0 DEF TurnType
    <3> QED BY <3>1, <3>2 DEF LivePc
  <2>3. ASSUME NEW n, StartSpeaking(t, n) PROVE \E r : Becomes(t, r) /\ r.pc \in LivePc
    <3>1. [turn[t] EXCEPT !.pc = "speak", !.waiter = "none", !.task = "created",
                          !.left = n].pc = "speak"
      BY <2>0 DEF TurnType
    <3> QED BY <2>3, <3>1 DEF StartSpeaking, LivePc
  <2>4. CASE Reask(t) \/ BrainReplies(t)
    BY <2>3, <2>4 DEF Reask, BrainReplies
  <2>5. CASE SentenceDispatched(t)
    <3>1. [turn[t] EXCEPT !.task = "synth", !.left = @ - 1].pc = turn[t].pc
      BY <2>0 DEF TurnType
    <3> QED BY <1>2, <2>5, <3>1 DEF SentenceDispatched
  <2>6. CASE ChunkArrives(t)
    <3>1. [turn[t] EXCEPT !.audio = @ + 1, !.flags = @ \cup {"speaking"}].pc = turn[t].pc
      BY <2>0 DEF TurnType
    <3> QED BY <1>2, <2>6, <3>1 DEF ChunkArrives
  <2>7. CASE SynthesisEnds(t)
    <3>1. [turn[t] EXCEPT !.task = "playout"].pc = turn[t].pc
      BY <2>0 DEF TurnType
    <3> QED BY <1>2, <2>7, <3>1 DEF SynthesisEnds
  <2>8. CASE PlayoutEnds(t)
    <3>1. [turn[t] EXCEPT !.task = "done", !.flags = @ \cup {"final_sent"}].pc = turn[t].pc
      BY <2>0 DEF TurnType
    <3> QED BY <1>2, <2>8, <3>1 DEF PlayoutEnds
  <2>9. CASE SpeakCancelled(t)
    <3>1. [turn[t] EXCEPT !.task = "cancelled"].pc = turn[t].pc
      BY <2>0 DEF TurnType
    <3> QED BY <1>2, <2>9, <3>1 DEF SpeakCancelled
  <2> QED BY <2>1, <2>2, <2>4, <2>5, <2>6, <2>7, <2>8, <2>9 DEF TurnTask, SpeakTask
<1>4. t \in Live /\ t = current
  BY <1>2 DEF Live, LivePc, Slot
<1> QED BY <1>1, <1>3, <1>4

LEMMA TurnSlot ==
    ASSUME SameTick = FALSE, SlotInv, NEW t \in Turns, TurnTask(t) \/ SpeakTask(t)
    PROVE  Slot'
<1> USE DEF SlotInv
<1>1. CASE ~TurnEnds(t) /\ ~TurnAborted(t)
  <2>1. PICK r : Becomes(t, r) /\ r.pc \in LivePc
    BY <1>1, WorkingTurn
  <2>2. Live' = Live
    BY <1>1, <2>1, WorkingTurn, BecomesLive
  <2> QED BY <1>1, <2>2, WorkingTurn, SlotKept
<1>2. CASE TurnEnds(t) \/ TurnAborted(t)
  <2>1. t \in Live /\ Finally(t)
    BY <1>2 DEF TurnEnds, TurnAborted, Live
  <2> QED BY <2>1, FinallySlot
<1> QED BY <1>1, <1>2

\* Cancelling the children leaves every turn where it was.
LEMMA AbortLive ==
    ASSUME TInv, Abort
    PROVE  /\ Live' = Live
           /\ \A t \in Turns :
                /\ turn'[t].pc = turn[t].pc /\ turn'[t].task = turn[t].task
                /\ turn'[t].base = turn[t].base /\ turn'[t].audio = turn[t].audio
                /\ \A f \in Flags \ {"cancelling"} : f \in turn'[t].flags <=> Has(t, f)
                /\ Has(t, "cancelling") => "cancelling" \in turn'[t].flags
                /\ turn[t].pc # "speak" => turn'[t] = turn[t]
<1>1. ASSUME NEW t \in Turns
      PROVE  /\ turn'[t].pc = turn[t].pc /\ turn'[t].task = turn[t].task
             /\ turn'[t].base = turn[t].base /\ turn'[t].audio = turn[t].audio
             /\ \A f \in Flags \ {"cancelling"} : f \in turn'[t].flags <=> Has(t, f)
             /\ Has(t, "cancelling") => "cancelling" \in turn'[t].flags
             /\ turn[t].pc # "speak" => turn'[t] = turn[t]
  <2>1. turn[t] \in TurnType
    BY TurnTyped
  <2>2. turn'[t] = IF turn[t].pc = "speak" /\ TaskRunning(t)
                     THEN [turn[t] EXCEPT !.flags = @ \cup {"cancelling"}]
                     ELSE turn[t]
    BY DEF Abort, CancelsSpeaking
  <2> QED BY <2>1, <2>2 DEF TurnType, Has
<1> QED BY <1>1 DEF Live

LEMMA RunSlot == SlotInv /\ RunStep => Slot'
<1> SUFFICES ASSUME SlotInv, RunStep PROVE Slot'
  OBVIOUS
<1> USE DEF SlotInv
<1>1. CASE Abort
  <2>1. Live' = Live
    BY <1>1, AbortLive
  <2>2. starting' = <<>> /\ Len(starting') <= 1
    BY <1>1 DEF Abort
  <2> QED BY <1>1, <2>1, <2>2 DEF Abort, Slot
<1>2. CASE UNCHANGED turnVars
  <2>1. Live' = Live
    BY <1>2 DEF turnVars, Live
  <2> QED BY <1>2, <2>1, SlotKept DEF turnVars
<1> QED
  BY <1>1, <1>2 DEF RunStep, FramePlayed, HangUp, CloseTimesOut, LoopCrashes, GroupEnds,
     LoopEnds

LEMMA NextSlot == ASSUME SameTick = FALSE, SlotInv, [Next]_vars PROVE SlotInv'
<1>1. TInv'
  BY NextTInv DEF SlotInv
<1>2. ASSUME UNCHANGED vars PROVE Slot'
  <2>1. Live' = Live
    BY <1>2 DEF vars, turnVars, Live
  <2> QED BY <1>2, <2>1, SlotKept DEF vars, turnVars, SlotInv
<1>3. Slot'
  BY <1>2, VadSlot, SttSlot, BeginsSlot, TurnSlot, RunSlot, NextCases DEF Terminated
<1> QED BY <1>1, <1>3 DEF SlotInv

LEMMA SlotIsOneTurn == SlotInv => OneTurnInFlight
BY DEF SlotInv, Slot, OneTurnInFlight, Live, Turns, None

\* The turn slot is a mutual exclusion without a lock: at most one turn of the
\* call is anywhere between its first step and its finally, and no turn task
\* is waiting to start beside it.  It holds as long as no VAD hop runs between
\* a turn's finally and the first step of the task that finally created.
THEOREM OneTurn == ASSUME SameTick = FALSE PROVE Spec => []OneTurnInFlight
<1>1. Init => SlotInv
  BY InitTInv, InitSlot DEF SlotInv
<1>2. SlotInv /\ [Next]_vars => SlotInv'
  BY NextSlot
<1> QED BY <1>1, <1>2, SlotIsOneTurn, PTL DEF Spec

-----------------------------------------------------------------------------
DuckInv == SlotInv /\ DuckedOnlyWhileSpeaking

\* A step that leaves the duck, the slot and the reply being spoken alone.
LEMMA DuckKept ==
    ASSUME DuckedOnlyWhileSpeaking, UNCHANGED <<ducked, paused, current>>,
           Live \subseteq Live',
           \A t \in Live : /\ Has(t, "speaking") => "speaking" \in turn'[t].flags
                           /\ ~Has(t, "interrupted") => "interrupted" \notin turn'[t].flags
    PROVE  DuckedOnlyWhileSpeaking'
BY DEF DuckedOnlyWhileSpeaking, Has

LEMMA DuckUndone == Unduck => DuckedOnlyWhileSpeaking'
BY DEF Unduck, DuckedOnlyWhileSpeaking

\* A duck needs a reply being spoken, so with a free slot the queue plays.
LEMMA FreeSlotUnducked == DuckInv /\ current = None => ~ducked /\ ~paused
BY DEF DuckInv, SlotInv, TInv, TypeOK, FlagsOK, DuckedOnlyWhileSpeaking, Live, Turns, None

LEMMA InitDuck == Init => DuckedOnlyWhileSpeaking
BY DEF Init, DuckedOnlyWhileSpeaking

LEMMA VadDuck == DuckInv /\ VadLoop => DuckedOnlyWhileSpeaking'
<1> SUFFICES ASSUME DuckInv, VadLoop PROVE DuckedOnlyWhileSpeaking'
  OBVIOUS
<1> USE DEF DuckInv
<1>1. ASSUME UNCHANGED <<turn, current, ducked, paused>> PROVE DuckedOnlyWhileSpeaking'
  BY <1>1 DEF DuckedOnlyWhileSpeaking, Live, Has
<1>2. ASSUME SilenceUnducks, UNCHANGED <<turn, current>> PROVE DuckedOnlyWhileSpeaking'
  BY <1>1, <1>2, DuckUndone DEF SilenceUnducks
<1>3. CASE SpeechFrame
  <2>1. CASE Armed /\ ~ducked
    <3>1. current \in Live /\ Has(current, "speaking") /\ ~Has(current, "interrupted")
      BY <2>1 DEF SlotInv, Slot, Armed
    <3>2. turn' = turn /\ current' = current /\ ducked' = TRUE /\ paused' = TRUE
      BY <1>3, <2>1 DEF SpeechFrame, Duck, turnVars
    <3> QED BY <3>1, <3>2 DEF DuckedOnlyWhileSpeaking, Live, Has
  <2>2. CASE ~(Armed /\ ~ducked)
    BY <1>1, <1>3, <2>2 DEF SpeechFrame, turnVars
  <2> QED BY <2>1, <2>2
<1>4. CASE UtteranceOpens
  BY <1>1, <1>4 DEF UtteranceOpens, turnVars, audioVars
<1>5. CASE BargeInCommits
  BY <1>5, DuckUndone DEF BargeInCommits
<1>6. CASE SilenceFrame \/ UtteranceSuppressed
  BY <1>2, <1>6 DEF SilenceFrame, UtteranceSuppressed, turnVars
<1>7. CASE EndpointFires
  BY <1>2, <1>7 DEF EndpointFires
<1> QED
  BY <1>3, <1>4, <1>5, <1>6, <1>7 DEF VadLoop

\* What the steps of the tasks of a turn in flight do to the flags of a turn.
LEMMA SttFlags ==
    ASSUME TInv, SttLoop
    PROVE  \A t \in Turns : /\ turn'[t].flags = turn[t].flags /\ turn'[t].pc = turn[t].pc
                            /\ turn'[t].task = turn[t].task /\ turn'[t].base = turn[t].base
                            /\ turn'[t].audio = turn[t].audio
<1> DEFINE Same(r, s) == /\ r.flags = s.flags /\ r.pc = s.pc /\ r.task = s.task
                         /\ r.base = s.base /\ r.audio = s.audio
<1>1. CASE UNCHANGED turn
  BY <1>1
<1>2. ASSUME NEW r, Becomes(waiterOf, r), waiterOf # None,
             turn[waiterOf].waiter = "open", Same(r, turn[waiterOf])
      PROVE  \A t \in Turns : Same(turn'[t], turn[t])
  <2>1. waiterOf \in Turns
    BY <1>2, SlotTypes
  <2> QED BY <1>2, <2>1, BecomesLive
<1>3. CASE waiterOf # None /\ turn[waiterOf].waiter = "open"
  <2>1. turn[waiterOf] \in TurnType
    BY <1>3, SlotTypes, TurnTyped
  <2>2. Same([turn[waiterOf] EXCEPT !.waiter = "result", !.text = sttNext], turn[waiterOf])
    BY <2>1 DEF TurnType
  <2>3. Same([turn[waiterOf] EXCEPT !.waiter = "died"], turn[waiterOf])
    BY <2>1 DEF TurnType
  <2> HIDE DEF Same
  <2>4. \A t \in Turns : Same(turn'[t], turn[t])
    <3>1. CASE SttPartial
      BY <3>1 DEF SttPartial, turnVars, Same
    <3>2. CASE SttFinal
      BY <3>2, <1>2, <1>3, <2>2 DEF SttFinal
    <3>3. CASE SttStreamDies
      BY <3>3, <1>2, <1>3, <2>3 DEF SttStreamDies
    <3> QED BY <3>1, <3>2, <3>3 DEF SttLoop
  <2> QED BY <2>4 DEF Same
<1>4. CASE ~(waiterOf # None /\ turn[waiterOf].waiter = "open")
  BY <1>1, <1>4 DEF SttLoop, SttPartial, SttFinal, SttStreamDies, turnVars
<1> QED BY <1>3, <1>4

LEMMA SttDuck == DuckInv /\ SttLoop => DuckedOnlyWhileSpeaking'
<1> SUFFICES ASSUME DuckInv, SttLoop PROVE DuckedOnlyWhileSpeaking'
  OBVIOUS
<1>1. UNCHANGED <<ducked, paused, current>>
  BY DEF SttLoop, SttPartial, SttFinal, SttStreamDies, turnVars, bargeVars, audioVars
<1>2. \A t \in Turns : turn'[t].flags = turn[t].flags /\ turn'[t].pc = turn[t].pc
  BY SttFlags DEF DuckInv, SlotInv
<1>3. Live' = Live
  BY <1>2 DEF Live
<1> QED BY <1>1, <1>2, <1>3, DuckKept DEF DuckInv, Live, Has

LEMMA BeginsDuck == DuckInv /\ TurnBegins => DuckedOnlyWhileSpeaking'
<1> SUFFICES ASSUME DuckInv, TurnBegins PROVE DuckedOnlyWhileSpeaking'
  OBVIOUS
<1>1. current = None
  BY DEF TurnBegins, DuckInv, SlotInv, Slot
<1>2. ~ducked' /\ ~paused'
  BY <1>1, FreeSlotUnducked DEF TurnBegins, bargeVars, audioVars
<1>3. ducked' = ducked /\ paused' = paused /\ ducked = paused
  BY DEF TurnBegins, bargeVars, audioVars, DuckInv, DuckedOnlyWhileSpeaking
<1> QED BY <1>2, <1>3 DEF DuckedOnlyWhileSpeaking

\* The fields the safety argument reads of a turn after a step of its tasks.
Moves(t, pc, task, audio, flags) ==
    /\ turn'[t].pc = pc /\ turn'[t].task = task
    /\ turn'[t].audio = audio /\ turn'[t].flags = flags
    /\ turn'[t].base = turn[t].base

LEMMA WorkingFields ==
    ASSUME TInv, NEW t \in Turns, TurnTask(t) \/ SpeakTask(t),
           ~TurnEnds(t), ~TurnAborted(t)
    PROVE  LET r == turn[t] IN
           /\ \A u \in Turns \ {t} : turn'[u] = turn[u]
           /\ \/ FinalTimesOut(t) /\ Moves(t, r.pc, r.task, r.audio, r.flags)
              \/ FinalCollected(t) /\ Moves(t, "brain", r.task, r.audio, r.flags)
              \/ (Reask(t) \/ BrainReplies(t)) /\ Moves(t, "speak", "created", r.audio, r.flags)
              \/ SentenceDispatched(t) /\ Moves(t, r.pc, "synth", r.audio, r.flags)
              \/ ChunkArrives(t)
                   /\ Moves(t, r.pc, r.task, r.audio + 1, r.flags \cup {"speaking"})
              \/ SynthesisEnds(t) /\ Moves(t, r.pc, "playout", r.audio, r.flags)
              \/ PlayoutEnds(t)
                   /\ Moves(t, r.pc, "done", r.audio, r.flags \cup {"final_sent"})
              \/ SpeakCancelled(t) /\ Moves(t, r.pc, "cancelled", r.audio, r.flags)
<1>0. turn[t] \in TurnType
  BY TurnTyped
<1>1. CASE FinalTimesOut(t)
  <2>1. turn'[t] = [turn[t] EXCEPT !.waiter = "expired"]
    BY <1>1, BecomesLive DEF FinalTimesOut
  <2> QED BY <1>0, <1>1, <2>1, BecomesLive DEF FinalTimesOut, Moves, TurnType
<1>2. CASE FinalCollected(t)
  <2> DEFINE text == IF turn[t].waiter = "result" THEN turn[t].text ELSE latestPartial
  <2>1. Becomes(t, [turn[t] EXCEPT !.pc = "brain", !.waiter = "none", !.text = text])
    BY <1>2 DEF FinalCollected
  <2> HIDE DEF text
  <2>2. turn'[t] = [turn[t] EXCEPT !.pc = "brain", !.waiter = "none", !.text = text]
    BY <2>1, BecomesLive
  <2>3. Moves(t, "brain", turn[t].task, turn[t].audio, turn[t].flags)
    BY <1>0, <2>2 DEF Moves, TurnType
  <2> QED BY <1>2, <2>1, <2>3, BecomesLive
<1>3. ASSUME NEW n, StartSpeaking(t, n)
      PROVE  /\ Moves(t, "speak", "created", turn[t].audio, turn[t].flags)
             /\ \A u \in Turns \ {t} : turn'[u] = turn[u]
  <2>1. turn'[t] = [turn[t] EXCEPT !.pc = "speak", !.waiter = "none",
                                   !.task = "created", !.left = n]
    BY <1>3, BecomesLive DEF StartSpeaking
  <2> QED BY <1>0, <1>3, <2>1, BecomesLive DEF StartSpeaking, Moves, TurnType
<1>4. CASE Reask(t) \/ BrainReplies(t)
  BY <1>3, <1>4 DEF Reask, BrainReplies
<1>5. CASE SentenceDispatched(t)
  <2>1. turn'[t] = [turn[t] EXCEPT !.task = "synth", !.left = @ - 1]
    BY <1>5, BecomesLive DEF SentenceDispatched
  <2> QED BY <1>0, <1>5, <2>1, BecomesLive DEF SentenceDispatched, Moves, TurnType
<1>6. CASE ChunkArrives(t)
  <2>1. turn'[t] = [turn[t] EXCEPT !.audio = @ + 1, !.flags = @ \cup {"speaking"}]
    BY <1>6, BecomesLive DEF ChunkArrives
  <2> QED BY <1>0, <1>6, <2>1, BecomesLive DEF ChunkArrives, Moves, TurnType
<1>7. CASE SynthesisEnds(t)
  <2>1. turn'[t] = [turn[t] EXCEPT !.task = "playout"]
    BY <1>7, BecomesLive DEF SynthesisEnds
  <2> QED BY <1>0, <1>7, <2>1, BecomesLive DEF SynthesisEnds, Moves, TurnType
<1>8. CASE PlayoutEnds(t)
  <2>1. turn'[t] = [turn[t] EXCEPT !.task = "done", !.flags = @ \cup {"final_sent"}]
    BY <1>8, BecomesLive DEF PlayoutEnds
  <2> QED BY <1>0, <1>8, <2>1, BecomesLive DEF PlayoutEnds, Moves, TurnType
<1>9. CASE SpeakCancelled(t)
  <2>1. turn'[t] = [turn[t] EXCEPT !.task = "cancelled"]
    BY <1>9, BecomesLive DEF SpeakCancelled
  <2> QED BY <1>0, <1>9, <2>1, BecomesLive DEF SpeakCancelled, Moves, TurnType
<1> QED BY <1>1, <1>2, <1>4, <1>5, <1>6, <1>7, <1>8, <1>9 DEF TurnTask, SpeakTask

LEMMA TurnDuck ==
    ASSUME DuckInv, NEW t \in Turns, TurnTask(t) \/ SpeakTask(t)
    PROVE  DuckedOnlyWhileSpeaking'
<1> USE DEF DuckInv, SlotInv
<1>1. CASE TurnEnds(t) \/ TurnAborted(t)
  <2>1. SafetyNet
    BY <1>1 DEF TurnEnds, TurnAborted, Finally
  <2>2. CASE ducked
    BY <2>1, <2>2, DuckUndone DEF SafetyNet
  <2>3. CASE ~ducked
    BY <2>1, <2>3 DEF SafetyNet, DuckedOnlyWhileSpeaking
  <2> QED BY <2>2, <2>3
<1>2. CASE ~TurnEnds(t) /\ ~TurnAborted(t)
  <2>1. UNCHANGED <<ducked, paused, current>>
    BY <1>2 DEF TurnTask, SpeakTask, FinalTimesOut, FinalCollected, Reask, BrainReplies,
       SentenceDispatched, ChunkArrives, SynthesisEnds, PlayoutEnds, SpeakCancelled,
       bargeVars, audioVars
  <2>2. \A u \in Turns : /\ Has(u, "speaking") => "speaking" \in turn'[u].flags
                         /\ ~Has(u, "interrupted") => "interrupted" \notin turn'[u].flags
    BY <1>2, WorkingFields DEF Moves, Has
  <2>3. Live' = Live
    BY <1>2, WorkingTurn, BecomesLive
  <2> QED BY <2>1, <2>2, <2>3, DuckKept DEF Live
<1> QED BY <1>1, <1>2

LEMMA RunDuck == DuckInv /\ RunStep => DuckedOnlyWhileSpeaking'
<1> SUFFICES ASSUME DuckInv, RunStep PROVE DuckedOnlyWhileSpeaking'
  OBVIOUS
<1> USE DEF DuckInv, SlotInv
<1>1. UNCHANGED <<ducked, paused, current>>
  BY DEF RunStep, FramePlayed, HangUp, CloseTimesOut, LoopCrashes, GroupEnds, LoopEnds,
     Abort, turnVars, bargeVars, audioVars
<1>2. CASE Abort
  <2>1. \A t \in Turns : /\ Has(t, "speaking") => "speaking" \in turn'[t].flags
                         /\ ~Has(t, "interrupted") => "interrupted" \notin turn'[t].flags
    BY <1>2, AbortLive DEF Flags
  <2> QED BY <1>1, <1>2, <2>1, AbortLive, DuckKept DEF Live
<1>3. CASE UNCHANGED turnVars
  BY <1>1, <1>3 DEF turnVars, DuckedOnlyWhileSpeaking, Live, Has
<1> QED
  BY <1>2, <1>3 DEF RunStep, FramePlayed, HangUp, CloseTimesOut, LoopCrashes, GroupEnds,
     LoopEnds

LEMMA NextDuck == ASSUME SameTick = FALSE, DuckInv, [Next]_vars PROVE DuckInv'
<1>1. SlotInv'
  BY NextSlot DEF DuckInv
<1>2. ASSUME UNCHANGED vars PROVE DuckedOnlyWhileSpeaking'
  BY <1>2 DEF vars, turnVars, audioVars, bargeVars, DuckInv, DuckedOnlyWhileSpeaking, Live,
     Has
<1>3. DuckedOnlyWhileSpeaking'
  BY <1>2, VadDuck, SttDuck, BeginsDuck, TurnDuck, RunDuck, NextCases DEF Terminated
<1> QED BY <1>1, <1>3 DEF DuckInv

\* No reply plays into a paused queue: whatever the interleaving of hops,
\* commits, cancellations and teardown, the queue is paused exactly while the
\* worker holds a duck over the uninterrupted reply in flight.
THEOREM DuckSafe == ASSUME SameTick = FALSE PROVE Spec => []DuckedOnlyWhileSpeaking
<1>1. Init => DuckInv
  BY InitTInv, InitSlot, InitDuck DEF DuckInv, SlotInv
<1>2. DuckInv /\ [Next]_vars => DuckInv'
  BY NextDuck
<1>3. DuckInv => DuckedOnlyWhileSpeaking
  BY DEF DuckInv
<1> QED BY <1>1, <1>2, <1>3, PTL DEF Spec

-----------------------------------------------------------------------------
(***************************************************************************)
(* Who owns the queue.  Every step is one of: it moves no audio and no     *)
(* turn's audible state, it commits a barge-in, it begins a turn, it works *)
(* for the turn in flight, it ends that turn, it plays a frame, or it      *)
(* aborts the group.                                                       *)
(***************************************************************************)
LEMMA AudioTypes ==
    ASSUME TInv
    PROVE  /\ queue \in Seq(Turns) /\ played \in Nat
           /\ heard \in [Turns -> Nat] /\ captions \in [Turns -> Seq(Int)]
           /\ \A t \in Turns : turn[t].base \in Nat /\ turn[t].audio \in Nat
BY ConstantsAssumption DEF TInv, TypeOK, AudioOK, WireOK, TurnsOK, TurnType

SameVoice(t) ==
    /\ turn'[t].pc = turn[t].pc /\ turn'[t].task = turn[t].task
    /\ turn'[t].flags = turn[t].flags
    /\ turn'[t].base = turn[t].base /\ turn'[t].audio = turn[t].audio

LEMMA AudioKept ==
    ASSUME AudioInv, \A t \in Turns : SameVoice(t), Alive' => Alive,
           UNCHANGED <<queue, played, heard, captions, current, turnNo>>,
           SlotInv', Stopped'
    PROVE  AudioInv'
<1>0. Live' = Live /\ current \in Turns \cup {None}
  BY DEF SameVoice, Live, AudioInv, SlotInv, TInv, TypeOK, TurnsOK, Turns, None
<1>1. TaskOK'
  BY <1>0 DEF AudioInv, TaskOK, SameVoice, Has, TaskRunning
<1>2. Accounting'
  BY <1>0 DEF AudioInv, Accounting, SameVoice, Has, PlayedSince
<1>3. Uncaptioned'
  BY DEF AudioInv, Uncaptioned, SameVoice, FreshTurn, Has, TaskRunning
<1>4. OnlyCurrentReplyQueued'
  <2>1. \A i \in 1..Len(queue) : queue[i] \in Turns
    BY AudioTypes DEF AudioInv, SlotInv
  <2> QED BY <2>1 DEF AudioInv, OnlyCurrentReplyQueued, SameVoice, Has
<1>5. CaptionIsWhatWasHeard'
  BY DEF AudioInv, CaptionIsWhatWasHeard
<1> QED BY <1>1, <1>2, <1>3, <1>4, <1>5 DEF AudioInv

LEMMA InitAudio == Init /\ SlotInv => AudioInv
<1> SUFFICES ASSUME Init, SlotInv PROVE AudioInv
  OBVIOUS
<1>1. \A t \in Turns : /\ turn[t].pc = "none" /\ turn[t].task = "none" /\ turn[t].flags = {}
                       /\ heard[t] = 0 /\ captions[t] = <<>>
  BY DEF Init, NoTurn
<1>2. queue = <<>> /\ current = None /\ life = "running"
  BY DEF Init
<1>3. Stopped
  BY <1>2 DEF Stopped, Alive, RunReturned
<1>4. TaskOK
  BY <1>1 DEF TaskOK, Has, Live
<1>5. Accounting
  BY <1>2 DEF Accounting
<1>6. Uncaptioned
  BY <1>1, <1>2 DEF Uncaptioned, FreshTurn
<1>7. OnlyCurrentReplyQueued
  BY <1>2 DEF OnlyCurrentReplyQueued
<1>8. CaptionIsWhatWasHeard
  BY <1>1 DEF CaptionIsWhatWasHeard
<1> QED BY <1>3, <1>4, <1>5, <1>6, <1>7, <1>8 DEF AudioInv

\* A numbered turn is never a fresh one.
LEMMA LiveIsNumbered ==
    ASSUME AudioInv, NEW t \in Turns, turn[t].pc # "none"
    PROVE  ~(t > turnNo)
BY DEF AudioInv, Uncaptioned, FreshTurn

LEMMA BargeAudio == ASSUME AudioInv, BargeInCommits, SlotInv' PROVE AudioInv'
<1> DEFINE f == turn[current].flags
                \cup {"interrupted", "final_sent", "listening_sent"}
                \cup (IF TaskRunning(current) THEN {"cancelling"} ELSE {})
<1>0. TInv
  BY DEF AudioInv, SlotInv
<1>1. current \in Turns /\ current # None
  BY <1>0, SlotTypes DEF BargeInCommits, Armed
<1>2. /\ Has(current, "speaking") /\ ~Has(current, "interrupted")
      /\ turn[current].pc \notin {"none", "final", "brain"} /\ current \in Live
  BY <1>1 DEF BargeInCommits, Armed, AudioInv, TaskOK, Has, SlotInv, Slot
<1>3. turn'[current] = [turn[current] EXCEPT !.flags = f]
      /\ \A u \in Turns \ {current} : turn'[u] = turn[u]
  BY <1>0, <1>1, BecomesLive DEF BargeInCommits
<1> HIDE DEF f
<1>4. /\ turn'[current].flags = f /\ turn'[current].pc = turn[current].pc
      /\ turn'[current].task = turn[current].task
  BY <1>0, <1>1, <1>3, TurnTyped DEF TurnType
<1>5. "interrupted" \in f /\ (TaskRunning(current) => "cancelling" \in f)
  BY DEF f
<1>6. queue' = <<>> /\ current' = current /\ UNCHANGED <<played, heard, turnNo, life>>
  BY DEF BargeInCommits, Flush, lifeVars
<1>7. Stopped'
  BY <1>6 DEF BargeInCommits, lifeVars, AudioInv, Stopped, Alive, RunReturned
<1>8. TaskOK'
  BY <1>1, <1>2, <1>3, <1>4, <1>5, <1>6, ZenonT(30)
     DEF AudioInv, TaskOK, Has, TaskRunning, Live, Alive
<1>9. Accounting'
  BY <1>1, <1>2, <1>4, <1>5, <1>6 DEF Accounting, Has
<1>10. /\ captions'[current] = Append(captions[current], PlayedSince(current))
       /\ \A u \in Turns \ {current} : captions'[u] = captions[u]
  BY <1>0, <1>1, AudioTypes DEF BargeInCommits
<1>11. Uncaptioned'
  <2>1. \A u \in Turns : u > turnNo => u # current
    BY <1>1, <1>2, LiveIsNumbered
  <2>2. \A u \in Turns : u > turnNo => FreshTurn(u)'
    BY <1>3, <1>6, <1>10, <2>1 DEF AudioInv, Uncaptioned, FreshTurn
  <2>3. \A u \in Turns : turn'[u].pc \in {"final", "brain"} => captions'[u] = <<>>
    BY <1>2, <1>3, <1>4, <1>10 DEF AudioInv, Uncaptioned
  <2>4. ASSUME NEW u \in Turns, turn'[u].pc = "speak", TaskRunning(u)', ~Has(u, "cancelling")'
        PROVE  captions'[u] = <<>>
    <3>1. u # current
      BY <1>4, <1>5, <2>4 DEF Has, TaskRunning
    <3> QED BY <1>3, <1>10, <2>4, <3>1 DEF AudioInv, Uncaptioned, Has, TaskRunning
  <2> QED BY <1>6, <2>2, <2>3, <2>4 DEF Uncaptioned
<1>12. OnlyCurrentReplyQueued'
  BY <1>6 DEF OnlyCurrentReplyQueued
<1>13. CaptionIsWhatWasHeard'
  <2>1. PlayedSince(current) = heard[current]
    BY <1>1, <1>2 DEF AudioInv, Accounting
  <2>2. captions[current] \in Seq(Int) /\ PlayedSince(current) \in Int
    BY <1>0, <1>1, AudioTypes DEF PlayedSince
  <2>3. \A i \in 1..Len(captions'[current]) : captions'[current][i] = heard[current]
    BY <1>1, <1>10, <2>1, <2>2 DEF AudioInv, CaptionIsWhatWasHeard
  <2> QED BY <1>6, <1>10, <2>3 DEF AudioInv, CaptionIsWhatWasHeard
<1> QED BY <1>7, <1>8, <1>9, <1>11, <1>12, <1>13 DEF AudioInv

LEMMA VadAudio == ASSUME AudioInv, VadLoop, SlotInv' PROVE AudioInv'
<1>1. CASE BargeInCommits
  BY <1>1, BargeAudio
<1>2. CASE ~BargeInCommits
  <2>1. UNCHANGED <<turn, queue, played, heard, captions, current, turnNo, life, loops>>
    BY <1>2 DEF VadLoop, SpeechFrame, UtteranceOpens, SilenceFrame, UtteranceSuppressed,
       EndpointFires, SilenceUnducks, turnVars, audioVars, wireVars, lifeVars
  <2>2. Stopped'
    <3>1. "vad" \in loops
      BY DEF VadLoop, SpeechFrame, UtteranceOpens, SpeechStart, BargeInCommits,
         SilenceFrame, UtteranceSuppressed, EndpointFires, EndpointReady, VadReady
    <3> QED BY <2>1, <3>1 DEF AudioInv, Stopped, Alive, RunReturned
  <2> QED BY <2>1, <2>2, AudioKept DEF SameVoice, Alive
<1> QED BY <1>1, <1>2

LEMMA SttAudio == ASSUME AudioInv, SttLoop, SlotInv' PROVE AudioInv'
<1>1. \A t \in Turns : SameVoice(t)
  BY SttFlags DEF AudioInv, SlotInv, SameVoice
<1>2. UNCHANGED <<queue, played, heard, captions, current, turnNo, life, starting>>
  BY DEF SttLoop, SttPartial, SttFinal, SttStreamDies, turnVars, audioVars, wireVars,
     lifeVars
<1>3. loops' \subseteq loops
  BY DEF SttLoop, SttPartial, SttFinal, SttStreamDies, lifeVars
<1>4. Stopped'
  BY <1>2, <1>3 DEF AudioInv, Stopped, Alive, RunReturned
<1> QED BY <1>1, <1>2, <1>4, AudioKept DEF Alive

LEMMA BeginsAudio == ASSUME AudioInv, TurnBegins, SlotInv' PROVE AudioInv'
<1>0. TInv
  BY DEF AudioInv, SlotInv
<1>1. /\ turnNo' = turnNo + 1 /\ turnNo \in Nat /\ turnNo' \in Turns
      /\ current' = turnNo' /\ turnNo' > turnNo /\ turnNo' # None
  BY <1>0, BeginsFacts, UttRange DEF Turns, None
<1>2. PICK pc, text, waiter :
         pc \in {"final", "brain"} /\ Becomes(turnNo', Opened(pc, text, waiter))
  BY <1>0, BeginsFacts
<1>3. /\ turn'[turnNo'] = Opened(pc, text, waiter)
      /\ \A u \in Turns \ {turnNo'} : turn'[u] = turn[u]
  BY <1>0, <1>1, <1>2, BecomesLive
<1>4. /\ turn'[turnNo'].pc = pc /\ turn'[turnNo'].task = "none"
      /\ turn'[turnNo'].flags = {} /\ turn'[turnNo'].audio = 0
      /\ turn'[turnNo'].base = played
  BY <1>3 DEF Opened
<1>5. Alive /\ current = None /\ queue = <<>>
  BY DEF TurnBegins, AudioInv, Stopped, SlotInv, Slot, Accounting
<1>6. UNCHANGED <<queue, played, heard, captions, life, loops>>
  BY DEF TurnBegins, audioVars, lifeVars
<1>7. FreshTurn(turnNo')
  BY <1>1 DEF AudioInv, Uncaptioned
<1>8. Stopped'
  BY <1>5, <1>6 DEF Stopped, Alive, RunReturned
<1>9. TaskOK'
  BY <1>2, <1>3, <1>4, <1>6 DEF AudioInv, TaskOK, Has, TaskRunning, Live, Alive
<1>10. Accounting'
  <2>1. played \in Nat /\ Len(queue) = 0
    BY <1>0, <1>5, AudioTypes
  <2>2. ~("interrupted" \in turn'[turnNo'].flags)
    BY <1>4
  <2>3. heard[turnNo'] = played - turn'[turnNo'].base
    BY <1>4, <1>7, <2>1 DEF FreshTurn
  <2> QED BY <1>1, <1>4, <1>5, <1>6, <2>1, <2>2, <2>3 DEF Accounting, Has, PlayedSince
<1>11. Uncaptioned'
  <2>1. \A t \in Turns : t > turnNo' => t > turnNo /\ t # turnNo'
    BY <1>1 DEF Turns
  <2> QED BY <1>3, <1>4, <1>5, <1>6, <1>7, <2>1
          DEF AudioInv, Uncaptioned, FreshTurn, Has, TaskRunning
<1>12. OnlyCurrentReplyQueued'
  BY <1>5, <1>6 DEF OnlyCurrentReplyQueued
<1>13. CaptionIsWhatWasHeard'
  BY <1>6 DEF AudioInv, CaptionIsWhatWasHeard
<1> QED BY <1>8, <1>9, <1>10, <1>11, <1>12, <1>13 DEF AudioInv

-----------------------------------------------------------------------------
(***************************************************************************)
(* The steps of the tasks of the turn in flight.                           *)
(***************************************************************************)

\* What a step of a turn's tasks leaves alone before the turn's finally.
LEMMA WorkingFrame ==
    ASSUME NEW t \in Turns, TurnTask(t) \/ SpeakTask(t), ~TurnEnds(t), ~TurnAborted(t)
    PROVE  /\ UNCHANGED <<played, heard, current, turnNo, life, loops, starting>>
           /\ ~ChunkArrives(t) => UNCHANGED queue
           /\ ~PlayoutEnds(t) => UNCHANGED captions
BY DEF TurnTask, SpeakTask, FinalTimesOut, FinalCollected, Reask, BrainReplies,
   StartSpeaking, SentenceDispatched, ChunkArrives, SynthesisEnds, PlayoutEnds,
   SpeakCancelled, audioVars, wireVars, lifeVars

\* The turn in flight that is not asked to stop has not been interrupted.
LEMMA SpeakingFacts ==
    ASSUME AudioInv, NEW t \in Turns, SpeakStep(t), TaskRunning(t)
    PROVE  /\ t = current /\ current # None /\ ~Has(t, "interrupted")
           /\ captions[t] = <<>>
           /\ played + Len(queue) = turn[t].base + turn[t].audio
           /\ heard[t] = played - turn[t].base
<1>1. t \in Live
  BY DEF SpeakStep, Live
<1>2. t = current /\ current # None
  BY <1>1 DEF AudioInv, SlotInv, Slot, Turns, None
<1>3. ~Has(t, "interrupted")
  BY DEF SpeakStep, AudioInv, TaskOK
<1>4. captions[t] = <<>>
  BY DEF SpeakStep, AudioInv, Uncaptioned
<1> QED BY <1>2, <1>3, <1>4 DEF AudioInv, Accounting, PlayedSince

\* A step that only moves the phase of the turn in flight.
LEMMA PhaseAudio ==
    ASSUME AudioInv, SlotInv', NEW t \in Turns, t = current, current # None,
           NEW pc, NEW task,
           Moves(t, pc, task, turn[t].audio, turn[t].flags),
           \A u \in Turns \ {t} : turn'[u] = turn[u],
           UNCHANGED <<queue, played, heard, captions, current, turnNo, life, loops, starting>>,
           \/ pc = "brain" /\ turn[t].pc = "final" /\ task = turn[t].task
           \/ pc = "speak" /\ turn[t].pc \in {"final", "brain"} /\ task = "created"
           \/ pc = "speak" /\ turn[t].pc = "speak" /\ task = turn[t].task
           \/ pc = "speak" /\ turn[t].pc = "speak" /\ TaskRunning(t)
                /\ task \in {"synth", "playout"}
           \/ pc = "speak" /\ turn[t].pc = "speak" /\ Has(t, "cancelling")
                /\ task = "cancelled"
    PROVE  AudioInv'
<1>1. Stopped'
  BY DEF AudioInv, Stopped, Alive, RunReturned
<1>2. TaskOK'
  <2>1. \A u \in Turns \ {t} : u \in Live' <=> u \in Live
    BY DEF Live
  <2>2. t \in Live
    BY DEF AudioInv, SlotInv, Slot
  <2> QED BY <2>1, <2>2 DEF AudioInv, TaskOK, Moves, Has, TaskRunning, Alive
<1>3. Accounting'
  BY DEF AudioInv, Accounting, Moves, Has, PlayedSince
<1>4. Uncaptioned'
  <2>1. ~(t > turnNo)
    BY LiveIsNumbered DEF AudioInv, SlotInv, Slot, Live
  <2>2. \A u \in Turns : u > turnNo => FreshTurn(u)'
    BY <2>1 DEF AudioInv, Uncaptioned, FreshTurn
  <2>3. turn[t].pc \in {"final", "brain"} => captions[t] = <<>>
    BY DEF AudioInv, Uncaptioned
  <2> QED BY <2>2, <2>3 DEF AudioInv, Uncaptioned, Moves, Has, TaskRunning
<1>5. OnlyCurrentReplyQueued'
  BY DEF AudioInv, OnlyCurrentReplyQueued, Accounting, Moves, Has
<1>6. CaptionIsWhatWasHeard'
  BY DEF AudioInv, CaptionIsWhatWasHeard
<1> QED BY <1>1, <1>2, <1>3, <1>4, <1>5, <1>6 DEF AudioInv

LEMMA ChunkAudio ==
    ASSUME AudioInv, SlotInv', NEW t \in Turns, ChunkArrives(t)
    PROVE  AudioInv'
<1>0. TInv /\ SpeakStep(t) /\ TaskRunning(t)
  BY DEF AudioInv, SlotInv, ChunkArrives, TaskRunning
<1>1. /\ t = current /\ current # None /\ ~Has(t, "interrupted") /\ captions[t] = <<>>
      /\ played + Len(queue) = turn[t].base + turn[t].audio
      /\ heard[t] = played - turn[t].base
  BY <1>0, SpeakingFacts
<1>2. /\ Moves(t, turn[t].pc, turn[t].task, turn[t].audio + 1, turn[t].flags \cup {"speaking"})
      /\ \A u \in Turns \ {t} : turn'[u] = turn[u]
  <2>1. turn'[t] = [turn[t] EXCEPT !.audio = @ + 1, !.flags = @ \cup {"speaking"}]
        /\ \A u \in Turns \ {t} : turn'[u] = turn[u]
    BY <1>0, BecomesLive DEF ChunkArrives
  <2> QED BY <1>0, <2>1, TurnTyped DEF Moves, TurnType
<1>3. /\ queue' = Append(queue, t) /\ queue \in Seq(Turns)
      /\ Len(queue') = Len(queue) + 1
      /\ \A i \in 1..Len(queue) : queue'[i] = queue[i]
      /\ queue'[Len(queue')] = t
  BY <1>0, AudioTypes DEF ChunkArrives
<1>4. UNCHANGED <<played, heard, captions, current, turnNo, life, loops, starting>>
  BY DEF ChunkArrives, wireVars, lifeVars
<1>5. turn[t].pc = "speak" /\ turn[t].task = "synth"
  BY DEF ChunkArrives, SpeakStep
<1>6. Stopped'
  BY <1>4 DEF AudioInv, Stopped, Alive, RunReturned
<1>7. TaskOK'
  <2>1. \A u \in Turns : u \in Live' <=> u \in Live
    BY <1>2 DEF Live, Moves
  <2> QED BY <1>2, <1>4, <1>5, <2>1 DEF AudioInv, TaskOK, Moves, Has, TaskRunning, Alive
<1>8. \A i \in 1..Len(queue') : queue'[i] = t
  <2>1. \A i \in 1..Len(queue) : queue[i] = t
    BY <1>1 DEF AudioInv, Accounting
  <2>2. Len(queue) \in Nat
    BY <1>3
  <2> QED BY <1>3, <2>1, <2>2
<1>9. Accounting'
  <2>1. played + Len(queue') = turn'[t].base + turn'[t].audio
    <3>1. turn[t].base \in Nat /\ turn[t].audio \in Nat /\ played \in Nat /\ Len(queue) \in Nat
      BY <1>0, AudioTypes
    <3>2. turn'[t].base = turn[t].base /\ turn'[t].audio = turn[t].audio + 1
      BY <1>2 DEF Moves
    <3>3. played + Len(queue) = turn[t].base + turn[t].audio
      BY <1>1
    <3>4. Len(queue') = Len(queue) + 1
      BY <1>3
    <3> QED BY <3>1, <3>2, <3>3, <3>4, SMTT(20)
  <2>2. heard[t] = played - turn'[t].base
    BY <1>1, <1>2 DEF Moves
  <2>3. "interrupted" \notin turn'[t].flags
    BY <1>1, <1>2 DEF Moves, Has
  <2>4. turn'[t].pc = "speak" /\ turn'[t].task = "synth"
    BY <1>2, <1>5 DEF Moves
  <2> QED BY <1>1, <1>4, <1>8, <2>1, <2>2, <2>3, <2>4 DEF Accounting, Has, PlayedSince
<1>10. Uncaptioned'
  <2>1. ~(t > turnNo)
    BY <1>5, LiveIsNumbered
  <2>2. \A u \in Turns : u > turnNo => FreshTurn(u)'
    BY <1>2, <1>4, <2>1 DEF AudioInv, Uncaptioned, FreshTurn
  <2> QED BY <1>1, <1>2, <1>4, <1>5, <1>8, <2>2
          DEF AudioInv, Uncaptioned, Moves, Has, TaskRunning
<1>11. OnlyCurrentReplyQueued'
  BY <1>1, <1>2, <1>4, <1>8 DEF OnlyCurrentReplyQueued, Moves, Has
<1>12. CaptionIsWhatWasHeard'
  BY <1>4 DEF AudioInv, CaptionIsWhatWasHeard
<1> QED BY <1>6, <1>7, <1>9, <1>10, <1>11, <1>12 DEF AudioInv

LEMMA PlayoutAudio ==
    ASSUME AudioInv, SlotInv', NEW t \in Turns, PlayoutEnds(t)
    PROVE  AudioInv'
<1>0. TInv /\ SpeakStep(t) /\ TaskRunning(t)
  BY DEF AudioInv, SlotInv, PlayoutEnds
<1>1. /\ t = current /\ current # None /\ ~Has(t, "interrupted") /\ captions[t] = <<>>
      /\ played + Len(queue) = turn[t].base + turn[t].audio
      /\ heard[t] = played - turn[t].base
  BY <1>0, SpeakingFacts
<1>2. /\ Moves(t, turn[t].pc, "done", turn[t].audio, turn[t].flags \cup {"final_sent"})
      /\ \A u \in Turns \ {t} : turn'[u] = turn[u]
  <2>1. turn'[t] = [turn[t] EXCEPT !.task = "done", !.flags = @ \cup {"final_sent"}]
        /\ \A u \in Turns \ {t} : turn'[u] = turn[u]
    BY <1>0, BecomesLive DEF PlayoutEnds
  <2> QED BY <1>0, <2>1, TurnTyped DEF Moves, TurnType
<1>3. Len(queue) = 0 /\ queue = <<>> /\ heard[t] = turn[t].audio
  <2>1. played - turn[t].base >= turn[t].audio
    BY DEF PlayoutEnds, PlayedOut, PlayedSince
  <2>2. Len(queue) = 0 /\ heard[t] = turn[t].audio
    <3>1. turn[t].base \in Nat /\ turn[t].audio \in Nat /\ played \in Nat /\ Len(queue) \in Nat
      BY <1>0, AudioTypes
    <3> QED BY <1>1, <2>1, <3>1
  <2> QED BY <1>0, <2>2, AudioTypes
<1>4. UNCHANGED <<queue, played, heard, current, turnNo, life, loops, starting>>
  BY DEF PlayoutEnds, audioVars, lifeVars
<1>5. turn[t].pc = "speak"
  BY <1>0 DEF SpeakStep
<1>6. Stopped'
  BY <1>4 DEF AudioInv, Stopped, Alive, RunReturned
<1>7. TaskOK'
  <2>1. \A u \in Turns : u \in Live' <=> u \in Live
    BY <1>2 DEF Live, Moves
  <2>2. ~Has(t, "cancelling")
    BY <1>0 DEF SpeakStep
  <2> QED BY <1>1, <1>2, <1>4, <1>5, <2>1, <2>2
          DEF AudioInv, TaskOK, Moves, Has, TaskRunning, Alive
<1>8. Accounting'
  <2>1. "interrupted" \notin turn'[t].flags
    BY <1>1, <1>2 DEF Moves, Has
  <2> QED BY <1>1, <1>2, <1>3, <1>4, <2>1 DEF Accounting, Has, Moves, PlayedSince
<1>9. /\ \A u \in Turns \ {t} : captions'[u] = captions[u]
      /\ captions'[t] = captions[t] \/ captions'[t] = Append(<<>>, turn[t].audio)
  BY <1>0, <1>1, AudioTypes DEF PlayoutEnds
<1>10. Uncaptioned'
  <2>1. ~(t > turnNo)
    BY <1>5, LiveIsNumbered
  <2>2. \A u \in Turns : u > turnNo => FreshTurn(u)'
    BY <1>2, <1>4, <1>9, <2>1 DEF AudioInv, Uncaptioned, FreshTurn
  <2>3. turn'[t].pc = "speak" /\ ~TaskRunning(t)'
    BY <1>2, <1>5 DEF Moves, TaskRunning
  <2> QED BY <1>2, <1>3, <1>4, <1>9, <2>2, <2>3
          DEF AudioInv, Uncaptioned, Has, TaskRunning
<1>11. OnlyCurrentReplyQueued'
  BY <1>3, <1>4 DEF OnlyCurrentReplyQueued
<1>12. CaptionIsWhatWasHeard'
  <2>1. \A i \in 1..Len(captions'[t]) : captions'[t][i] = heard[t]
    BY <1>1, <1>3, <1>9
  <2> QED BY <1>4, <1>9, <2>1 DEF AudioInv, CaptionIsWhatWasHeard
<1> QED BY <1>6, <1>7, <1>8, <1>10, <1>11, <1>12 DEF AudioInv

LEMMA WorkingAudio ==
    ASSUME AudioInv, SlotInv', NEW t \in Turns, TurnTask(t) \/ SpeakTask(t),
           ~TurnEnds(t), ~TurnAborted(t)
    PROVE  AudioInv'
<1>0. TInv /\ SlotInv
  BY DEF AudioInv, SlotInv
<1>1. /\ t = current /\ current # None
      /\ UNCHANGED <<played, heard, current, turnNo, life, loops, starting>>
      /\ \A u \in Turns \ {t} : turn'[u] = turn[u]
  <2>1. t = current /\ current # None
    BY <1>0, WorkingTurn DEF Turns, None
  <2>2. UNCHANGED <<played, heard, current, turnNo, life, loops, starting>>
    BY WorkingFrame
  <2>3. \A u \in Turns \ {t} : turn'[u] = turn[u]
    BY <1>0, WorkingFields
  <2> QED BY <2>1, <2>2, <2>3
<1>2. CASE ChunkArrives(t)
  BY <1>2, ChunkAudio
<1>3. CASE PlayoutEnds(t)
  BY <1>3, PlayoutAudio
<1>4. CASE ~ChunkArrives(t) /\ ~PlayoutEnds(t)
  <2>1. UNCHANGED <<queue, captions>>
    BY <1>4, WorkingFrame
  <2> DEFINE r == turn[t]
             Phase(pc, task) == Moves(t, pc, task, r.audio, r.flags)
  <2>2. ASSUME NEW pc, NEW task, Phase(pc, task),
               \/ pc = "brain" /\ r.pc = "final" /\ task = r.task
               \/ pc = "speak" /\ r.pc \in {"final", "brain"} /\ task = "created"
               \/ pc = "speak" /\ r.pc = "speak" /\ task = r.task
               \/ pc = "speak" /\ r.pc = "speak" /\ TaskRunning(t)
                    /\ task \in {"synth", "playout"}
               \/ pc = "speak" /\ r.pc = "speak" /\ Has(t, "cancelling")
                    /\ task = "cancelled"
        PROVE  AudioInv'
    BY <1>1, <2>1, <2>2, PhaseAudio
  <2>3. CASE FinalTimesOut(t) /\ Phase(r.pc, r.task)
    <3>1. \A u \in Turns : SameVoice(u)
      BY <1>1, <2>3 DEF SameVoice, Moves
    <3>2. Stopped' /\ (Alive' => Alive)
      BY <1>1 DEF AudioInv, Stopped, Alive, RunReturned
    <3> QED BY <1>1, <2>1, <3>1, <3>2, AudioKept
  <2>4. CASE FinalCollected(t) /\ Phase("brain", r.task)
    BY <2>2, <2>4 DEF FinalCollected
  <2>5. CASE (Reask(t) \/ BrainReplies(t)) /\ Phase("speak", "created")
    <3>1. r.pc \in {"final", "brain"}
      BY <2>5 DEF Reask, BrainReplies
    <3> QED BY <2>2, <2>5, <3>1
  <2>6. CASE SentenceDispatched(t) /\ Phase(r.pc, "synth")
    <3>1. r.pc = "speak" /\ TaskRunning(t)
      BY <2>6 DEF SentenceDispatched, SpeakStep, TaskRunning
    <3> QED BY <2>2, <2>6, <3>1
  <2>7. CASE SynthesisEnds(t) /\ Phase(r.pc, "playout")
    <3>1. r.pc = "speak" /\ TaskRunning(t)
      BY <2>7 DEF SynthesisEnds, SpeakStep, TaskRunning
    <3> QED BY <2>2, <2>7, <3>1
  <2>8. CASE SpeakCancelled(t) /\ Phase(r.pc, "cancelled")
    <3>1. r.pc = "speak" /\ Has(t, "cancelling")
      BY <2>8 DEF SpeakCancelled
    <3> QED BY <2>2, <2>8, <3>1
  <2> QED BY <1>0, <1>4, <2>3, <2>4, <2>5, <2>6, <2>7, <2>8, WorkingFields
<1> QED BY <1>2, <1>3, <1>4

\* The finally of the turn in flight: its frames, if any are left queued, are
\* those of a reply the teardown cut.
LEMMA FinallyAudio ==
    ASSUME SameTick = FALSE, AudioInv, SlotInv', NEW t \in Turns,
           TurnEnds(t) \/ TurnAborted(t)
    PROVE  AudioInv'
<1>0. TInv /\ SlotInv
  BY DEF AudioInv, SlotInv
<1>1. /\ Finally(t) /\ t \in Live /\ t = current /\ current # None
      /\ turn[t].pc \in {"final", "brain", "speak"}
  BY DEF TurnEnds, TurnAborted, Live, AudioInv, SlotInv, Slot, Turns, None
<1>2. ~TaskRunning(t)
  BY DEF TurnEnds, TurnAborted, AudioInv, TaskOK, TaskRunning
<1>3. /\ turn'[t].pc = "ended" /\ turn'[t].task = turn[t].task
      /\ turn'[t].flags = turn[t].flags \cap {"interrupted"}
      /\ \A u \in Turns \ {t} : turn'[u] = turn[u]
  <2>1. turn'[t] = Ended(turn[t]) /\ \A u \in Turns \ {t} : turn'[u] = turn[u]
    BY <1>0, <1>1, BecomesLive DEF Finally
  <2> QED BY <1>0, <2>1, TurnTyped DEF Ended, TurnType
<1>4. current' = None /\ UNCHANGED <<queue, played, heard, captions, turnNo, life, loops>>
  BY <1>1 DEF Finally
<1>5. Live' = {}
  BY <1>0, <1>1, FinallySlot
<1>6. Alive \/ life = "aborting"
  BY <1>0, <1>1 DEF AudioInv, Stopped, RunReturned, Alive, SlotInv, TInv, TypeOK, LifeOK
<1>7. Stopped'
  BY <1>1, <1>4, <1>6 DEF Finally, AudioInv, Stopped, Alive, RunReturned
<1>8. TaskOK'
  BY <1>2, <1>3, <1>4, <1>5 DEF AudioInv, TaskOK, Has, TaskRunning, Alive
<1>9. queue # <<>> => /\ ~Has(t, "interrupted") /\ turn[t].task = "cancelled" /\ ~Alive
  <2>1. ASSUME queue # <<>>
        PROVE  ~Has(t, "interrupted") /\ turn[t].task # "done"
               /\ turn[t].pc \notin {"final", "brain"}
    BY <1>1, <2>1 DEF AudioInv, Accounting
  <2>2. ASSUME queue # <<>> PROVE turn[t].task = "cancelled"
    BY <2>1, <2>2 DEF TurnEnds, TurnAborted
  <2> QED BY <1>1, <2>1, <2>2 DEF AudioInv, TaskOK
<1>10. Accounting'
  BY <1>4, <1>9 DEF Accounting, Alive
<1>11. Uncaptioned'
  <2>1. ~(t > turnNo)
    BY <1>1, LiveIsNumbered
  <2>2. \A u \in Turns : u > turnNo => FreshTurn(u)'
    BY <1>3, <1>4, <2>1 DEF AudioInv, Uncaptioned, FreshTurn
  <2> QED BY <1>3, <1>4, <2>2 DEF AudioInv, Uncaptioned, Has, TaskRunning
<1>12. OnlyCurrentReplyQueued'
  <2>1. ASSUME NEW i \in 1..Len(queue)
        PROVE  /\ queue[i] = t /\ "interrupted" \notin turn'[t].flags
               /\ turn'[t].pc = "ended" /\ turn'[t].task = "cancelled"
    <3>1. queue # <<>>
      BY <1>0, AudioTypes
    <3>2. queue[i] = t
      BY <1>1 DEF AudioInv, Accounting
    <3> QED BY <1>3, <1>9, <3>1, <3>2 DEF Has
  <2> QED BY <1>4, <2>1 DEF OnlyCurrentReplyQueued, Has
<1>13. CaptionIsWhatWasHeard'
  BY <1>4 DEF AudioInv, CaptionIsWhatWasHeard
<1> QED BY <1>7, <1>8, <1>10, <1>11, <1>12, <1>13 DEF AudioInv

-----------------------------------------------------------------------------
(***************************************************************************)
(* The pacer, run() and the whole.                                         *)
(***************************************************************************)
LEMMA FrameAudio == ASSUME AudioInv, FramePlayed, SlotInv' PROVE AudioInv'
<1> DEFINE h == Head(queue)
<1>0. TInv /\ SlotInv
  BY DEF AudioInv, SlotInv
<1>1. /\ queue # <<>> /\ queue \in Seq(Turns) /\ h \in Turns /\ h = queue[1]
      /\ Len(queue) \in Nat /\ Len(queue) >= 1
      /\ Len(queue') = Len(queue) - 1
      /\ \A i \in 1..Len(queue') : queue'[i] = queue[i + 1] /\ i + 1 \in 1..Len(queue)
  BY <1>0, AudioTypes DEF FramePlayed
<1>2. /\ played' = played + 1 /\ heard'[h] = heard[h] + 1
      /\ \A u \in Turns \ {h} : heard'[u] = heard[u]
  BY <1>0, <1>1, AudioTypes DEF FramePlayed
<1> HIDE DEF h
<1>3. UNCHANGED <<turn, captions, current, turnNo, life, loops, starting>>
  BY DEF FramePlayed, turnVars, wireVars, lifeVars
<1>4. /\ ~Has(h, "interrupted") /\ captions[h] = <<>>
      /\ h = current \/ turn[h].pc = "ended"
  BY <1>1 DEF AudioInv, OnlyCurrentReplyQueued, Uncaptioned
<1>5. current # None =>
        /\ h = current /\ ~Has(current, "interrupted") /\ current \in Turns
        /\ turn[current].pc \notin {"final", "brain"} /\ turn[current].task # "done"
  BY <1>1, <1>4 DEF AudioInv, Accounting
<1>6. Stopped'
  BY <1>3 DEF AudioInv, Stopped, Alive, RunReturned
<1>7. TaskOK'
  BY <1>3 DEF AudioInv, TaskOK, Has, TaskRunning, Live, Alive
<1>8. Accounting'
  <2>1. ASSUME current # None
        PROVE  /\ played' + Len(queue') = turn[current].base + turn[current].audio
               /\ heard'[current] = played' - turn[current].base
               /\ \A i \in 1..Len(queue') : queue'[i] = current
    <3>1. /\ played + Len(queue) = turn[current].base + turn[current].audio
          /\ heard[current] = played - turn[current].base
          /\ \A i \in 1..Len(queue) : queue[i] = current
      BY <1>5, <2>1 DEF AudioInv, Accounting, PlayedSince
    <3>2. played \in Nat /\ turn[current].base \in Nat /\ turn[current].audio \in Nat
      BY <1>0, <1>5, <2>1, AudioTypes
    <3>3. heard'[current] = heard[current] + 1
      BY <1>2, <1>5, <2>1
    <3>4. played' + Len(queue') = turn[current].base + turn[current].audio
      BY <1>1, <1>2, <3>1, <3>2
    <3>5. heard'[current] = played' - turn[current].base
      BY <1>2, <3>1, <3>2, <3>3
    <3> QED BY <1>1, <3>1, <3>4, <3>5
  <2>2. current = None => ~Alive
    BY <1>1 DEF AudioInv, Accounting
  <2> QED BY <1>3, <1>5, <2>1, <2>2 DEF Accounting, Has, PlayedSince, Alive
<1>9. Uncaptioned'
  <2>1. ~(h > turnNo)
    <3>1. current # None => turn[current].pc # "none"
      BY <1>0 DEF SlotInv, Slot, Live
    <3>2. turn[h].pc # "none"
      BY <1>1, <1>4, <1>5, <3>1 DEF Turns, None
    <3> QED BY <1>1, <3>2, LiveIsNumbered
  <2>2. \A u \in Turns : u > turnNo => FreshTurn(u)'
    BY <1>2, <1>3, <2>1 DEF AudioInv, Uncaptioned, FreshTurn
  <2>3. \A i \in 1..Len(queue') : captions[queue'[i]] = <<>>
    BY <1>1 DEF AudioInv, Uncaptioned
  <2> QED BY <1>3, <2>2, <2>3 DEF AudioInv, Uncaptioned, Has, TaskRunning
<1>10. OnlyCurrentReplyQueued'
  BY <1>1, <1>3 DEF AudioInv, OnlyCurrentReplyQueued, Has
<1>11. CaptionIsWhatWasHeard'
  BY <1>2, <1>3, <1>4 DEF AudioInv, CaptionIsWhatWasHeard
<1> QED BY <1>6, <1>7, <1>8, <1>9, <1>10, <1>11 DEF AudioInv

LEMMA AbortAudio == ASSUME AudioInv, Abort, SlotInv' PROVE AudioInv'
<1>0. TInv /\ SlotInv
  BY DEF AudioInv, SlotInv
<1>1. /\ UNCHANGED <<queue, played, heard, captions, current, turnNo>>
      /\ ~Alive' /\ ~RunReturned' /\ starting' = <<>> /\ loops' = {}
  BY DEF Abort, audioVars, wireVars, Alive, RunReturned
<1>2. \A t \in Turns :
         /\ turn'[t].pc = turn[t].pc /\ turn'[t].task = turn[t].task
         /\ turn'[t].base = turn[t].base /\ turn'[t].audio = turn[t].audio
         /\ "interrupted" \in turn'[t].flags <=> Has(t, "interrupted")
         /\ Has(t, "cancelling") => "cancelling" \in turn'[t].flags
         /\ turn[t].pc # "speak" => turn'[t] = turn[t]
  BY <1>0, AbortLive DEF Flags
<1>3. Stopped'
  BY <1>1 DEF Stopped
<1>4. TaskOK'
  BY <1>1, <1>2 DEF AudioInv, TaskOK, Has, TaskRunning
<1>5. current # None => current \in Turns
  BY <1>0 DEF SlotInv, Slot, Live
<1>6. Accounting'
  BY <1>1, <1>2, <1>5 DEF AudioInv, Accounting, Has, PlayedSince
<1>7. Uncaptioned'
  BY <1>1, <1>2 DEF AudioInv, Uncaptioned, FreshTurn, Has, TaskRunning
<1>8. OnlyCurrentReplyQueued'
  <2>1. \A i \in 1..Len(queue) : queue[i] \in Turns
    BY <1>0, AudioTypes
  <2> QED BY <1>1, <1>2, <2>1 DEF AudioInv, OnlyCurrentReplyQueued, Has
<1>9. CaptionIsWhatWasHeard'
  BY <1>1 DEF AudioInv, CaptionIsWhatWasHeard
<1> QED BY <1>3, <1>4, <1>6, <1>7, <1>8, <1>9 DEF AudioInv

LEMMA RunAudio == ASSUME AudioInv, RunStep, SlotInv' PROVE AudioInv'
<1>1. CASE FramePlayed
  BY <1>1, FrameAudio
<1>2. CASE Abort
  BY <1>2, AbortAudio
<1>3. CASE HangUp \/ GroupEnds \/ \E l \in {"vad", "stt"} : LoopEnds(l)
  <2>1. /\ UNCHANGED <<turn, queue, played, heard, captions, current, turnNo, starting>>
        /\ Alive' => Alive
        /\ loops' \subseteq loops
    BY <1>3 DEF HangUp, GroupEnds, LoopEnds, turnVars, audioVars, wireVars, Alive
  <2>2. Stopped'
    <3>1. CASE HangUp \/ \E l \in {"vad", "stt"} : LoopEnds(l)
      BY <2>1, <3>1 DEF HangUp, LoopEnds, AudioInv, Stopped, Alive, RunReturned
    <3>2. CASE GroupEnds
      <4>1. current = None /\ starting = <<>> /\ loops = {}
        BY <3>2 DEF GroupEnds, AudioInv, SlotInv, Slot
      <4> QED BY <2>1, <4>1 DEF Stopped
    <3> QED BY <1>3, <3>1, <3>2
  <2> QED BY <2>1, <2>2, AudioKept DEF SameVoice
<1> QED BY <1>1, <1>2, <1>3 DEF RunStep, CloseTimesOut, LoopCrashes

LEMMA NextAudio == ASSUME SameTick = FALSE, AudioInv, [Next]_vars PROVE AudioInv'
<1>1. SlotInv'
  BY NextSlot DEF AudioInv
<1>2. ASSUME UNCHANGED vars PROVE AudioInv'
  <2>1. UNCHANGED <<turn, queue, played, heard, captions, current, turnNo, life, loops, starting>>
    BY <1>2 DEF vars, turnVars, audioVars, wireVars, lifeVars
  <2>2. Stopped'
    BY <2>1 DEF AudioInv, Stopped, Alive, RunReturned
  <2> QED BY <1>1, <2>1, <2>2, AudioKept DEF SameVoice, Alive
<1>3. ASSUME NEW t \in Turns, TurnTask(t) \/ SpeakTask(t) PROVE AudioInv'
  BY <1>1, <1>3, WorkingAudio, FinallyAudio
<1> QED BY <1>1, <1>2, <1>3, VadAudio, SttAudio, BeginsAudio, RunAudio, NextCases
        DEF Terminated

LEMMA AlwaysAudioInv == ASSUME SameTick = FALSE PROVE Spec => []AudioInv
<1>1. Init => AudioInv
  BY InitTInv, InitSlot, InitAudio DEF SlotInv
<1>2. AudioInv /\ [Next]_vars => AudioInv'
  BY NextAudio
<1> QED BY <1>1, <1>2, PTL DEF Spec

\* The queue never holds a frame of a turn the caller has interrupted, nor of
\* any turn but the one in flight (or the one a teardown cut).
THEOREM QueueOwned == ASSUME SameTick = FALSE PROVE Spec => []OnlyCurrentReplyQueued
<1>1. AudioInv => OnlyCurrentReplyQueued
  BY DEF AudioInv
<1> QED BY AlwaysAudioInv, <1>1, PTL

\* Both at once: playout belongs to the reply in flight, paused or not.
THEOREM PlayoutFollows == ASSUME SameTick = FALSE PROVE Spec => []QueueFollowsReply
BY DuckSafe, QueueOwned, PTL DEF QueueFollowsReply

\* Every caption frozen for a reply credits exactly the frames played of it.
THEOREM CaptionsExact == ASSUME SameTick = FALSE PROVE Spec => []CaptionIsWhatWasHeard
<1>1. AudioInv => CaptionIsWhatWasHeard
  BY DEF AudioInv
<1> QED BY AlwaysAudioInv, <1>1, PTL

\* After a commit the caller hears nothing more of the turn, although its
\* speaking subtask, its streams and its turn task may all still run.
THEOREM SilentOnceInterrupted ==
    ASSUME SameTick = FALSE PROVE Spec => InterruptedStaysSilent
<1> DEFINE Silent == \A t \in Turns : Has(t, "interrupted") => heard'[t] = heard[t]
<1>1. AudioInv /\ [Next]_vars => [Silent]_vars
  <2> SUFFICES ASSUME AudioInv, Next PROVE Silent
    OBVIOUS
  <2>1. CASE FramePlayed
    <3>1. queue \in Seq(Turns) /\ heard \in [Turns -> Nat]
      BY AudioTypes DEF AudioInv, SlotInv
    <3>2. Head(queue) \in Turns /\ ~Has(Head(queue), "interrupted")
      BY <2>1, <3>1 DEF FramePlayed, AudioInv, OnlyCurrentReplyQueued
    <3> QED BY <2>1, <3>1, <3>2 DEF FramePlayed
  <2>2. CASE ~FramePlayed
    <3>1. UNCHANGED heard
      BY <2>2 DEF Next, VadLoop, SpeechFrame, UtteranceOpens, BargeInCommits,
         SilenceFrame, UtteranceSuppressed, EndpointFires, SilenceUnducks, SttLoop,
         SttPartial, SttFinal, SttStreamDies, TurnBegins, TurnTask, FinalTimesOut,
         FinalCollected, Reask, BrainReplies, TurnEnds, TurnAborted, Finally, SpeakTask,
         SentenceDispatched, ChunkArrives, SynthesisEnds, PlayoutEnds, SpeakCancelled,
         HangUp, CloseTimesOut, LoopCrashes, Abort, GroupEnds, LoopEnds, Terminated,
         vars, audioVars
    <3> QED BY <3>1
  <2> QED BY <2>1, <2>2
<1>2. InterruptedStaysSilent <=> [][Silent]_vars
  BY DEF InterruptedStaysSilent
<1> QED BY AlwaysAudioInv, <1>1, <1>2, PTL DEF Spec

-----------------------------------------------------------------------------
(***************************************************************************)
(* The order of the state frames.  The last frame sent is a function of    *)
(* the turn in flight: its number, and which of its flags are set.         *)
(***************************************************************************)
Said(t) == IF Has(t, "listening_sent") THEN "listening"
           ELSE IF Has(t, "speaking") THEN "speaking" ELSE "thinking"

\* The indicator says what the turn in flight has said last, and says
\* listening when the slot is free; only a commit says it during a turn.
WireInv ==
    /\ current # None => wire = [state |-> Said(current), turn |-> current]
    /\ current = None => wire.state = "listening"
    /\ wire.turn <= turnNo
    /\ \A t \in Turns : Has(t, "listening_sent") => Has(t, "interrupted")

\* The body of WireFollowsDiagram.
Diagram ==
    wire' # wire =>
        CASE wire'.state = "thinking"  -> wire.state = "listening" /\ wire'.turn > wire.turn
          [] wire'.state = "speaking"  -> wire.state = "thinking" /\ wire'.turn = wire.turn
          [] wire'.state = "listening" -> wire.state # "listening" /\ wire'.turn = wire.turn

LEMMA InitWire == Init => WireInv
BY DEF Init, WireInv, NoTurn, Has, None

LEMMA WireTypes ==
    ASSUME AudioInv
    PROVE  /\ turnNo \in Nat /\ wire.turn \in Nat
           /\ current # None => current \in Turns
BY SlotTypes DEF AudioInv, SlotInv, TInv, TypeOK, TurnsOK, WireOK, Turns, None

\* A step that sends no frame and changes none of the flags a frame tells.
LEMMA WireKept ==
    ASSUME AudioInv, WireInv, UNCHANGED <<wire, current, turnNo>>,
           \A t \in Turns : \A f \in {"speaking", "listening_sent", "interrupted"} :
             f \in turn'[t].flags <=> Has(t, f)
    PROVE  WireInv' /\ Diagram
<1>1. \A t \in Turns : Said(t)' = Said(t)
  BY DEF Said, Has
<1>2. current # None => wire' = [state |-> Said(current)', turn |-> current]
  BY <1>1, WireTypes DEF WireInv
<1>3. \A t \in Turns : Has(t, "listening_sent")' => Has(t, "interrupted")'
  BY DEF WireInv, Has
<1> QED BY <1>2, <1>3 DEF WireInv, Diagram, Said, Has

LEMMA BargeWire == ASSUME AudioInv, WireInv, BargeInCommits PROVE WireInv' /\ Diagram
<1> DEFINE f == turn[current].flags
                \cup {"interrupted", "final_sent", "listening_sent"}
                \cup (IF TaskRunning(current) THEN {"cancelling"} ELSE {})
<1>1. /\ current \in Turns /\ current # None /\ TInv
      /\ Has(current, "speaking") /\ ~Has(current, "interrupted")
  BY WireTypes DEF BargeInCommits, Armed, AudioInv, SlotInv
<1>2. /\ wire.state = "speaking" /\ wire.turn = current
  BY <1>1 DEF WireInv, Said
<1>3. /\ turn'[current] = [turn[current] EXCEPT !.flags = f]
      /\ \A u \in Turns \ {current} : turn'[u] = turn[u]
  BY <1>1, BecomesLive DEF BargeInCommits
<1>4. {"listening_sent", "interrupted"} \subseteq f
  BY DEF f
<1> HIDE DEF f
<1>5. turn'[current].flags = f
  BY <1>1, <1>3, TurnTyped DEF TurnType
<1>6. /\ wire' = [state |-> "listening", turn |-> current]
      /\ current' = current /\ turnNo' = turnNo
  BY DEF BargeInCommits
<1>7. \A t \in Turns : Has(t, "listening_sent")' => Has(t, "interrupted")'
  BY <1>3, <1>4, <1>5 DEF WireInv, Has
<1>8. "listening_sent" \in turn'[current'].flags
  BY <1>4, <1>5, <1>6
<1> QED BY <1>1, <1>2, <1>6, <1>7, <1>8 DEF WireInv, Diagram, Said, Has

\* A turn begins when the slot is free, so the last frame said listening, and
\* its number is higher than any frame's.
LEMMA BeginsWire == ASSUME AudioInv, WireInv, TurnBegins PROVE WireInv' /\ Diagram
<1>1. TInv /\ current = None
  BY DEF TurnBegins, AudioInv, SlotInv, Slot
<1>2. PICK pc, text, waiter :
         pc \in {"final", "brain"} /\ Becomes(turnNo', Opened(pc, text, waiter))
  BY <1>1, BeginsFacts
<1>3. turnNo' = turnNo + 1 /\ turnNo' \in Turns /\ current' = turnNo'
  BY <1>1, BeginsFacts
<1>4. /\ turn'[turnNo'] = Opened(pc, text, waiter)
      /\ \A u \in Turns \ {turnNo'} : turn'[u] = turn[u]
  BY <1>1, <1>2, <1>3, BecomesLive
<1>5. turn'[turnNo'].flags = {}
  BY <1>4 DEF Opened
<1>6. wire' = [state |-> "thinking", turn |-> turnNo']
  BY DEF TurnBegins
<1>7. wire.state = "listening" /\ wire.turn < turnNo' /\ wire'.turn <= turnNo'
  BY <1>1, <1>3, <1>6, WireTypes DEF WireInv
<1>8. \A t \in Turns : Has(t, "listening_sent")' => Has(t, "interrupted")'
  BY <1>4, <1>5 DEF WireInv, Has
<1>9. current' # None
  BY <1>3 DEF Turns, None
<1>10. Said(current)' = "thinking"
  BY <1>3, <1>5 DEF Said, Has
<1> QED BY <1>3, <1>6, <1>7, <1>8, <1>9, <1>10 DEF WireInv, Diagram

\* The first chunk of an uninterrupted turn turns thinking into speaking.
LEMMA ChunkWire ==
    ASSUME AudioInv, WireInv, NEW t \in Turns, ChunkArrives(t)
    PROVE  WireInv' /\ Diagram
<1>1. TInv /\ SpeakStep(t) /\ TaskRunning(t)
  BY DEF AudioInv, SlotInv, ChunkArrives, TaskRunning
<1>2. t = current /\ current # None /\ ~Has(t, "interrupted")
  BY <1>1, SpeakingFacts
<1>3. ~Has(t, "listening_sent")
  BY <1>2 DEF WireInv
<1>4. wire.state = (IF Has(t, "speaking") THEN "speaking" ELSE "thinking") /\ wire.turn = t
  BY <1>2, <1>3 DEF WireInv, Said
<1>5. \A u \in Turns \ {t} : turn'[u] = turn[u]
  BY <1>1, BecomesLive DEF ChunkArrives
<1>6. turn'[t].flags = turn[t].flags \cup {"speaking"}
  <2>1. turn'[t] = [turn[t] EXCEPT !.audio = @ + 1, !.flags = @ \cup {"speaking"}]
    BY <1>1, BecomesLive DEF ChunkArrives
  <2> QED BY <1>1, <2>1, TurnTyped DEF TurnType
<1>7. turn'[t].flags \cap {"speaking", "listening_sent"} = {"speaking"}
  BY <1>3, <1>6 DEF Has
<1>8. UNCHANGED <<current, turnNo>>
      /\ wire' = IF Has(t, "speaking") THEN wire ELSE [state |-> "speaking", turn |-> t]
  BY DEF ChunkArrives
<1>9. wire' = [state |-> "speaking", turn |-> t]
  BY <1>2, <1>3, <1>8 DEF WireInv, Said
<1>10. \A u \in Turns : Has(u, "listening_sent")' => Has(u, "interrupted")'
  <2>1. ~Has(t, "listening_sent")'
    BY <1>7 DEF Has
  <2>2. \A u \in Turns \ {t} : Has(u, "listening_sent")' => Has(u, "interrupted")'
    BY <1>5 DEF WireInv, Has
  <2> QED BY <2>1, <2>2
<1>11. Said(current)' = "speaking"
  <2>1. current' = t
    BY <1>2, <1>8
  <2>2. Has(t, "speaking")' /\ ~Has(t, "listening_sent")'
    BY <1>7 DEF Has
  <2> QED BY <2>1, <2>2 DEF Said, Has
<1>12. WireInv'
  BY <1>2, <1>4, <1>8, <1>9, <1>10, <1>11 DEF WireInv
<1>13. Diagram
  <2>1. CASE Has(t, "speaking")
    BY <1>8, <2>1 DEF Diagram
  <2>2. CASE ~Has(t, "speaking")
    <3>1. wire.state = "thinking" /\ wire.turn = t
      BY <1>4, <2>2
    <3>2. wire'.state = "speaking" /\ wire'.turn = t
      BY <1>9
    <3> QED BY <3>1, <3>2 DEF Diagram
  <2> QED BY <2>1, <2>2
<1> QED BY <1>12, <1>13

\* The end of a turn says listening unless a commit did.
LEMMA FinallyWire ==
    ASSUME AudioInv, WireInv, NEW t \in Live, Finally(t)
    PROVE  WireInv' /\ Diagram
<1>1. TInv /\ t \in Turns /\ t = current /\ current # None
  BY DEF AudioInv, SlotInv, Slot, Live, Turns, None
<1>2. wire = [state |-> Said(t), turn |-> t]
  BY <1>1 DEF WireInv
<1>3. wire' = IF Has(t, "listening_sent") THEN wire ELSE [state |-> "listening", turn |-> t]
  BY DEF Finally, SaysListening
<1>4. wire' = [state |-> "listening", turn |-> t]
  BY <1>2, <1>3 DEF Said
<1>5. /\ turn'[t] = Ended(turn[t])
      /\ \A u \in Turns \ {t} : turn'[u] = turn[u]
  BY <1>1, BecomesLive DEF Finally
<1>6. "listening_sent" \notin turn'[t].flags
  BY <1>1, <1>5, TurnTyped DEF Ended, TurnType
<1>7. \A u \in Turns : Has(u, "listening_sent")' => Has(u, "interrupted")'
  BY <1>5, <1>6 DEF WireInv, Has
<1>8. current' = None /\ turnNo' = turnNo
  BY DEF Finally
<1>9. WireInv'
  BY <1>2, <1>4, <1>7, <1>8 DEF WireInv
<1>10. Said(t) # "listening" => wire.state # "listening" /\ wire'.turn = wire.turn
  BY <1>2, <1>4
<1>11. Diagram
  BY <1>2, <1>4, <1>10 DEF Diagram
<1> QED BY <1>9, <1>11

LEMMA WorkingWire ==
    ASSUME AudioInv, WireInv, NEW t \in Turns, TurnTask(t) \/ SpeakTask(t)
    PROVE  WireInv' /\ Diagram
<1>0. TInv /\ SlotInv
  BY DEF AudioInv, SlotInv
<1>1. CASE TurnEnds(t) \/ TurnAborted(t)
  <2>1. t \in Live /\ Finally(t)
    BY <1>1 DEF TurnEnds, TurnAborted, Live
  <2> QED BY <2>1, FinallyWire
<1>2. CASE ChunkArrives(t)
  BY <1>2, ChunkWire
<1>3. CASE ~TurnEnds(t) /\ ~TurnAborted(t) /\ ~ChunkArrives(t)
  <2>1. UNCHANGED <<wire, current, turnNo>>
    BY <1>3 DEF TurnTask, SpeakTask, FinalTimesOut, FinalCollected, Reask, BrainReplies,
       StartSpeaking, SentenceDispatched, SynthesisEnds, PlayoutEnds, SpeakCancelled,
       wireVars
  <2>2. \A u \in Turns \ {t} : turn'[u] = turn[u]
    BY <1>0, <1>3, WorkingFields
  <2>3. turn'[t].flags = turn[t].flags \/ turn'[t].flags = turn[t].flags \cup {"final_sent"}
    BY <1>0, <1>3, WorkingFields DEF Moves
  <2>4. \A u \in Turns : \A f \in {"speaking", "listening_sent", "interrupted"} :
          f \in turn'[u].flags <=> Has(u, f)
    BY <2>2, <2>3 DEF Has
  <2> QED BY <2>1, <2>4, WireKept
<1> QED BY <1>1, <1>2, <1>3

LEMMA RunWire == ASSUME AudioInv, WireInv, RunStep PROVE WireInv' /\ Diagram
<1>1. UNCHANGED <<wire, current, turnNo>>
  BY DEF RunStep, FramePlayed, HangUp, CloseTimesOut, LoopCrashes, GroupEnds, LoopEnds,
     Abort, turnVars, wireVars
<1>2. CASE Abort
  <2>1. \A t \in Turns : \A f \in {"speaking", "listening_sent", "interrupted"} :
          f \in turn'[t].flags <=> Has(t, f)
    BY <1>2, AbortLive DEF AudioInv, SlotInv, Flags
  <2> QED BY <1>1, <2>1, WireKept
<1>3. CASE UNCHANGED turnVars
  BY <1>1, <1>3, WireKept DEF turnVars, Has
<1> QED
  BY <1>2, <1>3 DEF RunStep, FramePlayed, HangUp, CloseTimesOut, LoopCrashes, GroupEnds,
     LoopEnds

LEMMA VadWire == ASSUME AudioInv, WireInv, VadLoop PROVE WireInv' /\ Diagram
<1>1. CASE BargeInCommits
  BY <1>1, BargeWire
<1>2. CASE ~BargeInCommits
  <2>1. UNCHANGED <<turn, wire, current, turnNo>>
    BY <1>2 DEF VadLoop, SpeechFrame, UtteranceOpens, SilenceFrame, UtteranceSuppressed,
       EndpointFires, turnVars, wireVars
  <2> QED BY <2>1, WireKept DEF Has
<1> QED BY <1>1, <1>2

LEMMA SttWire == ASSUME AudioInv, WireInv, SttLoop PROVE WireInv' /\ Diagram
<1>1. UNCHANGED <<wire, current, turnNo>>
  BY DEF SttLoop, SttPartial, SttFinal, SttStreamDies, turnVars, wireVars
<1> QED BY <1>1, SttFlags, WireKept DEF AudioInv, SlotInv, Has

LEMMA NextWire ==
    ASSUME AudioInv, WireInv, [Next]_vars PROVE WireInv' /\ (Diagram \/ UNCHANGED vars)
<1>1. CASE UNCHANGED vars
  <2>1. UNCHANGED <<turn, wire, current, turnNo>>
    BY <1>1 DEF vars, turnVars, wireVars
  <2> QED BY <2>1, WireKept DEF Has
<1> QED BY <1>1, VadWire, SttWire, BeginsWire, WorkingWire, RunWire, NextCases
        DEF Terminated

\* However late a cancellation, a commit, a chunk or a teardown comes, the
\* indicator the app shows goes thinking, speaking, listening within one turn,
\* and no turn's frame overtakes another's.
THEOREM DiagramFollowed == ASSUME SameTick = FALSE PROVE Spec => WireFollowsDiagram
<1>1. Init => WireInv
  BY InitWire
<1>2. AudioInv /\ WireInv /\ [Next]_vars => WireInv' /\ [Diagram]_vars
  BY NextWire
<1>3. WireFollowsDiagram <=> [][Diagram]_vars
  BY DEF WireFollowsDiagram, Diagram
<1> QED BY AlwaysAudioInv, <1>1, <1>2, <1>3, PTL DEF Spec
=============================================================================
