----------------------------- MODULE TurnMachine -----------------------------
(***************************************************************************)
(* The turn machine of one call: VoiceAgentWorker (voice/worker.py) with   *)
(* the SpeechDispatcher (voice/speech.py) and the playout queue            *)
(* (voice/audio_egress.py) it drives.                                      *)
(*                                                                         *)
(* Everything runs on one asyncio loop, so a step of this module is what a *)
(* task does from one await to the next; the tasks are the VAD loop, the   *)
(* STT supervisor, one task per turn, one speaking subtask per turn and    *)
(* the egress pacer.  Utterances are numbered in the order the endpointer  *)
(* confirms them, a text is the utterance it transcribes, and audio is     *)
(* counted in wire frames, each remembering the turn that synthesised it.  *)
(***************************************************************************)
EXTENDS Integers, Sequences

CONSTANTS
    MaxUtt,        \* bound: utterances the caller speaks in one call
    MaxSentences,  \* bound: sentences of one reply
    MaxAudio,      \* bound: audio frames one reply synthesises
    Debounce,      \* VAD frames ignored after a barge-in commit
    SameTick       \* a VAD hop may be due in the loop tick in which a turn ends

ASSUME ConstantsAssumption ==
    /\ MaxUtt \in Nat \ {0}
    /\ MaxSentences \in Nat \ {0}
    /\ MaxAudio \in Nat
    /\ Debounce \in Nat
    /\ SameTick \in BOOLEAN

Utts  == 1..MaxUtt
Turns == 1..MaxUtt       \* each utterance closes at most once
None  == 0               \* Python's None for a turn, an utterance or a text

VARIABLES
    ep, utt, worded,                          \* VadEndpointer, abstracted
    sttNext, latestPartial, pendingFinal,     \* what STT has said so far
    waiterOf,                                 \* _final_waiter: whose future
    turn, turnNo, current, pending, starting, \* turns and their tasks
    hopDue,                                   \* a hop scheduled before them
    queue, played, paused,                    \* AudioEgress
    ducked, debounce,
    wire,                                     \* last agent.state sent
    life, loops, errors,                      \* run() and its task group
    heard, captions, crashed                  \* history

vadVars   == <<ep, utt, worded>>
sttVars   == <<sttNext, latestPartial, pendingFinal>>
turnVars  == <<turn, waiterOf, turnNo, current, pending, starting, hopDue>>
audioVars == <<queue, played, paused, heard>>
bargeVars == <<ducked, debounce>>
wireVars  == <<wire, captions>>
lifeVars  == <<life, loops, errors, crashed>>
vars == <<vadVars, sttVars, turnVars, audioVars, bargeVars, wireVars, lifeVars>>

NoTurn == [pc |-> "none", utt |-> None, text |-> None, waiter |-> "none",
           base |-> 0, audio |-> 0, flags |-> {}, task |-> "none", left |-> 0]

Init ==
    /\ ep = "idle" /\ utt = 0 /\ worded = FALSE
    /\ sttNext = 1 /\ latestPartial = None /\ pendingFinal = None
    /\ waiterOf = None
    /\ turn = [t \in Turns |-> NoTurn]
    /\ turnNo = 0 /\ current = None /\ pending = None /\ starting = <<>>
    /\ hopDue = FALSE
    /\ queue = <<>> /\ played = 0 /\ paused = FALSE
    /\ ducked = FALSE /\ debounce = 0
    /\ wire = [state |-> "listening", turn |-> None]
    /\ life = "running" /\ loops = {"vad", "stt"} /\ errors = FALSE
    /\ heard = [t \in Turns |-> 0]
    /\ captions = [t \in Turns |-> <<>>]
    /\ crashed = FALSE

Live == {t \in Turns : turn[t].pc \in {"final", "brain", "speak"}}
\* The booleans of a Turn that are set, and "cancelling": its speaking
\* subtask has been asked to stop.
Flags == {"speaking", "interrupted", "final_sent", "listening_sent", "cancelling"}
Has(t, f) == f \in turn[t].flags
TaskRunning(t) == turn[t].task \in {"created", "synth", "playout"}

\* Turn t, and no other, becomes the record r.
Becomes(t, r) == turn' = [turn EXCEPT ![t] = r]

-----------------------------------------------------------------------------
(***************************************************************************)
(* The VAD loop: one hop through the endpointer, then _handle_barge_in,    *)
(* then _on_endpoint, with no await in between.                            *)
(***************************************************************************)

VadReady == "vad" \in loops

\* Only this hop can close an utterance on a partial.  The ready queue is
\* FIFO, so a created turn task runs before the next hop that is pushed; the
\* backlog the loop drains without yielding holds no second such endpoint,
\* as the first one clears the partial; but a hop already due when the
\* ending turn created the task comes before it.
EndpointReady == VadReady /\ (starting = <<>> \/ hopDue)

\* _handle_barge_in passes its early returns: a turn is speaking, not yet
\* interrupted, and the debounce of the last commit is over.
Armed ==
    /\ current # None
    /\ Has(current, "speaking")
    /\ ~Has(current, "interrupted")
    /\ debounce = 0

DebounceTick == debounce' = IF debounce = 0 THEN 0 ELSE debounce - 1

\* First half of a speech hop: pause the queue, reversibly.
Duck == ducked' = TRUE /\ paused' = TRUE

Unduck == ducked' = FALSE /\ paused' = FALSE

\* A speech hop that does not confirm an utterance.
SpeechFrame ==
    /\ VadReady
    /\ ep' = IF ep = "idle" THEN "onset" ELSE ep
    /\ IF Armed /\ ~ducked THEN Duck ELSE UNCHANGED <<ducked, paused>>
    /\ DebounceTick
    /\ UNCHANGED <<utt, worded, sttVars, turnVars, queue, played, heard, wireVars,
                   lifeVars>>

\* The hop on which the run of speech reaches min_speech_ms: SpeechStart.
SpeechStart ==
    /\ VadReady
    /\ ep = "onset" /\ utt < MaxUtt
    /\ ep' = "active" /\ utt' = utt + 1
    /\ UNCHANGED worded

\* SpeechStart with no reply to interrupt.
UtteranceOpens ==
    /\ SpeechStart
    /\ ~Armed
    /\ DebounceTick
    /\ UNCHANGED <<sttVars, turnVars, audioVars, ducked, wireVars, lifeVars>>

FlushForgotten == UNCHANGED queue

Flush == queue' = <<>>

\* Frames played since the turn began.
PlayedSinceCallBegan(t) == played

PlayedSince(t) == played - turn[t].base

\* SpeechStart over a reply: _commit_barge_in, i.e. flush, resume, truncate
\* the caption to the frames played since the turn began, cancel the
\* speaking subtask if it still runs.
BargeInCommits ==
    /\ SpeechStart
    /\ Armed
    /\ Flush
    /\ Unduck
    /\ debounce' = Debounce
    /\ captions' = [captions EXCEPT ![current] = Append(@, PlayedSince(current))]
    /\ wire' = [state |-> "listening", turn |-> current]
    /\ Becomes(current, [turn[current] EXCEPT !.flags =
                  @ \cup {"interrupted", "final_sent", "listening_sent"}
                    \cup (IF TaskRunning(current) THEN {"cancelling"} ELSE {})])
    /\ UNCHANGED <<sttVars, waiterOf, turnNo, current, pending, starting, hopDue,
                   played, heard, lifeVars>>

\* What a silence hop does to the duck: a false positive is undone for free.
SilenceNeverUnducks ==
    /\ DebounceTick
    /\ UNCHANGED <<ducked, paused, queue, played, heard>>

SilenceUnducks ==
    /\ IF Armed /\ ducked THEN Unduck ELSE UNCHANGED <<ducked, paused>>
    /\ DebounceTick
    /\ UNCHANGED <<queue, played, heard>>

\* A silence hop that closes nothing: a candidate run is dropped, an open
\* utterance goes on waiting.
SilenceFrame ==
    /\ VadReady
    /\ ep' = IF ep = "onset" THEN "idle" ELSE ep
    /\ SilenceUnducks
    /\ UNCHANGED <<utt, worded, sttVars, turnVars, wireVars, lifeVars>>

\* Trailing silence closes the open utterance and resets the endpointer.
Closes ==
    /\ ep = "active" /\ ep' = "idle"
    /\ worded' = FALSE

\* The force cap fired on a filler-only or empty partial: no endpoint.
UtteranceSuppressed ==
    /\ VadReady
    /\ Closes /\ ~worded
    /\ SilenceUnducks
    /\ UNCHANGED <<utt, sttVars, turnVars, wireVars, lifeVars>>

\* _on_endpoint: queue the utterance behind the current turn (latest wins) or
\* create the turn's task, which has not run yet.
OnEndpointNeverQueues == starting' = Append(starting, utt) /\ UNCHANGED pending

OnEndpoint ==
    IF current # None
      THEN pending' = utt /\ UNCHANGED starting
      ELSE starting' = Append(starting, utt) /\ UNCHANGED pending

\* The utterance closes.
EndpointFires ==
    /\ EndpointReady
    /\ Closes /\ worded
    /\ hopDue' = FALSE
    /\ SilenceUnducks
    /\ OnEndpoint
    /\ UNCHANGED <<utt, sttVars, turn, waiterOf, turnNo, current, wireVars, lifeVars>>

-----------------------------------------------------------------------------
(***************************************************************************)
(* STT events, routed by _on_stt_event.  The provider may split one        *)
(* utterance into several finals, and may be arbitrarily late.             *)
(***************************************************************************)

\* VadEndpointer.on_partial: the new text is fillers only, or has words.
OnPartial == worded' \in BOOLEAN /\ UNCHANGED <<ep, utt>>

SttPartial ==
    /\ "stt" \in loops /\ sttNext <= utt
    /\ latestPartial' = sttNext
    /\ OnPartial
    /\ UNCHANGED <<sttNext, pendingFinal, turnVars,
                   audioVars, bargeVars, wireVars, lifeVars>>

\* A final goes to the turn whose future is open, otherwise into the
\* one-slot buffer; either way the latest partial is forgotten.
SttFinal ==
    /\ "stt" \in loops /\ sttNext <= utt
    /\ sttNext' \in {sttNext, sttNext + 1}
    /\ latestPartial' = None
    /\ OnPartial
    /\ IF waiterOf # None /\ turn[waiterOf].waiter = "open"
         THEN /\ Becomes(waiterOf, [turn[waiterOf] EXCEPT !.waiter = "result",
                                                          !.text = sttNext])
              /\ UNCHANGED <<pendingFinal>>
         ELSE /\ pendingFinal' = sttNext
              /\ UNCHANGED turn
    /\ UNCHANGED <<waiterOf, turnNo, current, pending, starting, hopDue,
                   audioVars, bargeVars, wireVars, lifeVars>>

\* The provider stream fails: SttSupervisor calls _fail_final_waiter and
\* reconnects, or gives up after two deaths without an event.  The
\* utterances it had heard but not finalised may be lost with it.
SttStreamDies ==
    /\ "stt" \in loops
    /\ sttNext' \in sttNext..(utt + 1)
    /\ IF waiterOf # None /\ turn[waiterOf].waiter = "open"
         THEN Becomes(waiterOf, [turn[waiterOf] EXCEPT !.waiter = "died"])
         ELSE UNCHANGED turn
    /\ loops' \in {loops, loops \ {"stt"}}
    /\ UNCHANGED <<vadVars, latestPartial, pendingFinal, waiterOf,
                   turnNo, current, pending, starting, hopDue, audioVars,
                   bargeVars, wireVars, life, errors, crashed>>

-----------------------------------------------------------------------------
(***************************************************************************)
(* The turn task: _run_turn, _collect_final, _run_speaking.                *)
(***************************************************************************)

\* The record of a turn opened for the oldest created task.
Opened(pc, text, waiter) ==
    [pc |-> pc, utt |-> Head(starting), text |-> text, waiter |-> waiter,
     base |-> played, audio |-> 0, flags |-> {}, task |-> "none", left |-> 0]

\* First step of the oldest created turn task: the turn gets its number,
\* becomes current, announces thinking, and takes the buffered final or
\* waits on a future for it.
TurnBegins ==
    /\ starting # <<>>
    /\ turnNo' = turnNo + 1
    /\ current' = turnNo'
    /\ starting' = Tail(starting)
    /\ hopDue' = FALSE
    /\ wire' = [state |-> "thinking", turn |-> turnNo']
    /\ IF pendingFinal # None
         THEN /\ Becomes(turnNo', Opened("brain", pendingFinal, "none"))
              /\ UNCHANGED waiterOf
         ELSE /\ Becomes(turnNo', Opened("final", None, "open"))
              /\ waiterOf' = turnNo'
    /\ pendingFinal' = None
    /\ UNCHANGED <<vadVars, sttNext, latestPartial, pending,
                   audioVars, bargeVars, captions, lifeVars>>

\* wait_for's timer.  It wins over a final or a death that the task has not
\* yet woken up to see: the pending cancellation is what the task receives.
FinalTimesOut(t) ==
    /\ life # "aborting"
    /\ turn[t].pc = "final" /\ turn[t].waiter \in {"open", "result", "died"}
    /\ Becomes(t, [turn[t] EXCEPT !.waiter = "expired"])
    /\ UNCHANGED <<vadVars, sttVars, waiterOf, turnNo, current, pending, starting, hopDue,
                   audioVars, bargeVars, wireVars, lifeVars>>

\* The waiting task wakes up with a text: the final, or after a timeout the
\* latest partial.  The brain is called.
FinalCollected(t) ==
    /\ life # "aborting"
    /\ turn[t].pc = "final"
    /\ \/ turn[t].waiter = "result"
       \/ turn[t].waiter = "expired" /\ latestPartial # None
    /\ Becomes(t, [turn[t] EXCEPT !.pc = "brain", !.waiter = "none",
                     !.text = IF turn[t].waiter = "result" THEN @ ELSE latestPartial])
    /\ waiterOf' = None
    /\ UNCHANGED <<vadVars, sttVars, turnNo, current, pending, starting, hopDue,
                   audioVars, bargeVars, wireVars, lifeVars>>

\* _run_speaking(turn, text) with n sentences: the subtask is created.
StartSpeaking(t, n) ==
    Becomes(t, [turn[t] EXCEPT !.pc = "speak", !.waiter = "none",
                               !.task = "created", !.left = n])

\* The stream died, or the timeout found nothing heard: the one-sentence
\* re-ask is spoken instead of an answer.
Reask(t) ==
    /\ life # "aborting"
    /\ turn[t].pc = "final"
    /\ \/ turn[t].waiter = "died"
       \/ turn[t].waiter = "expired" /\ latestPartial = None
    /\ StartSpeaking(t, 1)
    /\ waiterOf' = None
    /\ UNCHANGED <<vadVars, sttVars, turnNo, current, pending, starting, hopDue,
                   audioVars, bargeVars, wireVars, lifeVars>>

\* on_stt_final never raises: it returns a reply (which may hold no
\* sentence), or the apology.
BrainReplies(t) ==
    /\ life # "aborting"
    /\ turn[t].pc = "brain"
    /\ \E n \in 0..MaxSentences : StartSpeaking(t, n)
    /\ UNCHANGED <<vadVars, sttVars, waiterOf, turnNo, current, pending, starting, hopDue,
                   audioVars, bargeVars, wireVars, lifeVars>>

-----------------------------------------------------------------------------
(***************************************************************************)
(* The speaking subtask: SpeechDispatcher.speak.                           *)
(***************************************************************************)

SpeakStep(t) == turn[t].pc = "speak" /\ ~Has(t, "cancelling")

\* The next sentence is captioned, billed and its TTS stream opened.
SentenceDispatched(t) ==
    /\ SpeakStep(t) /\ turn[t].left > 0
    /\ turn[t].task \in {"created", "synth"}
    /\ Becomes(t, [turn[t] EXCEPT !.task = "synth", !.left = @ - 1])
    /\ UNCHANGED <<vadVars, sttVars, waiterOf, turnNo, current, pending, starting, hopDue,
                   audioVars, bargeVars, wireVars, lifeVars>>

\* One chunk of the stream reaches the queue; the first one of the turn
\* makes it SPEAKING.
ChunkArrives(t) ==
    /\ SpeakStep(t) /\ turn[t].task = "synth" /\ turn[t].audio < MaxAudio
    /\ queue' = Append(queue, t)
    /\ Becomes(t, [turn[t] EXCEPT !.audio = @ + 1, !.flags = @ \cup {"speaking"}])
    /\ wire' = IF Has(t, "speaking") THEN wire
               ELSE [state |-> "speaking", turn |-> t]
    /\ UNCHANGED <<vadVars, sttVars, waiterOf, turnNo, current, pending, starting, hopDue,
                   played, paused, heard, bargeVars, captions, lifeVars>>

PlayedOut(t) == PlayedSince(t) >= turn[t].audio

\* The last stream ended or failed: drain, then wait for the playout unless
\* it is already over.
SynthesisEnds(t) ==
    /\ SpeakStep(t) /\ turn[t].task = "synth" /\ turn[t].left = 0
    /\ ~PlayedOut(t)
    /\ Becomes(t, [turn[t] EXCEPT !.task = "playout"])
    /\ UNCHANGED <<vadVars, sttVars, waiterOf, turnNo, current, pending, starting, hopDue,
                   audioVars, bargeVars, wireVars, lifeVars>>

\* Everything synthesised has been played: the caption is frozen to the
\* whole reply unless a commit froze it first, and the subtask is done.
PlayoutEnds(t) ==
    /\ SpeakStep(t) /\ turn[t].left = 0
    /\ TaskRunning(t) /\ PlayedOut(t)
    /\ Becomes(t, [turn[t] EXCEPT !.task = "done", !.flags = @ \cup {"final_sent"}])
    /\ IF Has(t, "final_sent")
         THEN UNCHANGED captions
         ELSE captions' = [captions EXCEPT ![t] = Append(@, turn[t].audio)]
    /\ UNCHANGED <<vadVars, sttVars, waiterOf, turnNo, current, pending, starting, hopDue,
                   audioVars, bargeVars, wire, lifeVars>>

\* The cancellation reaches the subtask at whichever await it stands.
SpeakCancelled(t) ==
    /\ turn[t].pc = "speak" /\ TaskRunning(t) /\ Has(t, "cancelling")
    /\ Becomes(t, [turn[t] EXCEPT !.task = "cancelled"])
    /\ UNCHANGED <<vadVars, sttVars, waiterOf, turnNo, current, pending, starting, hopDue,
                   audioVars, bargeVars, wireVars, lifeVars>>

-----------------------------------------------------------------------------
(***************************************************************************)
(* The end of a turn: _run_turn's finally.                                 *)
(***************************************************************************)

\* The Turn object is dropped: what no one reads again is reset.
Ended(r) ==
    [r EXCEPT !.pc = "ended", !.utt = None, !.text = None, !.waiter = "none",
              !.base = 0, !.audio = 0, !.left = 0, !.flags = @ \cap {"interrupted"}]

\* The safety net: never leave the queue paused.
NoSafetyNet == UNCHANGED <<ducked, paused>>

SafetyNet == IF ducked THEN Unduck ELSE UNCHANGED <<ducked, paused>>

\* Say listening, unless a commit did.
SaysListeningAfterSpeech(t) ==
    wire' = IF Has(t, "listening_sent") \/ ~Has(t, "speaking") THEN wire
            ELSE [state |-> "listening", turn |-> t]

SaysListening(t) ==
    wire' = IF Has(t, "listening_sent") THEN wire
            ELSE [state |-> "listening", turn |-> t]

\* Free the slot and create the queued turn's task, which an aborting task
\* group refuses.
Finally(t) ==
    /\ SafetyNet
    /\ SaysListening(t)
    /\ Becomes(t, Ended(turn[t]))
    /\ current' = None
    /\ pending' = None
    /\ starting' = IF pending # None /\ life # "aborting"
                     THEN Append(starting, pending) ELSE starting
    /\ hopDue' \in IF SameTick /\ starting' # <<>> THEN BOOLEAN ELSE {FALSE}
    /\ errors' = (errors \/ (pending # None /\ life = "aborting"))
    /\ UNCHANGED <<vadVars, sttVars, turnNo, queue, played, heard, debounce,
                   captions, life, loops, crashed>>

\* The speaking subtask is over, completed or cancelled.
TurnEnds(t) ==
    /\ turn[t].pc = "speak" /\ turn[t].task \in {"done", "cancelled"}
    /\ Finally(t)
    /\ UNCHANGED waiterOf

\* Teardown cancels a turn waiting for its final or for the brain.
TurnAborted(t) ==
    /\ life = "aborting" /\ turn[t].pc \in {"final", "brain"}
    /\ waiterOf' = IF turn[t].pc = "final" THEN None ELSE waiterOf
    /\ Finally(t)

-----------------------------------------------------------------------------
(***************************************************************************)
(* The pacer and the life of run().                                        *)
(***************************************************************************)

\* One 20 ms tick that plays real audio (silence changes nothing).  The
\* pacer is the call session's: it outlives run() and stops some time later.
FramePlayed ==
    /\ ~paused /\ queue # <<>>
    /\ queue' = Tail(queue)
    /\ played' = played + 1
    /\ heard' = [heard EXCEPT ![Head(queue)] = @ + 1]
    /\ UNCHANGED <<vadVars, sttVars, turnVars, paused, bargeVars, wireVars, lifeVars>>

\* The peer closes: both fan-outs end once their backlog is consumed.
HangUp ==
    /\ life = "running" /\ life' = "draining"
    /\ UNCHANGED <<vadVars, sttVars, turnVars, audioVars, bargeVars, wireVars,
                   loops, errors, crashed>>

LoopEnds(l) ==
    /\ life = "draining" /\ l \in loops
    /\ loops' = loops \ {l}
    /\ UNCHANGED <<vadVars, sttVars, turnVars, audioVars, bargeVars, wireVars,
                   life, errors, crashed>>

\* Cancelling a turn's task cancels the speaking subtask it awaits.
CancelsWaitingOnly ==
    UNCHANGED turn

CancelsSpeaking ==
    turn' = [t \in Turns |-> IF turn[t].pc = "speak" /\ TaskRunning(t)
                               THEN [turn[t] EXCEPT !.flags = @ \cup {"cancelling"}]
                               ELSE turn[t]]

\* The task group aborts: every child is cancelled, and a turn task that
\* never ran is dropped before its try block.
Abort ==
    /\ life' = "aborting"
    /\ loops' = {}
    /\ starting' = <<>>
    /\ hopDue' = FALSE
    /\ CancelsSpeaking
    /\ UNCHANGED <<vadVars, sttVars, waiterOf, turnNo, current, pending,
                   audioVars, bargeVars, wireVars, errors>>

\* CallSession.close() gives up after _CLOSE_TIMEOUT_S and cancels run().
CloseTimesOut == life = "draining" /\ Abort /\ UNCHANGED crashed

\* A loop raises (the VAD model, a malformed frame): the group aborts.
LoopCrashes ==
    /\ life \in {"running", "draining"} /\ "vad" \in loops
    /\ Abort
    /\ crashed' = TRUE

\* The group's last child is gone; run()'s finally sees reason = ERROR iff
\* an exception escaped the group.
GroupEnds ==
    /\ life \in {"draining", "aborting"}
    /\ loops = {} /\ starting = <<>> /\ Live = {}
    /\ life' = IF errors \/ crashed THEN "error" ELSE "hangup"
    /\ UNCHANGED <<vadVars, sttVars, turnVars, audioVars, bargeVars, wireVars,
                   loops, errors, crashed>>

RunReturned == life \in {"error", "hangup"}

Terminated == RunReturned /\ UNCHANGED vars

VadLoop == \/ SpeechFrame \/ UtteranceOpens \/ BargeInCommits
           \/ SilenceFrame \/ UtteranceSuppressed \/ EndpointFires

SttLoop == SttPartial \/ SttFinal \/ SttStreamDies

TurnTask(t) ==
    \/ FinalTimesOut(t) \/ FinalCollected(t) \/ Reask(t) \/ BrainReplies(t)
    \/ TurnEnds(t) \/ TurnAborted(t)

SpeakTask(t) ==
    \/ SentenceDispatched(t) \/ ChunkArrives(t) \/ SynthesisEnds(t)
    \/ PlayoutEnds(t) \/ SpeakCancelled(t)

Next ==
    \/ VadLoop \/ SttLoop \/ TurnBegins \/ FramePlayed
    \/ \E t \in Turns : TurnTask(t) \/ SpeakTask(t)
    \/ HangUp \/ CloseTimesOut \/ LoopCrashes \/ GroupEnds
    \/ \E l \in {"vad", "stt"} : LoopEnds(l)
    \/ Terminated

Spec == Init /\ [][Next]_vars

(***************************************************************************)
(* Fairness.  asyncio's ready queue is FIFO, so a task that can step does; *)
(* the STT deadline, the brain, a TTS stream and close()'s timeout all end *)
(* by themselves; the uplink carries a silence hop again and again while   *)
(* it is open (the caller does breathe); and a resumed queue plays at      *)
(* least one 20 ms frame before the next 32 ms hop can pause it again.     *)
(***************************************************************************)
FairSpec ==
    /\ Spec
    /\ WF_vars(TurnBegins \/ \E t \in Turns : TurnTask(t) \/ SpeakTask(t))
    /\ SF_vars(FramePlayed)
    /\ SF_vars(SilenceFrame)
    /\ WF_vars(CloseTimesOut \/ GroupEnds)

-----------------------------------------------------------------------------
TurnType == [pc : {"none", "final", "brain", "speak", "ended"},
             utt : 0..MaxUtt, text : 0..MaxUtt,
             waiter : {"none", "open", "result", "died", "expired"},
             base : Nat, audio : 0..MaxAudio,
             flags : SUBSET Flags,
             task : {"none", "created", "synth", "playout", "done", "cancelled"},
             left : 0..MaxSentences]

VadOK ==
    /\ ep \in {"idle", "onset", "active"} /\ utt \in 0..MaxUtt

SttOK ==
    /\ sttNext \in 1..(MaxUtt + 1)
    /\ latestPartial \in 0..MaxUtt /\ pendingFinal \in 0..MaxUtt

TurnsOK ==
    /\ turn \in [Turns -> TurnType]
    /\ waiterOf \in 0..MaxUtt
    /\ turnNo \in 0..MaxUtt /\ current \in 0..MaxUtt /\ pending \in 0..MaxUtt
    /\ starting \in Seq(Utts)

AudioOK ==
    /\ queue \in Seq(Turns) /\ played \in Nat
    /\ heard \in [Turns -> Nat] /\ debounce \in 0..Debounce

WireOK ==
    /\ wire \in [state : {"listening", "thinking", "speaking"}, turn : 0..MaxUtt]
    /\ captions \in [Turns -> Seq(Int)]

LifeOK ==
    /\ life \in {"running", "draining", "aborting", "hangup", "error"}
    /\ loops \in SUBSET {"vad", "stt"}

FlagsOK ==
    /\ worded \in BOOLEAN /\ hopDue \in BOOLEAN
    /\ paused \in BOOLEAN /\ ducked \in BOOLEAN
    /\ errors \in BOOLEAN /\ crashed \in BOOLEAN

\* Every variable has the values the code gives it.
TypeOK == VadOK /\ SttOK /\ TurnsOK /\ AudioOK /\ WireOK /\ LifeOK /\ FlagsOK

\* docs/06 6.5: "Each barge-in targets the single turn currently in flight;
\* the state machine has exactly one."  A created task counts as in flight.
OneTurnInFlight ==
    /\ Live \subseteq {current}
    /\ Len(starting) <= 1
    /\ starting # <<>> => Live = {}

\* The queue is paused exactly while the worker believes it ducked, and it
\* believes so only while an uninterrupted reply is being spoken: no later
\* reply is ever played into a paused queue (the "sharp edge" of
\* _commit_barge_in, and _run_turn's safety net).
DuckedOnlyWhileSpeaking ==
    /\ paused = ducked
    /\ ducked => /\ current \in Live
                 /\ Has(current, "speaking") /\ ~Has(current, "interrupted")

\* What is queued for playout was synthesised by the turn in flight (or is
\* left by a reply the teardown cut), and never by a turn the caller has
\* interrupted: a committed barge-in is final, however late the cancellation
\* reaches its speaking subtask.
OnlyCurrentReplyQueued ==
    \A i \in 1..Len(queue) : LET t == queue[i] IN
        /\ ~Has(t, "interrupted")
        /\ t = current \/ (turn[t].pc = "ended" /\ turn[t].task = "cancelled")

\* What the caller hears belongs to one reply: the queue holds its audio and
\* no other, and is paused for no other (flush, _commit_barge_in, _run_turn).
QueueFollowsReply == DuckedOnlyWhileSpeaking /\ OnlyCurrentReplyQueued

\* The caption frozen for a reply credits the frames the caller was played,
\* all of them and no other: truncation is exact and a full caption means a
\* full playout.
CaptionIsWhatWasHeard ==
    \A t \in Turns : \A i \in 1..Len(captions[t]) : captions[t][i] = heard[t]

\* agent.state follows the diagram of docs/13 4: thinking opens a turn,
\* speaking follows thinking of the same turn, listening closes it, and no
\* turn's indicator is overtaken by another's.
WireFollowsDiagram ==
    [][wire' # wire =>
        CASE wire'.state = "thinking"  -> wire.state = "listening" /\ wire'.turn > wire.turn
          [] wire'.state = "speaking"  -> wire.state = "thinking" /\ wire'.turn = wire.turn
          [] wire'.state = "listening" -> wire.state # "listening" /\ wire'.turn = wire.turn]_vars

\* Once a barge-in has committed, the turn never speaks again.
InterruptedStaysSilent ==
    [][\A t \in Turns : Has(t, "interrupted") => heard'[t] = heard[t]]_vars

\* Whatever STT, the brain, TTS and the caller do, a turn that holds the slot
\* gives it back, one whose playout a stutter of speech keeps ducking
\* included; its end opens the queued turn, so no utterance waits forever.
TurnsEnd == current # None ~> current = None

\* A hung-up call reaches run()'s finally.
HangUpReachesFinally == life = "draining" ~> RunReturned

\* docs/13 4, the data-channel table: transcript.final is sent "Once per
\* (turn, role)".
OneFinalPerTurn == \A t \in Turns : Len(captions[t]) <= 1

\* domain/voice.py, SttFinal: "The authoritative transcript for one
\* utterance ... This is the string that opens the brain's turn."
TurnAnswersItsUtterance ==
    \A t \in Turns : turn[t].text # None => turn[t].text = turn[t].utt

\* run()'s docstring: the reason "flips to ERROR only when a real exception
\* escapes the task group - a genuine worker crash".
ErrorMeansCrash == life = "error" => crashed
=============================================================================
