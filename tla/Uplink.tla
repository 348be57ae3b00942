------------------------------- MODULE Uplink -------------------------------
(***************************************************************************)
(* The merchant's voice on its way in: AudioIngress fans the decoded track *)
(* out to the endpointer, in hops, and to speech-to-text, in chunks;       *)
(* VadEndpointer closes utterances on trailing silence and on the text so  *)
(* far; SttSupervisor keeps one Deepgram stream alive and feeds it.  The   *)
(* worker's routing ties them: what STT says is the text the endpointer    *)
(* judges.                                                                 *)
(*                                                                         *)
(* Time is counted in units of sound.  A unit of sound is its place on the *)
(* wire's clock and whether it is voice.  A text is the position of the    *)
(* last sound it transcribes and its shape: "complete" for looks_complete, *)
(* "filler" for is_filler_only.                                            *)
(***************************************************************************)
EXTENDS Integers, Sequences, FiniteSets, FiniteSetsExt, SequencesExt

CONSTANTS
  FRAME,                          \* units in a decoded frame
  VAD_HOP, GAP_INSERT_THRESHOLD,  \* audio_ingress.py
  MAX_QUEUED_STT, MAX_QUEUED_VAD, \* audio_ingress.py: units, hops
  MIN_SPEECH, ENDPOINT_SILENCE, MAX_ENDPOINT_DELAY,   \* config.py
  MAX_DEATHS_WITHOUT_EVENTS,      \* stt_supervisor.py
  Gaps,                           \* jumps of the track's timestamps
  Shapes,                         \* of the texts Deepgram may send
  MaxWire, MaxFaults,
  None

ASSUME UplinkAssumption ==
  /\ {FRAME, VAD_HOP, GAP_INSERT_THRESHOLD, MAX_QUEUED_STT, MAX_QUEUED_VAD, MIN_SPEECH,
      ENDPOINT_SILENCE, MAX_ENDPOINT_DELAY, MAX_DEATHS_WITHOUT_EVENTS} \subseteq Nat \ {0}
  /\ ENDPOINT_SILENCE <= MAX_ENDPOINT_DELAY
  /\ Gaps \subseteq Nat /\ {MaxWire, MaxFaults} \subseteq Nat
  /\ Shapes \subseteq {"complete", "open", "filler"}

VARIABLES
  wire, closed,           \* the track: its clock; ended
  emitted,                \* AudioIngress: units handed to the fan-outs
  vadBuf, vadQ,           \* partial hop, fan-out (b)
  sttQ,                   \* fan-out (a)
  onset, active, silence, text,  \* VadEndpointer
  event, spoke,           \* what the last hop made it return; the wire's clock after
                          \* the last hop it took for speech
  sup, deaths, yielded,   \* SttSupervisor.run
  audioQ, sentinel,       \* SttSupervisor._audio_q; its end marker
  sender, conn, segs,     \* DeepgramStt.stream: _send_audio, the socket, the segments
  heard,                  \* the last voice the service has received
  metered, delivered, streams,  \* chunks counted, chunks sent; sockets opened
  faults

trackVars == <<wire, closed, emitted>>
vadVars   == <<vadBuf, vadQ>>
endVars   == <<onset, active, silence, event, spoke>>
streamVars == <<sender, conn, segs, yielded>>
countVars == <<metered, delivered, streams>>
vars == <<trackVars, vadVars, sttQ, endVars, text, sup, deaths, audioQ, sentinel,
          streamVars, heard, countVars, faults>>

Fault == faults < MaxFaults /\ faults' = faults + 1

-----------------------------------------------------------------------------
(* AudioIngress.                                                           *)

\* _emit's while loop: whole hops out of the buffer, each with its own timestamp.
Hops(buf, from) ==
  [k \in 1..(Len(buf) \div VAD_HOP) |->
     LET units == SubSeq(buf, (k - 1) * VAD_HOP + 1, k * VAD_HOP)
     IN [ts |-> from + (k - 1) * VAD_HOP,
         voiced |-> {u.voice : u \in ToSet(units)},
         at |-> units[VAD_HOP].at]]

Rest(buf) == SubSeq(buf, (Len(buf) \div VAD_HOP) * VAD_HOP + 1, Len(buf))

\* _offer_vad: the oldest hops are dropped over the cap.
OfferVad(q) == SubSeq(q, IF Len(q) > MAX_QUEUED_VAD THEN Len(q) - MAX_QUEUED_VAD + 1 ELSE 1,
                      Len(q))

\* _offer_stt: the oldest chunks are dropped while the backlog is over its bytes, never
\* the last one.
OfferStt(q) ==
  LET Bytes(i) == FoldLeft(LAMBDA n, c : n + c.units, 0, SubSeq(q, i, Len(q)))
  IN IF q = <<>> THEN q
     ELSE SubSeq(q, Min({i \in 1..Len(q) : Bytes(i) <= MAX_QUEUED_STT \/ i = Len(q)}), Len(q))

Chunk(units, end) ==
  IF units = <<>> THEN <<>>
  ELSE <<[units |-> Len(units), end |-> end, voiced |-> \E u \in ToSet(units) : u.voice]>>

Units(n, from, voice) == [i \in 1..n |-> [at |-> from + i, voice |-> voice]]

\* _insert_gap_silence: a jump at or above the threshold becomes silence.
GapSilence(gap) == IF gap >= GAP_INSERT_THRESHOLD THEN Units(gap, wire, FALSE) ELSE <<>>

\* push: the gap, then the frame, to both fan-outs.
Push(voice, gap) ==
  /\ ~closed /\ wire + gap + FRAME <= MaxWire
  /\ LET hush == GapSilence(gap)
         sound == Units(FRAME, wire + gap, voice)
         buf == vadBuf \o hush \o sound
         mid == emitted + Len(hush)
     IN /\ wire' = wire + gap + FRAME
        /\ emitted' = mid + FRAME
        /\ vadBuf' = Rest(buf)
        /\ vadQ' = OfferVad(vadQ \o Hops(buf, emitted - Len(vadBuf)))
        /\ sttQ' = OfferStt(OfferStt(sttQ \o Chunk(hush, mid)) \o Chunk(sound, mid + FRAME))
  /\ UNCHANGED <<closed, endVars, text, sup, deaths, audioQ, sentinel, streamVars,
                 heard, countVars, faults>>

\* The track ends or the call is closed: the partial hop goes, both fan-outs end after
\* what they hold.
Close ==
  /\ ~closed /\ closed' = TRUE /\ vadBuf' = <<>>
  /\ UNCHANGED <<wire, emitted, vadQ, sttQ, endVars, text, sup, deaths,
                 audioQ, sentinel, streamVars, heard, countVars, faults>>

-----------------------------------------------------------------------------
(* VadEndpointer.on_frame, one hop at a time.                              *)

\* Mutant: speech in the middle of an utterance leaves the silence clock running.
OnSpeechKeepingClock(hop, end) ==
  /\ UNCHANGED <<silence, text>>
  /\ event' = None /\ spoke' = hop.at
  /\ onset' = IF active \/ onset # None THEN onset ELSE hop.ts
  /\ active' = (active \/ end - onset' >= MIN_SPEECH)

\* _on_speech_frame.
OnSpeech(hop, end) ==
  /\ silence' = None
  /\ onset' = IF active \/ onset # None THEN onset ELSE hop.ts
  /\ active' = (active \/ end - onset' >= MIN_SPEECH)
  /\ event' = None /\ spoke' = hop.at
  /\ UNCHANGED text

\* _on_silence_frame outside an utterance: the candidate run is broken.
OnCough ==
  /\ ~active
  /\ onset' = None /\ event' = None
  /\ UNCHANGED <<active, silence, text, spoke>>

Since(hop) == IF silence = None THEN hop.ts ELSE silence

\* _close: reset, and the endpoint, unless the cap fired on nothing but fillers.
CloseUtterance(ms, forced, hop) ==
  /\ onset' = None /\ active' = FALSE /\ silence' = None /\ text' = None
  /\ event' = IF forced /\ (text = None \/ text.shape = "filler") THEN None
              ELSE [endpoint_ms |-> ms, forced |-> forced, text |-> text, onset |-> onset,
                    at |-> hop.at]

\* _on_silence_frame inside one.
OnSilence(hop, end) ==
  /\ active /\ UNCHANGED spoke
  /\ LET ms == end - Since(hop)
     IN IF ms >= MAX_ENDPOINT_DELAY THEN CloseUtterance(ms, TRUE, hop)
        ELSE IF ms >= ENDPOINT_SILENCE /\ text # None /\ text.shape = "complete"
        THEN CloseUtterance(ms, FALSE, hop)
        ELSE /\ silence' = Since(hop) /\ event' = None
             /\ UNCHANGED <<onset, active, text>>

\* The model may judge a hop that is part voice either way.
OnHop ==
  /\ vadQ # <<>>
  /\ vadQ' = Tail(vadQ)
  /\ LET hop == Head(vadQ)
         end == hop.ts + VAD_HOP
     IN \/ TRUE \in hop.voiced /\ OnSpeech(hop, end)
        \/ FALSE \in hop.voiced /\ (OnCough \/ OnSilence(hop, end))
  /\ UNCHANGED <<trackVars, vadBuf, sttQ, sup, deaths, audioQ, sentinel, streamVars,
                 heard, countVars, faults>>

-----------------------------------------------------------------------------
(* SttSupervisor and the stream it keeps.                                  *)

\* Mutant: the chunk is metered where it is queued, too.
PumpMetering ==
  /\ sup # "over" /\ sttQ # <<>>
  /\ audioQ' = Append(audioQ, Head(sttQ)) /\ sttQ' = Tail(sttQ)
  /\ metered' = metered + 1
  /\ UNCHANGED <<trackVars, vadVars, endVars, text, sup, deaths, sentinel, streamVars,
                 heard, delivered, streams, faults>>

\* _pump_audio: the one subscriber of the fan-out.
Pump ==
  /\ sup # "over" /\ sttQ # <<>>
  /\ audioQ' = Append(audioQ, Head(sttQ)) /\ sttQ' = Tail(sttQ)
  /\ UNCHANGED <<trackVars, vadVars, endVars, text, sup, deaths, sentinel, streamVars,
                 heard, countVars, faults>>

PumpEnds ==
  /\ sup # "over" /\ closed /\ sttQ = <<>> /\ sentinel = "due"
  /\ sentinel' = "queued"
  /\ UNCHANGED <<trackVars, vadVars, sttQ, endVars, text, sup, deaths, audioQ,
                 streamVars, heard, countVars, faults>>

\* run's except branch: an end without an event uses up the budget.
Died ==
  LET n == IF yielded THEN 0 ELSE deaths + 1
  IN /\ deaths' = n /\ yielded' = FALSE
     /\ sup' = IF n >= MAX_DEATHS_WITHOUT_EVENTS THEN "over" ELSE "connecting"
     /\ sender' = "gone" /\ conn' = "none" /\ segs' = None

Connect ==
  /\ sup = "connecting"
  /\ \/ /\ sup' = "up" /\ sender' = "waiting" /\ conn' = "open" /\ segs' = None
        /\ yielded' = FALSE /\ streams' = streams + 1
        /\ UNCHANGED <<deaths, faults>>
     \/ Fault /\ Died /\ UNCHANGED streams
  /\ UNCHANGED <<trackVars, vadVars, sttQ, endVars, text, audioQ, sentinel, heard,
                 metered, delivered>>

\* _queued_audio yields a chunk, metering it, to _send_audio.
Take ==
  /\ sender = "waiting" /\ audioQ # <<>>
  /\ sender' = "holding" /\ metered' = metered + 1
  /\ UNCHANGED <<trackVars, vadVars, sttQ, endVars, text, sup, deaths, audioQ, sentinel,
                 conn, segs, yielded, heard, delivered, streams, faults>>

\* ws.send: the chunk is off the queue whatever becomes of it.
Give ==
  /\ sender = "holding"
  /\ audioQ' = Tail(audioQ)
  /\ IF conn = "open"
     THEN /\ sender' = "waiting" /\ delivered' = delivered + 1
          /\ heard' = IF Head(audioQ).voiced THEN Head(audioQ).end ELSE heard
     ELSE sender' = "raised" /\ UNCHANGED <<delivered, heard>>
  /\ UNCHANGED <<trackVars, vadVars, sttQ, endVars, text, sup, deaths, sentinel, conn,
                 segs, yielded, metered, streams, faults>>

\* Mutant: the end marker is not put back.
TakeEndOnce ==
  /\ sender = "waiting" /\ audioQ = <<>> /\ sentinel = "queued"
  /\ sentinel' = "taken"
  /\ sender' = IF conn = "open" THEN "flushed" ELSE "raised"
  /\ UNCHANGED <<trackVars, vadVars, sttQ, endVars, text, sup, deaths, audioQ, conn,
                 segs, yielded, heard, countVars, faults>>

\* The marker, put back for the next stream; CloseStream.
TakeEnd ==
  /\ sender = "waiting" /\ audioQ = <<>> /\ sentinel = "queued"
  /\ sender' = IF conn = "open" THEN "flushed" ELSE "raised"
  /\ UNCHANGED <<trackVars, vadVars, sttQ, endVars, text, sup, deaths, audioQ, sentinel,
                 conn, segs, yielded, heard, countVars, faults>>

\* The service or the network ends the socket: properly, or not.
Hangs ==
  /\ conn = "open" /\ Fault
  /\ conn' \in {"closed", "broken"}
  /\ UNCHANGED <<trackVars, vadVars, sttQ, endVars, text, sup, deaths, audioQ, sentinel,
                 sender, segs, yielded, heard, countVars>>

\* The service has flushed its results after CloseStream.
Flushed ==
  /\ conn = "open" /\ sender = "flushed"
  /\ conn' = "closed"
  /\ UNCHANGED <<trackVars, vadVars, sttQ, endVars, text, sup, deaths, audioQ, sentinel,
                 sender, segs, yielded, heard, countVars, faults>>

\* The receive loop sees the end.  After a proper one the sender's own exception
\* counts, if it has one; a chunk in its hand is lost.
StreamEnds ==
  /\ conn \in {"closed", "broken"}
  /\ audioQ' = IF sender = "holding" THEN Tail(audioQ) ELSE audioQ
  /\ IF conn = "closed" /\ sender # "raised"
     THEN /\ sup' = "over" /\ sender' = "gone" /\ conn' = "none" /\ segs' = None
          /\ yielded' = FALSE /\ UNCHANGED deaths
     ELSE Died
  /\ UNCHANGED <<trackVars, vadVars, sttQ, endVars, text, sentinel, heard, countVars,
                 faults>>

\* A Results message, folded: the text with the finalized segments before it, and the
\* segments that stay.  No text means silence.
FoldResult(msg, isFinal, speechFinal) ==
  LET merged == IF msg = None THEN segs ELSE msg
  IN [out  |-> IF isFinal THEN merged ELSE msg,
      keep |-> IF ~isFinal THEN segs ELSE IF speechFinal THEN None ELSE merged]

\* _on_stt_event: partial or final, the endpointer gets its text.
Result ==
  /\ conn = "open"
  /\ \E msg \in {None} \cup [thru : {heard}, shape : IF heard > 0 THEN Shapes ELSE {}],
        isFinal, speechFinal \in BOOLEAN :
       LET r == FoldResult(msg, isFinal, speechFinal)
       IN /\ speechFinal => isFinal
          /\ r.out # None
          /\ text' = r.out /\ segs' = r.keep /\ yielded' = TRUE
  /\ UNCHANGED <<trackVars, vadVars, sttQ, endVars, event, sup, deaths, audioQ, sentinel,
                 sender, conn, heard, countVars, faults>>

-----------------------------------------------------------------------------

Init ==
  /\ wire = 0 /\ closed = FALSE /\ emitted = 0
  /\ vadBuf = <<>> /\ vadQ = <<>> /\ sttQ = <<>>
  /\ onset = None /\ active = FALSE /\ silence = None /\ text = None /\ event = None /\ spoke = 0
  /\ sup = "connecting" /\ deaths = 0 /\ yielded = FALSE
  /\ audioQ = <<>> /\ sentinel = "due"
  /\ sender = "gone" /\ conn = "none" /\ segs = None /\ heard = 0
  /\ metered = 0 /\ delivered = 0 /\ streams = 0 /\ faults = 0

SttStep == Pump \/ PumpEnds \/ Connect \/ Take \/ Give \/ TakeEnd \/ StreamEnds

Next ==
  \/ \E voice \in BOOLEAN, gap \in Gaps : Push(voice, gap)
  \/ Close \/ OnHop \/ SttStep \/ Hangs \/ Flushed \/ Result

\* The loop's tasks run; the service answers CloseStream.
FairSpec ==
  /\ Init /\ [][Next]_vars
  /\ WF_vars(OnHop) /\ WF_vars(SttStep) /\ WF_vars(Flushed)

-----------------------------------------------------------------------------
(* Properties.                                                             *)

\* An endpoint's endpoint_ms is silence that passed on the wire since the last speech:
\* queued and dropped hops, inserted gaps and jumps too short to insert never make it
\* longer than it was.
EndpointIsHonest == event # None => event.endpoint_ms <= event.at - spoke

\* What is billed as speech-to-text was sent to the service, but for one chunk for each
\* time a stream ended.
MeteredIsDelivered == metered <= delivered + streams

\* Once the track has ended, speech-to-text ends, however the streams before it ended.
SttStopsWithCall == closed ~> sup = "over"

\* vad_endpointer.py, judgment call 8: text of a finished utterance never satisfies the
\* next utterance's completeness check.
StaleTextNeverCloses == event # None /\ ~event.forced => event.text.thru > event.onset

\* stt_supervisor.py: a clean close means the ingress ended, the call is over.
CleanCloseIsHangUp == sup = "over" /\ deaths < MAX_DEATHS_WITHOUT_EVENTS => closed
=============================================================================
