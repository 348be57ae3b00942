----------------------------- MODULE ClientCall -----------------------------
(***************************************************************************)
(* The Android side of one support call: the reducer CallStateMachine, the *)
(* CallController that executes its effects, the VoiceCallCoordinator that *)
(* owns audio focus and mute, the OkHttp signalling socket, the libwebrtc  *)
(* peer, and the VoiceCallService instance they live in.                   *)
(*                                                                         *)
(* Everything in the service's scope runs on one confined worker           *)
(* (Dispatchers.Default.limitedParallelism(1)), so `tasks' is that worker's*)
(* run queue: a coroutine that becomes runnable is appended, and runs, one *)
(* step without suspending, when it reaches the head.  The network,        *)
(* libwebrtc, the timers and the main thread act at any time; all they can *)
(* do is fill a buffer and make a coroutine runnable.                      *)
(***************************************************************************)
EXTENDS Naturals, Sequences, SequencesExt

CONSTANTS MaxActs   \* how many hang-ups, mute taps, focus changes, link losses and
                    \* server-side ends one behaviour may hold, of any kinds

ASSUME MaxActsAssumption == MaxActs \in Nat

VARIABLES
  state, events,      \* CallStateMachine._state; CallController.events
  tasks,              \* the run queue of the service's confined worker
  mint, hasId,        \* the createSession coroutine; CallController.sessionId
  transport,          \* the openTransport coroutine (transportJob)
  ws, told,           \* the signalling socket; what the server was sent of the end
  fpc, frames,        \* collectSignalingFrames: its place, its replay buffer
  peer, link, ever,   \* the PeerConnection, its connection state, everConnected
  rtc, track,         \* collectRtcEvents' buffer; the local audio track
  answer, grace,      \* answerTimeoutJob, graceJob
  ctx,                \* contextScope # null
  fg, focus, fq,      \* everForegrounded; audio focus; buffered focus changes
  userMuted, autoMuted,
  svc,                \* the service instance: up, stopSelf called, destroyed
  left                \* what is left of MaxActs

loopVars  == <<state, events, hasId>>
netVars   == <<ws, told, frames>>
peerVars  == <<peer, link, ever, rtc>>
coordVars == <<fg, focus, svc>>
muteVars  == <<userMuted, autoMuted, track>>
vars == <<loopVars, tasks, mint, transport, netVars, fpc, peerVars, answer, grace,
          ctx, coordVars, fq, muteVars, left>>

States == {"Idle", "Requesting", "Signaling", "Connecting", "InCall",
           "Reconnecting", "Ended"}
Events == {"tapped", "minted", "failed", "timeout", "answered", "connected", "lost",
           "resumed", "sigClosed", "bye", "hangup", "grace"}
Tasks  == {"loop", "coord", "mint", "transport", "frames", "rtc", "answerTimer",
           "graceTimer", "close", "delete", "mute", "focus"}

\* A coroutine that is already runnable is not queued a second time.
Post(q, t) == IF Contains(q, t) THEN q ELSE Append(q, t)
PostIf(q, t, cond) == IF cond THEN Post(q, t) ELSE q
Without(q, ts) == SelectSeq(q, LAMBDA t : t \notin ts)
Spend == left > 0 /\ left' = left - 1
Alive == svc # "destroyed"
Runs(t) == tasks # <<>> /\ Head(tasks) = t
\* What is left of the queue when the task at its head goes on or suspends.
Rest(goesOn) == IF goesOn THEN tasks ELSE Tail(tasks)

-----------------------------------------------------------------------------
(* The reducer.                                                            *)

Go(s, effects) == [to |-> s, effects |-> effects]
HangUpRow == Go("Ended", {"SendBye", "ReleaseCall", "EndSession"})
Fatal == {"failed", "timeout", "sigClosed", "bye"}

Reduce(s, e) ==
  CASE s = "Idle" /\ e = "tapped" -> Go("Requesting", {"MintSession"})
    [] s = "Requesting" /\ e = "minted" -> Go("Signaling", {"OpenTransport"})
    [] s = "Requesting" /\ e \in {"failed", "timeout"} -> Go("Ended", {})
    [] s = "Requesting" /\ e = "hangup" -> Go("Ended", {"ReleaseCall"})
    [] s = "Signaling" /\ e = "answered" -> Go("Connecting", {})
    [] s = "Signaling" /\ e \in Fatal -> Go("Ended", {"ReleaseCall"})
    [] s = "Connecting" /\ e = "connected" -> Go("InCall", {"BindContext"})
    [] s = "Connecting" /\ e \in Fatal \cup {"lost"} -> Go("Ended", {"ReleaseCall"})
    [] s = "InCall" /\ e \in {"lost", "sigClosed"} -> Go("Reconnecting", {"StartGrace"})
    [] s = "Reconnecting" /\ e = "resumed" -> Go("InCall", {"CancelGrace"})
    [] s = "Reconnecting" /\ e = "grace" -> Go("Ended", {"ReleaseCall", "EndSession"})
    [] s \in {"InCall", "Reconnecting"} /\ e = "bye" -> Go("Ended", {"ReleaseCall"})
    [] s \in {"Signaling", "Connecting", "InCall", "Reconnecting"} /\ e = "hangup" ->
         HangUpRow
    [] OTHER -> Go(s, {})

\* CallStateMachine.dispatch publishes the state, which makes the coordinator's
\* collector runnable, and the controller executes the effects in order; what
\* ReleaseCall and EndSessionOnApi launch is queued behind the collector.
ReleasedTasks == {"mint", "transport", "frames", "rtc", "answerTimer", "graceTimer"}

QueuedUnderTransport(q, r) ==
  LET published == PostIf(q, "coord", r.to # state)
      kept      == CASE "ReleaseCall" \in r.effects -> Without(published, ReleasedTasks)
                     [] "CancelGrace" \in r.effects -> Without(published, {"graceTimer"})
                     [] OTHER -> published
  IN  IF "EndSession" \in r.effects /\ hasId THEN Append(kept, "delete") ELSE kept

Queued(q, r) ==
  LET published == PostIf(q, "coord", r.to # state)
      kept      == IF "ReleaseCall" \in r.effects
                   THEN Append(Without(published, ReleasedTasks), "close")
                   ELSE IF "CancelGrace" \in r.effects
                        THEN Without(published, {"graceTimer"}) ELSE published
  IN  IF "EndSession" \in r.effects /\ hasId THEN Append(kept, "delete") ELSE kept

\* releaseCall: the context scope first, then both timers, then the transport
\* job with its collectors; the closing of peer and socket is launched.  A
\* cancelled connect() also cancels its socket.
Release ==
  /\ ctx' = FALSE
  /\ answer' = "off" /\ grace' = "off"
  /\ mint' = "off" /\ transport' = "off" /\ fpc' = "off"
  /\ ws' = IF transport = "connecting" THEN "dead" ELSE ws

Execute(effects) ==
  /\ told' = IF "SendBye" \in effects /\ ws = "open" THEN told \cup {"bye"} ELSE told
  /\ IF "ReleaseCall" \in effects THEN Release
     ELSE /\ mint' = IF "MintSession" \in effects THEN "asking" ELSE mint
          /\ transport' = IF "OpenTransport" \in effects THEN "connecting" ELSE transport
          /\ fpc' = IF "OpenTransport" \in effects THEN "idle" ELSE fpc
          /\ ctx' = (ctx \/ "BindContext" \in effects)
          /\ grace' = CASE "StartGrace" \in effects -> "armed"
                        [] "CancelGrace" \in effects -> "off"
                        [] OTHER -> grace
          /\ UNCHANGED <<answer, ws>>

\* One event of CallController's serial dispatch loop.
RunLoop ==
  /\ Runs("loop")
  /\ IF events = <<>>
     THEN /\ tasks' = Tail(tasks)
          /\ UNCHANGED <<state, events, told, mint, transport, fpc, ctx, grace, answer, ws>>
     ELSE LET r == Reduce(state, Head(events))
          IN  /\ state' = r.to
              /\ events' = Tail(events)
              /\ tasks' = Queued(Rest(Len(events) > 1), r)
              /\ Execute(r.effects)
  /\ UNCHANGED <<hasId, frames, peerVars, coordVars, fq, muteVars, left>>

\* dispatch(): append to the unlimited channel, resume the loop.
SendThen(q, e) == events' = Append(events, e) /\ tasks' = Post(q, "loop")

-----------------------------------------------------------------------------
(* The coroutines of the call scope.                                       *)

\* mintSession after createSession has answered.
RunMint ==
  /\ Runs("mint")
  /\ hasId' = (hasId \/ mint = "ok")
  /\ SendThen(Tail(tasks), IF mint = "ok" THEN "minted" ELSE "failed")
  /\ mint' = "done"
  /\ UNCHANGED <<state, transport, netVars, fpc, peerVars, answer, grace, ctx, coordVars,
                 fq, muteVars, left>>

\* WebRtcClient.start up to its first suspension: the peer, the ctx channel, the
\* microphone track, then createOffer.  Native set-up may throw instead.
StartPeer ==
  /\ transport = "opened"
  /\ \/ /\ peer' = "live" /\ track' = "on" /\ transport' = "offering"
        /\ tasks' = Tail(tasks)
        /\ UNCHANGED events
     \/ /\ peer' \in {peer, "live"} /\ transport' = "failed"
        /\ SendThen(Tail(tasks), "failed")
        /\ UNCHANGED track
  /\ UNCHANGED answer

\* Mutant: no answer timeout.
SendOfferUntimed ==
  /\ transport = "offered"
  /\ transport' = "done"
  /\ tasks' = Tail(tasks)
  /\ UNCHANGED <<events, peer, track, answer>>

\* The offer is sent and the answer timeout started.
SendOffer ==
  /\ transport = "offered"
  /\ transport' = "done"
  /\ answer' = "armed"
  /\ tasks' = Tail(tasks)
  /\ UNCHANGED <<events, peer, track>>

TransportFails ==
  /\ transport \in {"refused", "offerFailed"}
  /\ transport' = "failed"
  /\ SendThen(Tail(tasks), "failed")
  /\ UNCHANGED <<answer, peer, track>>

RunTransport ==
  /\ Runs("transport")
  /\ StartPeer \/ SendOffer \/ TransportFails
  /\ UNCHANGED <<state, hasId, mint, netVars, fpc, link, ever, rtc, grace, ctx, coordVars,
                 fq, userMuted, autoMuted, left>>

\* collectSignalingFrames: an answer cancels the timeout and suspends in
\* applyAnswer; every other frame becomes an event.
FrameEvent == [bye |-> "bye", error |-> "failed", closed |-> "sigClosed"]

TakeAnswer ==
  /\ fpc = "idle" /\ Head(frames) = "answer"
  /\ answer' = "off"
  /\ fpc' = "applying"
  /\ frames' = Tail(frames)
  /\ tasks' = Without(Tail(tasks), {"answerTimer"})
  /\ UNCHANGED events

TakeFrame ==
  /\ fpc = "idle" /\ Head(frames) # "answer"
  /\ frames' = Tail(frames)
  /\ SendThen(Rest(Len(frames) > 1), FrameEvent[Head(frames)])
  /\ UNCHANGED <<answer, fpc>>

AnswerSet ==
  /\ fpc \in {"applied", "rejected"}
  /\ fpc' = "idle"
  /\ SendThen(Rest(frames # <<>>), IF fpc = "applied" THEN "answered" ELSE "failed")
  /\ UNCHANGED <<answer, frames>>

RunFrames ==
  /\ Runs("frames")
  /\ TakeAnswer \/ TakeFrame \/ AnswerSet
  /\ UNCHANGED <<state, hasId, mint, transport, ws, told, peerVars, grace, ctx, coordVars,
                 fq, muteVars, left>>

\* collectRtcEvents.
RunRtc ==
  /\ Runs("rtc")
  /\ rtc' = Tail(rtc)
  /\ SendThen(Rest(Len(rtc) > 1), Head(rtc))
  /\ UNCHANGED <<state, hasId, mint, transport, netVars, fpc, peer, link, ever, answer,
                 grace, ctx, coordVars, fq, muteVars, left>>

RunAnswerTimer ==
  /\ Runs("answerTimer")
  /\ answer' = "off"
  /\ SendThen(Tail(tasks), "timeout")
  /\ UNCHANGED <<state, hasId, mint, transport, netVars, fpc, peerVars, grace, ctx,
                 coordVars, fq, muteVars, left>>

RunGraceTimer ==
  /\ Runs("graceTimer")
  /\ grace' = "off"
  /\ SendThen(Tail(tasks), "grace")
  /\ UNCHANGED <<state, hasId, mint, transport, netVars, fpc, peerVars, answer, ctx,
                 coordVars, fq, muteVars, left>>

\* What releaseCall launched: webRtc.close(), then signaling.close().
RunClose ==
  /\ Runs("close")
  /\ tasks' = Tail(tasks)
  /\ peer' = "closed" /\ track' = "none"
  /\ ws' = IF ws = "open" THEN "closed" ELSE ws
  /\ UNCHANGED <<loopVars, mint, transport, told, frames, fpc, link, ever, rtc, answer,
                 grace, ctx, coordVars, fq, userMuted, autoMuted, left>>

\* What endSessionOnApi launched: the idempotent DELETE.
RunDelete ==
  /\ Runs("delete")
  /\ tasks' = Tail(tasks)
  /\ told' = told \cup {"delete"}
  /\ UNCHANGED <<loopVars, mint, transport, ws, frames, fpc, peerVars, answer, grace, ctx,
                 coordVars, fq, muteVars, left>>

-----------------------------------------------------------------------------
(* VoiceCallCoordinator.                                                   *)

RequiresForeground == state \notin {"Idle", "Ended"}

\* AndroidCallAudioSession: acquire and release are idempotent.
Acquire(f) == IF f = "held" THEN f ELSE "held"
Abandon(f) == IF f = "held" THEN "released" ELSE f

\* Mutant: focus is asked for when the call is up (docs/03 section 3.4's wording).
RunCoordInCall ==
  /\ Runs("coord")
  /\ tasks' = Tail(tasks)
  /\ fg' = (fg \/ RequiresForeground)
  /\ focus' = CASE state = "InCall" /\ focus = "none" -> Acquire(focus)
                [] state = "Ended" -> Abandon(focus)
                [] OTHER -> focus
  /\ svc' = IF state = "Ended" THEN "stopping" ELSE svc
  /\ UNCHANGED <<loopVars, mint, transport, netVars, fpc, peerVars, answer, grace, ctx, fq,
                 muteVars, left>>

\* collectCallState: a StateFlow collector sees the latest state only.
RunCoord ==
  /\ Runs("coord")
  /\ tasks' = Tail(tasks)
  /\ fg' = (fg \/ RequiresForeground)
  /\ focus' = CASE RequiresForeground /\ ~fg -> Acquire(focus)
                [] state = "Ended" -> Abandon(focus)
                [] OTHER -> focus
  /\ svc' = IF state = "Ended" THEN "stopping" ELSE svc
  /\ UNCHANGED <<loopVars, mint, transport, netVars, fpc, peerVars, answer, grace, ctx, fq,
                 muteVars, left>>

\* applyMuteState and PeerConnectionWebRtcClient.setMuted: without a track the
\* call does nothing.
ApplyMute(user, auto) ==
  /\ userMuted' = user /\ autoMuted' = auto
  /\ track' = CASE track = "none" -> "none"
                [] user \/ auto -> "off"
                [] OTHER -> "on"

RunMute ==
  /\ Runs("mute")
  /\ tasks' = Tail(tasks)
  /\ ApplyMute(~userMuted, autoMuted)
  /\ UNCHANGED <<loopVars, mint, transport, netVars, fpc, peerVars, answer, grace, ctx,
                 coordVars, fq, left>>

\* collectFocusChanges: a transient loss mutes, a gain lifts that mute only, a
\* permanent loss hangs up.
RunFocus ==
  /\ Runs("focus")
  /\ fq' = Tail(fq)
  /\ IF Head(fq) = "LOST"
     THEN SendThen(Rest(Len(fq) > 1), "hangup") /\ UNCHANGED muteVars
     ELSE /\ ApplyMute(userMuted, Head(fq) = "LOST_TRANSIENT")
          /\ tasks' = Rest(Len(fq) > 1)
          /\ UNCHANGED events
  /\ UNCHANGED <<state, hasId, mint, transport, netVars, fpc, peerVars, answer, grace, ctx,
                 coordVars, left>>

-----------------------------------------------------------------------------
(* The main thread: VoiceCallService.                                      *)

\* handleStart ends in startCall; a second START finds the controller and
\* returns.
StartCall ==
  /\ Alive /\ state = "Idle" /\ events = <<>>
  /\ SendThen(tasks, "tapped")
  /\ UNCHANGED <<state, hasId, mint, transport, netVars, fpc, peerVars, answer, grace, ctx,
                 coordVars, fq, muteVars, left>>

HangUp ==
  /\ Alive /\ (state # "Idle" \/ events # <<>>)
  /\ Spend
  /\ SendThen(tasks, "hangup")
  /\ UNCHANGED <<state, hasId, mint, transport, netVars, fpc, peerVars, answer, grace, ctx,
                 coordVars, fq, muteVars>>

ToggleMute ==
  /\ Alive /\ (state # "Idle" \/ events # <<>>)
  /\ Spend
  /\ tasks' = Append(tasks, "mute")
  /\ UNCHANGED <<loopVars, mint, transport, netVars, fpc, peerVars, answer, grace, ctx,
                 coordVars, fq, muteVars>>

\* The platform, while focus is held.
FocusChange ==
  /\ Alive /\ focus = "held"
  /\ Spend
  /\ \E c \in {"GAINED", "LOST_TRANSIENT", "LOST"} : fq' = Append(fq, c)
  /\ tasks' = Post(tasks, "focus")
  /\ UNCHANGED <<loopVars, mint, transport, netVars, fpc, peerVars, answer, grace, ctx,
                 coordVars, muteVars>>

\* onDestroy, once stopSelf was called and no client is bound: the scope is
\* cancelled, and a coroutine that was only launched never runs.
Destroy ==
  /\ svc = "stopping"
  /\ svc' = "destroyed"
  /\ tasks' = <<>>
  /\ mint' = "off" /\ transport' = "off" /\ fpc' = "off"
  /\ answer' = "off" /\ grace' = "off" /\ ctx' = FALSE
  /\ focus' = Abandon(focus)
  /\ UNCHANGED <<loopVars, netVars, peerVars, fg, fq, muteVars, left>>

-----------------------------------------------------------------------------
(* The network, libwebrtc and the clock.                                   *)

MintReply ==
  /\ Alive /\ mint = "asking"
  /\ mint' \in {"ok", "no"}
  /\ tasks' = Post(tasks, "mint")
  /\ UNCHANGED <<loopVars, transport, netVars, fpc, peerVars, answer, grace, ctx, coordVars,
                 fq, muteVars, left>>

SocketAnswers ==
  /\ Alive /\ transport = "connecting"
  /\ transport' \in {"opened", "refused"}
  /\ ws' = IF transport' = "opened" THEN "open" ELSE "dead"
  /\ tasks' = Post(tasks, "transport")
  /\ UNCHANGED <<loopVars, mint, told, frames, fpc, peerVars, answer, grace, ctx, coordVars,
                 fq, muteVars, left>>

OfferReady ==
  /\ Alive /\ transport = "offering"
  /\ transport' \in {"offered", "offerFailed"}
  /\ tasks' = Post(tasks, "transport")
  /\ UNCHANGED <<loopVars, mint, netVars, fpc, peerVars, answer, grace, ctx, coordVars, fq,
                 muteVars, left>>

\* A frame, or the socket's one terminal emission; a local close emits none.
Deliver(f) ==
  /\ frames' = Append(frames, f)
  /\ tasks' = PostIf(tasks, "frames", fpc = "idle")

ServerAnswers ==
  /\ Alive /\ ws = "open" /\ transport = "done" /\ fpc = "idle"
  /\ link = "new" /\ ~Contains(frames, "answer")
  /\ Deliver("answer")
  /\ UNCHANGED <<loopVars, mint, transport, ws, told, fpc, peerVars, answer, grace, ctx,
                 coordVars, fq, muteVars, left>>

ServerSpeaks ==
  /\ Alive /\ ws = "open"
  /\ Spend
  /\ \/ /\ \E f \in {"bye", "error"} : Deliver(f)
        /\ UNCHANGED ws
     \/ /\ ws' = "dead"
        /\ Deliver("closed")
  /\ UNCHANGED <<loopVars, mint, transport, told, fpc, peerVars, answer, grace, ctx,
                 coordVars, fq, muteVars>>

\* setRemoteDescription's callback.
RemoteSet ==
  /\ Alive /\ fpc = "applying"
  /\ fpc' \in {"applied", "rejected"}
  /\ link' = IF fpc' = "applied" THEN "ready" ELSE link
  /\ tasks' = Post(tasks, "frames")
  /\ UNCHANGED <<loopVars, mint, transport, netVars, peer, ever, rtc, answer, grace, ctx,
                 coordVars, fq, muteVars, left>>

\* PeerObserver.onConnectionChange: CONNECTED is reported once as PeerConnected
\* and from then on as TransportResumed.
Report(e) ==
  /\ rtc' = Append(rtc, e)
  /\ tasks' = PostIf(tasks, "rtc", transport # "off")

LinkUp ==
  /\ Alive /\ peer = "live" /\ link \in {"ready", "down"}
  /\ link' = "up" /\ ever' = TRUE
  /\ Report(IF ever THEN "resumed" ELSE "connected")
  /\ UNCHANGED <<loopVars, mint, transport, netVars, fpc, peer, answer, grace, ctx,
                 coordVars, fq, muteVars, left>>

\* DISCONNECTED may recover; FAILED, after it or in its place, does not.
LinkDown ==
  /\ Alive /\ peer = "live" /\ link \in {"ready", "up", "down"}
  /\ Spend
  /\ link' \in IF link = "up" THEN {"down", "failed"} ELSE {"failed"}
  /\ Report("lost")
  /\ UNCHANGED <<loopVars, mint, transport, netVars, fpc, peer, ever, answer, grace, ctx,
                 coordVars, fq, muteVars>>

AnswerDue ==
  /\ Alive /\ answer = "armed"
  /\ answer' = "due"
  /\ tasks' = Post(tasks, "answerTimer")
  /\ UNCHANGED <<loopVars, mint, transport, netVars, fpc, peerVars, grace, ctx, coordVars,
                 fq, muteVars, left>>

GraceDue ==
  /\ Alive /\ grace = "armed"
  /\ grace' = "due"
  /\ tasks' = Post(tasks, "graceTimer")
  /\ UNCHANGED <<loopVars, mint, transport, netVars, fpc, peerVars, answer, ctx, coordVars,
                 fq, muteVars, left>>

-----------------------------------------------------------------------------
Init ==
  /\ state = "Idle" /\ events = <<>> /\ tasks = <<"loop", "coord">>
  /\ mint = "off" /\ hasId = FALSE /\ transport = "off"
  /\ ws = "none" /\ told = {} /\ fpc = "off" /\ frames = <<>>
  /\ peer = "none" /\ link = "new" /\ ever = FALSE /\ rtc = <<>> /\ track = "none"
  /\ answer = "off" /\ grace = "off" /\ ctx = FALSE
  /\ fg = FALSE /\ focus = "none" /\ fq = <<>>
  /\ userMuted = FALSE /\ autoMuted = FALSE
  /\ svc = "up" /\ left = MaxActs

Worker ==
  \/ RunLoop \/ RunMint \/ RunTransport \/ RunFrames \/ RunRtc \/ RunAnswerTimer
  \/ RunGraceTimer \/ RunClose \/ RunDelete \/ RunCoord \/ RunMute \/ RunFocus

Outside ==
  \/ StartCall \/ HangUp \/ ToggleMute \/ FocusChange \/ Destroy
  \/ MintReply \/ SocketAnswers \/ OfferReady \/ ServerAnswers \/ ServerSpeaks
  \/ RemoteSet \/ LinkUp \/ LinkDown \/ AnswerDue \/ GraceDue

Next == Worker \/ Outside

Spec == Init /\ [][Next]_vars

\* The worker runs what is runnable; the REST client and OkHttp time out by
\* themselves; libwebrtc calls back; ICE connects or fails; a timer fires.
\* Nothing is assumed of the user, the server or the network's losses.
FairSpec ==
  /\ Spec
  /\ WF_vars(Worker)
  /\ WF_vars(MintReply) /\ WF_vars(SocketAnswers) /\ WF_vars(OfferReady)
  /\ WF_vars(RemoteSet) /\ WF_vars(LinkUp) /\ WF_vars(AnswerDue) /\ WF_vars(GraceDue)

-----------------------------------------------------------------------------
TypeOK ==
  /\ state \in States /\ events \in Seq(Events) /\ tasks \in Seq(Tasks)
  /\ mint \in {"off", "asking", "ok", "no", "done"} /\ hasId \in BOOLEAN
  /\ transport \in {"off", "connecting", "opened", "refused", "offering", "offered",
                    "offerFailed", "done", "failed"}
  /\ ws \in {"none", "open", "dead", "closed"} /\ told \subseteq {"bye", "delete"}
  /\ fpc \in {"off", "idle", "applying", "applied", "rejected"}
  /\ frames \in Seq({"answer", "bye", "error", "closed"})
  /\ peer \in {"none", "live", "closed"} /\ ever \in BOOLEAN
  /\ link \in {"new", "ready", "up", "down", "failed"}
  /\ rtc \in Seq({"connected", "lost", "resumed"}) /\ track \in {"none", "on", "off"}
  /\ answer \in {"off", "armed", "due"} /\ grace \in {"off", "armed", "due"}
  /\ Contains(tasks, "answerTimer") <=> answer = "due"
  /\ Contains(tasks, "graceTimer") <=> grace = "due"
  /\ ctx \in BOOLEAN /\ fg \in BOOLEAN /\ focus \in {"none", "held", "released"}
  /\ fq \in Seq({"GAINED", "LOST_TRANSIENT", "LOST"})
  /\ userMuted \in BOOLEAN /\ autoMuted \in BOOLEAN
  /\ svc \in {"up", "stopping", "destroyed"} /\ left \in 0..MaxActs

\* The microphone never opens before the coordinator has asked for audio focus:
\* two coroutines that share only the state flow and the order of the run queue.
FocusBeforeMic == peer = "live" => focus # "none"

\* A call that was started comes to media or to an end; it never hangs in a
\* set-up state or in Reconnecting.
NoStuckCall ==
  state \in {"Requesting", "Signaling", "Connecting", "Reconnecting"}
    ~> state \in {"InCall", "Ended"}

\* After the end the peer and the socket are closed, focus is given back and the
\* service stops, whichever path led there; unless the service is destroyed
\* before the launched close has run.
EndReleasesAll ==
  state = "Ended" ~>
    svc = "destroyed" \/ (peer # "live" /\ ws # "open" /\ focus # "held" /\ svc = "stopping")

\* "recover or end, never a zombie control plane" (CallStateMachine.kt:120): once
\* the loss of the socket was reduced, the call is not InCall without a socket.
NoZombieControl ==
  state = "InCall" /\ ws = "dead" =>
    Contains(frames, "closed") \/ Contains(events, "sigClosed")

\* "the uplink stays muted while either is true" (VoiceCallCoordinator.kt:134).
MutedIsSilent == userMuted \/ autoMuted => track # "on"
=============================================================================
