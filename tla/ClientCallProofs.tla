-------------------------- MODULE ClientCallProofs --------------------------
(***************************************************************************)
(* The microphone on the phone opens after audio focus was asked for, for  *)
(* every number of hang-ups, mute taps, focus changes and losses.          *)
(*                                                                         *)
(* Two coroutines share no variable but the published state: the one that  *)
(* opens the transport and the coordinator that asks for focus.  What      *)
(* orders them is the worker's run queue: dispatch publishes the state     *)
(* before it executes the effect, so the coordinator's collector stands in *)
(* the queue before the transport's continuation can.                      *)
(***************************************************************************)
EXTENDS ClientCall, SequenceTheorems, TLAPS

\* What the queue and the event channel hold before the coordinator has seen a live call.
EarlyTasks == {"loop", "coord", "mint", "transport", "frames", "mute"}
EarlyEvents == {"tapped", "minted", "failed", "hangup"}

\* The coordinator's collector is in q, ahead of the transport and of its frames.
CoordFirst(q) ==
  \E i \in 1..Len(q) : q[i] = "coord" /\ \A j \in 1..(i - 1) : q[j] \notin {"transport", "frames"}
NoTransport(q) == \A i \in 1..Len(q) : q[i] \notin {"transport", "frames"}

Early ==
  /\ tasks \in Seq(EarlyTasks) /\ events \in Seq(EarlyEvents)
  /\ svc = "up" /\ answer = "off" /\ grace = "off"
  /\ \/ state \in {"Idle", "Requesting"} /\ transport = "off" /\ fpc = "off"
        /\ ws = "none" /\ NoTransport(tasks)
     \/ state = "Signaling" /\ transport \in {"connecting", "opened", "refused"}
        /\ fpc = "idle" /\ CoordFirst(tasks)

Over == state = "Ended" /\ transport = "off"

FocusInv ==
  /\ fg => focus # "none"
  /\ ~fg => focus = "none" /\ peer # "live" /\ (Early \/ Over)

-----------------------------------------------------------------------------
(* The run queue.                                                          *)

LEMMA PostFacts ==
  ASSUME NEW q \in Seq(EarlyTasks), NEW t \in EarlyTasks
  PROVE  /\ Post(q, t) \in Seq(EarlyTasks) /\ Append(q, t) \in Seq(EarlyTasks)
         /\ CoordFirst(q) => CoordFirst(Post(q, t)) /\ CoordFirst(Append(q, t))
         /\ NoTransport(q) /\ t \notin {"transport", "frames"} =>
              NoTransport(Post(q, t)) /\ NoTransport(Append(q, t))
<1>1. /\ Append(q, t) \in Seq(EarlyTasks) /\ Len(Append(q, t)) = Len(q) + 1 /\ Len(q) \in Nat
      /\ \A i \in 1..Len(q) : Append(q, t)[i] = q[i]
      /\ Append(q, t)[Len(q) + 1] = t
  OBVIOUS
<1>2. CoordFirst(q) => CoordFirst(Append(q, t))
  <2> SUFFICES ASSUME CoordFirst(q) PROVE CoordFirst(Append(q, t))
    OBVIOUS
  <2>1. PICK i \in 1..Len(q) : /\ q[i] = "coord"
                               /\ \A j \in 1..(i - 1) : q[j] \notin {"transport", "frames"}
    BY DEF CoordFirst
  <2>2. i \in 1..Len(Append(q, t)) /\ \A j \in 1..i : Append(q, t)[j] = q[j]
    BY <1>1
  <2> QED BY <2>1, <2>2 DEF CoordFirst
<1>3. NoTransport(q) /\ t \notin {"transport", "frames"} => NoTransport(Append(q, t))
  <2> SUFFICES ASSUME NoTransport(q), t \notin {"transport", "frames"},
                      NEW i \in 1..Len(Append(q, t))
               PROVE  Append(q, t)[i] \notin {"transport", "frames"}
    BY DEF NoTransport
  <2>1. i \in 1..Len(q) \/ i = Len(q) + 1
    BY <1>1
  <2> QED BY <1>1, <2>1 DEF NoTransport
<1> QED BY <1>1, <1>2, <1>3 DEF Post

LEMMA CoordPosted ==
  ASSUME NEW q \in Seq(EarlyTasks), NoTransport(q)
  PROVE  CoordFirst(Post(q, "coord"))
<1>1. CASE Contains(q, "coord")
  <2>1. PICK i \in 1..Len(q) : q[i] = "coord"
    BY <1>1 DEF Contains
  <2> QED BY <1>1, <2>1 DEF Post, CoordFirst, NoTransport
<1>2. CASE ~Contains(q, "coord")
  <2>1. /\ Len(Append(q, "coord")) = Len(q) + 1 /\ Len(q) \in Nat
        /\ \A i \in 1..Len(q) : Append(q, "coord")[i] = q[i]
        /\ Append(q, "coord")[Len(q) + 1] = "coord"
    OBVIOUS
  <2> QED BY <1>2, <2>1 DEF Post, CoordFirst, NoTransport
<1> QED BY <1>1, <1>2

LEMMA TailFacts ==
  ASSUME NEW q \in Seq(EarlyTasks), q # <<>>
  PROVE  /\ Tail(q) \in Seq(EarlyTasks) /\ Head(q) \in EarlyTasks
         /\ NoTransport(q) => NoTransport(Tail(q)) /\ Head(q) \notin {"transport", "frames"}
         /\ CoordFirst(q) => Head(q) \notin {"transport", "frames"}
         /\ CoordFirst(q) /\ Head(q) # "coord" => CoordFirst(Tail(q))
<1>1. /\ Tail(q) \in Seq(EarlyTasks) /\ Len(Tail(q)) = Len(q) - 1 /\ Len(q) \in Nat \ {0}
      /\ \A i \in 1..Len(Tail(q)) : Tail(q)[i] = q[i + 1] /\ i + 1 \in 1..Len(q)
      /\ Head(q) = q[1] /\ Head(q) \in EarlyTasks
  OBVIOUS
<1>2. NoTransport(q) => NoTransport(Tail(q)) /\ Head(q) \notin {"transport", "frames"}
  BY <1>1 DEF NoTransport
<1>3. ASSUME CoordFirst(q)
      PROVE  /\ Head(q) \notin {"transport", "frames"}
             /\ Head(q) # "coord" => CoordFirst(Tail(q))
  <2>1. PICK i \in 1..Len(q) : /\ q[i] = "coord"
                               /\ \A j \in 1..(i - 1) : q[j] \notin {"transport", "frames"}
    BY <1>3 DEF CoordFirst
  <2>2. CASE i = 1
    BY <1>1, <2>1, <2>2
  <2>3. CASE i # 1
    <3>1. i - 1 \in 1..Len(Tail(q)) /\ Tail(q)[i - 1] = "coord" /\ 1 \in 1..(i - 1)
      BY <1>1, <2>1, <2>3
    <3>2. \A j \in 1..(i - 1 - 1) : Tail(q)[j] \notin {"transport", "frames"}
      <4> SUFFICES ASSUME NEW j \in 1..(i - 1 - 1)
                   PROVE  Tail(q)[j] \notin {"transport", "frames"}
        OBVIOUS
      <4>1. j + 1 \in 1..(i - 1) /\ Tail(q)[j] = q[j + 1]
        BY <1>1, <2>1
      <4> QED BY <2>1, <4>1
    <3> QED BY <1>1, <2>1, <3>1, <3>2 DEF CoordFirst
  <2> QED BY <2>2, <2>3
<1> QED BY <1>1, <1>2, <1>3

-----------------------------------------------------------------------------
(* Steps before the coordinator has run.                                   *)

\* A task other than the collector runs, and may send an event to the loop.
LEMMA EarlySends ==
  ASSUME Early, NEW e \in EarlyEvents, NEW q \in Seq(EarlyTasks),
         NoTransport(tasks) => NoTransport(q), CoordFirst(tasks) => CoordFirst(q),
         SendThen(q, e), UNCHANGED <<state, transport, fpc, ws, svc, answer, grace>>
  PROVE  Early'
<1>1. events' \in Seq(EarlyEvents)
  BY DEF SendThen, Early
<1>2. /\ tasks' \in Seq(EarlyTasks)
      /\ NoTransport(q) => NoTransport(tasks')
      /\ CoordFirst(q) => CoordFirst(tasks')
  BY PostFacts DEF SendThen, EarlyTasks
<1> QED BY <1>1, <1>2 DEF Early

LEMMA EarlyHead ==
  ASSUME Early, NEW t, Runs(t)
  PROVE  /\ t \in EarlyTasks \ {"transport", "frames"} /\ Tail(tasks) \in Seq(EarlyTasks)
         /\ NoTransport(tasks) => NoTransport(Tail(tasks))
         /\ CoordFirst(tasks) /\ t # "coord" => CoordFirst(Tail(tasks))
BY TailFacts DEF Early, Runs

\* What the early call leaves as it is.
earlyVars == <<state, transport, fpc, ws, svc, answer, grace>>

LEMMA EarlyPosts ==
  ASSUME Early, UNCHANGED earlyVars, events' \in Seq(EarlyEvents), NEW q \in Seq(EarlyTasks),
         NoTransport(tasks) => NoTransport(q), CoordFirst(tasks) => CoordFirst(q), tasks' = q
  PROVE  Early'
BY DEF Early, earlyVars

LEMMA EarlyLoop ==
  ASSUME Early, RunLoop
  PROVE  Early' \/ Over'
<1>0. /\ Tail(tasks) \in Seq(EarlyTasks)
      /\ NoTransport(tasks) => NoTransport(Tail(tasks))
      /\ CoordFirst(tasks) => CoordFirst(Tail(tasks))
  BY EarlyHead DEF RunLoop
<1>1. CASE events = <<>>
  BY <1>0, <1>1 DEF RunLoop, Early, coordVars
<1>2. CASE events # <<>>
  <2> DEFINE e == Head(events)
             q == Rest(Len(events) > 1)
             r == Reduce(state, e)
  <2>1. /\ state' = r.to /\ events' = Tail(events) /\ tasks' = Queued(q, r) /\ Execute(r.effects)
        /\ svc' = svc
    BY <1>2 DEF RunLoop, coordVars
  <2>2. e \in EarlyEvents /\ events' \in Seq(EarlyEvents)
    BY <1>2, <2>1 DEF Early
  <2>3. /\ q \in Seq(EarlyTasks)
        /\ NoTransport(tasks) => NoTransport(q)
        /\ CoordFirst(tasks) => CoordFirst(q)
    BY <1>0 DEF Rest, Early
  <2> HIDE DEF e, q
  <2>4. \/ r = Go(state, {})
        \/ state = "Idle" /\ r = Go("Requesting", {"MintSession"})
        \/ state = "Requesting" /\ r = Go("Signaling", {"OpenTransport"})
        \/ state = "Requesting" /\ r \in {Go("Ended", {}), Go("Ended", {"ReleaseCall"})}
        \/ state = "Signaling" /\ r \in {Go("Ended", {"ReleaseCall"}), HangUpRow}
    BY <2>2 DEF Reduce, EarlyEvents, Early, Fatal
  <2> HIDE DEF r
  <2>5. CASE r = Go(state, {})
    <3>1. /\ tasks' = q /\ state' = state
          /\ UNCHANGED <<transport, fpc, ws, answer, grace>>
      BY <2>1, <2>5 DEF Go, Queued, PostIf, Execute
    <3>2. UNCHANGED earlyVars
      BY <2>1, <3>1 DEF earlyVars
    <3> QED BY <2>2, <2>3, <3>1, <3>2, EarlyPosts
  <2>6. CASE state = "Idle" /\ r = Go("Requesting", {"MintSession"})
    <3>1. /\ tasks' = Post(q, "coord") /\ state' = "Requesting"
          /\ UNCHANGED <<transport, fpc, ws, answer, grace>>
      BY <2>1, <2>6 DEF Go, Queued, PostIf, Execute
    <3>2. tasks' \in Seq(EarlyTasks) /\ NoTransport(tasks')
      <4>1. NoTransport(q)
        BY <2>3, <2>6 DEF Early
      <4>2. Post(q, "coord") \in Seq(EarlyTasks) /\ NoTransport(Post(q, "coord"))
        BY <2>3, <4>1, PostFacts DEF EarlyTasks
      <4> QED BY <3>1, <4>2
    <3> QED BY <2>1, <2>2, <2>6, <3>1, <3>2 DEF Early
  <2>7. CASE state = "Requesting" /\ r = Go("Signaling", {"OpenTransport"})
    <3>1. /\ tasks' = Post(q, "coord") /\ state' = "Signaling"
          /\ transport' = "connecting" /\ fpc' = "idle" /\ UNCHANGED <<answer, grace>>
      BY <2>1, <2>7 DEF Go, Queued, PostIf, Execute
    <3>2. tasks' \in Seq(EarlyTasks) /\ CoordFirst(tasks')
      <4>1. NoTransport(q)
        BY <2>3, <2>7 DEF Early
      <4>2. Post(q, "coord") \in Seq(EarlyTasks) /\ CoordFirst(Post(q, "coord"))
        BY <2>3, <4>1, PostFacts, CoordPosted DEF EarlyTasks
      <4> QED BY <3>1, <4>2
    <3> QED BY <2>1, <2>2, <3>1, <3>2 DEF Early
  <2>8. CASE state = "Requesting" /\ r = Go("Ended", {})
    BY <2>1, <2>8 DEF Go, Execute, Early, Over
  <2>9. CASE r \in {Go("Ended", {"ReleaseCall"}), HangUpRow}
    <3>1. state' = "Ended" /\ "ReleaseCall" \in r.effects
      BY <2>1, <2>9 DEF Go, HangUpRow
    <3> QED BY <2>1, <3>1 DEF Execute, Release, Over
  <2> QED BY <2>4, <2>5, <2>6, <2>7, <2>8, <2>9
<1> QED BY <1>1, <1>2

LEMMA EarlyWorker ==
  ASSUME Early, Worker, ~fg, focus = "none", peer # "live"
  PROVE  FocusInv'
<1> USE DEF coordVars, loopVars, netVars, peerVars, muteVars
<1>1. CASE RunLoop
  BY <1>1, EarlyLoop DEF RunLoop, FocusInv
<1>2. CASE RunMint
  <2>1. /\ Tail(tasks) \in Seq(EarlyTasks)
        /\ NoTransport(tasks) => NoTransport(Tail(tasks))
        /\ CoordFirst(tasks) => CoordFirst(Tail(tasks))
    BY <1>2, EarlyHead DEF RunMint
  <2>2. \E e \in EarlyEvents : SendThen(Tail(tasks), e)
    BY <1>2 DEF RunMint, EarlyEvents
  <2>3. Early'
    BY <1>2, <2>1, <2>2, EarlySends DEF RunMint
  <2> QED BY <1>2, <2>3 DEF RunMint, FocusInv
<1>3. CASE RunCoord
  <2>1. CASE state = "Idle"
    <3>1. Tail(tasks) \in Seq(EarlyTasks) /\ NoTransport(Tail(tasks))
      BY <1>3, <2>1, EarlyHead DEF RunCoord, Early
    <3>2. fg' = FALSE /\ focus' = focus /\ tasks' = Tail(tasks) /\ svc' = svc /\ peer' = peer
      BY <1>3, <2>1 DEF RunCoord, RequiresForeground
    <3>3. Early'
      BY <1>3, <2>1, <3>1, <3>2 DEF RunCoord, Early
    <3> QED BY <3>2, <3>3 DEF FocusInv
  <2>2. CASE state # "Idle"
    <3>1. RequiresForeground
      BY <2>2 DEF RequiresForeground, Early
    <3>2. fg'
      BY <1>3, <3>1 DEF RunCoord
    <3>3. focus' = "held"
      <4>1. focus' = CASE RequiresForeground /\ ~fg -> Acquire(focus)
                       [] state = "Ended" -> Abandon(focus)
                       [] OTHER -> focus
        BY <1>3 DEF RunCoord
      <4>2. state # "Ended"
        BY DEF Early
      <4> QED BY <3>1, <4>1, <4>2 DEF Acquire
    <3> QED BY <3>2, <3>3 DEF FocusInv
  <2> QED BY <2>1, <2>2
<1>4. CASE RunMute
  <2>1. /\ Tail(tasks) \in Seq(EarlyTasks)
        /\ NoTransport(tasks) => NoTransport(Tail(tasks))
        /\ CoordFirst(tasks) => CoordFirst(Tail(tasks))
    BY <1>4, EarlyHead DEF RunMute
  <2>2. Early'
    BY <1>4, <2>1, EarlyPosts DEF RunMute, Early, earlyVars
  <2> QED BY <1>4, <2>2 DEF RunMute, FocusInv
<1>5. ASSUME NEW t, Runs(t), t \notin {"loop", "mint", "coord", "mute"} PROVE FALSE
  BY <1>5, EarlyHead DEF EarlyTasks
<1> QED BY <1>1, <1>2, <1>3, <1>4, <1>5 DEF Worker, RunTransport, RunFrames, RunRtc, RunAnswerTimer,
           RunGraceTimer, RunClose, RunDelete, RunFocus

LEMMA EarlyOutside ==
  ASSUME Early, Outside, ~fg, focus = "none", peer # "live"
  PROVE  FocusInv'
<1> USE DEF coordVars, loopVars, netVars, peerVars, muteVars
<1>0. UNCHANGED <<fg, focus, peer>> /\ Early' => FocusInv'
  BY DEF FocusInv
<1>1. CASE StartCall \/ HangUp
  <2>1. \E e \in EarlyEvents : SendThen(tasks, e)
    BY <1>1 DEF StartCall, HangUp, EarlyEvents
  <2>2. Early'
    BY <1>1, <2>1, EarlySends DEF StartCall, HangUp, Early
  <2> QED BY <1>0, <1>1, <2>2 DEF StartCall, HangUp
<1>2. CASE ToggleMute
  <2>1. tasks' = Append(tasks, "mute") /\ UNCHANGED <<events, earlyVars>>
    BY <1>2 DEF ToggleMute, earlyVars
  <2>2. Early'
    BY <2>1, PostFacts, EarlyPosts DEF Early, EarlyTasks
  <2> QED BY <1>0, <1>2, <2>2 DEF ToggleMute
<1>3. CASE MintReply
  <2>1. tasks' = Post(tasks, "mint") /\ UNCHANGED <<events, earlyVars>>
    BY <1>3 DEF MintReply, earlyVars
  <2>2. Early'
    BY <2>1, PostFacts, EarlyPosts DEF Early, EarlyTasks
  <2> QED BY <1>0, <1>3, <2>2 DEF MintReply
<1>4. CASE SocketAnswers
  <2>1. /\ tasks' = Post(tasks, "transport") /\ transport' \in {"opened", "refused"}
        /\ transport = "connecting" /\ UNCHANGED <<state, events, fpc, svc, answer, grace>>
    BY <1>4 DEF SocketAnswers
  <2>2. tasks' \in Seq(EarlyTasks) /\ CoordFirst(tasks')
    BY <2>1, PostFacts DEF Early, EarlyTasks
  <2>3. Early'
    BY <2>1, <2>2 DEF Early
  <2> QED BY <1>0, <1>4, <2>3 DEF SocketAnswers
<1>5. CASE ServerSpeaks
  <2>1. /\ tasks' = PostIf(tasks, "frames", fpc = "idle") /\ ws = "open"
        /\ UNCHANGED <<state, events, transport, fpc, svc, answer, grace>>
    BY <1>5 DEF ServerSpeaks, Deliver
  <2>2. state = "Signaling" /\ tasks' \in Seq(EarlyTasks) /\ CoordFirst(tasks')
    BY <2>1, PostFacts DEF Early, EarlyTasks, PostIf
  <2>3. Early'
    BY <2>1, <2>2 DEF Early
  <2> QED BY <1>0, <1>5, <2>3 DEF ServerSpeaks
<1>6. ~(FocusChange \/ Destroy \/ OfferReady \/ ServerAnswers \/ RemoteSet \/ LinkUp
          \/ LinkDown \/ AnswerDue \/ GraceDue)
  BY DEF FocusChange, Destroy, OfferReady, ServerAnswers, RemoteSet, LinkUp, LinkDown, AnswerDue,
         GraceDue, Early
<1> QED BY <1>1, <1>2, <1>3, <1>4, <1>5, <1>6 DEF Outside

-----------------------------------------------------------------------------
(* Steps of a call that ended before the coordinator has run, and after.   *)

LEMMA OverSteps ==
  ASSUME Over, Next, ~fg, focus = "none", peer # "live"
  PROVE  FocusInv'
<1> USE DEF coordVars, loopVars, netVars, peerVars, muteVars
<1>0. UNCHANGED <<fg, focus>> /\ peer' # "live" /\ Over' => FocusInv'
  BY DEF FocusInv
<1>1. CASE RunLoop
  <2>1. \A e : Reduce(state, e) = Go("Ended", {})
    BY DEF Over, Reduce
  <2>2. state' = "Ended" /\ transport' = transport
    BY <1>1, <2>1 DEF RunLoop, Go, Execute, Over
  <2> QED BY <1>0, <1>1, <2>2 DEF RunLoop, Over
<1>2. CASE RunCoord
  <2>1. ~RequiresForeground /\ state = "Ended"
    BY DEF RequiresForeground, Over
  <2>2. focus' = CASE RequiresForeground /\ ~fg -> Acquire(focus)
                   [] state = "Ended" -> Abandon(focus)
                   [] OTHER -> focus
    BY <1>2 DEF RunCoord
  <2>3. focus' = "none"
    BY <2>1, <2>2 DEF Abandon
  <2>4. ~fg'
    BY <1>2, <2>1 DEF RunCoord
  <2>5. Over' /\ peer' # "live"
    BY <1>2 DEF RunCoord, Over
  <2> QED BY <2>3, <2>4, <2>5 DEF FocusInv
<1>3. CASE RunMint \/ RunFrames \/ RunRtc \/ RunAnswerTimer \/ RunGraceTimer \/ RunDelete
           \/ RunMute \/ RunFocus
  BY <1>0, <1>3 DEF RunMint, RunFrames, RunRtc, RunAnswerTimer, RunGraceTimer, RunDelete, RunMute,
                   RunFocus, Over
<1>4. CASE RunClose
  BY <1>0, <1>4 DEF RunClose, Over
<1>5. CASE Destroy
  BY <1>0, <1>5 DEF Destroy, Abandon, Over
<1>6. CASE StartCall \/ HangUp \/ ToggleMute \/ FocusChange \/ MintReply \/ ServerAnswers
           \/ ServerSpeaks \/ RemoteSet \/ AnswerDue \/ GraceDue
  BY <1>0, <1>6 DEF StartCall, HangUp, ToggleMute, FocusChange, MintReply, ServerAnswers,
                   ServerSpeaks, RemoteSet, AnswerDue, GraceDue, Over
<1>7. ~(RunTransport \/ SocketAnswers \/ OfferReady \/ LinkUp \/ LinkDown)
  BY DEF RunTransport, StartPeer, SendOffer, TransportFails, SocketAnswers, OfferReady, LinkUp,
         LinkDown, Over
<1> QED BY <1>1, <1>2, <1>3, <1>4, <1>5, <1>6, <1>7 DEF Next, Worker, Outside

\* Once asked for, focus may be given back, but the coordinator does not forget it.
LEMMA LateSteps ==
  ASSUME fg, focus # "none", Next
  PROVE  FocusInv'
<1> USE DEF coordVars
<1>1. CASE RunCoord
  BY <1>1 DEF RunCoord, Abandon, FocusInv
<1>2. CASE Destroy
  BY <1>2 DEF Destroy, Abandon, FocusInv
<1>3. CASE UNCHANGED <<fg, focus>>
  BY <1>3 DEF FocusInv
<1>4. RunCoord \/ Destroy \/ UNCHANGED <<fg, focus>>
  BY DEF Next, Worker, Outside, RunLoop, RunMint, RunTransport, RunFrames, RunRtc,
         RunAnswerTimer, RunGraceTimer, RunClose, RunDelete, RunMute, RunFocus, StartCall, HangUp,
         ToggleMute, FocusChange, MintReply, SocketAnswers, OfferReady, ServerAnswers,
         ServerSpeaks, RemoteSet, LinkUp, LinkDown, AnswerDue, GraceDue
<1> QED BY <1>1, <1>2, <1>3, <1>4

\* The microphone never opens before audio focus was asked for: the state is published
\* before the transport is opened, and the queue keeps that order.
THEOREM FocusFirst == Spec => []FocusBeforeMic
<1>1. Init => FocusInv
  <2> SUFFICES ASSUME Init PROVE FocusInv
    OBVIOUS
  <2>1. tasks = <<"loop", "coord">> /\ events = <<>>
    BY DEF Init
  <2>2. /\ tasks \in Seq(EarlyTasks) /\ events \in Seq(EarlyEvents)
        /\ NoTransport(tasks)
    BY <2>1 DEF EarlyTasks, NoTransport
  <2> QED BY <2>2 DEF Init, FocusInv, Early
<1>2. FocusInv /\ [Next]_vars => FocusInv'
  <2>1. ASSUME FocusInv, Next PROVE FocusInv'
    BY <2>1, EarlyWorker, EarlyOutside, OverSteps, LateSteps DEF FocusInv, Next
  <2>2. ASSUME FocusInv, UNCHANGED vars PROVE FocusInv'
    BY <2>2 DEF FocusInv, Early, Over, vars, loopVars, netVars, peerVars, coordVars, muteVars
  <2> QED BY <2>1, <2>2
<1>3. FocusInv => FocusBeforeMic
  BY DEF FocusInv, FocusBeforeMic
<1> QED BY <1>1, <1>2, <1>3, PTL DEF Spec
=============================================================================
