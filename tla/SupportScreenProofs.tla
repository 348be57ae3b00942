------------------------- MODULE SupportScreenProofs -------------------------
(***************************************************************************)
(* The screen's verdict: "ended" is shown over no call that goes on, for   *)
(* every number of visits, calls and rebinds.                              *)
(*                                                                         *)
(* One call at most is alive, and it is the service's.  A view model that  *)
(* has no answer yet spends one attempt on each bind that finds no         *)
(* controller and on each the platform refuses; the attempts left are      *)
(* always more than the turns a start command can still be late and the    *)
(* refusals still to come (Slack), so that the last one is spent only when *)
(* no call is left to wait for.                                            *)
(***************************************************************************)
EXTENDS SupportScreen, TLAPS

SomeLive == \E c \in Calls : Live(c)

\* A start command that will make a call.
StartDue == start # None /\ controller = None

ScreenType ==
  /\ attempts \in Nat /\ faults \in 0..MaxFaults
  /\ start \in Nat \union {None}
  /\ controller \in Calls \union {None} /\ call \in Calls \union {None}
  /\ state \in [Calls -> {"none", "idle", "up", "ended"}]

\* The one call that lives is the service's, which is started and not about to stop.
OneCall ==
  /\ \A c \in Calls : Live(c) => c = controller /\ started
  /\ stopping => started /\ controller # None /\ ~Live(controller)
  /\ StartDue => started

\* What the view model holds on to, and when it still asks.
Binding ==
  /\ call # None => call = controller /\ connection /\ CanHangUp /\ attempts = 0
  /\ retry => attempts > 0 /\ ~connection
  /\ connecting => connection
  /\ attempts > 0 => phase = "connecting"
  /\ ~vm => phase = "idle" /\ ~connection

\* The attempts left outlast what may still go wrong.
Asked == IF connecting THEN 1 ELSE 0
Slack ==
  attempts > 0 =>
    /\ SomeLive => attempts > MaxFaults - faults
    /\ StartDue => attempts > start + (MaxFaults - faults) + Asked

\* No call lives, or comes to life, under an "ended" screen.
EndedInv == phase = "ended" => ~SomeLive /\ ~StartDue

IInv == ScreenType /\ OneCall /\ Binding /\ Slack /\ EndedInv

LEMMA Constants ==
  /\ CONTROLLER_ATTACH_ATTEMPTS \in Nat /\ StartLag \in Nat /\ MaxFaults \in Nat
  /\ MaxCalls \in Nat /\ Calls \subseteq Nat /\ None \notin Nat /\ None \notin Calls
  /\ CONTROLLER_ATTACH_ATTEMPTS > StartLag + MaxFaults + 1
BY SupportAssumption, SlackAssumption DEF Calls

LEMMA ScreenInit == Init => IInv
BY Constants DEF Init, IInv, ScreenType, OneCall, Binding, Slack, EndedInv, SomeLive, StartDue,
                 Live, CanHangUp, Asked



\* A bind that finds no controller leaves an attempt fewer, and a rebind if one is left.
LEMMA Unanswered ==
  ASSUME Controllerless(attempts, phase), attempts \in Nat, attempts > 0 => phase = "connecting",
         call = None, vm'
  PROVE  Binding'
<1>1. call' = None /\ ~connection' /\ ~connecting'
  BY DEF Controllerless
<1>2. retry' => attempts > 1
  BY DEF Controllerless
<1>3. attempts > 1 => attempts' > 0
  BY DEF Controllerless
<1>4. attempts' > 0 => phase' = "connecting"
  BY DEF Controllerless
<1> QED BY <1>1, <1>2, <1>3, <1>4 DEF Binding

LEMMA StepOpen == ASSUME IInv, Open PROVE IInv'
<1> USE Constants DEF Open, Refused, Later, uiVars, bindVars, chipVars, callVars, serviceVars,
                      userVars, IInv
<1>1. ScreenType'
  BY DEF ScreenType, OneCall, Binding, Live, CanHangUp, Timely
<1>2. OneCall'
  BY DEF ScreenType, OneCall, Binding, Live, CanHangUp, StartDue, Timely
<1>3. Binding'
  BY DEF ScreenType, OneCall, Binding, Live, CanHangUp, ToPhase, Timely
<1>4. Slack'
  BY DEF ScreenType, OneCall, Binding, Slack, Asked, Live, SomeLive, StartDue, CanHangUp, Timely
<1>5. EndedInv'
  BY DEF ScreenType, OneCall, Binding, Slack, Asked, EndedInv, Live, SomeLive, StartDue,
         CanHangUp, ToPhase, Timely
<1> QED BY <1>1, <1>2, <1>3, <1>4, <1>5

LEMMA StepLeave == ASSUME IInv, Leave PROVE IInv'
<1> USE Constants DEF Leave, Release, Service, Later, uiVars, bindVars, chipVars, callVars,
                      serviceVars, userVars, IInv
<1>1. ScreenType'
  BY DEF ScreenType, OneCall, Binding, Live, CanHangUp, Timely
<1>2. OneCall'
  BY DEF ScreenType, OneCall, Binding, Live, CanHangUp, StartDue, Timely
<1>3. Binding'
  BY DEF ScreenType, OneCall, Binding, Live, CanHangUp, ToPhase, Timely
<1>4. Slack'
  BY DEF ScreenType, OneCall, Binding, Slack, Asked, Live, SomeLive, StartDue, CanHangUp, Timely
<1>5. EndedInv'
  BY DEF ScreenType, OneCall, Binding, Slack, Asked, EndedInv, Live, SomeLive, StartDue,
         CanHangUp, ToPhase, Timely
<1> QED BY <1>1, <1>2, <1>3, <1>4, <1>5

LEMMA StepStartCall == ASSUME IInv, StartCall PROVE IInv'
<1> USE Constants DEF StartCall, Controllerless, CallFailed, Release, Service, Refused, Later,
                      uiVars, bindVars, chipVars, callVars, serviceVars, userVars, IInv
<1>1. ScreenType'
  BY DEF ScreenType, OneCall, Binding, Live, CanHangUp, Timely
<1>2. OneCall'
  BY DEF ScreenType, OneCall, Binding, Live, CanHangUp, StartDue, Timely
<1>3. Binding'
  BY DEF ScreenType, OneCall, Binding, Live, CanHangUp, ToPhase, Timely
<1>4. Slack'
  BY DEF ScreenType, OneCall, Binding, Slack, Asked, Live, SomeLive, StartDue, CanHangUp, Timely
<1>5. EndedInv'
  BY DEF ScreenType, OneCall, Binding, Slack, Asked, EndedInv, Live, SomeLive, StartDue,
         CanHangUp, ToPhase, Timely
<1> QED BY <1>1, <1>2, <1>3, <1>4, <1>5

LEMMA StepHangUp == ASSUME IInv, HangUp PROVE IInv'
<1> USE Constants DEF HangUp, Later, uiVars, bindVars, chipVars, callVars, serviceVars,
                      userVars, IInv
<1>1. ScreenType'
  BY DEF ScreenType, OneCall, Binding, Live, CanHangUp, Timely
<1>2. OneCall'
  BY DEF ScreenType, OneCall, Binding, Live, CanHangUp, StartDue, Timely
<1>3. Binding'
  BY DEF ScreenType, OneCall, Binding, Live, CanHangUp, ToPhase, Timely
<1>4. Slack'
  BY DEF ScreenType, OneCall, Binding, Slack, Asked, Live, SomeLive, StartDue, CanHangUp, Timely
<1>5. EndedInv'
  BY DEF ScreenType, OneCall, Binding, Slack, Asked, EndedInv, Live, SomeLive, StartDue,
         CanHangUp, ToPhase, Timely
<1> QED BY <1>1, <1>2, <1>3, <1>4, <1>5

LEMMA StepDismiss == ASSUME IInv, Dismiss PROVE IInv'
<1> USE Constants DEF Dismiss, Later, uiVars, bindVars, chipVars, callVars, serviceVars,
                      userVars, IInv
<1>1. ScreenType'
  BY DEF ScreenType, OneCall, Binding, Live, CanHangUp, Timely
<1>2. OneCall'
  BY DEF ScreenType, OneCall, Binding, Live, CanHangUp, StartDue, Timely
<1>3. Binding'
  BY DEF ScreenType, OneCall, Binding, Live, CanHangUp, ToPhase, Timely
<1>4. Slack'
  BY DEF ScreenType, OneCall, Binding, Slack, Asked, Live, SomeLive, StartDue, CanHangUp, Timely
<1>5. EndedInv'
  BY DEF ScreenType, OneCall, Binding, Slack, Asked, EndedInv, Live, SomeLive, StartDue,
         CanHangUp, ToPhase, Timely
<1> QED BY <1>1, <1>2, <1>3, <1>4, <1>5

LEMMA StepOnStart == ASSUME IInv, OnStart PROVE IInv'
<1> USE Constants DEF OnStart, Refused, uiVars, bindVars, chipVars, callVars, serviceVars,
                      userVars, IInv
<1>1. ScreenType'
  BY DEF ScreenType, OneCall, Binding, Live, CanHangUp, Timely
<1>2. OneCall'
  BY DEF ScreenType, OneCall, Binding, Live, CanHangUp, StartDue, Timely
<1>3. Binding'
  BY DEF ScreenType, OneCall, Binding, Live, CanHangUp, ToPhase, Timely
<1>4. Slack'
  BY DEF ScreenType, OneCall, Binding, Slack, Asked, Live, SomeLive, StartDue, CanHangUp, Timely
<1>5. EndedInv'
  BY DEF ScreenType, OneCall, Binding, Slack, Asked, EndedInv, Live, SomeLive, StartDue,
         CanHangUp, ToPhase, Timely
<1> QED BY <1>1, <1>2, <1>3, <1>4, <1>5

LEMMA StepCallMoves == ASSUME IInv, CallMoves PROVE IInv'
<1> USE Constants DEF CallMoves, Ends, uiVars, bindVars, chipVars, callVars, serviceVars,
                      userVars, IInv
<1>1. ScreenType'
  BY DEF ScreenType, OneCall, Binding, Live, CanHangUp, Timely
<1>2. OneCall'
  BY DEF ScreenType, OneCall, Binding, Live, CanHangUp, StartDue, Timely
<1>3. Binding'
  BY DEF ScreenType, OneCall, Binding, Live, CanHangUp, ToPhase, Timely
<1>4. Slack'
  BY DEF ScreenType, OneCall, Binding, Slack, Asked, Live, SomeLive, StartDue, CanHangUp, Timely
<1>5. EndedInv'
  BY DEF ScreenType, OneCall, Binding, Slack, Asked, EndedInv, Live, SomeLive, StartDue,
         CanHangUp, ToPhase, Timely
<1> QED BY <1>1, <1>2, <1>3, <1>4, <1>5

LEMMA StepTakeHangUp == ASSUME IInv, TakeHangUp PROVE IInv'
<1> USE Constants DEF TakeHangUp, Ends, uiVars, bindVars, chipVars, callVars, serviceVars,
                      userVars, IInv
<1>1. ScreenType'
  BY DEF ScreenType, OneCall, Binding, Live, CanHangUp, Timely
<1>2. OneCall'
  BY DEF ScreenType, OneCall, Binding, Live, CanHangUp, StartDue, Timely
<1>3. Binding'
  BY DEF ScreenType, OneCall, Binding, Live, CanHangUp, ToPhase, Timely
<1>4. Slack'
  BY DEF ScreenType, OneCall, Binding, Slack, Asked, Live, SomeLive, StartDue, CanHangUp, Timely
<1>5. EndedInv'
  BY DEF ScreenType, OneCall, Binding, Slack, Asked, EndedInv, Live, SomeLive, StartDue,
         CanHangUp, ToPhase, Timely
<1> QED BY <1>1, <1>2, <1>3, <1>4, <1>5

LEMMA StepStopSelf == ASSUME IInv, StopSelf PROVE IInv'
<1> USE Constants DEF StopSelf, Service, uiVars, bindVars, chipVars, callVars, serviceVars,
                      userVars, IInv
<1>1. ScreenType'
  BY DEF ScreenType, OneCall, Binding, Live, CanHangUp, Timely
<1>2. OneCall'
  BY DEF ScreenType, OneCall, Binding, Live, CanHangUp, StartDue, Timely
<1>3. Binding'
  BY DEF ScreenType, OneCall, Binding, Live, CanHangUp, ToPhase, Timely
<1>4. Slack'
  BY DEF ScreenType, OneCall, Binding, Slack, Asked, Live, SomeLive, StartDue, CanHangUp, Timely
<1>5. EndedInv'
  BY DEF ScreenType, OneCall, Binding, Slack, Asked, EndedInv, Live, SomeLive, StartDue,
         CanHangUp, ToPhase, Timely
<1> QED BY <1>1, <1>2, <1>3, <1>4, <1>5

LEMMA StepOnBound == ASSUME IInv, OnBound PROVE IInv'
<1> USE Constants DEF OnBound, Controllerless, Service, Track, Replay, uiVars, bindVars,
                      chipVars, callVars, serviceVars, userVars, IInv
<1>1. ScreenType'
  BY DEF ScreenType, OneCall, Binding, Live, CanHangUp, Timely
<1>2. OneCall'
  BY DEF ScreenType, OneCall, Binding, Live, CanHangUp, StartDue, Timely
<1>3. Binding'
  <2>1. connecting /\ connection /\ vm /\ vm' /\ ~retry
    BY DEF Binding
  <2>2. CASE controller # None /\ attempts' = 0
    <3>1. retry' = retry /\ attempts' = 0 /\ connecting' = FALSE
      BY <2>2
    <3>2. CASE state[controller] = "ended"
      <4>1. call' = None
        BY <2>2, <3>2
      <4> QED BY <2>1, <3>1, <4>1 DEF Binding
    <3>3. CASE state[controller] # "ended"
      <4>1. call' = controller /\ controller' = controller /\ connection'
        BY <2>2, <3>3
      <4>2. CanHangUp'
        BY <2>2, <3>3 DEF CanHangUp, ToPhase
      <4> QED BY <2>1, <3>1, <4>1, <4>2 DEF Binding
    <3> QED BY <3>2, <3>3
  <2>3. CASE controller = None
    <3>1. call = None /\ (attempts > 0 => phase = "connecting")
      BY <2>3 DEF Binding
    <3>2. Controllerless(attempts, phase)
      BY <2>3
    <3>3. (call' = None /\ vm') /\ attempts \in Nat
      BY <2>1, <3>1, <3>2 DEF ScreenType
    <3> HIDE DEF Controllerless
    <3> QED BY <3>1, <3>2, <3>3, Unanswered
  <2> QED BY <2>2, <2>3
<1>4. Slack'
  BY DEF ScreenType, OneCall, Binding, Slack, Asked, Live, SomeLive, StartDue, CanHangUp, Timely
<1>5. EndedInv'
  BY DEF ScreenType, OneCall, Binding, Slack, Asked, EndedInv, Live, SomeLive, StartDue,
         CanHangUp, ToPhase, Timely
<1> QED BY <1>1, <1>2, <1>3, <1>4, <1>5

LEMMA StepRebind == ASSUME IInv, Rebind PROVE IInv'
<1> USE Constants DEF Rebind, Controllerless, Refused, Later, uiVars, bindVars, chipVars,
                      callVars, serviceVars, userVars, IInv
<1>1. ScreenType'
  BY DEF ScreenType, OneCall, Binding, Live, CanHangUp, Timely
<1>2. OneCall'
  BY DEF ScreenType, OneCall, Binding, Live, CanHangUp, StartDue, Timely
<1>3. Binding'
  <2>1. retry /\ call = None /\ attempts > 0 /\ phase = "connecting" /\ vm /\ vm'
    BY DEF Binding, ScreenType
  <2>2. CASE retry' = FALSE /\ connection' = TRUE /\ connecting' = TRUE
    BY <2>1, <2>2 DEF Binding
  <2>3. CASE Controllerless(attempts, phase)
    BY <2>1, <2>3, Unanswered DEF ScreenType
  <2> QED BY <2>2, <2>3
<1>4. Slack'
  BY DEF ScreenType, OneCall, Binding, Slack, Asked, Live, SomeLive, StartDue, CanHangUp, Timely
<1>5. EndedInv'
  BY DEF ScreenType, OneCall, Binding, Slack, Asked, EndedInv, Live, SomeLive, StartDue,
         CanHangUp, ToPhase, Timely
<1> QED BY <1>1, <1>2, <1>3, <1>4, <1>5

LEMMA StepObserve == ASSUME IInv, Observe PROVE IInv'
<1> USE Constants DEF Observe, Release, Service, uiVars, bindVars, chipVars, callVars,
                      serviceVars, userVars, IInv
<1>1. ScreenType'
  BY DEF ScreenType, OneCall, Binding, Live, CanHangUp, Timely
<1>2. OneCall'
  BY DEF ScreenType, OneCall, Binding, Live, CanHangUp, StartDue, Timely
<1>3. Binding'
  <2>1. call # None /\ call = controller /\ connection /\ attempts = 0 /\ ~retry /\ vm /\ CanHangUp
    BY DEF Binding, CanHangUp, ScreenType
  <2>2. UNCHANGED <<vm, retry>>
    OBVIOUS
  <2>3. CASE state[call] = "ended"
    <3>1. call' = None /\ attempts' = 0 /\ ~connection' /\ ~connecting'
      BY <2>3
    <3> QED BY <2>1, <2>2, <3>1 DEF Binding
  <2>4. CASE state[call] # "ended"
    <3>1. UNCHANGED <<attempts, call, connection, connecting>> /\ controller' = controller
      BY <2>1, <2>4
    <3>2. CanHangUp'
      BY <2>4 DEF CanHangUp, ToPhase
    <3> QED BY <2>1, <2>2, <3>1, <3>2 DEF Binding
  <2> QED BY <2>3, <2>4
<1>4. Slack'
  BY DEF ScreenType, OneCall, Binding, Slack, Asked, Live, SomeLive, StartDue, CanHangUp, Timely
<1>5. EndedInv'
  BY DEF ScreenType, OneCall, Binding, Slack, Asked, EndedInv, Live, SomeLive, StartDue,
         CanHangUp, ToPhase, Timely
<1> QED BY <1>1, <1>2, <1>3, <1>4, <1>5

LEMMA StepObserveEnd == ASSUME IInv, ObserveEnd PROVE IInv'
<1> USE Constants DEF ObserveEnd, uiVars, bindVars, chipVars, callVars, serviceVars, userVars,
                      IInv
<1>1. ScreenType'
  BY DEF ScreenType, OneCall, Binding, Live, CanHangUp, Timely
<1>2. OneCall'
  BY DEF ScreenType, OneCall, Binding, Live, CanHangUp, StartDue, Timely
<1>3. Binding'
  BY DEF ScreenType, OneCall, Binding, Live, CanHangUp, ToPhase, Timely
<1>4. Slack'
  BY DEF ScreenType, OneCall, Binding, Slack, Asked, Live, SomeLive, StartDue, CanHangUp, Timely
<1>5. EndedInv'
  BY DEF ScreenType, OneCall, Binding, Slack, Asked, EndedInv, Live, SomeLive, StartDue,
         CanHangUp, ToPhase, Timely
<1> QED BY <1>1, <1>2, <1>3, <1>4, <1>5

LEMMA StepStutter == ASSUME IInv, UNCHANGED vars PROVE IInv'
BY DEF vars, uiVars, bindVars, chipVars, callVars, serviceVars, userVars, IInv, ScreenType,
       OneCall, Binding, Slack, EndedInv, Asked, Live, SomeLive, StartDue, CanHangUp

LEMMA ScreenNext == IInv /\ [Next]_vars => IInv'
BY StepOpen, StepLeave, StepStartCall, StepHangUp, StepDismiss, StepOnStart, StepCallMoves,
   StepTakeHangUp, StepStopSelf, StepOnBound, StepRebind, StepObserve, StepObserveEnd,
   StepStutter DEF Next, Merchant, System

LEMMA ScreenInv == FairSpec => []IInv
BY ScreenInit, ScreenNext, PTL DEF FairSpec

\* The screen says "ended" only when no call goes on or is about to: however late the start
\* command, whatever binds the platform refuses, whoever comes back to the screen.
THEOREM EndedHonesty == FairSpec => []EndedIsHonest
<1>1. IInv => EndedIsHonest
  BY DEF IInv, EndedInv, SomeLive, EndedIsHonest
<1> QED BY <1>1, ScreenInv, PTL

\* There is never a second call behind the one the service holds, and the service does not
\* stop under a call: what the screen binds to is all there is to show.
OneCallLives == \A c \in Calls : Live(c) => c = controller /\ started /\ ~stopping

THEOREM OneCallAtATime == FairSpec => []OneCallLives
<1>1. IInv => OneCallLives
  BY DEF IInv, OneCall, OneCallLives
<1> QED BY <1>1, ScreenInv, PTL
=============================================================================
