---------------------------- MODULE SupportScreen ----------------------------
(***************************************************************************)
(* The support screen and the call it starts: CallViewModel, its launcher  *)
(* (one ServiceConnection), CallLivenessObserver behind the "Return to     *)
(* call" chip, and the service's life.  The call outlives the screen: the  *)
(* merchant leaves and comes back, and each visit's CallViewModel binds    *)
(* again to find out what is running.                                      *)
(*                                                                         *)
(* The view model, the launcher, the observer and the service's start      *)
(* command share the main thread: each is one step.  Between them pass     *)
(* Android's deliveries (the start command, the connection), the 200 ms    *)
(* rebind, the state flows, the call's own event loop and the merchant.  A *)
(* start command may be late by StartLag of the merchant's or the timer's  *)
(* turns of the main looper.                                               *)
(***************************************************************************)
EXTENDS Integers

CONSTANTS
  CONTROLLER_ATTACH_ATTEMPTS,   \* CallViewModel
  StartLag, MaxCalls, MaxVisits, MaxFaults,
  None

ASSUME SupportAssumption ==
  /\ {CONTROLLER_ATTACH_ATTEMPTS, MaxCalls, MaxVisits} \subseteq Nat \ {0}
  /\ {StartLag, MaxFaults} \subseteq Nat
  /\ None \notin Nat

\* CallViewModel.kt: the budget counts the turns a start command sits undelivered, and is
\* "generous headroom" -- over the latest one and every bind the platform refuses.
ASSUME SlackAssumption == CONTROLLER_ATTACH_ATTEMPTS > StartLag + MaxFaults + 1

VARIABLES
  vm, visits,              \* the view model is there; visits so far
  phase, attempts, pendingHangUp,   \* CallViewModel; phase is CallUiState's
  retry,                   \* the scheduled rebind
  call,                    \* the bound call, whose state the view model collects
  connection, connecting,  \* AndroidVoiceCallLauncher; its callback is due
  tracked, chip,           \* CallLivenessObserver's call; CallActivitySignal
  started, start,          \* the service: started; the start command under way
  controller,              \* its call, None before the start command
  state, hung, stopping,   \* each call's state; hang-ups in its loop; stopSelf is due
  wanted, left,            \* history: the merchant tapped End; left with it queued
  faults

uiVars      == <<phase, attempts, pendingHangUp, retry>>
bindVars    == <<call, connection, connecting>>
chipVars    == <<tracked, chip>>
callVars    == <<state, hung, stopping>>
serviceVars == <<started, start, controller>>
userVars    == <<vm, visits, wanted, left>>
vars == <<uiVars, bindVars, chipVars, callVars, serviceVars, userVars, faults>>

Calls == 1..MaxCalls
CanHangUp == phase \in {"connecting", "in_call"}
Live(c) == c # None /\ state[c] \in {"idle", "up"}
Refused == faults < MaxFaults /\ faults' = faults + 1

-----------------------------------------------------------------------------
(* What the view model's methods have in common.                           *)

\* toPhase, with the machine's Idle read as still connecting.
ToPhase(s) == IF s = "up" THEN "in_call" ELSE IF s = "ended" THEN "ended" ELSE "connecting"

\* releaseBinding.
Release ==
  /\ call' = None /\ pendingHangUp' = FALSE /\ attempts' = 0
  /\ connection' = FALSE /\ connecting' = FALSE

\* reportCallFailed.
CallFailed == phase' = "ended" /\ Release

\* Mutant: the first answer without a controller is the verdict.
ControllerlessAtOnce(n, p) ==
  /\ call' = call /\ connection' = FALSE /\ connecting' = FALSE
  /\ attempts' = 0 /\ retry' = FALSE /\ pendingHangUp' = FALSE
  /\ phase' = (IF n > 0 THEN "ended" ELSE p)

\* handleControllerlessBinding with n attempts left, on a screen that shows p: the answer to
\* a view model that only looks, the last answer to a start, or one to ask again after.
Controllerless(n, p) ==
  /\ call' = call /\ connection' = FALSE /\ connecting' = FALSE
  /\ attempts' = (IF n = 0 THEN 0 ELSE n - 1)
  /\ phase' = (IF n = 1 THEN "ended" ELSE p)
  /\ pendingHangUp' = (pendingHangUp /\ n # 1)
  /\ retry' = (n > 1)

\* A turn of the main looper that is the merchant's or the timer's: the start command
\* cannot be late for ever.
Timely == start # None => start > 0
Later == IF start = None THEN None ELSE start - 1

\* A service nobody has started or binds is destroyed, its controller with it.  The start
\* command s was queued before that: the old instance has taken and swallowed it.
Service(s) ==
  IF started' \/ connection' THEN start' = s /\ UNCHANGED controller
  ELSE start' = None /\ controller' = None

-----------------------------------------------------------------------------
(* The merchant.                                                           *)

\* Mutant: the view model binds only for a call it starts itself.
OpenUnbound ==
  /\ ~vm /\ visits < MaxVisits /\ Timely /\ start' = Later
  /\ vm' = TRUE /\ visits' = visits + 1
  /\ UNCHANGED <<uiVars, bindVars, chipVars, callVars, started, controller, wanted, left, faults>>

\* The init block: a view model binds to find a running call.
Open ==
  /\ ~vm /\ visits < MaxVisits /\ Timely /\ start' = Later
  /\ vm' = TRUE /\ visits' = visits + 1
  /\ \/ connection' = TRUE /\ connecting' = TRUE /\ UNCHANGED faults
     \/ Refused /\ UNCHANGED <<connection, connecting>>
  /\ UNCHANGED <<uiVars, call, chipVars, callVars, started, controller, wanted, left>>

\* onCleared; viewModelScope goes, with the rebind it scheduled.
Leave ==
  /\ vm /\ Timely
  /\ vm' = FALSE /\ phase' = "idle" /\ retry' = FALSE
  /\ left' = (left \/ pendingHangUp)
  /\ Release
  /\ UNCHANGED <<chipVars, callVars, started, visits, wanted, faults>>
  /\ Service(Later)

\* startCall, the permission granted: the platform may refuse the start of a service that
\* is not in the foreground yet, and then the bind.
StartCall ==
  /\ vm /\ ~CanHangUp /\ Timely
  /\ \E c \in Calls : state[c] = "none"
  /\ wanted' = FALSE /\ left' = FALSE
  /\ \/ /\ started' = TRUE
        /\ \/ /\ phase' = "connecting" /\ attempts' = CONTROLLER_ATTACH_ATTEMPTS
              /\ connection' = TRUE /\ connecting' = (connection => connecting)
              /\ UNCHANGED <<pendingHangUp, retry, call, faults>>
           \/ /\ ~connection /\ Refused
              /\ Controllerless(CONTROLLER_ATTACH_ATTEMPTS, "connecting")
        /\ Service(StartLag)
     \/ /\ ~started /\ Refused
        /\ CallFailed /\ UNCHANGED <<started, retry>>
        /\ Service(Later)
  /\ UNCHANGED <<chipVars, callVars, vm, visits>>

\* hangUp: to the call, or kept for it.
HangUp ==
  /\ vm /\ CanHangUp /\ Timely /\ start' = Later
  /\ wanted' = TRUE
  /\ pendingHangUp' = (pendingHangUp \/ call = None)
  /\ hung' = hung \union ({call} \ {None})
  /\ UNCHANGED <<phase, attempts, retry, bindVars, chipVars, state, stopping, started,
                 controller, vm, visits, left, faults>>

Dismiss ==
  /\ vm /\ phase = "ended" /\ Timely /\ start' = Later
  /\ phase' = "idle"
  /\ UNCHANGED <<attempts, pendingHangUp, retry, bindVars, chipVars, callVars, started,
                 controller, userVars, faults>>

-----------------------------------------------------------------------------
(* Android, the service and the call.                                      *)

\* onStartCommand, handleStart: a controller that is there swallows the command; a bad
\* payload or a failing native init stops the service.
OnStart ==
  /\ start # None /\ start' = None
  /\ \/ controller # None /\ UNCHANGED <<started, controller, state, faults>>
     \/ /\ controller = None
        /\ \E c \in Calls : /\ state[c] = "none"
                            /\ \A d \in 1..(c - 1) : state[d] # "none"
                            /\ state' = [state EXCEPT ![c] = "idle"] /\ controller' = c
        /\ UNCHANGED <<started, faults>>
     \/ controller = None /\ Refused /\ started' = FALSE /\ UNCHANGED <<controller, state>>
  /\ UNCHANGED <<uiVars, bindVars, chipVars, hung, stopping, userVars>>

Ends(c) == state' = [state EXCEPT ![c] = "ended"] /\ stopping' = TRUE

\* The call connects, or ends: by the agent, a failure, the notification.
CallMoves ==
  /\ Live(controller)
  /\ \/ state' = [state EXCEPT ![controller] = "up"] /\ UNCHANGED stopping
     \/ Ends(controller)
  /\ UNCHANGED <<uiVars, bindVars, chipVars, hung, serviceVars, userVars, faults>>

\* The call's loop takes the hang-up.
TakeHangUp ==
  /\ Live(controller) /\ controller \in hung
  /\ Ends(controller)
  /\ UNCHANGED <<uiVars, bindVars, chipVars, hung, serviceVars, userVars, faults>>

\* onCallEnded: stopSelf; a bound service stays.
StopSelf ==
  /\ stopping /\ stopping' = FALSE
  /\ started' = FALSE
  /\ UNCHANGED <<uiVars, bindVars, chipVars, state, hung, userVars, faults>>
  /\ Service(start)

\* Mutant: the hang-up that waited is forgotten.
ReplayNothing(c) == pendingHangUp' = FALSE /\ hung' = hung

\* A hang-up that arrived before the binding did.
Replay(c) ==
  /\ pendingHangUp' = FALSE
  /\ hung' = (IF pendingHangUp THEN hung \union {c} ELSE hung)

\* CallLivenessObserver.track: the current state is published at once.
Track(c) == /\ chip' = (state[c] # "ended")
            /\ tracked' = (IF state[c] = "ended" THEN None ELSE c)

\* onServiceConnected.  A call that has already ended releases the binding under onBound's
\* hands, and the collectors it goes on to store are cancelled.
OnBound ==
  /\ connecting
  /\ \/ /\ controller # None
        /\ Replay(controller) /\ Track(controller)
        /\ attempts' = 0 /\ connecting' = FALSE
        /\ phase' = ToPhase(state[controller])
        /\ connection' = (state[controller] # "ended")
        /\ call' = (IF state[controller] = "ended" THEN None ELSE controller)
        /\ UNCHANGED retry
     \/ controller = None /\ Controllerless(attempts, phase) /\ UNCHANGED <<chipVars, hung>>
  /\ UNCHANGED <<state, stopping, started, userVars, faults>>
  /\ Service(start)

\* The rebind, 200 ms later.
Rebind ==
  /\ retry /\ Timely /\ start' = Later
  /\ \/ /\ retry' = FALSE /\ connection' = TRUE /\ connecting' = TRUE
        /\ UNCHANGED <<phase, attempts, pendingHangUp, call, faults>>
     \/ Refused /\ Controllerless(attempts, phase)
  /\ UNCHANGED <<chipVars, callVars, started, controller, userVars>>

\* onCallStateChanged: the latest state; an end releases the binding.
Observe ==
  /\ call # None /\ phase # ToPhase(state[call])
  /\ phase' = ToPhase(state[call])
  /\ \/ state[call] = "ended" /\ Release
     \/ state[call] # "ended" /\ UNCHANGED <<attempts, pendingHangUp, bindVars>>
  /\ UNCHANGED <<retry, chipVars, callVars, started, userVars, faults>>
  /\ Service(start)

\* The observer's collector sees the end.
ObserveEnd ==
  /\ tracked # None /\ state[tracked] = "ended"
  /\ tracked' = None /\ chip' = FALSE
  /\ UNCHANGED <<uiVars, bindVars, callVars, serviceVars, userVars, faults>>

-----------------------------------------------------------------------------

Init ==
  /\ vm = FALSE /\ visits = 0 /\ phase = "idle" /\ attempts = 0 /\ pendingHangUp = FALSE
  /\ retry = FALSE /\ call = None /\ connection = FALSE /\ connecting = FALSE
  /\ tracked = None /\ chip = FALSE
  /\ started = FALSE /\ start = None /\ controller = None
  /\ state = [c \in Calls |-> "none"] /\ hung = {} /\ stopping = FALSE
  /\ wanted = FALSE /\ left = FALSE /\ faults = 0

Merchant == Open \/ Leave \/ StartCall \/ HangUp \/ Dismiss

System == OnStart \/ TakeHangUp \/ StopSelf \/ OnBound \/ Rebind \/ Observe \/ ObserveEnd

Next == Merchant \/ CallMoves \/ System

\* Android delivers and the loops run; the merchant and the far end need not do anything.
FairSpec ==
  /\ Init /\ [][Next]_vars
  /\ WF_vars(OnStart) /\ WF_vars(TakeHangUp) /\ WF_vars(StopSelf) /\ WF_vars(OnBound)
  /\ WF_vars(Rebind) /\ WF_vars(Observe) /\ WF_vars(ObserveEnd)

-----------------------------------------------------------------------------
(* Properties.                                                             *)

NothingRuns == start = None /\ \A c \in Calls : ~Live(c)

\* A tap on End ends the call it was meant for, though it may come before the binding, the
\* controller or the start command (CallViewModel.pendingHangUp) -- unless the merchant
\* left the screen with the tap still queued.
EndIsKept == wanted ~> (NothingRuns \/ left \/ ~wanted)

\* No blank panel over a live microphone, and no way back to a call that is over
\* (CallViewModel's init block, CallLivenessObserver): while the screen stays open and the
\* platform refuses nothing, it comes to show the call that runs, whichever visit started
\* it, or the call ends; and the chip goes out after the last call, wherever the merchant is.
ScreenShowsCall ==
  /\ \A c \in Calls : (vm /\ Live(c)) ~> (~vm \/ ~Live(c) \/ CanHangUp \/ faults > 0)
  /\ (chip /\ \A c \in Calls : ~Live(c)) ~> (~chip \/ \E c \in Calls : Live(c))

\* The screen says "ended" only when the call it started or found is over, never over a
\* call that goes on or is still to come (handleControllerlessBinding's retries).
EndedIsHonest == phase = "ended" => \A c \in Calls : ~Live(c)

\* onCallStateChanged and handleStart: a call that has ended leaves no idle service behind.
ServiceIsFreed ==
  (controller # None /\ ~Live(controller)) ~> (controller = None \/ Live(controller))
=============================================================================
