---------------------------- MODULE ContextSync -----------------------------
(***************************************************************************)
(* How the agent comes to see the merchant's screen: UiTreeCollector and   *)
(* AppStateManager capture it, ScreenContextPublisher numbers it and sends *)
(* snapshots, deltas and events over the ctx data channel, ContextDispatch *)
(* and SnapshotIngestor merge them into ctx:{session} in Redis, and        *)
(* ctx.request_snapshot asks for a fresh one after a gap.                  *)
(*                                                                         *)
(* A screen is its route and a face: the value of each component label, 0  *)
(* for a component that is not there.  The publisher's coroutines share    *)
(* one confined worker and never suspend under the lock, so a publication  *)
(* is one step; the dispatcher is one consumer, so an ingest is one step   *)
(* whose Redis call may fail.                                              *)
(***************************************************************************)
EXTENDS Integers, Sequences, FiniteSets

CONSTANTS
  Routes, Excluded,   \* the routes; those AppStateManager never captures
  Labels, Long,       \* component labels; those the drop ladder's rung 2 cuts
  Faces,              \* what a screen can show: functions from Labels to Nat
  MaxActs,            \* UI changes, navigations and events in one behaviour
  MaxFaults,          \* channel outages, Redis failures and expiries in one behaviour
  None

ASSUME ContextAssumption ==
  /\ Excluded \subseteq Routes /\ Long \subseteq Labels
  /\ Faces \subseteq [Labels -> Nat]
  /\ MaxActs \in Nat /\ MaxFaults \in Nat

VARIABLES
  route, shown, face,   \* NavigationTracker.route; the screen composed, its face
  armed, tree,          \* UiTreeCollector.pendingDebounce, _tree
  ir,                   \* AppStateManager.state.screen
  bound, seen,          \* the publisher is started; the value its collector saw
  nextSeq, last, base,  \* nextSeq, lastPublishedScreen, lastScreenStateSeq
  open, up, down,       \* the data channel: state, frames in flight each way
  ctx,                  \* ctx:{session_id} in Redis
  acts, faults,         \* what happened of MaxActs and MaxFaults
  lost                  \* a frame was refused or a message's ingest failed

uiVars  == <<route, shown, face, armed, tree, ir>>
pubVars == <<bound, seen, nextSeq, last, base>>
vars    == <<uiVars, pubVars, open, up, down, ctx, acts, faults, lost>>

\* Identities as they may stand in a snapshot: role and label are what both sides
\* match on, and a label that rung 2 cut is another identity.
Whole(l) == <<l, "whole">>
Cut(l) == <<l, "cut">>
WireIds == {Whole(l) : l \in Labels} \cup {Cut(l) : l \in Long}
Screen == [screen : Routes, of : Routes, face : Faces]

\* The frames of the ctx channel.
Snapshots == [type : {"snapshot"}, seq : Nat, screen : Routes, comps : [WireIds -> Nat],
              full : Screen]
Deltas == [type : {"delta"}, seq : Nat, base : Nat, changed : SUBSET Labels,
           removed : SUBSET Labels, full : Screen]
Messages == Snapshots \cup Deltas \cup [type : {"event"}, seq : Nat]

\* The stored snapshot; full, here and in a frame, is history: the screen the client meant.
Stored == [seq : Nat, screen : Routes, comps : [WireIds -> Nat], full : Screen]

ASSUME NoneAssumption == None \notin Stored

Fault == faults < MaxFaults /\ faults' = faults + 1
Act == acts < MaxActs /\ acts' = acts + 1

-----------------------------------------------------------------------------
(* Capture.                                                                *)

\* NavigationTracker.onDestinationChanged, synchronously inside navigate().
Navigate ==
  /\ Act
  /\ \E r \in Routes \ {route} : route' = r
  /\ UNCHANGED <<shown, face, armed, tree, ir, pubVars, open, up, down, ctx, faults, lost>>

\* The frame that composes the new destination; its commits restart the debounce.
Recompose ==
  /\ shown # route
  /\ shown' = route
  /\ face' \in Faces
  /\ armed' = TRUE
  /\ UNCHANGED <<route, tree, ir, pubVars, open, up, down, ctx, acts, faults, lost>>

\* captureNow, and AppStateManager's combine: build only from a new tree, and not
\* on an excluded route.  _tree is a StateFlow and conflates equal trees.
CaptureOf(s, f) ==
  /\ armed' = FALSE
  /\ tree' = <<s, f>>
  /\ ir' = IF tree' # tree /\ route \notin Excluded
           THEN [screen |-> route, of |-> s, face |-> f] ELSE ir

\* A state commit, or a window that detaches: captured once it is quiet.
UiChange ==
  /\ Act
  /\ face' \in Faces \ {face}
  /\ armed' = TRUE
  /\ UNCHANGED <<route, shown, tree, ir, pubVars, open, up, down, ctx, faults, lost>>

\* A window attaches, a dialog say: captured at once.
AttachRoot ==
  /\ Act
  /\ face' \in Faces \ {face}
  /\ CaptureOf(shown, face')
  /\ UNCHANGED <<route, shown, pubVars, open, up, down, ctx, faults, lost>>

Capture ==
  /\ armed
  /\ CaptureOf(shown, face)
  /\ UNCHANGED <<route, shown, face, pubVars, open, up, down, ctx, acts, faults, lost>>

-----------------------------------------------------------------------------
(* ScreenContextPublisher.                                                 *)

\* WebRtcContextChannel.send: a frame is lost when the channel is not open, or when
\* its buffer is full (a fault); the publisher goes on as if it had been sent.
Send(m) ==
  /\ nextSeq' = nextSeq + 1
  /\ \/ open /\ up' = Append(up, m) /\ UNCHANGED <<faults, lost>>
     \/ ~open /\ lost' = TRUE /\ UNCHANGED <<up, faults>>
     \/ open /\ Fault /\ lost' = TRUE /\ UNCHANGED up

\* The drop ladder stops at the first rung that fits: nothing, list items and
\* labels cut, components dropped, or the screen name alone.
OnWire(f) == [i \in WireIds |-> IF i[2] = "whole" THEN f[i[1]] ELSE 0]
LabelsCut(f) == [i \in WireIds |-> IF (i[1] \in Long) = (i[2] = "cut") THEN f[i[1]] ELSE 0]
OnlyShort(f) == [i \in WireIds |-> IF i[1] \in Long THEN 0 ELSE f[i[1]]]
NameAlone == [i \in WireIds |-> 0]
Rungs(f) == {OnWire(f), LabelsCut(f), OnlyShort(f), NameAlone}

SendSnapshot(s) ==
  /\ \E c \in Rungs(s.face) :
       Send([type |-> "snapshot", seq |-> nextSeq, screen |-> s.screen, comps |-> c,
             full |-> s])
  /\ last' = s /\ base' = nextSeq

\* buildDeltaPayload: changed components in full, removed ones by identity.
Changed(p, f) == {l \in Labels : f[l] # 0 /\ f[l] # p[l]}
Removed(p, f) == {l \in Labels : p[l] # 0 /\ f[l] = 0}

SendDelta(s) ==
  /\ Send([type |-> "delta", seq |-> nextSeq, base |-> base,
           changed |-> Changed(last.face, s.face), removed |-> Removed(last.face, s.face),
           full |-> s])
  /\ last' = s /\ base' = nextSeq

\* publishScreenState, by the collector of a conflated flow.  Which of delta and
\* snapshot is smaller is left open.
PublishScreen ==
  /\ bound /\ ir # None /\ seen # ir
  /\ seen' = ir
  /\ IF last = None \/ last.screen # ir.screen THEN SendSnapshot(ir)
     ELSE IF last = ir THEN UNCHANGED <<nextSeq, last, base, up, faults, lost>>
     ELSE SendDelta(ir) \/ SendSnapshot(ir)
  /\ UNCHANGED <<uiVars, bound, open, down, ctx, acts>>

\* Mutant: an event moves the anchor of the next delta.
PublishEventAsAnchor ==
  /\ bound /\ Act
  /\ Send([type |-> "event", seq |-> nextSeq])
  /\ base' = nextSeq
  /\ UNCHANGED <<uiVars, bound, seen, last, open, down, ctx>>

\* publishEvent: shares the counter, leaves the anchor alone.
PublishEvent ==
  /\ bound /\ Act
  /\ Send([type |-> "event", seq |-> nextSeq])
  /\ UNCHANGED <<uiVars, bound, seen, last, base, open, down, ctx>>

\* Mutant: the request only arms a flag for the next screen change.
AnswerRequestLater ==
  /\ bound /\ down > 0
  /\ down' = down - 1
  /\ last' = None
  /\ UNCHANGED <<uiVars, bound, seen, nextSeq, base, open, up, ctx, acts, faults, lost>>

\* requestFullSnapshot, by the downlink pump: a fresh capture, at once.
AnswerRequest ==
  /\ bound /\ down > 0
  /\ down' = down - 1
  /\ IF ir = None
     THEN last' = None /\ UNCHANGED <<nextSeq, base, up, faults, lost>>
     ELSE SendSnapshot(ir)
  /\ UNCHANGED <<uiVars, bound, seen, open, ctx, acts>>

\* start(), when the call first has media; the channel may not be open yet.
Bind ==
  /\ ~bound
  /\ bound' = TRUE
  /\ UNCHANGED <<uiVars, seen, nextSeq, last, base, open, up, down, ctx, acts, faults, lost>>

-----------------------------------------------------------------------------
(* The channel: reliable and ordered once open, until the call ends.       *)

ChannelOpens ==
  /\ bound /\ ~open
  /\ open' = TRUE
  /\ UNCHANGED <<uiVars, pubVars, up, down, ctx, acts, faults, lost>>

-----------------------------------------------------------------------------
(* ContextDispatcher and SnapshotIngestor.                                 *)

\* _send_request_snapshot; the channel a message came by is open.
Request == down' = down + 1

Ingested(m, c) == [seq |-> m.seq, screen |-> c.screen, comps |-> c.comps, full |-> m.full]

\* -1 stands for no stored screen: newer is anything, and no delta is based on it.
StoredSeq == IF ctx = None THEN -1 ELSE ctx.seq
SnapshotFits(m) == m.seq > StoredSeq
\* Mutant: a delta is checked for freshness only.
DeltaFitsIfNewer(m) == ctx # None /\ m.seq > StoredSeq
DeltaFits(m) == m.seq > StoredSeq /\ m.base = StoredSeq

\* Mutant: the merge updates and adds, and leaves removals out.
MergeWithoutRemovals(m) ==
  [screen |-> ctx.screen,
   comps |-> [i \in WireIds |->
                IF i \in {Whole(l) : l \in m.changed} THEN m.full.face[i[1]]
                ELSE ctx.comps[i]]]

\* _apply_delta: removals first, then changes.
Merge(m) ==
  [screen |-> ctx.screen,
   comps |-> [i \in WireIds |->
                CASE i \in {Whole(l) : l \in m.changed} -> m.full.face[i[1]]
                  [] i \in {Whole(l) : l \in m.removed} -> 0
                  [] OTHER -> ctx.comps[i]]]

\* _reject_sequence_gap: the message is dropped, and a whole screen is asked for.
SequenceGap == Request /\ UNCHANGED <<ctx, faults, lost>>

\* _reject_schema: a merge over the size cap, or one that fails the schema, asks like a gap.
Invalid == Fault /\ Request /\ lost' = TRUE /\ UNCHANGED ctx

Ingest(m) ==
  CASE m.type = "event" -> UNCHANGED <<ctx, down, faults, lost>>
    [] m.type = "snapshot" /\ SnapshotFits(m) ->
         ctx' = Ingested(m, m) /\ UNCHANGED <<down, faults, lost>>
    [] m.type = "delta" /\ DeltaFits(m) ->
         \/ ctx' = Ingested(m, Merge(m)) /\ UNCHANGED <<down, faults, lost>>
         \/ Invalid
    [] OTHER -> SequenceGap

Dispatch ==
  /\ up # <<>>
  /\ up' = Tail(up)
  /\ Ingest(Head(up))
  /\ UNCHANGED <<uiVars, pubVars, open, acts>>

\* Redis raises in the middle of an ingest: the message is lost, or its write
\* took place and only the reply was lost; the loop goes on either way.
DispatchFails ==
  /\ up # <<>> /\ Head(up).type # "event" /\ Fault
  /\ up' = Tail(up)
  /\ LET m == Head(up) IN
       \/ UNCHANGED ctx
       \/ m.type = "snapshot" /\ SnapshotFits(m) /\ ctx' = Ingested(m, m)
       \/ m.type = "delta" /\ DeltaFits(m) /\ ctx' = Ingested(m, Merge(m))
  /\ lost' = TRUE
  /\ UNCHANGED <<uiVars, pubVars, open, down, acts>>

\* The key's TTL ran out, or Redis was flushed.
Expire ==
  /\ ctx # None /\ Fault
  /\ ctx' = None /\ lost' = TRUE
  /\ UNCHANGED <<uiVars, pubVars, open, up, down, acts>>

-----------------------------------------------------------------------------
\* The server's copy of the ladder: the client does not apply its own to a REST body.
ServerRungs(f) == Rungs(f)

\* _ingest_initial_screen_context: the screen of POST /v1/sessions is stored with seq 0, or
\* is refused or fails, which costs the call nothing else.
InitialScreen(s) ==
  {None} \cup {[seq |-> 0, screen |-> s.screen, comps |-> c, full |-> s] : c \in ServerRungs(s.face)}

Init ==
  /\ route \in Routes \ Excluded /\ shown = route /\ face \in Faces
  /\ armed = FALSE
  /\ \/ tree = None /\ ir = None /\ ctx = None
     \/ /\ tree = <<shown, face>>
        /\ ir = [screen |-> route, of |-> shown, face |-> face]
        /\ ctx \in InitialScreen(ir)
  /\ bound = FALSE /\ seen = None
  /\ nextSeq = 1 /\ last = None /\ base = 0
  /\ open = FALSE /\ up = <<>> /\ down = 0
  /\ acts = 0 /\ faults = 0 /\ lost = FALSE

Next ==
  \/ Navigate \/ Recompose \/ UiChange \/ AttachRoot \/ Capture
  \/ Bind \/ PublishScreen \/ PublishEvent \/ AnswerRequest
  \/ ChannelOpens
  \/ Dispatch \/ DispatchFails \/ Expire

Spec == Init /\ [][Next]_vars

\* The publisher's collectors and the dispatcher's loop run; nothing is assumed
\* of the merchant, the capture or the channel.
Fairness == WF_vars(PublishScreen) /\ WF_vars(AnswerRequest) /\ WF_vars(Dispatch)
FairSpec == Spec /\ Fairness

-----------------------------------------------------------------------------
TypeOK ==
  /\ route \in Routes /\ shown \in Routes /\ face \in Faces
  /\ armed \in BOOLEAN /\ tree \in {None} \cup (Routes \X Faces)
  /\ ir \in {None} \cup Screen /\ seen \in {None} \cup Screen
  /\ bound \in BOOLEAN /\ last \in {None} \cup Screen
  /\ nextSeq \in Nat \ {0} /\ base \in 0..(nextSeq - 1)
  /\ open \in BOOLEAN /\ up \in Seq(Messages) /\ down \in Nat /\ ctx \in {None} \cup Stored
  /\ acts \in 0..MaxActs /\ faults \in 0..MaxFaults /\ lost \in BOOLEAN

\* render_snapshot_slot: the components the prompt shows of the stored screen.  Over its
\* token budget it shows fewer.
ScreenSlot == IF ctx = None THEN {} ELSE {i \in WireIds : ctx.comps[i] # 0}

\* The prompt never shows what was not there: each component under its own label was on the
\* screen the client meant with the stored seq.  (Components under a cut label are what the
\* ladder left; a later delta cannot remove those.)
NoFabrication ==
  ctx # None =>
    /\ ctx.screen = ctx.full.screen
    /\ \A i \in ScreenSlot : i = Whole(i[1]) => ctx.comps[i] = ctx.full.face[i[1]]

\* With nothing lost and nothing in flight the two ends agree: the server holds the
\* publisher's last screen under the seq the next delta will name as its base.
LosslessIsInSync ==
  ~lost /\ up = <<>> /\ last # None =>
    /\ down = 0
    /\ ctx # None /\ ctx.seq = base /\ ctx.full = last

\* A request that reached the client heals the gap: the server comes to hold, under
\* the seq the next delta builds on, a screen published since, unless something else
\* is lost meanwhile.
InSync == ctx # None /\ ctx.seq = base /\ ctx.full = last
RequestHeals ==
  \A n \in 0..MaxFaults :
    (down > 0 /\ ir # None /\ faults = n) ~> (InSync \/ faults > n)

\* "(tree, route) is known-consistent" (AppStateManager.kt:169-170): what is
\* published under a route was captured from that route's screen.
LabelMatchesContent == ir # None => ir.screen = ir.of
=============================================================================
