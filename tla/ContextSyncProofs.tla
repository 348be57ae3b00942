------------------------- MODULE ContextSyncProofs --------------------------
(***************************************************************************)
(* What the agent sees of the screen, for every set of routes, labels and  *)
(* faces, and every number of changes and losses.                          *)
(*                                                                         *)
(* A sequence number names the screen that was published under it, once    *)
(* and for all: a delta that names a base was computed against the screen  *)
(* of that number, wherever the number turns up: in the stored snapshot,   *)
(* in a frame in flight, or as the publisher's anchor.  While nothing is   *)
(* lost, the bases in flight are a chain from the stored screen to the     *)
(* anchor.                                                                 *)
(***************************************************************************)
EXTENDS ContextSync, SequenceTheorems, TLAPS

Comps == [WireIds -> Nat]
EventMsgs == [type : {"event"}, seq : Nat]

Types ==
  /\ route \in Routes /\ shown \in Routes /\ face \in Faces
  /\ ir \in {None} \cup Screen /\ last \in {None} \cup Screen
  /\ nextSeq \in Nat \ {0} /\ base \in Nat /\ base < nextSeq
  /\ up \in Seq(Messages) /\ ctx \in {None} \cup Stored /\ down \in Nat

\* Numbers grow along the channel, and what is stored is older than what is in flight.
Ordered ==
  /\ \A i \in 1..Len(up) : up[i].seq < nextSeq
  /\ \A i, j \in 1..Len(up) : i < j => up[i].seq < up[j].seq
  /\ \A i \in 1..Len(up) : up[i].type = "delta" => up[i].base < up[i].seq
  /\ ctx # None => ctx.seq < nextSeq /\ \A i \in 1..Len(up) : ctx.seq < up[i].seq

\* The components c of a snapshot of s show nothing that was not on s.
Shows(c, s) == \A l \in Labels : c[Whole(l)] # 0 => c[Whole(l)] = s.face[l]

Faithful ==
  /\ \A i \in 1..Len(up) : up[i].type = "snapshot" =>
       up[i].screen = up[i].full.screen /\ Shows(up[i].comps, up[i].full)
  /\ ctx # None => ctx.screen = ctx.full.screen /\ Shows(ctx.comps, ctx.full)

\* The delta m was computed against the screen s.
Against(m, s) ==
  /\ m.full.screen = s.screen
  /\ m.changed = Changed(s.face, m.full.face)
  /\ m.removed = Removed(s.face, m.full.face)

\* Number q names the screen s for every delta in flight.
Names(q, s) == \A i \in 1..Len(up) : up[i].type = "delta" /\ up[i].base = q => Against(up[i], s)

Named ==
  /\ ctx # None => Names(ctx.seq, ctx.full)
  /\ \A j \in 1..Len(up) : up[j].type # "event" => Names(up[j].seq, up[j].full)
  /\ last # None =>
       /\ ctx # None /\ ctx.seq = base => ctx.full = last
       /\ \A j \in 1..Len(up) : up[j].type # "event" /\ up[j].seq = base => up[j].full = last

SyncInv == Types /\ Ordered /\ Faithful /\ Named

\* Number q is the screen's that a frame at place i follows.
Follows(i, q) ==
  \/ \E j \in 1..(i - 1) : /\ up[j].type # "event" /\ up[j].seq = q
                           /\ \A k \in (j + 1)..(i - 1) : up[k].type = "event"
  \/ /\ \A k \in 1..(i - 1) : up[k].type = "event"
     /\ ctx # None /\ ctx.seq = q

Chained ==
  ~lost =>
    /\ down = 0
    /\ \A i \in 1..Len(up) : up[i].type = "delta" => Follows(i, up[i].base)
    /\ last # None => Follows(Len(up) + 1, base)

-----------------------------------------------------------------------------
LEMMA AppendFacts ==
  ASSUME up \in Seq(Messages), NEW m \in Messages, up' = Append(up, m)
  PROVE  /\ up' \in Seq(Messages) /\ Len(up') = Len(up) + 1 /\ Len(up) \in Nat
         /\ \A i \in 1..Len(up) : up'[i] = up[i]
         /\ up'[Len(up) + 1] = m
OBVIOUS

LEMMA TailFacts ==
  ASSUME up \in Seq(Messages), up # <<>>, up' = Tail(up)
  PROVE  /\ up' \in Seq(Messages) /\ Len(up') = Len(up) - 1 /\ Len(up) \in Nat \ {0}
         /\ \A i \in 1..Len(up') : up'[i] = up[i + 1] /\ i + 1 \in 1..Len(up)
         /\ Head(up) = up[1] /\ up[1] \in Messages
OBVIOUS

LEMMA Kinds ==
  ASSUME NEW m \in Messages
  PROVE  /\ m.seq \in Nat /\ m.type \in {"snapshot", "delta", "event"}
         /\ m.type = "snapshot" => m \in Snapshots
         /\ m.type = "delta" => m \in Deltas
         /\ m.type # "event" => m.full \in Screen
BY DEF Messages, Snapshots, Deltas

\* Whatever rung of the ladder a snapshot stops at, it shows nothing new.
LEMMA RungFacts ==
  ASSUME NEW s \in Screen, NEW c \in Rungs(s.face)
  PROVE  c \in Comps /\ Shows(c, s)
<1>1. s.face \in [Labels -> Nat]
  BY ContextAssumption DEF Screen
<1>2. Long \subseteq Labels
  BY ContextAssumption
<1>3. \A i \in WireIds : i[1] \in Labels /\ i[2] \in {"whole", "cut"}
  BY <1>2 DEF WireIds, Whole, Cut
<1>4. \A l \in Labels : Whole(l) \in WireIds /\ Whole(l)[1] = l /\ Whole(l)[2] = "whole"
  BY DEF WireIds, Whole
<1>5. CASE c = OnWire(s.face)
  BY <1>1, <1>3, <1>4, <1>5 DEF OnWire, Comps, Shows
<1>6. CASE c = LabelsCut(s.face)
  BY <1>1, <1>3, <1>4, <1>6 DEF LabelsCut, Comps, Shows
<1>7. CASE c = OnlyShort(s.face)
  BY <1>1, <1>3, <1>4, <1>7 DEF OnlyShort, Comps, Shows
<1>8. CASE c = NameAlone
  BY <1>1, <1>3, <1>4, <1>8 DEF NameAlone, Comps, Shows
<1> QED BY <1>5, <1>6, <1>7, <1>8 DEF Rungs

\* A delta merged into the screen it was computed against shows nothing that is not on
\* the screen the client meant.
LEMMA MergeFacts ==
  ASSUME ctx \in Stored, NEW m \in Deltas, Against(m, ctx.full), Shows(ctx.comps, ctx.full),
         ctx.screen = ctx.full.screen
  PROVE  /\ Merge(m).comps \in Comps /\ Shows(Merge(m).comps, m.full)
         /\ Merge(m).screen = m.full.screen /\ Merge(m).screen \in Routes
<1> DEFINE f == m.full.face
           p == ctx.full.face
<1>1. f \in [Labels -> Nat] /\ p \in [Labels -> Nat] /\ ctx.comps \in [WireIds -> Nat]
  BY ContextAssumption DEF Screen, Deltas, Stored, Comps
<1>2. \A i \in WireIds : i[1] \in Labels
  BY ContextAssumption DEF WireIds, Whole, Cut
<1>3. \A l \in Labels : Whole(l) \in WireIds /\ Whole(l)[1] = l
  BY DEF WireIds, Whole
<1>4. m.changed = Changed(p, f) /\ m.removed = Removed(p, f) /\ m.full.screen = ctx.full.screen
  BY DEF Against
<1>5. \A i \in WireIds :
        Merge(m).comps[i] = (CASE i \in {Whole(l) : l \in m.changed} -> f[i[1]]
                               [] i \in {Whole(l) : l \in m.removed} -> 0
                               [] OTHER -> ctx.comps[i])
  BY DEF Merge
<1>6. Merge(m).comps \in Comps
  <2>1. \A i \in WireIds : Merge(m).comps[i] \in Nat
    BY <1>1, <1>2, <1>5
  <2> QED BY <2>1 DEF Merge, Comps
<1>7. \A l \in Labels : /\ Whole(l) \in {Whole(k) : k \in m.changed} <=> l \in m.changed
                        /\ Whole(l) \in {Whole(k) : k \in m.removed} <=> l \in m.removed
  BY <1>3 DEF Deltas
<1>8. ASSUME NEW l \in Labels, Merge(m).comps[Whole(l)] # 0
      PROVE  Merge(m).comps[Whole(l)] = f[l]
  <2>1. CASE l \in m.changed
    <3>1. /\ Whole(l) \in WireIds /\ Whole(l)[1] = l
          /\ Whole(l) \in {Whole(k) : k \in m.changed}
          /\ Whole(l) \notin {Whole(k) : k \in m.removed}
      BY <1>3, <1>4, <1>7, <2>1 DEF Changed, Removed
    <3> QED BY <1>5, <3>1
  <2>2. CASE l \notin m.changed
    <3>1. l \notin m.removed /\ ctx.comps[Whole(l)] # 0
          /\ Merge(m).comps[Whole(l)] = ctx.comps[Whole(l)]
      BY <1>3, <1>5, <1>7, <1>8, <2>2
    <3>2. ctx.comps[Whole(l)] = p[l]
      BY <3>1 DEF Shows
    <3>3. p[l] = f[l]
      BY <1>4, <2>2, <3>1, <3>2 DEF Changed, Removed
    <3> QED BY <3>1, <3>2, <3>3
  <2> QED BY <2>1, <2>2
<1>9. Merge(m).screen = m.full.screen /\ Merge(m).screen \in Routes
  BY <1>4 DEF Merge, Stored
<1> QED BY <1>6, <1>8, <1>9 DEF Shows

-----------------------------------------------------------------------------
(* The publisher sends a screen.                                           *)

\* Frame m carries the screen s under the next number.
Carries(m, s) ==
  /\ m \in Messages /\ m.type # "event" /\ m.seq = nextSeq /\ m.full = s
  /\ m.type = "snapshot" => m.screen = s.screen /\ Shows(m.comps, s)
  /\ m.type = "delta" => last # None /\ m.base = base /\ Against(m, last)

\* A screen is published: sent, or lost on the way.
Published(m, s) ==
  /\ Carries(m, s)
  /\ nextSeq' = nextSeq + 1 /\ last' = s /\ base' = nextSeq
  /\ \/ up' = Append(up, m) /\ lost' = lost
     \/ up' = up /\ lost' = TRUE

LEMMA PublishedKeeps ==
  ASSUME SyncInv, NEW s \in Screen, NEW m, Published(m, s), Types', ctx' = ctx
  PROVE  SyncInv'
<1>0. /\ nextSeq \in Nat /\ nextSeq' = nextSeq + 1 /\ last' = s /\ base' = nextSeq
      /\ \A i \in 1..Len(up) : up[i].seq \in Nat /\ up[i].seq < nextSeq
      /\ ctx # None => ctx.seq \in Nat /\ ctx.seq < nextSeq
  <2>1. \A i \in 1..Len(up) : up[i] \in Messages
    BY DEF SyncInv, Types
  <2> QED BY <2>1, Kinds DEF Published, SyncInv, Types, Ordered, Stored
<1>1. CASE up' = up
  <2>1. Ordered' /\ Faithful'
    BY <1>0, <1>1 DEF SyncInv, Ordered, Faithful
  <2>2. Named'
    BY <1>0, <1>1 DEF SyncInv, Named, Names
  <2> QED BY <2>1, <2>2 DEF SyncInv
<1>2. CASE up' = Append(up, m)
  <2> DEFINE n == Len(up) + 1
  <2>1. /\ Len(up') = n /\ Len(up) \in Nat /\ up'[n] = m
        /\ \A i \in 1..Len(up) : up'[i] = up[i]
    BY <1>2, AppendFacts DEF Published, Carries, SyncInv, Types
  <2>2. \A i \in 1..Len(up') : i = n \/ i \in 1..Len(up)
    BY <2>1
  <2>3. base < nextSeq /\ base \in Nat /\ m.seq = nextSeq /\ (m.type = "delta" => m.base = base)
        /\ \A i \in 1..Len(up) :
             up[i].type = "delta" => up[i].base \in Nat /\ up[i].base < up[i].seq
    <3>1. \A i \in 1..Len(up) : up[i] \in Messages
      BY DEF SyncInv, Types
    <3> QED BY <3>1, Kinds DEF Published, Carries, SyncInv, Types, Ordered, Deltas
  <2>4. Ordered'
    <3>1. \A i \in 1..Len(up') : up'[i].seq < nextSeq'
      BY <1>0, <2>1, <2>2, <2>3
    <3>2. \A i, j \in 1..Len(up') : i < j => up'[i].seq < up'[j].seq
      <4> SUFFICES ASSUME NEW i \in 1..Len(up'), NEW j \in 1..Len(up'), i < j
                   PROVE  up'[i].seq < up'[j].seq
        OBVIOUS
      <4>1. i \in 1..Len(up) BY <2>1
      <4>2. CASE j \in 1..Len(up)
        <5>1. up[i].seq < up[j].seq BY <4>1, <4>2 DEF SyncInv, Ordered
        <5> QED BY <2>1, <4>1, <4>2, <5>1
      <4>3. CASE j = Len(up) + 1
        <5>1. up[i].seq < nextSeq BY <1>0, <4>1
        <5> QED BY <2>1, <2>3, <4>1, <4>3, <5>1
      <4> QED BY <2>2, <4>2, <4>3
    <3>3. \A i \in 1..Len(up') : up'[i].type = "delta" => up'[i].base < up'[i].seq
      BY <2>1, <2>2, <2>3
    <3>4. ctx # None => ctx.seq < nextSeq' /\ \A i \in 1..Len(up') : ctx.seq < up'[i].seq
      BY <1>0, <2>1, <2>2, <2>3 DEF SyncInv, Ordered
    <3> QED BY <3>1, <3>2, <3>3, <3>4 DEF Ordered
  <2>5. Faithful'
    BY <2>1, <2>2 DEF Published, Carries, SyncInv, Faithful
  <2>6. \A q, t : Names(q, t) /\ (m.type = "delta" /\ q = base => t = last) => Names(q, t)'
    BY <2>1, <2>2 DEF Names, Published, Carries
  <2>7. \A q, t : q = nextSeq => Names(q, t)'
    BY <1>0, <2>1, <2>2, <2>3 DEF Names
  <2>8. Named'
    <3>1. (ctx # None => Names(ctx.seq, ctx.full))'
      BY <2>6 DEF Published, Carries, SyncInv, Named
    <3>2. \A j \in 1..Len(up) : \A q, t :
            up[j].type # "event" /\ q = up[j].seq /\ t = up[j].full => Names(q, t)'
      BY <1>0, <2>3, <2>6 DEF Published, Carries, SyncInv, Named
    <3>3. \A j \in 1..Len(up') : \A q, t :
            up'[j].type # "event" /\ q = up'[j].seq /\ t = up'[j].full => Names(q, t)'
      BY <2>1, <2>2, <2>3, <2>7, <3>2
    <3>4. last' = s /\ base' = nextSeq /\ m.full = s
      BY DEF Published, Carries
    <3>5. (ctx # None => ctx.seq # nextSeq) /\ \A j \in 1..Len(up) : up[j].seq # nextSeq
      BY <1>0
    <3>6. \A j \in 1..Len(up') : up'[j].type # "event" /\ up'[j].seq = base' => up'[j].full = last'
      BY <2>1, <2>2, <3>4, <3>5
    <3> QED BY <3>1, <3>3, <3>4, <3>5, <3>6 DEF Named
  <2> QED BY <2>4, <2>5, <2>8 DEF SyncInv
<1> QED BY <1>1, <1>2 DEF Published

LEMMA PublishedChains ==
  ASSUME SyncInv, Chained, NEW s \in Screen, NEW m, Published(m, s), ctx' = ctx,
         down' = down \/ lost
  PROVE  Chained'
<1> SUFFICES ASSUME ~lost' PROVE Chained'
  BY DEF Chained
<1>1. up' = Append(up, m) /\ ~lost /\ m \in Messages /\ down' = 0
  BY DEF Published, Carries, Chained
<1>2. /\ Len(up') = Len(up) + 1 /\ Len(up) \in Nat /\ up'[Len(up) + 1] = m
      /\ \A i \in 1..Len(up) : up'[i] = up[i]
  BY <1>1, AppendFacts DEF SyncInv, Types
<1>3. \A i \in 1..(Len(up) + 1) : \A q : Follows(i, q) => Follows(i, q)'
  <2> SUFFICES ASSUME NEW i \in 1..(Len(up) + 1), NEW q, Follows(i, q) PROVE Follows(i, q)'
    OBVIOUS
  <2>1. \A k \in 1..(i - 1) : up'[k] = up[k]
    BY <1>2
  <2> QED BY <2>1 DEF Follows
<1>4. \A i \in 1..Len(up) : \A q : up'[i].type = "delta" /\ q = up'[i].base => Follows(i, q)'
  BY <1>1, <1>2, <1>3 DEF Chained
<1>5. \A i, q : i = Len(up) + 1 /\ m.type = "delta" /\ q = m.base => Follows(i, q)'
  <2>1. m.type = "delta" => last # None /\ m.base = base
    BY DEF Published, Carries
  <2>2. last # None => Follows(Len(up) + 1, base)
    BY <1>1 DEF Chained
  <2> QED BY <1>2, <1>3, <2>1, <2>2
<1>6. \A i, q : i = Len(up) + 2 /\ q = nextSeq => Follows(i, q)'
  <2>1. m.type # "event" /\ m.seq = nextSeq
    BY DEF Published, Carries
  <2> QED BY <1>2, <2>1 DEF Follows
<1>7. \A i \in 1..Len(up') : \A q : up'[i].type = "delta" /\ q = up'[i].base => Follows(i, q)'
  BY <1>2, <1>4, <1>5
<1>8. \A i, q : i = Len(up') + 1 /\ q = base' => Follows(i, q)'
  BY <1>2, <1>6 DEF Published
<1> QED BY <1>1, <1>2, <1>7, <1>8 DEF Chained

-----------------------------------------------------------------------------
(* An event takes a number and leaves the screens alone.                   *)

Tells(m) ==
  /\ m \in EventMsgs /\ m.seq = nextSeq
  /\ nextSeq' = nextSeq + 1 /\ UNCHANGED <<last, base, ctx, down>>
  /\ \/ up' = Append(up, m) /\ lost' = lost
     \/ up' = up /\ lost' = TRUE

LEMMA EventKeeps ==
  ASSUME SyncInv, Chained, NEW m, Tells(m), Types'
  PROVE  SyncInv' /\ Chained'
<1>0. /\ nextSeq \in Nat /\ nextSeq' = nextSeq + 1 /\ base < nextSeq /\ base \in Nat
      /\ \A i \in 1..Len(up) : up[i].seq \in Nat /\ up[i].seq < nextSeq
      /\ ctx # None => ctx.seq \in Nat /\ ctx.seq < nextSeq
  <2>1. \A i \in 1..Len(up) : up[i] \in Messages
    BY DEF SyncInv, Types
  <2> QED BY <2>1, Kinds DEF Tells, SyncInv, Types, Ordered, Stored
<1>1. CASE up' = up /\ lost' = TRUE
  <2>1. Ordered' /\ Faithful'
    BY <1>0, <1>1 DEF Tells, SyncInv, Ordered, Faithful
  <2>2. Named'
    BY <1>0, <1>1 DEF Tells, SyncInv, Named, Names
  <2> QED BY <1>1, <2>1, <2>2 DEF SyncInv, Chained
<1>2. CASE up' = Append(up, m) /\ lost' = lost
  <2>1. /\ Len(up') = Len(up) + 1 /\ Len(up) \in Nat /\ up'[Len(up) + 1] = m
        /\ \A i \in 1..Len(up) : up'[i] = up[i]
    BY <1>2, AppendFacts DEF Tells, EventMsgs, Messages, SyncInv, Types
  <2>2. \A i \in 1..Len(up') : i = Len(up) + 1 \/ i \in 1..Len(up)
    BY <2>1
  <2>3. m.seq = nextSeq /\ m.type = "event"
    BY DEF Tells, EventMsgs
  <2>4. Ordered'
    <3>1. \A i \in 1..Len(up') : up'[i].seq < nextSeq'
      <4>1. ASSUME NEW i \in 1..Len(up) PROVE up'[i].seq < nextSeq'
        BY <1>0, <2>1
      <4>2. \A i : i = Len(up) + 1 => up'[i].seq < nextSeq'
        BY <1>0, <2>1, <2>3
      <4> QED BY <2>2, <4>1, <4>2
    <3>2. \A i, j \in 1..Len(up') : i < j => up'[i].seq < up'[j].seq
      <4> SUFFICES ASSUME NEW i \in 1..Len(up'), NEW j \in 1..Len(up'), i < j
                   PROVE  up'[i].seq < up'[j].seq
        OBVIOUS
      <4>1. i \in 1..Len(up) BY <2>1
      <4>2. CASE j \in 1..Len(up)
        <5>1. up[i].seq < up[j].seq BY <4>1, <4>2 DEF SyncInv, Ordered
        <5> QED BY <2>1, <4>1, <4>2, <5>1
      <4>3. CASE j = Len(up) + 1
        <5>1. up[i].seq < nextSeq BY <1>0, <4>1
        <5> QED BY <2>1, <2>3, <4>1, <4>3, <5>1
      <4> QED BY <2>2, <4>2, <4>3
    <3>3. \A i \in 1..Len(up') : up'[i].type = "delta" => up'[i].base < up'[i].seq
      BY <2>1, <2>2, <2>3 DEF SyncInv, Ordered
    <3>4. ctx # None => ctx.seq < nextSeq' /\ \A i \in 1..Len(up') : ctx.seq < up'[i].seq
      BY <1>0, <2>1, <2>2, <2>3 DEF SyncInv, Ordered
    <3> QED BY <3>1, <3>2, <3>3, <3>4 DEF Ordered, Tells
  <2>5. Faithful'
    BY <2>1, <2>2, <2>3 DEF Tells, SyncInv, Faithful
  <2>6. \A q, t : Names(q, t) => Names(q, t)'
    BY <2>1, <2>2, <2>3 DEF Names
  <2>7. Named'
    <3>1. (ctx # None => Names(ctx.seq, ctx.full))'
      BY <2>6 DEF Tells, SyncInv, Named
    <3>2. \A j \in 1..Len(up') : \A q, t :
            up'[j].type # "event" /\ q = up'[j].seq /\ t = up'[j].full => Names(q, t)'
      BY <2>1, <2>2, <2>3, <2>6 DEF SyncInv, Named
    <3>3. last' # None =>
            /\ ctx' # None /\ ctx'.seq = base' => ctx'.full = last'
            /\ \A j \in 1..Len(up') : up'[j].type # "event" /\ up'[j].seq = base'
                                       => up'[j].full = last'
      BY <2>1, <2>2, <2>3 DEF Tells, SyncInv, Named
    <3> QED BY <3>1, <3>2, <3>3 DEF Named
  <2>8. ASSUME ~lost' PROVE Chained'
    <3>1. \A i \in 1..(Len(up) + 1) : \A q : Follows(i, q) => Follows(i, q)'
      <4> SUFFICES ASSUME NEW i \in 1..(Len(up) + 1), NEW q, Follows(i, q) PROVE Follows(i, q)'
        OBVIOUS
      <4>1. \A k \in 1..(i - 1) : up'[k] = up[k]
        BY <2>1
      <4> QED BY <4>1 DEF Follows, Tells
    <3>2. \A i \in 1..Len(up') : \A q : up'[i].type = "delta" /\ q = up'[i].base => Follows(i, q)'
      BY <1>2, <2>1, <2>2, <2>3, <2>8, <3>1 DEF Chained
    <3>3. \A i, q : i = Len(up) + 1 /\ last # None /\ q = base => Follows(i, q)'
      BY <1>2, <2>1, <2>8, <3>1 DEF Chained
    <3>4. \A i, q : i = Len(up) + 1 /\ Follows(i, q)' => \A j : j = i + 1 => Follows(j, q)'
      BY <2>1, <2>3 DEF Follows
    <3>5. \A i, q : i = Len(up') + 1 /\ last' # None /\ q = base' => Follows(i, q)'
      BY <2>1, <3>3, <3>4 DEF Tells
    <3> QED BY <1>2, <2>8, <3>2, <3>5 DEF Chained, Tells
  <2>9. lost' => Chained'
    BY DEF Chained
  <2> QED BY <2>4, <2>5, <2>7, <2>8, <2>9 DEF SyncInv
<1> QED BY <1>1, <1>2 DEF Tells

-----------------------------------------------------------------------------
(* The server takes a frame.                                               *)

\* The stored screen becomes the one m was published for.
Takes(m) ==
  /\ m.type # "event" /\ ctx' # None /\ ctx' \in Stored /\ ctx'.seq = m.seq /\ ctx'.full = m.full
  /\ ctx'.screen = m.full.screen /\ Shows(ctx'.comps, m.full)

LEMMA TailKeeps ==
  ASSUME SyncInv, Types', up # <<>>, up' = Tail(up), UNCHANGED <<nextSeq, last, base>>,
         ctx' = ctx \/ Takes(up[1])
  PROVE  SyncInv'
<1>1. /\ Len(up') = Len(up) - 1 /\ Len(up) \in Nat \ {0}
      /\ \A i \in 1..Len(up') : up'[i] = up[i + 1] /\ i + 1 \in 1..Len(up)
      /\ 1 \in 1..Len(up)
  BY TailFacts DEF SyncInv, Types
<1>2. Ordered'
  <2>1. \A i \in 1..Len(up') : up'[i].seq < nextSeq'
    BY <1>1 DEF SyncInv, Ordered
  <2>2. \A i, j \in 1..Len(up') : i < j => up'[i].seq < up'[j].seq
    BY <1>1 DEF SyncInv, Ordered
  <2>3. \A i \in 1..Len(up') : up'[i].type = "delta" => up'[i].base < up'[i].seq
    BY <1>1 DEF SyncInv, Ordered
  <2>4. ctx' # None => ctx'.seq < nextSeq' /\ \A i \in 1..Len(up') : ctx'.seq < up'[i].seq
    BY <1>1 DEF SyncInv, Ordered, Takes
  <2> QED BY <2>1, <2>2, <2>3, <2>4 DEF Ordered
<1>3. Faithful'
  BY <1>1 DEF SyncInv, Faithful, Takes
<1>4. \A q, t : Names(q, t) => Names(q, t)'
  BY <1>1 DEF Names
<1>5. Named'
  <2>1. \A q, t : ctx' # None /\ q = ctx'.seq /\ t = ctx'.full => Names(q, t)'
    <3>1. CASE ctx' = ctx
      BY <1>4, <3>1 DEF SyncInv, Named
    <3>2. CASE Takes(up[1])
      BY <1>1, <1>4, <3>2 DEF SyncInv, Named, Takes
    <3> QED BY <3>1, <3>2
  <2>2. \A j \in 1..Len(up') : \A q, t :
          up'[j].type # "event" /\ q = up'[j].seq /\ t = up'[j].full => Names(q, t)'
    BY <1>1, <1>4 DEF SyncInv, Named
  <2>3. last' # None =>
          /\ ctx' # None /\ ctx'.seq = base' => ctx'.full = last'
          /\ \A j \in 1..Len(up') : up'[j].type # "event" /\ up'[j].seq = base'
                                     => up'[j].full = last'
    BY <1>1 DEF SyncInv, Named, Takes
  <2> QED BY <2>1, <2>2, <2>3 DEF Named
<1> QED BY <1>2, <1>3, <1>5 DEF SyncInv

LEMMA TailChains ==
  ASSUME SyncInv, Chained, up # <<>>, up' = Tail(up), UNCHANGED <<nextSeq, last, base>>,
         ~lost' => ~lost /\ down' = down /\ (Takes(up[1]) \/ (up[1].type = "event" /\ ctx' = ctx))
  PROVE  Chained'
<1> SUFFICES ASSUME ~lost' PROVE Chained'
  BY DEF Chained
<1>1. /\ Len(up') = Len(up) - 1 /\ Len(up) \in Nat \ {0}
      /\ \A i \in 1..Len(up') : up'[i] = up[i + 1] /\ i + 1 \in 1..Len(up)
  BY TailFacts DEF SyncInv, Types
<1>2. ~lost /\ down' = 0
  BY DEF Chained
<1>3. \A i \in 1..Len(up) : \A q : Follows(i + 1, q) => Follows(i, q)'
  <2> SUFFICES ASSUME NEW i \in 1..Len(up), NEW q, Follows(i + 1, q) PROVE Follows(i, q)'
    OBVIOUS
  <2>1. CASE Takes(up[1])
    <3>1. PICK j \in 1..i : /\ up[j].type # "event" /\ up[j].seq = q
                            /\ \A k \in (j + 1)..i : up[k].type = "event"
      BY <1>1, <2>1 DEF Follows, Takes
    <3>2. \A k \in 1..(i - 1) : up'[k] = up[k + 1] /\ k + 1 \in 1..i
      BY <1>1
    <3>3. CASE j = 1
      BY <1>1, <2>1, <3>1, <3>2, <3>3 DEF Follows, Takes
    <3>4. CASE j # 1
      <4>1. j - 1 \in 1..(i - 1) /\ up'[j - 1] = up[j]
        BY <3>2, <3>4
      <4>2. \A k \in ((j - 1) + 1)..(i - 1) : up'[k].type = "event"
        BY <3>1, <3>2, <3>4
      <4>3. up'[j - 1].type # "event" /\ up'[j - 1].seq = q
        BY <3>1, <4>1
      <4>4. \E n \in 1..(i - 1) : /\ up'[n].type # "event" /\ up'[n].seq = q
                                  /\ \A k \in (n + 1)..(i - 1) : up'[k].type = "event"
        BY <4>1, <4>2, <4>3
      <4> QED BY <4>4 DEF Follows
    <3> QED BY <3>3, <3>4
  <2>2. CASE up[1].type = "event" /\ ctx' = ctx
    <3>1. \A k \in 1..(i - 1) : up'[k] = up[k + 1] /\ k + 1 \in 1..i
      BY <1>1
    <3>2. CASE \E j \in 1..i : /\ up[j].type # "event" /\ up[j].seq = q
                               /\ \A k \in (j + 1)..i : up[k].type = "event"
      <4>1. PICK j \in 1..i : /\ up[j].type # "event" /\ up[j].seq = q
                              /\ \A k \in (j + 1)..i : up[k].type = "event"
        BY <3>2
      <4>2. j # 1
        BY <2>2, <4>1
      <4>3. j - 1 \in 1..(i - 1) /\ up'[j - 1] = up[j]
        BY <3>1, <4>2
      <4>4. \A k \in ((j - 1) + 1)..(i - 1) : up'[k].type = "event"
        BY <3>1, <4>1, <4>2
      <4>5. up'[j - 1].type # "event" /\ up'[j - 1].seq = q
        BY <4>1, <4>3
      <4>6. \E n \in 1..(i - 1) : /\ up'[n].type # "event" /\ up'[n].seq = q
                                  /\ \A k \in (n + 1)..(i - 1) : up'[k].type = "event"
        BY <4>3, <4>4, <4>5
      <4> QED BY <4>6 DEF Follows
    <3>3. CASE (\A k \in 1..i : up[k].type = "event") /\ ctx # None /\ ctx.seq = q
      BY <2>2, <3>1, <3>3 DEF Follows
    <3> QED BY <3>2, <3>3 DEF Follows
  <2> QED BY <2>1, <2>2
<1>4. \A i \in 1..Len(up') : \A q : up'[i].type = "delta" /\ q = up'[i].base => Follows(i, q)'
  <2> SUFFICES ASSUME NEW i \in 1..Len(up'), NEW q, up'[i].type = "delta", q = up'[i].base
               PROVE  Follows(i, q)'
    OBVIOUS
  <2>1. i \in 1..Len(up) /\ i + 1 \in 1..Len(up) /\ up'[i] = up[i + 1]
    BY <1>1
  <2>2. Follows(i + 1, q)
    BY <1>2, <2>1 DEF Chained
  <2> QED BY <1>3, <2>1, <2>2
<1>5. \A i, q : i = Len(up') + 1 /\ last' # None /\ q = base' => Follows(i, q)'
  <2>1. last # None => Follows(Len(up) + 1, base)
    BY <1>2 DEF Chained
  <2>2. \A i, q : i = Len(up) /\ last # None /\ q = base => Follows(i, q)'
    BY <1>1, <1>3, <2>1
  <2>3. Len(up') + 1 = Len(up)
    BY <1>1
  <2> QED BY <2>2, <2>3
<1> QED BY <1>2, <1>4, <1>5 DEF Chained

LEMMA FirstFacts ==
  ASSUME SyncInv, up # <<>>, NEW m, m = Head(up)
  PROVE  /\ m \in Messages /\ m = up[1] /\ 1 \in 1..Len(up)
         /\ m.seq > StoredSeq
         /\ m.type = "snapshot" => m.screen = m.full.screen /\ Shows(m.comps, m.full)
         /\ ctx # None => ctx \in Stored /\ ctx.seq \in Nat
<1>1. m \in Messages /\ m = up[1] /\ 1 \in 1..Len(up) /\ m.seq \in Nat
  <2>1. up \in Seq(Messages) /\ Len(up) \in Nat /\ Len(up) # 0
    BY DEF SyncInv, Types
  <2> QED BY <2>1, Kinds
<1>2. ctx # None => ctx \in Stored /\ ctx.seq \in Nat /\ ctx.seq < m.seq
  BY <1>1 DEF SyncInv, Types, Ordered, Stored
<1> QED BY <1>1, <1>2 DEF SyncInv, Faithful, StoredSeq

LEMMA SnapshotTaken ==
  ASSUME SyncInv, up # <<>>, NEW m, m = Head(up), m.type = "snapshot", ctx' = Ingested(m, m)
  PROVE  Takes(m)
<1>1. m \in Snapshots /\ m.screen = m.full.screen /\ Shows(m.comps, m.full)
  BY FirstFacts, Kinds
<1>2. ctx' = [seq |-> m.seq, screen |-> m.screen, comps |-> m.comps, full |-> m.full]
  BY DEF Ingested
<1>3. ctx' \in Stored
  BY <1>1, <1>2 DEF Snapshots, Stored, Comps
<1> QED BY <1>1, <1>2, <1>3, NoneAssumption DEF Takes

LEMMA DeltaTaken ==
  ASSUME SyncInv, up # <<>>, NEW m, m = Head(up), m.type = "delta", DeltaFits(m),
         ctx' = Ingested(m, Merge(m))
  PROVE  Takes(m)
<1>1. m \in Deltas /\ m.base \in Nat /\ m = up[1] /\ 1 \in 1..Len(up)
  <2>1. m \in Deltas /\ m = up[1] /\ 1 \in 1..Len(up)
    BY FirstFacts, Kinds
  <2> QED BY <2>1 DEF Deltas
<1>2. ctx # None /\ ctx.seq = m.base
  BY <1>1 DEF DeltaFits, StoredSeq
<1>3. Against(m, ctx.full)
  BY <1>1, <1>2 DEF SyncInv, Named, Names
<1>4. ctx \in Stored /\ Shows(ctx.comps, ctx.full) /\ ctx.screen = ctx.full.screen
  BY <1>2 DEF SyncInv, Types, Faithful
<1>5. /\ Merge(m).comps \in Comps /\ Shows(Merge(m).comps, m.full)
      /\ Merge(m).screen = m.full.screen /\ Merge(m).screen \in Routes
  BY <1>1, <1>3, <1>4, MergeFacts
<1> HIDE DEF Merge
<1>6. ctx' = [seq |-> m.seq, screen |-> Merge(m).screen, comps |-> Merge(m).comps,
              full |-> m.full]
  BY DEF Ingested
<1>7. ctx' \in Stored
  BY <1>1, <1>5, <1>6 DEF Deltas, Stored, Comps
<1> QED BY <1>5, <1>6, <1>7, NoneAssumption DEF Takes

\* What an ingest does; a gap is met only after a loss.
LEMMA IngestFacts ==
  ASSUME SyncInv, Chained, up # <<>>, NEW m, m = Head(up), Ingest(m)
  PROVE  /\ down' \in Nat /\ (ctx' = ctx \/ Takes(m))
         /\ ~lost' => /\ ~lost /\ down' = down
                      /\ Takes(m) \/ (m.type = "event" /\ ctx' = ctx)
<1>1. down \in Nat /\ m.type \in {"snapshot", "delta", "event"}
  BY FirstFacts, Kinds DEF SyncInv, Types
<1>2. CASE m.type = "event"
  BY <1>1, <1>2 DEF Ingest
<1>3. CASE m.type = "snapshot"
  <2>1. SnapshotFits(m)
    BY FirstFacts DEF SnapshotFits
  <2>2. ctx' = Ingested(m, m) /\ UNCHANGED <<down, faults, lost>>
    BY <1>3, <2>1 DEF Ingest
  <2> QED BY <1>1, <1>3, <2>2, SnapshotTaken
<1>4. CASE m.type = "delta" /\ DeltaFits(m)
  <2>1. \/ ctx' = Ingested(m, Merge(m)) /\ UNCHANGED <<down, faults, lost>>
        \/ Invalid
    BY <1>4 DEF Ingest
  <2>2. CASE ctx' = Ingested(m, Merge(m)) /\ UNCHANGED <<down, faults, lost>>
    BY <1>1, <1>4, <2>2, DeltaTaken
  <2>3. CASE Invalid
    BY <1>1, <2>3 DEF Invalid, Request
  <2> QED BY <2>1, <2>2, <2>3
<1>5. CASE m.type = "delta" /\ ~DeltaFits(m)
  <2>1. SequenceGap
    BY <1>5 DEF Ingest
  <2>2. down' \in Nat /\ ctx' = ctx /\ lost' = lost
    BY <1>1, <2>1 DEF SequenceGap, Request
  <2>3. lost
    <3>1. m.seq > StoredSeq /\ m = up[1] /\ 1 \in 1..Len(up)
      BY FirstFacts
    <3>2. ~lost => Follows(1, m.base)
      BY <1>5, <3>1 DEF Chained
    <3>3. Follows(1, m.base) => m.base = StoredSeq
      BY DEF Follows, StoredSeq
    <3> QED BY <1>5, <3>1, <3>2, <3>3 DEF DeltaFits
  <2> QED BY <2>2, <2>3
<1> QED BY <1>1, <1>2, <1>3, <1>4, <1>5

-----------------------------------------------------------------------------
(* Every step.                                                             *)

\* The publisher, the channel and the stored screen stand still.
LEMMA UiKeeps ==
  ASSUME SyncInv, Chained, UNCHANGED <<nextSeq, last, base, up, down, ctx, lost>>,
         route' \in Routes, shown' \in Routes, face' \in Faces, ir' \in {None} \cup Screen
  PROVE  SyncInv' /\ Chained'
<1>1. Types'
  BY DEF SyncInv, Types
<1>2. Ordered' /\ Faithful'
  BY DEF SyncInv, Ordered, Faithful
<1>3. Named'
  BY DEF SyncInv, Named, Names
<1>4. Chained'
  BY DEF Chained, Follows
<1> QED BY <1>1, <1>2, <1>3, <1>4 DEF SyncInv

LEMMA SendSnapshotIs ==
  ASSUME SyncInv, NEW s \in Screen, SendSnapshot(s)
  PROVE  \E m : Published(m, s)
<1>1. PICK c \in Rungs(s.face) :
        Send([type |-> "snapshot", seq |-> nextSeq, screen |-> s.screen, comps |-> c, full |-> s])
  BY DEF SendSnapshot
<1> DEFINE m == [type |-> "snapshot", seq |-> nextSeq, screen |-> s.screen, comps |-> c,
                 full |-> s]
<1>2. c \in Comps /\ Shows(c, s)
  BY RungFacts
<1>3. m \in Snapshots
  BY <1>2 DEF Snapshots, Comps, Screen, SyncInv, Types
<1>4. Carries(m, s)
  BY <1>2, <1>3 DEF Carries, Messages
<1>5. Published(m, s)
  <2> HIDE DEF m
  <2> QED BY <1>1, <1>4 DEF Published, Send, SendSnapshot, m
<1> QED BY <1>5

LEMMA SendDeltaIs ==
  ASSUME SyncInv, NEW s \in Screen, last # None, last.screen = s.screen, SendDelta(s)
  PROVE  \E m : Published(m, s)
<1> DEFINE m == [type |-> "delta", seq |-> nextSeq, base |-> base,
                 changed |-> Changed(last.face, s.face),
                 removed |-> Removed(last.face, s.face), full |-> s]
<1>1. m \in Deltas
  <2>1. nextSeq \in Nat /\ base \in Nat
    BY DEF SyncInv, Types
  <2>2. Changed(last.face, s.face) \subseteq Labels /\ Removed(last.face, s.face) \subseteq Labels
    BY DEF Changed, Removed
  <2> QED BY <2>1, <2>2 DEF Deltas
<1>2. Carries(m, s)
  BY <1>1 DEF Carries, Messages, Against
<1>3. Published(m, s)
  <2>1. Send(m) /\ last' = s /\ base' = nextSeq
    BY DEF SendDelta
  <2> HIDE DEF m
  <2> QED BY <1>2, <2>1 DEF Published, Send
<1> QED BY <1>3

LEMMA PublishedTypes ==
  ASSUME SyncInv, NEW s \in Screen, NEW m, Published(m, s), UNCHANGED <<uiVars, ctx>>,
         down' \in Nat
  PROVE  Types'
<1>1. m \in Messages /\ up \in Seq(Messages)
  BY DEF Published, Carries, SyncInv, Types
<1>2. up' \in Seq(Messages)
  BY <1>1, AppendFacts DEF Published
<1>3. nextSeq' \in Nat \ {0} /\ base' \in Nat /\ base' < nextSeq'
  BY DEF Published, SyncInv, Types
<1> QED BY <1>2, <1>3 DEF Published, SyncInv, Types, uiVars

LEMMA PublishStep ==
  ASSUME SyncInv, Chained, NEW s \in Screen, NEW m, Published(m, s), UNCHANGED <<uiVars, ctx>>,
         down' \in Nat, down' = down \/ lost
  PROVE  SyncInv' /\ Chained'
<1>1. Types'
  BY PublishedTypes
<1> QED BY <1>1, PublishedKeeps, PublishedChains

LEMMA PublishScreenKeeps ==
  ASSUME SyncInv, Chained, PublishScreen
  PROVE  SyncInv' /\ Chained'
<1>1. ir \in Screen /\ UNCHANGED <<uiVars, ctx>> /\ down' \in Nat /\ down' = down
  BY DEF PublishScreen, SyncInv, Types
<1>2. CASE SendSnapshot(ir)
  BY <1>1, <1>2, SendSnapshotIs, PublishStep
<1>3. CASE last # None /\ last.screen = ir.screen /\ SendDelta(ir)
  BY <1>1, <1>3, SendDeltaIs, PublishStep
<1>4. CASE UNCHANGED <<nextSeq, last, base, up, faults, lost>>
  <2>1. /\ route' \in Routes /\ shown' \in Routes /\ face' \in Faces
        /\ ir' \in {None} \cup Screen
    BY <1>1 DEF uiVars, SyncInv, Types
  <2> QED BY <1>1, <1>4, <2>1, UiKeeps
<1> QED BY <1>2, <1>3, <1>4 DEF PublishScreen

LEMMA AnswerRequestKeeps ==
  ASSUME SyncInv, Chained, AnswerRequest
  PROVE  SyncInv' /\ Chained'
<1>1. /\ UNCHANGED <<uiVars, ctx>> /\ down \in Nat /\ down > 0 /\ down' = down - 1
      /\ ir \in {None} \cup Screen
  BY DEF AnswerRequest, SyncInv, Types
<1>2. lost /\ down' \in Nat
  BY <1>1 DEF Chained
<1>3. CASE ir = None
  <2>1. last' = None /\ UNCHANGED <<nextSeq, base, up, lost, ctx>>
    BY <1>3 DEF AnswerRequest
  <2>2. Types'
    BY <1>1, <1>2, <2>1 DEF SyncInv, Types, uiVars
  <2>3. Ordered' /\ Faithful'
    BY <2>1 DEF SyncInv, Ordered, Faithful
  <2>4. Named'
    BY <2>1 DEF SyncInv, Named, Names
  <2> QED BY <1>2, <2>1, <2>2, <2>3, <2>4 DEF SyncInv, Chained
<1>4. CASE ir # None
  <2>1. SendSnapshot(ir) /\ ir \in Screen
    BY <1>1, <1>4 DEF AnswerRequest
  <2> QED BY <1>1, <1>2, <2>1, SendSnapshotIs, PublishStep
<1> QED BY <1>3, <1>4

LEMMA PublishEventKeeps ==
  ASSUME SyncInv, Chained, PublishEvent
  PROVE  SyncInv' /\ Chained'
<1> DEFINE m == [type |-> "event", seq |-> nextSeq]
<1>1. m \in EventMsgs /\ nextSeq \in Nat /\ m.seq = nextSeq
  BY DEF EventMsgs, SyncInv, Types
<1>2. Send(m) /\ UNCHANGED <<uiVars, last, base, ctx, down>>
  BY DEF PublishEvent
<1> HIDE DEF m
<1>3. Tells(m)
  BY <1>1, <1>2 DEF Tells, Send
<1>4. Types'
  <2>1. up' \in Seq(Messages)
    BY <1>1, <1>3, AppendFacts DEF Tells, EventMsgs, SyncInv, Types, Messages
  <2>2. nextSeq' \in Nat \ {0} /\ base' \in Nat /\ base' < nextSeq'
    BY <1>3 DEF Tells, SyncInv, Types
  <2> QED BY <1>2, <2>1, <2>2 DEF SyncInv, Types, uiVars
<1> QED BY <1>3, <1>4, EventKeeps

\* A frame leaves the channel, whatever becomes of it.
LEMMA TailTypes ==
  ASSUME SyncInv, up # <<>>, up' = Tail(up), UNCHANGED <<uiVars, nextSeq, last, base>>,
         ctx' = ctx \/ ctx' \in Stored, down' \in Nat
  PROVE  Types'
<1>1. up' \in Seq(Messages)
  BY TailFacts DEF SyncInv, Types
<1> QED BY <1>1 DEF SyncInv, Types, uiVars

LEMMA DispatchKeeps ==
  ASSUME SyncInv, Chained, Dispatch
  PROVE  SyncInv' /\ Chained'
<1>1. /\ up # <<>> /\ up' = Tail(up) /\ Ingest(Head(up))
      /\ UNCHANGED <<uiVars, nextSeq, last, base>>
  BY DEF Dispatch, pubVars
<1>2. \A m : m = Head(up) =>
        /\ down' \in Nat /\ (ctx' = ctx \/ Takes(m))
        /\ ~lost' => /\ ~lost /\ down' = down
                     /\ Takes(m) \/ (m.type = "event" /\ ctx' = ctx)
  BY <1>1, IngestFacts
<1>3. Head(up) = up[1]
  BY <1>1, FirstFacts
<1>4. /\ down' \in Nat /\ (ctx' = ctx \/ Takes(up[1]))
      /\ ~lost' => /\ ~lost /\ down' = down
                   /\ Takes(up[1]) \/ (up[1].type = "event" /\ ctx' = ctx)
  BY <1>2, <1>3
<1>5. Types'
  BY <1>1, <1>4, TailTypes DEF Takes
<1>6. SyncInv'
  BY <1>1, <1>4, <1>5, TailKeeps
<1>7. Chained'
  BY <1>1, <1>4, TailChains
<1> QED BY <1>6, <1>7

LEMMA DispatchFailsKeeps ==
  ASSUME SyncInv, Chained, DispatchFails
  PROVE  SyncInv' /\ Chained'
<1>1. /\ up # <<>> /\ up' = Tail(up) /\ UNCHANGED <<uiVars, nextSeq, last, base, down>> /\ lost'
  BY DEF DispatchFails, pubVars
<1>2. \A m : m = Head(up) => ctx' = ctx \/ Takes(m)
  BY <1>1, SnapshotTaken, DeltaTaken DEF DispatchFails
<1>3. Head(up) = up[1]
  BY <1>1, FirstFacts
<1>4. ctx' = ctx \/ Takes(up[1])
  BY <1>2, <1>3
<1>5. down' \in Nat
  BY <1>1 DEF SyncInv, Types
<1>6. Types'
  BY <1>1, <1>4, <1>5, TailTypes DEF Takes
<1> QED BY <1>1, <1>4, <1>6, TailKeeps DEF Chained

LEMMA ExpireKeeps ==
  ASSUME SyncInv, Chained, Expire
  PROVE  SyncInv' /\ Chained'
<1>1. ctx' = None /\ lost' /\ UNCHANGED <<uiVars, nextSeq, last, base, up, down>>
  BY DEF Expire, pubVars
<1>2. Types'
  BY <1>1 DEF SyncInv, Types, uiVars
<1>3. Ordered' /\ Faithful'
  BY <1>1 DEF SyncInv, Ordered, Faithful
<1>4. Named'
  BY <1>1 DEF SyncInv, Named, Names
<1> QED BY <1>1, <1>2, <1>3, <1>4 DEF SyncInv, Chained

LEMMA CaptureFacts ==
  ASSUME SyncInv, NEW f \in Faces, CaptureOf(shown, f)
  PROVE  ir' \in {None} \cup Screen
BY DEF CaptureOf, Screen, SyncInv, Types

LEMMA Step ==
  ASSUME SyncInv, Chained, [Next]_vars
  PROVE  SyncInv' /\ Chained'
<1>0. /\ route \in Routes /\ shown \in Routes /\ face \in Faces /\ ir \in {None} \cup Screen
  BY DEF SyncInv, Types
<1>1. CASE Navigate
  BY <1>0, <1>1, UiKeeps DEF Navigate, pubVars
<1>2. CASE Recompose
  BY <1>0, <1>2, UiKeeps DEF Recompose, pubVars
<1>3. CASE UiChange
  BY <1>0, <1>3, UiKeeps DEF UiChange, pubVars
<1>4. CASE AttachRoot
  <2>1. face' \in Faces /\ CaptureOf(shown, face')
    BY <1>4 DEF AttachRoot
  <2>2. ir' \in {None} \cup Screen
    BY <2>1, CaptureFacts
  <2> QED BY <1>0, <1>4, <2>1, <2>2, UiKeeps DEF AttachRoot, pubVars
<1>5. CASE Capture
  <2>1. ir' \in {None} \cup Screen
    BY <1>0, <1>5, CaptureFacts DEF Capture
  <2> QED BY <1>0, <1>5, <2>1, UiKeeps DEF Capture, pubVars
<1>6. CASE Bind
  BY <1>0, <1>6, UiKeeps DEF Bind, uiVars
<1>7. CASE ChannelOpens
  BY <1>0, <1>7, UiKeeps DEF ChannelOpens, uiVars, pubVars
<1>8. CASE UNCHANGED vars
  BY <1>0, <1>8, UiKeeps DEF vars, uiVars, pubVars
<1> QED BY <1>1, <1>2, <1>3, <1>4, <1>5, <1>6, <1>7, <1>8, PublishScreenKeeps, PublishEventKeeps,
           AnswerRequestKeeps, DispatchKeeps, DispatchFailsKeeps, ExpireKeeps DEF Next

LEMMA Start ==
  ASSUME Init
  PROVE  SyncInv /\ Chained
<1>1. /\ route \in Routes /\ shown \in Routes /\ face \in Faces
      /\ nextSeq = 1 /\ last = None /\ base = 0 /\ up = <<>> /\ down = 0
  BY DEF Init
<1>2. ir \in {None} \cup Screen /\ (ctx # None => ctx \in InitialScreen(ir) /\ ir \in Screen)
  BY <1>1 DEF Init, Screen
<1>3. ctx # None => /\ ctx \in Stored /\ ctx.seq = 0
                    /\ ctx.screen = ctx.full.screen /\ Shows(ctx.comps, ctx.full)
  <2> SUFFICES ASSUME ctx # None
               PROVE  /\ ctx \in Stored /\ ctx.seq = 0
                      /\ ctx.screen = ctx.full.screen /\ Shows(ctx.comps, ctx.full)
    OBVIOUS
  <2>1. PICK c \in Rungs(ir.face) :
          ctx = [seq |-> 0, screen |-> ir.screen, comps |-> c, full |-> ir]
    BY <1>2 DEF InitialScreen, ServerRungs
  <2>2. c \in Comps /\ Shows(c, ir) /\ ir \in Screen
    BY <1>2, RungFacts
  <2>3. ir.screen \in Routes
    BY <2>2 DEF Screen
  <2> QED BY <2>1, <2>2, <2>3 DEF Stored, Comps
<1>4. Types
  BY <1>1, <1>2, <1>3 DEF Types
<1>5. Len(up) = 0
  BY <1>1
<1>6. Ordered /\ Faithful /\ Named /\ Chained
  BY <1>1, <1>3, <1>5 DEF Ordered, Faithful, Named, Names, Chained
<1> QED BY <1>4, <1>6 DEF SyncInv

\* In every behaviour a sequence number means one screen, and while nothing is lost the
\* frames in flight lead from the stored screen to the publisher's anchor.
THEOREM Linked == Spec => [](SyncInv /\ Chained)
<1>1. SyncInv /\ Chained /\ [Next]_vars => (SyncInv /\ Chained)'
  BY Step
<1> QED BY <1>1, Start, PTL DEF Spec

\* The types SyncInv does not mention: the capture's, the flags, and what a behaviour is
\* bounded by.
Flags ==
  /\ armed \in BOOLEAN /\ tree \in {None} \cup (Routes \X Faces)
  /\ seen \in {None} \cup Screen /\ bound \in BOOLEAN /\ open \in BOOLEAN
  /\ acts \in 0..MaxActs /\ faults \in 0..MaxFaults /\ lost \in BOOLEAN

\* The two counters stay under their bounds.
LEMMA Bounded ==
  /\ acts \in 0..MaxActs /\ Act => acts' \in 0..MaxActs
  /\ faults \in 0..MaxFaults /\ Fault => faults' \in 0..MaxFaults
BY ContextAssumption DEF Act, Fault

LEMMA SendFlags ==
  ASSUME faults \in 0..MaxFaults, lost \in BOOLEAN, NEW m, Send(m)
  PROVE  faults' \in 0..MaxFaults /\ lost' \in BOOLEAN
<1>1. faults' = faults \/ Fault
  BY DEF Send
<1>2. lost' = lost \/ lost' = TRUE
  BY DEF Send
<1> QED BY <1>1, <1>2, Bounded

LEMMA FlagsStep ==
  ASSUME Types, Flags, [Next]_vars
  PROVE  Flags'
<1>1. CASE Navigate \/ Recompose \/ UiChange
  <2>1. (acts' = acts \/ Act) /\ (armed' = armed \/ armed' = TRUE)
        /\ UNCHANGED <<tree, seen, bound, open, faults, lost>>
    BY <1>1 DEF Navigate, Recompose, UiChange, pubVars
  <2> QED BY <2>1, Bounded DEF Flags
<1>2. CASE AttachRoot \/ Capture
  <2>1. /\ acts' = acts \/ Act
        /\ armed' = FALSE /\ UNCHANGED <<seen, bound, open, faults, lost>>
    BY <1>2 DEF AttachRoot, Capture, CaptureOf, pubVars
  <2>2. face' \in Faces /\ tree' = <<shown, face'>>
    BY <1>2 DEF AttachRoot, Capture, CaptureOf, Types
  <2>3. tree' \in {None} \cup (Routes \X Faces)
    BY <2>2 DEF Types
  <2> QED BY <2>1, <2>3, Bounded DEF Flags
<1>3. CASE Bind \/ ChannelOpens
  BY <1>3 DEF Flags, Bind, ChannelOpens, uiVars, pubVars
<1>4. CASE PublishScreen
  <2>1. faults' \in 0..MaxFaults /\ lost' \in BOOLEAN
    BY <1>4, SendFlags DEF Flags, PublishScreen, SendSnapshot, SendDelta
  <2> QED BY <1>4, <2>1 DEF Types, Flags, PublishScreen, uiVars
<1>5. CASE PublishEvent
  <2>1. faults' \in 0..MaxFaults /\ lost' \in BOOLEAN
    BY <1>5, SendFlags DEF Flags, PublishEvent
  <2>2. Act /\ UNCHANGED <<armed, tree, seen, bound, open>>
    BY <1>5 DEF PublishEvent, uiVars
  <2> QED BY <2>1, <2>2, Bounded DEF Flags
<1>6. CASE AnswerRequest
  <2>1. faults' \in 0..MaxFaults /\ lost' \in BOOLEAN
    BY <1>6, SendFlags DEF Flags, AnswerRequest, SendSnapshot
  <2> QED BY <1>6, <2>1 DEF Flags, AnswerRequest, uiVars
<1>7. CASE Dispatch
  <2>1. faults' = faults \/ Fault
    <3> DEFINE m == Head(up)
    <3>1. Ingest(m)
      BY <1>7 DEF Dispatch
    <3> HIDE DEF m
    <3> QED BY <3>1 DEF Ingest, Invalid, SequenceGap
  <2>2. lost' = lost \/ lost' = TRUE
    <3> DEFINE m == Head(up)
    <3>1. Ingest(m)
      BY <1>7 DEF Dispatch
    <3> HIDE DEF m
    <3> QED BY <3>1 DEF Ingest, Invalid, SequenceGap
  <2>3. UNCHANGED <<armed, tree, seen, bound, open, acts>>
    BY <1>7 DEF Dispatch, uiVars, pubVars
  <2> QED BY <2>1, <2>2, <2>3, Bounded DEF Flags
<1>8. CASE DispatchFails \/ Expire
  <2>1. Fault /\ lost' = TRUE /\ UNCHANGED <<armed, tree, seen, bound, open, acts>>
    BY <1>8 DEF DispatchFails, Expire, uiVars, pubVars
  <2> QED BY <2>1, Bounded DEF Flags
<1>9. CASE UNCHANGED vars
  BY <1>9 DEF Flags, vars, uiVars, pubVars
<1> QED BY <1>1, <1>2, <1>3, <1>4, <1>5, <1>6, <1>7, <1>8, <1>9 DEF Next

LEMMA FlagsStart ==
  ASSUME Init
  PROVE  Flags
<1>1. armed = FALSE /\ bound = FALSE /\ open = FALSE /\ lost = FALSE /\ seen = None
  BY DEF Init
<1>2. acts \in 0..MaxActs /\ faults \in 0..MaxFaults
  BY ContextAssumption DEF Init
<1>3. tree \in {None} \cup (Routes \X Faces)
  BY DEF Init
<1> QED BY <1>1, <1>2, <1>3 DEF Flags

\* Every variable of the capture, the publisher, the channel and the ingestor keeps its type.
THEOREM ContextTypeCorrect == Spec => []TypeOK
<1>1. Init => Flags
  BY FlagsStart
<1>2. SyncInv /\ Flags /\ [Next]_vars => Flags'
  BY FlagsStep DEF SyncInv
<1>3. SyncInv /\ Flags => TypeOK
  BY DEF SyncInv, Types, Flags, TypeOK
<1> QED BY <1>1, <1>2, <1>3, Linked, PTL DEF Spec

\* The prompt never shows a component the client did not mean with the stored number:
\* SnapshotIngestor merges a delta only into the screen it was computed against.
THEOREM ShownWasThere == Spec => []NoFabrication
<1>1. SyncInv => NoFabrication
  <2> SUFFICES ASSUME SyncInv, ctx # None,
                      NEW i \in WireIds, ctx.comps[i] # 0, i = Whole(i[1])
               PROVE  ctx.comps[i] = ctx.full.face[i[1]]
    BY DEF NoFabrication, ScreenSlot, SyncInv, Faithful
  <2>1. i[1] \in Labels
    BY ContextAssumption DEF WireIds, Whole, Cut
  <2> QED BY <2>1 DEF SyncInv, Faithful, Shows
<1> QED BY <1>1, Linked, PTL

\* While no frame, write or key is lost the ingestor's screen is the publisher's, as soon
\* as the channel is empty, and no snapshot was ever asked for.
THEOREM InSyncUnlessLost == Spec => []LosslessIsInSync
<1>1. SyncInv /\ Chained => LosslessIsInSync
  <2> SUFFICES ASSUME SyncInv, Chained, ~lost, up = <<>>, last # None
               PROVE  down = 0 /\ ctx # None /\ ctx.seq = base /\ ctx.full = last
    BY DEF LosslessIsInSync
  <2>1. Len(up) = 0
    OBVIOUS
  <2>2. down = 0 /\ Follows(1, base)
    BY <2>1 DEF Chained
  <2>3. ctx # None /\ ctx.seq = base
    BY <2>2 DEF Follows
  <2> QED BY <2>2, <2>3 DEF SyncInv, Named
<1> QED BY <1>1, Linked, PTL
=============================================================================
