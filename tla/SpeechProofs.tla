---------------------------- MODULE SpeechProofs ----------------------------
(***************************************************************************)
(* Speech, in and out.  The first half is about Uplink: what is billed as  *)
(* speech-to-text, and how long the caller is said to have been silent,    *)
(* for every frame, hop, queue length, gap, number of stream deaths and    *)
(* bound on the track.  The second is about ReplyStream and Chunker: what  *)
(* the round holds and what is spoken of it, for every number of lines,    *)
(* slots and ids, every limit of the assembler and every text.             *)
(***************************************************************************)
EXTENDS Uplink, ReplyStream,
        FiniteSetTheorems, SequenceTheorems, WellFoundedInduction, TLAPS

(***************************************************************************)
(* Billing.  A chunk is metered when the sender takes it and delivered     *)
(* when the socket accepts it.  Between the two the sender holds it; a     *)
(* stream's end may lose that one chunk, and its successor starts with     *)
(* empty hands.                                                            *)
(***************************************************************************)

\* Chunks that are metered and in nobody's hands but the sender's.
InHand == IF sender \in {"holding", "raised"} THEN 1 ELSE 0

\* While a socket is up, each earlier stream has lost one chunk at most and this one holds
\* what it has not delivered.
Metering ==
  /\ metered \in Nat /\ delivered \in Nat /\ streams \in Nat
  /\ sup # "up" => conn = "none" /\ sender = "gone"
  /\ conn = "none" => sender = "gone" /\ metered <= delivered + streams
  /\ conn # "none" => metered + 1 <= delivered + streams + InHand

LEMMA MeteringInit == Init => Metering
BY DEF Init, Metering, InHand

\* A stream that is not over keeps its hands, or its death leaves no socket behind.
LEMMA DeathLeaves ==
  ASSUME Metering, Died, metered' = metered, delivered' = delivered, streams' = streams
  PROVE  Metering'
BY DEF Died, Metering, InHand

LEMMA MeteringNext == Metering /\ [Next]_vars => Metering'
<1> SUFFICES ASSUME Metering, [Next]_vars PROVE Metering'
  OBVIOUS
<1> USE DEF streamVars, countVars
<1>1. ASSUME UNCHANGED <<sup, sender, conn, countVars>> PROVE Metering'
  BY <1>1 DEF Metering, InHand
<1>2. CASE \E voice \in BOOLEAN, gap \in Gaps : Push(voice, gap)
  BY <1>1, <1>2 DEF Push
<1>3. CASE Close \/ OnHop \/ Pump \/ PumpEnds \/ Result
  BY <1>1, <1>3 DEF Close, OnHop, Pump, PumpEnds, Result
<1>4. CASE Connect
  <2>1. CASE sup' = "up" /\ sender' = "waiting" /\ conn' = "open" /\ streams' = streams + 1
    BY <1>4, <2>1 DEF Connect, Metering, InHand
  <2>2. CASE Died /\ UNCHANGED streams
    BY <1>4, <2>2, DeathLeaves DEF Connect
  <2> QED BY <1>4, <2>1, <2>2 DEF Connect
<1>5. CASE Take
  BY <1>5 DEF Take, Metering, InHand
<1>6. CASE Give
  BY <1>6 DEF Give, Metering, InHand
<1>7. CASE TakeEnd
  BY <1>7 DEF TakeEnd, Metering, InHand
<1>8. CASE StreamEnds
  <2>1. CASE conn = "closed" /\ sender # "raised"
    BY <1>8, <2>1 DEF StreamEnds, Metering, InHand
  <2>2. CASE ~(conn = "closed" /\ sender # "raised")
    BY <1>8, <2>2, DeathLeaves DEF StreamEnds
  <2> QED BY <2>1, <2>2
<1>9. CASE Hangs \/ Flushed
  BY <1>9 DEF Hangs, Flushed, Metering, InHand
<1>10. CASE UNCHANGED vars
  BY <1>1, <1>10 DEF vars
<1> QED BY <1>2, <1>3, <1>4, <1>5, <1>6, <1>7, <1>8, <1>9, <1>10 DEF Next, SttStep

\* What is billed as speech-to-text was sent to the service, but for one chunk for each
\* stream: however often a stream dies, with a chunk in its sender's hand or not.
THEOREM BillingIsHonest == FairSpec => []MeteredIsDelivered
<1>1. Metering => MeteredIsDelivered
  BY DEF Metering, InHand, MeteredIsDelivered
<1> QED BY <1>1, MeteringInit, MeteringNext, PTL DEF FairSpec

-----------------------------------------------------------------------------
(* How long the caller has been silent.                                    *)

Unit == [at : Int, voice : BOOLEAN]
Hop  == [ts : Int, voiced : SUBSET BOOLEAN, at : Int]

\* The number of units in k hops.
Cut(k) == k * VAD_HOP
\* The whole hops of a buffer.
WholeHops(buf) == Len(buf) \div VAD_HOP

LEMMA HopSize == VAD_HOP \in Nat /\ VAD_HOP >= 1
BY UplinkAssumption

LEMMA Division ==
  ASSUME NEW n \in Nat, NEW d \in Nat, d >= 1
  PROVE  n \div d \in Nat /\ (n \div d) * d <= n
OBVIOUS

LEMMA Cuts ==
  /\ \A k \in Nat : Cut(k) \in Nat
  /\ Cut(1) = VAD_HOP
  /\ \A k \in Nat \ {0} : Cut(k - 1) = Cut(k) - VAD_HOP /\ Cut(k) >= VAD_HOP
  /\ \A k, l \in Nat : k < l => Cut(k) + VAD_HOP <= Cut(l)
<1>1. \A k \in Nat : Cut(k) \in Nat
  BY HopSize DEF Cut
<1>2. \A k \in Nat \ {0} : Cut(k - 1) = Cut(k) - VAD_HOP /\ Cut(k) >= VAD_HOP
  BY HopSize DEF Cut
<1>3. ASSUME NEW k \in Nat, NEW l \in Nat, k < l PROVE Cut(k) + VAD_HOP <= Cut(l)
  <2>1. PICK d \in Nat : l = k + 1 + d
    <3>1. l = k + 1 + (l - k - 1) /\ l - k - 1 \in Nat
      BY <1>3
    <3> QED BY <3>1
  <2>2. Cut(l) = Cut(k) + VAD_HOP + d * VAD_HOP
    BY <2>1, HopSize DEF Cut
  <2>3. d * VAD_HOP >= 0
    BY HopSize
  <2> QED BY <2>2, <2>3, <1>1, HopSize
<1> QED BY <1>1, <1>2, <1>3, HopSize DEF Cut

\* Each hop ends with the unit it is named after, and the rest begins where they end.
LEMMA HopsOf ==
  ASSUME NEW buf \in Seq(Unit), NEW from \in Int
  PROVE  /\ WholeHops(buf) \in Nat
         /\ Hops(buf, from) \in Seq(Hop) /\ Len(Hops(buf, from)) = WholeHops(buf)
         /\ \A k \in 1..WholeHops(buf) :
               /\ Cut(k) \in 1..Len(buf)
               /\ Hops(buf, from)[k].ts + VAD_HOP = from + Cut(k)
               /\ Hops(buf, from)[k].at = buf[Cut(k)].at
<1> DEFINE N == WholeHops(buf)
<1>1. Len(buf) \in Nat /\ N \in Nat /\ Cut(N) <= Len(buf)
  BY Division, HopSize DEF WholeHops, Cut
<1>2. ASSUME NEW k \in 1..N
      PROVE  /\ Cut(k) \in 1..Len(buf) /\ Cut(k - 1) \in Nat
             /\ Cut(k - 1) = Cut(k) - VAD_HOP
  <2>1. k \in Nat \ {0} /\ (k = N \/ k < N)
    BY <1>1
  <2>2. Cut(k) \in Nat /\ Cut(k) <= Cut(N) /\ Cut(N) \in Nat
    BY <2>1, <1>1, Cuts, HopSize
  <2>3. Cut(k - 1) = Cut(k) - VAD_HOP /\ Cut(k) >= VAD_HOP
    BY <2>1, Cuts
  <2> QED BY <2>2, <2>3, <1>1, HopSize
<1>3. ASSUME NEW k \in 1..N
      PROVE  /\ SubSeq(buf, (k - 1) * VAD_HOP + 1, k * VAD_HOP) \in Seq(Unit)
             /\ Len(SubSeq(buf, (k - 1) * VAD_HOP + 1, k * VAD_HOP)) = VAD_HOP
             /\ SubSeq(buf, (k - 1) * VAD_HOP + 1, k * VAD_HOP)[VAD_HOP] = buf[Cut(k)]
  <2>1. SubSeq(buf, (k - 1) * VAD_HOP + 1, k * VAD_HOP) = SubSeq(buf, Cut(k - 1) + 1, Cut(k))
    BY DEF Cut
  <2> DEFINE a == Cut(k - 1) + 1
             b == Cut(k)
  <2>2. a \in 1..Len(buf) /\ b \in 1..Len(buf) /\ b - a + 1 = VAD_HOP /\ a + VAD_HOP - 1 = b
    BY <1>2, HopSize
  <2> HIDE DEF a, b
  <2>3. SubSeq(buf, a, b) \in Seq(Unit) /\ Len(SubSeq(buf, a, b)) = VAD_HOP
        /\ SubSeq(buf, a, b)[VAD_HOP] = buf[b]
    BY <2>2, HopSize, <1>1
  <2> QED BY <2>1, <2>3 DEF a, b
<1>4. ASSUME NEW k \in 1..N
      PROVE  /\ Hops(buf, from)[k] \in Hop
             /\ Hops(buf, from)[k].ts + VAD_HOP = from + Cut(k)
             /\ Hops(buf, from)[k].at = buf[Cut(k)].at
  <2> DEFINE units == SubSeq(buf, (k - 1) * VAD_HOP + 1, k * VAD_HOP)
  <2>1. Hops(buf, from)[k] = [ts |-> from + Cut(k - 1),
                              voiced |-> {u.voice : u \in ToSet(units)},
                              at |-> units[VAD_HOP].at]
    BY DEF Hops, WholeHops, Cut
  <2>2. {u.voice : u \in ToSet(units)} \in SUBSET BOOLEAN
    <3>1. units \in Seq(Unit)
      BY <1>3
    <3> HIDE DEF units
    <3>2. \A u \in ToSet(units) : u \in Unit
      BY <3>1 DEF ToSet
    <3> QED BY <3>2 DEF Unit
  <2>3. units[VAD_HOP].at = buf[Cut(k)].at /\ buf[Cut(k)] \in Unit
    <3>1. units[VAD_HOP] = buf[Cut(k)]
      BY <1>3
    <3>2. Cut(k) \in 1..Len(buf)
      BY <1>2
    <3>3. \A i \in 1..Len(buf) : buf[i] \in Unit
      OBVIOUS
    <3> HIDE DEF units
    <3> QED BY <3>1, <3>2, <3>3
  <2>4. buf[Cut(k)].at \in Int
    BY <2>3 DEF Unit
  <2>5. from + Cut(k - 1) \in Int /\ from + Cut(k - 1) + VAD_HOP = from + Cut(k)
    BY <1>2, HopSize
  <2> HIDE DEF units
  <2> QED BY <2>1, <2>2, <2>3, <2>4, <2>5 DEF Hop
<1>5. DOMAIN Hops(buf, from) = 1..N
  BY DEF Hops, WholeHops
<1>6. Hops(buf, from) = [k \in 1..N |-> Hops(buf, from)[k]]
  BY DEF Hops, WholeHops
<1>7. Hops(buf, from) \in [1..N -> Hop]
  BY <1>4, <1>6
<1> QED BY <1>1, <1>2, <1>4, <1>7

LEMMA RestOf ==
  ASSUME NEW buf \in Seq(Unit)
  PROVE  /\ Rest(buf) \in Seq(Unit)
         /\ Len(Rest(buf)) = Len(buf) - Cut(WholeHops(buf))
         /\ \A j \in 1..Len(Rest(buf)) : /\ Cut(WholeHops(buf)) + j \in 1..Len(buf)
                                         /\ Rest(buf)[j] = buf[Cut(WholeHops(buf)) + j]
<1> DEFINE N == WholeHops(buf)
<1>1. Len(buf) \in Nat /\ N \in Nat /\ Cut(N) <= Len(buf) /\ Cut(N) \in Nat
  BY Division, HopSize, Cuts DEF WholeHops, Cut
<1>2. Rest(buf) = SubSeq(buf, Cut(N) + 1, Len(buf))
  BY DEF Rest, Cut, WholeHops
<1> HIDE DEF N
<1>3. SubSeq(buf, Cut(N) + 1, Len(buf)) \in Seq(Unit)
      /\ Len(SubSeq(buf, Cut(N) + 1, Len(buf))) = Len(buf) - Cut(N)
      /\ \A j \in 1..(Len(buf) - Cut(N)) :
            SubSeq(buf, Cut(N) + 1, Len(buf))[j] = buf[Cut(N) + j]
  BY <1>1
<1> QED BY <1>1, <1>2, <1>3, SMTT(20) DEF N

\* The place, among the units handed on, before the first unit of the partial hop.
From == emitted - Len(vadBuf)

\* How far the wire's clock has run ahead of the units handed on, for a hop, for a unit of
\* the partial hop and for the next unit: it has by the jumps too short to insert.
Lag(hop) == hop.at - (hop.ts + VAD_HOP)
UnitLag(i) == vadBuf[i].at - (From + i)
WireLag == wire - emitted

\* The lags that what has not become a hop yet does not fall below.
Floor == {m \in Int : m <= WireLag /\ \A i \in DOMAIN vadBuf : m <= UnitLag(i)}

EndType ==
  /\ wire \in Int /\ emitted \in Int /\ spoke \in Int
  /\ silence # None => silence \in Int
  /\ vadBuf \in Seq(Unit) /\ vadQ \in Seq(Hop)

\* The hops and units under way come in the order of their places, and the lag never falls.
InOrder ==
  /\ \A i, j \in DOMAIN vadQ : i < j => /\ vadQ[i].ts + VAD_HOP <= vadQ[j].ts
                                        /\ Lag(vadQ[i]) <= Lag(vadQ[j])
  /\ \A i \in DOMAIN vadQ : /\ vadQ[i].ts + VAD_HOP <= From
                            /\ Lag(vadQ[i]) \in Floor
  /\ \A i, j \in DOMAIN vadBuf : i < j => UnitLag(i) <= UnitLag(j)
  /\ \A i \in DOMAIN vadBuf : UnitLag(i) <= WireLag

\* Everything under way began on the wire after the last speech.
SpokeBefore ==
  /\ \A i \in DOMAIN vadQ : spoke <= vadQ[i].ts + Lag(vadQ[i])
  /\ spoke - From \in Floor

\* The silence clock, read on the wire, did not start before the last speech.
SilentSince ==
  silence # None => /\ \A i \in DOMAIN vadQ : spoke - silence <= Lag(vadQ[i])
                    /\ spoke - silence \in Floor

EndInv == EndType /\ InOrder /\ SpokeBefore /\ SilentSince /\ EndpointIsHonest

LEMMA EndInit == Init => EndInv
<1> SUFFICES ASSUME Init PROVE EndInv
  OBVIOUS
<1>1. EndType /\ EndpointIsHonest
  BY DEF Init, EndType, EndpointIsHonest
<1>2. InOrder /\ SpokeBefore /\ SilentSince
  BY DEF Init, InOrder, SpokeBefore, SilentSince, Floor, From, WireLag
<1> QED BY <1>1, <1>2 DEF EndInv

\* The units of a frame and of the silence before it lag by as much as the wire now does.
LEMMA NewUnits ==
  ASSUME NEW n \in Nat, NEW from \in Int, NEW voice \in BOOLEAN
  PROVE  /\ Units(n, from, voice) \in Seq(Unit)
         /\ Len(Units(n, from, voice)) = n
         /\ \A i \in 1..n : Units(n, from, voice)[i].at = from + i
<1>1. Units(n, from, voice) \in [1..n -> Unit]
  BY DEF Units, Unit
<1>2. \A i \in 1..n : Units(n, from, voice)[i].at = from + i
  BY DEF Units
<1> QED BY <1>1, <1>2

LEMMA TwoParts ==
  ASSUME NEW a \in Seq(Unit), NEW b \in Seq(Unit)
  PROVE  /\ a \o b \in Seq(Unit)
         /\ Len(a) \in Nat /\ Len(b) \in Nat /\ Len(a \o b) = Len(a) + Len(b)
         /\ \A i \in 1..Len(a) : (a \o b)[i] = a[i]
         /\ \A i \in 1..Len(b) : (a \o b)[Len(a) + i] = b[i]
OBVIOUS

LEMMA ThreeParts ==
  ASSUME NEW a \in Seq(Unit), NEW b \in Seq(Unit), NEW c \in Seq(Unit)
  PROVE  /\ a \o b \o c \in Seq(Unit)
         /\ Len(a \o b \o c) = Len(a) + Len(b) + Len(c)
         /\ \A i \in 1..Len(a) : (a \o b \o c)[i] = a[i]
         /\ \A i \in 1..Len(b) : (a \o b \o c)[Len(a) + i] = b[i]
         /\ \A i \in 1..Len(c) : (a \o b \o c)[Len(a) + Len(b) + i] = c[i]
<1> DEFINE d == a \o b
<1>1. /\ d \in Seq(Unit) /\ Len(d) = Len(a) + Len(b)
      /\ Len(a) \in Nat /\ Len(b) \in Nat /\ Len(c) \in Nat
      /\ \A i \in 1..Len(a) : d[i] = a[i]
      /\ \A i \in 1..Len(b) : d[Len(a) + i] = b[i]
  BY TwoParts
<1> HIDE DEF d
<1>2. /\ d \o c \in Seq(Unit) /\ Len(d \o c) = Len(d) + Len(c)
      /\ \A i \in 1..Len(d) : (d \o c)[i] = d[i]
      /\ \A i \in 1..Len(c) : (d \o c)[Len(d) + i] = c[i]
  BY <1>1, TwoParts, Zenon
<1>3. ASSUME NEW i \in 1..Len(a) PROVE (d \o c)[i] = a[i]
  <2>1. i \in 1..Len(d)
    BY <1>1
  <2> QED BY <2>1, <1>1, <1>2
<1>4. ASSUME NEW i \in 1..Len(b) PROVE (d \o c)[Len(a) + i] = b[i]
  <2>1. Len(a) + i \in 1..Len(d)
    BY <1>1
  <2> QED BY <2>1, <1>1, <1>2
<1>5. ASSUME NEW i \in 1..Len(c) PROVE (d \o c)[Len(a) + Len(b) + i] = c[i]
  BY <1>1, <1>2
<1>6. Len(d \o c) = Len(a) + Len(b) + Len(c)
  BY <1>1, <1>2
<1> QED BY <1>2, <1>3, <1>4, <1>5, <1>6 DEF d

LEMMA Joined ==
  ASSUME EndInv, NEW voice \in BOOLEAN, NEW gap \in Gaps,
         NEW buf, buf = vadBuf \o GapSilence(gap) \o Units(FRAME, wire + gap, voice),
         NEW last, last = wire + gap - emitted - Len(GapSilence(gap))
  PROVE  /\ buf \in Seq(Unit) /\ GapSilence(gap) \in Seq(Unit) /\ last \in Int
         /\ Len(buf) = Len(vadBuf) + Len(GapSilence(gap)) + FRAME
         /\ \A i, j \in 1..Len(buf) : i < j => buf[i].at - (From + i) <= buf[j].at - (From + j)
         /\ \A i \in 1..Len(buf) : buf[i].at - (From + i) <= last
         /\ \A m \in Floor : /\ m <= last
                             /\ \A i \in 1..Len(buf) : m <= buf[i].at - (From + i)
<1> DEFINE hush == GapSilence(gap)
           sound == Units(FRAME, wire + gap, voice)
<1>1. gap \in Nat /\ FRAME \in Nat /\ GAP_INSERT_THRESHOLD \in Nat
  BY UplinkAssumption
<1>2. wire \in Int /\ emitted \in Int /\ vadBuf \in Seq(Unit) /\ Len(vadBuf) \in Nat /\ From \in Int
  BY DEF EndInv, EndType, From
<1>3. /\ sound \in Seq(Unit) /\ Len(sound) = FRAME
      /\ \A i \in 1..FRAME : sound[i].at = wire + gap + i
  BY <1>1, <1>2, NewUnits
<1>4. /\ hush \in Seq(Unit) /\ Len(hush) \in 0..gap
      /\ \A i \in 1..Len(hush) : hush[i].at = wire + i
      /\ Len(hush) = 0 \/ Len(hush) = gap
  <2>1. CASE gap >= GAP_INSERT_THRESHOLD
    <3>1. hush = Units(gap, wire, FALSE)
      BY <2>1 DEF GapSilence
    <3>2. /\ Units(gap, wire, FALSE) \in Seq(Unit)
          /\ Len(Units(gap, wire, FALSE)) = gap
          /\ \A i \in 1..gap : Units(gap, wire, FALSE)[i].at = wire + i
      BY <1>1, <1>2, NewUnits
    <3>3. gap \in 0..gap
      BY <1>1
    <3> HIDE DEF hush
    <3> QED BY <3>1, <3>2, <3>3, Zenon
  <2>2. CASE ~(gap >= GAP_INSERT_THRESHOLD)
    <3>1. hush = <<>>
      BY <2>2 DEF GapSilence
    <3> HIDE DEF hush
    <3> QED BY <3>1, <1>1
  <2> QED BY <2>1, <2>2
<1> HIDE DEF hush, sound
<1> DEFINE L == Len(vadBuf)
           H == Len(hush)
<1>5. /\ buf \in Seq(Unit) /\ Len(buf) = L + H + FRAME
      /\ \A i \in 1..L : buf[i] = vadBuf[i]
      /\ \A i \in 1..H : buf[L + i] = hush[i]
      /\ \A i \in 1..FRAME : buf[L + H + i] = sound[i]
  <2>1. buf = vadBuf \o hush \o sound
    BY DEF hush, sound
  <2>2. /\ vadBuf \o hush \o sound \in Seq(Unit)
        /\ Len(vadBuf \o hush \o sound) = L + H + Len(sound)
        /\ \A i \in 1..L : (vadBuf \o hush \o sound)[i] = vadBuf[i]
        /\ \A i \in 1..H : (vadBuf \o hush \o sound)[L + i] = hush[i]
        /\ \A i \in 1..Len(sound) : (vadBuf \o hush \o sound)[L + H + i] = sound[i]
    BY <1>2, <1>3, <1>4, ThreeParts, Zenon
  <2>3. Len(sound) = FRAME
    BY <1>3
  <2> QED BY <2>1, <2>2, <2>3, Zenon
<1>6. WireLag <= last /\ last \in Int /\ WireLag \in Int
  BY <1>1, <1>2, <1>4 DEF WireLag, hush
<1> DEFINE lag(i) == buf[i].at - (From + i)
<1>7. \A i \in 1..L : lag(i) = UnitLag(i) /\ UnitLag(i) \in Int /\ i \in DOMAIN vadBuf
  <2> SUFFICES ASSUME NEW i \in 1..L
               PROVE  lag(i) = UnitLag(i) /\ UnitLag(i) \in Int /\ i \in DOMAIN vadBuf
    OBVIOUS
  <2>1. i \in DOMAIN vadBuf /\ vadBuf[i] \in Unit
    BY <1>2
  <2>2. vadBuf[i].at \in Int
    BY <2>1 DEF Unit
  <2>3. buf[i].at = vadBuf[i].at
    BY <1>5
  <2> QED BY <2>1, <2>2, <2>3, <1>2 DEF UnitLag
<1>8. \A i \in (L + 1)..(L + H) : lag(i) = WireLag
  <2> SUFFICES ASSUME NEW i \in (L + 1)..(L + H) PROVE lag(i) = WireLag
    OBVIOUS
  <2>1. i - L \in 1..H /\ i = L + (i - L)
    BY <1>2, <1>4
  <2>2. buf[i] = hush[i - L] /\ hush[i - L].at = wire + (i - L)
    BY <2>1, <1>4, <1>5
  <2>3. buf[i].at = wire + (i - L)
    BY <2>2
  <2>4. i \in Int /\ L \in Int
    BY <2>1, <1>2, <1>4
  <2>5. From = emitted - L /\ WireLag = wire - emitted
    BY DEF From, WireLag
  <2>6. \A x, f \in Int : x = wire + (i - L) /\ f = emitted - L => x - (f + i) = wire - emitted
    BY <2>4, <1>2
  <2>7. wire + (i - L) \in Int
    BY <2>4, <1>2
  <2>8. buf[i].at \in Int /\ From \in Int
    BY <2>3, <2>7, <1>2, Zenon
  <2> QED BY <2>3, <2>5, <2>6, <2>8, Zenon
<1>9. \A i \in (L + H + 1)..Len(buf) : lag(i) = last
  <2> SUFFICES ASSUME NEW i \in (L + H + 1)..Len(buf) PROVE lag(i) = last
    OBVIOUS
  <2>1. i - L - H \in 1..FRAME /\ i = L + H + (i - L - H)
    BY <1>1, <1>2, <1>4, <1>5
  <2>2. buf[i] = sound[i - L - H] /\ sound[i - L - H].at = wire + gap + (i - L - H)
    BY <2>1, <1>3, <1>5
  <2>3. buf[i].at = wire + gap + (i - L - H)
    BY <2>2
  <2>4. i \in Int /\ L \in Int /\ H \in Int
    BY <2>1, <1>2, <1>4
  <2>5. last = wire + gap - emitted - H /\ From = emitted - L
    BY DEF hush, From
  <2>6. \A x, f \in Int : x = wire + gap + (i - L - H) /\ f = emitted - L =>
          x - (f + i) = wire + gap - emitted - H
    BY <2>4, <1>1, <1>2
  <2>7. wire + gap + (i - L - H) \in Int
    BY <2>4, <1>1, <1>2
  <2>8. buf[i].at \in Int /\ From \in Int
    BY <2>3, <2>7, <1>2, Zenon
  <2> QED BY <2>3, <2>5, <2>6, <2>8, Zenon
<1>10. \A i \in 1..Len(buf) : i \in 1..L \/ i \in (L + 1)..(L + H) \/ i \in (L + H + 1)..Len(buf)
  BY <1>1, <1>2, <1>4, <1>5
<1>11. /\ \A i, j \in 1..L : i < j => UnitLag(i) <= UnitLag(j)
       /\ \A i \in 1..L : UnitLag(i) <= WireLag
  <2>1. InOrder /\ DOMAIN vadBuf = 1..L
    BY <1>2 DEF EndInv
  <2> QED BY <2>1 DEF InOrder
<1> HIDE DEF lag
<1>12. ASSUME NEW i \in 1..Len(buf), NEW j \in 1..Len(buf), i < j PROVE lag(i) <= lag(j)
  <2>1. i \in Int /\ j \in Int /\ L \in Nat /\ H \in Nat /\ Len(buf) \in Nat
    BY <1>2, <1>4, <1>5
  <2>2. CASE i \in 1..L /\ j \in 1..L
    BY <2>2, <1>12, <1>7, <1>11
  <2>3. CASE i \in 1..L /\ j \notin 1..L
    <3>1. lag(i) <= WireLag /\ lag(i) \in Int
      BY <2>3, <1>7, <1>11
    <3>2. lag(j) = WireLag \/ lag(j) = last
      BY <2>3, <1>8, <1>9, <1>10
    <3> QED BY <3>1, <3>2, <1>6
  <2>4. CASE i \notin 1..L
    <3>1. CASE i \in (L + H + 1)..Len(buf)
      <4>1. j \in (L + H + 1)..Len(buf)
        BY <3>1, <2>1, <1>12
      <4> QED BY <4>1, <3>1, <1>9, <1>6
    <3>2. CASE i \in (L + 1)..(L + H)
      <4>1. j \notin 1..L
        BY <3>2, <2>1, <1>12
      <4>2. lag(j) = WireLag \/ lag(j) = last
        BY <4>1, <1>8, <1>9, <1>10
      <4> QED BY <4>2, <3>2, <1>8, <1>6
    <3> QED BY <3>1, <3>2, <2>4, <1>10
  <2> QED BY <2>2, <2>3, <2>4
<1>13. ASSUME NEW i \in 1..Len(buf) PROVE lag(i) <= last
  <2>1. CASE i \in 1..L
    <3>1. lag(i) <= WireLag /\ lag(i) \in Int
      BY <2>1, <1>7, <1>11
    <3> QED BY <3>1, <1>6
  <2>2. CASE i \notin 1..L
    BY <2>2, <1>6, <1>8, <1>9, <1>10
  <2> QED BY <2>1, <2>2
<1>14. ASSUME NEW m \in Floor PROVE m <= last /\ \A i \in 1..Len(buf) : m <= lag(i)
  <2>1. m \in Int /\ m <= WireLag /\ \A i \in 1..L : m <= UnitLag(i)
    BY <1>2 DEF Floor
  <2>2. m <= last
    BY <2>1, <1>6
  <2>3. ASSUME NEW i \in 1..Len(buf) PROVE m <= lag(i)
    <3>1. CASE i \in 1..L
      BY <3>1, <2>1, <1>7
    <3>2. CASE i \notin 1..L
      BY <3>2, <2>1, <2>2, <1>8, <1>9, <1>10
    <3> QED BY <3>1, <3>2
  <2> QED BY <2>2, <2>3
<1> QED BY <1>4, <1>5, <1>6, <1>12, <1>13, <1>14 DEF lag, hush

\* _offer_vad keeps the order, and adds nothing.
LEMMA OfferKeeps ==
  ASSUME NEW q \in Seq(Hop)
  PROVE  /\ OfferVad(q) \in Seq(Hop)
         /\ \E d \in Nat : \A i \in DOMAIN OfferVad(q) : /\ i + d \in DOMAIN q
                                                         /\ OfferVad(q)[i] = q[i + d]
<1> DEFINE a == IF Len(q) > MAX_QUEUED_VAD THEN Len(q) - MAX_QUEUED_VAD + 1 ELSE 1
<1>1. MAX_QUEUED_VAD \in Nat /\ MAX_QUEUED_VAD >= 1
  BY UplinkAssumption
<1>2. a \in Nat /\ a >= 1 /\ Len(q) \in Nat /\ a <= Len(q) + 1
  BY <1>1
<1>3. OfferVad(q) = SubSeq(q, a, Len(q))
  BY DEF OfferVad
<1> HIDE DEF a
<1>4. /\ SubSeq(q, a, Len(q)) \in Seq(Hop) /\ Len(SubSeq(q, a, Len(q))) = Len(q) - a + 1
      /\ \A i \in 1..(Len(q) - a + 1) : SubSeq(q, a, Len(q))[i] = q[i + (a - 1)]
  BY <1>2
<1>5. a - 1 \in Nat /\ \A i \in 1..(Len(q) - a + 1) : i + (a - 1) \in DOMAIN q
  BY <1>2
<1>6. DOMAIN SubSeq(q, a, Len(q)) = 1..(Len(q) - a + 1)
  BY <1>4
<1> HIDE DEF OfferVad
<1>7. \A i \in DOMAIN OfferVad(q) : i + (a - 1) \in DOMAIN q /\ OfferVad(q)[i] = q[i + (a - 1)]
  BY <1>3, <1>4, <1>5, <1>6
<1> QED BY <1>3, <1>4, <1>5, <1>7

LEMMA EndPush ==
  ASSUME EndInv, NEW voice \in BOOLEAN, NEW gap \in Gaps, Push(voice, gap)
  PROVE  EndInv'
<1> DEFINE buf == vadBuf \o GapSilence(gap) \o Units(FRAME, wire + gap, voice)
           last == wire + gap - emitted - Len(GapSilence(gap))
           N == WholeHops(buf)
           hops == Hops(buf, From)
           lag(i) == buf[i].at - (From + i)
<1>1. EndType /\ InOrder /\ SpokeBefore /\ SilentSince /\ EndpointIsHonest
  BY DEF EndInv
<1>2. /\ wire \in Int /\ emitted \in Int /\ vadBuf \in Seq(Unit) /\ vadQ \in Seq(Hop)
      /\ Len(vadBuf) \in Nat /\ From \in Int /\ spoke \in Int
      /\ gap \in Nat /\ FRAME \in Nat
  BY <1>1, UplinkAssumption DEF EndType, From
<1>3. /\ wire' = wire + gap + FRAME
      /\ emitted' = emitted + Len(GapSilence(gap)) + FRAME
      /\ vadBuf' = Rest(buf)
      /\ vadQ' = OfferVad(vadQ \o hops)
      /\ UNCHANGED <<silence, event, spoke>>
  BY DEF Push, Units, From, endVars
<1>4. /\ buf \in Seq(Unit) /\ GapSilence(gap) \in Seq(Unit) /\ last \in Int
      /\ Len(buf) = Len(vadBuf) + Len(GapSilence(gap)) + FRAME
      /\ \A i, j \in 1..Len(buf) : i < j => lag(i) <= lag(j)
      /\ \A i \in 1..Len(buf) : lag(i) <= last
      /\ \A m \in Floor : m <= last /\ \A i \in 1..Len(buf) : m <= lag(i)
  BY Joined
<1> HIDE DEF buf
<1>5. \A i \in 1..Len(buf) : lag(i) \in Int
  <2> SUFFICES ASSUME NEW i \in 1..Len(buf) PROVE lag(i) \in Int
    OBVIOUS
  <2>1. buf[i] \in Unit
    BY <1>4
  <2>2. buf[i].at \in Int
    BY <2>1 DEF Unit
  <2> QED BY <2>2, <1>2
<1>6. /\ N \in Nat /\ hops \in Seq(Hop) /\ Len(hops) = N
      /\ \A k \in 1..N : /\ Cut(k) \in 1..Len(buf)
                         /\ hops[k].ts + VAD_HOP = From + Cut(k)
                         /\ hops[k].at = buf[Cut(k)].at
  BY <1>2, <1>4, HopsOf
<1>7. /\ Rest(buf) \in Seq(Unit)
      /\ Len(Rest(buf)) = Len(buf) - Cut(N)
      /\ \A j \in 1..Len(Rest(buf)) : /\ Cut(N) + j \in 1..Len(buf)
                                      /\ Rest(buf)[j] = buf[Cut(N) + j]
  BY <1>4, RestOf
<1> HIDE DEF hops, N
<1>8. Cut(N) \in Nat /\ VAD_HOP \in Nat
  BY <1>6, Cuts, HopSize
<1>9. From' = From + Cut(N) /\ WireLag' = last
  BY <1>2, <1>3, <1>4, <1>7, <1>8 DEF From, WireLag
<1>10. \A k \in 1..N : Lag(hops[k]) = lag(Cut(k)) /\ hops[k].ts = From + Cut(k) - VAD_HOP
  <2> SUFFICES ASSUME NEW k \in 1..N
               PROVE  Lag(hops[k]) = lag(Cut(k)) /\ hops[k].ts = From + Cut(k) - VAD_HOP
    OBVIOUS
  <2>1. hops[k] \in Hop
    BY <1>6
  <2>2. hops[k].ts \in Int
    BY <2>1 DEF Hop
  <2>3. Cut(k) \in Int /\ hops[k].ts + VAD_HOP = From + Cut(k) /\ hops[k].at = buf[Cut(k)].at
    BY <1>6
  <2>4. hops[k].ts = From + Cut(k) - VAD_HOP
    <3>1. \A x, c \in Int : x + VAD_HOP = From + c => x = From + c - VAD_HOP
      BY <1>2, <1>8
    <3> QED BY <3>1, <2>2, <2>3, Zenon
  <2>5. Lag(hops[k]) = lag(Cut(k))
    BY <2>3, Zenon DEF Lag
  <2> QED BY <2>4, <2>5
<1>11. \A j \in 1..Len(vadBuf') : Cut(N) + j \in 1..Len(buf) /\ UnitLag(j)' = lag(Cut(N) + j)
  <2> SUFFICES ASSUME NEW j \in 1..Len(vadBuf')
               PROVE  Cut(N) + j \in 1..Len(buf) /\ UnitLag(j)' = lag(Cut(N) + j)
    OBVIOUS
  <2>1. vadBuf'[j].at = buf[Cut(N) + j].at /\ Cut(N) + j \in 1..Len(buf) /\ j \in Int
    BY <1>3, <1>7
  <2>2. From' + j = From + (Cut(N) + j)
    BY <2>1, <1>9, <1>2, <1>8
  <2>3. UnitLag(j)' = vadBuf'[j].at - (From' + j)
    BY DEF UnitLag
  <2> QED BY <2>1, <2>2, <2>3, Zenon
<1> HIDE DEF lag
<1>12. DOMAIN vadBuf' = 1..Len(vadBuf') /\ vadBuf' \in Seq(Unit) /\ Len(vadBuf') \in Nat
  BY <1>3, <1>7
\* What was a floor is one still; and so is the lag of each hop cut off.
<1>13. \A m \in Floor : m \in Floor' /\ \A k \in 1..N : m <= Lag(hops[k])
  <2> SUFFICES ASSUME NEW m \in Floor
               PROVE  m \in Floor' /\ \A k \in 1..N : m <= Lag(hops[k])
    OBVIOUS
  <2>1. m \in Int /\ m <= last /\ \A i \in 1..Len(buf) : m <= lag(i)
    BY <1>4 DEF Floor, lag
  <2>2. \A i \in DOMAIN vadBuf' : m <= UnitLag(i)'
    BY <2>1, <1>11, <1>12
  <2>3. \A k \in 1..N : m <= Lag(hops[k])
    BY <2>1, <1>6, <1>10
  <2> QED BY <2>1, <2>2, <2>3, <1>9 DEF Floor
<1>14. \A k \in 1..N : Lag(hops[k]) \in Floor'
  <2> SUFFICES ASSUME NEW k \in 1..N PROVE Lag(hops[k]) \in Floor'
    OBVIOUS
  <2>1. Cut(k) \in 1..Len(buf) /\ Lag(hops[k]) = lag(Cut(k)) /\ lag(Cut(k)) \in Int
    BY <1>5, <1>6, <1>10
  <2>2. Cut(k) <= Cut(N)
    <3>1. N \in Nat
      BY <1>6
    <3>2. k \in Nat /\ (k = N \/ k < N)
      BY <3>1
    <3>3. Cut(k) \in Nat /\ (k < N => Cut(k) + VAD_HOP <= Cut(N))
      BY <3>1, <3>2, Cuts
    <3> QED BY <3>2, <3>3, <1>8
  <2>3. ASSUME NEW i \in DOMAIN vadBuf' PROVE lag(Cut(k)) <= UnitLag(i)'
    <3>1. Cut(N) + i \in 1..Len(buf) /\ UnitLag(i)' = lag(Cut(N) + i) /\ i \in 1..Len(vadBuf')
      BY <1>11, <1>12
    <3>2. Cut(k) < Cut(N) + i
      BY <3>1, <2>1, <2>2, <1>8, <1>12
    <3> QED BY <3>1, <3>2, <2>1, <1>4 DEF lag
  <2>4. lag(Cut(k)) <= last
    BY <2>1, <1>4 DEF lag
  <2> QED BY <2>1, <2>3, <2>4, <1>9 DEF Floor
<1> DEFINE q == vadQ \o hops
<1>15. /\ q \in Seq(Hop) /\ Len(vadQ) \in Nat /\ Len(q) = Len(vadQ) + N
       /\ \A i \in 1..Len(vadQ) : q[i] = vadQ[i]
       /\ \A k \in 1..N : q[Len(vadQ) + k] = hops[k]
  BY <1>2, <1>6
<1>16. vadQ' = OfferVad(q)
  BY <1>3
<1> HIDE DEF q
<1>17. ASSUME NEW i \in 1..Len(q)
       PROVE  \/ i \in 1..Len(vadQ) /\ q[i] = vadQ[i]
              \/ \E k \in 1..N : i = Len(vadQ) + k /\ q[i] = hops[k]
  <2>1. CASE i \in 1..Len(vadQ)
    BY <2>1, <1>15
  <2>2. CASE i \notin 1..Len(vadQ)
    <3>1. i - Len(vadQ) \in 1..N /\ i = Len(vadQ) + (i - Len(vadQ))
      BY <2>2, <1>15, <1>6
    <3> QED BY <3>1, <1>15
  <2> QED BY <2>1, <2>2
<1>18. /\ \A i \in 1..Len(vadQ) : vadQ[i].ts \in Int /\ Lag(vadQ[i]) \in Int
       /\ \A k \in 1..N : hops[k].ts \in Int /\ Lag(hops[k]) \in Int /\ hops[k].ts >= From
  <2>1. ASSUME NEW i \in 1..Len(vadQ) PROVE vadQ[i].ts \in Int /\ Lag(vadQ[i]) \in Int
    <3>1. vadQ[i] \in Hop
      BY <1>2
    <3> QED BY <3>1, <1>8 DEF Hop, Lag
  <2>2. ASSUME NEW k \in 1..N PROVE hops[k].ts \in Int /\ Lag(hops[k]) \in Int /\ hops[k].ts >= From
    <3>1. hops[k] \in Hop
      BY <1>6
    <3>2. hops[k].ts \in Int /\ Lag(hops[k]) \in Int
      BY <3>1, <1>8 DEF Hop, Lag
    <3>3. N \in Nat
      BY <1>6
    <3>4. k \in Nat \ {0} /\ Cut(k) \in Nat /\ Cut(k) >= VAD_HOP
      BY <3>3, Cuts
    <3>5. From + Cut(k) - VAD_HOP >= From
      BY <3>4, <1>2, <1>8
    <3> QED BY <3>2, <3>5, <1>10
  <2> QED BY <2>1, <2>2
<1>19. \A i \in 1..Len(vadQ) : vadQ[i].ts + VAD_HOP <= From /\ Lag(vadQ[i]) \in Floor
  <2>1. DOMAIN vadQ = 1..Len(vadQ)
    BY <1>2
  <2> QED BY <2>1, <1>1, Zenon DEF InOrder
<1>20. ASSUME NEW i \in 1..Len(q), NEW j \in 1..Len(q), i < j
       PROVE  q[i].ts + VAD_HOP <= q[j].ts /\ Lag(q[i]) <= Lag(q[j])
  <2>1. CASE i \in 1..Len(vadQ) /\ j \in 1..Len(vadQ)
    <3>1. i \in DOMAIN vadQ /\ j \in DOMAIN vadQ
      BY <2>1, <1>2
    <3>2. vadQ[i].ts + VAD_HOP <= vadQ[j].ts /\ Lag(vadQ[i]) <= Lag(vadQ[j])
      BY <3>1, <1>1, <1>20, Zenon DEF InOrder
    <3> QED BY <3>2, <2>1, <1>15, Zenon
  <2>2. CASE i \in 1..Len(vadQ) /\ j \notin 1..Len(vadQ)
    <3>1. PICK k \in 1..N : q[j] = hops[k]
      BY <2>2, <1>17
    <3>2. vadQ[i].ts + VAD_HOP <= hops[k].ts
      <4>1. vadQ[i].ts + VAD_HOP <= From /\ vadQ[i].ts \in Int
        BY <2>2, <1>18, <1>19
      <4>2. From <= hops[k].ts /\ hops[k].ts \in Int
        BY <1>18
      <4>3. \A x, y, f \in Int : x + VAD_HOP <= f /\ f <= y => x + VAD_HOP <= y
        BY <1>8
      <4> QED BY <4>1, <4>2, <4>3, <1>2, Zenon
    <3>3. Lag(vadQ[i]) <= Lag(hops[k])
      BY <2>2, <1>13, <1>19
    <3> QED BY <3>1, <3>2, <3>3, <2>2, <1>15, Zenon
  <2>3. CASE i \notin 1..Len(vadQ)
    <3>1. PICK k \in 1..N : i = Len(vadQ) + k /\ q[i] = hops[k]
      BY <2>3, <1>17
    <3>2. PICK l \in 1..N : j = Len(vadQ) + l /\ q[j] = hops[l]
      <4>1. j \notin 1..Len(vadQ)
        BY <2>3, <1>20, <1>15
      <4> QED BY <4>1, <1>17
    <3>3. k \in Nat /\ l \in Nat /\ k < l
      BY <3>1, <3>2, <1>20, <1>15, <1>6
    <3>4. Cut(k) \in Nat /\ Cut(l) \in Nat /\ Cut(k) + VAD_HOP <= Cut(l)
      BY <3>3, Cuts
    <3>5. hops[k].ts + VAD_HOP <= hops[l].ts
      <4>1. From + Cut(k) - VAD_HOP + VAD_HOP <= From + Cut(l) - VAD_HOP
        BY <3>4, <1>2, <1>8, SMTT(20)
      <4> QED BY <4>1, <1>10, Zenon
    <3>6. Lag(hops[k]) <= Lag(hops[l])
      <4>1. Cut(k) \in 1..Len(buf) /\ Cut(l) \in 1..Len(buf)
        BY <1>6
      <4>2. Cut(k) < Cut(l)
        BY <3>4, HopSize
      <4>3. lag(Cut(k)) <= lag(Cut(l))
        BY <4>1, <4>2, <1>4 DEF lag
      <4> QED BY <4>3, <1>10, Zenon
    <3> QED BY <3>1, <3>2, <3>5, <3>6, Zenon
  <2> QED BY <2>1, <2>2, <2>3
<1>21. From <= From' /\ From' \in Int
  BY <1>2, <1>8, <1>9
<1>22. ASSUME NEW i \in 1..Len(q)
       PROVE  /\ q[i].ts + VAD_HOP <= From' /\ Lag(q[i]) \in Floor'
              /\ spoke <= q[i].ts + Lag(q[i])
              /\ silence # None => spoke - silence <= Lag(q[i])
  <2>1. CASE i \in 1..Len(vadQ)
    <3>1. vadQ[i].ts + VAD_HOP <= From'
      BY <2>1, <1>2, <1>8, <1>18, <1>19, <1>21
    <3>2. Lag(vadQ[i]) \in Floor'
      BY <2>1, <1>13, <1>19
    <3>3. i \in DOMAIN vadQ
      BY <2>1, <1>2
    <3>4. /\ spoke <= vadQ[i].ts + Lag(vadQ[i])
          /\ silence # None => spoke - silence <= Lag(vadQ[i])
      BY <3>3, <1>1, Zenon DEF SpokeBefore, SilentSince
    <3> QED BY <3>1, <3>2, <3>4, <2>1, <1>15, Zenon
  <2>2. CASE i \notin 1..Len(vadQ)
    <3>1. PICK k \in 1..N : q[i] = hops[k]
      BY <2>2, <1>17
    <3>2. hops[k].ts + VAD_HOP <= From'
      <4>1. N \in Nat
        BY <1>6
      <4>2. k \in Nat /\ (k = N \/ k < N)
        BY <4>1
      <4>3. Cut(k) \in Nat /\ (k < N => Cut(k) + VAD_HOP <= Cut(N))
        BY <4>1, <4>2, Cuts
      <4>4. From + Cut(k) - VAD_HOP + VAD_HOP <= From + Cut(N)
        BY <4>2, <4>3, <1>2, <1>8
      <4> QED BY <4>4, <1>9, <1>10, Zenon
    <3>3. spoke <= hops[k].ts + Lag(hops[k])
      <4>1. spoke - From <= Lag(hops[k])
        BY <1>1, <1>13, Zenon DEF SpokeBefore
      <4> QED BY <4>1, <1>2, <1>18
    <3>4. silence # None => spoke - silence <= Lag(hops[k])
      BY <1>1, <1>13, Zenon DEF SilentSince
    <3> QED BY <3>1, <3>2, <3>3, <3>4, <1>14, Zenon
  <2> QED BY <2>1, <2>2
\* The queue keeps the youngest of these.
<1>23. PICK d \in Nat : \A i \in DOMAIN vadQ' : i + d \in DOMAIN q /\ vadQ'[i] = q[i + d]
  BY <1>15, <1>16, OfferKeeps
<1>24. vadQ' \in Seq(Hop)
  BY <1>15, <1>16, OfferKeeps
<1>25. \A i \in DOMAIN vadQ' : i + d \in 1..Len(q) /\ vadQ'[i] = q[i + d] /\ i \in Int
  BY <1>15, <1>23, <1>24
<1>26. EndType'
  BY <1>1, <1>2, <1>3, <1>4, <1>12, <1>24 DEF EndType
<1>27. InOrder'
  <2>1. \A i, j \in DOMAIN vadQ' : i < j => /\ vadQ'[i].ts + VAD_HOP <= vadQ'[j].ts
                                            /\ Lag(vadQ'[i]) <= Lag(vadQ'[j])
    <3> SUFFICES ASSUME NEW i \in DOMAIN vadQ', NEW j \in DOMAIN vadQ', i < j
                 PROVE  /\ vadQ'[i].ts + VAD_HOP <= vadQ'[j].ts
                        /\ Lag(vadQ'[i]) <= Lag(vadQ'[j])
      OBVIOUS
    <3>1. i + d < j + d
      BY <1>25
    <3> QED BY <3>1, <1>20, <1>25, Zenon
  <2>2. \A i \in DOMAIN vadQ' : vadQ'[i].ts + VAD_HOP <= From' /\ Lag(vadQ'[i]) \in Floor'
    BY <1>22, <1>25, Zenon
  <2>3. \A i, j \in DOMAIN vadBuf' : i < j => UnitLag(i)' <= UnitLag(j)'
    <3> SUFFICES ASSUME NEW i \in DOMAIN vadBuf', NEW j \in DOMAIN vadBuf', i < j
                 PROVE  UnitLag(i)' <= UnitLag(j)'
      OBVIOUS
    <3>1. i \in 1..Len(vadBuf') /\ j \in 1..Len(vadBuf') /\ Cut(N) + i < Cut(N) + j
      BY <1>8, <1>12
    <3> QED BY <3>1, <1>11, <1>4 DEF lag
  <2>4. \A i \in DOMAIN vadBuf' : UnitLag(i)' <= WireLag'
    BY <1>4, <1>9, <1>11, <1>12 DEF lag
  <2> QED BY <2>1, <2>2, <2>3, <2>4, Zenon DEF InOrder
<1>28. \A m \in Floor', n \in Int : n <= m => n \in Floor'
  <2> SUFFICES ASSUME NEW m \in Floor', NEW n \in Int, n <= m PROVE n \in Floor'
    OBVIOUS
  <2>1. m \in Int /\ m <= last /\ \A i \in DOMAIN vadBuf' : m <= UnitLag(i)'
    BY <1>9 DEF Floor
  <2>2. \A i \in DOMAIN vadBuf' : UnitLag(i)' \in Int
    BY <1>5, <1>11, <1>12
  <2>3. n <= last /\ \A i \in DOMAIN vadBuf' : n <= UnitLag(i)'
    BY <2>1, <2>2, <1>4
  <2> QED BY <2>3, <1>9 DEF Floor
<1>29. SpokeBefore'
  <2>1. \A i \in DOMAIN vadQ' : spoke <= vadQ'[i].ts + Lag(vadQ'[i])
    BY <1>22, <1>25, Zenon
  <2>2. spoke - From' \in Floor'
    <3>1. spoke - From \in Floor'
      BY <1>1, <1>13 DEF SpokeBefore
    <3>2. spoke - From' <= spoke - From /\ spoke - From' \in Int
      <4>1. \A f \in Int : From <= f => spoke - f <= spoke - From /\ spoke - f \in Int
        BY <1>2
      <4> QED BY <4>1, <1>21, Zenon
    <3> QED BY <3>1, <3>2, <1>28
  <2> QED BY <2>1, <2>2, <1>3, Zenon DEF SpokeBefore
<1>30. SilentSince'
  <2>1. silence # None => \A i \in DOMAIN vadQ' : spoke - silence <= Lag(vadQ'[i])
    BY <1>22, <1>25, Zenon
  <2>2. silence # None => spoke - silence \in Floor'
    BY <1>1, <1>13 DEF SilentSince
  <2> QED BY <2>1, <2>2, <1>3, Zenon DEF SilentSince
<1>31. EndpointIsHonest'
  BY <1>1, <1>3 DEF EndpointIsHonest
<1> QED BY <1>26, <1>27, <1>29, <1>30, <1>31 DEF EndInv

\* A hop leaves the queue: what is left follows it, and nothing else of the track moves.
LEMMA EndHop ==
  ASSUME EndInv, OnHop
  PROVE  EndInv'
<1> DEFINE hop == Head(vadQ)
           rest == Tail(vadQ)
           end == hop.ts + VAD_HOP
<1>1. EndType /\ InOrder /\ SpokeBefore /\ SilentSince
  BY DEF EndInv
<1>2. /\ vadQ \in Seq(Hop) /\ vadQ # <<>> /\ vadQ' = rest
      /\ UNCHANGED <<wire, emitted, vadBuf>>
      /\ wire \in Int /\ emitted \in Int /\ spoke \in Int /\ (silence # None => silence \in Int)
      /\ vadBuf \in Seq(Unit) /\ VAD_HOP \in Nat
  BY <1>1, HopSize DEF OnHop, EndType, trackVars
<1>3. /\ hop = vadQ[1] /\ 1 \in DOMAIN vadQ /\ hop \in Hop
      /\ rest \in Seq(Hop)
      /\ \A i \in DOMAIN rest : i \in Nat \ {0} /\ i + 1 \in DOMAIN vadQ /\ rest[i] = vadQ[i + 1]
  BY <1>2
<1> HIDE DEF hop, rest
<1>4. /\ hop.ts \in Int /\ hop.at \in Int /\ Lag(hop) \in Int
      /\ Lag(hop) = hop.at - (hop.ts + VAD_HOP)
  BY <1>2, <1>3 DEF Hop, Lag
<1>5. UNCHANGED <<From, WireLag, Floor>> /\ From \in Int
  <2>1. UNCHANGED <<From, WireLag>> /\ From \in Int
    BY <1>2 DEF From, WireLag
  <2>2. ASSUME NEW i PROVE UnitLag(i)' = UnitLag(i)
    BY <1>2, <2>1 DEF UnitLag
  <2>3. UNCHANGED Floor
    BY <1>2, <2>1, <2>2 DEF Floor
  <2> QED BY <2>1, <2>3
<1>6. ASSUME NEW i PROVE UnitLag(i)' = UnitLag(i)
  BY <1>2 DEF UnitLag, From
<1>7. InOrder'
  <2>1. \A i, j \in DOMAIN rest : i < j => /\ rest[i].ts + VAD_HOP <= rest[j].ts
                                           /\ Lag(rest[i]) <= Lag(rest[j])
    <3> SUFFICES ASSUME NEW i \in DOMAIN rest, NEW j \in DOMAIN rest, i < j
                 PROVE  /\ rest[i].ts + VAD_HOP <= rest[j].ts
                        /\ Lag(rest[i]) <= Lag(rest[j])
      OBVIOUS
    <3>1. i + 1 < j + 1 /\ i + 1 \in DOMAIN vadQ /\ j + 1 \in DOMAIN vadQ
      BY <1>3
    <3> QED BY <3>1, <1>1, <1>3, Zenon DEF InOrder
  <2>2. \A i \in DOMAIN rest : rest[i].ts + VAD_HOP <= From /\ Lag(rest[i]) \in Floor
    BY <1>1, <1>3, Zenon DEF InOrder
  <2>3. /\ \A i, j \in DOMAIN vadBuf : i < j => UnitLag(i) <= UnitLag(j)
        /\ \A i \in DOMAIN vadBuf : UnitLag(i) <= WireLag
    BY <1>1, Zenon DEF InOrder
  <2> QED BY <2>1, <2>2, <2>3, <1>2, <1>5, <1>6, Zenon DEF InOrder
\* The hop comes before the rest.
<1>8. ASSUME NEW i \in DOMAIN rest
      PROVE  /\ rest[i].ts \in Int /\ Lag(rest[i]) \in Int
             /\ hop.ts + VAD_HOP <= rest[i].ts /\ Lag(hop) <= Lag(rest[i])
             /\ spoke <= rest[i].ts + Lag(rest[i])
             /\ silence # None => spoke - silence <= Lag(rest[i])
  <2>1. 1 < i + 1 /\ i + 1 \in DOMAIN vadQ /\ rest[i] = vadQ[i + 1]
    BY <1>3
  <2>2. rest[i] \in Hop
    BY <1>3
  <2>3. rest[i].ts \in Int /\ Lag(rest[i]) \in Int
    BY <2>2, <1>2 DEF Hop, Lag
  <2> QED BY <2>1, <2>3, <1>1, <1>3, Zenon DEF InOrder, SpokeBefore, SilentSince
<1>9. /\ hop.ts + VAD_HOP <= From /\ Lag(hop) \in Floor
      /\ spoke <= hop.ts + Lag(hop) /\ spoke - From \in Floor
      /\ silence # None => spoke - silence <= Lag(hop) /\ spoke - silence \in Floor
  BY <1>1, <1>3, Zenon DEF InOrder, SpokeBefore, SilentSince
<1>10. ASSUME NEW m \in Floor, NEW n \in Int, n <= m PROVE n \in Floor
  <2>1. \A i \in DOMAIN vadBuf : UnitLag(i) \in Int
    <3> SUFFICES ASSUME NEW i \in DOMAIN vadBuf PROVE UnitLag(i) \in Int
      OBVIOUS
    <3>1. vadBuf[i] \in Unit /\ i \in Int
      BY <1>2
    <3> QED BY <3>1, <1>5 DEF Unit, UnitLag
  <2>2. WireLag \in Int
    BY <1>2 DEF WireLag
  <2> QED BY <2>1, <2>2, <1>10 DEF Floor
\* It was speech.
<1>11. CASE OnSpeech(hop, end)
  <2>1. silence' = None /\ event' = None /\ spoke' = hop.at
    BY <1>11 DEF OnSpeech
  <2>2. \A i \in DOMAIN rest : hop.at <= rest[i].ts + Lag(rest[i])
    BY <1>2, <1>4, <1>8
  <2>3. hop.at - From \in Floor
    <3>1. hop.at - From <= Lag(hop) /\ hop.at - From \in Int
      BY <1>2, <1>4, <1>5, <1>9
    <3> QED BY <3>1, <1>9, <1>10
  <2>4. SpokeBefore'
    BY <2>1, <2>2, <2>3, <1>2, <1>5, Zenon DEF SpokeBefore
  <2>5. SilentSince' /\ EndpointIsHonest'
    BY <2>1 DEF SilentSince, EndpointIsHonest
  <2>6. EndType'
    BY <2>1, <1>2, <1>3, <1>4 DEF EndType
  <2> QED BY <2>4, <2>5, <2>6, <1>7 DEF EndInv
\* It was not: the last speech is as long ago as it was.
<1>12. ASSUME UNCHANGED spoke PROVE SpokeBefore'
  BY <1>12, <1>2, <1>5, <1>8, <1>9, Zenon DEF SpokeBefore
<1>13. ASSUME UNCHANGED <<spoke, silence>> PROVE EndType' /\ SilentSince'
  <2>1. SilentSince'
    BY <1>13, <1>2, <1>5, <1>8, <1>9, Zenon DEF SilentSince
  <2> QED BY <2>1, <1>13, <1>2, <1>3 DEF EndType
<1>14. CASE OnCough
  <2>1. event' = None /\ UNCHANGED <<spoke, silence>>
    BY <1>14 DEF OnCough
  <2> QED BY <2>1, <1>7, <1>12, <1>13 DEF EndInv, EndpointIsHonest
<1>15. CASE OnSilence(hop, end)
  <2> DEFINE ms == end - Since(hop)
  <2>1. UNCHANGED spoke
    BY <1>15 DEF OnSilence
  <2>2. Since(hop) \in Int /\ spoke - Since(hop) <= Lag(hop)
    <3>1. CASE silence = None
      BY <3>1, <1>2, <1>4, <1>9 DEF Since
    <3>2. CASE silence # None
      BY <3>2, <1>2, <1>9 DEF Since
    <3> QED BY <3>1, <3>2
  <2>3. ms <= hop.at - spoke
    BY <2>2, <1>2, <1>4
  <2>4. ASSUME NEW forced, CloseUtterance(ms, forced, hop) PROVE EndInv'
    <3>1. silence' = None /\ (event' # None => event'.endpoint_ms = ms /\ event'.at = hop.at)
      BY <2>4 DEF CloseUtterance
    <3>2. EndType' /\ SilentSince'
      BY <3>1, <2>1, <1>2, <1>3 DEF EndType, SilentSince
    <3>3. EndpointIsHonest'
      BY <3>1, <2>1, <2>3, Zenon DEF EndpointIsHonest
    <3> QED BY <3>2, <3>3, <2>1, <1>7, <1>12 DEF EndInv
  <2>5. ASSUME silence' = Since(hop), event' = None PROVE EndInv'
    <3>1. SilentSince'
      <4>1. \A i \in DOMAIN rest : spoke - Since(hop) <= Lag(rest[i])
        BY <2>2, <1>2, <1>4, <1>8
      <4>2. spoke - Since(hop) \in Floor
        BY <2>2, <1>2, <1>9, <1>10
      <4> QED BY <4>1, <4>2, <2>1, <2>5, <1>2, <1>5, Zenon DEF SilentSince
    <3>2. EndType' /\ EndpointIsHonest'
      BY <2>1, <2>2, <2>5, <1>2, <1>3 DEF EndType, EndpointIsHonest
    <3> QED BY <3>1, <3>2, <2>1, <1>7, <1>12 DEF EndInv
  <2> HIDE DEF ms
  <2>6. \/ CloseUtterance(ms, TRUE, hop) \/ CloseUtterance(ms, FALSE, hop)
        \/ silence' = Since(hop) /\ event' = None
    BY <1>15 DEF OnSilence, ms
  <2> QED BY <2>4, <2>5, <2>6
<1>16. OnSpeech(hop, end) \/ OnCough \/ OnSilence(hop, end)
  BY DEF OnHop, hop
<1> QED BY <1>11, <1>14, <1>15, <1>16

LEMMA EndNext == EndInv /\ [Next]_vars => EndInv'
<1> SUFFICES ASSUME EndInv, [Next]_vars PROVE EndInv'
  OBVIOUS
<1>1. ASSUME UNCHANGED <<wire, emitted, vadBuf, vadQ, silence, event, spoke>> PROVE EndInv'
  BY <1>1 DEF EndInv, EndType, InOrder, SpokeBefore, SilentSince, EndpointIsHonest, From,
              Lag, UnitLag, WireLag, Floor
<1>2. CASE \E voice \in BOOLEAN, gap \in Gaps : Push(voice, gap)
  BY <1>2, EndPush
<1>3. CASE Close
  <2>1. /\ vadBuf' = <<>> /\ UNCHANGED <<wire, emitted, vadQ, silence, event, spoke>>
    BY <1>3 DEF Close, endVars
  <2>2. /\ wire \in Int /\ emitted \in Int /\ vadBuf \in Seq(Unit) /\ Len(vadBuf) \in Nat
        /\ spoke \in Int /\ vadQ \in Seq(Hop) /\ VAD_HOP \in Nat
        /\ EndType /\ InOrder /\ SpokeBefore /\ SilentSince /\ EndpointIsHonest
    BY HopSize DEF EndInv, EndType
  <2>3. From <= From' /\ From' \in Int /\ From \in Int /\ WireLag' = WireLag /\ WireLag \in Int
        /\ DOMAIN vadBuf' = {}
    BY <2>1, <2>2 DEF From, WireLag
  <2>4. \A m \in Floor : \A n \in Int : n <= m => n \in Floor'
    BY <2>1, <2>3 DEF Floor
  <2>5. \A m \in Floor : m \in Int /\ m \in Floor'
    BY <2>1, <2>3 DEF Floor
  <2>6. \A i \in DOMAIN vadQ : vadQ[i].ts + VAD_HOP <= From' /\ Lag(vadQ[i]) \in Floor'
    <3> SUFFICES ASSUME NEW i \in DOMAIN vadQ
                 PROVE  vadQ[i].ts + VAD_HOP <= From' /\ Lag(vadQ[i]) \in Floor'
      OBVIOUS
    <3>1. vadQ[i].ts + VAD_HOP <= From /\ Lag(vadQ[i]) \in Floor
      BY <2>2, Zenon DEF InOrder
    <3>2. vadQ[i] \in Hop
      BY <2>2
    <3>3. vadQ[i].ts + VAD_HOP \in Int
      BY <3>2, <2>2 DEF Hop
    <3> QED BY <3>1, <3>3, <2>3, <2>5
  <2>7. \A i, j \in DOMAIN vadQ : i < j => /\ vadQ[i].ts + VAD_HOP <= vadQ[j].ts
                                           /\ Lag(vadQ[i]) <= Lag(vadQ[j])
    BY <2>2, Zenon DEF InOrder
  <2>8. InOrder'
    BY <2>1, <2>3, <2>6, <2>7, Zenon DEF InOrder
  <2>9. spoke - From' \in Floor'
    <3>1. \A f \in Int : From <= f => spoke - f <= spoke - From /\ spoke - f \in Int
      BY <2>2, <2>3
    <3>2. spoke - From \in Floor
      BY <2>2 DEF SpokeBefore
    <3> QED BY <3>1, <3>2, <2>3, <2>4, Zenon
  <2>10. SpokeBefore'
    BY <2>1, <2>2, <2>9, Zenon DEF SpokeBefore
  <2>11. SilentSince'
    BY <2>1, <2>2, <2>5, Zenon DEF SilentSince
  <2>12. EndType' /\ EndpointIsHonest'
    BY <2>1, <2>2 DEF EndType, EndpointIsHonest
  <2> QED BY <2>8, <2>10, <2>11, <2>12 DEF EndInv
<1>4. CASE OnHop
  BY <1>4, EndHop
<1>5. CASE SttStep
  BY <1>1, <1>5 DEF SttStep, Pump, PumpEnds, Connect, Take, Give, TakeEnd, StreamEnds,
                    trackVars, vadVars, endVars
<1>6. CASE Hangs \/ Flushed \/ Result
  BY <1>1, <1>6 DEF Hangs, Flushed, Result, trackVars, vadVars, endVars
<1>7. CASE UNCHANGED vars
  BY <1>1, <1>7 DEF vars, trackVars, vadVars, endVars
<1> QED BY <1>2, <1>3, <1>4, <1>5, <1>6, <1>7 DEF Next

\* However frames, hops, gaps and drops fall, the silence an endpoint reports has passed on
\* the wire since the last speech.
THEOREM EndpointHonesty == FairSpec => []EndpointIsHonest
<1>1. EndInv => EndpointIsHonest
  BY DEF EndInv
<1> QED BY <1>1, EndInit, EndNext, PTL DEF FairSpec

-----------------------------------------------------------------------------
(***************************************************************************)
(* The reply.  The proofs need induction.  The library's induction         *)
(* theorems take an operator; here it is always done on a set of numbers   *)
(* instead: the set of the counterexamples has a least element (Least),    *)
(* which the step rules out.                                               *)
(***************************************************************************)

-----------------------------------------------------------------------------
(* Induction.                                                              *)

LEMMA Least ==
  ASSUME NEW T, T \subseteq Nat, T # {}
  PROVE  \E n \in T : \A m \in T : n <= m
<1> DEFINE R == OpToRel(<, Nat)
<1>1. IsWellFoundedOn(R, Nat)
  BY NatLessThanWellFounded
<1>2. \A x, y \in Nat : <<x, y>> \in R <=> x < y
  BY DEF OpToRel
<1> HIDE DEF R
<1>3. PICK n \in T : \A m \in T : ~(<<m, n>> \in R)
  BY <1>1, WFMin
<1>4. \A m \in T : n \in Nat /\ m \in Nat /\ ~(m < n)
  BY <1>2, <1>3
<1>5. \A m \in T : n <= m
  BY <1>4
<1> QED BY <1>5

LEMMA MinFacts ==
  ASSUME NEW T, T \subseteq Nat, T # {}
  PROVE  Min(T) \in T /\ \A m \in T : Min(T) <= m
BY Least DEF Min

-----------------------------------------------------------------------------
(* Ascending.                                                              *)

Below(S, x) == {y \in S : y < x}

LEMMA BelowFinite ==
  ASSUME NEW S, IsFiniteSet(S), NEW x
  PROVE  IsFiniteSet(Below(S, x)) /\ Cardinality(Below(S, x)) \in Nat
BY FS_Subset, FS_CardinalityType DEF Below

\* Every rank is taken.
LEMMA Ranks ==
  ASSUME NEW S \in SUBSET Nat, IsFiniteSet(S), NEW k \in 1..Cardinality(S)
  PROVE  \E x \in S : Cardinality(Below(S, x)) = k - 1
<1> DEFINE Gap(n, U) == /\ IsFiniteSet(U) /\ Cardinality(U) = n
                        /\ \E j \in 1..n : \A x \in U : Cardinality(Below(U, x)) # j - 1
           T == {n \in Nat : \E U \in SUBSET Nat : Gap(n, U)}
<1>1. SUFFICES T = {}
  <2>1. Cardinality(S) \in Nat
    BY FS_CardinalityType
  <2> QED BY <2>1
<1>2. SUFFICES ASSUME T # {} PROVE FALSE
  OBVIOUS
<1>3. PICK n \in T : \A m \in T : n <= m
  <2> HIDE DEF Gap
  <2> QED BY <1>2, Least
<1>4. PICK U \in SUBSET Nat : Gap(n, U)
  OBVIOUS
<1>5. PICK j \in 1..n : \A x \in U : Cardinality(Below(U, x)) # j - 1
  BY <1>4
<1>6. n \in Nat /\ n # 0 /\ n - 1 \in Nat
  BY <1>5
<1>7. PICK m \in U : \A x \in U : m <= x
  <2>1. U # {}
    BY <1>4, <1>6, FS_EmptySet
  <2> QED BY <2>1, Least
<1> DEFINE V == U \ {m}
<1>8. IsFiniteSet(V) /\ Cardinality(V) = n - 1
  BY <1>4, <1>7, FS_RemoveElement
<1>9. j # 1
  <2>1. \A x \in U : x \in Nat /\ m \in Nat /\ m <= x
    BY <1>7
  <2>2. \A x \in U : ~(x < m)
    BY <2>1
  <2>3. Below(U, m) = {}
    BY <2>2 DEF Below
  <2> QED BY <1>5, <1>7, <2>3, FS_EmptySet
<1>10. PICK x \in V : Cardinality(Below(V, x)) = (j - 1) - 1
  <2>1. j - 1 \in 1..(n - 1)
    BY <1>5, <1>6, <1>9
  <2>2. n - 1 \notin T
    BY <1>3, <1>6
  <2>3. ~Gap(n - 1, V)
    BY <1>6, <2>2
  <2> QED BY <1>8, <2>1, <2>3
<1>11. Below(U, x) = Below(V, x) \cup {m} /\ m \notin Below(V, x)
  BY <1>7, <1>10 DEF Below
<1>12. Cardinality(Below(U, x)) = (j - 1 - 1) + 1
  <2>1. IsFiniteSet(Below(V, x))
    BY <1>8, BelowFinite
  <2>2. Cardinality(Below(V, x) \cup {m}) = Cardinality(Below(V, x)) + 1
    BY <1>11, <2>1, FS_AddElement
  <2> QED BY <1>10, <1>11, <2>2
<1> QED BY <1>5, <1>6, <1>10, <1>12

LEMMA AscendingAt ==
  ASSUME NEW S, NEW k \in 1..Cardinality(S)
  PROVE  Ascending(S)[k] = CHOOSE x \in S : Cardinality(Below(S, x)) = k - 1
BY DEF Ascending, Below

LEMMA AscendingFacts ==
  ASSUME NEW S \in SUBSET Nat, IsFiniteSet(S)
  PROVE  /\ Cardinality(S) \in Nat /\ Ascending(S) \in Seq(S)
         /\ Len(Ascending(S)) = Cardinality(S)
         /\ DOMAIN Ascending(S) = 1..Cardinality(S)
         /\ \A k \in 1..Cardinality(S) : Ascending(S)[k] \in S
<1>1. Cardinality(S) \in Nat
  BY FS_CardinalityType
<1>2. \A k \in 1..Cardinality(S) : Ascending(S)[k] \in S
  <2> TAKE k \in 1..Cardinality(S)
  <2>1. \E x \in S : Cardinality(Below(S, x)) = k - 1
    BY Ranks
  <2> QED BY <2>1, AscendingAt
<1> DEFINE rank(k) == CHOOSE x \in S : Cardinality(Below(S, x)) = k - 1
<1>3. \A k \in 1..Cardinality(S) : rank(k) \in S
  BY <1>2, AscendingAt
<1>4. Ascending(S) = [k \in 1..Cardinality(S) |-> rank(k)]
  BY DEF Ascending, Below
<1> HIDE DEF rank
<1>5. Ascending(S) \in [1..Cardinality(S) -> S]
  BY <1>3, <1>4
<1> QED BY <1>1, <1>2, <1>5

\* A number above all others comes last.
LEMMA AscendingAppend ==
  ASSUME NEW S \in SUBSET Nat, IsFiniteSet(S), NEW n \in Nat, \A x \in S : x < n
  PROVE  Ascending(S \cup {n}) = Append(Ascending(S), n)
<1> DEFINE U == S \cup {n}
           c == Cardinality(S)
<1>1. n \notin S /\ U \in SUBSET Nat /\ IsFiniteSet(U) /\ Cardinality(U) = c + 1 /\ c \in Nat
  BY FS_AddElement, FS_CardinalityType
<1>2. Below(U, n) = S
  <2>1. ~(n < n)
    OBVIOUS
  <2> QED BY <2>1 DEF Below
<1>3. \A x \in S : Below(U, x) = Below(S, x)
  BY DEF Below
<1>4. \A x \in S : Cardinality(Below(S, x)) \in Nat /\ Cardinality(Below(S, x)) < c
  <2> TAKE x \in S
  <2>1. Below(S, x) \subseteq S \ {x}
    BY DEF Below
  <2>2. IsFiniteSet(S \ {x}) /\ Cardinality(S \ {x}) = c - 1
    BY FS_RemoveElement
  <2>3. Cardinality(Below(S, x)) <= c - 1
    BY <2>1, <2>2, FS_Subset
  <2> QED BY <1>1, <2>3, BelowFinite
<1>5. ASSUME NEW k \in 1..c
      PROVE  Ascending(U)[k] = Ascending(S)[k]
  <2>0. Cardinality(Below(U, n)) # k - 1
    BY <1>1, <1>2
  <2>1. \A x : x \in U /\ Cardinality(Below(U, x)) = k - 1
                 <=> x \in S /\ Cardinality(Below(S, x)) = k - 1
    BY <1>3, <2>0
  <2>2. (CHOOSE x \in U : Cardinality(Below(U, x)) = k - 1)
          = CHOOSE x \in S : Cardinality(Below(S, x)) = k - 1
    BY <2>1
  <2>3. k \in 1..Cardinality(U)
    BY <1>1, <1>5
  <2>4. Ascending(U)[k] = CHOOSE x \in U : Cardinality(Below(U, x)) = k - 1
    BY <2>3, AscendingAt
  <2>5. Ascending(S)[k] = CHOOSE x \in S : Cardinality(Below(S, x)) = k - 1
    BY <1>5, AscendingAt
  <2> QED BY <2>2, <2>4, <2>5
<1>6. Ascending(U)[c + 1] = n
  <2>1. \A x \in U : Cardinality(Below(U, x)) = c <=> x = n
    BY <1>1, <1>2, <1>3, <1>4
  <2>2. n \in U
    OBVIOUS
  <2>3. (CHOOSE x \in U : Cardinality(Below(U, x)) = c) = n
    BY <2>1, <2>2
  <2>4. c + 1 \in 1..(c + 1) /\ (c + 1) - 1 = c
    BY <1>1
  <2> QED BY <1>1, <2>3, <2>4 DEF Ascending, Below
<1>7. /\ Ascending(S) \in Seq(S) /\ Len(Ascending(S)) = c
      /\ Ascending(U) \in Seq(U) /\ Len(Ascending(U)) = c + 1
  BY <1>1, AscendingFacts
<1> HIDE DEF U, c
<1>8. /\ Append(Ascending(S), n) \in Seq(U) /\ Len(Append(Ascending(S), n)) = c + 1
      /\ \A k \in 1..c : Append(Ascending(S), n)[k] = Ascending(S)[k]
      /\ Append(Ascending(S), n)[c + 1] = n
  BY <1>7 DEF U
<1>9. \A k \in 1..(c + 1) : Ascending(U)[k] = Append(Ascending(S), n)[k]
  BY <1>1, <1>5, <1>6, <1>8
<1>10. Ascending(U) = Append(Ascending(S), n)
  BY <1>7, <1>8, <1>9
<1> QED BY <1>10 DEF U

-----------------------------------------------------------------------------
(* FlattenSeq, of a sequence of sequences: its recursive function exists,  *)
(* and a sequence appended is concatenated.                                *)

Flattens(ss, g) ==
  g = [i \in 1..Len(ss) |-> IF i = 1 THEN ss[i] ELSE g[i - 1] \o ss[i]]

LEMMA FlattenExists ==
  ASSUME NEW ss, Len(ss) \in Nat
  PROVE  \E g : Flattens(ss, g)
<1> DEFINE Upto(m, g) == g = [i \in 1..m |-> IF i = 1 THEN ss[i] ELSE g[i - 1] \o ss[i]]
           T == {m \in Nat : ~\E g : Upto(m, g)}
<1>1. SUFFICES T = {}
  <2>1. \E g : Upto(Len(ss), g)
    BY <1>1
  <2> QED BY <2>1 DEF Flattens
<1>2. SUFFICES ASSUME T # {} PROVE FALSE
  OBVIOUS
<1>3. PICK n \in T : \A m \in T : n <= m
  <2> HIDE DEF Upto
  <2> QED BY <1>2, Least
<1>4. n # 0
  <2>1. Upto(0, <<>>)
    OBVIOUS
  <2> QED BY <2>1
<1>5. n - 1 \in Nat /\ n - 1 \notin T
  <2> HIDE DEF Upto
  <2>1. n \in Nat /\ n - 1 \in Nat /\ ~(n <= n - 1)
    BY <1>4
  <2> HIDE DEF T
  <2> QED BY <1>3, <2>1
<1>6. PICK g : Upto(n - 1, g)
  <2> HIDE DEF Upto
  <2> QED BY <1>5
<1> DEFINE h == [i \in 1..n |-> IF i = n THEN IF n = 1 THEN ss[1] ELSE g[n - 1] \o ss[n]
                                ELSE g[i]]
<1>7. \A i \in 1..(n - 1) : g[i] = IF i = 1 THEN ss[i] ELSE g[i - 1] \o ss[i]
  BY <1>6
<1>8. \A i \in 1..n : h[i] = IF i = 1 THEN ss[i] ELSE h[i - 1] \o ss[i]
  <2> TAKE i \in 1..n
  <2>1. CASE i = n /\ n = 1
    BY <2>1
  <2>2. CASE i = n /\ n # 1
    <3>1. h[n] = g[n - 1] \o ss[n]
      BY <2>2
    <3>2. h[n - 1] = g[n - 1]
      BY <2>2, <1>5
    <3> QED BY <2>2, <3>1, <3>2
  <2>3. CASE i # n
    <3>1. i \in 1..(n - 1) /\ h[i] = g[i]
      BY <2>3
    <3>2. i # 1 => i - 1 \in 1..n /\ i - 1 # n
      BY <2>3
    <3>3. i # 1 => h[i - 1] = g[i - 1]
      BY <3>2
    <3> HIDE DEF h
    <3> QED BY <1>7, <3>1, <3>3
  <2> QED BY <2>1, <2>2, <2>3
<1>9. h = [i \in 1..n |-> h[i]]
  OBVIOUS
<1> HIDE DEF h
<1>10. h = [i \in 1..n |-> IF i = 1 THEN ss[i] ELSE h[i - 1] \o ss[i]]
  BY <1>8, <1>9
<1> QED BY <1>10

\* The recursive function, and what FlattenSeq makes of it.
Flat(ss) == CHOOSE g : Flattens(ss, g)

LEMMA FlatFacts ==
  ASSUME NEW ss, Len(ss) \in Nat
  PROVE  /\ \A i \in 1..Len(ss) :
              Flat(ss)[i] = IF i = 1 THEN ss[i] ELSE Flat(ss)[i - 1] \o ss[i]
         /\ Len(ss) # 0 => FlattenSeq(ss) = Flat(ss)[Len(ss)]
<1>1. Flattens(ss, Flat(ss))
  BY FlattenExists DEF Flat
<1>2. Len(ss) # 0 => FlattenSeq(ss) = Flat(ss)[Len(ss)]
  BY DEF FlattenSeq, Flat, Flattens
<1> QED BY <1>1, <1>2 DEF Flattens

LEMMA FlattenOne == ASSUME NEW x PROVE FlattenSeq(<<x>>) = x
BY FlatFacts

LEMMA FlattenAppend ==
  ASSUME NEW X, NEW ss \in Seq(X), ss # <<>>, NEW x \in X
  PROVE  FlattenSeq(Append(ss, x)) = FlattenSeq(ss) \o x
<1> DEFINE tt == Append(ss, x)
           n == Len(ss)
           T == {i \in Nat : i \in 1..n /\ Flat(tt)[i] # Flat(ss)[i]}
<1>1. /\ n \in Nat /\ n # 0 /\ Len(tt) = n + 1 /\ tt[n + 1] = x
      /\ \A i \in 1..n : tt[i] = ss[i]
  OBVIOUS
<1> HIDE DEF tt, n
<1>2. \A i \in 1..n : Flat(ss)[i] = IF i = 1 THEN ss[i] ELSE Flat(ss)[i - 1] \o ss[i]
  BY <1>1, FlatFacts DEF n
<1>3. \A i \in 1..(n + 1) : Flat(tt)[i] = IF i = 1 THEN tt[i] ELSE Flat(tt)[i - 1] \o tt[i]
  BY <1>1, FlatFacts
<1>4. T = {}
  <2> SUFFICES ASSUME T # {} PROVE FALSE
    OBVIOUS
  <2>1. PICK i \in T : \A j \in T : i <= j
    BY Least
  <2>2. i # 1 => i - 1 \in 1..n /\ Flat(tt)[i - 1] = Flat(ss)[i - 1]
    BY <1>1, <2>1
  <2>3. i \in 1..n /\ i \in 1..(n + 1)
    BY <1>1
  <2>4. Flat(tt)[i] = Flat(ss)[i]
    BY <1>1, <1>2, <1>3, <2>2, <2>3
  <2> QED BY <2>4
<1>5. Flat(tt)[n] = Flat(ss)[n]
  BY <1>1, <1>4
<1>6. Flat(tt)[n + 1] = Flat(tt)[n] \o x
  <2>1. n + 1 \in 1..(n + 1) /\ n + 1 # 1 /\ (n + 1) - 1 = n
    BY <1>1
  <2> QED BY <1>1, <1>3, <2>1
<1>7. FlattenSeq(tt) = Flat(tt)[n + 1] /\ FlattenSeq(ss) = Flat(ss)[n]
  BY <1>1, FlatFacts DEF n
<1>8. FlattenSeq(tt) = FlattenSeq(ss) \o x
  BY <1>5, <1>6, <1>7
<1> QED BY <1>8 DEF tt
-----------------------------------------------------------------------------
(* What one more line adds to a response.                                  *)

Lined == [kind : {"content"}, content : Chars] \cup [kind : {"tool"}, frag : Fragments]
         \cup [kind : {"usage"}]

\* The batch in progress.
Current(s) == Batch(s, Len(s) + 1)

Frames(s, n) == {k \in DOMAIN s : k < n /\ s[k].kind = "usage"}

LEMMA BatchFacts ==
  ASSUME NEW X, NEW s \in Seq(X)
  PROVE  /\ \A n \in Nat : IsFiniteSet(Frames(s, n)) /\ Batch(s, n) \in Nat
         /\ \A n \in Nat : Batch(s, n) = Cardinality(Frames(s, n))
         /\ \A n \in DOMAIN s : Batch(s, n) \in Nat /\ Batch(s, n) <= Current(s)
         /\ Current(s) \in Nat
<1>1. DOMAIN s = 1..Len(s) /\ Len(s) \in Nat
  OBVIOUS
<1>2. ASSUME NEW n \in Nat
      PROVE  IsFiniteSet(Frames(s, n)) /\ Batch(s, n) \in Nat
             /\ Batch(s, n) = Cardinality(Frames(s, n))
  <2>1. IsFiniteSet(1..Len(s)) /\ Frames(s, n) \subseteq 1..Len(s)
    BY <1>1, FS_Interval DEF Frames
  <2>2. Batch(s, n) = Cardinality(Frames(s, n))
    BY DEF Batch, Frames
  <2> QED BY <2>1, <2>2, FS_Subset, FS_CardinalityType
<1>3. ASSUME NEW n \in DOMAIN s PROVE Batch(s, n) <= Current(s)
  <2>1. Len(s) + 1 \in Nat /\ n \in Nat /\ n < Len(s) + 1
    BY <1>1, <1>3
  <2>2. \A k \in DOMAIN s : k < n => k < Len(s) + 1
    BY <1>1
  <2>3. Frames(s, n) \subseteq Frames(s, Len(s) + 1)
    BY <2>2 DEF Frames
  <2>4. /\ IsFiniteSet(Frames(s, Len(s) + 1)) /\ Batch(s, n) = Cardinality(Frames(s, n))
        /\ Current(s) = Cardinality(Frames(s, Len(s) + 1))
    BY <1>2, <2>1 DEF Current
  <2> QED BY <2>3, <2>4, FS_Subset
<1>4. Current(s) \in Nat
  <2>1. Len(s) + 1 \in Nat
    BY <1>1
  <2> QED BY <1>2, <2>1 DEF Current
<1>5. \A n \in DOMAIN s : Batch(s, n) \in Nat /\ Batch(s, n) <= Current(s)
  <2>1. \A n \in DOMAIN s : n \in Nat
    BY <1>1
  <2> QED BY <1>2, <1>3, <2>1
<1> QED BY <1>2, <1>4, <1>5

LEMMA LinesFacts ==
  ASSUME NEW X, NEW s \in Seq(X), NEW b, NEW i
  PROVE  /\ Lines(s, b, i) \in SUBSET DOMAIN s /\ IsFiniteSet(Lines(s, b, i))
         /\ \A k \in Lines(s, b, i) : k \in Nat /\ k < Len(s) + 1
         /\ b = Current(s) + 1 => Lines(s, b, i) = {}
<1>1. DOMAIN s = 1..Len(s) /\ Len(s) \in Nat
  OBVIOUS
<1>2. Lines(s, b, i) \in SUBSET DOMAIN s
  BY DEF Lines
<1>3. IsFiniteSet(Lines(s, b, i))
  <2>1. IsFiniteSet(1..Len(s)) /\ Lines(s, b, i) \subseteq 1..Len(s)
    BY <1>1, <1>2, FS_Interval
  <2> QED BY <2>1, FS_Subset
<1>4. \A k \in Lines(s, b, i) : k \in Nat /\ k < Len(s) + 1
  BY <1>1, <1>2
<1>5. ASSUME b = Current(s) + 1, NEW k \in Lines(s, b, i) PROVE FALSE
  <2>1. k \in DOMAIN s /\ Batch(s, k) = b
    BY <1>5 DEF Lines
  <2>2. Batch(s, k) \in Nat /\ Batch(s, k) <= Current(s) /\ Current(s) \in Nat
    BY <2>1, BatchFacts
  <2> QED BY <1>5, <2>1, <2>2
<1> QED BY <1>2, <1>3, <1>4, <1>5

\* The batch of a line is settled when it arrives.
LEMMA BatchAppend ==
  ASSUME NEW X, NEW s \in Seq(X), NEW line \in X
  PROVE  /\ \A k \in DOMAIN s : Batch(Append(s, line), k) = Batch(s, k)
         /\ Batch(Append(s, line), Len(s) + 1) = Current(s)
         /\ Current(Append(s, line))
              = IF line.kind = "usage" THEN Current(s) + 1 ELSE Current(s)
<1> DEFINE t == Append(s, line)
           n == Len(s) + 1
<1>1. /\ n \in Nat /\ DOMAIN s = 1..(n - 1) /\ DOMAIN t = 1..n /\ Len(t) = n /\ t[n] = line
      /\ t \in Seq(X) /\ \A k \in DOMAIN s : t[k] = s[k]
  OBVIOUS
<1> HIDE DEF t
<1>2. ASSUME NEW k \in 1..n PROVE Frames(t, k) = Frames(s, k)
  <2>1. \A j \in DOMAIN t : j < k => j \in DOMAIN s
    BY <1>1
  <2>2. \A j \in DOMAIN s : j \in DOMAIN t
    BY <1>1
  <2> QED BY <1>1, <2>1, <2>2 DEF Frames
<1>3. \A k \in 1..n : Batch(t, k) = Batch(s, k)
  <2> TAKE k \in 1..n
  <2>1. k \in Nat
    BY <1>1
  <2> QED BY <1>1, <1>2, <2>1, BatchFacts
<1>4. Frames(t, n + 1) = IF line.kind = "usage" THEN Frames(s, n) \cup {n} ELSE Frames(s, n)
  <2>1. \A j \in DOMAIN t : j < n + 1 /\ ((j \in DOMAIN s /\ j < n) \/ j = n)
    BY <1>1
  <2>2. \A j \in DOMAIN s : j \in DOMAIN t /\ j # n /\ j < n
    BY <1>1
  <2>3. n \in DOMAIN t /\ n < n + 1
    BY <1>1
  <2> HIDE DEF n
  <2> QED BY <1>1, <2>1, <2>2, <2>3 DEF Frames
<1>5. n \notin Frames(s, n) /\ IsFiniteSet(Frames(s, n))
  BY <1>1, BatchFacts DEF Frames
<1>6. Cardinality(Frames(s, n) \cup {n}) = Cardinality(Frames(s, n)) + 1
  BY <1>5, FS_AddElement
<1>7. /\ Current(s) = Cardinality(Frames(s, n))
      /\ Current(t) = Cardinality(Frames(t, n + 1))
  <2>1. n + 1 \in Nat
    BY <1>1
  <2>2. Current(s) = Batch(s, n) /\ Current(t) = Batch(t, n + 1)
    BY <1>1 DEF Current
  <2> QED BY <1>1, <2>1, <2>2, BatchFacts
<1>8. Batch(t, n) = Current(s)
  <2>1. n \in 1..n
    BY <1>1
  <2> QED BY <1>3, <2>1 DEF Current
<1>9. \A k \in DOMAIN s : Batch(t, k) = Batch(s, k)
  <2>1. \A k \in DOMAIN s : k \in 1..n
    BY <1>1
  <2> QED BY <1>3, <2>1
<1>10. Current(t) = IF line.kind = "usage" THEN Current(s) + 1 ELSE Current(s)
  BY <1>4, <1>6, <1>7
<1> QED BY <1>8, <1>9, <1>10 DEF t

LEMMA LinesAppend ==
  ASSUME NEW X, NEW s \in Seq(X), NEW line \in X, NEW b, NEW i
  PROVE  Lines(Append(s, line), b, i)
           = IF line.kind = "tool" /\ b = Current(s) /\ line.frag.index = i
             THEN Lines(s, b, i) \cup {Len(s) + 1} ELSE Lines(s, b, i)
<1> DEFINE t == Append(s, line)
           n == Len(s) + 1
<1>1. /\ n \in Nat /\ DOMAIN s = 1..(n - 1) /\ DOMAIN t = 1..n /\ t[n] = line
      /\ \A k \in DOMAIN s : t[k] = s[k]
  OBVIOUS
<1>2. /\ \A k \in DOMAIN s : Batch(t, k) = Batch(s, k)
      /\ Batch(t, n) = Current(s)
  BY BatchAppend
<1>3. \A k : k \in DOMAIN t <=> k \in DOMAIN s \/ k = n
  BY <1>1
<1>4. n \notin DOMAIN s
  BY <1>1
<1> HIDE DEF t, n
<1>5. Lines(t, b, i) = IF line.kind = "tool" /\ b = Current(s) /\ line.frag.index = i
                       THEN Lines(s, b, i) \cup {n} ELSE Lines(s, b, i)
  <2>1. \A k : k \in Lines(t, b, i) <=>
             \/ k \in Lines(s, b, i)
             \/ k = n /\ line.kind = "tool" /\ b = Current(s) /\ line.frag.index = i
    BY <1>1, <1>2, <1>3, <1>4 DEF Lines
  <2> QED BY <2>1
<1> QED BY <1>5 DEF t, n

-----------------------------------------------------------------------------
(* The call a slot holds so far, and what a fragment adds to it.           *)

\* Lines of fragments.
Fragmented(s, K) ==
  /\ K \in SUBSET DOMAIN s /\ IsFiniteSet(K)
  /\ \A k \in K : s[k].frag \in Fragments /\ k \in Nat /\ k < Len(s) + 1

LEMMA LinesFragmented ==
  ASSUME NEW s \in Seq(Lined), NEW b, NEW i
  PROVE  Fragmented(s, Lines(s, b, i))
<1>1. \A k \in DOMAIN s : s[k] \in Lined
  OBVIOUS
<1>2. \A x \in Lined : x.kind = "tool" => x.frag \in Fragments
  BY DEF Lined
<1>3. \A k \in Lines(s, b, i) : k \in DOMAIN s /\ s[k].kind = "tool"
  BY DEF Lines
<1> QED BY <1>1, <1>2, <1>3, LinesFacts DEF Fragmented

LEMMA CallType ==
  ASSUME NEW s \in Seq(Lined), NEW K, Fragmented(s, K)
  PROVE  /\ Parted(s, K) \in SUBSET Nat /\ IsFiniteSet(Parted(s, K))
         /\ CallOf(s, K) \in [id : Ids \union {Absent}, parts : Seq(Nat)]
         /\ CallOf(s, K) # Absent
         /\ Named(s, K) # {} => Min(Named(s, K)) \in Named(s, K)
<1>1. Parted(s, K) \in SUBSET Nat /\ IsFiniteSet(Parted(s, K))
  BY FS_Subset DEF Fragmented, Parted
<1>2. Ascending(Parted(s, K)) \in Seq(Nat)
  <2>1. Ascending(Parted(s, K)) \in Seq(Parted(s, K))
    BY <1>1, AscendingFacts
  <2> QED BY <1>1, <2>1
<1>3. Named(s, K) \subseteq K /\ Named(s, K) \subseteq Nat
  BY DEF Fragmented, Named
<1>4. Named(s, K) # {} => Min(Named(s, K)) \in Named(s, K)
  BY <1>3, MinFacts
<1>5. \A f \in Fragments : f.id \in Ids \union {Absent}
  BY DEF Fragments
<1>6. Named(s, K) # {} => s[Min(Named(s, K))].frag.id \in Ids \union {Absent}
  BY <1>3, <1>4, <1>5 DEF Fragmented
<1>7. CallOf(s, K) \in [id : Ids \union {Absent}, parts : Seq(Nat)]
  BY <1>2, <1>6 DEF CallOf
<1> QED BY <1>1, <1>4, <1>7, ReplyAssumption

\* Other lines do not touch it.
LEMMA CallKept ==
  ASSUME NEW X, NEW s \in Seq(X), NEW line \in X, NEW K \in SUBSET DOMAIN s
  PROVE  /\ CallOf(Append(s, line), K) = CallOf(s, K)
         /\ Named(Append(s, line), K) = Named(s, K)
<1> DEFINE t == Append(s, line)
<1>1. \A k \in K : t[k] = s[k]
  OBVIOUS
<1>2. DOMAIN s \subseteq Nat
  OBVIOUS
<1> HIDE DEF t
<1>3. Named(t, K) = Named(s, K) /\ Parted(t, K) = Parted(s, K)
  BY <1>1 DEF Named, Parted
<1>4. Named(s, K) # {} => t[Min(Named(s, K))] = s[Min(Named(s, K))]
  <2>1. Named(s, K) \subseteq K /\ Named(s, K) \subseteq Nat
    BY <1>2 DEF Named
  <2> QED BY <1>1, <2>1, MinFacts
<1>5. CallOf(t, K) = CallOf(s, K)
  BY <1>3, <1>4 DEF CallOf
<1> QED BY <1>3, <1>5 DEF t

LEMMA CallGrows ==
  ASSUME NEW s \in Seq(Lined), NEW line \in Lined, line.kind = "tool",
         NEW K, Fragmented(s, K)
  PROVE  CallOf(Append(s, line), K \cup {Len(s) + 1})
           = [id |-> IF CallOf(s, K).id = Absent THEN line.frag.id ELSE CallOf(s, K).id,
              parts |-> IF line.frag.part THEN Append(CallOf(s, K).parts, Len(s) + 1)
                        ELSE CallOf(s, K).parts]
<1> DEFINE t == Append(s, line)
           n == Len(s) + 1
           L == K \cup {n}
<1>1. n \in Nat /\ t[n] = line /\ \A k \in K : t[k] = s[k] /\ k \in Nat /\ k < n
  BY DEF Fragmented
<1>2. n \notin K /\ Named(s, K) \subseteq K /\ Named(s, K) \subseteq Nat
  BY <1>1 DEF Named
<1> HIDE DEF t, n
<1>3. Parted(t, L) = IF line.frag.part THEN Parted(s, K) \cup {n} ELSE Parted(s, K)
  BY <1>1, <1>2 DEF Parted
<1>4. line.frag.part => Ascending(Parted(s, K) \cup {n}) = Append(Ascending(Parted(s, K)), n)
  <2>1. \A k \in Parted(s, K) : k < n
    BY <1>1 DEF Parted
  <2> QED BY <1>1, <2>1, CallType, AscendingAppend
<1>5. Named(t, L) = IF line.frag.id # Absent THEN Named(s, K) \cup {n} ELSE Named(s, K)
  BY <1>1, <1>2 DEF Named
<1>6. CASE Named(s, K) = {}
  <2>1. CallOf(s, K).id = Absent
    BY <1>6 DEF CallOf
  <2>2. line.frag.id # Absent => Named(t, L) = {n} /\ Min(Named(t, L)) = n
    <3>1. SUFFICES ASSUME line.frag.id # Absent PROVE Named(t, L) = {n} /\ Min(Named(t, L)) = n
      OBVIOUS
    <3>2. Named(t, L) = {n}
      BY <1>5, <1>6, <3>1
    <3> QED BY <1>1, <3>2, MinFacts
  <2>3. CallOf(t, L).id = line.frag.id
    BY <1>1, <1>5, <1>6, <2>2 DEF CallOf
  <2> QED BY <1>3, <1>4, <2>1, <2>3 DEF CallOf, t, n
<1>7. CASE Named(s, K) # {}
  <2>1. Min(Named(s, K)) \in Named(s, K) /\ \A k \in Named(s, K) : Min(Named(s, K)) <= k
    BY <1>2, <1>7, MinFacts
  <2>2. Named(t, L) # {} /\ Min(Named(t, L)) = Min(Named(s, K))
    <3>1. Named(t, L) # {} /\ Named(t, L) \subseteq Nat
      BY <1>1, <1>2, <1>5, <1>7
    <3>2. Min(Named(t, L)) \in Named(t, L) /\ \A k \in Named(t, L) : Min(Named(t, L)) <= k
      BY <3>1, MinFacts
    <3>3. Min(Named(s, K)) \in Named(t, L) /\ Min(Named(s, K)) < n
      BY <1>1, <1>2, <1>5, <2>1
    <3>4. \A k \in Named(t, L) : k \in Named(s, K) \/ k = n
      BY <1>5
    <3>5. \A a, c \in Nat : a <= c /\ c <= a => a = c
      OBVIOUS
    <3>6. \A a \in Nat : a <= Min(Named(s, K)) => a # n
      BY <1>1, <1>2, <2>1, <3>3
    <3>7. Min(Named(t, L)) \in Named(s, K)
      BY <3>1, <3>2, <3>3, <3>4, <3>6
    <3> QED BY <1>2, <2>1, <3>2, <3>3, <3>5, <3>7
  <2>3. t[Min(Named(s, K))] = s[Min(Named(s, K))]
    BY <1>1, <1>2, <2>1
  <2>4. CallOf(s, K).id = s[Min(Named(s, K))].frag.id /\ CallOf(s, K).id # Absent
    BY <1>7, <2>1 DEF CallOf, Named
  <2>5. CallOf(t, L).id = CallOf(s, K).id
    BY <2>2, <2>3, <2>4 DEF CallOf
  <2> QED BY <1>3, <1>4, <2>4, <2>5 DEF CallOf, t, n
<1> QED BY <1>6, <1>7

-----------------------------------------------------------------------------
(* The text and the batches of a longer response.                          *)

LEMMA TextAppend ==
  ASSUME NEW X, NEW s \in Seq(X), NEW line \in X
  PROVE  TextIn(Append(s, line))
           = IF Says(line) = Absent THEN TextIn(s) ELSE Append(TextIn(s), Says(line))
<1> DEFINE t == Append(s, line)
           n == Len(s) + 1
           H == Heard(s)
           A == Ascending(H)
           c == Cardinality(H)
<1>1. /\ n \in Nat /\ t[n] = line /\ DOMAIN s = 1..(n - 1) /\ DOMAIN t = 1..n
      /\ \A k \in DOMAIN s : t[k] = s[k] /\ k \in Nat /\ k < n
      /\ \A k : k \in DOMAIN t <=> k \in DOMAIN s \/ k = n
  OBVIOUS
<1>2. H \in SUBSET Nat /\ H \subseteq DOMAIN s /\ IsFiniteSet(H)
  <2>1. H \subseteq 1..(n - 1)
    BY <1>1 DEF Heard
  <2>2. IsFiniteSet(1..(n - 1))
    BY <1>1, FS_Interval
  <2> QED BY <1>1, <2>1, <2>2, FS_Subset
<1> HIDE DEF t, n, H
<1>3. Heard(t) = IF Says(line) = Absent THEN H ELSE H \cup {n}
  BY <1>1 DEF Heard, H
<1>4. /\ c \in Nat /\ A \in Seq(H) /\ Len(A) = c /\ DOMAIN A = 1..c
      /\ \A k \in 1..c : A[k] \in H
  BY <1>2, AscendingFacts
<1>5. TextIn(s) = [k \in 1..c |-> Says(s[A[k]])]
  BY <1>4 DEF TextIn, H
<1>6. \A k \in 1..c : t[A[k]] = s[A[k]]
  BY <1>1, <1>2, <1>4
<1>7. CASE Says(line) = Absent
  <2>1. TextIn(t) = [k \in 1..c |-> Says(t[A[k]])]
    BY <1>3, <1>4, <1>7 DEF TextIn
  <2> QED BY <1>5, <1>6, <1>7, <2>1 DEF t
<1>8. CASE Says(line) # Absent
  <2>1. Ascending(H \cup {n}) = Append(A, n)
    BY <1>1, <1>2, AscendingAppend
  <2> HIDE DEF A, c
  <2>2. /\ DOMAIN Append(A, n) = 1..(c + 1) /\ Append(A, n)[c + 1] = n
        /\ \A k \in 1..c : Append(A, n)[k] = A[k]
    BY <1>4
  <2>3. TextIn(t) = [k \in 1..(c + 1) |-> Says(t[Append(A, n)[k]])]
    BY <1>3, <1>8, <2>1, <2>2 DEF TextIn
  <2>4. \A k \in 1..c : TextIn(t)[k] = TextIn(s)[k]
    <3> TAKE k \in 1..c
    <3>1. k \in 1..(c + 1)
      BY <1>4
    <3>2. TextIn(t)[k] = Says(t[Append(A, n)[k]])
      BY <2>3, <3>1
    <3>3. Append(A, n)[k] = A[k]
      BY <2>2
    <3>4. TextIn(s)[k] = Says(s[A[k]])
      BY <1>5
    <3> QED BY <1>6, <3>2, <3>3, <3>4
  <2>5. TextIn(t)[c + 1] = Says(line)
    <3>1. c + 1 \in 1..(c + 1)
      BY <1>4
    <3> QED BY <1>1, <2>2, <2>3, <3>1
  <2>6. DOMAIN TextIn(s) = 1..c /\ DOMAIN TextIn(t) = 1..(c + 1)
    BY <1>5, <2>3
  <2> DEFINE u == TextIn(s)
             v == TextIn(t)
             x == Says(line)
             Z == {u[k] : k \in 1..c} \cup {x}
  <2>7. u = [k \in 1..c |-> u[k]] /\ v = [k \in 1..(c + 1) |-> v[k]]
    BY <1>5, <2>3
  <2>8. \A k \in 1..c : v[k] = u[k] /\ u[k] \in Z
    BY <2>4
  <2>9. v[c + 1] = x /\ x \in Z
    BY <2>5
  <2> HIDE DEF u, v, x, Z
  <2>10. u \in Seq(Z) /\ Len(u) = c
    <3>1. u \in [1..c -> Z]
      BY <2>7, <2>8
    <3> QED BY <1>4, <3>1
  <2>11. \A k \in 1..(c + 1) : v[k] \in Z
    BY <1>4, <2>8, <2>9
  <2>12. v \in Seq(Z) /\ Len(v) = c + 1
    <3>1. v \in [1..(c + 1) -> Z]
      BY <2>7, <2>11
    <3> QED BY <1>4, <3>1
  <2>13. v = Append(u, x)
    BY <1>4, <2>8, <2>9, <2>10, <2>12
  <2> QED BY <1>8, <2>13 DEF t, u, v, x
<1> QED BY <1>7, <1>8

LEMMA CallsFacts ==
  ASSUME NEW s, NEW b, IsFiniteSet(Slots(s, b))
  PROVE  /\ Cardinality(Slots(s, b)) \in Nat
         /\ DOMAIN Ascending(Slots(s, b)) = 1..Cardinality(Slots(s, b))
         /\ \A k \in 1..Cardinality(Slots(s, b)) : Ascending(Slots(s, b))[k] \in Slots(s, b)
         /\ CallsOf(s, b) = [k \in 1..Cardinality(Slots(s, b)) |->
                               CallOf(s, Lines(s, b, Ascending(Slots(s, b))[k]))]
         /\ Len(CallsOf(s, b)) \in Nat
         /\ \E Z : CallsOf(s, b) \in Seq(Z)
<1>1. Slots(s, b) \in SUBSET Nat
  BY ReplyAssumption DEF Slots
<1>2. /\ Cardinality(Slots(s, b)) \in Nat
      /\ DOMAIN Ascending(Slots(s, b)) = 1..Cardinality(Slots(s, b))
      /\ \A k \in 1..Cardinality(Slots(s, b)) : Ascending(Slots(s, b))[k] \in Slots(s, b)
  BY <1>1, AscendingFacts
<1>3. CallsOf(s, b) = [k \in 1..Cardinality(Slots(s, b)) |->
                        CallOf(s, Lines(s, b, Ascending(Slots(s, b))[k]))]
  BY <1>2 DEF CallsOf
<1>4. \E Z : CallsOf(s, b) \in Seq(Z)
  <2> DEFINE c == Cardinality(Slots(s, b))
             g == [k \in 1..c |-> CallOf(s, Lines(s, b, Ascending(Slots(s, b))[k]))]
             Z == {g[k] : k \in 1..c}
  <2>1. g = [k \in 1..c |-> g[k]] /\ \A k \in 1..c : g[k] \in Z
    OBVIOUS
  <2>2. c \in Nat
    BY <1>2
  <2> HIDE DEF c, g, Z
  <2>3. g \in [1..c -> Z]
    BY <2>1
  <2>4. g \in Seq(Z)
    BY <2>2, <2>3
  <2>5. CallsOf(s, b) = g
    BY <1>3 DEF g, c
  <2> QED BY <2>4, <2>5
<1> QED BY <1>2, <1>3, <1>4

\* A line touches no batch but the current one, and that one only if it is a fragment.
LEMMA CallsKept ==
  ASSUME NEW X, NEW s \in Seq(X), NEW line \in X, NEW b,
         line.kind # "tool" \/ b # Current(s)
  PROVE  /\ CallsOf(Append(s, line), b) = CallsOf(s, b)
         /\ Slots(Append(s, line), b) = Slots(s, b)
<1> DEFINE t == Append(s, line)
<1>1. \A i : Lines(t, b, i) = Lines(s, b, i)
  BY LinesAppend
<1>2. \A i : CallOf(t, Lines(s, b, i)) = CallOf(s, Lines(s, b, i))
  BY LinesFacts, CallKept
<1> HIDE DEF t
<1>3. Slots(t, b) = Slots(s, b)
  BY <1>1 DEF Slots
<1>4. CallsOf(t, b) = CallsOf(s, b)
  BY <1>1, <1>2, <1>3 DEF CallsOf
<1> QED BY <1>3, <1>4 DEF t

\* The calls of the first c batches; one batch more is concatenated.
Upto(s, c) == [n \in 1..c |-> CallsOf(s, n - 1)]

LEMMA UptoAppend ==
  ASSUME NEW s, NEW c \in Nat, IsFiniteSet(Slots(s, c))
  PROVE  FlattenSeq(Upto(s, c + 1)) = FlattenSeq(Upto(s, c)) \o CallsOf(s, c)
<1> DEFINE x == CallsOf(s, c)
           Z == {CallsOf(s, n) : n \in Nat}
<1>1. \E X : x \in Seq(X)
  BY CallsFacts
<1>2. CASE c = 0
  <2>1. Upto(s, c) = <<>>
    BY <1>2 DEF Upto
  <2>2. FlattenSeq(Upto(s, c)) = <<>>
    BY <2>1 DEF FlattenSeq
  <2>3. Upto(s, c + 1) = <<x>>
    BY <1>2 DEF Upto
  <2>4. FlattenSeq(<<x>>) = x
    BY FlattenOne
  <2> HIDE DEF x
  <2>5. <<>> \o x = x
    BY <1>1
  <2> QED BY <2>2, <2>3, <2>4, <2>5 DEF x
<1>3. CASE c # 0
  <2>1. \A k \in 1..(c + 1) : Upto(s, c + 1)[k] = CallsOf(s, k - 1)
    BY DEF Upto
  <2>2. \A k \in 1..c : Upto(s, c)[k] = CallsOf(s, k - 1) /\ CallsOf(s, k - 1) \in Z
    BY DEF Upto
  <2>3. x \in Z
    OBVIOUS
  <2>4. /\ Upto(s, c) = [k \in 1..c |-> Upto(s, c)[k]]
        /\ Upto(s, c + 1) = [k \in 1..(c + 1) |-> Upto(s, c + 1)[k]]
    BY DEF Upto
  <2> DEFINE u == Upto(s, c)
             v == Upto(s, c + 1)
  <2>5. \A k \in 1..c : v[k] = u[k] /\ u[k] \in Z
    <3> TAKE k \in 1..c
    <3>1. k \in 1..(c + 1)
      OBVIOUS
    <3> QED BY <2>1, <2>2, <3>1
  <2>6. v[c + 1] = x
    <3>1. c + 1 \in 1..(c + 1) /\ (c + 1) - 1 = c
      OBVIOUS
    <3> QED BY <2>1, <3>1
  <2> HIDE DEF x, Z, u, v
  <2>7. u = [k \in 1..c |-> u[k]] /\ v = [k \in 1..(c + 1) |-> v[k]]
    BY <2>4 DEF u, v
  <2>8. u \in Seq(Z) /\ Len(u) = c
    <3>1. u \in [1..c -> Z]
      BY <2>5, <2>7
    <3> QED BY <3>1
  <2>9. \A k \in 1..(c + 1) : v[k] \in Z
    BY <2>3, <2>5, <2>6
  <2>10. v \in Seq(Z) /\ Len(v) = c + 1
    <3>1. v \in [1..(c + 1) -> Z]
      BY <2>7, <2>9
    <3> QED BY <3>1
  <2>11. v = Append(u, x)
    BY <2>3, <2>5, <2>6, <2>8, <2>10
  <2>12. u # <<>>
    BY <1>3, <2>8
  <2>13. FlattenSeq(v) = FlattenSeq(u) \o x
    BY <2>3, <2>8, <2>11, <2>12, FlattenAppend
  <2> QED BY <2>13 DEF u, v, x
<1> QED BY <1>2, <1>3

-----------------------------------------------------------------------------
(* The invariant: while the round runs, the assembler holds the calls of   *)
(* the batch in progress, the round those of the batches before it and the *)
(* text so far.                                                            *)

Assembled == \A i \in Indices :
  partials[i] = IF Lines(sent, Current(sent), i) = {} THEN Absent
                ELSE CallOf(sent, Lines(sent, Current(sent), i))

Held == Assembled /\ calls = FlattenSeq(Upto(sent, Current(sent))) /\ content = TextIn(sent)

RInv ==
  /\ sent \in Seq(Lined) /\ DOMAIN partials = Indices
  /\ IsFiniteSet(Pending(partials))
  /\ phase # "over" => outcome = "none" /\ Held
  /\ ReplyIsWhole

\* What flush emits of whole partials is the batch in progress.
LEMMA FlushIsBatch ==
  ASSUME RInv, Held, Whole(partials)
  PROVE  /\ Flush(partials) = CallsOf(sent, Current(sent))
         /\ IsFiniteSet(Slots(sent, Current(sent)))
<1> DEFINE b == Current(sent)
<1>1. \A i \in Indices : Lines(sent, b, i) # {} => CallOf(sent, Lines(sent, b, i)) # Absent
  BY LinesFragmented, CallType DEF RInv
<1>2. Pending(partials) = Slots(sent, b)
  BY <1>1 DEF Held, Assembled, Pending, Slots
<1>3. IsFiniteSet(Slots(sent, b))
  BY <1>2 DEF RInv
<1>4. /\ DOMAIN Ascending(Slots(sent, b)) = 1..Cardinality(Slots(sent, b))
      /\ \A k \in 1..Cardinality(Slots(sent, b)) :
           Ascending(Slots(sent, b))[k] \in Slots(sent, b)
      /\ CallsOf(sent, b) = [k \in 1..Cardinality(Slots(sent, b)) |->
                               CallOf(sent, Lines(sent, b, Ascending(Slots(sent, b))[k]))]
  BY <1>3, CallsFacts
<1>5. \A i \in Slots(sent, b) : partials[i] = CallOf(sent, Lines(sent, b, i))
  BY DEF Held, Assembled, Slots
<1>6. Flush(partials) = [k \in 1..Cardinality(Slots(sent, b)) |->
                          partials[Ascending(Slots(sent, b))[k]]]
  BY <1>2, <1>4 DEF Flush
<1>7. Flush(partials) = CallsOf(sent, b)
  <2> HIDE DEF b
  <2> QED BY <1>4, <1>5, <1>6
<1> QED BY <1>3, <1>7

\* The calls after a flush are those of one batch more.
LEMMA FlushedCalls ==
  ASSUME RInv, Held, Whole(partials)
  PROVE  calls \o Flush(partials) = FlattenSeq(Upto(sent, Current(sent) + 1))
<1>1. Current(sent) \in Nat
  BY BatchFacts DEF RInv
<1> QED BY <1>1, FlushIsBatch, UptoAppend DEF Held

LEMMA InitRInv == ReplyInit => RInv
<1> SUFFICES ASSUME ReplyInit PROVE RInv
  OBVIOUS
<1>1. sent = <<>> /\ sent \in Seq(Lined)
  BY DEF ReplyInit
<1>2. \A b, i : Lines(sent, b, i) = {}
  BY <1>1 DEF Lines
<1>3. partials = Empty /\ \A i \in Indices : partials[i] = Absent
  BY DEF ReplyInit, Empty
<1>4. Pending(partials) = {} /\ IsFiniteSet({})
  BY <1>3, FS_EmptySet DEF Pending
<1>5. Current(sent) = 0
  <2>1. Frames(sent, 1) = {} /\ Len(sent) + 1 = 1
    BY <1>1 DEF Frames
  <2>2. Batch(sent, 1) = Cardinality(Frames(sent, 1))
    BY <1>1, BatchFacts
  <2> QED BY <2>1, <2>2, FS_EmptySet DEF Current
<1>6. calls = FlattenSeq(Upto(sent, 0))
  <2>1. Upto(sent, 0) = <<>>
    BY DEF Upto
  <2> QED BY <2>1 DEF ReplyInit, FlattenSeq
<1>7. content = TextIn(sent)
  <2>1. Heard(sent) = {}
    BY <1>1 DEF Heard
  <2>2. DOMAIN Ascending({}) = 1..0
    BY FS_EmptySet DEF Ascending
  <2>3. TextIn(sent) = <<>>
    BY <2>1, <2>2 DEF TextIn
  <2> QED BY <2>3 DEF ReplyInit
<1>8. Held
  BY <1>2, <1>3, <1>5, <1>6, <1>7 DEF Held, Assembled
<1>9. outcome = "none" /\ DOMAIN partials = Indices
  BY DEF ReplyInit, Empty
<1> QED BY <1>1, <1>4, <1>8, <1>9 DEF RInv, ReplyIsWhole

\* A request that is over, and not with a reply, keeps nothing to prove.
LEMMA Overs ==
  ASSUME RInv, sent' \in Seq(Lined), UNCHANGED partials,
         phase' = "over", outcome' # "reply"
  PROVE  RInv'
BY DEF RInv, ReplyIsWhole, Pending

LEMMA FailsRInv ==
  ASSUME RInv, sent' \in Seq(Lined), Fails
  PROVE  RInv'
BY Overs DEF Fails, Over

\* The round hears the text of the line, or the reply has grown too long.
LEMMA HearsText ==
  ASSUME RInv, Held, NEW line \in Lined, sent' = Append(sent, line), Hears(Says(line))
  PROVE  content' = TextIn(sent)'
BY TextAppend DEF RInv, Held, Hears

LEMMA HeardOn ==
  ASSUME RInv, phase # "over", NEW c, Hears(c), Held'
  PROVE  /\ (phase' # "over" => outcome' = "none" /\ Held')
         /\ ReplyIsWhole'
BY DEF RInv, Hears, Over, ReplyIsWhole

LEMMA ContentRInv ==
  ASSUME RInv, phase # "over", NEW c \in Chars, Content(c),
         sent' = Append(sent, [kind |-> "content", content |-> c])
  PROVE  RInv'
<1> DEFINE line == [kind |-> "content", content |-> c]
<1>1. line \in Lined /\ line.kind = "content" /\ Says(line) = c /\ sent \in Seq(Lined)
  BY DEF Lined, Says, RInv
<1> HIDE DEF line
<1>2. sent' = Append(sent, line) /\ Hears(c) /\ UNCHANGED <<partials, calls>>
  BY DEF Content, line
<1>3. sent' \in Seq(Lined)
  BY <1>1, <1>2
<1>4. Current(sent)' = Current(sent) /\ \A b, i : Lines(sent, b, i)' = Lines(sent, b, i)
  BY <1>1, <1>2, BatchAppend, LinesAppend
<1>5. \A b, i : CallOf(sent', Lines(sent, b, i)) = CallOf(sent, Lines(sent, b, i))
  BY <1>1, <1>2, LinesFacts, CallKept
<1>6. Assembled'
  BY <1>2, <1>4, <1>5 DEF RInv, Held, Assembled
<1>7. \A b : CallsOf(sent', b) = CallsOf(sent, b)
  BY <1>1, <1>2, CallsKept
<1>8. Upto(sent', Current(sent)) = Upto(sent, Current(sent))
  BY <1>7 DEF Upto
<1>9. calls' = FlattenSeq(Upto(sent', Current(sent')))
  BY <1>2, <1>4, <1>8 DEF RInv, Held
<1>10. content' = TextIn(sent)'
  BY <1>1, <1>2, HearsText DEF RInv
<1>11. Held'
  BY <1>6, <1>9, <1>10 DEF Held
<1>12. IsFiniteSet(Pending(partials)') /\ DOMAIN partials' = Indices
  BY <1>2 DEF RInv, Pending
<1> QED BY <1>2, <1>3, <1>11, <1>12, HeardOn DEF RInv

LEMMA NoLines == ASSUME NEW s PROVE CallOf(s, {}) = [id |-> Absent, parts |-> <<>>]
<1>1. Named(s, {}) = {} /\ Parted(s, {}) = {}
  BY DEF Named, Parted
<1>2. Ascending({}) = <<>>
  BY FS_EmptySet DEF Ascending
<1> QED BY <1>1, <1>2 DEF CallOf

\* The assembler's step is the step of the call by definition.
LEMMA FeedAssembles ==
  ASSUME RInv, Held, NEW f \in Fragments,
         sent' = Append(sent, [kind |-> "tool", frag |-> f]),
         partials' = Feed(partials, f, Len(sent) + 1)
  PROVE  Assembled' /\ DOMAIN partials' = Indices /\ IsFiniteSet(Pending(partials)')
<1> DEFINE line == [kind |-> "tool", frag |-> f]
           i == f.index
           n == Len(sent) + 1
           L == Lines(sent, Current(sent), i)
           old == IF partials[i] = Absent THEN [id |-> Absent, parts |-> <<>>] ELSE partials[i]
           new == [id |-> IF old.id = Absent THEN f.id ELSE old.id,
                   parts |-> IF f.part THEN Append(old.parts, n) ELSE old.parts]
<1>1. /\ line \in Lined /\ line.kind = "tool" /\ line.frag = f /\ sent \in Seq(Lined)
      /\ i \in Indices /\ sent' = Append(sent, line)
  BY DEF Lined, Fragments, RInv
<1>2. partials' = [partials EXCEPT ![i] = new] /\ DOMAIN partials = Indices
  BY DEF Feed, RInv
<1> HIDE DEF line
<1>4. old = CallOf(sent, L)
  <2>1. Fragmented(sent, L)
    BY <1>1, LinesFragmented
  <2>2. L # {} => partials[i] = CallOf(sent, L) /\ CallOf(sent, L) # Absent
    BY <1>1, <2>1, CallType DEF Held, Assembled
  <2>3. L = {} => partials[i] = Absent
    BY <1>1 DEF Held, Assembled
  <2>4. L = {} => CallOf(sent, L) = [id |-> Absent, parts |-> <<>>]
    BY NoLines
  <2> HIDE DEF L
  <2> QED BY <2>2, <2>3, <2>4
<1>5. new = CallOf(sent', L \cup {n})
  <2>1. Fragmented(sent, L)
    BY <1>1, LinesFragmented
  <2> HIDE DEF L, old
  <2>2. CallOf(Append(sent, line), L \cup {Len(sent) + 1})
          = [id |-> IF CallOf(sent, L).id = Absent THEN line.frag.id ELSE CallOf(sent, L).id,
             parts |-> IF line.frag.part THEN Append(CallOf(sent, L).parts, Len(sent) + 1)
                       ELSE CallOf(sent, L).parts]
    BY <1>1, <2>1, CallGrows
  <2>3. CallOf(sent', L \cup {n})
          = [id |-> IF old.id = Absent THEN f.id ELSE old.id,
             parts |-> IF f.part THEN Append(old.parts, n) ELSE old.parts]
    BY <1>1, <1>4, <2>2
  <2> QED BY <2>3
<1>6. Current(sent)' = Current(sent)
  BY <1>1, BatchAppend
<1>7. Lines(sent, Current(sent), i)' = L \cup {n}
  BY <1>1, <1>6, LinesAppend
<1>8. CallOf(sent', L \cup {n}) # Absent
  <2>1. Fragmented(sent', L \cup {n})
    <3>1. sent' \in Seq(Lined)
      BY <1>1
    <3>2. Fragmented(sent', Lines(sent', Current(sent'), i))
      BY <3>1, LinesFragmented
    <3> QED BY <1>7, <3>2
  <2>2. sent' \in Seq(Lined)
    BY <1>1
  <2> QED BY <2>1, <2>2, CallType
<1> HIDE DEF new, L, i, n
<1>9. partials'[i] = new /\ \A j \in Indices : j # i => partials'[j] = partials[j]
  BY <1>1, <1>2
<1>10. \A j \in Indices : j # i =>
         /\ Lines(sent, Current(sent), j)' = Lines(sent, Current(sent), j)
         /\ CallOf(sent', Lines(sent, Current(sent), j))
              = CallOf(sent, Lines(sent, Current(sent), j))
  <2> TAKE j \in Indices
  <2>1. j # i => Lines(sent', Current(sent), j) = Lines(sent, Current(sent), j)
    BY <1>1, LinesAppend DEF i
  <2>2. CallOf(sent', Lines(sent, Current(sent), j))
              = CallOf(sent, Lines(sent, Current(sent), j))
    BY <1>1, LinesFacts, CallKept
  <2> QED BY <1>6, <2>1, <2>2
<1>11. Assembled'
  <2> SUFFICES ASSUME NEW j \in Indices
               PROVE  partials'[j] = IF Lines(sent', Current(sent'), j) = {} THEN Absent
                                     ELSE CallOf(sent', Lines(sent', Current(sent'), j))
    BY DEF Assembled
  <2>1. CASE j = i
    <3>1. Lines(sent', Current(sent'), i) = L \cup {n}
      BY <1>7
    <3>2. Lines(sent', Current(sent'), i) # {}
      BY <3>1
    <3>3. partials'[i] = CallOf(sent', Lines(sent', Current(sent'), i))
      BY <1>5, <1>9, <3>1
    <3> QED BY <2>1, <3>2, <3>3
  <2>2. CASE j # i
    <3>1. partials[j] = IF Lines(sent, Current(sent), j) = {} THEN Absent
                        ELSE CallOf(sent, Lines(sent, Current(sent), j))
      BY DEF Held, Assembled
    <3>2. /\ Lines(sent', Current(sent'), j) = Lines(sent, Current(sent), j)
          /\ CallOf(sent', Lines(sent, Current(sent), j))
              = CallOf(sent, Lines(sent, Current(sent), j))
      BY <1>10, <2>2
    <3>3. partials'[j] = partials[j]
      BY <1>9, <2>2
    <3> QED BY <3>1, <3>2, <3>3
  <2> QED BY <2>1, <2>2
<1>12. DOMAIN partials' = Indices
  BY <1>2
<1>13. IsFiniteSet(Pending(partials)')
  <2>1. new # Absent
    BY <1>5, <1>8
  <2>2. Pending(partials') = Pending(partials) \cup {i}
    BY <1>1, <1>9, <2>1 DEF Pending
  <2> QED BY <2>2, FS_AddElement DEF RInv
<1> QED BY <1>11, <1>12, <1>13

LEMMA FragmentRInv ==
  ASSUME RInv, phase # "over", NEW f \in Fragments, Fragment(f),
         sent' = Append(sent, [kind |-> "tool", frag |-> f])
  PROVE  RInv'
<1> DEFINE line == [kind |-> "tool", frag |-> f]
<1>1. /\ line \in Lined /\ line.kind = "tool" /\ Says(line) = f.content
      /\ sent \in Seq(Lined) /\ Held
  BY DEF Lined, Says, RInv
<1> HIDE DEF line
<1>2. sent' = Append(sent, line) /\ sent' \in Seq(Lined)
  BY <1>1 DEF line
<1>3. CASE Refused(partials, f)
  BY <1>2, <1>3, FailsRInv DEF Fragment
<1>4. CASE ~Refused(partials, f)
  <2>1. /\ partials' = Feed(partials, f, Len(sent) + 1) /\ Hears(f.content)
        /\ UNCHANGED calls
    BY <1>4 DEF Fragment
  <2>2. Assembled' /\ DOMAIN partials' = Indices /\ IsFiniteSet(Pending(partials)')
    BY <1>1, <2>1, FeedAssembles
  <2>3. Current(sent)' = Current(sent) /\ Current(sent) \in Nat
    BY <1>1, <1>2, BatchAppend, BatchFacts
  <2>4. \A n \in 1..Current(sent) : CallsOf(sent', n - 1) = CallsOf(sent, n - 1)
    <3> TAKE n \in 1..Current(sent)
    <3>1. n - 1 # Current(sent)
      BY <2>3
    <3> QED BY <1>1, <1>2, <3>1, CallsKept
  <2>5. Upto(sent', Current(sent)) = Upto(sent, Current(sent))
    BY <2>4 DEF Upto
  <2>6. calls' = FlattenSeq(Upto(sent', Current(sent')))
    BY <1>1, <2>1, <2>3, <2>5 DEF Held
  <2>7. content' = TextIn(sent)'
    BY <1>1, <1>2, <2>1, HearsText
  <2>8. Held'
    BY <2>2, <2>6, <2>7 DEF Held
  <2> QED BY <1>2, <2>1, <2>2, <2>8, HeardOn DEF RInv
<1> QED BY <1>3, <1>4

LEMMA EmptyFacts == DOMAIN Empty = Indices /\ IsFiniteSet(Pending(Empty))
<1>1. Pending(Empty) = {}
  BY DEF Empty, Pending
<1> QED BY <1>1, FS_EmptySet DEF Empty

LEMMA UsageRInv ==
  ASSUME RInv, phase # "over", Usage, sent' = Append(sent, [kind |-> "usage"])
  PROVE  RInv'
<1> DEFINE line == [kind |-> "usage"]
<1>1. /\ line \in Lined /\ line.kind = "usage" /\ Says(line) = Absent
      /\ sent \in Seq(Lined) /\ Held
  BY DEF Lined, Says, RInv
<1> HIDE DEF line
<1>2. sent' = Append(sent, line) /\ sent' \in Seq(Lined)
  BY <1>1 DEF line
<1>3. CASE Fails
  BY <1>2, <1>3, FailsRInv
<1>4. CASE /\ Whole(partials) /\ calls' = calls \o Flush(partials) /\ partials' = Empty
           /\ Hears(Absent)
  <2>1. calls' = FlattenSeq(Upto(sent, Current(sent) + 1))
    BY <1>1, <1>4, FlushedCalls
  <2>2. Current(sent') = Current(sent) + 1
    BY <1>1, <1>2, BatchAppend
  <2>3. \A b : CallsOf(sent', b) = CallsOf(sent, b)
    BY <1>1, <1>2, CallsKept
  <2>4. calls' = FlattenSeq(Upto(sent', Current(sent')))
    <3>1. Upto(sent', Current(sent) + 1) = Upto(sent, Current(sent) + 1)
      BY <2>3 DEF Upto
    <3> QED BY <2>1, <2>2, <3>1
  <2>5. \A i : Lines(sent', Current(sent'), i) = {}
    BY <1>1, <1>2, <2>2, LinesAppend, LinesFacts
  <2>6. \A i \in Indices : partials'[i] = Absent
    BY <1>4 DEF Empty
  <2>7. Assembled'
    BY <2>5, <2>6 DEF Assembled
  <2>8. content' = TextIn(sent)'
    BY <1>1, <1>2, <1>4, HearsText
  <2>9. Held'
    BY <2>4, <2>7, <2>8 DEF Held
  <2>10. DOMAIN partials' = Indices /\ IsFiniteSet(Pending(partials)')
    <3>1. Pending(partials)' = Pending(Empty)
      BY <1>4 DEF Pending
    <3> QED BY <1>4, <3>1, EmptyFacts
  <2> QED BY <1>2, <1>4, <2>9, <2>10, HeardOn DEF RInv
<1> QED BY <1>3, <1>4 DEF Usage

LEMMA EndsRInv == ASSUME RInv, phase # "over", Ends, UNCHANGED sent PROVE RInv'
<1>1. Held /\ sent \in Seq(Lined) /\ sent' = sent
  BY DEF RInv
<1>2. CASE Fails
  BY <1>1, <1>2, FailsRInv
<1>3. CASE /\ Whole(partials) /\ calls' = calls \o Flush(partials) /\ partials' = Empty
           /\ Over("reply") /\ UNCHANGED content
  <2>1. calls' = FlattenSeq(Upto(sent, Current(sent) + 1))
    BY <1>1, <1>3, FlushedCalls
  <2>2. CallsIn(sent) = FlattenSeq(Upto(sent, Current(sent) + 1))
    BY DEF CallsIn, Batches, Upto, Current
  <2>3. CallsIn(sent)' = CallsIn(sent) /\ TextIn(sent)' = TextIn(sent)
    BY <1>1
  <2>4. ReplyIsWhole'
    BY <1>1, <1>3, <2>1, <2>2, <2>3 DEF ReplyIsWhole, Held
  <2>5. DOMAIN partials' = Indices /\ IsFiniteSet(Pending(partials)')
    <3>1. Pending(partials)' = Pending(Empty)
      BY <1>3 DEF Pending
    <3> QED BY <1>3, <3>1, EmptyFacts
  <2>6. phase' = "over"
    BY <1>3 DEF Over
  <2> QED BY <1>1, <2>4, <2>5, <2>6 DEF RInv
<1> QED BY <1>2, <1>3 DEF Ends

LEMMA StepRInv == RInv /\ [ReplyNext]_replyVars => RInv'
<1> SUFFICES ASSUME RInv, [ReplyNext]_replyVars PROVE RInv'
  OBVIOUS
<1>1. sent \in Seq(Lined)
  BY DEF RInv
<1>2. CASE Line
  <2>1. phase # "over"
    BY <1>2 DEF Line, Running
  <2> QED BY <1>2, <2>1, ContentRInv, FragmentRInv, UsageRInv DEF Line
<1>3. CASE LastLine
  BY <1>3, EndsRInv DEF LastLine, Running
<1>4. CASE Breaks \/ Silence
  BY <1>1, <1>4, FailsRInv DEF Breaks, Silence
<1>5. CASE Cancel
  BY <1>1, <1>5, Overs DEF Cancel, Over
<1>6. CASE UNCHANGED <<sent, partials, content, calls>> /\ UNCHANGED outcome /\ phase # "over"
  BY <1>6 DEF RInv, Held, Assembled, ReplyIsWhole, Pending
<1>7. CASE Deadline
  <2>1. CASE attempt = 1
    BY <1>6, <1>7, <2>1 DEF Deadline
  <2>2. CASE attempt # 1
    BY <1>1, <1>7, <2>2, Overs DEF Deadline, Over
  <2> QED BY <2>1, <2>2
<1>8. CASE Retry
  BY <1>6, <1>8 DEF Retry
<1>9. CASE UNCHANGED replyVars
  BY <1>9 DEF replyVars, RInv, Held, Assembled, ReplyIsWhole, Pending
<1> QED BY <1>2, <1>3, <1>4, <1>5, <1>7, <1>8, <1>9 DEF ReplyNext

\* However the gateway cuts, mixes and repeats the fragments of its calls, and however the
\* request was retried, a reply that completes holds every call and every character it
\* sent (_ToolCallAssembler, _forward_events, _ingest_event).
THEOREM ReplyKept == ReplySpec => []ReplyIsWhole
<1>1. RInv => ReplyIsWhole
  BY DEF RInv
<1> QED BY <1>1, InitRInv, StepRInv, PTL DEF ReplySpec

-----------------------------------------------------------------------------
(* FlattenSeq of sequences over X.                                         *)

LEMMA Associative ==
  ASSUME NEW X, NEW a \in Seq(X), NEW b \in Seq(X), NEW c \in Seq(X)
  PROVE  (a \o b) \o c = a \o (b \o c)
BY ConcatAssociative, SMTT(30)

LEMMA FlattenEmpty == FlattenSeq(<<>>) = <<>>
BY DEF FlattenSeq

LEMMA FlattenSnoc ==
  ASSUME NEW X, NEW ss \in Seq(Seq(X)), NEW x \in Seq(X)
  PROVE  FlattenSeq(Append(ss, x)) = FlattenSeq(ss) \o x
<1>1. CASE ss = <<>>
  <2>1. Append(ss, x) = <<x>>
    BY <1>1
  <2> QED BY <1>1, <2>1, FlattenEmpty, FlattenOne, ConcatEmptySeq
<1>2. CASE ss # <<>>
  BY <1>2, FlattenAppend
<1> QED BY <1>1, <1>2

LEMMA FlattenType ==
  ASSUME NEW X, NEW ss \in Seq(Seq(X))
  PROVE  FlattenSeq(ss) \in Seq(X)
<1> DEFINE T == {m \in Nat : \E tt \in Seq(Seq(X)) : Len(tt) = m /\ FlattenSeq(tt) \notin Seq(X)}
<1>1. SUFFICES T = {}
  <2>1. Len(ss) \in Nat
    OBVIOUS
  <2> QED BY <2>1
<1>2. SUFFICES ASSUME T # {} PROVE FALSE
  OBVIOUS
<1>3. PICK m \in T : \A k \in T : m <= k
  BY <1>2, Least
<1>4. PICK tt \in Seq(Seq(X)) : Len(tt) = m /\ FlattenSeq(tt) \notin Seq(X)
  OBVIOUS
<1>5. tt # <<>>
  BY <1>4, FlattenEmpty, EmptySeq
<1>6. PICK u \in Seq(Seq(X)), x \in Seq(X) : tt = Append(u, x)
  BY <1>5, SequenceEmptyOrAppend
<1>7. Len(u) \in Nat /\ Len(u) < m
  BY <1>4, <1>6
<1>8. FlattenSeq(u) \in Seq(X)
  BY <1>3, <1>7
<1>9. FlattenSeq(tt) = FlattenSeq(u) \o x
  BY <1>6, FlattenSnoc
<1> QED BY <1>4, <1>8, <1>9, ConcatProperties

LEMMA FlattenConcat ==
  ASSUME NEW X, NEW ss \in Seq(Seq(X)), NEW tt \in Seq(Seq(X))
  PROVE  FlattenSeq(ss \o tt) = FlattenSeq(ss) \o FlattenSeq(tt)
<1>0. \A p, q, x \in Seq(X) : (p \o q) \o x = p \o (q \o x)
  BY ConcatAssociative, SMTT(30)
<1>a. \A p, q, x \in Seq(Seq(X)) : (p \o q) \o x = p \o (q \o x)
  <2> DEFINE Y == Seq(X)
  <2> HIDE DEF Y
  <2>1. \A p, q, x \in Seq(Y) : (p \o q) \o x = p \o (q \o x)
    BY ConcatAssociative, SMTT(30)
  <2> QED BY <2>1 DEF Y
<1> DEFINE Holds(v) == FlattenSeq(ss \o v) = FlattenSeq(ss) \o FlattenSeq(v)
           T == {m \in Nat : \E v \in Seq(Seq(X)) : Len(v) = m /\ ~Holds(v)}
<1>1. SUFFICES T = {}
  <2>1. Len(tt) \in Nat
    OBVIOUS
  <2> QED BY <2>1
<1>2. SUFFICES ASSUME T # {} PROVE FALSE
  OBVIOUS
<1>3. PICK m \in T : \A k \in T : m <= k
  <2> HIDE DEF Holds
  <2> QED BY <1>2, Least
<1>4. PICK v \in Seq(Seq(X)) : Len(v) = m /\ ~Holds(v)
  OBVIOUS
<1>5. v # <<>>
  <2>1. SUFFICES ASSUME v = <<>> PROVE FALSE
    OBVIOUS
  <2>2. ss \o v = ss
    BY <2>1, ConcatEmptySeq
  <2>3. FlattenSeq(ss) \o FlattenSeq(v) = FlattenSeq(ss)
    BY <2>1, FlattenEmpty, FlattenType, ConcatEmptySeq
  <2> QED BY <1>4, <2>2, <2>3
<1>6. PICK u \in Seq(Seq(X)), x \in Seq(X) : v = Append(u, x)
  BY <1>5, SequenceEmptyOrAppend
<1>7. Len(u) \in Nat /\ Len(u) < m
  BY <1>4, <1>6
<1>8. Holds(u)
  <2> HIDE DEF Holds
  <2> QED BY <1>3, <1>7
<1>9. ss \o v = Append(ss \o u, x) /\ ss \o u \in Seq(Seq(X))
  <2>1. v = u \o <<x>> /\ <<x>> \in Seq(Seq(X))
    BY <1>6, AppendIsConcat
  <2>2. (ss \o u) \o <<x>> = ss \o (u \o <<x>>)
    <3>1. ss \in Seq(Seq(X)) /\ u \in Seq(Seq(X))
      OBVIOUS
    <3> DEFINE y == <<x>>
    <3>2. y \in Seq(Seq(X))
      BY <2>1
    <3> HIDE DEF y, T, Holds
    <3>3. (ss \o u) \o y = ss \o (u \o y)
      BY <1>a, <3>1, <3>2, ZenonT(30)
    <3> QED BY <3>3 DEF y
  <2>3. ss \o u \in Seq(Seq(X))
    BY ConcatProperties
  <2>4. Append(ss \o u, x) = (ss \o u) \o <<x>>
    BY <2>3, AppendIsConcat
  <2> QED BY <2>1, <2>2, <2>3, <2>4
<1>10. FlattenSeq(ss \o v) = (FlattenSeq(ss) \o FlattenSeq(u)) \o x
  BY <1>8, <1>9, FlattenSnoc, ZenonT(30)
<1>11. FlattenSeq(v) = FlattenSeq(u) \o x
  BY <1>6, FlattenSnoc
<1>12. (FlattenSeq(ss) \o FlattenSeq(u)) \o x = FlattenSeq(ss) \o (FlattenSeq(u) \o x)
  <2>1. FlattenSeq(ss) \in Seq(X) /\ FlattenSeq(u) \in Seq(X)
    BY FlattenType
  <2> DEFINE p == FlattenSeq(ss)
             q == FlattenSeq(u)
  <2>2. p \in Seq(X) /\ q \in Seq(X) /\ x \in Seq(X)
    BY <2>1
  <2> HIDE DEF p, q, T
  <2>3. (p \o q) \o x = p \o (q \o x)
    BY <1>0, <2>2
  <2> QED BY <2>3 DEF p, q
<1> QED BY <1>4, <1>10, <1>11, <1>12

-----------------------------------------------------------------------------
(* What is printed of a text, and what is kept of its pieces, of two parts *)
(* is that of the one after that of the other.                             *)

Marks(words) == [k \in DOMAIN words |-> IF words[k] = Space THEN <<>> ELSE <<words[k]>>]
Blank(w) == \A i \in DOMAIN w : w[i] = Space
Said(w) == IF Strip(w) = <<>> THEN <<>> ELSE <<Strip(w)>>
Keeps(ps) == [k \in DOMAIN ps |-> Said(ps[k])]

LEMMA MarksConcat ==
  ASSUME NEW X, NEW a \in Seq(X), NEW b \in Seq(X)
  PROVE  /\ Marks(a) \in Seq(Seq(X)) /\ Marks(b) \in Seq(Seq(X))
         /\ Marks(a \o b) = Marks(a) \o Marks(b)
<1>1. ASSUME NEW c \in Seq(X)
      PROVE  /\ Marks(c) \in Seq(Seq(X)) /\ Len(Marks(c)) = Len(c)
             /\ \A k \in 1..Len(c) : Marks(c)[k] = IF c[k] = Space THEN <<>> ELSE <<c[k]>>
  <2>1. DOMAIN c = 1..Len(c) /\ Len(c) \in Nat
    OBVIOUS
  <2>2. \A k \in 1..Len(c) : (IF c[k] = Space THEN <<>> ELSE <<c[k]>>) \in Seq(X)
    <3>1. <<>> \in Seq(X) /\ \A x \in X : <<x>> \in Seq(X)
      OBVIOUS
    <3>2. \A k \in 1..Len(c) : c[k] \in X
      BY <1>1
    <3> QED BY <3>1, <3>2
  <2>3. Marks(c) \in [1..Len(c) -> Seq(X)]
    BY <2>1, <2>2 DEF Marks
  <2>4. Marks(c) \in Seq(Seq(X)) /\ Len(Marks(c)) = Len(c)
    BY <2>1, <2>3
  <2> QED BY <2>1, <2>4 DEF Marks
<1>2. /\ a \o b \in Seq(X) /\ Len(a \o b) = Len(a) + Len(b) /\ Len(a) \in Nat /\ Len(b) \in Nat
      /\ \A k \in 1..Len(a) + Len(b) :
           (a \o b)[k] = IF k <= Len(a) THEN a[k] ELSE b[k - Len(a)]
  BY ConcatProperties
<1>3. /\ Marks(a) \o Marks(b) \in Seq(Seq(X))
      /\ Len(Marks(a) \o Marks(b)) = Len(a) + Len(b)
      /\ \A k \in 1..Len(a) + Len(b) :
           (Marks(a) \o Marks(b))[k] = IF k <= Len(a) THEN Marks(a)[k] ELSE Marks(b)[k - Len(a)]
  <2>1. /\ Marks(a) \in Seq(Seq(X)) /\ Len(Marks(a)) = Len(a)
        /\ Marks(b) \in Seq(Seq(X)) /\ Len(Marks(b)) = Len(b)
    BY <1>1
  <2> DEFINE ma == Marks(a)
             mb == Marks(b)
  <2>2. ma \in Seq(Seq(X)) /\ mb \in Seq(Seq(X))
    BY <2>1
  <2>3. Len(ma) = Len(a) /\ Len(mb) = Len(b)
    BY <2>1
  <2> HIDE DEF ma, mb
  <2>4. /\ ma \o mb \in Seq(Seq(X)) /\ Len(ma \o mb) = Len(ma) + Len(mb)
        /\ \A k \in 1..Len(ma) + Len(mb) :
             (ma \o mb)[k] = IF k <= Len(ma) THEN ma[k] ELSE mb[k - Len(ma)]
    BY <2>2, ConcatProperties
  <2>5. /\ ma \o mb \in Seq(Seq(X)) /\ Len(ma \o mb) = Len(a) + Len(b)
        /\ \A k \in 1..Len(a) + Len(b) :
             (ma \o mb)[k] = IF k <= Len(a) THEN ma[k] ELSE mb[k - Len(a)]
    BY <2>3, <2>4
  <2> QED BY <2>5 DEF ma, mb
<1>4. \A k \in 1..Len(a) + Len(b) : Marks(a \o b)[k] = (Marks(a) \o Marks(b))[k]
  <2> TAKE k \in 1..Len(a) + Len(b)
  <2>1. Marks(a \o b)[k] = IF (a \o b)[k] = Space THEN <<>> ELSE <<(a \o b)[k]>>
    BY <1>1, <1>2
  <2>2. CASE k <= Len(a)
    <3>1. k \in 1..Len(a)
      BY <1>2, <2>2
    <3> QED BY <1>1, <1>2, <1>3, <2>1, <2>2, <3>1
  <2>3. CASE ~(k <= Len(a))
    <3>1. k - Len(a) \in 1..Len(b)
      BY <1>2, <2>3
    <3> QED BY <1>1, <1>2, <1>3, <2>1, <2>3, <3>1
  <2> QED BY <2>2, <2>3
<1>5. Marks(a \o b) \in Seq(Seq(X)) /\ Len(Marks(a \o b)) = Len(a) + Len(b)
  BY <1>1, <1>2
<1>6. Marks(a \o b) = Marks(a) \o Marks(b)
  BY <1>3, <1>4, <1>5, SeqEqual
<1> QED BY <1>1, <1>6

LEMMA PrintedConcat ==
  ASSUME NEW X, NEW a \in Seq(X), NEW b \in Seq(X)
  PROVE  /\ Printed(a) \in Seq(X)
         /\ Printed(a \o b) = Printed(a) \o Printed(b)
<1>1. \A c : Printed(c) = FlattenSeq(Marks(c))
  BY DEF Printed, Marks
<1>2. /\ Marks(a) \in Seq(Seq(X)) /\ Marks(b) \in Seq(Seq(X))
      /\ Marks(a \o b) = Marks(a) \o Marks(b)
  BY MarksConcat
<1> QED BY <1>1, <1>2, FlattenType, FlattenConcat

LEMMA PrintedBlank ==
  ASSUME NEW X, NEW a \in Seq(X), Blank(a)
  PROVE  Printed(a) = <<>>
<1> DEFINE T == {m \in Nat : \E c \in Seq(X) : Len(c) = m /\ Blank(c) /\ Printed(c) # <<>>}
<1>1. SUFFICES T = {}
  <2>1. Len(a) \in Nat
    OBVIOUS
  <2> QED BY <2>1
<1>2. SUFFICES ASSUME T # {} PROVE FALSE
  OBVIOUS
<1>3. PICK m \in T : \A k \in T : m <= k
  BY <1>2, Least
<1>4. m \in Nat /\ \E c \in Seq(X) : Len(c) = m /\ Blank(c) /\ Printed(c) # <<>>
  OBVIOUS
<1>40. PICK c \in Seq(X) : Len(c) = m /\ Blank(c) /\ Printed(c) # <<>>
  BY <1>4
<1>5. c # <<>>
  <2>1. Marks(<<>>) = <<>>
    BY DEF Marks
  <2>2. Printed(<<>>) = <<>>
    BY <2>1, FlattenEmpty DEF Printed, Marks
  <2> QED BY <1>40, <2>2
<1>6. PICK u \in Seq(X), x \in X : c = Append(u, x)
  BY <1>5, SequenceEmptyOrAppend
<1>7. Blank(u) /\ x = Space /\ Len(u) \in Nat /\ Len(u) < m
  <2>1. /\ DOMAIN c = 1..(Len(u) + 1) /\ DOMAIN u = 1..Len(u) /\ Len(u) \in Nat
        /\ \A k \in 1..Len(u) : c[k] = u[k]
        /\ c[Len(u) + 1] = x /\ Len(c) = Len(u) + 1
    BY <1>6
  <2>2. \A k \in 1..(Len(u) + 1) : c[k] = Space
    BY <1>40, <2>1 DEF Blank
  <2>3. Len(u) + 1 \in 1..(Len(u) + 1) /\ \A k \in 1..Len(u) : k \in 1..(Len(u) + 1)
    BY <2>1
  <2>4. x = Space /\ \A k \in 1..Len(u) : u[k] = Space
    BY <2>1, <2>2, <2>3
  <2>5. Blank(u)
    BY <2>1, <2>4 DEF Blank
  <2>6. Len(u) < m
    BY <1>40, <2>1
  <2> QED BY <2>1, <2>4, <2>5, <2>6
<1>8. Printed(u) = <<>>
  <2>1. ~(m <= Len(u)) /\ Len(u) \in Nat
    BY <1>4, <1>7
  <2>2. Len(u) \notin T
    BY <1>3, <2>1
  <2> QED BY <1>7, <2>2
<1>9. Printed(<<x>>) = <<>>
  <2>1. Marks(<<x>>) = << <<>> >>
    <3> DEFINE one == <<x>>
    <3>0. one[1] = x /\ DOMAIN one = 1..1
      OBVIOUS
    <3>1. one[1] = Space /\ DOMAIN one = 1..1
      BY <1>7, <3>0
    <3> HIDE DEF one
    <3>2. \A k \in 1..1 : one[k] = Space
      BY <3>1
    <3>3. Marks(one) = [k \in 1..1 |-> <<>>]
      BY <3>1, <3>2 DEF Marks
    <3>4. \A y : [k \in 1..1 |-> y] = <<y>>
      OBVIOUS
    <3>5. Marks(one) = << <<>> >>
      BY <3>3, <3>4, Zenon
    <3> QED BY <3>5 DEF one
  <2> QED BY <2>1, FlattenOne DEF Printed, Marks
<1>10. c = u \o <<x>> /\ <<x>> \in Seq(X)
  BY <1>6, AppendIsConcat
<1>11. Printed(c) = Printed(u) \o Printed(<<x>>)
  BY <1>10, PrintedConcat
<1> QED BY <1>40, <1>8, <1>9, <1>11

LEMMA MaxFacts ==
  ASSUME NEW m \in Nat, NEW S \in SUBSET (0..m), S # {}
  PROVE  Max(S) \in S /\ \A y \in S : y <= Max(S)
<1> DEFINE T == {m - x : x \in S}
<1>1. T \in SUBSET Nat /\ T # {}
  <2>1. \A x \in S : x \in 0..m
    OBVIOUS
  <2>2. \A x \in S : m - x \in Nat
    BY <2>1
  <2>3. PICK x \in S : TRUE
    OBVIOUS
  <2> QED BY <2>2, <2>3
<1>2. PICK n \in T : \A k \in T : n <= k
  <2> HIDE DEF T
  <2> QED BY <1>1, Least
<1>3. PICK x \in S : n = m - x
  OBVIOUS
<1>4. \A y \in S : m - y \in T
  OBVIOUS
<1>5. \A y \in S : m - x <= m - y
  BY <1>2, <1>3, <1>4
<1>6. \A y \in S : y <= x
  BY <1>5
<1> QED BY <1>6 DEF Max

\* What strip takes off does not print.
LEMMA StripPrints ==
  ASSUME NEW X, NEW w \in Seq(X)
  PROVE  /\ Strip(w) \in Seq(X) /\ Printed(Strip(w)) = Printed(w)
         /\ Said(w) \in Seq(Seq(X)) /\ Printed(FlattenSeq(Said(w))) = Printed(w)
<1> DEFINE I == Inked(w)
           n == Len(w)
<1>1. n \in Nat /\ DOMAIN w = 1..n /\ I \subseteq 1..n
  BY DEF Inked
<1>2. \A i \in 1..n : i \notin I => w[i] = Space
  BY <1>1 DEF Inked
<1>3. Printed(<<>>) = <<>> /\ <<>> \in Seq(X)
  BY FlattenEmpty DEF Printed
<1>4. Strip(w) \in Seq(X) /\ Printed(Strip(w)) = Printed(w)
  <2>1. CASE I = {}
    <3>1. Blank(w)
      BY <1>1, <1>2, <2>1 DEF Blank
    <3>2. Printed(w) = <<>>
      BY <3>1, PrintedBlank
    <3>3. Strip(w) = <<>>
      BY <2>1 DEF Strip
    <3> QED BY <1>3, <3>2, <3>3
  <2>2. CASE I # {}
    <3> DEFINE a == Min(I)
               b == Max(I)
    <3>1. a \in I /\ \A i \in I : a <= i
      <4>1. I \subseteq Nat
        BY <1>1
      <4> HIDE DEF I
      <4> QED BY <2>2, <4>1, MinFacts
    <3>2. b \in I /\ \A i \in I : i <= b
      <4>1. I \in SUBSET (0..n)
        BY <1>1
      <4> HIDE DEF I
      <4> QED BY <1>1, <2>2, <4>1, MaxFacts
    <3>3. Strip(w) = SubSeq(w, a, b)
      BY <2>2 DEF Strip
    <3> HIDE DEF a, b, I, n
    <3>4. a \in 1..n /\ b \in 1..n /\ a <= b
      BY <1>1, <3>1, <3>2
    <3> DEFINE lead == SubSeq(w, 1, a - 1)
               core == SubSeq(w, a, b)
               tail == SubSeq(w, b + 1, n)
    <3>5. /\ lead \in Seq(X) /\ Len(lead) = a - 1 /\ DOMAIN lead = 1..(a - 1)
          /\ \A i \in 1..(a - 1) : lead[i] = w[i]
      BY <1>1, <3>4 DEF n
    <3>6. /\ core \in Seq(X) /\ Len(core) = b - a + 1
          /\ \A i \in 1..(b - a + 1) : core[i] = w[a + i - 1]
      BY <1>1, <3>4 DEF n
    <3>7. /\ tail \in Seq(X) /\ Len(tail) = n - b /\ DOMAIN tail = 1..(n - b)
          /\ \A i \in 1..(n - b) : tail[i] = w[b + i]
      <4>1. \A i \in (b + 1)..n : w[i] \in X
        BY <1>1, <3>4 DEF n
      <4>2. /\ tail \in Seq(X) /\ Len(tail) = IF b + 1 <= n THEN n - (b + 1) + 1 ELSE 0
            /\ \A i \in 1..(n - (b + 1) + 1) : tail[i] = w[(b + 1) + i - 1]
        BY <1>1, <3>4, <4>1, SubSeqProperties
      <4>3. Len(tail) = n - b
        BY <1>1, <3>4, <4>2
      <4>4. \A i \in 1..(n - b) : i \in 1..(n - (b + 1) + 1) /\ (b + 1) + i - 1 = b + i
        BY <1>1, <3>4
      <4> HIDE DEF tail
      <4> QED BY <4>2, <4>3, <4>4
    <3> HIDE DEF lead, core, tail
    <3>8. Blank(lead)
      <4>1. \A i \in 1..(a - 1) : i \in 1..n /\ ~(a <= i)
        BY <1>1, <3>4
      <4> QED BY <1>2, <3>1, <3>5, <4>1 DEF Blank
    <3>9. Blank(tail)
      <4>1. \A i \in 1..(n - b) : b + i \in 1..n /\ ~(b + i <= b)
        BY <1>1, <3>4
      <4> QED BY <1>2, <3>2, <3>7, <4>1 DEF Blank
    <3>10. Printed(lead) = <<>> /\ Printed(tail) = <<>>
      BY <3>5, <3>7, <3>8, <3>9, PrintedBlank
    <3>11. /\ core \o tail \in Seq(X) /\ Len(core \o tail) = n - a + 1
           /\ \A i \in 1..(n - a + 1) : (core \o tail)[i] = w[a + i - 1]
      <4>1. /\ core \o tail \in Seq(X) /\ Len(core \o tail) = Len(core) + Len(tail)
            /\ \A i \in 1..Len(core) + Len(tail) :
                 (core \o tail)[i] = IF i <= Len(core) THEN core[i] ELSE tail[i - Len(core)]
        BY <3>6, <3>7, ConcatProperties
      <4>2. Len(core) + Len(tail) = n - a + 1
        BY <1>1, <3>4, <3>6, <3>7
      <4>3. ASSUME NEW i \in 1..(n - a + 1) PROVE (core \o tail)[i] = w[a + i - 1]
        <5>1. CASE i <= b - a + 1
          BY <1>1, <3>4, <3>6, <4>1, <4>2, <5>1
        <5>2. CASE ~(i <= b - a + 1)
          <6>1. i - (b - a + 1) \in 1..(n - b) /\ b + (i - (b - a + 1)) = a + i - 1
            BY <1>1, <3>4, <5>2
          <6> QED BY <3>6, <3>7, <4>1, <4>2, <5>2, <6>1
        <5> QED BY <5>1, <5>2
      <4> QED BY <4>1, <4>2, <4>3
    <3>12. w = lead \o (core \o tail)
      <4>1. /\ lead \o (core \o tail) \in Seq(X)
            /\ Len(lead \o (core \o tail)) = Len(lead) + Len(core \o tail)
            /\ \A i \in 1..Len(lead) + Len(core \o tail) :
                 (lead \o (core \o tail))[i]
                   = IF i <= Len(lead) THEN lead[i] ELSE (core \o tail)[i - Len(lead)]
        BY <3>5, <3>11, ConcatProperties
      <4>2. Len(lead) + Len(core \o tail) = n
        BY <1>1, <3>4, <3>5, <3>11
      <4>3. ASSUME NEW i \in 1..n PROVE (lead \o (core \o tail))[i] = w[i]
        <5>1. CASE i <= a - 1
          BY <1>1, <3>4, <3>5, <4>1, <4>2, <5>1
        <5>2. CASE ~(i <= a - 1)
          <6>1. i - (a - 1) \in 1..(n - a + 1) /\ a + (i - (a - 1)) - 1 = i
            BY <1>1, <3>4, <5>2
          <6> QED BY <3>5, <3>11, <4>1, <4>2, <5>2, <6>1
        <5> QED BY <5>1, <5>2
      <4> QED BY <4>1, <4>2, <4>3, SeqEqual DEF n
    <3>13. /\ Printed(w) = Printed(lead) \o (Printed(core) \o Printed(tail))
           /\ Printed(core) \in Seq(X)
      <4>1. Printed(lead \o (core \o tail)) = Printed(lead) \o Printed(core \o tail)
        BY <3>5, <3>11, PrintedConcat
      <4>2. Printed(core \o tail) = Printed(core) \o Printed(tail) /\ Printed(core) \in Seq(X)
        BY <3>6, <3>7, PrintedConcat
      <4> QED BY <3>12, <4>1, <4>2
    <3> DEFINE out == Printed(core)
    <3>14. out \in Seq(X)
      BY <3>13
    <3> HIDE DEF out
    <3>15. <<>> \o (out \o <<>>) = out
      BY <3>14
    <3>16. Printed(w) = Printed(core)
      BY <3>10, <3>13, <3>15 DEF out
    <3>17. Strip(w) = core
      BY <3>3 DEF core
    <3> QED BY <3>6, <3>16, <3>17
  <2> QED BY <2>1, <2>2
<1>5. CASE Strip(w) = <<>>
  BY <1>3, <1>4, <1>5, FlattenEmpty DEF Said
<1>6. CASE Strip(w) # <<>>
  BY <1>4, <1>6, FlattenOne DEF Said
<1> QED BY <1>4, <1>5, <1>6

LEMMA KeepsFirst ==
  ASSUME NEW X, NEW w \in Seq(X), NEW ps \in Seq(Seq(X))
  PROVE  /\ Kept(ps) \in Seq(Seq(X))
         /\ Kept(<<w>> \o ps) = Said(w) \o Kept(ps)
<1>1. \A qs : Kept(qs) = FlattenSeq(Keeps(qs))
  BY DEF Kept, Keeps, Said
<1>2. /\ DOMAIN ps = 1..Len(ps) /\ Len(ps) \in Nat /\ \A k \in 1..Len(ps) : ps[k] \in Seq(X)
      /\ DOMAIN (<<w>> \o ps) = 1..(Len(ps) + 1) /\ (<<w>> \o ps)[1] = w
      /\ \A k \in 1..Len(ps) : (<<w>> \o ps)[k + 1] = ps[k]
  OBVIOUS
<1> DEFINE first == Said(w)
<1>3. first \in Seq(Seq(X)) /\ <<first>> \in Seq(Seq(Seq(X)))
  <2>1. first \in Seq(Seq(X))
    BY StripPrints
  <2> HIDE DEF first
  <2> QED BY <2>1
<1>4. /\ Keeps(ps) \in Seq(Seq(Seq(X))) /\ Len(Keeps(ps)) = Len(ps)
      /\ \A k \in 1..Len(ps) : Keeps(ps)[k] = Said(ps[k])
  <2>1. \A k \in 1..Len(ps) : Said(ps[k]) \in Seq(Seq(X))
    BY <1>2, StripPrints
  <2>2. Keeps(ps) \in [1..Len(ps) -> Seq(Seq(X))]
    BY <1>2, <2>1 DEF Keeps
  <2> QED BY <1>2, <2>2 DEF Keeps
<1> DEFINE all == <<w>> \o ps
<1>5. /\ DOMAIN Keeps(all) = 1..(Len(ps) + 1) /\ Keeps(all)[1] = first
      /\ \A k \in 1..Len(ps) : Keeps(all)[k + 1] = Keeps(ps)[k]
  <2>1. /\ DOMAIN all = 1..(Len(ps) + 1) /\ all[1] = w
        /\ \A k \in 1..Len(ps) : all[k + 1] = ps[k]
    BY <1>2
  <2>2. 1 \in 1..(Len(ps) + 1) /\ \A k \in 1..Len(ps) : k + 1 \in 1..(Len(ps) + 1)
    BY <1>2
  <2> HIDE DEF all
  <2> QED BY <1>4, <2>1, <2>2 DEF Keeps
<1> HIDE DEF all, first
<1>6. /\ <<first>> \o Keeps(ps) \in Seq(Seq(Seq(X)))
      /\ Len(<<first>> \o Keeps(ps)) = Len(ps) + 1
      /\ (<<first>> \o Keeps(ps))[1] = first
      /\ \A k \in 1..Len(ps) : (<<first>> \o Keeps(ps))[k + 1] = Keeps(ps)[k]
  BY <1>2, <1>3, <1>4
<1>7. \A k \in 1..(Len(ps) + 1) : Keeps(all)[k] = (<<first>> \o Keeps(ps))[k]
  <2> TAKE k \in 1..(Len(ps) + 1)
  <2>1. k = 1 \/ (k - 1 \in 1..Len(ps) /\ (k - 1) + 1 = k)
    BY <1>2
  <2> QED BY <1>5, <1>6, <2>1
<1>8. Keeps(all) \in Seq(Seq(Seq(X))) /\ Len(Keeps(all)) = Len(ps) + 1
  <2>1. \A k \in 1..(Len(ps) + 1) : Keeps(all)[k] \in Seq(Seq(X))
    BY <1>6, <1>7, ElementOfSeq
  <2>2. Keeps(all) = [k \in DOMAIN Keeps(all) |-> Keeps(all)[k]]
    BY DEF Keeps
  <2>3. Keeps(all) \in [1..(Len(ps) + 1) -> Seq(Seq(X))]
    BY <1>5, <2>1, <2>2
  <2> QED BY <1>2, <2>3
<1>9. Keeps(all) = <<first>> \o Keeps(ps)
  BY <1>6, <1>7, <1>8, SeqEqual
<1>10. FlattenSeq(Keeps(all)) = FlattenSeq(<<first>>) \o FlattenSeq(Keeps(ps))
  BY <1>3, <1>4, <1>9, FlattenConcat
<1>11. FlattenSeq(<<first>>) = first
  BY FlattenOne
<1>12. Kept(ps) \in Seq(Seq(X))
  BY <1>1, <1>4, FlattenType
<1> QED BY <1>1, <1>10, <1>11, <1>12 DEF all, first

-----------------------------------------------------------------------------
(* Where the chunker cuts.                                                 *)

LEMMA ExtendFacts ==
  ASSUME NEW X, NEW buf \in Seq(X), NEW cut \in 1..Len(buf)
  PROVE  /\ ExtendCut(buf, cut) \in cut..Len(buf)
         /\ \A i \in (cut + 1)..ExtendCut(buf, cut) : buf[i] \in Attaches
         /\ CharAt(buf, ExtendCut(buf, cut) + 1) \notin Attaches
<1> DEFINE T == {n \in cut..Len(buf) : CharAt(buf, n + 1) \notin Attaches}
<1>1. Len(buf) \in Nat /\ DOMAIN buf = 1..Len(buf)
  OBVIOUS
<1>2. Len(buf) \in T
  <2>1. Len(buf) + 1 \notin DOMAIN buf
    BY <1>1
  <2>2. CharAt(buf, Len(buf) + 1) \notin Attaches
    BY <2>1 DEF CharAt, Attaches
  <2> QED BY <1>1, <2>2
<1>3. T \subseteq Nat
  BY <1>1
<1>4. PICK n \in T : \A k \in T : n <= k
  <2> HIDE DEF T
  <2> QED BY <1>2, <1>3, Least
<1>5. \A i \in (cut + 1)..n : buf[i] \in Attaches
  <2> SUFFICES ASSUME NEW i \in (cut + 1)..n PROVE buf[i] \in Attaches
    OBVIOUS
  <2>1. i - 1 \in cut..Len(buf) /\ ~(n <= i - 1) /\ i \in DOMAIN buf /\ (i - 1) + 1 = i
    BY <1>1
  <2>2. CharAt(buf, i) \in Attaches
    BY <1>4, <2>1
  <2> QED BY <2>1, <2>2 DEF CharAt
<1>6. /\ n \in cut..Len(buf) /\ CharAt(buf, n + 1) \notin Attaches
  OBVIOUS
<1> QED BY <1>5, <1>6 DEF ExtendCut

Ends1(buf, i) == buf[i] = "!" \/ (buf[i] = "." /\ IsTerminalPeriod(buf, i))

LEMMA TerminalFacts ==
  ASSUME NEW X, NEW buf \in Seq(X)
  PROVE  /\ TerminalCut(buf) \in 0..Len(buf)
         /\ TerminalCut(buf) > 0 =>
              \E m \in 1..TerminalCut(buf) :
                Ends1(buf, m) /\ \A i \in (m + 1)..TerminalCut(buf) : buf[i] \in Attaches
<1> DEFINE ends == {i \in DOMAIN buf : Ends1(buf, i)}
<1>1. Len(buf) \in Nat /\ DOMAIN buf = 1..Len(buf)
  OBVIOUS
<1>2. TerminalCut(buf) = IF ends = {} THEN 0 ELSE ExtendCut(buf, Min(ends))
  BY DEF TerminalCut, Ends1
<1>3. ends # {} => Min(ends) \in ends /\ Min(ends) \in 1..Len(buf) /\ Ends1(buf, Min(ends))
  <2>1. ends \subseteq Nat /\ ends \subseteq 1..Len(buf)
    BY <1>1
  <2>2. ends # {} => Min(ends) \in ends
    <3> HIDE DEF ends
    <3> QED BY <2>1, MinFacts
  <2> QED BY <2>1, <2>2
<1> HIDE DEF ends
<1>4. CASE ends = {}
  BY <1>1, <1>2, <1>4
<1>5. CASE ends # {}
  <2> DEFINE m == Min(ends)
             c == ExtendCut(buf, m)
  <2>1. m \in 1..Len(buf) /\ Ends1(buf, m)
    BY <1>3, <1>5
  <2>2. c \in m..Len(buf) /\ \A i \in (m + 1)..c : buf[i] \in Attaches
    BY <2>1, ExtendFacts
  <2>3. TerminalCut(buf) = c
    BY <1>2, <1>5
  <2> HIDE DEF m, c
  <2>4. c \in 0..Len(buf) /\ m \in 1..c
    BY <1>1, <2>1, <2>2
  <2> QED BY <2>1, <2>2, <2>3, <2>4
<1> QED BY <1>4, <1>5

LEMMA CutFacts ==
  ASSUME NEW X, NEW buf \in Seq(X)
  PROVE  /\ NextCut(buf) \in 0..Len(buf)
         /\ Len(buf) <= MAX_SENTENCE_CHARS => NextCut(buf) = TerminalCut(buf)
<1>1. TerminalCut(buf) \in 0..Len(buf) /\ Len(buf) \in Nat
  BY TerminalFacts
<1>2. MAX_SENTENCE_CHARS \in Nat \ {0}
  BY ChunkerAssumption
<1>3. \A c : RightMost(buf, c) \in 0..MAX_SENTENCE_CHARS
  <2> SUFFICES ASSUME NEW c PROVE RightMost(buf, c) \in 0..MAX_SENTENCE_CHARS
    OBVIOUS
  <2> DEFINE S == {0} \union {i \in 1..MAX_SENTENCE_CHARS : buf[i] = c}
  <2>1. S \in SUBSET (0..MAX_SENTENCE_CHARS) /\ S # {}
    BY <1>2
  <2>2. Max(S) \in S
    <3> HIDE DEF S
    <3> QED BY <1>2, <2>1, MaxFacts
  <2> QED BY <2>1, <2>2 DEF RightMost
<1>4. OverflowCut(buf) \in 1..MAX_SENTENCE_CHARS
  <2> DEFINE r == RightMost(buf, ",")
             q == RightMost(buf, Space)
  <2>1. r \in 0..MAX_SENTENCE_CHARS /\ q \in 0..MAX_SENTENCE_CHARS
    BY <1>3
  <2>2. OverflowCut(buf) = IF r > 1 THEN r ELSE IF q > 1 THEN q - 1 ELSE MAX_SENTENCE_CHARS
    BY DEF OverflowCut
  <2> HIDE DEF r, q
  <2> QED BY <1>2, <2>1, <2>2
<1> QED BY <1>1, <1>2, <1>4 DEF NextCut

\* A piece that was not forced does not end inside a number.
LEMMA NoSplit ==
  ASSUME NEW X, NEW buf \in Seq(X), TerminalCut(buf) > 0, NEW w,
         w = SubSeq(buf, 1, TerminalCut(buf))
  PROVE  TerminalCut(buf) < Len(buf) =>
           ~(EndsIn(w, <<"1", ".">>) /\ buf[TerminalCut(buf) + 1] = "1")
<1> DEFINE c == TerminalCut(buf)
<1>1. c \in 1..Len(buf) /\ Len(buf) \in Nat /\ DOMAIN buf = 1..Len(buf)
  BY TerminalFacts
<1>2. PICK m \in 1..c : Ends1(buf, m) /\ \A i \in (m + 1)..c : buf[i] \in Attaches
  BY TerminalFacts
<1>3. w \in Seq(X) /\ Len(w) = c /\ DOMAIN w = 1..c /\ \A i \in 1..c : w[i] = buf[i]
  BY <1>1
<1> HIDE DEF c
<1>4. buf[m] \in {"!", "."}
  BY <1>2 DEF Ends1
<1>5. ASSUME c < Len(buf), EndsIn(w, <<"1", ".">>), buf[c + 1] = "1" PROVE FALSE
  <2>1. c >= 2 /\ SubSeq(w, c - 2 + 1, c) = <<"1", ".">>
    BY <1>3, <1>5 DEF EndsIn
  <2>2. w[c - 1] = "1" /\ w[c] = "."
    <3> DEFINE v == SubSeq(w, c - 2 + 1, c)
    <3>1. v[1] = w[c - 1] /\ v[2] = w[c]
      BY <1>1, <1>3, <2>1
    <3>2. v = <<"1", ".">>
      BY <2>1
    <3> HIDE DEF v
    <3>3. v[1] = "1" /\ v[2] = "."
      BY <3>2
    <3> QED BY <3>1, <3>3
  <2>3. buf[c - 1] = "1" /\ buf[c] = "."
    BY <1>1, <1>3, <2>1, <2>2
  <2>4. CASE m = c
    <3>1. IsTerminalPeriod(buf, c)
      BY <1>2, <2>3, <2>4 DEF Ends1
    <3>2. c + 1 \in DOMAIN buf
      BY <1>1, <1>5
    <3>3. CharAt(buf, c + 1) = "1"
      BY <1>5, <3>2 DEF CharAt
    <3> QED BY <3>1, <3>3 DEF IsTerminalPeriod
  <2>5. CASE m # c
    <3>1. c - 1 = m \/ c - 1 \in (m + 1)..c
      BY <1>1, <2>5
    <3>2. buf[c - 1] \in {"!", ".", ")"}
      BY <1>2, <1>4, <3>1 DEF Attaches
    <3> QED BY <2>3, <3>2
  <2> QED BY <2>4, <2>5
<1> QED BY <1>5 DEF c

-----------------------------------------------------------------------------
(* The pieces of a text: the recursive function exists, what is kept of    *)
(* them prints as the text does, and they are not cut inside a number.     *)

LEMMA RearFacts ==
  ASSUME NEW X, NEW words \in Seq(X), NEW n \in 0..Len(words)
  PROVE  /\ Rear(words, n) \in Seq(X) /\ Len(Rear(words, n)) = n
         /\ \A i \in 1..n : Rear(words, n)[i] = words[Len(words) - n + i]
<1> DEFINE m == Len(words)
<1>1. m \in Nat /\ n \in Nat /\ n <= m /\ DOMAIN words = 1..m
  OBVIOUS
<1>2. \A i \in 1..m : words[i] \in X
  OBVIOUS
<1>3. Rear(words, n) = SubSeq(words, m - n + 1, m)
  BY DEF Rear
<1>4. SubSeq(words, m - n + 1, m) = [i \in 1..n |-> words[m - n + i]]
  <2>1. m - (m - n + 1) + 1 = n
    BY <1>1
  <2>2. \A i \in 1..n : i + (m - n + 1) - 1 = m - n + i
    BY <1>1
  <2> HIDE DEF m
  <2>3. SubSeq(words, m - n + 1, m) =
          [i \in 1..(m - (m - n + 1) + 1) |-> words[i + (m - n + 1) - 1]]
    BY <1>1
  <2> QED BY <2>1, <2>2, <2>3
<1>5. \A i \in 1..n : words[m - n + i] \in X
  <2>1. \A i \in 1..n : m - n + i \in 1..m
    BY <1>1
  <2> QED BY <1>2, <2>1
<1>6. Rear(words, n) = [i \in 1..n |-> words[m - n + i]]
  BY <1>3, <1>4
<1> HIDE DEF m
<1>7. Rear(words, n) \in [1..n -> X]
  BY <1>5, <1>6
<1>8. Rear(words, n) \in Seq(X) /\ Len(Rear(words, n)) = n
  BY <1>1, <1>7
<1> QED BY <1>6, <1>8 DEF m

LEMMA RearSplits ==
  ASSUME NEW X, NEW words \in Seq(X), NEW n \in 0..Len(words), NEW c \in 0..n
  PROVE  /\ SubSeq(Rear(words, n), 1, c) \in Seq(X)
         /\ Len(SubSeq(Rear(words, n), 1, c)) = c
         /\ \A i \in 1..c : SubSeq(Rear(words, n), 1, c)[i] = Rear(words, n)[i]
         /\ n - c > 0 => Rear(words, n - c)[1] = Rear(words, n)[c + 1]
         /\ Rear(words, n) = SubSeq(Rear(words, n), 1, c) \o Rear(words, n - c)
<1> DEFINE m == Len(words)
           b == Rear(words, n)
           w == SubSeq(b, 1, c)
           r == Rear(words, n - c)
<1>1. m \in Nat /\ n \in Nat /\ n <= m /\ c \in Nat /\ c <= n /\ n - c \in 0..m
  OBVIOUS
<1>2. b \in Seq(X) /\ Len(b) = n /\ \A i \in 1..n : b[i] = words[m - n + i]
  BY RearFacts
<1>3. r \in Seq(X) /\ Len(r) = n - c /\ \A i \in 1..(n - c) : r[i] = words[m - (n - c) + i]
  BY <1>1, RearFacts
<1> HIDE DEF b, r, m
<1>4. w \in Seq(X) /\ Len(w) = c /\ \A i \in 1..c : w[i] = b[i]
  BY <1>1, <1>2
<1>5. n - c > 0 => r[1] = b[c + 1]
  <2> SUFFICES ASSUME n - c > 0 PROVE r[1] = b[c + 1]
    OBVIOUS
  <2>1. 1 \in 1..(n - c) /\ c + 1 \in 1..n /\ m - (n - c) + 1 = m - n + (c + 1)
    BY <1>1
  <2> QED BY <1>2, <1>3, <2>1
<1> HIDE DEF w
<1>6. /\ w \o r \in Seq(X) /\ Len(w \o r) = n
      /\ \A i \in 1..n : (w \o r)[i] = IF i <= c THEN w[i] ELSE r[i - c]
  <2>1. /\ w \o r \in Seq(X) /\ Len(w \o r) = Len(w) + Len(r)
        /\ \A i \in 1..Len(w) + Len(r) :
             (w \o r)[i] = IF i <= Len(w) THEN w[i] ELSE r[i - Len(w)]
    BY <1>3, <1>4, ConcatProperties
  <2>2. Len(w) = c /\ Len(w) + Len(r) = n
    BY <1>1, <1>3, <1>4
  <2> QED BY <2>1, <2>2
<1>7. \A i \in 1..n : (w \o r)[i] = b[i]
  <2> TAKE i \in 1..n
  <2>1. CASE i <= c
    BY <1>1, <1>4, <1>6, <2>1
  <2>2. CASE ~(i <= c)
    <3>1. i - c \in 1..(n - c) /\ m - (n - c) + (i - c) = m - n + i
      BY <1>1, <2>2
    <3> QED BY <1>2, <1>3, <1>6, <2>2, <3>1
  <2> QED BY <2>1, <2>2
<1>8. b = w \o r
  BY <1>2, <1>6, <1>7, SeqEqual
<1> QED BY <1>4, <1>5, <1>8 DEF b, w, r

\* The cut of the last n characters, and the piece it makes.
RearCut(words, n) == NextCut(Rear(words, n))
Piece(words, n) == SubSeq(Rear(words, n), 1, RearCut(words, n))

LEMMA RearCutFacts ==
  ASSUME NEW X, NEW words \in Seq(X), NEW n \in 0..Len(words)
  PROVE  RearCut(words, n) \in 0..n
BY RearFacts, CutFacts DEF RearCut

Drained(words, g, n) ==
  IF n = 0 THEN <<>>
  ELSE IF RearCut(words, n) = 0 THEN <<Rear(words, n)>>
  ELSE <<Piece(words, n)>> \o g[n - RearCut(words, n)]

Drains(words, g) == g = [n \in 0..Len(words) |-> Drained(words, g, n)]

LEMMA DrainExists ==
  ASSUME NEW X, NEW words \in Seq(X)
  PROVE  \E g : Drains(words, g)
<1> DEFINE To(m, g) == g = [n \in 0..m |-> Drained(words, g, n)]
           T == {m \in Nat : m <= Len(words) /\ ~\E g : To(m, g)}
<1>0. Len(words) \in Nat
  OBVIOUS
<1>1. SUFFICES T = {}
  <2>1. \E g : To(Len(words), g)
    BY <1>0, <1>1
  <2> QED BY <2>1 DEF Drains
<1>2. SUFFICES ASSUME T # {} PROVE FALSE
  OBVIOUS
<1>3. PICK m \in T : \A k \in T : m <= k
  <2> HIDE DEF To
  <2> QED BY <1>2, Least
<1>4. m \in Nat /\ m <= Len(words)
  OBVIOUS
<1>5. m # 0
  <2> DEFINE e == [n \in 0..0 |-> <<>>]
  <2>1. \A n \in 0..0 : Drained(words, e, n) = <<>>
    BY DEF Drained
  <2>2. [n \in 0..0 |-> Drained(words, e, n)] = [n \in 0..0 |-> <<>>]
    BY <2>1
  <2>3. To(0, e)
    BY <2>2
  <2>4. 0 \notin T
    BY <2>3
  <2> QED BY <2>4
<1>6. m - 1 \in Nat /\ m - 1 \notin T /\ m - 1 <= Len(words)
  <2>1. m - 1 \in Nat /\ ~(m <= m - 1) /\ m - 1 <= Len(words)
    BY <1>0, <1>4, <1>5
  <2> HIDE DEF T
  <2> QED BY <1>3, <2>1
<1>7. PICK g : To(m - 1, g)
  <2> HIDE DEF To
  <2> QED BY <1>6
<1> DEFINE h == [n \in 0..m |-> IF n = m THEN Drained(words, g, m) ELSE g[n]]
<1>8. \A n \in 0..(m - 1) : g[n] = Drained(words, g, n)
  BY <1>7
<1>9. \A n \in 0..m : Drained(words, h, n) = Drained(words, g, n)
  <2> SUFFICES ASSUME NEW n \in 0..m PROVE Drained(words, h, n) = Drained(words, g, n)
    OBVIOUS
  <2>1. n \in 0..Len(words)
    BY <1>0, <1>4
  <2>2. RearCut(words, n) \in 0..n
    BY <2>1, RearCutFacts
  <2>3. CASE n = 0 \/ RearCut(words, n) = 0
    BY <2>3 DEF Drained
  <2>4. CASE n # 0 /\ RearCut(words, n) # 0
    <3> DEFINE k == n - RearCut(words, n)
    <3>1. k \in 0..m /\ k # m
      BY <1>4, <2>2, <2>4
    <3>2. h[k] = g[k]
      <4> HIDE DEF k
      <4> QED BY <3>1
    <3> HIDE DEF h
    <3> QED BY <2>4, <3>2 DEF Drained
  <2> QED BY <2>3, <2>4
<1>10. \A n \in 0..m : h[n] = Drained(words, h, n)
  <2> SUFFICES ASSUME NEW n \in 0..m PROVE h[n] = Drained(words, g, n)
    BY <1>9
  <2>1. n # m => n \in 0..(m - 1)
    BY <1>4
  <2> QED BY <1>8, <2>1
<1>11. h = [n \in 0..m |-> h[n]]
  OBVIOUS
<1> HIDE DEF h
<1>12. h = [n \in 0..m |-> Drained(words, h, n)]
  BY <1>10, <1>11
<1> QED BY <1>12

Drain(words) == CHOOSE g : Drains(words, g)

LEMMA DrainFacts ==
  ASSUME NEW X, NEW words \in Seq(X)
  PROVE  /\ \A n \in 0..Len(words) : Drain(words)[n] = Drained(words, Drain(words), n)
         /\ Pieces(words) = Drain(words)[Len(words)]
<1>1. Drains(words, Drain(words))
  BY DrainExists DEF Drain
<1>2. Pieces(words) = Drain(words)[Len(words)]
  BY DEF Pieces, Drain, Drains, Drained, RearCut, Piece
<1> QED BY <1>1, <1>2 DEF Drains

LEMMA KeepsOne ==
  ASSUME NEW X, NEW w \in Seq(X)
  PROVE  Kept(<<w>>) = Said(w)
<1>1. Kept(<<>>) = <<>>
  BY FlattenEmpty DEF Kept
<1>2. <<>> \in Seq(Seq(X)) /\ <<w>> \o <<>> = <<w>>
  OBVIOUS
<1>3. Kept(<<w>> \o <<>>) = Said(w) \o <<>>
  BY <1>1, <1>2, KeepsFirst
<1>4. Said(w) \in Seq(Seq(X))
  BY StripPrints
<1>5. Said(w) \o <<>> = Said(w)
  BY <1>4
<1> QED BY <1>2, <1>3, <1>5

\* No piece ends in a digit and a full stop before one that starts with a digit.
Calm(ps) ==
  \A k \in 2..Len(ps) : ~(EndsIn(ps[k - 1], <<"1", ".">>) /\ Head(ps[k]) = "1")

\* The pieces of the last n characters.
Good(X, words, n, ps) ==
  /\ ps \in Seq(Seq(X))
  /\ Printed(FlattenSeq(Kept(ps))) = Printed(Rear(words, n))
  /\ n <= MAX_SENTENCE_CHARS =>
       /\ Calm(ps)
       /\ ps # <<>> => n > 0 /\ Head(Head(ps)) = Rear(words, n)[1]

LEMMA GoodFirst ==
  ASSUME NEW X, NEW words \in Seq(X), NEW n \in 0..Len(words), n > 0,
         RearCut(words, n) > 0, NEW ps, Good(X, words, n - RearCut(words, n), ps)
  PROVE  Good(X, words, n, <<Piece(words, n)>> \o ps)
<1> DEFINE c == RearCut(words, n)
           b == Rear(words, n)
           w == Piece(words, n)
           r == Rear(words, n - c)
           all == <<w>> \o ps
<1>1. c \in 1..n /\ n \in Nat /\ Len(words) \in Nat /\ n - c \in 0..Len(words)
  BY RearCutFacts
<1>2. b \in Seq(X) /\ Len(b) = n
  BY RearFacts
<1>3. r \in Seq(X) /\ Len(r) = n - c
  BY <1>1, RearFacts
<1>4. /\ w \in Seq(X) /\ Len(w) = c /\ (\A i \in 1..c : w[i] = b[i])
      /\ (n - c > 0 => r[1] = b[c + 1]) /\ b = w \o r
  <2>1. c \in 0..n
    BY <1>1
  <2> DEFINE v == SubSeq(b, 1, c)
  <2>2. /\ v \in Seq(X) /\ Len(v) = c /\ (\A i \in 1..c : v[i] = b[i])
        /\ (n - c > 0 => r[1] = b[c + 1]) /\ b = v \o r
    <3> HIDE DEF c
    <3> QED BY <2>1, RearSplits
  <2>3. w = v
    BY DEF Piece
  <2> HIDE DEF c, b, w, r, v
  <2> QED BY <2>2, <2>3
<1>5. /\ ps \in Seq(Seq(X)) /\ Printed(FlattenSeq(Kept(ps))) = Printed(r)
      /\ n - c <= MAX_SENTENCE_CHARS =>
           /\ Calm(ps)
           /\ ps # <<>> => n - c > 0 /\ Head(Head(ps)) = r[1]
  BY DEF Good
<1>6. b # <<>> /\ c = NextCut(b) /\ w = SubSeq(b, 1, c)
  BY <1>2 DEF RearCut, Piece
<1> HIDE DEF c, b, w, r
<1>7. /\ all \in Seq(Seq(X)) /\ Len(all) = Len(ps) + 1 /\ all[1] = w /\ Len(ps) \in Nat
      /\ \A k \in 1..Len(ps) : all[k + 1] = ps[k]
  BY <1>4, <1>5
<1>8. Printed(FlattenSeq(Kept(all))) = Printed(b)
  <2> DEFINE f == FlattenSeq(Said(w))
             q == FlattenSeq(Kept(ps))
  <2>1. Said(w) \in Seq(Seq(X)) /\ Printed(f) = Printed(w)
    BY <1>4, StripPrints
  <2>2. Kept(ps) \in Seq(Seq(X)) /\ Kept(all) = Said(w) \o Kept(ps)
    BY <1>4, <1>5, KeepsFirst
  <2>3. FlattenSeq(Kept(all)) = f \o q /\ f \in Seq(X) /\ q \in Seq(X)
    BY <2>1, <2>2, FlattenConcat, FlattenType
  <2>4. Printed(q) = Printed(r)
    BY <1>5
  <2> HIDE DEF f, q
  <2>5. Printed(f \o q) = Printed(f) \o Printed(q)
    BY <2>3, PrintedConcat
  <2>6. Printed(w \o r) = Printed(w) \o Printed(r)
    BY <1>3, <1>4, PrintedConcat
  <2> QED BY <1>4, <2>1, <2>3, <2>4, <2>5, <2>6
<1>9. Head(Head(all)) = b[1] /\ all # <<>>
  <2>1. w[1] = b[1] /\ Head(w) = w[1]
    BY <1>1, <1>4
  <2>2. Head(all) = all[1] /\ all # <<>>
    BY <1>4, <1>5
  <2> QED BY <1>7, <2>1, <2>2
<1> HIDE DEF all
<1>10. ASSUME n <= MAX_SENTENCE_CHARS PROVE Calm(all)
  <2>0. MAX_SENTENCE_CHARS \in Nat
    BY ChunkerAssumption
  <2>1. c = TerminalCut(b)
    BY <1>2, <1>6, <1>10, CutFacts
  <2>2. c < n => ~(EndsIn(w, <<"1", ".">>) /\ b[c + 1] = "1")
    <3>1. TerminalCut(b) > 0 /\ w = SubSeq(b, 1, TerminalCut(b)) /\ b \in Seq(X)
      BY <1>1, <1>2, <1>6, <2>1
    <3>2. TerminalCut(b) < Len(b) =>
            ~(EndsIn(w, <<"1", ".">>) /\ b[TerminalCut(b) + 1] = "1")
      BY <3>1, NoSplit
    <3> QED BY <1>2, <2>1, <3>2
  <2>3. Calm(ps) /\ (ps # <<>> => n - c > 0 /\ Head(Head(ps)) = r[1])
    <3>1. n - c <= MAX_SENTENCE_CHARS
      BY <1>1, <1>10, <2>0
    <3> QED BY <1>5, <3>1
  <2>4. ASSUME NEW k \in 2..Len(all)
        PROVE  ~(EndsIn(all[k - 1], <<"1", ".">>) /\ Head(all[k]) = "1")
    <3>1. k - 1 \in 1..Len(ps) /\ all[k] = ps[k - 1]
      <4>1. k - 1 \in 1..Len(ps) /\ (k - 1) + 1 = k
        BY <1>7
      <4> QED BY <1>7, <4>1
    <3>2. CASE k = 2
      <4>1. all[k - 1] = w /\ all[k] = ps[1] /\ ps # <<>>
        BY <1>7, <3>1, <3>2
      <4>2. Head(ps) = ps[1]
        BY <1>5, <4>1
      <4>3. Head(all[k]) = b[c + 1] /\ n - c > 0
        BY <1>4, <2>3, <4>1, <4>2
      <4>4. c < n
        BY <1>1, <4>3
      <4> QED BY <2>2, <4>1, <4>3, <4>4
    <3>3. CASE k # 2
      <4>1. k - 1 \in 2..Len(ps) /\ (k - 1) - 1 \in 1..Len(ps) /\ ((k - 1) - 1) + 1 = k - 1
        BY <1>7, <3>1, <3>3
      <4>2. all[k - 1] = ps[(k - 1) - 1]
        BY <1>7, <4>1
      <4>3. ~(EndsIn(ps[(k - 1) - 1], <<"1", ".">>) /\ Head(ps[k - 1]) = "1")
        BY <2>3, <4>1 DEF Calm
      <4> QED BY <3>1, <4>2, <4>3
    <3> QED BY <3>2, <3>3
  <2> QED BY <2>4 DEF Calm
<1>11. Good(X, words, n, all)
  <2>1. Printed(FlattenSeq(Kept(all))) = Printed(Rear(words, n))
    BY <1>8 DEF b
  <2>2. Head(Head(all)) = Rear(words, n)[1]
    BY <1>9 DEF b
  <2> QED BY <1>7, <1>10, <2>1, <2>2 DEF Good
<1> QED BY <1>11 DEF all, w

LEMMA GoodRear ==
  ASSUME NEW X, NEW words \in Seq(X), NEW n \in 0..Len(words)
  PROVE  Good(X, words, n, Drain(words)[n])
<1> DEFINE g == Drain(words)
           Fine(k) == Good(X, words, k, g[k])
           T == {k \in Nat : k <= Len(words) /\ ~Fine(k)}
<1>0. Len(words) \in Nat
  OBVIOUS
<1>1. SUFFICES T = {}
  BY <1>0
<1>2. SUFFICES ASSUME T # {} PROVE FALSE
  OBVIOUS
<1>3. PICK m \in T : \A k \in T : m <= k
  <2> HIDE DEF Fine
  <2> QED BY <1>2, Least
<1>4. m \in 0..Len(words) /\ ~Fine(m)
  <2> HIDE DEF Fine
  <2> QED BY <1>0
<1>5. g[m] = Drained(words, g, m)
  BY <1>4, DrainFacts
<1>6. Rear(words, m) \in Seq(X) /\ Len(Rear(words, m)) = m
  BY <1>4, RearFacts
<1>7. CASE m = 0
  <2>1. g[m] = <<>> /\ Kept(g[m]) = <<>>
    BY <1>5, <1>7, FlattenEmpty DEF Drained, Kept
  <2>2. Rear(words, m) = <<>>
    BY <1>6, <1>7
  <2>3. Calm(<<>>)
    BY DEF Calm
  <2>4. Good(X, words, m, <<>>)
    BY <1>7, <2>1, <2>2, <2>3, FlattenEmpty DEF Good
  <2> QED BY <1>4, <2>1, <2>4
<1>8. CASE m # 0 /\ RearCut(words, m) = 0
  <2> DEFINE b == Rear(words, m)
             one == <<b>>
  <2>1. g[m] = one /\ b \in Seq(X) /\ b # <<>>
    BY <1>4, <1>5, <1>6, <1>8 DEF Drained
  <2>2. Printed(FlattenSeq(Kept(one))) = Printed(b)
    <3>1. Kept(<<b>>) = Said(b) /\ Printed(FlattenSeq(Said(b))) = Printed(b)
      BY <2>1, KeepsOne, StripPrints
    <3> QED BY <3>1
  <2>3. one \in Seq(Seq(X)) /\ Len(one) = 1 /\ Head(one) = b
    BY <2>1
  <2> HIDE DEF one
  <2>4. Calm(one)
    BY <2>3 DEF Calm
  <2>5. Head(b) = b[1] /\ m > 0
    BY <1>4, <1>8, <2>1
  <2>6. Good(X, words, m, one)
    BY <2>2, <2>3, <2>4, <2>5 DEF Good
  <2> QED BY <1>4, <2>1, <2>6
<1>9. CASE m # 0 /\ RearCut(words, m) # 0
  <2> DEFINE k == m - RearCut(words, m)
  <2>1. RearCut(words, m) \in 0..m
    BY <1>4, RearCutFacts
  <2>2. m > 0 /\ RearCut(words, m) > 0
    BY <1>4, <1>9, <2>1
  <2>3. k \in Nat /\ k <= Len(words) /\ ~(m <= k)
    BY <1>0, <1>4, <2>1, <2>2
  <2>4. Fine(k)
    <3> HIDE DEF k, Fine
    <3> QED BY <1>3, <2>3
  <2>5. g[m] = <<Piece(words, m)>> \o g[k]
    BY <1>5, <1>9 DEF Drained
  <2>6. Good(X, words, m, <<Piece(words, m)>> \o g[k])
    <3> HIDE DEF g
    <3> QED BY <1>4, <2>2, <2>4, GoodFirst
  <2> QED BY <1>4, <2>5, <2>6
<1> QED BY <1>7, <1>8, <1>9

\* Whatever the text, nothing that prints is lost between its sentences, and a text no longer
\* than a sentence may be is not cut inside a number (SentenceChunker.feed, flush).
LEMMA SentencesKeep ==
  ASSUME NEW X, NEW words \in Seq(X)
  PROVE  /\ Printed(FlattenSeq(Sentences(words))) = Printed(words)
         /\ Len(words) <= MAX_SENTENCE_CHARS => Calm(Pieces(words))
<1>1. Len(words) \in 0..Len(words)
  OBVIOUS
<1>2. Rear(words, Len(words)) = words
  BY DEF Rear
<1>3. Good(X, words, Len(words), Pieces(words))
  BY <1>1, GoodRear, DrainFacts
<1> QED BY <1>2, <1>3 DEF Good, Sentences

\* What a response says is text.
LEMMA TextIsText ==
  ASSUME NEW s \in Seq(Lined)
  PROVE  TextIn(s) \in Seq(Glyphs)
<1> DEFINE H == Heard(s)
           said == Ascending(H)
<1>1. DOMAIN s = 1..Len(s) /\ Len(s) \in Nat /\ \A k \in 1..Len(s) : s[k] \in Lined
  OBVIOUS
<1>2. H \subseteq 1..Len(s) /\ IsFiniteSet(H) /\ H \subseteq Nat
  <2>1. H \subseteq 1..Len(s)
    BY <1>1 DEF Heard
  <2>2. IsFiniteSet(1..Len(s))
    BY <1>1, FS_Interval
  <2> HIDE DEF H
  <2>3. IsFiniteSet(H)
    BY <2>1, <2>2, FS_Subset
  <2> QED BY <2>1, <2>3
<1>3. \A k \in H : Says(s[k]) \in Glyphs
  <2> SUFFICES ASSUME NEW k \in H PROVE Says(s[k]) \in Glyphs
    OBVIOUS
  <2>1. s[k] \in Lined /\ Says(s[k]) # Absent
    BY <1>1 DEF Heard
  <2>2. CASE s[k] \in [kind : {"content"}, content : Chars]
    BY <2>2, ReplyAssumption DEF Says
  <2>3. CASE s[k] \in [kind : {"tool"}, frag : Fragments]
    BY <2>1, <2>3 DEF Says, Fragments, Glyphs
  <2>4. CASE s[k] \in [kind : {"usage"}]
    BY <2>1, <2>4 DEF Says
  <2> QED BY <2>1, <2>2, <2>3, <2>4 DEF Lined
<1>4. DOMAIN said = 1..Cardinality(H) /\ Cardinality(H) \in Nat
      /\ \A k \in 1..Cardinality(H) : said[k] \in H
  <2> HIDE DEF H
  <2> QED BY <1>2, AscendingFacts, FS_CardinalityType
<1>5. TextIn(s) = [n \in 1..Cardinality(H) |-> Says(s[said[n]])]
  BY <1>4 DEF TextIn
<1> HIDE DEF H, said
<1>6. TextIn(s) \in [1..Cardinality(H) -> Glyphs]
  BY <1>3, <1>4, <1>5
<1> QED BY <1>4, <1>6

\* Every reply is spoken whole: as the screen passed it, nothing lost between its sentences,
\* and a short one is not cut inside a number (_screen_output, SentenceChunker).
THEOREM SpeechKept == ReplySpec => []SpeechIsWhole
<1>1. RInv => SpeechIsWhole
  <2> SUFFICES ASSUME RInv, outcome = "reply", NEW words \in Screened(content)
               PROVE  /\ Printed(FlattenSeq(Sentences(words))) = Printed(words)
                      /\ Len(words) <= MAX_SENTENCE_CHARS => Calm(Pieces(words))
    BY DEF SpeechIsWhole, Calm
  <2>1. content \in Seq(Glyphs)
    BY TextIsText DEF RInv, ReplyIsWhole
  <2>2. Fallback \in Seq(Glyphs)
    BY DEF Fallback, Glyphs
  <2>3. words \in Seq(Glyphs)
    BY <2>1, <2>2 DEF Screened
  <2> QED BY <2>3, SentencesKeep
<1> QED BY <1>1, InitRInv, StepRInv, PTL DEF ReplySpec

\* The two links of the chain together.
THEOREM WholeReplySpoken == ReplySpec => []ReplyReachesCaller
BY ReplyKept, SpeechKept, PTL DEF ReplyReachesCaller

=============================================================================
