----------------------------- MODULE RateWindow -----------------------------
(***************************************************************************)
(* enforce_rate: one user's sliding window, the sorted set rate:{user_id}, *)
(* in front of session creation, payments and limit requests.  A caller    *)
(* reads the clock, then sends one atomic pipeline: trim, add, count,      *)
(* expire.  Between the two another caller's pipeline may run, of this     *)
(* process or another; MaxLag bounds how old a timestamp may be when its   *)
(* pipeline runs.                                                          *)
(***************************************************************************)
EXTENDS Integers, FiniteSets

CONSTANTS
  Callers,
  RateLimit, WindowSize,    \* RATE_LIMIT_SESSIONS_PER_MIN, window_s
  MaxLag, MaxClock, MaxOutages,
  Unset

ASSUME RateAssumption ==
  /\ {RateLimit, WindowSize} \subseteq Nat \ {0}
  /\ {MaxLag, MaxClock, MaxOutages} \subseteq Nat /\ MaxLag < WindowSize
  /\ Unset \notin Int /\ IsFiniteSet(Callers)

VARIABLES
  clock,
  members, deadline,        \* the sorted set by (score, caller); its key's expiry
  stamp, verdict,           \* each caller's now; what enforce_rate did
  outages

windowVars == <<members, deadline>>
callerVars == <<stamp, verdict>>
rateVars == <<clock, windowVars, callerVars, outages>>

RateInit ==
  /\ clock = 1 /\ members = {} /\ deadline = Unset
  /\ stamp = [c \in Callers |-> Unset]
  /\ verdict = [c \in Callers |-> "none"]
  /\ outages = 0

Sent(c) == stamp[c] # Unset /\ verdict[c] = "none"

ReadClock(c) ==
  /\ stamp[c] = Unset
  /\ stamp' = [stamp EXCEPT ![c] = clock]
  /\ UNCHANGED <<clock, windowVars, verdict, outages>>

\* ZREMRANGEBYSCORE 0 .. now - window_s, both ends included.
TrimOpen(set, now) == {x \in set : x.at >= now - WindowSize}
TrimFixed(set, now) == {x \in set : x.at \div WindowSize = now \div WindowSize}
Trim(set, now) == {x \in set : x.at > now - WindowSize}

\* The pipeline counts after it has added: a refused call stays in the window.
Pipeline(c) ==
  LET now  == stamp[c]
      kept == Trim(members, now) \cup {[at |-> now, by |-> c]}
  IN  /\ Sent(c)
      /\ members' = kept /\ deadline' = clock + WindowSize
      /\ verdict' = [verdict EXCEPT ![c] =
                       IF Cardinality(kept) > RateLimit THEN "429" ELSE "admitted"]
      /\ UNCHANGED <<clock, stamp, outages>>

\* Redis does not answer: the call fails closed, its member added or not.
Outage(c) ==
  /\ Sent(c) /\ outages < MaxOutages
  /\ outages' = outages + 1
  /\ verdict' = [verdict EXCEPT ![c] = "500"]
  /\ \/ UNCHANGED windowVars
     \/ /\ members' = Trim(members, stamp[c]) \cup {[at |-> stamp[c], by |-> c]}
        /\ deadline' = clock + WindowSize
  /\ UNCHANGED <<clock, stamp>>

\* The clock moves on, unless a timestamp would grow older than MaxLag; the key goes with
\* its time to live.
Tick ==
  /\ clock < MaxClock
  /\ \A c \in Callers : Sent(c) => clock < stamp[c] + MaxLag
  /\ clock' = clock + 1
  /\ IF deadline = clock + 1 THEN members' = {} /\ deadline' = Unset
                             ELSE UNCHANGED windowVars
  /\ UNCHANGED <<callerVars, outages>>

RateNext == Tick \/ \E c \in Callers : ReadClock(c) \/ Pipeline(c) \/ Outage(c)

RateSpec == RateInit /\ [][RateNext]_rateVars

-----------------------------------------------------------------------------
AdmittedIn(first, last) ==
  {c \in Callers : verdict[c] = "admitted" /\ stamp[c] \in first..last}

\* No stretch of time lets more than the limit in, wherever it starts (docs/04 section 6: not
\* twice the limit across a boundary).  A timestamp may be late by MaxLag, so the stretch is
\* that much shorter than the window: a later caller may already have trimmed its edge.
RateHolds ==
  \A first \in 1..clock :
    Cardinality(AdmittedIn(first, first + WindowSize - MaxLag - 1)) <= RateLimit

\* The attempts, admitted, refused or lost in an outage, that a refusal of c may count.
Attempts(c) == {d \in Callers \ {c} : verdict[d] # "none" /\ stamp[d] > stamp[c] - WindowSize}

\* A refusal has a cause inside the window: a caller that waits window_s after its last
\* attempt, as Retry-After says, is let in, however many of them were refused.
RetryAfterWorks ==
  \A c \in Callers : verdict[c] = "429" => Cardinality(Attempts(c)) >= RateLimit

\* The limiter refuses whom it must and nobody else.
AdmissionIsFair == RateHolds /\ RetryAfterWorks
=============================================================================
