------------------------------ MODULE RateWindows ------------------------------
(***************************************************************************)
(* The rate limit in front of a route: a sliding window of hits for each   *)
(* subject and route, in the memory of the process (RateWindows), and the  *)
(* guard that answers 429 with Retry-After (ThrottleGuard).                *)
(*                                                                         *)
(* The clock counts ticks, Second of them in a second: the windows live in *)
(* milliseconds, the header in whole seconds.                              *)
(***************************************************************************)
EXTENDS Naturals, FiniteSets, FiniteSetsExt

CONSTANTS
  Callers,        \* who calls: account, demo flag of the account, session
  Routes,         \* routes (a controller and a handler)
  Limit,          \* @Throttle({limit}) of each route
  Ttl,            \* @Throttle({ttl}) of each route, in ticks
  SweepInterval,  \* SWEEP_INTERVAL_MS, in ticks
  Second,         \* ticks in a second
  NoSession,      \* a token without session_id
  NotTold,        \* no 429 so far
  MaxTime, MaxHits   \* bounds: the clock, admitted hits

ASSUME RateAssumption ==
  /\ \A c \in Callers : c.demo \in BOOLEAN
  /\ Limit \in [Routes -> Nat \ {0}]
  /\ Ttl \in [Routes -> Nat \ {0}]
  /\ SweepInterval \in Nat /\ Second \in Nat \ {0}
  /\ MaxTime \in Nat /\ MaxHits \in Nat

VARIABLES
  now,          \* the clock
  windows,      \* RateWindows.windows: the stamps of each key, and when they expire
  nextSweepAt,  \* RateWindows.nextSweepAt
  admitted,     \* history: every hit let through
  told          \* the last 429 of each caller on each route

vars == <<now, windows, nextSweepAt, admitted, told>>

-----------------------------------------------------------------------------
(* Keys *)

\* throttleSubject: the account; at the demo account, the session.
throttleSubject(c) ==
  IF c.demo /\ c.session # NoSession THEN <<c.account, c.session>> ELSE <<c.account>>

buildKey(c, r) == <<throttleSubject(c), r>>

Keys == {buildKey(c, r) : c \in Callers, r \in Routes}

\* The history of a key.
hitsOf(k) == {h \in admitted : buildKey(h.caller, h.route) = k}

-----------------------------------------------------------------------------
(* A hit *)

SlipSweepsOpen == {k \in DOMAIN windows : windows[k].expiresAt <= now + 1}
expiredKeys == {k \in DOMAIN windows : windows[k].expiresAt <= now}

sweeps == now >= nextSweepAt

keptKeys == IF sweeps THEN DOMAIN windows \ expiredKeys ELSE DOMAIN windows

\* The stamps of a key inside the window that ends now.  A stamp is an entry of
\* the array, so two hits of one tick are two stamps.
SlipStampAtTheEdge(k, r) ==
  IF k \in keptKeys THEN {h \in windows[k].stamps : h.at + Ttl[r] >= now} ELSE {}
openStamps(k, r) ==
  IF k \in keptKeys THEN {h \in windows[k].stamps : h.at + Ttl[r] > now} ELSE {}

\* retryAfterMs, and its header in seconds rounded up.
retryAfter(k, r) == Min({h.at : h \in openStamps(k, r)}) + Ttl[r] - now
inSeconds(t) == Max({1, (t + Second - 1) \div Second}) * Second

isFull(k, r) == Cardinality(openStamps(k, r)) >= Limit[r]

sweep ==
  nextSweepAt' = IF sweeps THEN now + SweepInterval ELSE nextSweepAt

Admit(c, r) ==
  LET k == buildKey(c, r)
      h == [n |-> Cardinality(hitsOf(k)) + 1, caller |-> c, route |-> r, at |-> now]
      w == [stamps |-> openStamps(k, r) \cup {h}, expiresAt |-> now + Ttl[r]]
  IN  /\ ~isFull(k, r)
      /\ Cardinality(admitted) < MaxHits
      /\ sweep
      /\ windows' = [q \in keptKeys \cup {k} |-> IF q = k THEN w ELSE windows[q]]
      /\ admitted' = admitted \cup {h}
      /\ told' = [told EXCEPT ![<<c, r>>] = NotTold]
      /\ UNCHANGED now

\* A refusal leaves no stamp.
Refuse(c, r) ==
  LET k == buildKey(c, r)
  IN  /\ isFull(k, r)
      /\ sweep
      /\ windows' = [q \in keptKeys |-> windows[q]]
      /\ told' = [told EXCEPT ![<<c, r>>] =
                    [until |-> now + inSeconds(retryAfter(k, r)),
                     seen |-> Cardinality(hitsOf(k))]]
      /\ UNCHANGED <<now, admitted>>

Tick == now < MaxTime /\ now' = now + 1 /\ UNCHANGED <<windows, nextSweepAt, admitted, told>>

Init ==
  /\ now = 0
  /\ windows = [k \in {} |-> 0]
  /\ nextSweepAt = 0
  /\ admitted = {}
  /\ told = [cr \in Callers \X Routes |-> NotTold]

Next ==
  \/ \E c \in Callers, r \in Routes : Admit(c, r) \/ Refuse(c, r)
  \/ Tick

Spec == Init /\ [][Next]_vars

-----------------------------------------------------------------------------
(* Properties *)

Hit == [n : Nat, caller : Callers, route : Routes, at : Nat]

\* Types: the map holds some of the keys, each with hits of that key.
TypeOK ==
  /\ now \in Nat /\ nextSweepAt \in Nat
  /\ admitted \subseteq Hit /\ IsFiniteSet(admitted)
  /\ DOMAIN windows \subseteq Keys
  /\ \A k \in DOMAIN windows :
       /\ windows[k].stamps \subseteq hitsOf(k)
       /\ windows[k].expiresAt \in Nat
  /\ told \in [Callers \X Routes -> {NotTold} \cup [until : Nat, seen : Nat]]

\* No stretch of time as long as the window holds more hits of one key than the
\* limit, wherever it begins, and whatever was swept in between (RateWindows.hit).
hitsWithin(k, t) ==
  {h \in hitsOf(k) : h.at <= t /\ h.at + Ttl[h.route] > t}

AtMostLimit ==
  \A k \in Keys : \A t \in 0..now : Cardinality(hitsWithin(k, t)) <= Limit[k[2]]

\* Who waits as long as Retry-After said is let through, unless another call with
\* the same key took the room meanwhile: refusals do not prolong a window.
RetryAfterIsEnough ==
  [][\A c \in Callers, r \in Routes :
       Refuse(c, r) =>
         \/ told[<<c, r>>] = NotTold
         \/ told[<<c, r>>].until > now
         \/ Cardinality(hitsOf(buildKey(c, r))) > told[<<c, r>>].seen]_vars

\* The map does not grow for ever: after a hit, no window in it ended longer ago
\* than a sweep interval (RateWindows.sweep).
MapForgets ==
  [][windows' # windows =>
       \A k \in DOMAIN windows' : windows'[k].expiresAt + SweepInterval > now]_vars
=============================================================================
