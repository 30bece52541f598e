--------------------------- MODULE RateWindowsProofs ---------------------------
(***************************************************************************)
(* Proofs about the rate limit, for any callers, routes, limits, windows   *)
(* and interval between sweeps.                                            *)
(***************************************************************************)
EXTENDS RateWindows, FiniteSetTheorems, WellFoundedInduction, TLAPS

\* What the map must remember: a hit that is still inside its window is among the
\* stamps of its key, and the window outlives it.
RemembersOpenHits ==
  \A k \in Keys : \A h \in hitsOf(k) :
    h.at + Ttl[h.route] > now =>
      /\ k \in DOMAIN windows
      /\ h \in windows[k].stamps
      /\ h.at + Ttl[h.route] <= windows[k].expiresAt

HitsAreInThePast == \A h \in admitted : h.at <= now

RateInv ==
  /\ admitted \subseteq Hit /\ IsFiniteSet(admitted)
  /\ now \in Nat /\ nextSweepAt \in Nat
  /\ \A k \in DOMAIN windows :
       windows[k].stamps \subseteq hitsOf(k) /\ windows[k].expiresAt \in Nat
  /\ HitsAreInThePast
  /\ RemembersOpenHits
  /\ AtMostLimit

-----------------------------------------------------------------------------
(* Keys *)

\* A hit of a key is a hit of the key's route.
LEMMA RouteOfKey ==
  ASSUME NEW c \in Callers, NEW r \in Routes, NEW h \in hitsOf(buildKey(c, r)),
         admitted \subseteq Hit
  PROVE  h.route = r
  <1>1. buildKey(h.caller, h.route)[2] = buildKey(c, r)[2]
    BY DEF hitsOf
  <1>2. QED
    BY <1>1 DEF buildKey

LEMMA KeysHaveRoutes ==
  ASSUME NEW k \in Keys
  PROVE  k[2] \in Routes /\ \E c \in Callers : k = buildKey(c, k[2])
  <1>1. PICK c \in Callers, r \in Routes : k = buildKey(c, r)
    BY DEF Keys
  <1>2. k[2] = r
    BY <1>1 DEF buildKey
  <1>3. QED
    BY <1>1, <1>2

\* The hits of a key inside the window that ends now are among its open stamps.
LEMMA OpenStampsAreEnough ==
  ASSUME RateInv, NEW c \in Callers, NEW r \in Routes
  PROVE  LET k == buildKey(c, r)
         IN  /\ hitsWithin(k, now) \subseteq openStamps(k, r)
             /\ openStamps(k, r) \subseteq hitsOf(k)
  <1> DEFINE k == buildKey(c, r)
  <1>1. k \in Keys
    BY DEF Keys
  <1>2. ASSUME NEW h \in hitsWithin(k, now)
        PROVE  h \in openStamps(k, r)
    <2>1. h \in hitsOf(k) /\ h.at + Ttl[h.route] > now /\ h \in Hit
      BY DEF hitsWithin, hitsOf, RateInv
    <2>2. h.route = r
      BY <2>1, RouteOfKey DEF RateInv
    <2>3. k \in DOMAIN windows /\ h \in windows[k].stamps
          /\ h.at + Ttl[r] <= windows[k].expiresAt
      BY <1>1, <2>1, <2>2 DEF RateInv, RemembersOpenHits
    <2>4. h.at + Ttl[r] \in Nat /\ windows[k].expiresAt \in Nat /\ now \in Nat
      BY <2>1, <2>3, RateAssumption DEF RateInv, Hit
    <2>5. k \in keptKeys
      BY <2>1, <2>2, <2>3, <2>4 DEF keptKeys, expiredKeys
    <2>6. QED
      BY <2>1, <2>2, <2>3, <2>5 DEF openStamps
  <1>3. openStamps(k, r) \subseteq hitsOf(k)
    BY DEF openStamps, keptKeys, RateInv
  <1>4. QED
    BY <1>2, <1>3

-----------------------------------------------------------------------------
(* Steps *)

LEMMA InitRate == Init => RateInv
  <1> SUFFICES ASSUME Init PROVE RateInv
    OBVIOUS
  <1>1. IsFiniteSet(admitted)
    BY FS_EmptySet DEF Init
  <1>2. \A k \in Keys : hitsOf(k) = {}
    BY DEF Init, hitsOf
  <1>3. AtMostLimit
    <2>1. \A k \in Keys : \A t \in 0..now : hitsWithin(k, t) = {}
      BY <1>2 DEF hitsWithin
    <2>2. \A k \in Keys : Limit[k[2]] \in Nat
      BY KeysHaveRoutes, RateAssumption
    <2>3. Cardinality({}) = 0
      BY FS_EmptySet
    <2>4. QED
      BY <2>1, <2>2, <2>3 DEF AtMostLimit
  <1>4. QED
    BY <1>1, <1>2, <1>3 DEF Init, RateInv, HitsAreInThePast, RemembersOpenHits

\* A hit that is let through.
LEMMA AdmitKeeps ==
  ASSUME RateInv, NEW c \in Callers, NEW r \in Routes, Admit(c, r)
  PROVE  RateInv'
  <1> DEFINE k == buildKey(c, r)
             h == [n |-> Cardinality(hitsOf(k)) + 1, caller |-> c, route |-> r, at |-> now]
             w == [stamps |-> openStamps(k, r) \cup {h}, expiresAt |-> now + Ttl[r]]
  <1> k \in Keys
    BY DEF Keys
  <1>1. /\ admitted' = admitted \cup {h} /\ now' = now /\ now \in Nat
        /\ windows' = [q \in keptKeys \cup {k} |-> IF q = k THEN w ELSE windows[q]]
        /\ nextSweepAt' \in Nat
        /\ ~isFull(k, r)
    BY RateAssumption DEF Admit, sweep, RateInv
  <1>2. Ttl[r] \in Nat \ {0} /\ Limit[r] \in Nat
    BY RateAssumption
  <1>3. IsFiniteSet(hitsOf(k)) /\ Cardinality(hitsOf(k)) \in Nat
    BY FS_Subset, FS_CardinalityType DEF hitsOf, RateInv
  <1>4. h \in Hit
    BY <1>1, <1>3 DEF Hit
  <1>5. admitted' \subseteq Hit /\ IsFiniteSet(admitted')
    BY <1>1, <1>4, FS_AddElement DEF RateInv
  <1>6. \A q \in Keys : hitsOf(q)' = IF q = k THEN hitsOf(q) \cup {h} ELSE hitsOf(q)
    BY <1>1 DEF hitsOf
  <1>7. openStamps(k, r) \subseteq hitsOf(k) /\ hitsWithin(k, now) \subseteq openStamps(k, r)
    BY OpenStampsAreEnough
  <1>8. keptKeys \subseteq DOMAIN windows
    BY DEF keptKeys
  <1>9. \A q \in DOMAIN windows' :
          windows'[q].stamps \subseteq hitsOf(q)' /\ windows'[q].expiresAt \in Nat
    <2> SUFFICES ASSUME NEW q \in DOMAIN windows'
                 PROVE  windows'[q].stamps \subseteq hitsOf(q)' /\ windows'[q].expiresAt \in Nat
      OBVIOUS
    <2>1. CASE q = k
      BY <2>1, <1>1, <1>2, <1>6, <1>7
    <2>2. CASE q # k
      <3>1. q \in DOMAIN windows /\ windows'[q] = windows[q]
        BY <2>2, <1>1, <1>8
      <3>2. hitsOf(q) \subseteq hitsOf(q)'
        BY <1>1 DEF hitsOf
      <3>3. QED
        BY <3>1, <3>2 DEF RateInv
    <2>3. QED
      BY <2>1, <2>2
  <1>10. HitsAreInThePast'
    BY <1>1 DEF HitsAreInThePast, RateInv
  <1>11. RemembersOpenHits'
    <2> SUFFICES ASSUME NEW q \in Keys, NEW g \in hitsOf(q)', g.at + Ttl[g.route] > now
                 PROVE  /\ q \in DOMAIN windows'
                        /\ g \in windows'[q].stamps
                        /\ g.at + Ttl[g.route] <= windows'[q].expiresAt
      <3>1. now' = now
        BY <1>1
      <3>2. QED
        BY <3>1 DEF RemembersOpenHits, Keys
    <2>1. CASE g = h /\ q = k
      BY <2>1, <1>1, <1>2
    <2>2. CASE g # h \/ q # k
      <3>1. g \in hitsOf(q) /\ g \in Hit /\ g.at <= now
        BY <2>2, <1>6 DEF hitsOf, RateInv, HitsAreInThePast
      <3>2. q \in DOMAIN windows /\ g \in windows[q].stamps
            /\ g.at + Ttl[g.route] <= windows[q].expiresAt
        BY <3>1 DEF RateInv, RemembersOpenHits
      <3>3. CASE q = k
        <4>1. g.route = r
          BY <3>1, <3>3, RouteOfKey DEF RateInv
        <4>2. g \in hitsWithin(k, now)
          BY <3>1, <3>3 DEF hitsWithin
        <4>3. g \in openStamps(k, r)
          BY <4>2, <1>7
        <4>4. g.at + Ttl[r] <= now + Ttl[r]
          BY <3>1, <1>1, <1>2 DEF Hit
        <4>5. QED
          BY <4>1, <4>3, <4>4, <3>3, <1>1
      <3>4. CASE q # k
        <4>1. g.at + Ttl[g.route] \in Nat /\ windows[q].expiresAt \in Nat
          BY <3>1, <3>2, RateAssumption DEF RateInv, Hit
        <4>2. q \in keptKeys
          BY <3>2, <4>1, <1>1 DEF keptKeys, expiredKeys
        <4>3. QED
          BY <3>2, <3>4, <4>2, <1>1
      <3>5. QED
        BY <3>3, <3>4
    <2>3. QED
      BY <2>1, <2>2
  <1>12. AtMostLimit'
    <2> SUFFICES ASSUME NEW q \in Keys, NEW t \in 0..now
                 PROVE  Cardinality(hitsWithin(q, t)') <= Limit[q[2]]
      BY <1>1 DEF AtMostLimit, Keys
    <2>1. CASE q # k \/ t # now
      <3>1. hitsWithin(q, t)' = hitsWithin(q, t)
        BY <2>1, <1>1, <1>6 DEF hitsWithin
      <3>2. QED
        BY <3>1 DEF RateInv, AtMostLimit
    <2>2. CASE q = k /\ t = now
      <3>1. hitsWithin(q, t)' \subseteq openStamps(k, r) \cup {h}
        BY <2>2, <1>6, <1>7 DEF hitsWithin
      <3>2. IsFiniteSet(openStamps(k, r)) /\ Cardinality(openStamps(k, r)) \in Nat
        BY <1>3, <1>7, FS_Subset, FS_CardinalityType
      <3>3. /\ IsFiniteSet(openStamps(k, r) \cup {h})
            /\ Cardinality(openStamps(k, r) \cup {h}) <= Cardinality(openStamps(k, r)) + 1
        <4> DEFINE S == openStamps(k, r)
        <4> HIDE DEF S, h
        <4>1. IsFiniteSet(S) /\ Cardinality(S) \in Nat
          BY <3>2 DEF S
        <4>2. /\ IsFiniteSet(S \cup {h})
              /\ Cardinality(S \cup {h}) = IF h \in S THEN Cardinality(S) ELSE Cardinality(S) + 1
          BY <4>1, FS_AddElement
        <4>3. QED
          BY <4>1, <4>2 DEF S
      <3>4. /\ IsFiniteSet(hitsWithin(q, t)')
            /\ Cardinality(hitsWithin(q, t)') <= Cardinality(openStamps(k, r) \cup {h})
        BY <3>1, <3>3, FS_Subset
      <3>5. /\ Cardinality(hitsWithin(q, t)') \in Nat
            /\ Cardinality(openStamps(k, r) \cup {h}) \in Nat
        BY <3>3, <3>4, FS_CardinalityType
      <3>6. Cardinality(openStamps(k, r)) + 1 <= Limit[r]
        BY <1>1, <1>2, <3>2 DEF isFull
      <3>7. q[2] = r
        BY <2>2 DEF buildKey
      <3>8. QED
        BY <3>2, <3>3, <3>4, <3>5, <3>6, <3>7, <1>2
    <2>3. QED
      BY <2>1, <2>2
  <1>13. QED
    BY <1>1, <1>5, <1>9, <1>10, <1>11, <1>12 DEF RateInv

\* A refusal only sweeps.
LEMMA RefuseKeeps ==
  ASSUME RateInv, NEW c \in Callers, NEW r \in Routes, Refuse(c, r)
  PROVE  RateInv'
  <1>1. /\ admitted' = admitted /\ now' = now /\ now \in Nat
        /\ windows' = [q \in keptKeys |-> windows[q]]
        /\ nextSweepAt' \in Nat
    BY RateAssumption DEF Refuse, sweep, RateInv
  <1>2. keptKeys \subseteq DOMAIN windows
    BY DEF keptKeys
  <1>3. \A q : hitsOf(q)' = hitsOf(q)
    BY <1>1 DEF hitsOf
  <1>4. RemembersOpenHits'
    <2> SUFFICES ASSUME NEW q \in Keys, NEW g \in hitsOf(q), g.at + Ttl[g.route] > now
                 PROVE  /\ q \in DOMAIN windows'
                        /\ g \in windows'[q].stamps
                        /\ g.at + Ttl[g.route] <= windows'[q].expiresAt
      BY <1>1, <1>3 DEF RemembersOpenHits, Keys
    <2>1. /\ q \in DOMAIN windows /\ g \in windows[q].stamps /\ g \in Hit
          /\ g.at + Ttl[g.route] <= windows[q].expiresAt
      BY DEF RateInv, RemembersOpenHits, hitsOf
    <2>2. g.at + Ttl[g.route] \in Nat /\ windows[q].expiresAt \in Nat
      BY <2>1, RateAssumption DEF RateInv, Hit
    <2>3. q \in keptKeys
      BY <2>1, <2>2, <1>1 DEF keptKeys, expiredKeys
    <2>4. QED
      BY <2>1, <2>3, <1>1
  <1>5. AtMostLimit'
    BY <1>1, <1>3 DEF RateInv, AtMostLimit, hitsWithin, Keys
  <1>6. QED
    BY <1>1, <1>2, <1>3, <1>4, <1>5 DEF RateInv, HitsAreInThePast

\* Time passes.
LEMMA TickKeeps == RateInv /\ Tick => RateInv'
  <1> SUFFICES ASSUME RateInv, Tick PROVE RateInv'
    OBVIOUS
  <1>1. /\ UNCHANGED <<admitted, windows, nextSweepAt>>
        /\ now' = now + 1 /\ now \in Nat
        /\ admitted \subseteq Hit /\ IsFiniteSet(admitted)
    BY DEF Tick, RateInv
  <1>2. \A q : hitsOf(q)' = hitsOf(q)
    BY <1>1 DEF hitsOf
  <1>3. HitsAreInThePast'
    BY <1>1 DEF RateInv, HitsAreInThePast, Hit
  <1>4. RemembersOpenHits'
    <2> SUFFICES ASSUME NEW q \in Keys, NEW g \in hitsOf(q), g.at + Ttl[g.route] > now + 1
                 PROVE  /\ q \in DOMAIN windows
                        /\ g \in windows[q].stamps
                        /\ g.at + Ttl[g.route] <= windows[q].expiresAt
      BY <1>1, <1>2 DEF RemembersOpenHits, Keys
    <2>1. g.at + Ttl[g.route] > now
      BY <1>1, RateAssumption DEF hitsOf, Hit
    <2>2. QED
      BY <2>1 DEF RateInv, RemembersOpenHits
  <1>5. AtMostLimit'
    <2> SUFFICES ASSUME NEW q \in Keys, NEW t \in 0..(now + 1)
                 PROVE  Cardinality(hitsWithin(q, t)') <= Limit[q[2]]
      BY <1>1 DEF AtMostLimit, Keys
    <2>1. hitsWithin(q, t)' = hitsWithin(q, t)
      BY <1>1, <1>2 DEF hitsWithin
    <2>2. CASE t \in 0..now
      BY <2>1, <2>2 DEF RateInv, AtMostLimit
    <2>3. CASE t = now + 1
      <3>1. hitsWithin(q, now + 1) \subseteq hitsWithin(q, now)
        BY <1>1, RateAssumption DEF hitsWithin, hitsOf, Hit, RateInv, HitsAreInThePast
      <3>2. IsFiniteSet(hitsWithin(q, now))
        BY <1>1, FS_Subset DEF hitsWithin, hitsOf
      <3>3. /\ Cardinality(hitsWithin(q, now + 1)) <= Cardinality(hitsWithin(q, now))
            /\ IsFiniteSet(hitsWithin(q, now + 1))
        BY <3>1, <3>2, FS_Subset
      <3>4. Cardinality(hitsWithin(q, now)) <= Limit[q[2]]
        BY <1>1 DEF RateInv, AtMostLimit
      <3>5. /\ Cardinality(hitsWithin(q, now + 1)) \in Nat
            /\ Cardinality(hitsWithin(q, now)) \in Nat
            /\ Limit[q[2]] \in Nat
        BY <3>2, <3>3, FS_CardinalityType, KeysHaveRoutes, RateAssumption
      <3>6. QED
        BY <2>1, <2>3, <3>3, <3>4, <3>5
    <2>4. QED
      BY <1>1, <2>2, <2>3
  <1>6. QED
    BY <1>1, <1>2, <1>3, <1>4, <1>5 DEF RateInv

LEMMA NextRate == RateInv /\ [Next]_vars => RateInv'
  <1> SUFFICES ASSUME RateInv, [Next]_vars PROVE RateInv'
    OBVIOUS
  <1>1. ASSUME NEW c \in Callers, NEW r \in Routes, Admit(c, r) \/ Refuse(c, r)
        PROVE  RateInv'
    BY <1>1, AdmitKeeps, RefuseKeeps
  <1>2. CASE Tick
    BY <1>2, TickKeeps
  <1>3. CASE UNCHANGED vars
    BY <1>3 DEF vars, RateInv, HitsAreInThePast, RemembersOpenHits, AtMostLimit, hitsOf,
                hitsWithin, Keys
  <1>4. QED
    BY <1>1, <1>2, <1>3 DEF Next

\* However the calls, the clock and the sweeps interleave, no stretch of time as
\* long as the window holds more hits of a key than its limit (RateWindows.hit).
THEOREM NeverMoreThanTheLimit == Spec => []AtMostLimit
  <1>1. RateInv => AtMostLimit
    BY DEF RateInv
  <1>2. QED
    BY <1>1, InitRate, NextRate, PTL DEF Spec

-----------------------------------------------------------------------------
(* Sweeps *)

\* No window in the map had ended by the last sweep.
SweepInv ==
  /\ now \in Nat /\ nextSweepAt \in Nat
  /\ nextSweepAt <= now + SweepInterval
  /\ \A k \in DOMAIN windows :
       /\ windows[k].expiresAt \in Nat
       /\ windows[k].expiresAt + SweepInterval > nextSweepAt

\* A hit, let through or refused, leaves windows that it found and kept, and at
\* most one new one, which ends later than now.
LEMMA HitLeaves ==
  ASSUME SweepInv, NEW c \in Callers, NEW r \in Routes, Admit(c, r) \/ Refuse(c, r)
  PROVE  /\ now' = now /\ sweep
         /\ \A k \in DOMAIN windows' :
              \/ k \in keptKeys /\ windows'[k] = windows[k]
              \/ windows'[k].expiresAt \in Nat /\ windows'[k].expiresAt > now
  <1>1. CASE Admit(c, r)
    <2>1. Ttl[r] \in Nat \ {0} /\ now \in Nat
      BY RateAssumption DEF SweepInv
    <2>2. QED
      BY <1>1, <2>1 DEF Admit
  <1>2. CASE Refuse(c, r)
    BY <1>2 DEF Refuse
  <1>3. QED
    BY <1>1, <1>2

LEMMA HitSweeps ==
  ASSUME SweepInv, NEW c \in Callers, NEW r \in Routes, Admit(c, r) \/ Refuse(c, r)
  PROVE  /\ SweepInv'
         /\ \A k \in DOMAIN windows' : windows'[k].expiresAt + SweepInterval > now
  <1>1. /\ now' = now /\ now \in Nat /\ SweepInterval \in Nat
        /\ nextSweepAt \in Nat
        /\ nextSweepAt' = IF now >= nextSweepAt THEN now + SweepInterval ELSE nextSweepAt
    BY HitLeaves, RateAssumption DEF sweep, sweeps, SweepInv
  <1>2. ASSUME NEW k \in DOMAIN windows'
        PROVE  /\ windows'[k].expiresAt \in Nat
               /\ windows'[k].expiresAt + SweepInterval > nextSweepAt'
               /\ windows'[k].expiresAt + SweepInterval > now
    <2>1. CASE k \in keptKeys /\ windows'[k] = windows[k]
      <3>1. /\ windows[k].expiresAt \in Nat
            /\ windows[k].expiresAt + SweepInterval > nextSweepAt
        BY <2>1 DEF SweepInv, keptKeys
      <3>2. now >= nextSweepAt => windows[k].expiresAt > now
        BY <2>1, <3>1, <1>1 DEF keptKeys, expiredKeys, sweeps
      <3>3. QED
        BY <2>1, <3>1, <3>2, <1>1
    <2>2. CASE windows'[k].expiresAt \in Nat /\ windows'[k].expiresAt > now
      BY <2>2, <1>1 DEF SweepInv
    <2>3. QED
      BY <2>1, <2>2, HitLeaves
  <1>3. nextSweepAt' \in Nat /\ nextSweepAt' <= now' + SweepInterval
    BY <1>1 DEF SweepInv
  <1>4. QED
    BY <1>1, <1>2, <1>3 DEF SweepInv

LEMMA NextSweeps == SweepInv /\ [Next]_vars => SweepInv'
  <1> SUFFICES ASSUME SweepInv, [Next]_vars PROVE SweepInv'
    OBVIOUS
  <1>1. ASSUME NEW c \in Callers, NEW r \in Routes, Admit(c, r) \/ Refuse(c, r)
        PROVE  SweepInv'
    BY <1>1, HitSweeps
  <1>2. CASE Tick
    BY <1>2, RateAssumption DEF Tick, SweepInv
  <1>3. CASE UNCHANGED vars
    BY <1>3 DEF vars, SweepInv
  <1>4. QED
    BY <1>1, <1>2, <1>3 DEF Next

\* The map of windows forgets: after any hit it holds no window that ended longer
\* ago than the interval between sweeps (RateWindows.sweep).
THEOREM TheMapAlwaysForgets == Spec => MapForgets
  <1>1. Init => SweepInv
    BY RateAssumption DEF Init, SweepInv
  <1>2. SweepInv /\ [Next]_vars =>
          [windows' # windows =>
             \A k \in DOMAIN windows' : windows'[k].expiresAt + SweepInterval > now]_vars
    <2> SUFFICES ASSUME SweepInv, Next, windows' # windows
                 PROVE  \A k \in DOMAIN windows' :
                          windows'[k].expiresAt + SweepInterval > now
      BY DEF vars
    <2>1. ASSUME NEW c \in Callers, NEW r \in Routes, Admit(c, r) \/ Refuse(c, r)
          PROVE  \A k \in DOMAIN windows' : windows'[k].expiresAt + SweepInterval > now
      BY <2>1, HitSweeps
    <2>2. ~Tick
      BY DEF Tick
    <2>3. QED
      BY <2>1, <2>2 DEF Next
  <1>3. QED
    BY <1>1, <1>2, NextSweeps, PTL DEF Spec, MapForgets

-----------------------------------------------------------------------------
(* What a refusal tells *)

\* The hits of a key that are inside their window after the moment t.
openAfter(k, r, t) == {h \in hitsOf(k) : h.at + Ttl[r] > t}

\* Once the moment has come that a refusal named, the key has room again, unless
\* another call with the same key was let through since.
IsKept(m, k, r) ==
  /\ m.until \in Nat /\ m.seen \in Nat
  /\ m.seen <= Cardinality(hitsOf(k))
  /\ Cardinality(hitsOf(k)) = m.seen => Cardinality(openAfter(k, r, m.until)) < Limit[r]

ToldInv ==
  \A c \in Callers, r \in Routes :
    told[<<c, r>>] # NotTold => IsKept(told[<<c, r>>], buildKey(c, r), r)

ToldIsFunction == DOMAIN told = Callers \X Routes

\* A set of numbers that is not empty has a least one.
LEMMA MinOfNaturals ==
  ASSUME NEW T, T \subseteq Nat, T # {}
  PROVE  Min(T) \in T /\ \A y \in T : Min(T) <= y
  <1> DEFINE Less == {ss \in Nat \X Nat : ss[1] < ss[2]}
  <1>1. IsWellFoundedOn(Less, Nat)
    BY NatLessThanWellFounded, Zenon DEF OpToRel
  <1>2. \E x \in T : \A y \in T : ~(<<y, x>> \in Less)
    <2> HIDE DEF Less
    <2> QED
      BY <1>1, WFMin, Zenon
  <1>3. PICK x \in T : \A y \in T : ~(<<y, x>> \in Less)
    BY <1>2, Zenon
  <1>4. ASSUME NEW y \in T
        PROVE  x <= y
    <2>1. x \in Nat /\ y \in Nat /\ <<y, x>> \notin Less
      BY <1>3
    <2>2. ASSUME y < x
          PROVE  FALSE
      <3>1. <<y, x>> \in Nat \X Nat /\ <<y, x>>[1] < <<y, x>>[2]
        BY <2>1, <2>2
      <3>2. <<y, x>> \in Less
        BY <3>1, Zenon
      <3> QED
        BY <3>2, <2>1
    <2> QED
      BY <2>1, <2>2
  <1> QED
    BY <1>4 DEF Min

\* The header is never shorter than the time left: its seconds are rounded up.
LEMMA RoundedUp ==
  ASSUME NEW t \in Nat \ {0}
  PROVE  inSeconds(t) \in Nat /\ inSeconds(t) >= t
  <1> DEFINE q == (t + Second - 1) \div Second
  <1>1. Second \in Nat \ {0}
    BY RateAssumption
  <1>2. q \in Nat /\ t <= q * Second
    BY <1>1
  <1> HIDE DEF q
  <1>3. \E m \in {1, q} : m >= 1 /\ m >= q
    BY <1>2
  <1>4. Max({1, q}) \in {1, q} /\ Max({1, q}) >= q
    BY <1>3 DEF Max
  <1>5. PICK m : m = Max({1, q}) /\ m \in Nat /\ m >= q
    BY <1>2, <1>4
  <1>6. m * Second \in Nat /\ m * Second >= q * Second
    BY <1>1, <1>2, <1>5
  <1>7. inSeconds(t) = m * Second
    BY <1>5 DEF inSeconds, q
  <1>8. q * Second \in Nat
    BY <1>1, <1>2
  <1> QED
    BY <1>2, <1>6, <1>7, <1>8

\* A key without room has exactly the hits of its limit, and the header waits for
\* the oldest of them to leave the window.
LEMMA HeaderIsEnough ==
  ASSUME RateInv, NEW c \in Callers, NEW r \in Routes, isFull(buildKey(c, r), r)
  PROVE  LET k == buildKey(c, r)
             until == now + inSeconds(retryAfter(k, r))
         IN  until \in Nat /\ Cardinality(openAfter(k, r, until)) < Limit[r]
  <1> DEFINE k == buildKey(c, r)
             until == now + inSeconds(retryAfter(k, r))
             S == openStamps(k, r)
             T == {h.at : h \in S}
  <1>1. k \in Keys /\ k[2] = r
    BY DEF Keys, buildKey
  <1>2. now \in Nat /\ Limit[r] \in Nat \ {0} /\ Ttl[r] \in Nat \ {0}
    BY RateAssumption DEF RateInv
  <1>3. S \subseteq hitsOf(k)
    BY OpenStampsAreEnough
  <1>4. \A h \in hitsOf(k) : h.at \in Nat /\ h.at <= now /\ h.route = r
    BY RouteOfKey DEF hitsOf, RateInv, HitsAreInThePast, Hit
  <1>5. \A h \in S : h.at + Ttl[r] > now
    BY DEF openStamps
  <1>6. S \subseteq hitsWithin(k, now)
    BY <1>3, <1>4, <1>5 DEF hitsWithin
  <1>7. IsFiniteSet(hitsWithin(k, now)) /\ Cardinality(hitsWithin(k, now)) <= Limit[r]
    <2>1. IsFiniteSet(hitsWithin(k, now))
      BY FS_Subset DEF hitsWithin, hitsOf, RateInv
    <2>2. now \in 0..now
      BY <1>2
    <2> QED
      BY <1>1, <2>1, <2>2 DEF RateInv, AtMostLimit
  <1>8. IsFiniteSet(S) /\ Cardinality(S) \in Nat /\ Cardinality(S) <= Limit[r]
    BY <1>2, <1>6, <1>7, FS_Subset, FS_CardinalityType
  <1>9. Cardinality(S) >= Limit[r]
    BY DEF isFull
  <1>10. T \subseteq Nat /\ T # {}
    <2>1. S # {}
      BY <1>2, <1>9, FS_EmptySet
    <2> QED
      BY <2>1, <1>3, <1>4
  <1>11. Min(T) \in T /\ \A y \in T : Min(T) <= y
    BY <1>10, MinOfNaturals
  <1>12. PICK g \in S : Min(T) = g.at
    BY <1>11
  <1>13. retryAfter(k, r) = g.at + Ttl[r] - now
    BY <1>12 DEF retryAfter
  <1>14. g.at \in Nat /\ g.at + Ttl[r] > now
    BY <1>3, <1>4, <1>5
  <1>15. until \in Nat /\ until >= g.at + Ttl[r]
    <2>1. g.at + Ttl[r] - now \in Nat \ {0}
      BY <1>2, <1>14
    <2>2. /\ inSeconds(g.at + Ttl[r] - now) \in Nat
          /\ inSeconds(g.at + Ttl[r] - now) >= g.at + Ttl[r] - now
      BY <2>1, RoundedUp
    <2>3. until = now + inSeconds(g.at + Ttl[r] - now)
      BY <1>13
    <2> HIDE DEF until
    <2> QED
      BY <2>2, <2>3, <1>2, <1>14
  <1> HIDE DEF until
  <1>16. openAfter(k, r, until) \subseteq S \ {g}
    <2> SUFFICES ASSUME NEW h \in hitsOf(k), h.at + Ttl[r] > until
                 PROVE  h \in S /\ h # g
      BY DEF openAfter
    <2>1. h.at \in Nat /\ h.at <= now /\ h.route = r
      BY <1>4
    <2>2. h.at + Ttl[r] > now
      BY <2>1, <1>2, <1>14, <1>15
    <2>3. h \in hitsWithin(k, now)
      BY <2>1, <2>2 DEF hitsWithin
    <2>4. h \in S
      BY <2>3, OpenStampsAreEnough
    <2> QED
      BY <2>4, <2>1, <1>2, <1>14, <1>15
  <1>17. IsFiniteSet(S \ {g}) /\ Cardinality(S \ {g}) = Cardinality(S) - 1
    <2> HIDE DEF S
    <2> QED
      BY <1>8, FS_RemoveElement
  <1>18. /\ Cardinality(openAfter(k, r, until)) <= Cardinality(S \ {g})
         /\ Cardinality(openAfter(k, r, until)) \in Nat
    BY <1>16, <1>17, FS_Subset, FS_CardinalityType
  <1> HIDE DEF S
  <1>19. until \in Nat /\ Cardinality(openAfter(k, r, until)) < Limit[r]
    BY <1>2, <1>8, <1>15, <1>17, <1>18
  <1> QED
    BY <1>19 DEF until

LEMMA InitTold == Init => ToldInv /\ ToldIsFunction
  BY DEF Init, ToldInv, ToldIsFunction

\* A caller who waited as long as it was told is refused only if somebody else
\* with its key was let through meanwhile.
LEMMA WaitedEnough ==
  ASSUME RateInv, ToldInv, NEW c \in Callers, NEW r \in Routes, Refuse(c, r)
  PROVE  \/ told[<<c, r>>] = NotTold
         \/ told[<<c, r>>].until > now
         \/ Cardinality(hitsOf(buildKey(c, r))) > told[<<c, r>>].seen
  <1> DEFINE k == buildKey(c, r)
             m == told[<<c, r>>]
             n == Cardinality(hitsOf(k))
  <1> SUFFICES ASSUME m # NotTold, ~(m.until > now), ~(n > m.seen)
               PROVE  FALSE
    OBVIOUS
  <1>1. IsFiniteSet(hitsOf(k)) /\ n \in Nat
    BY FS_Subset, FS_CardinalityType DEF hitsOf, RateInv
  <1>2. /\ m.until \in Nat /\ m.seen \in Nat /\ m.seen <= n
        /\ n = m.seen => Cardinality(openAfter(k, r, m.until)) < Limit[r]
    BY DEF ToldInv, IsKept
  <1>3. Cardinality(openAfter(k, r, m.until)) < Limit[r]
    BY <1>1, <1>2
  <1>4. openStamps(k, r) \subseteq openAfter(k, r, m.until)
    <2> SUFFICES ASSUME NEW h \in openStamps(k, r)
                 PROVE  h \in hitsOf(k) /\ h.at + Ttl[r] > m.until
      BY DEF openAfter
    <2>1. h \in hitsOf(k) /\ h.at + Ttl[r] > now
      BY OpenStampsAreEnough DEF openStamps
    <2>2. h.at \in Nat /\ Ttl[r] \in Nat /\ now \in Nat
      BY <2>1, RateAssumption DEF hitsOf, RateInv, Hit
    <2> QED
      BY <2>1, <2>2, <1>2
  <1>5. IsFiniteSet(openAfter(k, r, m.until))
    BY <1>1, FS_Subset DEF openAfter
  <1>6. /\ Cardinality(openStamps(k, r)) <= Cardinality(openAfter(k, r, m.until))
        /\ Cardinality(openStamps(k, r)) \in Nat /\ Cardinality(openAfter(k, r, m.until)) \in Nat
    BY <1>4, <1>5, FS_Subset, FS_CardinalityType
  <1>7. Cardinality(openStamps(k, r)) >= Limit[r] /\ Limit[r] \in Nat
    BY RateAssumption DEF Refuse, isFull
  <1> QED
    BY <1>3, <1>6, <1>7

\* What was told stays so while the hits of the key do.
LEMMA ToldStays ==
  ASSUME NEW m, NEW k, NEW r, IsKept(m, k, r), hitsOf(k)' = hitsOf(k)
  PROVE  IsKept(m, k, r)'
  <1>1. openAfter(k, r, m.until)' = openAfter(k, r, m.until)
    BY DEF openAfter
  <1> QED
    BY <1>1 DEF IsKept

\* The invariant is kept if it is for each caller and route, one by one.
LEMMA EachTold ==
  ASSUME \A c \in Callers, r \in Routes : \A m :
           m = told'[<<c, r>>] /\ m # NotTold => IsKept(m, buildKey(c, r), r)'
  PROVE  ToldInv'
  <1> SUFFICES ASSUME NEW c \in Callers, NEW r \in Routes, told'[<<c, r>>] # NotTold
               PROVE  IsKept(told[<<c, r>>], buildKey(c, r), r)'
    BY DEF ToldInv, buildKey, throttleSubject
  <1>1. PICK m : m = told'[<<c, r>>]
    OBVIOUS
  <1>2. IsKept(m, buildKey(c, r), r)'
    BY <1>1
  <1> QED
    BY <1>1, <1>2 DEF IsKept, openAfter

LEMMA AdmitTold ==
  ASSUME RateInv, ToldInv, ToldIsFunction, NEW c \in Callers, NEW r \in Routes, Admit(c, r)
  PROVE  ToldInv' /\ ToldIsFunction'
  <1> DEFINE k == buildKey(c, r)
             h == [n |-> Cardinality(hitsOf(k)) + 1, caller |-> c, route |-> r, at |-> now]
  <1>1. admitted' = admitted \cup {h} /\ told' = [told EXCEPT ![<<c, r>>] = NotTold]
    BY DEF Admit
  <1>2. ToldIsFunction'
    BY <1>1 DEF ToldIsFunction
  <1>3. ASSUME NEW d \in Callers, NEW s \in Routes, NEW m,
               m = told'[<<d, s>>], m # NotTold
        PROVE  IsKept(m, buildKey(d, s), s)'
    <2> DEFINE q == buildKey(d, s)
    <2>1. m = told[<<d, s>>]
      BY <1>1, <1>3 DEF ToldIsFunction
    <2>2. IsKept(m, q, s)
      BY <1>3, <2>1 DEF ToldInv
    <2>3. CASE q # k \/ h \in hitsOf(q)
      <3>1. hitsOf(q)' = hitsOf(q)
        BY <1>1, <2>3 DEF hitsOf
      <3> QED
        BY <2>2, <3>1, ToldStays
    <2>4. CASE q = k /\ h \notin hitsOf(q)
      <3> DEFINE H == hitsOf(q)
      <3>1. H' = H \cup {h}
        BY <1>1, <2>4 DEF hitsOf
      <3>2. IsFiniteSet(H) /\ Cardinality(H) \in Nat /\ h \notin H
        BY <2>4, FS_Subset, FS_CardinalityType DEF hitsOf, RateInv
      <3>3. Cardinality(H \cup {h}) = Cardinality(H) + 1
        <4> HIDE DEF H, h
        <4> QED
          BY <3>2, FS_AddElement
      <3>4. Cardinality(hitsOf(q)') = Cardinality(hitsOf(q)) + 1
        BY <3>1, <3>3
      <3>5. m.until \in Nat /\ m.seen \in Nat /\ m.seen <= Cardinality(hitsOf(q))
        BY <2>2 DEF IsKept
      <3>6. m.seen < Cardinality(hitsOf(q)')
        BY <3>2, <3>4, <3>5
      <3> QED
        BY <3>2, <3>4, <3>5, <3>6 DEF IsKept
    <2> QED
      BY <2>3, <2>4
  <1> QED
    BY <1>2, <1>3, EachTold

LEMMA RefuseTold ==
  ASSUME RateInv, ToldInv, ToldIsFunction, NEW c \in Callers, NEW r \in Routes, Refuse(c, r)
  PROVE  ToldInv' /\ ToldIsFunction'
  <1> DEFINE k == buildKey(c, r)
             until == now + inSeconds(retryAfter(k, r))
             new == [until |-> until, seen |-> Cardinality(hitsOf(k))]
  <1>1. admitted' = admitted /\ told' = [told EXCEPT ![<<c, r>>] = new] /\ isFull(k, r)
    BY DEF Refuse
  <1>2. ToldIsFunction'
    BY <1>1 DEF ToldIsFunction
  <1>3. until \in Nat /\ Cardinality(openAfter(k, r, until)) < Limit[r]
    BY <1>1, HeaderIsEnough
  <1> HIDE DEF until
  <1>4. Cardinality(hitsOf(k)) \in Nat
    BY FS_Subset, FS_CardinalityType DEF hitsOf, RateInv
  <1>5. \A q : hitsOf(q)' = hitsOf(q)
    BY <1>1 DEF hitsOf
  <1>6. ASSUME NEW d \in Callers, NEW s \in Routes, NEW m,
               m = told'[<<d, s>>], m # NotTold
        PROVE  IsKept(m, buildKey(d, s), s)'
    <2>1. IsKept(m, buildKey(d, s), s)
      <3>1. CASE d = c /\ s = r
        <4>1. m.until = until /\ m.seen = Cardinality(hitsOf(k))
          BY <1>1, <1>6, <3>1 DEF ToldIsFunction
        <4> QED
          BY <3>1, <4>1, <1>3, <1>4 DEF IsKept
      <3>2. CASE d # c \/ s # r
        <4>1. m = told[<<d, s>>]
          BY <1>1, <1>6, <3>2 DEF ToldIsFunction
        <4> QED
          BY <1>6, <4>1 DEF ToldInv
      <3> QED
        BY <3>1, <3>2
    <2> QED
      BY <2>1, <1>5, ToldStays
  <1> QED
    BY <1>2, <1>6, EachTold

LEMMA NextTold ==
  RateInv /\ ToldInv /\ ToldIsFunction /\ [Next]_vars => ToldInv' /\ ToldIsFunction'
  <1> SUFFICES ASSUME RateInv, ToldInv, ToldIsFunction, [Next]_vars
               PROVE  ToldInv' /\ ToldIsFunction'
    OBVIOUS
  <1>1. ASSUME NEW c \in Callers, NEW r \in Routes, Admit(c, r) \/ Refuse(c, r)
        PROVE  ToldInv' /\ ToldIsFunction'
    BY <1>1, AdmitTold, RefuseTold
  <1>2. CASE UNCHANGED <<told, admitted>>
    <2>1. \A q : hitsOf(q)' = hitsOf(q)
      BY <1>2 DEF hitsOf
    <2>2. ASSUME NEW d \in Callers, NEW s \in Routes, NEW m,
                 m = told'[<<d, s>>], m # NotTold
          PROVE  IsKept(m, buildKey(d, s), s)'
      <3>1. IsKept(m, buildKey(d, s), s)
        BY <1>2, <2>2 DEF ToldInv
      <3> QED
        BY <2>1, <3>1, ToldStays
    <2> QED
      BY <1>2, <2>2, EachTold DEF ToldIsFunction
  <1> QED
    BY <1>1, <1>2 DEF Next, Tick, vars

\* Who waits as long as Retry-After said is let through, whatever the limit, the
\* window and the rounding to seconds, unless another call with the same key took
\* the room meanwhile (RateWindows.hit, ThrottleGuard).
THEOREM WaitingIsAlwaysEnough == Spec => RetryAfterIsEnough
  <1>1. RateInv /\ ToldInv /\ [Next]_vars =>
          [\A c \in Callers, r \in Routes :
             Refuse(c, r) =>
               \/ told[<<c, r>>] = NotTold
               \/ told[<<c, r>>].until > now
               \/ Cardinality(hitsOf(buildKey(c, r))) > told[<<c, r>>].seen]_vars
    BY WaitedEnough
  <1> QED
    BY <1>1, InitRate, NextRate, InitTold, NextTold, PTL DEF Spec, RetryAfterIsEnough

=============================================================================
