--------------------------- MODULE FamilyBuildProofs ---------------------------
(***************************************************************************)
(* What the parts of a family build promise, and that they still do under  *)
(* it.  The segment cache comes first, on its own.  Every step of the      *)
(* build is then a step of the connection pool, of the memo and of the     *)
(* segment cache, which takes an invariant of the build: what a thread's   *)
(* plan may hold and where a thread is in its call.  The same invariant    *)
(* says what a prewarmed task leaves in the memo, and why no thread of a   *)
(* build ever waits for nothing.                                           *)
(***************************************************************************)
EXTENDS FamilyBuild, PoolAndMemoProofs, SequenceTheorems

-----------------------------------------------------------------------------
(***************************************************************************)
(* The segment cache.                                                      *)
(***************************************************************************)

\* A leg from a to b that is charged the passages of its pair.
Between(leg, a, b) ==
  leg \in Leg /\ leg.from = a /\ leg.to = b /\ leg.passages = PassagesOn[{a, b}]

\* A table: each row runs from its pair's lower stop to its higher one.
RowsFit(rows) ==
  /\ rows \in [Pair -> Leg \cup {NoRow}]
  /\ \A p \in Pair : rows[p] # NoRow => Between(rows[p], Lo(p), Hi(p))

\* The legs so far follow the trip and share out the passages.
LegsFit(legs, trip) ==
  /\ \A i \in DOMAIN legs : legs[i].from = trip[i] /\ legs[i].to = trip[i + 1]
  /\ \A i, j \in DOMAIN legs : i # j => legs[i].passages \cap legs[j].passages = {}
  /\ Claimed(legs) = UNION {PassagesOn[{legs[i].from, legs[i].to}] : i \in DOMAIN legs}

\* What a routing thread has in hand.
LookupFits(l) ==
  /\ l \in [trip : Seq(Stop), rows : [Pair -> Leg \cup {NoRow}],
            legs : Seq(Leg), live : Leg \cup {NoRow}]
  /\ RowsFit(l.rows)
  /\ l.trip = <<>> => l.legs = <<>> /\ l.live = NoRow
  /\ l.trip # <<>> => Routable(l.trip) /\ Len(l.legs) < Len(l.trip)
  /\ l.live # NoRow =>
       /\ Len(l.legs) + 1 < Len(l.trip)
       /\ Between(l.live, l.trip[Len(l.legs) + 1], l.trip[Len(l.legs) + 2])
       /\ l.rows[{l.live.from, l.live.to}] = NoRow
  /\ LegsFit(l.legs, l.trip)

\* What a starting process is at.
Booting == [at : {"off", "asked", "purge", "record"}, date : 1..MaxImport \cup {NoDate},
            doomed : SUBSET Pair]

SegmentInv ==
  /\ RowsFit(segments)
  /\ stamp \in 1..MaxImport \cup {NoDate} /\ served \in 1..MaxImport
  /\ booting \in [Booter -> Booting] /\ late \subseteq Pair
  /\ lookup = [t \in Router |-> lookup[t]]
  /\ \A t \in Router : LookupFits(lookup[t])

\* The ends of a pair are its two stops.
LEMMA EndsOfPair ==
  ASSUME NEW a \in Stop, NEW b \in Stop, a # b
  PROVE  /\ {a, b} \in Pair
         /\ Lo({a, b}) = IF a < b THEN a ELSE b
         /\ Hi({a, b}) = IF a < b THEN b ELSE a
  <1>1. a \in Nat /\ b \in Nat BY SegmentAssumption
  <1>2. {a, b} \in Pair BY DEF Pair
  <1> DEFINE low == IF a < b THEN a ELSE b
             high == IF a < b THEN b ELSE a
  <1>3. low \in {a, b} /\ (\A y \in {a, b} : low <= y) /\ high \in {a, b} /\ (\A y \in {a, b} : high >= y)
    BY <1>1
  <1>4. \A x \in {a, b} : (\A y \in {a, b} : x <= y) => x = low BY <1>1
  <1>5. \A x \in {a, b} : (\A y \in {a, b} : x >= y) => x = high BY <1>1
  <1>6. Lo({a, b}) = low BY <1>3, <1>4 DEF Lo, Min
  <1>7. Hi({a, b}) = high BY <1>3, <1>5 DEF Hi, Max
  <1> QED BY <1>2, <1>6, <1>7

LEMMA PairOfEnds ==
  ASSUME NEW p \in Pair
  PROVE  /\ Lo(p) \in Stop /\ Hi(p) \in Stop /\ Lo(p) < Hi(p)
         /\ p = {Lo(p), Hi(p)}
  <1>1. PICK a \in p : \E b \in p \ {a} : p = {a, b} BY DEF Pair
  <1>2. PICK b \in p \ {a} : p = {a, b} BY <1>1
  <1>3. a \in Stop /\ b \in Stop /\ a # b /\ a \in Nat /\ b \in Nat BY <1>2, SegmentAssumption DEF Pair
  <1>4. Lo(p) = (IF a < b THEN a ELSE b) /\ Hi(p) = (IF a < b THEN b ELSE a)
    BY <1>2, <1>3, EndsOfPair
  <1> QED BY <1>2, <1>3, <1>4

\* The routing instance answers the pair it is asked for.
LEMMA LiveLegFits ==
  ASSUME NEW a \in Stop, NEW b \in Stop, a # b, NEW date \in 1..MaxImport
  PROVE  Between(LiveLeg(a, b, date), a, b)
  <1>1. {a, b} \in Pair BY EndsOfPair
  <1>2. PassagesOn[{a, b}] \subseteq UNION {PassagesOn[p] : p \in Pair} BY <1>1
  <1>3. (a < b) \in BOOLEAN BY SegmentAssumption
  <1> QED BY <1>1, <1>2, <1>3 DEF Between, LiveLeg, Leg, Corridor

\* A leg turned, or not, to run from the pair's lower stop.
LEMMA OrientedFits ==
  ASSUME NEW a, NEW b, NEW leg, Between(leg, a, b), NEW reverse
  PROVE  /\ reverse => Between(Oriented(leg, reverse), b, a)
         /\ ~reverse => Between(Oriented(leg, reverse), a, b)
  <1>1. {b, a} = {a, b} OBVIOUS
  <1>2. CASE reverse
    <2>1. Oriented(leg, reverse) = [leg EXCEPT !.from = leg.to, !.to = leg.from] BY <1>2 DEF Oriented
    <2> QED BY <1>1, <1>2, <2>1 DEF Between, Leg
  <1>3. CASE ~reverse
    <2>1. Oriented(leg, reverse) = leg BY <1>3 DEF Oriented
    <2> QED BY <1>3, <2>1
  <1> QED BY <1>2, <1>3

LEMMA OrientedStaysLeg ==
  ASSUME NEW a, NEW b, NEW leg, Between(leg, a, b), NEW reverse
  PROVE  Oriented(leg, reverse) \in Leg
  <1>1. /\ reverse => Between(Oriented(leg, reverse), b, a)
        /\ ~reverse => Between(Oriented(leg, reverse), a, b)
    BY OrientedFits
  <1>2. reverse \/ ~reverse OBVIOUS
  <1> QED BY <1>1, <1>2 DEF Between

LEMMA RowForTable ==
  ASSUME NEW a \in Stop, NEW b \in Stop, a # b, NEW leg, Between(leg, a, b)
  PROVE  Between(Oriented(leg, a # Lo({a, b})), Lo({a, b}), Hi({a, b}))
  <1> DEFINE turned == a # Lo({a, b})
  <1>1. a \in Nat /\ b \in Nat BY SegmentAssumption
  <1>2. /\ turned => Between(Oriented(leg, turned), b, a)
        /\ ~turned => Between(Oriented(leg, turned), a, b)
    BY OrientedFits
  <1>3. CASE a < b
    <2>1. Lo({a, b}) = a /\ Hi({a, b}) = b BY <1>3, EndsOfPair
    <2> QED BY <1>2, <2>1
  <1>4. CASE b < a
    <2>1. Lo({a, b}) = b /\ Hi({a, b}) = a BY <1>1, <1>4, EndsOfPair
    <2> QED BY <1>2, <2>1
  <1> QED BY <1>1, <1>3, <1>4

LEMMA RowForTrip ==
  ASSUME NEW a \in Stop, NEW b \in Stop, a # b,
         NEW leg, Between(leg, Lo({a, b}), Hi({a, b}))
  PROVE  Between(Oriented(leg, a # Lo({a, b})), a, b)
  <1> DEFINE turned == a # Lo({a, b})
  <1>1. a \in Nat /\ b \in Nat BY SegmentAssumption
  <1>2. /\ turned => Between(Oriented(leg, turned), Hi({a, b}), Lo({a, b}))
        /\ ~turned => Between(Oriented(leg, turned), Lo({a, b}), Hi({a, b}))
    BY OrientedFits
  <1>3. CASE a < b
    <2>1. Lo({a, b}) = a /\ Hi({a, b}) = b BY <1>3, EndsOfPair
    <2> QED BY <1>2, <2>1
  <1>4. CASE b < a
    <2>1. Lo({a, b}) = b /\ Hi({a, b}) = a BY <1>1, <1>4, EndsOfPair
    <2> QED BY <1>2, <2>1
  <1> QED BY <1>1, <1>3, <1>4

\* A table stays one when a row is added.
LEMMA AddRowFits ==
  ASSUME NEW rows, RowsFit(rows), NEW p \in Pair, NEW leg, Between(leg, Lo(p), Hi(p))
  PROVE  RowsFit([rows EXCEPT ![p] = leg])
  BY DEF RowsFit, Between

\* One more leg, with what is left of its passages.
LEMMA ClaimFits ==
  ASSUME NEW legs \in Seq(Leg), NEW trip \in Seq(Stop), LegsFit(legs, trip),
         NEW leg, Between(leg, trip[Len(legs) + 1], trip[Len(legs) + 2])
  PROVE  /\ Claim(legs, leg) \in Seq(Leg) /\ Len(Claim(legs, leg)) = Len(legs) + 1
         /\ LegsFit(Claim(legs, leg), trip)
  <1> DEFINE n == Len(legs)
             rest == [leg EXCEPT !.passages = leg.passages \ Claimed(legs)]
             more == Claim(legs, leg)
  <1>1. /\ rest \in Leg /\ rest.from = leg.from /\ rest.to = leg.to
        /\ rest.passages = leg.passages \ Claimed(legs)
    BY DEF Between, Leg
  <1>2. more = Append(legs, rest) BY DEF Claim
  <1>3. n \in Nat /\ DOMAIN legs = 1..n OBVIOUS
  <1> HIDE DEF rest, more
  <1>4. /\ more \in Seq(Leg) /\ Len(more) = n + 1 /\ DOMAIN more = 1 .. n + 1
        /\ more[n + 1] = rest /\ \A i \in 1..n : more[i] = legs[i]
    BY <1>1, <1>2, <1>3
  <1>5. \A i \in 1..n : legs[i].passages \subseteq Claimed(legs) BY <1>3 DEF Claimed
  <1>6. \A i \in DOMAIN more : more[i].from = trip[i] /\ more[i].to = trip[i + 1]
    <2> SUFFICES ASSUME NEW i \in 1 .. n + 1 PROVE more[i].from = trip[i] /\ more[i].to = trip[i + 1]
      BY <1>4
    <2>1. CASE i \in 1..n BY <1>3, <1>4, <2>1 DEF LegsFit
    <2>2. CASE i = n + 1
      <3>1. i + 1 = n + 2 BY <2>2, <1>3
      <3> QED BY <1>1, <1>4, <2>2, <3>1 DEF Between
    <2> QED BY <1>3, <2>1, <2>2
  <1>7. \A i, j \in DOMAIN more : i # j => more[i].passages \cap more[j].passages = {}
    <2> SUFFICES ASSUME NEW i \in 1 .. n + 1, NEW j \in 1 .. n + 1, i # j
        PROVE more[i].passages \cap more[j].passages = {}
      BY <1>4
    <2>1. CASE i \in 1..n /\ j \in 1..n BY <1>3, <1>4, <2>1 DEF LegsFit
    <2>2. CASE i \in 1..n /\ j = n + 1 BY <1>1, <1>4, <1>5, <2>2
    <2>3. CASE j \in 1..n /\ i = n + 1 BY <1>1, <1>4, <1>5, <2>3
    <2> QED BY <1>3, <2>1, <2>2, <2>3
  <1>8. Claimed(more) = Claimed(legs) \cup leg.passages
    <2>1. Claimed(more) = Claimed(legs) \cup rest.passages
      <3>1. ASSUME NEW x \in Claimed(more) PROVE x \in Claimed(legs) \cup rest.passages
        BY <1>3, <1>4, <3>1 DEF Claimed
      <3>2. ASSUME NEW x \in Claimed(legs) \cup rest.passages PROVE x \in Claimed(more)
        BY <1>3, <1>4, <3>2 DEF Claimed
      <3> QED BY <3>1, <3>2
    <2> QED BY <1>1, <2>1
  <1>9. UNION {PassagesOn[{more[i].from, more[i].to}] : i \in DOMAIN more}
          = (UNION {PassagesOn[{legs[i].from, legs[i].to}] : i \in DOMAIN legs}) \cup leg.passages
    <2> DEFINE on(l) == PassagesOn[{l.from, l.to}]
               A == UNION {on(more[i]) : i \in DOMAIN more}
               B == UNION {on(legs[i]) : i \in DOMAIN legs}
    <2>1. on(rest) = leg.passages BY <1>1 DEF Between
    <2>2. \A i \in 1..n : on(more[i]) = on(legs[i]) BY <1>4
    <2>3. on(more[n + 1]) = leg.passages BY <1>4, <2>1
    <2> HIDE DEF on
    <2>4. ASSUME NEW x \in A PROVE x \in B \cup leg.passages
      BY <1>3, <1>4, <2>2, <2>3, <2>4
    <2>5. ASSUME NEW x \in B \cup leg.passages PROVE x \in A
      BY <1>3, <1>4, <2>2, <2>3, <2>5
    <2>6. A = B \cup leg.passages BY <2>4, <2>5
    <2> QED BY <2>6 DEF on
  <1>10. Claimed(more) = UNION {PassagesOn[{more[i].from, more[i].to}] : i \in DOMAIN more}
    <2>1. Claimed(legs) = UNION {PassagesOn[{legs[i].from, legs[i].to}] : i \in DOMAIN legs}
      BY DEF LegsFit
    <2> QED BY <1>8, <1>9, <2>1
  <1>11. LegsFit(more, trip) BY <1>6, <1>7, <1>10 DEF LegsFit
  <1>12. Len(more) = Len(legs) + 1 BY <1>4
  <1> QED BY <1>4, <1>11, <1>12 DEF more

LEMMA NothingInHand == RowsFit(NoRows) /\ LookupFits(NoLookup)
  <1>1. RowsFit(NoRows) BY DEF RowsFit, NoRows
  <1>2. LegsFit(<<>>, <<>>) BY DEF LegsFit, Claimed
  <1> QED BY <1>1, <1>2 DEF LookupFits, NoLookup, RowsFit

LEMMA SegmentInitInv == SegmentInit => SegmentInv
  BY NothingInHand, SegmentAssumption DEF SegmentInit, SegmentInv, Booting, Off

\* One thread puts down what it has in hand for something that fits.
LEMMA LookupStep ==
  ASSUME SegmentInv, NEW t \in Router, NEW l, LookupFits(l),
         lookup' = [lookup EXCEPT ![t] = l], RowsFit(segments)',
         UNCHANGED <<stamp, served, booting>>, late' \subseteq Pair
  PROVE  SegmentInv'
  BY DEF SegmentInv

\* The next pair of a trip that is not assembled.
LEMMA NextPair ==
  ASSUME SegmentInv, NEW t \in Router, Routing(t), ~Assembled(t)
  PROVE  /\ From(t) \in Stop /\ To(t) \in Stop /\ From(t) # To(t)
         /\ {From(t), To(t)} \in Pair
         /\ Len(lookup[t].legs) + 1 < Len(lookup[t].trip)
         /\ Row(t) = lookup[t].rows[{From(t), To(t)}]
         /\ Row(t) # NoRow => lookup[t].live = NoRow
  <1> DEFINE l == lookup[t]
             n == Len(l.legs)
  <1>1. /\ LookupFits(l) /\ l.trip # <<>> /\ n # Len(l.trip) - 1
    BY DEF SegmentInv, Routing, Assembled
  <1>2. /\ l.trip \in Seq(Stop) /\ l.legs \in Seq(Leg) /\ Routable(l.trip) /\ n < Len(l.trip)
    BY <1>1 DEF LookupFits
  <1>3. n \in Nat /\ Len(l.trip) \in Nat BY <1>2
  <1>4. n + 1 \in 1 .. Len(l.trip) - 1 /\ (n + 1) + 1 = n + 2 /\ n + 2 \in 1 .. Len(l.trip)
    <2> DEFINE m == Len(l.trip)
    <2>1. n \in Nat /\ m \in Nat /\ n < m /\ n # m - 1 BY <1>1, <1>2, <1>3
    <2> HIDE DEF n, m
    <2>2. n + 1 \in 1 .. m - 1 /\ (n + 1) + 1 = n + 2 /\ n + 2 \in 1 .. m BY <2>1
    <2> QED BY <2>2 DEF m
  <1>5. From(t) = l.trip[n + 1] /\ To(t) = l.trip[n + 2] BY DEF From, To
  <1>6. From(t) \in Stop /\ To(t) \in Stop /\ From(t) # To(t)
    <2> DEFINE trip == l.trip
               m == n + 1
    <2>1. m \in 1 .. Len(trip) - 1 /\ m + 1 = n + 2 /\ m + 1 \in 1 .. Len(trip) BY <1>4
    <2>2. From(t) = trip[m] /\ To(t) = trip[m + 1] BY <1>5, <2>1
    <2>3. trip \in Seq(Stop) /\ \A i \in 1 .. Len(trip) - 1 : trip[i] # trip[i + 1]
      BY <1>2 DEF Routable
    <2> HIDE DEF trip, m
    <2>4. m \in 1 .. Len(trip) BY <2>1, <2>3
    <2>5. trip[m] \in Stop /\ trip[m + 1] \in Stop BY <2>1, <2>3, <2>4
    <2> QED BY <2>1, <2>2, <2>3, <2>5
  <1>7. l.live # NoRow => l.live.from = From(t) /\ l.live.to = To(t) /\ l.rows[{l.live.from, l.live.to}] = NoRow
    BY <1>1, <1>5 DEF LookupFits, Between
  <1>8. n + 1 < Len(l.trip)
    <2> HIDE DEF n, l
    <2> QED BY <1>3, <1>4
  <1>9. Row(t) = l.rows[{From(t), To(t)}] BY DEF Row
  <1> QED BY <1>6, <1>7, <1>8, <1>9, EndsOfPair

LEMMA FetchInv ==
  ASSUME SegmentInv, NEW t \in Router, NEW trip, Routable(trip),
         NEW answered \in BOOLEAN, Fetch(t, trip, answered)
  PROVE  SegmentInv'
  <1> DEFINE asked(p) == answered /\ \E i \in 1 .. Len(trip) - 1 : p = {trip[i], trip[i + 1]}
             rows == [p \in Pair |-> IF asked(p) THEN segments[p] ELSE NoRow]
             l == [NoLookup EXCEPT !.trip = trip, !.rows = rows]
  <1>1. lookup' = [lookup EXCEPT ![t] = l] BY DEF Fetch
  <1> HIDE DEF asked
  <1>2. RowsFit(rows) BY DEF RowsFit, SegmentInv
  <1> HIDE DEF rows
  <1>3. LegsFit(<<>>, trip) BY DEF LegsFit, Claimed
  <1>4. trip \in Seq(Stop) /\ Len(trip) > 1 BY DEF Routable
  <1>5. /\ NoLookup \in [trip : Seq(Stop), rows : [Pair -> Leg \cup {NoRow}],
                         legs : Seq(Leg), live : Leg \cup {NoRow}]
        /\ NoLookup.legs = <<>> /\ NoLookup.live = NoRow
    BY NothingInHand DEF LookupFits, NoLookup
  <1>6. /\ l \in [trip : Seq(Stop), rows : [Pair -> Leg \cup {NoRow}],
                  legs : Seq(Leg), live : Leg \cup {NoRow}]
        /\ l.trip = trip /\ l.rows = rows /\ l.legs = <<>> /\ l.live = NoRow
    BY <1>2, <1>4, <1>5 DEF RowsFit
  <1> HIDE DEF l
  <1>7. LookupFits(l) BY <1>2, <1>3, <1>4, <1>6 DEF LookupFits
  <1>8. RowsFit(segments)' BY DEF Fetch, SegmentInv
  <1>9. UNCHANGED <<stamp, served, booting>> /\ late' \subseteq Pair BY DEF Fetch, SegmentInv
  <1> QED BY <1>1, <1>7, <1>8, <1>9, LookupStep

\* A leg for the next pair is taken up, and nothing is left to store.
LEMMA TakeLegInv ==
  ASSUME SegmentInv, NEW t \in Router, Routing(t), ~Assembled(t),
         NEW leg, Between(leg, From(t), To(t)), RowsFit(segments)',
         lookup' = [lookup EXCEPT ![t] = [lookup[t] EXCEPT !.legs = Claim(lookup[t].legs, leg), !.live = NoRow]],
         UNCHANGED <<stamp, served, booting>>, late' \subseteq Pair
  PROVE  SegmentInv'
  <1> DEFINE l == lookup[t]
             more == Claim(l.legs, leg)
             k == [l EXCEPT !.legs = more, !.live = NoRow]
  <1>1. LookupFits(l) /\ l.trip # <<>> BY DEF SegmentInv, Routing
  <1>2. /\ l \in [trip : Seq(Stop), rows : [Pair -> Leg \cup {NoRow}],
                  legs : Seq(Leg), live : Leg \cup {NoRow}]
        /\ LegsFit(l.legs, l.trip) /\ Routable(l.trip) /\ RowsFit(l.rows)
    BY <1>1 DEF LookupFits
  <1>3. more \in Seq(Leg) /\ Len(more) = Len(l.legs) + 1 /\ LegsFit(more, l.trip)
    BY <1>2, ClaimFits DEF From, To
  <1>4. Len(l.legs) + 1 < Len(l.trip) BY NextPair
  <1> HIDE DEF more
  <1>5. /\ k.trip = l.trip /\ k.rows = l.rows /\ k.legs = more /\ k.live = NoRow
        /\ k \in [trip : Seq(Stop), rows : [Pair -> Leg \cup {NoRow}],
                  legs : Seq(Leg), live : Leg \cup {NoRow}]
    BY <1>2, <1>3
  <1> HIDE DEF k, l
  <1>6. LookupFits(k) BY <1>1, <1>2, <1>3, <1>4, <1>5 DEF LookupFits
  <1> QED BY <1>6, LookupStep DEF k, l, more

LEMMA TakeCachedInv ==
  ASSUME SegmentInv, NEW t \in Router, TakeCached(t)
  PROVE  SegmentInv'
  <1> DEFINE l == lookup[t]
             leg == Oriented(Row(t), From(t) # Lo({From(t), To(t)}))
  <1>1. /\ Routing(t) /\ ~Assembled(t) /\ Row(t) # NoRow /\ segments' = segments
        /\ lookup' = [lookup EXCEPT ![t] = [l EXCEPT !.legs = Claim(l.legs, leg)]]
        /\ UNCHANGED <<stamp, served, booting, late>>
    BY DEF TakeCached
  <1>2. /\ From(t) \in Stop /\ To(t) \in Stop /\ From(t) # To(t) /\ {From(t), To(t)} \in Pair
        /\ Row(t) = l.rows[{From(t), To(t)}] /\ l.live = NoRow
    BY <1>1, NextPair
  <1>3. RowsFit(l.rows) BY DEF SegmentInv, LookupFits
  <1>4. Between(Row(t), Lo({From(t), To(t)}), Hi({From(t), To(t)})) BY <1>1, <1>2, <1>3 DEF RowsFit
  <1>5. Between(leg, From(t), To(t)) BY <1>2, <1>4, RowForTrip
  <1> HIDE DEF leg
  <1>6. [l EXCEPT !.legs = Claim(l.legs, leg)] = [l EXCEPT !.legs = Claim(l.legs, leg), !.live = NoRow]
    BY <1>2 DEF SegmentInv, LookupFits
  <1>7. RowsFit(segments)' /\ late' \subseteq Pair BY <1>1 DEF SegmentInv
  <1> QED BY <1>1, <1>5, <1>6, <1>7, TakeLegInv

LEMMA RouteLiveInv ==
  ASSUME SegmentInv, NEW t \in Router, RouteLive(t)
  PROVE  SegmentInv'
  <1> DEFINE l == lookup[t]
             live == LiveLeg(From(t), To(t), served)
             k == [l EXCEPT !.live = live]
  <1>1. /\ Routing(t) /\ ~Assembled(t) /\ Row(t) = NoRow
        /\ lookup' = [lookup EXCEPT ![t] = k] /\ UNCHANGED <<segments, stamp, served, booting, late>>
    BY DEF RouteLive
  <1>2. /\ From(t) \in Stop /\ To(t) \in Stop /\ From(t) # To(t)
        /\ Len(l.legs) + 1 < Len(l.trip) /\ Row(t) = l.rows[{From(t), To(t)}]
    BY <1>1, NextPair
  <1>3. Between(live, From(t), To(t)) BY <1>2, LiveLegFits DEF SegmentInv
  <1>4. LookupFits(l) BY DEF SegmentInv
  <1>5. live \in Leg /\ live.from = From(t) /\ live.to = To(t) BY <1>3 DEF Between
  <1> HIDE DEF live
  <1>6. /\ k.trip = l.trip /\ k.rows = l.rows /\ k.legs = l.legs /\ k.live = live
        /\ k \in [trip : Seq(Stop), rows : [Pair -> Leg \cup {NoRow}],
                  legs : Seq(Leg), live : Leg \cup {NoRow}]
    BY <1>4, <1>5 DEF LookupFits
  <1>7. From(t) = l.trip[Len(l.legs) + 1] /\ To(t) = l.trip[Len(l.legs) + 2] /\ l.trip # <<>>
    BY <1>1 DEF From, To, Routing
  <1> HIDE DEF k
  <1>8. LookupFits(k)
    <2>1. Between(k.live, k.trip[Len(k.legs) + 1], k.trip[Len(k.legs) + 2]) BY <1>3, <1>6, <1>7
    <2>2. k.rows[{k.live.from, k.live.to}] = NoRow BY <1>1, <1>2, <1>5, <1>6
    <2> QED BY <1>2, <1>4, <1>6, <1>7, <2>1, <2>2 DEF LookupFits
  <1>9. RowsFit(segments)' /\ late' \subseteq Pair BY <1>1 DEF SegmentInv
  <1> QED BY <1>1, <1>8, <1>9, LookupStep

LEMMA PutDownInv ==
  ASSUME SegmentInv, NEW t \in Router, RouteFails(t) \/ HandOver(t)
  PROVE  SegmentInv'
  <1>1. /\ lookup' = [lookup EXCEPT ![t] = NoLookup] /\ UNCHANGED <<segments, stamp, served, booting, late>>
    BY DEF RouteFails, HandOver
  <1>2. RowsFit(segments)' /\ late' \subseteq Pair BY <1>1 DEF SegmentInv
  <1> QED BY <1>1, <1>2, NothingInHand, LookupStep

LEMMA StoreLegInv ==
  ASSUME SegmentInv, NEW t \in Router, NEW stored \in BOOLEAN, StoreLeg(t, stored)
  PROVE  SegmentInv'
  <1> DEFINE l == lookup[t]
             leg == l.live
             pair == {leg.from, leg.to}
             row == Oriented(leg, leg.from # Lo(pair))
  <1>1. /\ Routing(t) /\ leg # NoRow /\ UNCHANGED <<stamp, served, booting>>
        /\ segments' = IF stored /\ segments[pair] = NoRow
                       THEN [segments EXCEPT ![pair] = row] ELSE segments
        /\ late' \subseteq late \cup {pair}
        /\ lookup' = [lookup EXCEPT ![t] = [l EXCEPT !.legs = Claim(l.legs, leg), !.live = NoRow]]
    BY DEF StoreLeg, Insert
  <1>2. /\ LookupFits(l) /\ l.legs \in Seq(Leg) /\ l.trip \in Seq(Stop) /\ l.trip # <<>>
        /\ Len(l.legs) + 1 < Len(l.trip)
        /\ Between(leg, From(t), To(t))
    BY <1>1 DEF SegmentInv, LookupFits, From, To, Routing
  <1>3. ~Assembled(t)
    <2>1. Len(l.legs) \in Nat /\ Len(l.trip) \in Nat BY <1>2
    <2> QED BY <1>2, <2>1 DEF Assembled
  <1>4. From(t) \in Stop /\ To(t) \in Stop /\ From(t) # To(t) /\ {From(t), To(t)} \in Pair
    BY <1>1, <1>3, NextPair
  <1>5. leg.from = From(t) /\ leg.to = To(t) /\ pair = {From(t), To(t)} BY <1>2 DEF Between
  <1>6. Between(row, Lo(pair), Hi(pair)) BY <1>2, <1>4, <1>5, RowForTable
  <1> HIDE DEF row, leg, l
  <1>7. RowsFit(segments) BY DEF SegmentInv
  <1>8. RowsFit(segments')
    <2>1. RowsFit([segments EXCEPT ![pair] = row]) BY <1>4, <1>5, <1>6, <1>7, AddRowFits
    <2> QED BY <1>1, <1>7, <2>1
  <1>9. RowsFit(segments)' BY <1>8 DEF RowsFit
  <1>10. late' \subseteq Pair BY <1>1, <1>4, <1>5 DEF SegmentInv
  <1> QED BY <1>1, <1>2, <1>3, <1>9, <1>10, TakeLegInv DEF l, leg

LEMMA StoreElsewhereInv ==
  ASSUME SegmentInv, NEW pair \in Pair, NEW up \in BOOLEAN, NEW date \in 1..MaxImport,
         StoreElsewhere(pair, up, date)
  PROVE  SegmentInv'
  <1> DEFINE a == IF up THEN Lo(pair) ELSE Hi(pair)
             b == IF up THEN Hi(pair) ELSE Lo(pair)
             row == Oriented(LiveLeg(a, b, date), ~up)
  <1>1. /\ segments' = [segments EXCEPT ![pair] = row] /\ UNCHANGED <<stamp, served, lookup, booting>>
        /\ late' \subseteq late \cup {pair}
    BY DEF StoreElsewhere, Insert
  <1>2. Lo(pair) \in Stop /\ Hi(pair) \in Stop /\ Lo(pair) # Hi(pair)
    <2>1. Lo(pair) \in Stop /\ Hi(pair) \in Stop /\ Lo(pair) < Hi(pair) BY PairOfEnds
    <2>2. Lo(pair) \in Nat /\ Hi(pair) \in Nat BY <2>1, SegmentAssumption
    <2> QED BY <2>1, <2>2
  <1>3. Between(LiveLeg(a, b, date), a, b)
    <2>1. a \in Stop /\ b \in Stop /\ a # b BY <1>2
    <2> HIDE DEF a, b
    <2> QED BY <2>1, LiveLegFits
  <1>4. Between(row, Lo(pair), Hi(pair)) BY <1>3, OrientedFits
  <1> HIDE DEF row
  <1>5. RowsFit([segments EXCEPT ![pair] = row]) BY <1>4, AddRowFits DEF SegmentInv
  <1>6. RowsFit(segments)' BY <1>1, <1>5 DEF RowsFit
  <1> QED BY <1>1, <1>6 DEF SegmentInv

LEMMA ReimportInv ==
  ASSUME SegmentInv, Reimport
  PROVE  SegmentInv'
  <1>1. served' \in 1..MaxImport BY SegmentAssumption DEF Reimport, SegmentInv
  <1> QED BY <1>1 DEF Reimport, SegmentInv, RowsFit

LEMMA SyncInv ==
  ASSUME SegmentInv, NEW b \in Booter, SyncStep(b)
  PROVE  SegmentInv'
  <1>1. /\ booting \in [Booter -> Booting] /\ late \subseteq Pair
        /\ segments \in [Pair -> Leg \cup {NoRow}] /\ served \in 1..MaxImport
        /\ stamp \in 1..MaxImport \cup {NoDate}
    BY DEF SegmentInv, RowsFit
  <1>2. Off \in Booting BY DEF Off, Booting
  <1>3. CASE ReadDate(b) \/ SyncFails(b)
    <2>1. [Off EXCEPT !.at = "asked", !.date = served] \in Booting BY <1>1 DEF Off, Booting
    <2>2. booting' \in [Booter -> Booting] BY <1>1, <1>2, <1>3, <2>1 DEF ReadDate, SyncFails
    <2> QED BY <1>3, <2>2 DEF ReadDate, SyncFails, SegmentInv, RowsFit
  <1>4. CASE ReadStored(b) \/ PurgeRows(b)
    <2>1. Stored \subseteq Pair BY DEF Stored
    <2>2. booting' \in [Booter -> Booting] BY <1>1, <1>4, <2>1 DEF ReadStored, PurgeRows, Booting
    <2> QED BY <1>4, <2>2 DEF ReadStored, PurgeRows, SegmentInv, RowsFit
  <1>5. CASE Record(b)
    <2> DEFINE gone == booting[b].doomed
    <2>1. stamp' \in 1..MaxImport \cup {NoDate} BY <1>1, <1>5 DEF Record, Booting
    <2>2. booting' \in [Booter -> Booting]
      <3>1. \A o \in Booter : [booting[o] EXCEPT !.doomed = @ \ gone] \in Booting BY <1>1 DEF Booting
      <3> HIDE DEF gone
      <3>2. booting' = [o \in Booter |-> IF o = b THEN Off ELSE [booting[o] EXCEPT !.doomed = @ \ gone]]
        BY <1>5 DEF Record, gone
      <3> QED BY <1>2, <3>1, <3>2
    <2>3. RowsFit(segments)' BY <1>5 DEF Record, SegmentInv, RowsFit
    <2>4. late' \subseteq Pair BY <1>1, <1>5 DEF Record
    <2> QED BY <1>5, <2>1, <2>2, <2>3, <2>4 DEF Record, SegmentInv
  <1> QED BY <1>3, <1>4, <1>5 DEF SyncStep

LEMMA SegmentStepInv == SegmentInv /\ [SegmentNext]_segmentVars => SegmentInv'
  <1> SUFFICES ASSUME SegmentInv, [SegmentNext]_segmentVars PROVE SegmentInv' OBVIOUS
  <1>1. CASE UNCHANGED segmentVars BY <1>1 DEF segmentVars, SegmentInv, RowsFit
  <1>2. CASE \E t \in Router : \E trip \in Seq(Stop), answered \in BOOLEAN :
               Routable(trip) /\ Fetch(t, trip, answered)
    BY <1>2, FetchInv
  <1>3. CASE \E t \in Router : TakeCached(t) BY <1>3, TakeCachedInv
  <1>4. CASE \E t \in Router : RouteLive(t) BY <1>4, RouteLiveInv
  <1>5. CASE \E t \in Router : RouteFails(t) \/ HandOver(t) BY <1>5, PutDownInv
  <1>6. CASE \E t \in Router : \E stored \in BOOLEAN : StoreLeg(t, stored) BY <1>6, StoreLegInv
  <1>7. CASE \E pair \in Pair, up \in BOOLEAN, date \in 1 .. MaxImport : StoreElsewhere(pair, up, date)
    BY <1>7, StoreElsewhereInv
  <1>8. CASE Reimport \/ \E b \in Booter : SyncStep(b) BY <1>8, ReimportInv, SyncInv
  <1> QED BY <1>1, <1>2, <1>3, <1>4, <1>5, <1>6, <1>7, <1>8 DEF SegmentNext

LEMMA InvLegsFollow == SegmentInv => LegsFollowTheTrip
  BY DEF SegmentInv, LookupFits, LegsFit, LegsFollowTheTrip, EndToEnd, PassagesChargedOnce

(***************************************************************************)
(* A purge and the rows it leaves.  A process that is about to record a    *)
(* date has every older row among those its DELETE saw, unless the row     *)
(* came late: until it commits, a row that is in time is on the import     *)
(* served, which is no older than the date it read.                        *)
(***************************************************************************)
PurgeInv ==
  /\ stamp # NoDate => stamp <= served /\ OldRows(stamp) \subseteq late
  /\ stamp = NoDate => Stored \subseteq late
  /\ \A b \in Booter : booting[b].at # "off" =>
       booting[b].date \in 1..MaxImport /\ booting[b].date <= served
  /\ \A b \in Booter : booting[b].at = "record" =>
       OldRows(booting[b].date) \subseteq late \cup booting[b].doomed

LEMMA PurgeInitInv == SegmentInit => PurgeInv
  BY DEF SegmentInit, PurgeInv, Stored, NoRows, Off

\* A new row is older than a date only if it came late.
LEMMA InsertPurgeInv ==
  ASSUME SegmentInv, PurgeInv, NEW pair \in Pair, NEW row \in Leg, Insert(pair, row),
         UNCHANGED <<stamp, served, booting>>
  PROVE  PurgeInv'
  <1>1. /\ segments \in [Pair -> Leg \cup {NoRow}] /\ served \in 1..MaxImport
        /\ stamp \in 1..MaxImport \cup {NoDate} /\ NoDate \notin 1..MaxImport
    BY SegmentAssumption DEF SegmentInv, RowsFit
  <1>2. /\ segments' = [segments EXCEPT ![pair] = row]
        /\ late \subseteq late'
        /\ stamp = NoDate \/ row.corridor.date # served => pair \in late'
    BY DEF Insert
  <1>3. row.corridor.date \in Nat BY SegmentAssumption DEF Leg, Corridor
  <1>4. ASSUME NEW date \in 1..MaxImport, date <= served PROVE OldRows(date)' \subseteq OldRows(date) \cup late'
    <2>1. SUFFICES ASSUME NEW p \in Pair, segments'[p] # NoRow, segments'[p].corridor.date < date, p \notin late'
                   PROVE  p \in OldRows(date)
      BY DEF OldRows
    <2>2. CASE p = pair
      <3>1. segments'[p] = row BY <1>1, <1>2, <2>2
      <3>2. row.corridor.date = served BY <1>2, <2>1, <2>2
      <3> QED BY <1>1, <1>4, <2>1, <3>1, <3>2
    <2>3. CASE p # pair
      <3>1. segments'[p] = segments[p] BY <1>1, <1>2, <2>3
      <3> QED BY <2>1, <3>1 DEF OldRows
    <2> QED BY <2>2, <2>3
  <1>5. (stamp # NoDate => stamp <= served /\ OldRows(stamp) \subseteq late)'
    <2>1. SUFFICES ASSUME stamp # NoDate PROVE stamp <= served /\ OldRows(stamp)' \subseteq late'
      BY DEF OldRows
    <2> QED BY <1>1, <1>2, <1>4, <2>1 DEF PurgeInv
  <1>6. (stamp = NoDate => Stored \subseteq late)'
    BY <1>1, <1>2 DEF PurgeInv, Stored
  <1>7. ASSUME NEW b \in Booter, booting[b].at = "record"
        PROVE  OldRows(booting[b].date)' \subseteq late' \cup booting[b].doomed
    <2>1. /\ booting[b].date \in 1..MaxImport /\ booting[b].date <= served
          /\ OldRows(booting[b].date) \subseteq late \cup booting[b].doomed
      BY <1>7 DEF PurgeInv
    <2>2. OldRows(booting[b].date)' = {p \in Pair : segments'[p] # NoRow /\ segments'[p].corridor.date < booting[b].date}
      BY DEF OldRows
    <2> DEFINE d == booting[b].date
    <2>3. OldRows(d)' \subseteq OldRows(d) \cup late' BY <1>4, <2>1
    <2> QED BY <1>2, <2>1, <2>3
  <1> QED BY <1>5, <1>6, <1>7 DEF PurgeInv, OldRows

LEMMA SyncPurgeInv ==
  ASSUME SegmentInv, PurgeInv, NEW b \in Booter, SyncStep(b)
  PROVE  PurgeInv'
  <1>1. /\ booting \in [Booter -> Booting] /\ segments \in [Pair -> Leg \cup {NoRow}]
        /\ served \in 1..MaxImport /\ stamp \in 1..MaxImport \cup {NoDate}
        /\ NoDate \notin 1..MaxImport /\ served' = served
    BY SegmentAssumption
       DEF SegmentInv, RowsFit, SyncStep, ReadDate, ReadStored, PurgeRows, Record, SyncFails
  <1>2. CASE ReadDate(b) \/ SyncFails(b)
    <2>1. /\ \A o \in Booter \ {b} : booting'[o] = booting[o]
          /\ booting'[b].at \in {"off", "asked"}
          /\ booting'[b].at # "off" => booting'[b].date = served
          /\ UNCHANGED <<segments, stamp, late>>
      <3>1. CASE ReadDate(b)
        <4>1. booting'[b] = [Off EXCEPT !.at = "asked", !.date = served] BY <1>1, <3>1 DEF ReadDate
        <4>2. booting'[b].at = "asked" /\ booting'[b].date = served BY <4>1 DEF Off
        <4> QED BY <1>1, <3>1, <4>2 DEF ReadDate
      <3>2. CASE SyncFails(b)
        <4>1. booting'[b] = Off BY <1>1, <3>2 DEF SyncFails
        <4>2. booting'[b].at = "off" BY <4>1 DEF Off
        <4> QED BY <1>1, <3>2, <4>2 DEF SyncFails
      <3> QED BY <1>2, <3>1, <3>2
    <2> QED BY <1>1, <2>1 DEF PurgeInv, OldRows, Stored
  <1>3. CASE ReadStored(b)
    <2>1. /\ \A o \in Booter \ {b} : booting'[o] = booting[o]
          /\ booting[b].at = "asked"
          /\ booting'[b].at = "record" => stamp \in {NoDate, booting[b].date}
          /\ booting'[b].date = booting[b].date
          /\ UNCHANGED <<segments, stamp, late>>
      BY <1>1, <1>3 DEF ReadStored, Booting
    <2>2. booting'[b].at = "record" => OldRows(booting[b].date) \subseteq late
      BY <2>1 DEF PurgeInv, OldRows, Stored
    <2> QED BY <1>1, <2>1, <2>2 DEF PurgeInv, OldRows, Stored
  <1>4. CASE PurgeRows(b)
    <2>1. /\ \A o \in Booter \ {b} : booting'[o] = booting[o]
          /\ booting[b].at = "purge" /\ booting'[b].doomed = Stored
          /\ booting'[b].date = booting[b].date
          /\ UNCHANGED <<segments, stamp, late>>
      BY <1>1, <1>4 DEF PurgeRows, Booting
    <2> QED BY <1>1, <2>1 DEF PurgeInv, OldRows, Stored
  <1>5. CASE Record(b)
    <2> DEFINE gone == booting[b].doomed
               date == booting[b].date
    <2>1. /\ date \in 1..MaxImport /\ date <= served /\ OldRows(date) \subseteq late \cup gone
      BY <1>5 DEF Record, PurgeInv
    <2>2. /\ \A p \in Pair : segments'[p] = IF p \in gone THEN NoRow ELSE segments[p]
          /\ late' = late \ gone /\ stamp' = date
      BY <1>5 DEF Record
    <2>3. /\ booting'[b].at = "off"
          /\ \A o \in Booter \ {b} : /\ booting'[o].at = booting[o].at /\ booting'[o].date = booting[o].date
                                     /\ booting'[o].doomed = booting[o].doomed \ gone
      BY <1>1, <1>5 DEF Record, Off, Booting
    <2> HIDE DEF gone, date
    <2>4. \A d : {p \in Pair : segments'[p] # NoRow /\ segments'[p].corridor.date < d} \subseteq OldRows(d) \ gone
      BY <2>2 DEF OldRows
    <2>5. stamp' # NoDate /\ stamp' <= served' /\ OldRows(stamp)' \subseteq late'
      <3>1. OldRows(stamp)' = {p \in Pair : segments'[p] # NoRow /\ segments'[p].corridor.date < date}
        BY <2>2 DEF OldRows
      <3> QED BY <1>1, <2>1, <2>2, <2>4, <3>1
    <2>6. ASSUME NEW o \in Booter, booting'[o].at # "off"
          PROVE  booting'[o].date \in 1..MaxImport /\ booting'[o].date <= served'
      BY <1>1, <2>3, <2>6 DEF PurgeInv
    <2>7. ASSUME NEW o \in Booter, booting'[o].at = "record"
          PROVE  OldRows(booting[o].date)' \subseteq late' \cup booting'[o].doomed
      <3>1. o # b BY <2>3, <2>7
      <3>2. OldRows(booting[o].date) \subseteq late \cup booting[o].doomed BY <2>3, <2>7, <3>1 DEF PurgeInv
      <3>3. OldRows(booting[o].date)'
              = {p \in Pair : segments'[p] # NoRow /\ segments'[p].corridor.date < booting[o].date}
        BY <2>3, <3>1 DEF OldRows
      <3> QED BY <2>2, <2>3, <2>4, <3>1, <3>2, <3>3
    <2> QED BY <2>5, <2>6, <2>7 DEF PurgeInv
  <1> QED BY <1>2, <1>3, <1>4, <1>5 DEF SyncStep

LEMMA PurgeStepInv == SegmentInv /\ PurgeInv /\ [SegmentNext]_segmentVars => PurgeInv'
  <1> SUFFICES ASSUME SegmentInv, PurgeInv, [SegmentNext]_segmentVars PROVE PurgeInv' OBVIOUS
  <1>1. CASE UNCHANGED <<segments, stamp, served, booting, late>>
    BY <1>1 DEF PurgeInv, OldRows, Stored
  <1>2. ASSUME NEW t \in Router, NEW stored \in BOOLEAN, StoreLeg(t, stored) PROVE PurgeInv'
    <2> DEFINE leg == lookup[t].live
               pair == {leg.from, leg.to}
               row == Oriented(leg, leg.from # Lo(pair))
    <2>1. /\ Routing(t) /\ leg # NoRow /\ UNCHANGED <<stamp, served, booting>>
          /\ Insert(pair, row) \/ UNCHANGED <<segments, late>>
      BY <1>2 DEF StoreLeg
    <2>2. LookupFits(lookup[t]) BY DEF SegmentInv
    <2>3. Between(leg, From(t), To(t)) /\ Len(lookup[t].legs) + 1 < Len(lookup[t].trip)
      BY <2>1, <2>2 DEF LookupFits, From, To, Routing
    <2>4. ~Assembled(t)
      <3>1. Len(lookup[t].legs) \in Nat /\ Len(lookup[t].trip) \in Nat BY <2>2 DEF LookupFits
      <3> QED BY <2>3, <3>1 DEF Assembled
    <2>5. pair \in Pair /\ pair = {From(t), To(t)} BY <2>1, <2>3, <2>4, NextPair DEF Between
    <2>6. row \in Leg
      <3> DEFINE turned == leg.from # Lo(pair)
      <3> HIDE DEF leg, turned
      <3>1. Oriented(leg, turned) \in Leg BY <2>3, OrientedStaysLeg
      <3> QED BY <3>1 DEF turned
    <2> HIDE DEF row, pair, leg
    <2> QED BY <1>1, <2>1, <2>5, <2>6, InsertPurgeInv
  <1>3. ASSUME NEW pair \in Pair, NEW up \in BOOLEAN, NEW date \in 1 .. MaxImport,
               StoreElsewhere(pair, up, date)
        PROVE  PurgeInv'
    <2> DEFINE a == IF up THEN Lo(pair) ELSE Hi(pair)
               b == IF up THEN Hi(pair) ELSE Lo(pair)
               row == Oriented(LiveLeg(a, b, date), ~up)
    <2>1. Insert(pair, row) /\ UNCHANGED <<stamp, served, booting>> BY <1>3 DEF StoreElsewhere
    <2>2. a \in Stop /\ b \in Stop /\ a # b
      <3>1. Lo(pair) \in Stop /\ Hi(pair) \in Stop /\ Lo(pair) < Hi(pair) BY PairOfEnds
      <3>2. Lo(pair) \in Nat /\ Hi(pair) \in Nat BY <3>1, SegmentAssumption
      <3> QED BY <3>1, <3>2
    <2> HIDE DEF a, b
    <2>3. row \in Leg
      <3> DEFINE leg == LiveLeg(a, b, date)
      <3>1. Between(leg, a, b) BY <2>2, LiveLegFits
      <3> HIDE DEF leg
      <3>2. Oriented(leg, ~up) \in Leg BY <3>1, OrientedStaysLeg
      <3> QED BY <3>2 DEF leg
    <2> HIDE DEF row
    <2> QED BY <2>1, <2>3, InsertPurgeInv
  <1>4. CASE Reimport
    <2>1. served <= served' BY <1>4 DEF Reimport, SegmentInv
    <2> QED BY <1>4, <2>1, SegmentAssumption DEF Reimport, PurgeInv, SegmentInv, OldRows, Stored
  <1>5. CASE \E b \in Booter : SyncStep(b) BY <1>5, SyncPurgeInv
  <1> QED BY <1>1, <1>2, <1>3, <1>4, <1>5
      DEF SegmentNext, segmentVars, Fetch, TakeCached, RouteLive, RouteFails, HandOver

LEMMA InvOldRowsLate == PurgeInv => OldRowsCameLate
  BY DEF PurgeInv, OldRowsCameLate

\* Whatever is stored, purged or re-imported meanwhile, and whatever a trip's
\* legs are served from: they run the trip's way and charge each passage
\* once.
THEOREM SegmentsSafe ==
  SegmentSpec => []LegsFollowTheTrip
  BY SegmentInitInv, SegmentStepInv, InvLegsFollow, PTL DEF SegmentSpec

\* However many processes start, store and fail while the graph's import
\* changes: the rows older than the import on record are those stored when
\* their import had been replaced, or when none was on record.
THEOREM PurgeMissesLateRowsOnly ==
  SegmentSpec => []OldRowsCameLate
  BY SegmentInitInv, SegmentStepInv, PurgeInitInv, PurgeStepInv, InvOldRowsLate, PTL DEF SegmentSpec

-----------------------------------------------------------------------------
(***************************************************************************)
(* The connection pool under the build.                                    *)
(***************************************************************************)
LEMMA ThreadBorrows == Thread \subseteq Borrower
  BY FamilyAssumption

\* What one thread does to the pool in one step of the build.
LEMMA ThreadStepIsPoolStep ==
  ASSUME NEW t \in Thread, ThreadStep(t)
  PROVE  [PoolNext]_poolVars
  <1>1. t \in Borrower BY ThreadBorrows
  <1>2. CASE BorrowSlot(t) BY <1>1, <1>2 DEF BorrowSlot, PoolNext
  <1>3. CASE BorrowConnection(t) BY <1>1, <1>3 DEF BorrowConnection, PoolNext
  <1>4. CASE BorrowFails(t) BY <1>1, <1>4 DEF BorrowFails, PoolNext
  <1>5. CASE QueryFails(t) BY <1>1, <1>5 DEF QueryFails, PoolNext
  <1>6. CASE GiveBack(t) BY <1>1, <1>6 DEF GiveBack, PoolNext
  <1>7. CASE GoOn(t) BY <1>1, <1>7 DEF GoOn, PoolNext
  <1>8. CASE TakeTask(t) \/ FinishPlan(t) \/ LookUpRouter(t) BY <1>8 DEF TakeTask, FinishPlan, LookUpRouter
  <1>9. CASE GetHit(t) \/ GetMiss(t) BY <1>9 DEF GetHit, GetMiss
  <1>10. CASE QueryAnswers(t) BY <1>10 DEF QueryAnswers
  <1>11. CASE UseRow(t) \/ RouteMiss(t) \/ Routed(t) BY <1>11 DEF UseRow, RouteMiss, Routed
  <1>12. CASE KeepValue(t) \/ ForgetKey(t) \/ LeaveGet(t) BY <1>12 DEF KeepValue, ForgetKey, LeaveGet
  <1> QED BY <1>2, <1>3, <1>4, <1>5, <1>6, <1>7, <1>8, <1>9, <1>10, <1>11, <1>12 DEF ThreadStep

\* Every other step of the system, too.
LEMMA NextIsPoolStep == [Next]_vars => [PoolNext]_poolVars
  <1> SUFFICES ASSUME [Next]_vars PROVE [PoolNext]_poolVars OBVIOUS
  <1>1. CASE UNCHANGED vars BY <1>1 DEF vars
  <1>2. CASE \E t \in Thread : ThreadStep(t) BY <1>2, ThreadStepIsPoolStep
  <1>3. CASE LoopStep BY <1>3 DEF LoopStep, StartMember, EvaluateMember, MemberRaises
  <1>4. CASE \E b \in Other : OtherBorrows(b) \/ OtherEnds(b)
    BY <1>4 DEF Other, OtherBorrows, OtherEnds, PoolNext
  <1>5. CASE \E pair \in Pair, up \in BOOLEAN, date \in 1 .. MaxImport : OtherProcessStores(pair, up, date)
    BY <1>5 DEF OtherProcessStores
  <1>6. CASE TableMoves BY <1>6 DEF TableMoves
  <1>7. CASE Finished BY <1>1, <1>7 DEF Finished
  <1> QED BY <1>1, <1>2, <1>3, <1>4, <1>5, <1>6, <1>7 DEF Next

\* However many threads build, and whatever fails in them: the pool's slots
\* and connections are all accounted for.
THEOREM BuildKeepsThePool ==
  Spec => []PoolIsSound
  <1>1. Init => PoolInv BY PoolInitInv DEF Init
  <1>2. PoolInv /\ [Next]_vars => PoolInv' BY PoolStepInv, NextIsPoolStep
  <1>3. PoolInv => PoolIsSound
    BY InvSlotMeansConnection DEF PoolInv, PoolIsSound
  <1> QED BY <1>1, <1>2, <1>3, PTL DEF Spec

-----------------------------------------------------------------------------
(***************************************************************************)
(* The memo under the build.                                               *)
(***************************************************************************)
\* What a plan may hold: only keys the memo knows, only trips that route.
PlanItem == [kind : {"get"}, key : Key, trip : {<<>>, Outbound, Return}] \cup {GetRouter}

PlanKeys(plan) == {plan[i].key : i \in {j \in DOMAIN plan : plan[j].kind = "get"}}
KeysOf(task) ==
  {CatalogueKey(Catalogues[i], task[1]) : i \in DOMAIN Catalogues}
    \cup {LegsKey(Outbound, task), LegsKey(Return, task)}

Known(k) == values[k] # Nothing

CallPhase == {"load", "fetch", "keep"}
Phase == CallPhase \cup {"route", "computed", "raised"}

Work == [at : {"idle", "next"} \cup Phase, task : Task \cup {Nothing}, plan : Seq(PlanItem),
         answer : {"", "ok", "failed"}, value : Seq(Leg) \cup {Nothing}]

BuildTypeOK ==
  /\ todo \in Seq(Task) /\ remaining \in Seq(Range(Members))
  /\ work \in [Thread -> Work]
  /\ faultless \subseteq Task

\* A thread inside a computation owns the flight of its plan's next key.
InGet(t) ==
  /\ work[t].at \notin Phase => flight[t].at \in {"out", "waiting"}
  /\ work[t].at \in Phase =>
       /\ work[t].plan # <<>> /\ Item(t).kind = "get"
       /\ flight[t].at \in {"owner", "stored", "forgot"} /\ flight[t].key = Item(t).key
       /\ work[t].at \notin {"computed", "raised"} => flight[t].at = "owner"
       /\ work[t].at = "load" => Item(t).trip = <<>>
       /\ work[t].at \in {"fetch", "route", "keep"} => Item(t).trip # <<>>
       /\ work[t].at = "computed" /\ Item(t).trip # <<>> => work[t].value \in Seq(Leg)
       /\ work[t].at = "computed" /\ flight[t].at # "owner" => Known(Item(t).key)

\* Only a database call holds a connection.
Connected(t) == lease[t] # "none" => work[t].at \in CallPhase

\* A plan holds what its task still needs: the rest is in the memo.
OnPlan(t) ==
  work[t].at # "idle" =>
    /\ work[t].task \in Task
    /\ PlanKeys(work[t].plan) \subseteq KeysOf(work[t].task)
    /\ \A k \in KeysOf(work[t].task) : Known(k) \/ k \in PlanKeys(work[t].plan)

Fits(t) == InGet(t) /\ Connected(t) /\ OnPlan(t)

\* A prewarm that ended without an exception left everything in the memo.
WarmIsKnown == \A task \in faultless : \A k \in KeysOf(task) : Known(k)

MemberAtHand == work[Main].at # "idle" => remaining # <<>>

BuildInv ==
  /\ PoolInv /\ FlightInv /\ SegmentInv /\ BuildTypeOK
  /\ \A t \in Thread : Fits(t)
  /\ WarmIsKnown /\ MemberAtHand

-----------------------------------------------------------------------------
LEMMA ReturnRoutes == Routable(Return)
  <1> DEFINE s == StopList
             n == Len(s)
  <1>1. s \in Seq(Stop) /\ n > 1 /\ \A i \in 1 .. n - 1 : s[i] # s[i + 1]
    BY RequestAssumption DEF Routable, Outbound
  <1>2. n \in Nat BY <1>1
  <1>3. Return = [i \in 1..n |-> s[(n - i) + 1]] BY DEF Return, Reverse
  <1> HIDE DEF n
  <1>4. \A i \in 1..n : (n - i) + 1 \in 1..n BY <1>2
  <1>5. \A i \in 1..n : s[(n - i) + 1] \in Stop BY <1>1, <1>4 DEF n
  <1>6. Return \in Seq(Stop) /\ Len(Return) = n BY <1>2, <1>3, <1>5
  <1>7. ASSUME NEW i \in 1 .. n - 1 PROVE Return[i] # Return[i + 1]
    <2>1. n - i \in 1 .. n - 1 /\ (n - (i + 1)) + 1 = n - i /\ i \in 1..n /\ i + 1 \in 1..n BY <1>2
    <2>2. Return[i] = s[(n - i) + 1] /\ Return[i + 1] = s[n - i] BY <1>3, <2>1
    <2> QED BY <1>1, <2>1, <2>2
  <1> QED BY <1>1, <1>6, <1>7 DEF Routable

LEMMA ItemsTyped ==
  /\ GetRouter \in PlanItem /\ GetRouter.kind = "router"
  /\ \A k \in Key : Get(k) \in PlanItem /\ Get(k).kind = "get" /\ Get(k).key = k
  /\ \A task \in Task : \A trip \in {Outbound, Return} :
       /\ GetLegs(trip, task) \in PlanItem
       /\ GetLegs(trip, task).kind = "get" /\ GetLegs(trip, task).key = LegsKey(trip, task)
  <1>1. GetRouter \in PlanItem /\ GetRouter.kind = "router" BY DEF PlanItem, GetRouter
  <1>2. \A k \in Key : Get(k) \in PlanItem /\ Get(k).kind = "get" /\ Get(k).key = k
    BY DEF PlanItem, Get
  <1>3. ASSUME NEW task \in Task, NEW trip \in {Outbound, Return}
        PROVE /\ GetLegs(trip, task) \in PlanItem
              /\ GetLegs(trip, task).kind = "get" /\ GetLegs(trip, task).key = LegsKey(trip, task)
    <2>1. LegsKey(trip, task) \in Key BY RequestAssumption
    <2> QED BY <2>1 DEF PlanItem, GetLegs
  <1> QED BY <1>1, <1>2, <1>3

\* The keys of a plan, read from its head and from its parts.
LEMMA KeysOfHead ==
  ASSUME NEW plan \in Seq(PlanItem), plan # <<>>
  PROVE  /\ Tail(plan) \in Seq(PlanItem) /\ Head(plan) \in PlanItem
         /\ Head(plan).kind = "get" => PlanKeys(plan) = {Head(plan).key} \cup PlanKeys(Tail(plan))
         /\ Head(plan).kind # "get" => PlanKeys(plan) = PlanKeys(Tail(plan))
  <1> DEFINE n == Len(plan)
             rest == Tail(plan)
  <1>1. n \in Nat /\ n > 0 /\ DOMAIN plan = 1..n /\ rest \in Seq(PlanItem) /\ Len(rest) = n - 1
        /\ Head(plan) = plan[1] /\ Head(plan) \in PlanItem
        /\ DOMAIN rest = 1 .. n - 1 /\ \A i \in 1 .. n - 1 : rest[i] = plan[i + 1]
    BY HeadTailProperties
  <1> HIDE DEF n, rest
  <1>2. ASSUME NEW k, k \in PlanKeys(rest) PROVE k \in PlanKeys(plan)
    <2>1. PICK i \in 1 .. n - 1 : rest[i].kind = "get" /\ rest[i].key = k BY <1>1, <1>2 DEF PlanKeys
    <2>2. i + 1 \in 1..n /\ plan[i + 1] = rest[i] BY <1>1
    <2> QED BY <1>1, <2>1, <2>2 DEF PlanKeys
  <1>3. ASSUME NEW k, k \in PlanKeys(plan), k \notin PlanKeys(rest)
        PROVE Head(plan).kind = "get" /\ k = Head(plan).key
    <2>1. PICK i \in 1..n : plan[i].kind = "get" /\ plan[i].key = k BY <1>1, <1>3 DEF PlanKeys
    <2>2. CASE i = 1 BY <1>1, <2>1, <2>2
    <2>3. CASE i # 1
      <3>1. i - 1 \in 1 .. n - 1 /\ (i - 1) + 1 = i BY <1>1, <2>3
      <3>2. rest[i - 1] = plan[i] BY <1>1, <3>1
      <3> QED BY <1>1, <1>3, <2>1, <3>1, <3>2 DEF PlanKeys
    <2> QED BY <2>2, <2>3
  <1>4. Head(plan).kind = "get" => Head(plan).key \in PlanKeys(plan) BY <1>1 DEF PlanKeys
  <1>5. Head(plan).kind = "get" => PlanKeys(plan) = {Head(plan).key} \cup PlanKeys(rest)
    BY <1>2, <1>3, <1>4
  <1>6. Head(plan).kind # "get" => PlanKeys(plan) = PlanKeys(rest) BY <1>2, <1>3
  <1> QED BY <1>1, <1>5, <1>6 DEF rest

LEMMA KeysOfJoin ==
  ASSUME NEW p \in Seq(PlanItem), NEW q \in Seq(PlanItem)
  PROVE  p \o q \in Seq(PlanItem) /\ PlanKeys(p \o q) = PlanKeys(p) \cup PlanKeys(q)
  <1> DEFINE m == Len(p)
             n == Len(q)
             r == p \o q
  <1>1. m \in Nat /\ n \in Nat /\ DOMAIN p = 1..m /\ DOMAIN q = 1..n
        /\ r \in Seq(PlanItem) /\ DOMAIN r = 1 .. m + n
        /\ \A i \in 1 .. m + n : r[i] = IF i <= m THEN p[i] ELSE q[i - m]
    BY ConcatProperties
  <1> HIDE DEF m, n, r
  <1>2. \A i \in 1..m : i \in 1 .. m + n /\ r[i] = p[i] BY <1>1
  <1>3. \A i \in 1..n : m + i \in 1 .. m + n /\ r[m + i] = q[i]
    <2> TAKE i \in 1..n
    <2>1. m + i \in 1 .. m + n /\ ~(m + i <= m) /\ (m + i) - m = i BY <1>1
    <2> QED BY <1>1, <2>1
  <1>4. ASSUME NEW i \in 1 .. m + n
        PROVE (\E j \in 1..m : r[i] = p[j]) \/ (\E j \in 1..n : r[i] = q[j])
    <2>1. CASE i <= m BY <1>1, <2>1
    <2>2. CASE ~(i <= m)
      <3>1. i - m \in 1..n BY <1>1, <2>2
      <3> QED BY <1>1, <2>2, <3>1
    <2> QED BY <2>1, <2>2
  <1>5. ASSUME NEW k, k \in PlanKeys(r) PROVE k \in PlanKeys(p) \cup PlanKeys(q)
    <2>1. PICK i \in 1 .. m + n : r[i].kind = "get" /\ r[i].key = k BY <1>1, <1>5 DEF PlanKeys
    <2>2. CASE \E j \in 1..m : r[i] = p[j] BY <1>1, <2>1, <2>2 DEF PlanKeys
    <2>3. CASE \E j \in 1..n : r[i] = q[j] BY <1>1, <2>1, <2>3 DEF PlanKeys
    <2> QED BY <1>4, <2>2, <2>3
  <1>6. ASSUME NEW k, k \in PlanKeys(p) PROVE k \in PlanKeys(r)
    BY <1>1, <1>2, <1>6 DEF PlanKeys
  <1>7. ASSUME NEW k, k \in PlanKeys(q) PROVE k \in PlanKeys(r)
    <2>1. PICK i \in 1..n : q[i].kind = "get" /\ q[i].key = k BY <1>1, <1>7 DEF PlanKeys
    <2> QED BY <1>1, <1>3, <2>1 DEF PlanKeys
  <1>8. PlanKeys(r) = PlanKeys(p) \cup PlanKeys(q) BY <1>5, <1>6, <1>7
  <1> QED BY <1>1, <1>8 DEF r

LEMMA LoadsKeys ==
  ASSUME NEW task \in Task
  PROVE  /\ Loads(task) \in Seq(PlanItem)
         /\ PlanKeys(Loads(task)) = {CatalogueKey(Catalogues[i], task[1]) : i \in DOMAIN Catalogues}
  <1> DEFINE n == Len(Catalogues)
             key(i) == CatalogueKey(Catalogues[i], task[1])
  <1>1. n \in Nat /\ DOMAIN Catalogues = 1..n BY RequestAssumption
  <1>2. \A i \in 1..n : key(i) \in Key BY <1>1, RequestAssumption
  <1>3. Loads(task) = [i \in 1..n |-> Get(key(i))] BY <1>1 DEF Loads
  <1> HIDE DEF n, key
  <1>4. \A i \in 1..n : Get(key(i)) \in PlanItem /\ Get(key(i)).kind = "get" /\ Get(key(i)).key = key(i)
    BY <1>2, ItemsTyped
  <1>5. Loads(task) \in Seq(PlanItem) BY <1>1, <1>3, <1>4
  <1>6. PlanKeys(Loads(task)) = {key(i) : i \in 1..n} BY <1>3, <1>4 DEF PlanKeys
  <1> QED BY <1>1, <1>5, <1>6 DEF key

LEMMA TripsKeys ==
  ASSUME NEW task \in Task
  PROVE  /\ Trips(task) \in Seq(PlanItem)
         /\ PlanKeys(Trips(task)) = {LegsKey(Outbound, task), LegsKey(Return, task)}
  <1> DEFINE a == GetLegs(Outbound, task)
             b == GetLegs(Return, task)
  <1>1. /\ a \in PlanItem /\ a.kind = "get" /\ a.key = LegsKey(Outbound, task)
        /\ b \in PlanItem /\ b.kind = "get" /\ b.key = LegsKey(Return, task)
    BY ItemsTyped
  <1>2. Trips(task) = <<a, b>> BY DEF Trips
  <1> HIDE DEF a, b
  <1>3. <<a, b>> \in Seq(PlanItem) /\ DOMAIN <<a, b>> = 1..2 /\ <<a, b>>[1] = a /\ <<a, b>>[2] = b
    BY <1>1
  <1>4. PlanKeys(<<a, b>>) = {a.key, b.key} BY <1>1, <1>3 DEF PlanKeys
  <1> QED BY <1>1, <1>2, <1>3, <1>4

LEMMA RouterKeys == <<GetRouter>> \in Seq(PlanItem) /\ PlanKeys(<<GetRouter>>) = {}
  BY ItemsTyped DEF PlanKeys

\* Worker and request thread ask for the same keys of a task.
LEMMA PlansKeys ==
  ASSUME NEW task \in Task
  PROVE  /\ WarmPlan(task) \in Seq(PlanItem) /\ PlanKeys(WarmPlan(task)) = KeysOf(task)
         /\ MemberPlan(task) \in Seq(PlanItem) /\ PlanKeys(MemberPlan(task)) = KeysOf(task)
  <1> DEFINE r == <<GetRouter>>
  <1>1. r \in Seq(PlanItem) /\ PlanKeys(r) = {} BY RouterKeys
  <1> HIDE DEF r
  <1>2. Loads(task) \in Seq(PlanItem) /\ Trips(task) \in Seq(PlanItem) BY LoadsKeys, TripsKeys
  <1>3. KeysOf(task) = PlanKeys(Loads(task)) \cup PlanKeys(Trips(task))
    BY LoadsKeys, TripsKeys DEF KeysOf
  <1>4. /\ Loads(task) \o r \in Seq(PlanItem) /\ PlanKeys(Loads(task) \o r) = PlanKeys(Loads(task))
        /\ r \o Loads(task) \in Seq(PlanItem) /\ PlanKeys(r \o Loads(task)) = PlanKeys(Loads(task))
    <2> DEFINE p == Loads(task)
    <2>1. p \in Seq(PlanItem) BY <1>2
    <2> HIDE DEF p
    <2>2. /\ p \o r \in Seq(PlanItem) /\ PlanKeys(p \o r) = PlanKeys(p) \cup PlanKeys(r)
          /\ r \o p \in Seq(PlanItem) /\ PlanKeys(r \o p) = PlanKeys(r) \cup PlanKeys(p)
      BY <1>1, <2>1, KeysOfJoin
    <2> QED BY <1>1, <2>2 DEF p
  <1>5. /\ (Loads(task) \o r) \o Trips(task) \in Seq(PlanItem)
        /\ PlanKeys((Loads(task) \o r) \o Trips(task)) = KeysOf(task)
    BY <1>2, <1>3, <1>4, KeysOfJoin
  <1>6. /\ (r \o Loads(task)) \o Trips(task) \in Seq(PlanItem)
        /\ PlanKeys((r \o Loads(task)) \o Trips(task)) = KeysOf(task)
    BY <1>2, <1>3, <1>4, KeysOfJoin
  <1> QED BY <1>5, <1>6 DEF WarmPlan, MemberPlan, r

-----------------------------------------------------------------------------
LEMMA TasksInOrder == SetToSeq(Task) \in [1 .. Cardinality(Task) -> Task] /\ Cardinality(Task) \in Nat
  <1>1. IsFiniteSet(Task) BY FS_Product, RequestAssumption DEF Task
  <1>2. Cardinality(Task) \in Nat /\ ExistsBijection(1 .. Cardinality(Task), Task)
    BY <1>1, FS_CardinalityType
  <1>3. \E f \in [1 .. Cardinality(Task) -> Task] : IsInjective(f)
    BY <1>2 DEF ExistsBijection, Bijection, Injection, IsInjective
  <1> QED BY <1>2, <1>3 DEF SetToSeq

LEMMA OrderTyped == PresentedFirst \in Seq(Range(Members))
  <1> DEFINE S == Range(Members)
             n == Len(Members)
             i == CHOOSE j \in DOMAIN Members : Members[j] = Presented
             before == SubSeq(Members, 1, i - 1)
             after == SubSeq(Members, i + 1, n)
  <1>1. Members \in Seq(S) /\ Presented \in S BY FamilyAssumption, RequestAssumption
  <1>2. n \in Nat /\ DOMAIN Members = 1..n /\ \A j \in 1..n : Members[j] \in S BY <1>1
  <1>3. \E j \in DOMAIN Members : Members[j] = Presented BY <1>1 DEF Range
  <1>4. i \in 1..n BY <1>2, <1>3
  <1>5. PresentedFirst = <<Presented>> \o (before \o after) BY DEF PresentedFirst, RemoveAt
  <1> HIDE DEF i, n, S
  <1>6. before \in Seq(S)
    <2>1. 1 \in Int /\ i - 1 \in Int /\ \A j \in 1 .. i - 1 : Members[j] \in S BY <1>2, <1>4
    <2> QED BY <2>1, SubSeqProperties
  <1>7. after \in Seq(S)
    <2>1. i + 1 \in Int /\ n \in Int /\ \A j \in i + 1 .. n : Members[j] \in S BY <1>2, <1>4
    <2> QED BY <2>1, SubSeqProperties
  <1> HIDE DEF before, after
  <1>8. <<Presented>> \in Seq(S) BY <1>1
  <1>9. before \o after \in Seq(S) BY <1>6, <1>7, ConcatProperties
  <1>10. <<Presented>> \o (before \o after) \in Seq(S) BY <1>8, <1>9, ConcatProperties
  <1> QED BY <1>5, <1>10 DEF S

LEMMA IdleTyped == Idle \in Work /\ Idle.at = "idle"
  <1>1. <<>> \in Seq(PlanItem) OBVIOUS
  <1> QED BY <1>1 DEF Idle, Work

LEMMA BuildInitInv == Init => BuildInv
  <1> SUFFICES ASSUME Init PROVE BuildInv OBVIOUS
  <1>1. PoolInv /\ FlightInv /\ SegmentInv
    BY PoolInitInv, FlightInitInv, SegmentInitInv DEF Init
  <1>2. todo \in Seq(Task)
    <2>1. todo = [i \in 1 .. Cardinality(Task) |-> SetToSeq(Task)[i]] BY DEF Init
    <2> QED BY <2>1, TasksInOrder
  <1>3. work = [t \in Thread |-> Idle] /\ faultless = {} /\ remaining = PresentedFirst BY DEF Init
  <1>4. Idle \in Work /\ Idle.at = "idle" BY IdleTyped
  <1>5. BuildTypeOK BY <1>2, <1>3, <1>4, OrderTyped DEF BuildTypeOK
  <1>6. ASSUME NEW t \in Thread PROVE Fits(t)
    <2>1. work[t].at = "idle" /\ flight[t].at = "out" /\ lease[t] = "none"
      BY <1>3, <1>4, ThreadBorrows DEF Init, FlightInit, Outside, PoolInit
    <2> QED BY <2>1 DEF Fits, InGet, Connected, OnPlan, Phase, CallPhase
  <1>7. WarmIsKnown BY <1>3 DEF WarmIsKnown
  <1>8. MemberAtHand BY <1>3, <1>4, FamilyAssumption DEF MemberAtHand
  <1> QED BY <1>1, <1>5, <1>6, <1>7, <1>8 DEF BuildInv

-----------------------------------------------------------------------------
\* What is asked for is a key of the memo.
LEMMA ItemTyped ==
  ASSUME BuildTypeOK, NEW t \in Thread, work[t].plan # <<>>
  PROVE  /\ Item(t) \in PlanItem
         /\ Item(t).kind = "get" => Item(t).key \in Key /\ Item(t).trip \in {<<>>, Outbound, Return}
  <1>1. work[t].plan \in Seq(PlanItem) BY DEF BuildTypeOK, Work
  <1>2. Item(t) \in PlanItem BY <1>1, KeysOfHead DEF Item
  <1> QED BY <1>2 DEF PlanItem, GetRouter

\* What one thread does to the memo, and to the segment cache.
LEMMA ThreadFlight ==
  ASSUME BuildTypeOK, NEW t \in Thread, ThreadStep(t)
  PROVE  FlightAct(t) \/ UNCHANGED flightVars
  <1>1. CASE GetHit(t) BY <1>1 DEF GetHit, Hit
  <1>2. CASE GetMiss(t)
    <2>1. Item(t).key \in Key BY <1>2, ItemTyped DEF GetMiss, Asks
    <2>2. Own(t, Item(t).key) \/ Await(t, Item(t).key) BY <1>2 DEF GetMiss
    <2> QED BY <2>1, <2>2 DEF FlightAct
  <1>3. CASE KeepValue(t) BY <1>3 DEF KeepValue, FlightAct
  <1>4. CASE ForgetKey(t)
    <2>1. At(t, "computed") \in BOOLEAN BY DEF At
    <2>2. Forget(t, At(t, "computed")) BY <1>4 DEF ForgetKey
    <2> QED BY <2>1, <2>2 DEF FlightAct
  <1>5. CASE LeaveGet(t) BY <1>5 DEF LeaveGet, FlightAct
  <1>6. CASE ~(GetHit(t) \/ GetMiss(t) \/ KeepValue(t) \/ ForgetKey(t) \/ LeaveGet(t))
    BY <1>6 DEF ThreadStep, TakeTask, FinishPlan, LookUpRouter, BorrowSlot, BorrowConnection,
                BorrowFails, QueryAnswers, QueryFails, GiveBack, GoOn, UseRow, RouteMiss, Routed
  <1> QED BY <1>1, <1>2, <1>3, <1>4, <1>5, <1>6

LEMMA ThreadSegments ==
  ASSUME BuildTypeOK, NEW t \in Thread, Fits(t), ThreadStep(t)
  PROVE  [SegmentNext]_segmentVars
  <1>1. t \in Router BY FamilyAssumption
  <1>2. ASSUME NEW answered \in BOOLEAN, At(t, "fetch"), Fetch(t, Item(t).trip, answered)
        PROVE  SegmentNext
    <2>1. work[t].plan # <<>> /\ Item(t).kind = "get" /\ Item(t).trip # <<>>
      BY <1>2 DEF Fits, InGet, At, Phase, CallPhase
    <2>2. Routable(Item(t).trip) BY <2>1, ItemTyped, ReturnRoutes, RequestAssumption
    <2>3. Item(t).trip \in Seq(Stop) BY <2>2 DEF Routable
    <2> QED BY <1>1, <1>2, <2>2, <2>3 DEF SegmentNext
  <1>3. ASSUME NEW stored \in BOOLEAN, StoreLeg(t, stored) PROVE SegmentNext
    BY <1>1, <1>3 DEF SegmentNext
  <1>4. ASSUME NoAnswer(t), work[t].at \in CallPhase PROVE [SegmentNext]_segmentVars
    BY <1>2, <1>3, <1>4 DEF NoAnswer, At, CallPhase
  <1>5. CASE QueryAnswers(t)
    BY <1>2, <1>3, <1>5 DEF QueryAnswers, Calling, At
  <1>6. CASE BorrowFails(t) \/ QueryFails(t)
    BY <1>4, <1>6 DEF BorrowFails, QueryFails, Calling, CallPhase
  <1>7. CASE UseRow(t) BY <1>1, <1>7 DEF UseRow, SegmentNext
  <1>8. CASE RouteMiss(t) BY <1>1, <1>8 DEF RouteMiss, SegmentNext
  <1>9. CASE Routed(t) BY <1>1, <1>9 DEF Routed, SegmentNext
  <1>10. CASE ~(\/ QueryAnswers(t) \/ BorrowFails(t) \/ QueryFails(t) \/ UseRow(t)
                \/ RouteMiss(t) \/ Routed(t))
    BY <1>10 DEF ThreadStep, TakeTask, FinishPlan, LookUpRouter, GetHit, GetMiss, BorrowSlot,
                 BorrowConnection, GiveBack, GoOn, KeepValue, ForgetKey, LeaveGet
  <1> QED BY <1>5, <1>6, <1>7, <1>8, <1>9, <1>10

\* A flight of one thread moves another one only out of its wait.
LEMMA FlightFrame ==
  ASSUME FlightInv, NEW t \in Thread, FlightAct(t) \/ UNCHANGED flightVars, NEW u \in Thread \ {t}
  PROVE  flight'[u] = flight[u] \/ (flight[u].at = "waiting" /\ flight'[u].at = "out")
  <1>1. flight \in [Thread -> Flight] BY DEF FlightInv, FlightShape
  <1>2. CASE OpenGate(t)
    <2>1. flight'[u] = IF flight[u].gate = t THEN Outside ELSE flight[u] BY <1>2 DEF OpenGate
    <2>2. flight[u].gate = t => flight[u].at = "waiting"
      BY FlightAssumption DEF FlightInv, GateOfWaiters
    <2> QED BY <2>1, <2>2 DEF Outside
  <1>3. CASE ~OpenGate(t)
    <2>1. flight' = flight \/ \E f : flight' = [flight EXCEPT ![t] = f]
      <3>1. CASE \E k \in Key : Hit(t, k) BY <3>1 DEF Hit, flightVars
      <3>2. CASE \E k \in Key : Own(t, k) BY <3>2 DEF Own
      <3>3. CASE \E k \in Key : Await(t, k) BY <3>3 DEF Await
      <3>4. CASE \E v : Keep(t, v) BY <3>4 DEF Keep
      <3>5. CASE \E kept \in BOOLEAN : Forget(t, kept) BY <3>5 DEF Forget
      <3>6. CASE UNCHANGED flightVars BY <3>6 DEF flightVars
      <3> QED BY <1>3, <3>1, <3>2, <3>3, <3>4, <3>5, <3>6 DEF FlightAct
    <2> QED BY <1>1, <2>1
  <1> QED BY <1>2, <1>3

\* A thread that does nothing, while the others do, still fits.
LEMMA BystanderFits ==
  ASSUME NEW u \in Thread, Fits(u), work'[u] = work[u], lease'[u] = lease[u],
         flight'[u] = flight[u] \/ (flight[u].at = "waiting" /\ flight'[u].at = "out"),
         \A k \in Key : values[k] # Nothing => values'[k] = values[k],
         BuildTypeOK
  PROVE  Fits(u)'
  <1>1. ASSUME work[u].at \in Phase PROVE flight'[u] = flight[u] BY <1>1 DEF Fits, InGet
  <1>2. \A k \in Key : Known(k) => Known(k)' BY DEF Known
  <1>3. Item(u)' = Item(u) BY DEF Item
  <1>4. InGet(u)'
    <2>1. CASE work[u].at \in Phase
      <3>1. Item(u).key \in Key BY <2>1, ItemTyped DEF Fits, InGet
      <3>2. ASSUME work[u].at = "computed", flight[u].at # "owner" PROVE Known(Item(u).key)'
        <4>1. Known(Item(u).key) BY <2>1, <3>2 DEF Fits, InGet
        <4>2. values'[Item(u).key] # Nothing BY <3>1, <4>1 DEF Known
        <4> QED BY <1>3, <4>2 DEF Known
      <3> QED BY <1>1, <1>3, <2>1, <3>2 DEF Fits, InGet
    <2>2. CASE work[u].at \notin Phase BY <2>2 DEF Fits, InGet
    <2> QED BY <2>1, <2>2
  <1>5. Connected(u)' BY DEF Fits, Connected
  <1>6. OnPlan(u)'
    <2> SUFFICES ASSUME work[u].at # "idle"
        PROVE /\ work[u].task \in Task /\ PlanKeys(work[u].plan) \subseteq KeysOf(work[u].task)
              /\ \A k \in KeysOf(work[u].task) : Known(k)' \/ k \in PlanKeys(work[u].plan)
      BY DEF OnPlan
    <2>1. \A k \in KeysOf(work[u].task) : k \in Key BY RequestAssumption DEF Fits, OnPlan, KeysOf
    <2> QED BY <1>2, <2>1 DEF Fits, OnPlan
  <1> QED BY <1>4, <1>5, <1>6 DEF Fits

-----------------------------------------------------------------------------
\* A step of one thread leaves what the others hold.
LEMMA BystanderLease ==
  ASSUME BuildInv, NEW t \in Thread,
         ThreadStep(t) \/ UNCHANGED <<poolVars, flightVars, segmentVars>>,
         NEW u \in Thread \ {t}
  PROVE  lease'[u] = lease[u]
  <1>1. lease \in [Borrower -> Lease] BY DEF BuildInv, PoolInv, PoolTypeOK
  <1>2. u \in Borrower /\ t \in Borrower BY ThreadBorrows
  <1>3. lease' = lease \/ \E l : lease' = [lease EXCEPT ![t] = l]
    <2>0. CASE UNCHANGED poolVars BY <2>0 DEF poolVars
    <2>1. CASE BorrowSlot(t) BY <2>1 DEF BorrowSlot, Acquire
    <2>2. CASE BorrowConnection(t) BY <2>2 DEF BorrowConnection, GetConn
    <2>3. CASE BorrowFails(t) BY <2>3 DEF BorrowFails, AcquireTimesOut, GetConnFails, poolVars
    <2>4. CASE QueryFails(t) BY <2>4 DEF QueryFails, Break, poolVars
    <2>5. CASE GiveBack(t) BY <2>5 DEF GiveBack, PutConn
    <2>6. CASE GoOn(t) BY <2>6 DEF GoOn, ReleaseSlot
    <2>7. CASE /\ ThreadStep(t)
               /\ ~(\/ BorrowSlot(t) \/ BorrowConnection(t) \/ BorrowFails(t) \/ QueryFails(t)
                    \/ GiveBack(t) \/ GoOn(t))
      BY <2>7 DEF ThreadStep, TakeTask, FinishPlan, LookUpRouter, GetHit, GetMiss, QueryAnswers,
                  UseRow, RouteMiss, Routed, KeepValue, ForgetKey, LeaveGet, poolVars
    <2> QED BY <2>0, <2>1, <2>2, <2>3, <2>4, <2>5, <2>6, <2>7
  <1> QED BY <1>1, <1>2, <1>3

\* A step of one thread, given what it leaves the thread with.
LEMMA ThreadLeaves ==
  ASSUME BuildInv, NEW t \in Thread, NEW w \in Work,
         ThreadStep(t) \/ UNCHANGED <<poolVars, flightVars, segmentVars>>,
         work' = [work EXCEPT ![t] = w], Fits(t)',
         todo' \in Seq(Task), remaining' \in Seq(Range(Members)),
         faultless' \subseteq Task,
         \A task \in faultless' \ faultless : \A k \in KeysOf(task) : Known(k),
         t # Main => remaining' = remaining,
         t = Main /\ w.at # "idle" => remaining' # <<>>
  PROVE  BuildInv'
  <1> USE DEF BuildInv
  <1>1. Fits(t) OBVIOUS
  <1>2. FlightAct(t) \/ UNCHANGED flightVars BY ThreadFlight
  <1>3. FlightInv' BY <1>2, FlightActInv
  <1>4. SegmentInv'
    <2>1. [SegmentNext]_segmentVars BY <1>1, ThreadSegments
    <2> QED BY <2>1, SegmentStepInv
  <1>5. PoolInv'
    <2>1. [PoolNext]_poolVars BY ThreadStepIsPoolStep
    <2> QED BY <2>1, PoolStepInv
  <1>6. \A k \in Key : values[k] # Nothing => values'[k] = values[k] BY <1>2, ActValuesStay
  <1>7. work \in [Thread -> Work] BY DEF BuildTypeOK
  <1>8. /\ work'[t] = w /\ \A u \in Thread \ {t} : work'[u] = work[u]
        /\ work' \in [Thread -> Work]
    BY <1>7
  <1>9. BuildTypeOK' BY <1>8 DEF BuildTypeOK
  <1>10. ASSUME NEW u \in Thread \ {t} PROVE lease'[u] = lease[u]
    BY BystanderLease
  <1>11. ASSUME NEW u \in Thread PROVE Fits(u)'
    <2>1. CASE u = t BY <2>1
    <2>2. CASE u # t
      <3>1. Fits(u) /\ BuildTypeOK OBVIOUS
      <3>2. flight'[u] = flight[u] \/ (flight[u].at = "waiting" /\ flight'[u].at = "out")
        BY <1>2, <2>2, FlightFrame
      <3> QED BY <1>6, <1>8, <1>10, <2>2, <3>1, <3>2, BystanderFits
    <2> QED BY <2>1, <2>2
  <1>12. WarmIsKnown'
    <2>1. \A task \in Task : \A k \in KeysOf(task) : k \in Key BY RequestAssumption DEF KeysOf
    <2> QED BY <1>6, <2>1 DEF WarmIsKnown, Known
  <1>13. MemberAtHand'
    <2>1. CASE t = Main BY <1>8, <2>1 DEF MemberAtHand
    <2>2. CASE t # Main BY <1>8, <2>2, FamilyAssumption DEF MemberAtHand
    <2> QED BY <2>1, <2>2
  <1> QED BY <1>3, <1>4, <1>5, <1>9, <1>11, <1>12, <1>13

\* A thread that is not in a computation, nor about to leave one.
LEMMA OutOfGet ==
  ASSUME NEW t \in Thread, work'[t].at \notin Phase, flight'[t].at \in {"out", "waiting"},
         lease'[t] = "none", OnPlan(t)'
  PROVE  Fits(t)'
  BY DEF Fits, InGet, Connected, Phase, CallPhase

\* Out of a computation a thread has no connection and no flight of its own.
LEMMA AtRest ==
  ASSUME NEW t \in Thread, Fits(t), work[t].at \notin Phase, BuildInv
  PROVE  lease[t] = "none" /\ flight[t].at \in {"out", "waiting"}
  BY ThreadBorrows DEF Fits, InGet, Connected, Phase

LEMMA TakeTaskInv ==
  ASSUME BuildInv, NEW t \in Thread, TakeTask(t)
  PROVE  BuildInv'
  <1> DEFINE task == Head(todo)
             w == [Idle EXCEPT !.at = "next", !.task = task, !.plan = WarmPlan(task)]
  <1>1. ThreadStep(t) BY DEF ThreadStep
  <1>2. /\ work' = [work EXCEPT ![t] = w] /\ todo' = Tail(todo) /\ todo # <<>> /\ t # Main
        /\ work[t].at = "idle" /\ UNCHANGED <<lease, flight, values, remaining, faultless>>
    BY FamilyAssumption DEF TakeTask, At, poolVars, flightVars, historyVars
  <1>3. /\ work \in [Thread -> Work] /\ todo \in Seq(Task) /\ remaining \in Seq(Range(Members))
        /\ faultless \subseteq Task
    BY DEF BuildInv, BuildTypeOK
  <1>4. task \in Task /\ Tail(todo) \in Seq(Task) BY <1>2, <1>3, HeadTailProperties
  <1>5. WarmPlan(task) \in Seq(PlanItem) /\ PlanKeys(WarmPlan(task)) = KeysOf(task) BY <1>4, PlansKeys
  <1> HIDE DEF task
  <1>6. w \in Work /\ w.at = "next" /\ w.task = task /\ w.plan = WarmPlan(task)
    BY <1>4, <1>5 DEF Idle, Work
  <1> HIDE DEF w
  <1>7. work'[t] = w BY <1>2, <1>3
  <1>8. lease[t] = "none" /\ flight[t].at \in {"out", "waiting"}
    BY <1>2, AtRest DEF BuildInv, Phase, CallPhase
  <1>9. OnPlan(t)' BY <1>4, <1>5, <1>6, <1>7 DEF OnPlan
  <1>10. Fits(t)' BY <1>2, <1>6, <1>7, <1>8, <1>9, OutOfGet DEF Phase, CallPhase
  <1> QED BY <1>1, <1>2, <1>3, <1>4, <1>6, <1>10, ThreadLeaves

\* A thread that becomes idle, with its member done if it is the request's.
LEMMA GoesIdle ==
  ASSUME BuildInv, NEW t \in Thread,
         ThreadStep(t) \/ UNCHANGED <<poolVars, flightVars, segmentVars>>,
         work' = [work EXCEPT ![t] = Idle], todo' = todo,
         lease'[t] = "none", flight'[t].at \in {"out", "waiting"},
         remaining' = IF t = Main THEN Tail(remaining) ELSE remaining,
         t = Main => remaining # <<>>,
         \/ faultless' = faultless
         \/ /\ faultless' = faultless \cup {work[t].task} /\ work[t].task \in Task
            /\ \A k \in KeysOf(work[t].task) : Known(k)
  PROVE  BuildInv'
  <1>1. Idle \in Work /\ Idle.at = "idle" BY IdleTyped
  <1>2. /\ work \in [Thread -> Work] /\ todo \in Seq(Task) /\ remaining \in Seq(Range(Members))
        /\ faultless \subseteq Task
    BY DEF BuildInv, BuildTypeOK
  <1>3. work'[t] = Idle BY <1>2
  <1>4. Fits(t)'
    <2>1. OnPlan(t)' BY <1>1, <1>3 DEF OnPlan
    <2> QED BY <1>1, <1>3, <2>1, OutOfGet DEF Phase, CallPhase
  <1>5. remaining' \in Seq(Range(Members)) BY <1>2, HeadTailProperties
  <1>6. faultless' \subseteq Task /\ \A task \in faultless' \ faultless : \A k \in KeysOf(task) : Known(k)
    BY <1>2
  <1> QED BY <1>1, <1>2, <1>4, <1>5, <1>6, ThreadLeaves

LEMMA AbortInv ==
  ASSUME BuildInv, NEW t \in Thread,
         ThreadStep(t) \/ UNCHANGED <<poolVars, flightVars, segmentVars>>,
         Abort(t), faultless' = faultless,
         lease'[t] = "none", flight'[t].at \in {"out", "waiting"},
         t = Main => remaining # <<>>
  PROVE  BuildInv'
  BY GoesIdle DEF Abort

LEMMA FinishPlanInv ==
  ASSUME BuildInv, NEW t \in Thread, FinishPlan(t)
  PROVE  BuildInv'
  <1>1. ThreadStep(t) BY DEF ThreadStep
  <1>2. /\ work[t].at = "next" /\ work[t].plan = <<>> /\ UNCHANGED <<lease, flight, todo>>
        /\ work' = [work EXCEPT ![t] = Idle]
        /\ remaining' = IF t = Main THEN Tail(remaining) ELSE remaining
        /\ faultless' = faultless \/ faultless' = faultless \cup {work[t].task}
    BY DEF FinishPlan, At, poolVars, flightVars
  <1>3. PlanKeys(<<>>) = {} BY DEF PlanKeys
  <1>4. work[t].task \in Task /\ \A k \in KeysOf(work[t].task) : Known(k)
    BY <1>2, <1>3 DEF BuildInv, Fits, OnPlan
  <1>5. t = Main => remaining # <<>> BY <1>2 DEF BuildInv, MemberAtHand
  <1>6. lease[t] = "none" /\ flight[t].at \in {"out", "waiting"}
    BY <1>2, AtRest DEF BuildInv, Phase, CallPhase
  <1> QED BY <1>1, <1>2, <1>4, <1>5, <1>6, GoesIdle

\* A thread whose next item is done, or needed nothing.
LEMMA Advances ==
  ASSUME BuildInv, NEW t \in Thread, ThreadStep(t),
         NEW w \in Work, work' = [work EXCEPT ![t] = w],
         work[t].at # "idle" /\ work[t].plan # <<>>,
         w.at = "next" /\ w.task = work[t].task /\ w.plan = Tail(work[t].plan),
         Item(t).kind = "get" => values'[Item(t).key] # Nothing,
         lease'[t] = "none", flight'[t].at \in {"out", "waiting"},
         UNCHANGED <<todo, remaining, faultless>>
  PROVE  BuildInv'
  <1>1. /\ work \in [Thread -> Work] /\ todo \in Seq(Task) /\ remaining \in Seq(Range(Members))
        /\ faultless \subseteq Task
    BY DEF BuildInv, BuildTypeOK
  <1>2. work'[t] = w /\ work[t].plan \in Seq(PlanItem) BY <1>1 DEF Work
  <1>3. FlightAct(t) \/ UNCHANGED flightVars BY ThreadFlight DEF BuildInv
  <1>4. \A k \in Key : Known(k) => Known(k)' BY <1>3, ActValuesStay DEF BuildInv, Known
  <1>5. OnPlan(t)'
    <2> DEFINE task == work[t].task
               plan == work[t].plan
    <2>1. task \in Task /\ PlanKeys(plan) \subseteq KeysOf(task)
          /\ \A k \in KeysOf(task) : Known(k) \/ k \in PlanKeys(plan)
      BY DEF BuildInv, Fits, OnPlan
    <2>2. \A k \in KeysOf(task) : k \in Key BY <2>1, RequestAssumption DEF KeysOf
    <2>3. /\ Item(t).kind = "get" => PlanKeys(plan) = {Item(t).key} \cup PlanKeys(Tail(plan))
          /\ Item(t).kind # "get" => PlanKeys(plan) = PlanKeys(Tail(plan))
      BY <1>2, KeysOfHead DEF Item
    <2>4. PlanKeys(Tail(plan)) \subseteq KeysOf(task) BY <2>1, <2>3
    <2>5. ASSUME NEW k \in KeysOf(task), k \notin PlanKeys(Tail(plan)) PROVE values'[k] # Nothing
      <3>1. CASE Item(t).kind = "get" /\ k = Item(t).key BY <3>1
      <3>2. CASE ~(Item(t).kind = "get" /\ k = Item(t).key)
        BY <1>4, <2>1, <2>2, <2>3, <2>5, <3>2 DEF Known
      <3> QED BY <3>1, <3>2
    <2> QED BY <1>2, <2>1, <2>4, <2>5 DEF OnPlan, Known
  <1>6. Fits(t)' BY <1>2, <1>5, OutOfGet DEF Phase, CallPhase
  <1>7. t = Main => remaining # <<>> BY DEF BuildInv, MemberAtHand
  <1> QED BY <1>1, <1>6, <1>7, ThreadLeaves

\* A thread that stays at the same item of its plan.
LEMMA StaysOnItem ==
  ASSUME BuildInv, NEW t \in Thread, ThreadStep(t),
         NEW w \in Work, work' = [work EXCEPT ![t] = w],
         work[t].at # "idle" /\ w.at # "idle" /\ w.task = work[t].task /\ w.plan = work[t].plan,
         InGet(t)', lease'[t] # "none" => w.at \in CallPhase,
         UNCHANGED <<todo, remaining, faultless>>
  PROVE  BuildInv'
  <1>1. /\ work \in [Thread -> Work] /\ todo \in Seq(Task) /\ remaining \in Seq(Range(Members))
        /\ faultless \subseteq Task
    BY DEF BuildInv, BuildTypeOK
  <1>2. work'[t] = w BY <1>1
  <1>3. FlightAct(t) \/ UNCHANGED flightVars BY ThreadFlight DEF BuildInv
  <1>4. \A k \in Key : Known(k) => Known(k)' BY <1>3, ActValuesStay DEF BuildInv, Known
  <1>5. OnPlan(t)'
    <2>1. /\ work[t].task \in Task /\ PlanKeys(work[t].plan) \subseteq KeysOf(work[t].task)
          /\ \A k \in KeysOf(work[t].task) : Known(k) \/ k \in PlanKeys(work[t].plan)
      BY DEF BuildInv, Fits, OnPlan
    <2>2. \A k \in KeysOf(work[t].task) : k \in Key BY <2>1, RequestAssumption DEF KeysOf
    <2> QED BY <1>2, <1>4, <2>1, <2>2 DEF OnPlan
  <1>6. Fits(t)' BY <1>2, <1>5 DEF Fits, Connected
  <1>7. t = Main => remaining # <<>> BY DEF BuildInv, MemberAtHand
  <1> QED BY <1>1, <1>6, <1>7, ThreadLeaves

\* What InGet says, of a thread that keeps its item.
LEMMA ItemStays ==
  ASSUME BuildInv, NEW t \in Thread, NEW w, work' = [work EXCEPT ![t] = w], w.plan = work[t].plan
  PROVE  work'[t] = w /\ Item(t)' = Item(t)
  BY DEF BuildInv, BuildTypeOK, Item

LEMMA GetHitInv ==
  ASSUME BuildInv, NEW t \in Thread, GetHit(t)
  PROVE  BuildInv'
  <1> DEFINE w == [work[t] EXCEPT !.plan = Tail(work[t].plan)]
  <1>1. ThreadStep(t) BY DEF ThreadStep
  <1>2. /\ work[t].at = "next" /\ work[t].plan # <<>> /\ values[Item(t).key] # Nothing
        /\ work' = [work EXCEPT ![t] = w]
        /\ UNCHANGED <<lease, flight, values, todo, remaining, faultless>>
    BY DEF GetHit, Hit, Asks, At, poolVars, flightVars, historyVars
  <1>3. work[t] \in Work /\ Tail(work[t].plan) \in Seq(PlanItem)
    BY <1>2, KeysOfHead DEF BuildInv, BuildTypeOK, Work
  <1>4. w \in Work /\ w.at = "next" /\ w.task = work[t].task /\ w.plan = Tail(work[t].plan)
    BY <1>2, <1>3 DEF Work
  <1> HIDE DEF w
  <1>5. lease[t] = "none" /\ flight[t].at \in {"out", "waiting"}
    BY <1>2, AtRest DEF BuildInv, Phase, CallPhase
  <1> QED BY <1>1, <1>2, <1>4, <1>5, Advances

LEMMA LookUpRouterInv ==
  ASSUME BuildInv, NEW t \in Thread, LookUpRouter(t)
  PROVE  BuildInv'
  <1> DEFINE w == [work[t] EXCEPT !.plan = Tail(work[t].plan)]
  <1>1. ThreadStep(t) BY DEF ThreadStep
  <1>2. /\ work[t].at = "next" /\ work[t].plan # <<>> /\ Item(t).kind = "router"
        /\ UNCHANGED <<lease, flight, faultless>>
    BY DEF LookUpRouter, At, poolVars, flightVars, historyVars
  <1>3. lease[t] = "none" /\ flight[t].at \in {"out", "waiting"}
    BY <1>2, AtRest DEF BuildInv, Phase, CallPhase
  <1>4. CASE work[t].task[1] \in Configured
    <2>1. work' = [work EXCEPT ![t] = w] /\ UNCHANGED <<todo, remaining>> BY <1>4 DEF LookUpRouter
    <2>2. work[t] \in Work /\ Tail(work[t].plan) \in Seq(PlanItem)
      BY <1>2, KeysOfHead DEF BuildInv, BuildTypeOK, Work
    <2>3. w \in Work /\ w.at = "next" /\ w.task = work[t].task /\ w.plan = Tail(work[t].plan)
      BY <1>2, <2>2 DEF Work
    <2> HIDE DEF w
    <2> QED BY <1>1, <1>2, <1>3, <2>1, <2>3, Advances
  <1>5. CASE work[t].task[1] \notin Configured
    <2>1. Abort(t) BY <1>5 DEF LookUpRouter
    <2>2. t = Main => remaining # <<>> BY <1>2 DEF BuildInv, MemberAtHand
    <2> QED BY <1>1, <1>2, <1>3, <2>1, <2>2, AbortInv
  <1> QED BY <1>4, <1>5

LEMMA GetMissInv ==
  ASSUME BuildInv, NEW t \in Thread, GetMiss(t)
  PROVE  BuildInv'
  <1>1. ThreadStep(t) BY DEF ThreadStep
  <1>2. /\ work[t].at = "next" /\ work[t].plan # <<>> /\ Item(t).kind = "get"
        /\ UNCHANGED <<lease, todo, remaining, faultless>>
    BY DEF GetMiss, Asks, At, poolVars, historyVars
  <1>3. work \in [Thread -> Work] /\ work[t] \in Work /\ flight \in [Thread -> Flight]
    BY DEF BuildInv, BuildTypeOK, FlightInv, FlightShape
  <1>4. lease[t] = "none" BY <1>2, AtRest DEF BuildInv, Phase, CallPhase
  <1>5. CASE Own(t, Item(t).key)
    <2> DEFINE at == IF Item(t).trip = <<>> THEN "load" ELSE "fetch"
               w == [work[t] EXCEPT !.at = at]
    <2>1. flight'[t].at = "owner" /\ flight'[t].key = Item(t).key BY <1>3, <1>5 DEF Own
    <2>2. work' = [work EXCEPT ![t] = w]
      BY <1>5 DEF GetMiss, Go, Own, Await
    <2>3. w \in Work /\ w.at = at /\ w.task = work[t].task /\ w.plan = work[t].plan
      BY <1>3 DEF Work, Phase, CallPhase
    <2>4. at \in {"load", "fetch"} /\ (at = "load" <=> Item(t).trip = <<>>) OBVIOUS
    <2> HIDE DEF w, at
    <2>5. work'[t] = w /\ Item(t)' = Item(t) BY <2>2, <2>3, ItemStays
    <2>6. InGet(t)' BY <1>2, <2>1, <2>3, <2>4, <2>5 DEF InGet, Phase, CallPhase
    <2> QED BY <1>1, <1>2, <1>4, <2>2, <2>3, <2>4, <2>6, StaysOnItem
  <1>6. CASE Await(t, Item(t).key)
    <2>1. flight'[t].at = "waiting" BY <1>3, <1>6 DEF Await
    <2>2. work' = [work EXCEPT ![t] = work[t]] BY <1>3, <1>6 DEF GetMiss, Own, Await
    <2>3. work'[t] = work[t] BY <1>3, <2>2
    <2>4. InGet(t)' BY <1>2, <2>1, <2>3 DEF InGet, Phase, CallPhase
    <2> QED BY <1>1, <1>2, <1>3, <1>4, <2>2, <2>4, StaysOnItem
  <1> QED BY <1>5, <1>6 DEF GetMiss

\* The borrow of a connection and its return, around one database call.
LEMMA BorrowInv ==
  ASSUME BuildInv, NEW t \in Thread, BorrowSlot(t) \/ BorrowConnection(t) \/ GiveBack(t)
  PROVE  BuildInv'
  <1>1. ThreadStep(t) BY DEF ThreadStep
  <1>2. UNCHANGED <<flight, values, work, todo, remaining, faultless>>
    BY DEF BorrowSlot, BorrowConnection, GiveBack, flightVars, buildVars, historyVars
  <1>3. work[t].at \in CallPhase
    <2>1. CASE BorrowSlot(t) \/ BorrowConnection(t)
      BY <2>1 DEF BorrowSlot, BorrowConnection, Calling, CallPhase
    <2>2. CASE GiveBack(t)
      BY <2>2 DEF GiveBack, PutConn, BuildInv, Fits, Connected
    <2> QED BY <2>1, <2>2
  <1>4. work[t] \in Work /\ work' = [work EXCEPT ![t] = work[t]]
    BY <1>2 DEF BuildInv, BuildTypeOK
  <1>5. InGet(t)'
    <2>1. InGet(t) /\ Item(t)' = Item(t) BY <1>2 DEF BuildInv, Fits, Item
    <2> QED BY <1>2, <2>1 DEF InGet, Known
  <1> QED BY <1>1, <1>2, <1>3, <1>4, <1>5, StaysOnItem DEF CallPhase

\* A call that is answered, or fails while the connection is held.
LEMMA QueryInv ==
  ASSUME BuildInv, NEW t \in Thread, QueryAnswers(t) \/ QueryFails(t)
  PROVE  BuildInv'
  <1>1. ThreadStep(t) BY DEF ThreadStep
  <1>2. PICK a \in {"ok", "failed"} : work' = [work EXCEPT ![t].answer = a]
    BY DEF QueryAnswers, QueryFails, Answer
  <1> DEFINE w == [work[t] EXCEPT !.answer = a]
  <1>3. /\ UNCHANGED <<flight, values, todo, remaining, faultless>>
        /\ work[t].at \in CallPhase
    BY DEF QueryAnswers, QueryFails, flightVars, historyVars, Calling, CallPhase
  <1>4. work[t] \in Work /\ work' = [work EXCEPT ![t] = w] BY <1>2 DEF BuildInv, BuildTypeOK
  <1>5. w \in Work /\ w.at = work[t].at /\ w.task = work[t].task /\ w.plan = work[t].plan /\ w.value = work[t].value
    BY <1>4 DEF Work
  <1> HIDE DEF w
  <1>6. InGet(t)'
    <2>1. InGet(t) /\ Item(t)' = Item(t) /\ work'[t] = w BY <1>4, <1>5, ItemStays DEF BuildInv, Fits
    <2> QED BY <1>3, <1>5, <2>1 DEF InGet, Known
  <1> QED BY <1>1, <1>3, <1>4, <1>5, <1>6, StaysOnItem DEF CallPhase

\* Back from a call: a loaded catalogue, a load that raised, or on to the
\* trip's next pair.
LEMMA BackFromCall ==
  ASSUME BuildInv, NEW t \in Thread, ThreadStep(t), work[t].at \in CallPhase,
         NEW at, NEW a \in {"", "ok", "failed"},
         work[t].at = "load" => at \in {"computed", "raised"},
         work[t].at # "load" => at = "route",
         work' = [work EXCEPT ![t] = [work[t] EXCEPT !.at = at, !.answer = a]], lease'[t] = "none",
         UNCHANGED <<flight, values, todo, remaining, faultless>>
  PROVE  BuildInv'
  <1> DEFINE w == [work[t] EXCEPT !.at = at, !.answer = a]
  <1>1. work[t] \in Work BY DEF BuildInv, BuildTypeOK
  <1>2. at \in Phase BY DEF Phase, CallPhase
  <1>3. w \in Work /\ w.at = at /\ w.task = work[t].task /\ w.plan = work[t].plan
    BY <1>1, <1>2 DEF Work
  <1>4. work' = [work EXCEPT ![t] = w] OBVIOUS
  <1> HIDE DEF w
  <1>5. InGet(t) /\ Item(t)' = Item(t) /\ work'[t] = w BY <1>3, <1>4, ItemStays DEF BuildInv, Fits
  <1>6. /\ w.plan # <<>> /\ Item(t).kind = "get" /\ flight[t].at = "owner" /\ flight[t].key = Item(t).key
        /\ work[t].at = "load" => Item(t).trip = <<>>
        /\ work[t].at # "load" => Item(t).trip # <<>>
    BY <1>3, <1>5 DEF InGet, Phase, CallPhase
  <1>7. InGet(t)'
    <2>1. CASE work[t].at = "load" BY <1>3, <1>5, <1>6, <2>1 DEF InGet, Phase, CallPhase
    <2>2. CASE work[t].at # "load" BY <1>3, <1>5, <1>6, <2>2 DEF InGet, Phase, CallPhase
    <2> QED BY <2>1, <2>2
  <1> QED BY <1>2, <1>3, <1>4, <1>7, StaysOnItem DEF Phase, CallPhase

LEMMA BorrowFailsInv ==
  ASSUME BuildInv, NEW t \in Thread, BorrowFails(t)
  PROVE  BuildInv'
  <1> DEFINE at == After(t, "failed")
  <1>1. ThreadStep(t) BY DEF ThreadStep
  <1>2. /\ UNCHANGED <<flight, values, todo, remaining, faultless>> /\ work[t].at \in CallPhase
        /\ work' = [work EXCEPT ![t].at = at] /\ work[t].answer = ""
    BY DEF BorrowFails, flightVars, Calling, CallPhase, Go
  <1>3. lease'[t] = "none"
    <2>1. lease \in [Borrower -> Lease] /\ t \in Borrower
      BY ThreadBorrows DEF BuildInv, PoolInv, PoolTypeOK
    <2> QED BY <2>1 DEF BorrowFails, AcquireTimesOut, GetConnFails, poolVars
  <1>4. /\ work[t].at = "load" => at = "raised"
        /\ work[t].at # "load" => at = "route"
    BY <1>2 DEF After, At, CallPhase
  <1> HIDE DEF at
  <1>5. work' = [work EXCEPT ![t] = [work[t] EXCEPT !.at = at, !.answer = ""]]
    <2>1. work[t] \in Work BY DEF BuildInv, BuildTypeOK
    <2>2. [work[t] EXCEPT !.at = at] = [work[t] EXCEPT !.at = at, !.answer = ""]
      BY <1>2, <2>1 DEF Work
    <2> QED BY <1>2, <2>2
  <1> QED BY <1>1, <1>2, <1>3, <1>4, <1>5, BackFromCall

LEMMA GoOnInv ==
  ASSUME BuildInv, NEW t \in Thread, GoOn(t)
  PROVE  BuildInv'
  <1> DEFINE at == After(t, work[t].answer)
  <1>1. ThreadStep(t) BY DEF ThreadStep
  <1>2. /\ UNCHANGED <<flight, values, todo, remaining, faultless>>
        /\ work' = [work EXCEPT ![t] = [work[t] EXCEPT !.at = at, !.answer = ""]]
        /\ lease[t] = "returned" /\ lease' = [lease EXCEPT ![t] = "none"]
    BY DEF GoOn, ReleaseSlot, flightVars, historyVars
  <1>3. work[t].at \in CallPhase BY <1>2 DEF BuildInv, Fits, Connected
  <1>4. lease'[t] = "none" BY <1>2, ThreadBorrows DEF BuildInv, PoolInv, PoolTypeOK
  <1>5. /\ work[t].at = "load" => at \in {"computed", "raised"}
        /\ work[t].at # "load" => at = "route"
    BY <1>3 DEF After, At, CallPhase
  <1> HIDE DEF at
  <1> QED BY <1>1, <1>2, <1>3, <1>4, <1>5, BackFromCall

\* Routing the pairs of a trip, and taking its legs.
LEMMA RoutingInv ==
  ASSUME BuildInv, NEW t \in Thread, UseRow(t) \/ RouteMiss(t) \/ Routed(t)
  PROVE  BuildInv'
  <1>1. ThreadStep(t) BY DEF ThreadStep
  <1>2. /\ work[t].at = "route" /\ UNCHANGED <<lease, flight, values, todo, remaining, faultless>>
    BY DEF UseRow, RouteMiss, Routed, At, poolVars, flightVars, buildVars, historyVars
  <1>3. work[t] \in Work BY DEF BuildInv, BuildTypeOK
  <1>4. lease[t] = "none"
    BY <1>2, ThreadBorrows DEF BuildInv, Fits, Connected, CallPhase
  <1>5. InGet(t) BY DEF BuildInv, Fits
  <1>6. PICK w \in Work :
          /\ work' = [work EXCEPT ![t] = w] /\ w.task = work[t].task /\ w.plan = work[t].plan
          /\ w.at \in {"route", "keep", "raised", "computed"}
          /\ w.at = "computed" => w.value \in Seq(Leg)
    <2>1. CASE UseRow(t)
      <3>1. work' = [work EXCEPT ![t] = work[t]]
        BY <2>1 DEF UseRow, buildVars, BuildInv, BuildTypeOK
      <3> QED BY <1>2, <1>3, <3>1
    <2>2. CASE RouteMiss(t)
      <3>1. PICK at \in {"keep", "raised"} : work' = [work EXCEPT ![t].at = at]
        BY <2>2 DEF RouteMiss, Go
      <3> DEFINE w == [work[t] EXCEPT !.at = at]
      <3>2. w \in Work /\ w.task = work[t].task /\ w.plan = work[t].plan /\ w.at = at
        BY <1>3 DEF Work, Phase, CallPhase
      <3>3. work' = [work EXCEPT ![t] = w] BY <3>1
      <3> HIDE DEF w
      <3> QED BY <3>2, <3>3
    <2>3. CASE Routed(t)
      <3> DEFINE w == [work[t] EXCEPT !.at = "computed", !.value = lookup[t].legs]
      <3>1. lookup[t].legs \in Seq(Leg) BY FamilyAssumption DEF BuildInv, SegmentInv, LookupFits
      <3>2. work' = [work EXCEPT ![t] = w] BY <2>3 DEF Routed
      <3>3. /\ w \in Work /\ w.task = work[t].task /\ w.plan = work[t].plan /\ w.at = "computed"
            /\ w.value \in Seq(Leg)
        BY <1>3, <3>1 DEF Work, Phase, CallPhase
      <3> HIDE DEF w
      <3> QED BY <3>2, <3>3
    <2> QED BY <2>1, <2>2, <2>3
  <1>7. work'[t] = w /\ Item(t)' = Item(t) BY <1>6, ItemStays
  <1>8. InGet(t)' BY <1>2, <1>5, <1>6, <1>7 DEF InGet, Phase, CallPhase
  <1> QED BY <1>1, <1>2, <1>4, <1>6, <1>8, StaysOnItem

LEMMA KeepValueInv ==
  ASSUME BuildInv, NEW t \in Thread, KeepValue(t)
  PROVE  BuildInv'
  <1> DEFINE v == IF Item(t).trip = <<>> THEN Item(t).key ELSE work[t].value
             k == Item(t).key
  <1>1. ThreadStep(t) BY DEF ThreadStep
  <1>2. /\ work[t].at = "computed" /\ Keep(t, v)
        /\ UNCHANGED <<lease, work, todo, remaining, faultless>>
    BY DEF KeepValue, At, poolVars, buildVars, historyVars
  <1>3. InGet(t) /\ work[t] \in Work /\ work' = [work EXCEPT ![t] = work[t]]
    BY <1>2 DEF BuildInv, BuildTypeOK, Fits
  <1>4. k \in Key /\ flight[t].key = k /\ work[t].plan # <<>> /\ Item(t).kind = "get"
    BY <1>2, <1>3, ItemTyped DEF InGet, Phase, BuildInv
  <1>5. v # Nothing
    BY <1>2, <1>3, <1>4, FlightAssumption, RequestAssumption DEF InGet, Phase
  <1> HIDE DEF v
  <1>6. flight \in [Thread -> Flight] /\ values = [l \in Key |-> values[l]]
    BY DEF BuildInv, FlightInv, FlightShape
  <1>7. values'[k] = v /\ flight'[t].at = "stored" /\ flight'[t].key = flight[t].key
    BY <1>2, <1>4, <1>6 DEF Keep, Flight
  <1>8. Item(t)' = Item(t) BY <1>2 DEF Item
  <1>9. InGet(t)' BY <1>2, <1>3, <1>4, <1>5, <1>7, <1>8 DEF InGet, Phase, CallPhase, Known
  <1>10. lease[t] = "none" BY <1>2, ThreadBorrows DEF BuildInv, Fits, Connected, CallPhase
  <1> QED BY <1>1, <1>2, <1>3, <1>9, <1>10, StaysOnItem

LEMMA ForgetKeyInv ==
  ASSUME BuildInv, NEW t \in Thread, ForgetKey(t)
  PROVE  BuildInv'
  <1>1. ThreadStep(t) BY DEF ThreadStep
  <1>2. /\ work[t].at \in {"computed", "raised"} /\ Forget(t, At(t, "computed"))
        /\ UNCHANGED <<lease, work, todo, remaining, faultless>>
    BY DEF ForgetKey, poolVars, buildVars, historyVars
  <1>3. InGet(t) /\ work[t] \in Work /\ work' = [work EXCEPT ![t] = work[t]]
    BY <1>2 DEF BuildInv, BuildTypeOK, Fits
  <1>4. flight \in [Thread -> Flight] BY DEF BuildInv, FlightInv, FlightShape
  <1>5. /\ flight'[t].at = "forgot" /\ flight'[t].key = flight[t].key /\ values' = values
        /\ work[t].at = "computed" => flight[t].at = "stored"
    BY <1>2, <1>4 DEF Forget, Flight, At
  <1>6. Item(t)' = Item(t) BY <1>2 DEF Item
  <1>7. InGet(t)' BY <1>2, <1>3, <1>5, <1>6 DEF InGet, Phase, CallPhase, Known
  <1>8. lease[t] = "none" BY <1>2, ThreadBorrows DEF BuildInv, Fits, Connected, CallPhase
  <1> QED BY <1>1, <1>2, <1>3, <1>7, <1>8, StaysOnItem

LEMMA LeaveGetInv ==
  ASSUME BuildInv, NEW t \in Thread, LeaveGet(t)
  PROVE  BuildInv'
  <1>1. ThreadStep(t) BY DEF ThreadStep
  <1>2. /\ work[t].at \in {"computed", "raised"} /\ OpenGate(t)
        /\ UNCHANGED <<lease, values, faultless>>
    BY DEF LeaveGet, OpenGate, poolVars, historyVars
  <1>3. InGet(t) /\ work[t] \in Work BY DEF BuildInv, BuildTypeOK, Fits
  <1>4. lease[t] = "none" BY <1>2, ThreadBorrows DEF BuildInv, Fits, Connected, CallPhase
  <1>5. flight[t].at = "forgot" /\ flight'[t].at = "out" BY <1>2 DEF OpenGate, Outside
  <1>6. CASE work[t].at = "computed"
    <2> DEFINE w == [work[t] EXCEPT !.at = "next", !.plan = Tail(work[t].plan), !.value = Nothing]
    <2>1. work' = [work EXCEPT ![t] = w] /\ UNCHANGED <<todo, remaining>>
      BY <1>6 DEF LeaveGet, At
    <2>2. work[t].plan # <<>> /\ values[Item(t).key] # Nothing
      BY <1>3, <1>5, <1>6 DEF InGet, Phase, Known
    <2>3. Tail(work[t].plan) \in Seq(PlanItem) BY <1>3, <2>2, KeysOfHead DEF Work
    <2>4. w \in Work /\ w.at = "next" /\ w.task = work[t].task /\ w.plan = Tail(work[t].plan)
      BY <1>3, <2>3 DEF Work
    <2> HIDE DEF w
    <2> QED BY <1>1, <1>2, <1>4, <1>5, <1>6, <2>1, <2>2, <2>4, Advances
  <1>7. CASE work[t].at = "raised"
    <2>1. Abort(t) BY <1>7 DEF LeaveGet, At
    <2>2. t = Main => remaining # <<>> BY <1>7 DEF BuildInv, MemberAtHand
    <2> QED BY <1>1, <1>2, <1>4, <1>5, <2>1, <2>2, AbortInv
  <1> QED BY <1>2, <1>6, <1>7

LEMMA ThreadStepInv ==
  ASSUME BuildInv, NEW t \in Thread, ThreadStep(t)
  PROVE  BuildInv'
  <1>1. CASE TakeTask(t) BY <1>1, TakeTaskInv
  <1>2. CASE FinishPlan(t) BY <1>2, FinishPlanInv
  <1>3. CASE LookUpRouter(t) BY <1>3, LookUpRouterInv
  <1>4. CASE GetHit(t) BY <1>4, GetHitInv
  <1>5. CASE GetMiss(t) BY <1>5, GetMissInv
  <1>6. CASE BorrowSlot(t) \/ BorrowConnection(t) \/ GiveBack(t) BY <1>6, BorrowInv
  <1>7. CASE BorrowFails(t) BY <1>7, BorrowFailsInv
  <1>8. CASE QueryAnswers(t) \/ QueryFails(t) BY <1>8, QueryInv
  <1>9. CASE GoOn(t) BY <1>9, GoOnInv
  <1>10. CASE UseRow(t) \/ RouteMiss(t) \/ Routed(t) BY <1>10, RoutingInv
  <1>11. CASE KeepValue(t) BY <1>11, KeepValueInv
  <1>12. CASE ForgetKey(t) BY <1>12, ForgetKeyInv
  <1>13. CASE LeaveGet(t) BY <1>13, LeaveGetInv
  <1> QED BY <1>1, <1>2, <1>3, <1>4, <1>5, <1>6, <1>7, <1>8, <1>9, <1>10, <1>11, <1>12, <1>13
       DEF ThreadStep

\* The member loop: a member's route is a task of the prewarm.
LEMMA LoopStepInv == BuildInv /\ LoopStep => BuildInv'
  <1> SUFFICES ASSUME BuildInv, LoopStep PROVE BuildInv' OBVIOUS
  <1>1. /\ Main \in Thread /\ todo \in Seq(Task) /\ remaining \in Seq(Range(Members))
        /\ faultless \subseteq Task /\ work \in [Thread -> Work] /\ Fits(Main)
    BY FamilyAssumption DEF BuildInv, BuildTypeOK
  <1>2. UNCHANGED <<poolVars, flightVars, segmentVars>> /\ UNCHANGED <<lease, flight, values>>
    BY DEF LoopStep, StartMember, EvaluateMember, MemberRaises, poolVars, flightVars
  <1>3. remaining # <<>> /\ faultless' = faultless
    BY DEF LoopStep, StartMember, EvaluateMember, MemberRaises, historyVars
  <1>4. CASE StartMember
    <2> DEFINE task == RouteKey(Head(remaining))
               w == [Idle EXCEPT !.at = "next", !.task = task, !.plan = MemberPlan(task)]
    <2>1. Head(remaining) \in Range(Members) BY <1>1, <1>3
    <2>2. task \in Task BY <2>1, RequestAssumption DEF Range, RouteKey
    <2>3. /\ work' = [work EXCEPT ![Main] = w] /\ work[Main].at = "idle"
          /\ UNCHANGED <<todo, remaining>>
      BY <1>4 DEF StartMember, At
    <2>4. MemberPlan(task) \in Seq(PlanItem) /\ PlanKeys(MemberPlan(task)) = KeysOf(task)
      BY <2>2, PlansKeys
    <2> HIDE DEF task
    <2>5. w \in Work /\ w.at = "next" /\ w.task = task /\ w.plan = MemberPlan(task)
      BY <2>2, <2>4 DEF Idle, Work
    <2> HIDE DEF w
    <2>6. work'[Main] = w BY <1>1, <2>3
    <2>7. lease[Main] = "none" /\ flight[Main].at \in {"out", "waiting"}
      BY <1>1, <2>3, AtRest DEF Phase, CallPhase
    <2>8. OnPlan(Main)' BY <2>2, <2>4, <2>5, <2>6 DEF OnPlan
    <2>9. Fits(Main)' BY <1>1, <1>2, <2>5, <2>6, <2>7, <2>8, OutOfGet DEF Phase, CallPhase
    <2> QED BY <1>1, <1>2, <1>3, <2>3, <2>5, <2>9, ThreadLeaves
  <1>5. CASE EvaluateMember
    <2>1. /\ work' = work /\ work[Main].at = "idle" /\ todo' = todo /\ remaining' = Tail(remaining)
      BY <1>5 DEF EvaluateMember, At
    <2>2. work[Main] \in Work /\ work' = [work EXCEPT ![Main] = work[Main]] BY <1>1, <2>1
    <2>3. Fits(Main)'
      BY <1>1, <1>2, <2>1 DEF Fits, InGet, Connected, OnPlan, Known, Item, Phase, CallPhase
    <2>4. Tail(remaining) \in Seq(Range(Members)) BY <1>1, <1>3
    <2> QED BY <1>1, <1>2, <1>3, <2>1, <2>2, <2>3, <2>4, ThreadLeaves
  <1>6. CASE MemberRaises
    <2>1. Abort(Main) /\ work[Main].at \in {"idle", "next"} BY <1>6 DEF MemberRaises, At
    <2>2. lease[Main] = "none" /\ flight[Main].at \in {"out", "waiting"}
      BY <1>1, <2>1, AtRest DEF Phase, CallPhase
    <2> QED BY <1>1, <1>2, <1>3, <2>1, <2>2, AbortInv
  <1> QED BY <1>4, <1>5, <1>6 DEF LoopStep

\* What happens around the build.
LEMMA AroundTheBuild ==
  ASSUME BuildInv, [PoolNext]_poolVars, [SegmentNext]_segmentVars,
         \A t \in Thread : lease'[t] = lease[t],
         UNCHANGED <<flightVars, buildVars, faultless>>
  PROVE  BuildInv'
  <1>1. PoolInv' /\ SegmentInv' BY PoolStepInv, SegmentStepInv DEF BuildInv
  <1>2. UNCHANGED <<values, inFlight, flight, todo, work, remaining, faultless>>
    BY DEF flightVars, buildVars
  <1>3. FlightInv' BY FlightStepInv DEF BuildInv
  <1>4. BuildTypeOK' BY <1>2 DEF BuildInv, BuildTypeOK
  <1>5. ASSUME NEW t \in Thread PROVE Fits(t)'
    BY <1>2, BystanderFits DEF BuildInv
  <1>6. WarmIsKnown' /\ MemberAtHand' BY <1>2 DEF BuildInv, WarmIsKnown, Known, MemberAtHand
  <1> QED BY <1>1, <1>3, <1>4, <1>5, <1>6 DEF BuildInv

LEMMA OtherStepInv ==
  ASSUME BuildInv, NEW b \in Other, OtherBorrows(b) \/ OtherEnds(b)
  PROVE  BuildInv'
  <1>1. b \in Borrower /\ b \notin Thread BY DEF Other
  <1>2. PoolNext BY <1>1 DEF OtherBorrows, OtherEnds, PoolNext
  <1>3. UNCHANGED <<flightVars, segmentVars, buildVars, faultless>>
    BY DEF OtherBorrows, OtherEnds, historyVars
  <1>4. lease \in [Borrower -> Lease] BY DEF BuildInv, PoolInv, PoolTypeOK
  <1>5. \A t \in Thread : lease'[t] = lease[t]
    BY <1>1, <1>4, ThreadBorrows
       DEF OtherBorrows, OtherEnds, Acquire, GetConn, GetConnFails, PutConn, ReleaseSlot
  <1> QED BY <1>2, <1>3, <1>5, AroundTheBuild

LEMMA TableStepInv ==
  ASSUME BuildInv, TableMoves \/ \E pair \in Pair, up \in BOOLEAN, date \in 1 .. MaxImport : OtherProcessStores(pair, up, date)
  PROVE  BuildInv'
  <1>1. UNCHANGED <<poolVars, flightVars, buildVars, faultless>> /\ lease' = lease
    BY DEF TableMoves, OtherProcessStores, poolVars
  <1>2. SegmentNext BY DEF TableMoves, OtherProcessStores, SegmentNext
  <1> QED BY <1>1, <1>2, AroundTheBuild

LEMMA BuildStepInv == BuildInv /\ [Next]_vars => BuildInv'
  <1> SUFFICES ASSUME BuildInv, [Next]_vars PROVE BuildInv' OBVIOUS
  <1>1. CASE UNCHANGED vars
    <2>1. UNCHANGED <<poolVars, flightVars, segmentVars, buildVars, faultless>> /\ lease' = lease
      BY <1>1 DEF vars, historyVars, poolVars
    <2> QED BY <2>1, AroundTheBuild
  <1>2. CASE \E t \in Thread : ThreadStep(t) BY <1>2, ThreadStepInv
  <1>3. CASE LoopStep BY <1>3, LoopStepInv
  <1>4. CASE \E b \in Other : OtherBorrows(b) \/ OtherEnds(b) BY <1>4, OtherStepInv
  <1>5. CASE TableMoves \/ \E pair \in Pair, up \in BOOLEAN, date \in 1 .. MaxImport : OtherProcessStores(pair, up, date)
    BY <1>5, TableStepInv
  <1>6. CASE Finished BY <1>1, <1>6 DEF Finished
  <1> QED BY <1>1, <1>2, <1>3, <1>4, <1>5, <1>6 DEF Next

\* Every step of the build is one of the segment cache.
LEMMA NextIsSegmentStep == BuildInv /\ [Next]_vars => [SegmentNext]_segmentVars
  <1> SUFFICES ASSUME BuildInv, [Next]_vars PROVE [SegmentNext]_segmentVars OBVIOUS
  <1>1. CASE UNCHANGED vars BY <1>1 DEF vars
  <1>2. CASE \E t \in Thread : ThreadStep(t) BY <1>2, ThreadSegments DEF BuildInv
  <1>3. CASE LoopStep BY <1>3 DEF LoopStep, StartMember, EvaluateMember, MemberRaises
  <1>4. CASE \E b \in Other : OtherBorrows(b) \/ OtherEnds(b) BY <1>4 DEF OtherBorrows, OtherEnds
  <1>5. CASE TableMoves \/ \E pair \in Pair, up \in BOOLEAN, date \in 1 .. MaxImport : OtherProcessStores(pair, up, date)
    BY <1>5 DEF TableMoves, OtherProcessStores, SegmentNext
  <1>6. CASE Finished BY <1>1, <1>6 DEF Finished
  <1> QED BY <1>1, <1>2, <1>3, <1>4, <1>5, <1>6 DEF Next

\* The memo of a build computes a key once and wakes everybody who waits for
\* it, whatever its threads ask for and whichever of their calls fail.
THEOREM BuildKeepsTheMemo ==
  Spec => []MemoIsSound
  <1>1. BuildInv => MemoIsSound BY InvOneComputation DEF BuildInv, FlightInv, MemoIsSound
  <1> QED BY <1>1, BuildInitInv, BuildStepInv, PTL DEF Spec

\* The request thread computes nothing of a task whose prewarm ended well,
\* for any plan, any number of workers and any failure of the others.
THEOREM BuildRunsFromMemo ==
  Spec => []LoopRunsFromMemo
  <1>1. BuildInv => LoopRunsFromMemo
    <2> SUFFICES ASSUME BuildInv, Computing(Main) PROVE work[Main].task \notin faultless
      BY DEF LoopRunsFromMemo
    <2> DEFINE plan == work[Main].plan
    <2>1. Main \in Thread BY FamilyAssumption
    <2>2. InGet(Main) /\ OnPlan(Main) /\ plan \in Seq(PlanItem)
      BY <2>1 DEF BuildInv, Fits, BuildTypeOK, Work
    <2>3. work[Main].at \in Phase BY <2>2 DEF InGet, Computing
    <2>4. plan # <<>> /\ Head(plan).kind = "get" /\ flight[Main].key = Head(plan).key
      BY <2>2, <2>3 DEF InGet, Item
    <2>5. Head(plan).key \in KeysOf(work[Main].task)
      <3>1. Head(plan).key \in PlanKeys(plan) BY <2>2, <2>4, KeysOfHead
      <3> QED BY <2>2, <2>3, <3>1 DEF OnPlan, Phase, CallPhase
    <2>6. values[Head(plan).key] = Nothing
      BY <2>1, <2>4 DEF BuildInv, FlightInv, OwnersMissed
    <2> QED BY <2>5, <2>6 DEF BuildInv, WarmIsKnown, Known
  <1> QED BY <1>1, BuildInitInv, BuildStepInv, PTL DEF Spec

\* The build keeps the segment cache's promises, and so do the processes
\* around it: a trip's legs are the trip's, and the rows older than the
\* import on record are those that came late.
THEOREM BuildKeepsTheTable ==
  Spec => []LegsFollowTheTrip /\ []OldRowsCameLate
  <1>1. BuildInv => SegmentInv BY DEF BuildInv
  <1>2. Init => PurgeInv BY PurgeInitInv DEF Init
  <1> QED BY <1>1, <1>2, BuildInitInv, BuildStepInv, NextIsSegmentStep, InvLegsFollow, PurgeStepInv,
             InvOldRowsLate, PTL
      DEF Spec

-----------------------------------------------------------------------------
(***************************************************************************)
(* The first build and the later ones.  While nothing disturbs a build,    *)
(* the rows of the table are those of the outbound direction, and whoever  *)
(* routes the return finds all of them.                                    *)
(***************************************************************************)

\* No two stops follow each other in both orders.
OneWay ==
  \A i, j \in 1 .. Len(StopList) - 1 :
    ~(StopList[i] = StopList[j + 1] /\ StopList[i + 1] = StopList[j])

\* The corridor a pair has on the way out, on one import.
UpOutbound(p) == \E i \in 1 .. Len(StopList) - 1 : StopList[i] = Lo(p) /\ StopList[i + 1] = Hi(p)
WayOut(p, date) == [pair |-> p, up |-> UpOutbound(p), date |-> date]

\* Rows, and a leg of a pair, as the way out has them; a leg of the table.
RowsWayOut(rows, date) == \A p \in Pair : rows[p] # NoRow => rows[p].corridor = WayOut(p, date)
AsStored(leg, p, table, date) ==
  p \in Pair /\ leg.corridor = WayOut(p, date) /\ table[p] # NoRow
AllStored(legs, trip, table, date) ==
  /\ DOMAIN legs = 1 .. Len(trip) - 1
  /\ \A i \in DOMAIN legs : AsStored(legs[i], {trip[i], trip[i + 1]}, table, date)

\* What a thread has in hand is what the table holds, or is about to.
LookupStored(l, table, date) ==
  /\ RowsWayOut(l.rows, date)
  /\ \A p \in Pair : l.rows[p] # NoRow => table[p] # NoRow
  /\ \A i \in DOMAIN l.legs : AsStored(l.legs[i], {l.trip[i], l.trip[i + 1]}, table, date)
  /\ l.live # NoRow => l.live.corridor = WayOut({l.live.from, l.live.to}, date)
  /\ l.trip = Return =>
       \A i \in 1 .. Len(Return) - 1 : l.rows[{Return[i], Return[i + 1]}] # NoRow

ValueStored(t) ==
  work[t].at = "computed" /\ Item(t).trip # <<>> =>
    AllStored(work[t].value, Item(t).trip, segments, served)

MemoStored ==
  \A task \in Task : \A trip \in {Outbound, Return} :
    values[LegsKey(trip, task)] # Nothing =>
      AllStored(values[LegsKey(trip, task)], trip, segments, served)

StoredInv ==
  /\ RowsWayOut(segments, served) /\ MemoStored
  /\ \A t \in Thread : LookupStored(lookup[t], segments, served) /\ ValueStored(t)

\* A plan asks for catalogues, then for the legs out, then for the legs back.
CatalogueKeys == {CatalogueKey(Catalogues[i], task[1]) : i \in DOMAIN Catalogues, task \in Task}
CatalogueItem(item) == item.trip = <<>> /\ (item.kind = "get" => item.key \in CatalogueKeys)
LegsItem(item, task) ==
  item.kind = "get" /\ item.trip \in {Outbound, Return} /\ item.key = LegsKey(item.trip, task)
OutThenBack(plan, task) ==
  \A i \in DOMAIN plan :
    \/ CatalogueItem(plan[i])
    \/ LegsItem(plan[i], task) /\ (plan[i].trip = Return => i = Len(plan))

\* A trip in hand is the one the thread's item asks for.
HandInPlan(t) ==
  Routing(t) => work[t].at \in {"fetch", "route", "keep"} /\ lookup[t].trip = Item(t).trip

OrderInv ==
  \A t \in Thread : OutThenBack(work[t].plan, work[t].task) /\ HandInPlan(t)

FirstBuildInv == BuildInv /\ OrderInv /\ (~disturbed => StoredInv)

-----------------------------------------------------------------------------
LEMMA ReturnMirrors ==
  /\ Len(Return) = Len(Outbound) /\ Len(Outbound) \in Nat
  /\ \A i \in 1 .. Len(Outbound) - 1 :
       /\ Len(Outbound) - i \in 1 .. Len(Outbound) - 1
       /\ Return[i] = Outbound[(Len(Outbound) - i) + 1] /\ Return[i + 1] = Outbound[Len(Outbound) - i]
  <1> DEFINE s == StopList
             n == Len(s)
  <1>1. s \in Seq(Stop) /\ n > 1 BY RequestAssumption DEF Routable, Outbound
  <1>2. n \in Nat BY <1>1
  <1>3. Return = [i \in 1..n |-> s[(n - i) + 1]] BY DEF Return, Reverse
  <1> HIDE DEF n
  <1>4. Return \in Seq(Stop) BY ReturnRoutes DEF Routable
  <1>5. Len(Return) = n BY <1>2, <1>3, <1>4
  <1>6. ASSUME NEW i \in 1 .. n - 1
        PROVE  n - i \in 1 .. n - 1 /\ Return[i] = s[(n - i) + 1] /\ Return[i + 1] = s[n - i]
    <2>1. n - i \in 1 .. n - 1 /\ (n - (i + 1)) + 1 = n - i /\ i \in 1..n /\ i + 1 \in 1..n BY <1>2
    <2> QED BY <1>3, <2>1
  <1> QED BY <1>2, <1>5, <1>6 DEF n, Outbound

\* The pairs on the way back are those on the way out.
LEMMA SamePairs ==
  \A i \in 1 .. Len(Return) - 1 : \E j \in 1 .. Len(Outbound) - 1 :
    {Return[i], Return[i + 1]} = {Outbound[j], Outbound[j + 1]}
  <1> TAKE i \in 1 .. Len(Return) - 1
  <1> DEFINE n == Len(Outbound)
             j == n - i
  <1>1. i \in 1 .. n - 1 BY ReturnMirrors
  <1>2. /\ j \in 1 .. n - 1
        /\ Return[i] = Outbound[j + 1] /\ Return[i + 1] = Outbound[j]
    BY <1>1, ReturnMirrors
  <1> HIDE DEF j, n
  <1>3. {Return[i], Return[i + 1]} = {Outbound[j], Outbound[j + 1]} BY <1>2
  <1> QED BY <1>2, <1>3 DEF n

LEMMA BothWaysDiffer == OneWay => Outbound # Return
  <1> SUFFICES ASSUME OneWay, Outbound = Return PROVE FALSE OBVIOUS
  <1> DEFINE n == Len(StopList)
  <1>1. n \in Nat /\ n > 1 BY ReturnMirrors, RequestAssumption DEF Routable, Outbound
  <1>2. 1 \in 1 .. n - 1 /\ n - 1 \in 1 .. n - 1 /\ (n - 1) + 1 = n BY <1>1
  <1>3. Return[1] = StopList[(n - 1) + 1] /\ Return[1 + 1] = StopList[n - 1]
    BY <1>2, ReturnMirrors DEF Outbound
  <1>4. StopList[1] = StopList[(n - 1) + 1] /\ StopList[1 + 1] = StopList[n - 1]
    BY <1>3 DEF Outbound
  <1> QED BY <1>2, <1>4 DEF OneWay

\* A pair routed live on the way out has the outbound corridor.
LEMMA LiveIsWayOut ==
  ASSUME OneWay, NEW i \in 1 .. Len(Outbound) - 1
  PROVE  LiveLeg(Outbound[i], Outbound[i + 1], served).corridor = WayOut({Outbound[i], Outbound[i + 1]}, served)
  <1> DEFINE a == Outbound[i]
             b == Outbound[i + 1]
             n == Len(Outbound)
  <1>1. Outbound \in Seq(Stop) /\ a # b /\ n \in Nat
    BY RequestAssumption DEF Routable
  <1>2. i \in 1..n /\ i + 1 \in 1..n BY <1>1
  <1>3. a \in Stop /\ b \in Stop BY <1>1, <1>2
  <1>4. a \in Nat /\ b \in Nat BY <1>3, SegmentAssumption
  <1>5. (a < b) <=> UpOutbound({a, b})
    <2>1. CASE a < b
      <3>1. Lo({a, b}) = a /\ Hi({a, b}) = b BY <1>1, <1>3, <2>1, EndsOfPair
      <3> QED BY <2>1, <3>1 DEF UpOutbound, Outbound
    <2>2. CASE ~(a < b)
      <3>1. Lo({a, b}) = b /\ Hi({a, b}) = a BY <1>1, <1>3, <2>2, EndsOfPair
      <3>2. ASSUME NEW j \in 1 .. n - 1, Outbound[j] = b, Outbound[j + 1] = a PROVE FALSE
        BY <3>2 DEF OneWay, Outbound
      <3> QED BY <2>2, <3>1, <3>2 DEF UpOutbound, Outbound
    <2> QED BY <2>1, <2>2
  <1> DEFINE up == UpOutbound({a, b})
             less == a < b
  <1>6. up \in BOOLEAN BY DEF UpOutbound
  <1>7. less \in BOOLEAN BY <1>4
  <1>8. less <=> up BY <1>5
  <1> HIDE DEF up, less
  <1>9. less = up BY <1>6, <1>7, <1>8
  <1> QED BY <1>9 DEF LiveLeg, WayOut, up, less

-----------------------------------------------------------------------------
\* The order of a plan, kept from its head on.
LEMMA TailInOrder ==
  ASSUME NEW plan \in Seq(PlanItem), plan # <<>>, NEW task, OutThenBack(plan, task)
  PROVE  /\ OutThenBack(Tail(plan), task)
         /\ CatalogueItem(Head(plan)) \/ LegsItem(Head(plan), task)
         /\ LegsItem(Head(plan), task) /\ Head(plan).trip = Return => Tail(plan) = <<>> \/ CatalogueItem(Head(plan))
  <1> DEFINE n == Len(plan)
             rest == Tail(plan)
  <1>1. n \in Nat /\ n > 0 /\ DOMAIN plan = 1..n /\ rest \in Seq(PlanItem) /\ Len(rest) = n - 1
        /\ Head(plan) = plan[1] /\ DOMAIN rest = 1 .. n - 1
        /\ \A i \in 1 .. n - 1 : rest[i] = plan[i + 1]
    BY HeadTailProperties
  <1> HIDE DEF n, rest
  <1>2. ASSUME NEW i \in 1 .. n - 1
        PROVE  \/ CatalogueItem(rest[i])
               \/ LegsItem(rest[i], task) /\ (rest[i].trip = Return => i = Len(rest))
    <2>1. i + 1 \in 1..n /\ rest[i] = plan[i + 1] /\ (i + 1 = n => i = n - 1) BY <1>1
    <2> QED BY <1>1, <2>1 DEF OutThenBack, n
  <1>3. OutThenBack(rest, task) BY <1>1, <1>2 DEF OutThenBack
  <1>4. 1 \in DOMAIN plan BY <1>1
  <1>5. CatalogueItem(plan[1]) \/ (LegsItem(plan[1], task) /\ (plan[1].trip = Return => 1 = n))
    BY <1>4 DEF OutThenBack, n
  <1>6. 1 = n => rest = <<>> BY <1>1
  <1> QED BY <1>1, <1>3, <1>5, <1>6 DEF rest

LEMMA JoinInOrder ==
  ASSUME NEW p \in Seq(PlanItem), NEW q \in Seq(PlanItem), NEW task,
         \A i \in DOMAIN p : CatalogueItem(p[i]), OutThenBack(q, task)
  PROVE  OutThenBack(p \o q, task)
  <1> DEFINE m == Len(p)
             n == Len(q)
             r == p \o q
  <1>1. m \in Nat /\ n \in Nat /\ DOMAIN p = 1..m /\ DOMAIN q = 1..n
        /\ r \in Seq(PlanItem) /\ DOMAIN r = 1 .. m + n /\ Len(r) = m + n
        /\ \A i \in 1 .. m + n : r[i] = IF i <= m THEN p[i] ELSE q[i - m]
    BY ConcatProperties
  <1>2. \A i \in 1..n : CatalogueItem(q[i]) \/ (LegsItem(q[i], task) /\ (q[i].trip = Return => i = n))
    BY <1>1 DEF OutThenBack
  <1> HIDE DEF m, n, r
  <1>3. ASSUME NEW i \in 1 .. m + n
        PROVE  CatalogueItem(r[i]) \/ (LegsItem(r[i], task) /\ (r[i].trip = Return => i = m + n))
    <2>1. CASE i <= m
      <3>1. i \in 1..m /\ r[i] = p[i] BY <1>1, <2>1
      <3> QED BY <1>1, <3>1
    <2>2. CASE ~(i <= m)
      <3>1. i - m \in 1..n /\ r[i] = q[i - m] /\ (i - m = n => i = m + n) BY <1>1, <2>2
      <3> QED BY <1>2, <3>1
    <2> QED BY <2>1, <2>2
  <1>4. OutThenBack(r, task) BY <1>1, <1>3 DEF OutThenBack
  <1> QED BY <1>4 DEF r

LEMMA PlansInOrder ==
  ASSUME OneWay, NEW task \in Task
  PROVE  OutThenBack(WarmPlan(task), task) /\ OutThenBack(MemberPlan(task), task)
  <1> DEFINE l == Loads(task)
             r == <<GetRouter>>
             q == Trips(task)
  <1>1. l \in Seq(PlanItem) /\ r \in Seq(PlanItem) /\ q \in Seq(PlanItem)
    BY LoadsKeys, TripsKeys, RouterKeys
  <1>2. \A i \in DOMAIN l : CatalogueItem(l[i])
    <2>1. DOMAIN l = DOMAIN Catalogues BY DEF Loads
    <2>2. ASSUME NEW i \in DOMAIN Catalogues PROVE CatalogueItem(l[i])
      <3>1. l[i] = Get(CatalogueKey(Catalogues[i], task[1])) BY DEF Loads
      <3>2. CatalogueKey(Catalogues[i], task[1]) \in CatalogueKeys BY DEF CatalogueKeys
      <3> QED BY <3>1, <3>2 DEF CatalogueItem, Get
    <2> QED BY <2>1, <2>2
  <1>3. \A i \in DOMAIN r : CatalogueItem(r[i]) BY DEF CatalogueItem, GetRouter
  <1>4. OutThenBack(q, task)
    <2> DEFINE a == GetLegs(Outbound, task)
               b == GetLegs(Return, task)
    <2>1. LegsItem(a, task) /\ LegsItem(b, task) /\ a.trip = Outbound /\ b.trip = Return
      BY DEF LegsItem, GetLegs
    <2>2. q = <<a, b>> BY DEF Trips
    <2> HIDE DEF a, b
    <2>3. q[1] = a /\ q[2] = b /\ Len(q) = 2 /\ DOMAIN q = 1..2 BY <2>2
    <2>4. Outbound # Return BY BothWaysDiffer
    <2> QED BY <2>1, <2>3, <2>4 DEF OutThenBack
  <1> HIDE DEF l, r, q
  <1>5. OutThenBack(r \o q, task) /\ OutThenBack(l \o q, task) /\ r \o q \in Seq(PlanItem) /\ l \o q \in Seq(PlanItem)
    BY <1>1, <1>2, <1>3, <1>4, JoinInOrder, KeysOfJoin
  <1>6. OutThenBack(l \o (r \o q), task) /\ OutThenBack(r \o (l \o q), task)
    BY <1>1, <1>2, <1>3, <1>5, JoinInOrder
  <1>7. (l \o r) \o q = l \o (r \o q) /\ (r \o l) \o q = r \o (l \o q)
    <2>1. \A S : \A x, y, z \in Seq(S) : (x \o y) \o z = x \o (y \o z) BY ConcatAssociative
    <2>2. \A x, y, z \in Seq(PlanItem) : (x \o y) \o z = x \o (y \o z) BY <2>1
    <2> QED BY <1>1, <2>2
  <1> QED BY <1>6, <1>7 DEF WarmPlan, MemberPlan, l, r, q

\* The shapes a step leaves a thread's plan in.
PlanMoves(t, w) ==
  \/ w.plan = work[t].plan /\ w.task = work[t].task
  \/ work[t].plan # <<>> /\ w.plan = Tail(work[t].plan) /\ w.task = work[t].task
  \/ w.plan = <<>>
  \/ w.task \in Task /\ w.plan \in {WarmPlan(w.task), MemberPlan(w.task)}

LEMMA PlanMoved ==
  ASSUME OneWay, BuildInv, OrderInv, NEW t \in Thread, NEW w, PlanMoves(t, w)
  PROVE  OutThenBack(w.plan, w.task)
  <1> DEFINE plan == work[t].plan
             task == work[t].task
  <1>1. plan \in Seq(PlanItem) /\ OutThenBack(plan, task) BY DEF BuildInv, BuildTypeOK, Work, OrderInv
  <1>2. CASE w.plan = plan /\ w.task = task BY <1>1, <1>2
  <1>3. CASE plan # <<>> /\ w.plan = Tail(plan) /\ w.task = task
    <2> HIDE DEF plan, task
    <2>1. OutThenBack(Tail(plan), task) BY <1>1, <1>3, TailInOrder
    <2> QED BY <1>3, <2>1
  <1>4. CASE w.plan = <<>>
    <2>1. DOMAIN <<>> = {} OBVIOUS
    <2> QED BY <1>4, <2>1 DEF OutThenBack
  <1>5. CASE w.task \in Task /\ w.plan \in {WarmPlan(w.task), MemberPlan(w.task)}
    BY <1>5, PlansInOrder
  <1> QED BY <1>2, <1>3, <1>4, <1>5 DEF PlanMoves

\* What a step does to its thread's plan and to the value it is about to keep.
LEMMA ThreadMoves ==
  ASSUME BuildInv, NEW t \in Thread, ThreadStep(t)
  PROVE  \E w \in Work :
           /\ work' = [work EXCEPT ![t] = w] /\ PlanMoves(t, w)
           /\ w.at = "computed" =>
                \/ Routed(t) /\ w.value = lookup[t].legs /\ w.plan = work[t].plan
                \/ work[t].at = "computed" /\ w.value = work[t].value /\ w.plan = work[t].plan
                \/ work[t].at = "load" /\ w.plan = work[t].plan
  <1> DEFINE Good(w) ==
        /\ w \in Work /\ PlanMoves(t, w)
        /\ w.at = "computed" =>
             \/ Routed(t) /\ w.value = lookup[t].legs /\ w.plan = work[t].plan
             \/ work[t].at = "computed" /\ w.value = work[t].value /\ w.plan = work[t].plan
             \/ work[t].at = "load" /\ w.plan = work[t].plan
  <1> SUFFICES \E w : work' = [work EXCEPT ![t] = w] /\ Good(w) OBVIOUS
  <1>1. work \in [Thread -> Work] /\ work[t] \in Work /\ todo \in Seq(Task) /\ lookup[t].legs \in Seq(Leg)
    BY FamilyAssumption DEF BuildInv, BuildTypeOK, SegmentInv, LookupFits
  <1>2. BuildInv' BY ThreadStepInv
  <1>3. work' \in [Thread -> Work] /\ work'[t] \in Work BY <1>2 DEF BuildInv, BuildTypeOK
  <1>4. CASE TakeTask(t)
    <2> DEFINE w == [Idle EXCEPT !.at = "next", !.task = Head(todo), !.plan = WarmPlan(Head(todo))]
    <2>1. work' = [work EXCEPT ![t] = w] /\ todo # <<>> BY <1>4 DEF TakeTask
    <2>2. w = work'[t] BY <1>1, <2>1
    <2>3. w.at = "next" /\ w.task = Head(todo) /\ w.plan = WarmPlan(Head(todo)) BY DEF Idle
    <2> HIDE DEF w
    <2>4. w.task \in Task BY <1>1, <2>1, <2>3
    <2>5. Good(w) BY <1>3, <2>2, <2>3, <2>4 DEF PlanMoves
    <2> QED BY <2>1, <2>5
  <1>5. CASE work' = [work EXCEPT ![t] = Idle]
    <2>1. Idle \in Work /\ Idle.at = "idle" /\ Idle.plan = <<>> BY IdleTyped DEF Idle
    <2>2. Good(Idle) BY <2>1 DEF PlanMoves
    <2> QED BY <1>5, <2>2
  <1>6. CASE /\ work[t].plan # <<>>
             /\ \/ work' = [work EXCEPT ![t].plan = Tail(@)]
                \/ work' = [work EXCEPT ![t].at = "next", ![t].plan = Tail(@), ![t].value = Nothing]
             /\ work[t].at \in {"next", "computed"} /\ work'[t].at = "next"
    <2>1. /\ work' = [work EXCEPT ![t] = work'[t]]
          /\ work'[t].plan = Tail(work[t].plan) /\ work'[t].task = work[t].task
      <3>1. CASE work' = [work EXCEPT ![t].plan = Tail(@)] BY <1>1, <3>1 DEF Work
      <3>2. CASE work' = [work EXCEPT ![t].at = "next", ![t].plan = Tail(@), ![t].value = Nothing]
        <4> DEFINE w == [work[t] EXCEPT !.at = "next", !.plan = Tail(work[t].plan), !.value = Nothing]
        <4>1. work' = [work EXCEPT ![t] = w] BY <3>2
        <4>2. w.plan = Tail(work[t].plan) /\ w.task = work[t].task BY <1>1 DEF Work
        <4> HIDE DEF w
        <4> QED BY <1>1, <4>1, <4>2
      <3> QED BY <1>6, <3>1, <3>2
    <2>2. Good(work'[t]) BY <1>3, <1>6, <2>1 DEF PlanMoves
    <2> QED BY <2>1, <2>2
  <1>7. CASE UNCHANGED work
    <2>1. work' = [work EXCEPT ![t] = work[t]] BY <1>1, <1>7
    <2>2. work[t].at = "computed" \/ work[t].at # "computed" OBVIOUS
    <2>3. Good(work[t]) BY <1>1 DEF PlanMoves
    <2> QED BY <2>1, <2>3
  <1>8. CASE Routed(t)
    <2>1. work' = [work EXCEPT ![t].at = "computed", ![t].value = lookup[t].legs] BY <1>8 DEF Routed
    <2>2. /\ work' = [work EXCEPT ![t] = work'[t]] /\ work'[t].plan = work[t].plan
          /\ work'[t].task = work[t].task /\ work'[t].value = lookup[t].legs
      BY <1>1, <2>1 DEF Work
    <2>3. Good(work'[t]) BY <1>3, <1>8, <2>2 DEF PlanMoves
    <2> QED BY <2>2, <2>3
  <1>9. ASSUME NEW at, NEW a, work' = [work EXCEPT ![t].at = at, ![t].answer = a],
               at = "computed" => work[t].at = "load"
        PROVE  \E w : work' = [work EXCEPT ![t] = w] /\ Good(w)
    <2>1. /\ work' = [work EXCEPT ![t] = work'[t]] /\ work'[t].plan = work[t].plan
          /\ work'[t].task = work[t].task /\ work'[t].at = at
      BY <1>1, <1>9 DEF Work
    <2>2. Good(work'[t]) BY <1>3, <1>9, <2>1 DEF PlanMoves
    <2> QED BY <2>1, <2>2
  <1> HIDE DEF Good
  <1>10. ASSUME NEW at, work' = [work EXCEPT ![t].at = at], at = "computed" => work[t].at = "load"
         PROVE  \E w : work' = [work EXCEPT ![t] = w] /\ Good(w)
    <2>1. work' = [work EXCEPT ![t].at = at, ![t].answer = work[t].answer]
      BY <1>1, <1>10 DEF Work
    <2> QED BY <1>9, <1>10, <2>1
  <1>11. ASSUME NEW a, work' = [work EXCEPT ![t].answer = a], work[t].at # "computed"
         PROVE  \E w : work' = [work EXCEPT ![t] = w] /\ Good(w)
    <2>1. work' = [work EXCEPT ![t].at = work[t].at, ![t].answer = a]
      BY <1>1, <1>11 DEF Work
    <2> QED BY <1>9, <1>11, <2>1
  <1>12. CASE FinishPlan(t) BY <1>5, <1>12 DEF FinishPlan
  <1>13. CASE LookUpRouter(t)
    <2>1. work[t].plan # <<>> /\ work[t].at = "next" BY <1>13 DEF LookUpRouter, At
    <2>2. CASE work' = [work EXCEPT ![t].plan = Tail(@)]
      <3>1. work'[t].at = "next" BY <1>1, <2>1, <2>2 DEF Work
      <3> QED BY <1>6, <2>1, <2>2, <3>1
    <2> QED BY <1>5, <1>13, <2>2 DEF LookUpRouter, Abort
  <1>14. CASE GetHit(t)
    <2>1. work[t].plan # <<>> /\ work[t].at = "next" /\ work' = [work EXCEPT ![t].plan = Tail(@)]
      BY <1>14 DEF GetHit, Asks, At
    <2>2. work'[t].at = "next" BY <1>1, <2>1 DEF Work
    <2> QED BY <1>6, <2>1, <2>2
  <1>15. CASE GetMiss(t)
    <2>1. UNCHANGED work \/ \E at \in {"load", "fetch"} : work' = [work EXCEPT ![t].at = at]
      BY <1>15 DEF GetMiss, Go
    <2> QED BY <1>7, <1>10, <2>1
  <1>16. CASE BorrowSlot(t) \/ BorrowConnection(t) \/ GiveBack(t) \/ UseRow(t) \/ KeepValue(t) \/ ForgetKey(t)
    BY <1>7, <1>16 DEF BorrowSlot, BorrowConnection, GiveBack, UseRow, KeepValue, ForgetKey, buildVars
  <1>17. CASE BorrowFails(t)
    <2>1. After(t, "failed") \in {"raised", "route"} BY DEF After
    <2> QED BY <1>10, <1>17, <2>1 DEF BorrowFails, Go
  <1>18. CASE QueryAnswers(t) \/ QueryFails(t)
    <2>1. work[t].at # "computed" /\ \E a \in {"ok", "failed"} : work' = [work EXCEPT ![t].answer = a]
      BY <1>18 DEF QueryAnswers, QueryFails, Answer, Calling
    <2> QED BY <1>11, <2>1
  <1>19. CASE GoOn(t)
    <2>1. After(t, work[t].answer) = "computed" => work[t].at = "load" BY DEF After, At
    <2> QED BY <1>9, <1>19, <2>1 DEF GoOn
  <1>20. CASE RouteMiss(t)
    <2>1. \E at \in {"keep", "raised"} : work' = [work EXCEPT ![t].at = at] BY <1>20 DEF RouteMiss, Go
    <2> QED BY <1>10, <2>1
  <1>21. CASE LeaveGet(t)
    <2>1. CASE At(t, "computed")
      <3>1. /\ work' = [work EXCEPT ![t].at = "next", ![t].plan = Tail(@), ![t].value = Nothing]
            /\ work[t].at = "computed"
        BY <1>21, <2>1 DEF LeaveGet, At
      <3>2. work'[t].at = "next" BY <1>1, <3>1 DEF Work
      <3>3. work[t].plan # <<>> BY <3>1 DEF BuildInv, Fits, InGet, Phase
      <3> QED BY <1>6, <3>1, <3>2, <3>3
    <2> QED BY <1>5, <1>21, <2>1 DEF LeaveGet, Abort
  <1> QED BY <1>4, <1>8, <1>12, <1>13, <1>14, <1>15, <1>16, <1>17, <1>18, <1>19, <1>20, <1>21 DEF ThreadStep

\* What a step does to the trip its thread has in hand.
LEMMA TripMoves ==
  ASSUME BuildInv, NEW t \in Thread, ThreadStep(t)
  PROVE  /\ \A u \in Thread \ {t} : lookup'[u] = lookup[u]
         /\ \/ lookup' = lookup
            \/ work[t].at \in {"route", "keep"} /\ lookup'[t].trip = lookup[t].trip
            \/ work[t].at = "fetch" /\ lookup'[t].trip = Item(t).trip
            \/ lookup'[t].trip = <<>>
  <1>1. lookup = [u \in Thread |-> lookup[u]] /\ lookup[t] \in [trip : Seq(Stop), rows : [Pair -> Leg \cup {NoRow}], legs : Seq(Leg), live : Leg \cup {NoRow}]
    BY FamilyAssumption DEF BuildInv, SegmentInv, LookupFits
  <1>2. ASSUME NEW answered \in BOOLEAN, Fetch(t, Item(t).trip, answered), work[t].at = "fetch"
        PROVE  /\ \A u \in Thread \ {t} : lookup'[u] = lookup[u]
               /\ lookup'[t].trip = Item(t).trip
    <2>1. NoLookup.trip = <<>> /\ DOMAIN NoLookup = {"trip", "rows", "legs", "live"} BY DEF NoLookup
    <2>2. PICK rows : lookup' = [lookup EXCEPT ![t] = [NoLookup EXCEPT !.trip = Item(t).trip, !.rows = rows]]
      BY <1>2 DEF Fetch
    <2> DEFINE l == [NoLookup EXCEPT !.trip = Item(t).trip, !.rows = rows]
    <2>3. l.trip = Item(t).trip BY DEF NoLookup
    <2>4. lookup' = [lookup EXCEPT ![t] = l] BY <2>2
    <2> HIDE DEF l
    <2> QED BY <1>1, <2>3, <2>4
  <1>3. ASSUME NEW stored \in BOOLEAN, StoreLeg(t, stored)
        PROVE  /\ \A u \in Thread \ {t} : lookup'[u] = lookup[u]
               /\ lookup'[t].trip = lookup[t].trip
    BY <1>1, <1>3 DEF StoreLeg
  <1>4. CASE QueryAnswers(t)
    <2>1. work[t].at \in {"load", "fetch", "keep"} BY <1>4 DEF QueryAnswers, Calling
    <2> QED BY <1>2, <1>3, <1>4, <2>1 DEF QueryAnswers, At, segmentVars
  <1>5. CASE BorrowFails(t) \/ QueryFails(t)
    <2>1. work[t].at \in {"load", "fetch", "keep"} BY <1>5 DEF BorrowFails, QueryFails, Calling
    <2>2. NoAnswer(t) BY <1>5 DEF BorrowFails, QueryFails
    <2> QED BY <1>2, <1>3, <2>1, <2>2 DEF NoAnswer, At, segmentVars
  <1>6. CASE UseRow(t)
    <2>1. work[t].at = "route" BY <1>6 DEF UseRow, At
    <2>2. PICK legs : lookup' = [lookup EXCEPT ![t].legs = legs] BY <1>6 DEF UseRow, TakeCached
    <2> QED BY <1>1, <2>1, <2>2
  <1>7. CASE RouteMiss(t)
    <2>1. work[t].at = "route" BY <1>7 DEF RouteMiss, At
    <2>2. CASE RouteLive(t)
      <3>1. PICK live : lookup' = [lookup EXCEPT ![t].live = live] BY <2>2 DEF RouteLive
      <3> QED BY <1>1, <2>1, <3>1
    <2>3. CASE RouteFails(t)
      <3>1. lookup' = [lookup EXCEPT ![t] = NoLookup] /\ NoLookup.trip = <<>>
        BY <2>3 DEF RouteFails, NoLookup
      <3> HIDE DEF NoLookup
      <3> QED BY <1>1, <3>1
    <2> QED BY <1>7, <2>2, <2>3 DEF RouteMiss
  <1>8. CASE Routed(t)
    <2>1. lookup' = [lookup EXCEPT ![t] = NoLookup] /\ NoLookup.trip = <<>>
      BY <1>8 DEF Routed, HandOver, NoLookup
    <2> HIDE DEF NoLookup
    <2> QED BY <1>1, <2>1
  <1>9. CASE ~(\/ QueryAnswers(t) \/ BorrowFails(t) \/ QueryFails(t) \/ UseRow(t)
               \/ RouteMiss(t) \/ Routed(t))
    <2>1. UNCHANGED segmentVars
      BY <1>9 DEF ThreadStep, TakeTask, FinishPlan, LookUpRouter, GetHit, GetMiss, BorrowSlot,
                  BorrowConnection, GiveBack, GoOn, KeepValue, ForgetKey, LeaveGet
    <2> QED BY <2>1 DEF segmentVars
  <1> QED BY <1>4, <1>5, <1>6, <1>7, <1>8, <1>9

\* Where a step takes a thread that routes.
LEMMA HandMoves ==
  ASSUME BuildInv, NEW t \in Thread, ThreadStep(t), HandInPlan(t)
  PROVE  HandInPlan(t)'
  <1>1. work \in [Thread -> Work] /\ work[t] \in Work BY DEF BuildInv, BuildTypeOK
  <1>2. \/ lookup' = lookup
        \/ work[t].at \in {"route", "keep"} /\ lookup'[t].trip = lookup[t].trip
        \/ work[t].at = "fetch" /\ lookup'[t].trip = Item(t).trip
        \/ lookup'[t].trip = <<>>
    BY TripMoves
  <1>3. CASE work[t].at \notin {"fetch", "route", "keep"}
    <2>1. ~Routing(t) BY <1>3 DEF HandInPlan
    <2>2. ~Routing(t)' BY <1>2, <1>3, <2>1 DEF Routing
    <2> QED BY <2>2 DEF HandInPlan
  <1>4. CASE /\ work[t].at \in {"fetch", "route", "keep"}
             /\ work'[t].plan = work[t].plan /\ work'[t].at \in {"fetch", "route", "keep"}
    <2>1. Item(t)' = Item(t) BY <1>4 DEF Item
    <2>2. Routing(t)' => lookup'[t].trip = Item(t).trip
      BY <1>2 DEF HandInPlan, Routing
    <2> QED BY <1>4, <2>1, <2>2 DEF HandInPlan
  <1>5. CASE lookup'[t].trip = <<>>
    BY <1>5 DEF HandInPlan, Routing
  <1>6. ASSUME work[t].at \in {"fetch", "route", "keep"}, lookup'[t].trip # <<>>
        PROVE  work'[t].plan = work[t].plan /\ work'[t].at \in {"fetch", "route", "keep"}
    <2>1. CASE UNCHANGED work BY <1>6, <2>1
    <2>2. CASE \E at \in {"fetch", "route", "keep"} : work' = [work EXCEPT ![t].at = at]
      <3>1. PICK at \in {"fetch", "route", "keep"} : work' = [work EXCEPT ![t].at = at] BY <2>2
      <3>2. work'[t].at = at /\ work'[t].plan = work[t].plan BY <1>1, <3>1 DEF Work
      <3> QED BY <3>2
    <2>3. CASE \E a : work' = [work EXCEPT ![t].answer = a] BY <1>1, <1>6, <2>3 DEF Work
    <2>4. CASE BorrowFails(t)
      <3>1. After(t, "failed") = "route" BY <1>6, <2>4 DEF After, At, BorrowFails
      <3> QED BY <2>2, <2>4, <3>1 DEF BorrowFails, Go
    <2>5. CASE QueryAnswers(t) \/ QueryFails(t)
      BY <2>3, <2>5 DEF QueryAnswers, QueryFails, Answer
    <2>6. CASE GoOn(t)
      <3>1. After(t, work[t].answer) = "route" BY <1>6 DEF After, At
      <3>2. work' = [work EXCEPT ![t].at = "route", ![t].answer = ""] BY <2>6, <3>1 DEF GoOn
      <3> QED BY <1>1, <3>2 DEF Work
    <2>7. CASE RouteMiss(t)
      <3>1. lookup = [u \in Thread |-> lookup[u]] BY FamilyAssumption DEF BuildInv, SegmentInv
      <3>2. ~RouteFails(t)
        <4>1. NoLookup.trip = <<>> BY DEF NoLookup
        <4> HIDE DEF NoLookup
        <4> QED BY <1>6, <3>1, <4>1 DEF RouteFails
      <3> QED BY <2>2, <2>7, <3>2 DEF RouteMiss, Go
    <2>8. CASE BorrowSlot(t) \/ BorrowConnection(t) \/ GiveBack(t) \/ UseRow(t)
      BY <2>1, <2>8 DEF BorrowSlot, BorrowConnection, GiveBack, UseRow, buildVars
    <2>9. ~Routed(t)
      <3>1. lookup = [u \in Thread |-> lookup[u]] BY FamilyAssumption DEF BuildInv, SegmentInv
      <3>2. NoLookup.trip = <<>> BY DEF NoLookup
      <3> HIDE DEF NoLookup
      <3> QED BY <1>6, <3>1, <3>2 DEF Routed, HandOver
    <2>10. ~(\/ TakeTask(t) \/ FinishPlan(t) \/ LookUpRouter(t) \/ GetHit(t) \/ GetMiss(t)
             \/ KeepValue(t) \/ ForgetKey(t) \/ LeaveGet(t))
      BY <1>6 DEF TakeTask, FinishPlan, LookUpRouter, GetHit, GetMiss, Asks, KeepValue, ForgetKey,
                  LeaveGet, At
    <2> QED BY <2>4, <2>5, <2>6, <2>7, <2>8, <2>9, <2>10 DEF ThreadStep
  <1> QED BY <1>3, <1>4, <1>5, <1>6

LEMMA ThreadOrder ==
  ASSUME OneWay, BuildInv, OrderInv, NEW t \in Thread, ThreadStep(t)
  PROVE  OrderInv'
  <1>1. PICK w \in Work : work' = [work EXCEPT ![t] = w] /\ PlanMoves(t, w) BY ThreadMoves
  <1>2. work \in [Thread -> Work] BY DEF BuildInv, BuildTypeOK
  <1>3. work'[t] = w /\ \A u \in Thread \ {t} : work'[u] = work[u] BY <1>1, <1>2
  <1>4. ASSUME NEW u \in Thread PROVE OutThenBack(work'[u].plan, work'[u].task)
    <2>1. OutThenBack(w.plan, w.task) BY <1>1, PlanMoved
    <2> QED BY <1>3, <2>1 DEF OrderInv
  <1>5. ASSUME NEW u \in Thread PROVE HandInPlan(u)'
    <2>1. CASE u = t BY <2>1, HandMoves DEF OrderInv
    <2>2. CASE u # t
      <3>1. lookup'[u] = lookup[u] /\ work'[u] = work[u] BY <1>3, <2>2, TripMoves
      <3> QED BY <3>1 DEF OrderInv, HandInPlan, Routing, Item
    <2> QED BY <2>1, <2>2
  <1> QED BY <1>4, <1>5 DEF OrderInv, OutThenBack

-----------------------------------------------------------------------------
\* What stays stored when the table grows.
LEMMA MoreStored ==
  ASSUME NEW table, NEW more, NEW date, \A p \in Pair : table[p] # NoRow => more[p] # NoRow
  PROVE  /\ \A l : LookupStored(l, table, date) => LookupStored(l, more, date)
         /\ \A legs, trip : AllStored(legs, trip, table, date) => AllStored(legs, trip, more, date)
  <1>1. \A leg, p : AsStored(leg, p, table, date) => AsStored(leg, p, more, date) BY DEF AsStored
  <1>2. ASSUME NEW l, LookupStored(l, table, date) PROVE LookupStored(l, more, date)
    BY <1>1, <1>2 DEF LookupStored
  <1>3. ASSUME NEW legs, NEW trip, AllStored(legs, trip, table, date) PROVE AllStored(legs, trip, more, date)
    BY <1>1, <1>3 DEF AllStored
  <1> QED BY <1>2, <1>3

LEMMA EmptyStored == \A table, date : LookupStored(NoLookup, table, date)
  <1>1. Return # <<>> BY ReturnRoutes DEF Routable
  <1>2. /\ NoLookup.rows = NoRows /\ NoLookup.legs = <<>> /\ NoLookup.live = NoRow /\ NoLookup.trip = <<>>
        /\ DOMAIN <<>> = {} /\ \A p \in Pair : NoRows[p] = NoRow
    BY DEF NoLookup, NoRows
  <1> QED BY <1>1, <1>2 DEF LookupStored, RowsWayOut

\* A leg turned keeps its corridor.
LEMMA CorridorKept ==
  ASSUME NEW leg \in Leg, NEW reverse
  PROVE  Oriented(leg, reverse) \in Leg /\ Oriented(leg, reverse).corridor = leg.corridor
  <1>1. CASE reverse
    <2>1. Oriented(leg, reverse) = [leg EXCEPT !.from = leg.to, !.to = leg.from] BY <1>1 DEF Oriented
    <2> QED BY <2>1 DEF Leg
  <1>2. CASE ~reverse BY <1>2 DEF Oriented
  <1> QED BY <1>1, <1>2

LEMMA LegTaken ==
  ASSUME NEW table, NEW date, NEW l, LookupFits(l), LookupStored(l, table, date),
         NEW leg \in Leg,
         AsStored(leg, {l.trip[Len(l.legs) + 1], l.trip[Len(l.legs) + 2]}, table, date)
  PROVE  LookupStored([l EXCEPT !.legs = Claim(l.legs, leg), !.live = NoRow], table, date)
  <1> DEFINE rest == [leg EXCEPT !.passages = leg.passages \ Claimed(l.legs)]
             more == Claim(l.legs, leg)
             k == [l EXCEPT !.legs = more, !.live = NoRow]
             n == Len(l.legs)
  <1>1. l \in [trip : Seq(Stop), rows : [Pair -> Leg \cup {NoRow}],
               legs : Seq(Leg), live : Leg \cup {NoRow}]
    BY DEF LookupFits
  <1>2. k.trip = l.trip /\ k.rows = l.rows /\ k.legs = more /\ k.live = NoRow BY <1>1
  <1>3. rest.corridor = leg.corridor /\ rest \in Leg BY DEF Leg
  <1>4. more = Append(l.legs, rest) BY DEF Claim
  <1>5. l.legs \in Seq(Leg) BY <1>1
  <1> HIDE DEF rest, more, k
  <1>6. n \in Nat /\ DOMAIN l.legs = 1..n /\ DOMAIN more = 1 .. n + 1 /\ more[n + 1] = rest
        /\ \A i \in 1..n : more[i] = l.legs[i]
    BY <1>3, <1>4, <1>5
  <1>7. ASSUME NEW i \in DOMAIN more
        PROVE  AsStored(more[i], {k.trip[i], k.trip[i + 1]}, table, date)
    <2>1. CASE i \in 1..n BY <1>2, <1>6, <2>1 DEF LookupStored
    <2>2. CASE i = n + 1
      <3>1. i + 1 = n + 2 BY <1>6, <2>2
      <3> QED BY <1>2, <1>3, <1>6, <2>2, <3>1 DEF AsStored
    <2> QED BY <1>6, <2>1, <2>2
  <1>8. LookupStored(k, table, date) BY <1>2, <1>7 DEF LookupStored
  <1> QED BY <1>8 DEF k, more

LEMMA FetchStored ==
  ASSUME BuildInv, RowsWayOut(segments, served), NEW t \in Thread, NEW trip,
         Fetch(t, trip, TRUE),
         trip = Return => \A i \in 1 .. Len(Return) - 1 : segments[{Return[i], Return[i + 1]}] # NoRow
  PROVE  LookupStored(lookup'[t], segments, served)
  <1> DEFINE asked(p) == \E i \in 1 .. Len(trip) - 1 : p = {trip[i], trip[i + 1]}
             rows == [p \in Pair |-> IF asked(p) THEN segments[p] ELSE NoRow]
             l == [NoLookup EXCEPT !.trip = trip, !.rows = rows]
  <1>1. lookup = [u \in Thread |-> lookup[u]] BY FamilyAssumption DEF BuildInv, SegmentInv
  <1>2. lookup' = [lookup EXCEPT ![t] = l] BY DEF Fetch
  <1>3. l.trip = trip /\ l.rows = rows /\ l.legs = <<>> /\ l.live = NoRow BY DEF NoLookup
  <1> HIDE DEF l
  <1>4. lookup'[t] = l BY <1>1, <1>2
  <1>5. \A p \in Pair : rows[p] = NoRow \/ rows[p] = segments[p] OBVIOUS
  <1>6. ASSUME trip = Return, NEW i \in 1 .. Len(Return) - 1
        PROVE  rows[{Return[i], Return[i + 1]}] # NoRow
    <2>1. {Return[i], Return[i + 1]} \in Pair
      <3>1. Return[i] # Return[i + 1] /\ Len(Return) \in Nat /\ Return \in Seq(Stop)
        BY ReturnRoutes DEF Routable
      <3>2. i \in 1..Len(Return) /\ i + 1 \in 1..Len(Return) BY <3>1
      <3>3. Return[i] \in Stop /\ Return[i + 1] \in Stop BY <3>1, <3>2
      <3> QED BY <3>1, <3>3, EndsOfPair
    <2>2. asked({Return[i], Return[i + 1]}) BY <1>6
    <2> QED BY <1>6, <2>1, <2>2
  <1> HIDE DEF rows
  <1>7. LookupStored(l, segments, served)
    <2>1. DOMAIN <<>> = {} OBVIOUS
    <2>2. RowsWayOut(l.rows, served) BY <1>3, <1>5 DEF RowsWayOut
    <2>3. \A p \in Pair : l.rows[p] # NoRow => segments[p] # NoRow BY <1>3, <1>5
    <2>4. l.trip = Return => \A i \in 1 .. Len(Return) - 1 : l.rows[{Return[i], Return[i + 1]}] # NoRow
      BY <1>3, <1>6
    <2> QED BY <1>3, <2>1, <2>2, <2>3, <2>4 DEF LookupStored
  <1> QED BY <1>4, <1>7

\* Whoever is at the legs back has the legs out in the memo, and so finds
\* every pair in the table.
LEMMA BackFindsAll ==
  ASSUME OneWay, BuildInv, OrderInv, MemoStored,
         NEW t \in Thread, work[t].at = "fetch", Item(t).trip = Return
  PROVE  \A i \in 1 .. Len(Return) - 1 : segments[{Return[i], Return[i + 1]}] # NoRow
  <1> DEFINE plan == work[t].plan
             task == work[t].task
             out == LegsKey(Outbound, task)
             back == LegsKey(Return, task)
  <1>1. plan \in Seq(PlanItem) /\ OutThenBack(plan, task)
    BY DEF BuildInv, BuildTypeOK, Work, OrderInv
  <1>2. plan # <<>> /\ Item(t) = Head(plan) /\ Item(t).kind = "get" /\ Return # <<>>
    BY ReturnRoutes DEF BuildInv, Fits, InGet, Phase, CallPhase, Item, Routable
  <1>3. task \in Task /\ \A k \in KeysOf(task) : Known(k) \/ k \in PlanKeys(plan)
    BY DEF BuildInv, Fits, OnPlan
  <1>4. out \in KeysOf(task) /\ out # back
    <2>1. Outbound # Return BY BothWaysDiffer
    <2> QED BY <2>1 DEF KeysOf, LegsKey
  <1> HIDE DEF plan, task, out, back
  <1>5. ~CatalogueItem(Head(plan)) BY <1>2 DEF CatalogueItem
  <1>6. LegsItem(Head(plan), task) /\ Tail(plan) = <<>> BY <1>1, <1>2, <1>5, TailInOrder
  <1>7. PlanKeys(plan) = {back}
    <2>1. Head(plan).key = back BY <1>2, <1>6 DEF LegsItem, back
    <2>2. PlanKeys(<<>>) = {} BY DEF PlanKeys
    <2> QED BY <1>1, <1>2, <1>6, <2>1, <2>2, KeysOfHead
  <1>8. values[out] # Nothing BY <1>3, <1>4, <1>7 DEF Known
  <1>9. AllStored(values[out], Outbound, segments, served) BY <1>3, <1>8 DEF MemoStored, out
  <1>10. \A j \in 1 .. Len(Outbound) - 1 : segments[{Outbound[j], Outbound[j + 1]}] # NoRow
    BY <1>9 DEF AllStored, AsStored
  <1> SUFFICES ASSUME NEW i \in 1 .. Len(Return) - 1
      PROVE  segments[{Return[i], Return[i + 1]}] # NoRow
    OBVIOUS
  <1>11. PICK j \in 1 .. Len(Outbound) - 1 : {Return[i], Return[i + 1]} = {Outbound[j], Outbound[j + 1]}
    BY SamePairs
  <1> QED BY <1>10, <1>11

\* What one thread does to the table, and what the threads have in hand.
LEMMA LookupsStored ==
  ASSUME OneWay, BuildInv, OrderInv, StoredInv, NEW t \in Thread, ThreadStep(t),
         ~disturbed, ~disturbed'
  PROVE  /\ served' = served /\ RowsWayOut(segments', served)
         /\ \A p \in Pair : segments[p] # NoRow => segments'[p] # NoRow
         /\ \A u \in Thread : LookupStored(lookup'[u], segments', served)
  <1> DEFINE l == lookup[t]
             Goal == /\ served' = served /\ RowsWayOut(segments', served)
                     /\ \A p \in Pair : segments[p] # NoRow => segments'[p] # NoRow
                     /\ LookupStored(lookup'[t], segments', served)
  <1>1. /\ lookup = [u \in Thread |-> lookup[u]] /\ t \in Router /\ LookupFits(l)
        /\ l \in [trip : Seq(Stop), rows : [Pair -> Leg \cup {NoRow}],
                  legs : Seq(Leg), live : Leg \cup {NoRow}]
    BY FamilyAssumption DEF BuildInv, SegmentInv, LookupFits
  <1>2. RowsWayOut(segments, served) /\ LookupStored(l, segments, served) /\ MemoStored BY DEF StoredInv
  <1>3. ASSUME UNCHANGED segmentVars PROVE Goal BY <1>2, <1>3 DEF segmentVars
  <1>4. ASSUME Fetch(t, Item(t).trip, TRUE), work[t].at = "fetch" PROVE Goal
    <2>1. Item(t).trip = Return => \A i \in 1 .. Len(Return) - 1 : segments[{Return[i], Return[i + 1]}] # NoRow
      BY <1>2, <1>4, BackFindsAll
    <2>2. LookupStored(lookup'[t], segments, served) BY <1>2, <1>4, <2>1, FetchStored
    <2> QED BY <1>2, <1>4, <2>2 DEF Fetch
  <1>5. ASSUME Routing(t), ~Assembled(t), NEW more, NEW leg \in Leg,
               RowsWayOut(more, served), \A p \in Pair : segments[p] # NoRow => more[p] # NoRow,
               leg.corridor = WayOut({From(t), To(t)}, served), more[{From(t), To(t)}] # NoRow,
               lookup' = [lookup EXCEPT ![t] = [l EXCEPT !.legs = Claim(l.legs, leg), !.live = NoRow]],
               segments' = more, served' = served
        PROVE  Goal
    <2>1. LookupStored(l, more, served) BY <1>2, <1>5, MoreStored
    <2>2. {From(t), To(t)} \in Pair BY <1>1, <1>5, NextPair DEF BuildInv
    <2>3. AsStored(leg, {l.trip[Len(l.legs) + 1], l.trip[Len(l.legs) + 2]}, more, served)
      BY <1>5, <2>2 DEF AsStored, From, To
    <2>4. LookupStored([l EXCEPT !.legs = Claim(l.legs, leg), !.live = NoRow], more, served)
      BY <1>1, <2>1, <2>3, LegTaken
    <2>5. lookup'[t] = [l EXCEPT !.legs = Claim(l.legs, leg), !.live = NoRow] BY <1>1, <1>5
    <2> HIDE DEF l
    <2> QED BY <1>5, <2>4, <2>5
  <1>6. ASSUME StoreLeg(t, TRUE) PROVE Goal
    <2> DEFINE leg == l.live
               pair == {leg.from, leg.to}
               row == Oriented(leg, leg.from # Lo(pair))
               more == IF segments[pair] = NoRow THEN [segments EXCEPT ![pair] = row] ELSE segments
    <2>1. /\ Routing(t) /\ leg # NoRow /\ served' = served /\ segments' = more
          /\ lookup' = [lookup EXCEPT ![t] = [l EXCEPT !.legs = Claim(l.legs, leg), !.live = NoRow]]
      BY <1>6 DEF StoreLeg, Insert
    <2>2. /\ leg \in Leg /\ Len(l.legs) + 1 < Len(l.trip) /\ pair = {From(t), To(t)}
          /\ l.legs \in Seq(Leg) /\ l.trip \in Seq(Stop)
      BY <1>1, <2>1 DEF LookupFits, Between, From, To
    <2>3. ~Assembled(t)
      <3>1. Len(l.legs) \in Nat /\ Len(l.trip) \in Nat BY <2>2
      <3> QED BY <2>2, <3>1 DEF Assembled
    <2>4. pair \in Pair BY <1>1, <2>1, <2>2, <2>3, NextPair DEF BuildInv
    <2>5. leg.corridor = WayOut(pair, served) BY <1>2, <2>1 DEF LookupStored
    <2>6. row \in Leg /\ row.corridor = WayOut(pair, served) /\ row # NoRow
      BY <2>2, <2>5, CorridorKept, RequestAssumption
    <2> HIDE DEF row, leg, pair
    <2>7. segments \in [Pair -> Leg \cup {NoRow}] BY DEF BuildInv, SegmentInv, RowsFit
    <2>8. /\ RowsWayOut(more, served) /\ more[pair] # NoRow
          /\ \A p \in Pair : segments[p] # NoRow => more[p] # NoRow
      BY <1>2, <2>4, <2>6, <2>7 DEF RowsWayOut
    <2> HIDE DEF more, l
    <2> QED BY <1>5, <2>1, <2>2, <2>3, <2>5, <2>8 DEF l
  <1>7. ASSUME TakeCached(t) PROVE Goal
    <2> DEFINE pair == {From(t), To(t)}
               leg == Oriented(Row(t), From(t) # Lo(pair))
    <2>1. /\ Routing(t) /\ ~Assembled(t) /\ Row(t) # NoRow /\ segments' = segments /\ served' = served
          /\ lookup' = [lookup EXCEPT ![t] = [l EXCEPT !.legs = Claim(l.legs, leg)]]
      BY <1>7 DEF TakeCached
    <2>2. pair \in Pair /\ Row(t) = l.rows[pair] /\ l.live = NoRow
      BY <1>1, <2>1, NextPair DEF BuildInv
    <2>3. Row(t) \in Leg BY <1>1, <2>1, <2>2
    <2>4. Row(t).corridor = WayOut(pair, served) /\ segments[pair] # NoRow
      BY <1>2, <2>1, <2>2 DEF LookupStored, RowsWayOut
    <2>5. leg \in Leg /\ leg.corridor = WayOut(pair, served) BY <2>3, <2>4, CorridorKept
    <2> HIDE DEF leg
    <2>6. [l EXCEPT !.legs = Claim(l.legs, leg)] = [l EXCEPT !.legs = Claim(l.legs, leg), !.live = NoRow]
      BY <1>1, <2>2
    <2> HIDE DEF l
    <2> QED BY <1>2, <1>5, <2>1, <2>4, <2>5, <2>6 DEF l
  <1>8. ASSUME RouteLive(t), work[t].at = "route" PROVE Goal
    <2> DEFINE leg == LiveLeg(From(t), To(t), served)
               n == Len(l.legs)
    <2>1. /\ Routing(t) /\ ~Assembled(t) /\ Row(t) = NoRow
          /\ lookup' = [lookup EXCEPT ![t] = [l EXCEPT !.live = leg]] /\ UNCHANGED <<segments, served>>
      BY <1>8 DEF RouteLive
    <2>2. /\ From(t) \in Stop /\ To(t) \in Stop /\ From(t) # To(t)
          /\ n + 1 < Len(l.trip) /\ Row(t) = l.rows[{From(t), To(t)}]
          /\ From(t) = l.trip[n + 1] /\ To(t) = l.trip[n + 2]
      BY <1>1, <2>1, NextPair DEF BuildInv, From, To
    <2>3. l.trip \in {Outbound, Return}
      <3>1. l.trip = Item(t).trip /\ l.trip # <<>> BY <2>1 DEF OrderInv, HandInPlan, Routing
      <3>2. work[t].plan # <<>> /\ Item(t).kind = "get"
        BY <1>8 DEF BuildInv, Fits, InGet, Phase, CallPhase
      <3> QED BY <3>1, <3>2, ItemTyped DEF BuildInv
    <2>4. n \in Nat /\ Len(l.trip) \in Nat BY <1>1
    <2>5. n + 1 \in 1 .. Len(l.trip) - 1 /\ (n + 1) + 1 = n + 2
      <3> HIDE DEF n, l
      <3> QED BY <2>2, <2>4
    <2>6. l.trip # Return
      <3> SUFFICES ASSUME l.trip = Return PROVE FALSE OBVIOUS
      <3>1. l.rows[{Return[n + 1], Return[(n + 1) + 1]}] # NoRow BY <1>2, <2>5 DEF LookupStored
      <3> QED BY <2>1, <2>2, <2>5, <3>1
    <2>7. leg.corridor = WayOut({From(t), To(t)}, served)
      <3>1. LiveLeg(Outbound[n + 1], Outbound[(n + 1) + 1], served).corridor
              = WayOut({Outbound[n + 1], Outbound[(n + 1) + 1]}, served)
        BY <2>3, <2>5, <2>6, LiveIsWayOut
      <3> QED BY <2>2, <2>3, <2>5, <2>6, <3>1
    <2>8. leg.from = From(t) /\ leg.to = To(t) BY DEF LiveLeg
    <2> HIDE DEF leg
    <2>9. lookup'[t] = [l EXCEPT !.live = leg] BY <1>1, <2>1
    <2>10. LET k == [l EXCEPT !.live = leg]
           IN k.trip = l.trip /\ k.rows = l.rows /\ k.legs = l.legs /\ k.live = leg
      BY <1>1
    <2>11. LookupStored(lookup'[t], segments, served)
      <3> DEFINE k == lookup'[t]
      <3>1. k.trip = l.trip /\ k.rows = l.rows /\ k.legs = l.legs /\ k.live = leg BY <2>9, <2>10
      <3> HIDE DEF k, l
      <3>2. LookupStored(k, segments, served) BY <1>2, <2>7, <2>8, <3>1 DEF LookupStored
      <3> QED BY <3>2 DEF k
    <2> QED BY <1>2, <2>1, <2>11
  <1>9. ASSUME lookup' = [lookup EXCEPT ![t] = NoLookup], UNCHANGED <<segments, served>> PROVE Goal
    <2>1. lookup'[t] = NoLookup BY <1>1, <1>9
    <2> QED BY <1>2, <1>9, <2>1, EmptyStored
  <1>10. Goal
    <2> HIDE DEF Goal
    <2>1. CASE QueryAnswers(t)
      <3>1. work[t].at \in {"load", "fetch", "keep"} BY <2>1 DEF QueryAnswers, Calling
      <3> QED BY <1>3, <1>4, <1>6, <2>1, <3>1 DEF QueryAnswers, At
    <2>2. CASE BorrowFails(t) \/ QueryFails(t)
      <3>1. NoAnswer(t) BY <2>2 DEF BorrowFails, QueryFails
      <3>2. At(t, "load") BY <3>1 DEF NoAnswer
      <3>3. work[t].at = "load" /\ UNCHANGED segmentVars BY <3>1, <3>2 DEF NoAnswer, At
      <3> QED BY <1>3, <3>3
    <2>3. CASE UseRow(t) BY <1>7, <2>3 DEF UseRow
    <2>4. CASE RouteMiss(t)
      BY <1>8, <1>9, <2>4 DEF RouteMiss, RouteFails, At
    <2>5. CASE Routed(t) BY <1>9, <2>5 DEF Routed, HandOver
    <2>6. CASE ~(\/ QueryAnswers(t) \/ BorrowFails(t) \/ QueryFails(t) \/ UseRow(t)
                 \/ RouteMiss(t) \/ Routed(t))
      <3>1. UNCHANGED segmentVars
        BY <2>6 DEF ThreadStep, TakeTask, FinishPlan, LookUpRouter, GetHit, GetMiss, BorrowSlot,
                    BorrowConnection, GiveBack, GoOn, KeepValue, ForgetKey, LeaveGet
      <3> QED BY <1>3, <3>1
    <2> QED BY <2>1, <2>2, <2>3, <2>4, <2>5, <2>6
  <1>11. ASSUME NEW u \in Thread PROVE LookupStored(lookup'[u], segments', served)
    <2>1. CASE u = t BY <1>10, <2>1
    <2>2. CASE u # t
      <3>1. lookup'[u] = lookup[u] BY <2>2, TripMoves
      <3>2. LookupStored(lookup[u], segments, served) BY DEF StoredInv
      <3>3. LookupStored(lookup[u], segments', served) BY <1>10, <3>2, MoreStored
      <3> QED BY <3>1, <3>3
    <2> QED BY <2>1, <2>2
  <1> QED BY <1>10, <1>11

\* A value kept is stored; a key of a catalogue is no key of legs.
LEMMA KeptStored ==
  ASSUME BuildInv, OrderInv, StoredInv, NEW t \in Thread, KeepValue(t),
         NEW task \in Task, NEW trip \in {Outbound, Return}, values'[LegsKey(trip, task)] # Nothing
  PROVE  AllStored(values'[LegsKey(trip, task)], trip, segments, served)
  <1> DEFINE k == LegsKey(trip, task)
             item == Item(t)
             v == IF item.trip = <<>> THEN item.key ELSE work[t].value
             plan == work[t].plan
  <1>1. work[t].at = "computed" /\ Keep(t, v) BY DEF KeepValue, At
  <1>2. InGet(t) /\ plan \in Seq(PlanItem) /\ OutThenBack(plan, work[t].task)
    BY DEF BuildInv, Fits, BuildTypeOK, Work, OrderInv
  <1>3. plan # <<>> /\ item = Head(plan) /\ item.kind = "get" /\ flight[t].key = item.key
    BY <1>1, <1>2 DEF InGet, Phase, Item
  <1>4. values = [l \in Key |-> values[l]] /\ k \in Key
    BY RequestAssumption DEF BuildInv, FlightInv, FlightShape
  <1>5. values' = [values EXCEPT ![item.key] = v] BY <1>1, <1>3 DEF Keep
  <1> HIDE DEF k, v, plan
  <1>6. CASE k # item.key
    <2>1. values'[k] = values[k] BY <1>4, <1>5, <1>6
    <2> QED BY <2>1 DEF StoredInv, MemoStored, k
  <1>7. CASE k = item.key
    <2>1. CatalogueItem(item) \/ LegsItem(item, work[t].task) BY <1>2, <1>3, TailInOrder
    <2>2. k \notin CatalogueKeys BY RequestAssumption DEF CatalogueKeys, k
    <2>3. LegsItem(item, work[t].task) BY <1>3, <1>7, <2>1, <2>2 DEF CatalogueItem
    <2>4. item.trip = trip BY <1>7, <2>3 DEF LegsItem, LegsKey, k
    <2>5. item.trip # <<>> BY <2>4, ReturnRoutes, RequestAssumption DEF Routable
    <2>6. values'[k] = work[t].value BY <1>4, <1>5, <1>7, <2>5 DEF v
    <2>7. AllStored(work[t].value, item.trip, segments, served)
      BY <1>1, <2>5 DEF StoredInv, ValueStored
    <2> QED BY <2>4, <2>6, <2>7 DEF k
  <1> QED BY <1>6, <1>7

LEMMA ThreadStored ==
  ASSUME OneWay, BuildInv, OrderInv, StoredInv, NEW t \in Thread, ThreadStep(t),
         ~disturbed, ~disturbed'
  PROVE  StoredInv'
  <1>1. /\ served' = served /\ RowsWayOut(segments', served)
        /\ \A p \in Pair : segments[p] # NoRow => segments'[p] # NoRow
        /\ \A u \in Thread : LookupStored(lookup'[u], segments', served)
    BY LookupsStored
  <1>2. \A legs, trip : AllStored(legs, trip, segments, served) => AllStored(legs, trip, segments', served)
    BY <1>1, MoreStored
  <1>3. ASSUME NEW task \in Task, NEW trip \in {Outbound, Return}, values'[LegsKey(trip, task)] # Nothing
        PROVE  AllStored(values'[LegsKey(trip, task)], trip, segments', served)
    <2>1. CASE KeepValue(t) BY <1>2, <1>3, <2>1, KeptStored
    <2>2. CASE ~KeepValue(t)
      <3>1. values' = values
        BY <2>2 DEF ThreadStep, TakeTask, FinishPlan, LookUpRouter, GetHit, Hit, GetMiss, Own, Await,
                    BorrowSlot, BorrowConnection, BorrowFails, QueryAnswers, QueryFails, GiveBack, GoOn,
                    UseRow, RouteMiss, Routed, ForgetKey, Forget, LeaveGet, OpenGate, flightVars
      <3> QED BY <1>2, <1>3, <3>1 DEF StoredInv, MemoStored
    <2> QED BY <2>1, <2>2
  <1>4. PICK w \in Work :
          /\ work' = [work EXCEPT ![t] = w]
          /\ w.at = "computed" =>
               \/ Routed(t) /\ w.value = lookup[t].legs /\ w.plan = work[t].plan
               \/ work[t].at = "computed" /\ w.value = work[t].value /\ w.plan = work[t].plan
               \/ work[t].at = "load" /\ w.plan = work[t].plan
    BY ThreadMoves
  <1>5. work'[t] = w /\ \A u \in Thread \ {t} : work'[u] = work[u]
    BY <1>4 DEF BuildInv, BuildTypeOK
  <1>6. ASSUME NEW u \in Thread, work'[u].at = "computed", Head(work'[u].plan).trip # <<>>
        PROVE  AllStored(work'[u].value, Head(work'[u].plan).trip, segments', served)
    <2>1. CASE u # t BY <1>2, <1>5, <1>6, <2>1 DEF StoredInv, ValueStored, Item
    <2>2. CASE u = t /\ Routed(t) /\ w.value = lookup[t].legs /\ w.plan = work[t].plan
      <3> DEFINE l == lookup[t]
      <3>1. Assembled(t) BY <2>2 DEF Routed, HandOver
      <3>2. Routing(t) /\ Len(l.legs) = Len(l.trip) - 1 /\ l.legs \in Seq(Leg)
        BY <3>1, FamilyAssumption DEF Assembled, BuildInv, SegmentInv, LookupFits
      <3>3. l.trip = Item(t).trip BY <3>2 DEF OrderInv, HandInPlan
      <3>4. LookupStored(l, segments, served) BY DEF StoredInv
      <3>5. DOMAIN l.legs = 1 .. Len(l.trip) - 1 BY <3>2
      <3>6. AllStored(l.legs, l.trip, segments, served) BY <3>4, <3>5 DEF LookupStored, AllStored
      <3> HIDE DEF l
      <3> QED BY <1>2, <1>5, <2>2, <3>3, <3>6 DEF Item, l
    <2>3. CASE u = t /\ work[t].at = "computed" /\ w.value = work[t].value /\ w.plan = work[t].plan
      BY <1>2, <1>5, <1>6, <2>3 DEF StoredInv, ValueStored, Item
    <2>4. CASE u = t /\ work[t].at = "load" /\ w.plan = work[t].plan
      BY <1>5, <1>6, <2>4 DEF BuildInv, Fits, InGet, Phase, CallPhase, Item
    <2> QED BY <1>4, <1>5, <1>6, <2>1, <2>2, <2>3, <2>4
  <1>7. MemoStored' BY <1>1, <1>3 DEF MemoStored
  <1>8. \A u \in Thread : ValueStored(u)' BY <1>1, <1>6 DEF ValueStored, Item
  <1>9. RowsWayOut(segments, served)' BY <1>1 DEF RowsWayOut
  <1>10. \A u \in Thread : LookupStored(lookup[u], segments, served)' BY <1>1
  <1> QED BY <1>7, <1>8, <1>9, <1>10 DEF StoredInv

-----------------------------------------------------------------------------
LEMMA FirstBuildInit == Init => FirstBuildInv
  <1> SUFFICES ASSUME Init PROVE FirstBuildInv OBVIOUS
  <1>1. BuildInv BY BuildInitInv
  <1>2. /\ work = [t \in Thread |-> Idle] /\ lookup = [t \in Router |-> NoLookup]
        /\ segments = NoRows /\ values = [k \in Key |-> Nothing]
    BY DEF Init, SegmentInit, FlightInit
  <1>3. Idle.at = "idle" /\ Idle.plan = <<>> /\ DOMAIN <<>> = {} BY DEF Idle
  <1>4. NoLookup.trip = <<>> BY DEF NoLookup
  <1>5. ASSUME NEW t \in Thread
        PROVE  /\ work[t] = Idle /\ lookup[t] = NoLookup
               /\ OutThenBack(work[t].plan, work[t].task) /\ HandInPlan(t)
    <2>1. work[t] = Idle /\ lookup[t] = NoLookup BY <1>2, FamilyAssumption
    <2> QED BY <1>3, <1>4, <2>1 DEF OutThenBack, HandInPlan, Routing
  <1>6. OrderInv BY <1>5 DEF OrderInv
  <1>7. RowsWayOut(segments, served) BY <1>2 DEF RowsWayOut, NoRows
  <1>8. MemoStored
    <2>1. \A task \in Task : \A trip \in {Outbound, Return} : LegsKey(trip, task) \in Key
      BY RequestAssumption
    <2> QED BY <1>2, <2>1 DEF MemoStored
  <1>9. \A t \in Thread : LookupStored(lookup[t], segments, served) /\ ValueStored(t)
    BY <1>3, <1>5, EmptyStored DEF ValueStored
  <1> QED BY <1>1, <1>6, <1>7, <1>8, <1>9 DEF FirstBuildInv, StoredInv

\* A step that moves neither the threads' places, nor memo, nor table.
LEMMA FirstBuildFrame ==
  ASSUME OneWay, FirstBuildInv, BuildInv',
         NEW w, PlanMoves(Main, w), work' = [work EXCEPT ![Main] = w],
         \/ w = work[Main]
         \/ work[Main].at \in {"idle", "next"} /\ w.at # "computed",
         UNCHANGED <<values, lookup>>,
         disturbed' # TRUE => ~disturbed /\ UNCHANGED <<segments, served>>
  PROVE  FirstBuildInv'
  <1>1. BuildInv /\ OrderInv /\ (~disturbed => StoredInv) BY DEF FirstBuildInv
  <1>2. Main \in Thread /\ work \in [Thread -> Work] BY <1>1, FamilyAssumption DEF BuildInv, BuildTypeOK
  <1>3. work'[Main] = w /\ \A u \in Thread \ {Main} : work'[u] = work[u] BY <1>2
  <1>4. OutThenBack(w.plan, w.task) BY <1>1, <1>2, PlanMoved
  <1>5. ASSUME NEW u \in Thread
        PROVE  OutThenBack(work'[u].plan, work'[u].task) /\ HandInPlan(u)'
    <2>1. OutThenBack(work'[u].plan, work'[u].task) BY <1>1, <1>3, <1>4 DEF OrderInv
    <2>2. HandInPlan(u)'
      <3>1. CASE work'[u] = work[u] BY <1>1, <3>1 DEF OrderInv, HandInPlan, Routing, Item
      <3>2. CASE u = Main /\ work[Main].at \in {"idle", "next"}
        BY <1>1, <3>2 DEF OrderInv, HandInPlan, Routing
      <3> QED BY <1>3, <3>1, <3>2
    <2> QED BY <2>1, <2>2
  <1>6. OrderInv' BY <1>5 DEF OrderInv, OutThenBack
  <1>7. ASSUME ~disturbed' PROVE StoredInv'
    <2>1. StoredInv /\ UNCHANGED <<segments, served, values, lookup>> BY <1>1, <1>7
    <2>2. ASSUME NEW u \in Thread PROVE ValueStored(u)'
      <3>1. CASE work'[u] = work[u] BY <2>1, <3>1 DEF StoredInv, ValueStored, Item
      <3>2. CASE work'[u].at # "computed" BY <3>2 DEF ValueStored
      <3> QED BY <1>3, <3>1, <3>2
    <2>3. MemoStored' BY <2>1 DEF StoredInv, MemoStored
    <2>4. RowsWayOut(segments, served)' BY <2>1 DEF StoredInv, RowsWayOut
    <2>5. \A u \in Thread : LookupStored(lookup[u], segments, served)' BY <2>1 DEF StoredInv
    <2> QED BY <2>2, <2>3, <2>4, <2>5 DEF StoredInv
  <1> QED BY <1>6, <1>7 DEF FirstBuildInv

LEMMA FirstBuildStep == OneWay /\ FirstBuildInv /\ [Next]_vars => FirstBuildInv'
  <1> SUFFICES ASSUME OneWay, FirstBuildInv, [Next]_vars PROVE FirstBuildInv' OBVIOUS
  <1>1. BuildInv /\ OrderInv /\ (~disturbed => StoredInv) /\ BuildInv'
    BY BuildStepInv DEF FirstBuildInv
  <1>2. Main \in Thread /\ work \in [Thread -> Work] BY <1>1, FamilyAssumption DEF BuildInv, BuildTypeOK
  <1>3. ASSUME work' = work, values' = values, lookup' = lookup,
               disturbed' # TRUE => ~disturbed /\ UNCHANGED <<segments, served>>
        PROVE  FirstBuildInv'
    <2>1. work' = [work EXCEPT ![Main] = work[Main]] BY <1>2, <1>3
    <2>2. PlanMoves(Main, work[Main]) BY DEF PlanMoves
    <2> QED BY <1>1, <1>3, <2>1, <2>2, FirstBuildFrame
  <1>4. CASE \E t \in Thread : ThreadStep(t)
    <2>1. PICK t \in Thread : ThreadStep(t) BY <1>4
    <2>2. OrderInv' BY <1>1, <2>1, ThreadOrder
    <2>3. disturbed => disturbed'
      BY <2>1 DEF ThreadStep, TakeTask, FinishPlan, LookUpRouter, GetHit, GetMiss, BorrowSlot,
                  BorrowConnection, BorrowFails, QueryAnswers, QueryFails, GiveBack, GoOn, NoAnswer,
                  UseRow, RouteMiss, Routed, KeepValue, ForgetKey, LeaveGet, historyVars
    <2>4. ~disturbed' => StoredInv' BY <1>1, <2>1, <2>3, ThreadStored
    <2> QED BY <1>1, <2>2, <2>4 DEF FirstBuildInv
  <1>5. CASE LoopStep
    <2>1. /\ UNCHANGED <<values, lookup, segments, served>> /\ disturbed' = disturbed
          /\ remaining # <<>>
      BY <1>5 DEF LoopStep, StartMember, EvaluateMember, MemberRaises, flightVars, segmentVars, historyVars
    <2>2. disturbed' # TRUE => ~disturbed /\ UNCHANGED <<segments, served>> BY <2>1
    <2>3. CASE StartMember
      <3> DEFINE task == RouteKey(Head(remaining))
                 w == [Idle EXCEPT !.at = "next", !.task = task, !.plan = MemberPlan(task)]
      <3>1. /\ work' = [work EXCEPT ![Main] = w] /\ work[Main].at = "idle" BY <2>3 DEF StartMember, At
      <3>2. task \in Task
        <4>1. remaining \in Seq(Range(Members)) BY <1>1 DEF BuildInv, BuildTypeOK
        <4>2. Head(remaining) \in Range(Members) BY <2>1, <4>1
        <4> QED BY <4>2, RequestAssumption DEF Range, RouteKey
      <3> HIDE DEF task
      <3>3. w.at = "next" /\ w.task = task /\ w.plan = MemberPlan(task) BY DEF Idle
      <3> HIDE DEF w
      <3>4. PlanMoves(Main, w) BY <3>2, <3>3 DEF PlanMoves
      <3> QED BY <1>1, <2>1, <2>2, <3>1, <3>3, <3>4, FirstBuildFrame
    <2>4. CASE EvaluateMember BY <1>3, <2>1, <2>2, <2>4 DEF EvaluateMember
    <2>5. CASE MemberRaises
      <3>1. work' = [work EXCEPT ![Main] = Idle] /\ work[Main].at \in {"idle", "next"}
        BY <2>5 DEF MemberRaises, Abort, At
      <3>2. Idle.at = "idle" /\ Idle.plan = <<>> BY DEF Idle
      <3> HIDE DEF Idle
      <3>3. PlanMoves(Main, Idle) BY <3>2 DEF PlanMoves
      <3> QED BY <1>1, <2>1, <2>2, <3>1, <3>2, <3>3, FirstBuildFrame
    <2> QED BY <1>5, <2>3, <2>4, <2>5 DEF LoopStep
  <1>6. CASE \E b \in Other : OtherBorrows(b) \/ OtherEnds(b)
    BY <1>3, <1>6 DEF OtherBorrows, OtherEnds, flightVars, segmentVars, buildVars, historyVars
  <1>7. CASE \E pair \in Pair, up \in BOOLEAN, date \in 1 .. MaxImport : OtherProcessStores(pair, up, date)
    <2>1. work' = work /\ values' = values /\ lookup' = lookup /\ disturbed' = TRUE
      BY <1>7 DEF OtherProcessStores, StoreElsewhere, flightVars, buildVars
    <2> QED BY <1>3, <2>1
  <1>8. CASE TableMoves
    <2>1. work' = work /\ values' = values /\ lookup' = lookup
      BY <1>8 DEF TableMoves, Reimport, SyncStep, ReadDate, ReadStored, PurgeRows, Record, SyncFails,
           flightVars, buildVars
    <2>2. disturbed' = (disturbed \/ served' # served \/ segments' # segments) BY <1>8 DEF TableMoves
    <2> DEFINE moved == disturbed \/ served' # served \/ segments' # segments
    <2>3. CASE moved
      <3>1. moved = TRUE BY <2>3
      <3>2. disturbed' = moved BY <2>2
      <3> HIDE DEF moved
      <3> QED BY <1>3, <2>1, <3>1, <3>2
    <2>4. CASE ~moved
      <3>1. ~disturbed /\ UNCHANGED <<segments, served>> BY <2>4
      <3> HIDE DEF moved
      <3> QED BY <1>3, <2>1, <3>1
    <2> QED BY <2>3, <2>4
  <1>9. CASE UNCHANGED vars
    BY <1>3, <1>9 DEF vars, flightVars, segmentVars, buildVars, historyVars
  <1>10. CASE Finished BY <1>9, <1>10 DEF Finished
  <1> QED BY <1>4, <1>5, <1>6, <1>7, <1>8, <1>9, <1>10 DEF Next

\* A build that nothing disturbed shows the corridors a later one will find
\* in the table, in both directions, whatever its threads do in parallel; on
\* a trip that runs no pair of stops in both orders.
THEOREM FirstBuildStands ==
  ASSUME OneWay
  PROVE  Spec => []FirstBuildIsTheCachedOne
  <1>1. ASSUME NEW legs, NEW trip, AllStored(legs, trip, segments, served), BuildInv,
               RowsWayOut(segments, served)
        PROVE  [i \in DOMAIN legs |-> legs[i].corridor] = FromTable(trip)
    <2>1. ASSUME NEW i \in DOMAIN legs
          PROVE  LET p == {trip[i], trip[i + 1]}
                     reverse == trip[i] # Lo(p)
                 IN  segments[p] # NoRow /\ legs[i].corridor = Oriented(segments[p], reverse).corridor
      <3> DEFINE p == {trip[i], trip[i + 1]}
      <3>1. p \in Pair /\ legs[i].corridor = WayOut(p, served) /\ segments[p] # NoRow
        BY <1>1 DEF AllStored, AsStored
      <3>2. segments[p] \in Leg /\ segments[p].corridor = WayOut(p, served)
        BY <1>1, <3>1 DEF BuildInv, SegmentInv, RowsFit, RowsWayOut
      <3> HIDE DEF p
      <3>3. \A reverse : Oriented(segments[p], reverse).corridor = segments[p].corridor
        BY <3>2, CorridorKept
      <3> QED BY <3>1, <3>2, <3>3 DEF p
    <2>2. DOMAIN legs = 1 .. Len(trip) - 1 BY <1>1 DEF AllStored
    <2> QED BY <2>1, <2>2 DEF FromTable
  <1>2. FirstBuildInv => FirstBuildIsTheCachedOne
    <2> SUFFICES ASSUME FirstBuildInv, ~disturbed, NEW task \in Task, NEW trip \in {Outbound, Return},
                        values[LegsKey(trip, task)] # Nothing
        PROVE  [i \in DOMAIN values[LegsKey(trip, task)] |-> values[LegsKey(trip, task)][i].corridor]
                 = FromTable(trip)
      BY DEF FirstBuildIsTheCachedOne
    <2>1. BuildInv /\ StoredInv BY DEF FirstBuildInv
    <2>2. AllStored(values[LegsKey(trip, task)], trip, segments, served) BY <2>1 DEF StoredInv, MemoStored
    <2> QED BY <1>1, <2>1, <2>2 DEF StoredInv
  <1>3. FirstBuildInv /\ [Next]_vars => FirstBuildInv' BY FirstBuildStep
  <1> QED BY <1>2, <1>3, FirstBuildInit, PTL DEF Spec
-----------------------------------------------------------------------------
(***************************************************************************)
(* The build never gets stuck.  The prover has no ENABLED, so the guards   *)
(* of the build's steps are put together here.                             *)
(***************************************************************************)
\* What the answer of a call does to the legs in hand can be done.
CallFits(t) ==
  /\ At(t, "fetch") => ~Routing(t)
  /\ At(t, "keep") => Routing(t) /\ lookup[t].live # NoRow

\* A thread has a step of its own: it takes a task; it ends its plan, looks up
\* its router or asks the memo; its call gets a slot or runs out of time, gets
\* a connection or an answer, or gives them back; it routes; it leaves get().
CanStep(t) ==
  \/ t \in Worker /\ At(t, "idle") /\ todo # <<>>
  \/ At(t, "next") /\ (Asks(t) => flight[t] = Outside)
  \/ Calling(t) /\ CallFits(t) /\ lease[t] \in {"none", "open"}
  \/ Calling(t) /\ lease[t] = "slot" /\ (idle > 0 \/ Cardinality(Used) < MaxConn)
  \/ work[t].answer # "" /\ lease[t] \in {"open", "broken", "returned"}
  \/ /\ At(t, "route") /\ Routing(t)
     /\ Assembled(t) \/ Row(t) # NoRow \/ lookup[t].live = NoRow
  \/ At(t, "computed") /\ flight[t].at \in {"owner", "stored", "forgot"}
  \/ At(t, "raised") /\ flight[t].at \in {"owner", "forgot"}

\* The request thread goes on with its next member.
CanLoop == Prewarmed /\ At(Main, "idle") /\ remaining # <<>>

\* Who is at something can go on, or waits for a thread that can; and a build
\* that is not over has somebody who can go on.
NobodyIsStuck ==
  /\ \A t \in Thread : ~At(t, "idle") =>
       \/ CanStep(t)
       \/ \E u \in Thread : flight[t].at = "waiting" /\ flight[t].gate = u /\ CanStep(u)
  /\ Done \/ CanLoop \/ \E t \in Thread : CanStep(t)

\* How far a call is, by what the thread holds, whether it has a trip in hand
\* and a leg that was routed live, and by its flight.
CallOf(at, answer, held, routing, live, stage) ==
  /\ answer # "" => at \in CallPhase /\ held \in {"open", "broken", "returned"}
  /\ at \in CallPhase /\ answer = "" => held \in {"none", "slot", "open"}
  /\ routing <=> at \in {"route", "keep"} \/ (at = "fetch" /\ answer # "")
  /\ live <=> at = "keep" /\ answer = ""
  /\ at = "raised" => stage \in {"owner", "forgot"}

CallStands(t) ==
  CallOf(work[t].at, work[t].answer, lease[t], Routing(t), lookup[t].live # NoRow,
         flight[t].at)

\* Who is out of get() has left nothing behind.
OutIsOutside(t) == flight[t].at = "out" => flight[t] = Outside

StuckInv == BuildInv /\ \A t \in Thread : CallStands(t) /\ OutIsOutside(t)

\* From there, everybody can go on.
LEMMA InvNobodyIsStuck ==
  ASSUME Worker # {}, StuckInv
  PROVE  NobodyIsStuck
  <1>1. /\ BuildTypeOK /\ FlightInv /\ PoolInv /\ SegmentInv
        /\ \A t \in Thread : Fits(t) /\ CallStands(t) /\ OutIsOutside(t)
    BY DEF StuckInv, BuildInv
  <1>2. ASSUME NEW t \in Thread, ~At(t, "idle"), flight[t].at # "waiting"
        PROVE  CanStep(t)
    <2>1. /\ work[t] \in Work /\ flight[t] \in Flight /\ lease[t] \in Lease
          /\ work[t].at \in {"next", "load", "fetch", "keep", "route", "computed", "raised"}
      BY <1>1, <1>2, ThreadBorrows
         DEF BuildTypeOK, FlightInv, FlightShape, PoolInv, PoolTypeOK, Work, At, Phase, CallPhase
    <2>2. InGet(t) /\ Connected(t) /\ CallStands(t) BY <1>1 DEF Fits
    <2>3. CASE At(t, "next")
      <3>1. flight[t].at = "out" BY <1>2, <2>2, <2>3 DEF InGet, At, Phase, CallPhase
      <3>2. flight[t] = Outside BY <1>1, <3>1 DEF OutIsOutside
      <3> QED BY <2>3, <3>2 DEF CanStep
    <2>4. CASE work[t].at \in CallPhase /\ work[t].answer = ""
      <3>1. Calling(t) /\ lease[t] \in {"none", "slot", "open"} /\ CallFits(t)
        BY <2>2, <2>4 DEF Calling, CallPhase, CallFits, CallStands, CallOf, At
      <3>2. CASE lease[t] = "slot"
        <4>1. SlotMeansConnection BY <1>1, InvSlotMeansConnection DEF PoolInv
        <4>2. Holding({"slot"}) # {} BY <3>2, ThreadBorrows DEF Holding
        <4> QED BY <3>1, <3>2, <4>1, <4>2 DEF CanStep, SlotMeansConnection
      <3> QED BY <3>1, <3>2 DEF CanStep
    <2>5. CASE work[t].at \in CallPhase /\ work[t].answer # ""
      BY <2>2, <2>5 DEF CanStep, CallStands, CallOf
    <2>6. CASE At(t, "route")
      <3>1. Routing(t) /\ lookup[t].live = NoRow
        BY <2>2, <2>6 DEF CallStands, CallOf, At
      <3> QED BY <2>6, <3>1 DEF CanStep
    <2>7. CASE At(t, "computed")
      BY <2>2, <2>7 DEF CanStep, InGet, At, Phase
    <2>8. CASE At(t, "raised")
      BY <2>2, <2>8 DEF CanStep, CallStands, CallOf, At
    <2> QED BY <2>1, <2>3, <2>4, <2>5, <2>6, <2>7, <2>8 DEF At, CallPhase
  <1>3. ASSUME NEW t \in Thread, flight[t].at = "waiting"
        PROVE  \E u \in Thread : flight[t].gate = u /\ CanStep(u)
    <2> DEFINE u == flight[t].gate
    <2>1. u \in Thread
      BY <1>1, <1>3 DEF FlightInv, FlightShape, GateOfWaiters
    <2>2. flight[u].at \in {"owner", "stored", "forgot"}
      BY <1>1, <1>3 DEF FlightInv, WaitersHaveAnOwner
    <2>3. ~At(u, "idle") /\ flight[u].at # "waiting"
      BY <1>1, <2>1, <2>2 DEF Fits, InGet, At, Phase, CallPhase
    <2> QED BY <1>2, <2>1, <2>3
  <1>4. Done \/ CanLoop \/ \E t \in Thread : CanStep(t)
    <2>1. CASE \E t \in Thread : ~At(t, "idle") BY <1>2, <1>3, <2>1
    <2>2. CASE \A t \in Thread : At(t, "idle")
      <3>1. Main \in Thread /\ Worker \subseteq Thread BY FamilyAssumption
      <3>2. CASE todo # <<>> BY <2>2, <3>1, <3>2 DEF CanStep
      <3>3. CASE todo = <<>> BY <2>2, <3>1, <3>3 DEF Prewarmed, CanLoop, Done
      <3> QED BY <3>2, <3>3
    <2> QED BY <2>1, <2>2
  <1> QED BY <1>2, <1>3, <1>4 DEF NobodyIsStuck

-----------------------------------------------------------------------------
LEMMA StuckInit == Init => StuckInv
  <1> SUFFICES ASSUME Init PROVE StuckInv OBVIOUS
  <1>1. BuildInv BY BuildInitInv
  <1>2. /\ work = [t \in Thread |-> Idle] /\ lookup = [t \in Router |-> NoLookup]
        /\ flight = [t \in Thread |-> Outside]
    BY DEF Init, SegmentInit, FlightInit
  <1>3. Idle.at = "idle" /\ Idle.answer = "" BY DEF Idle
  <1>4. NoLookup.trip = <<>> /\ NoLookup.live = NoRow BY DEF NoLookup
  <1>5. ASSUME NEW t \in Thread PROVE CallStands(t) /\ OutIsOutside(t)
    <2>1. work[t] = Idle /\ lookup[t] = NoLookup /\ flight[t] = Outside BY <1>2, FamilyAssumption
    <2> QED BY <1>3, <1>4, <2>1 DEF CallStands, CallOf, CallPhase, Routing, OutIsOutside
  <1> QED BY <1>1, <1>5 DEF StuckInv

\* A thread leaves the memo's get() without a trace.
LEMMA StaysOutside ==
  ASSUME FlightInv, NEW t \in Thread, FlightAct(t) \/ UNCHANGED flightVars,
         NEW u \in Thread, OutIsOutside(u)
  PROVE  OutIsOutside(u)'
  <1>1. flight \in [Thread -> Flight] BY DEF FlightInv, FlightShape
  <1>2. CASE OpenGate(t) BY <1>2 DEF OpenGate, OutIsOutside
  <1>3. CASE \E k \in Key : Own(t, k) \/ Await(t, k)
    BY <1>1, <1>3 DEF Own, Await, OutIsOutside
  <1>4. CASE (\E v : Keep(t, v)) \/ (\E kept \in BOOLEAN : Forget(t, kept))
    <2>1. \E at \in {"stored", "forgot"} : flight' = [flight EXCEPT ![t].at = at]
      BY <1>4 DEF Keep, Forget
    <2> QED BY <1>1, <2>1 DEF Flight, OutIsOutside
  <1>5. CASE (\E k \in Key : Hit(t, k)) \/ UNCHANGED flightVars
    BY <1>5 DEF Hit, flightVars, OutIsOutside
  <1> QED BY <1>2, <1>3, <1>4, <1>5 DEF FlightAct

\* A thread that neither calls nor routes, and has nothing of a trip.
LEMMA OutOfCall ==
  ASSUME NEW t \in Thread, CallStands(t), work[t].at \notin {"fetch", "keep", "route"},
         lookup'[t] = lookup[t],
         work'[t].at \in {"idle", "next"}, work'[t].answer = ""
  PROVE  CallStands(t)'
  BY DEF CallStands, CallOf, CallPhase, Routing

\* A thread that goes on in get() as it was, with a connection or not.
LEMMA CallWaits ==
  ASSUME NEW t \in Thread, CallStands(t), work'[t] = work[t], lookup'[t] = lookup[t],
         lease'[t] = lease[t], flight'[t] = flight[t] \/ work[t].at # "raised"
  PROVE  CallStands(t)'
  BY DEF CallStands, CallOf, Routing

\* A call that comes back has its thread raise, route or have its value.
LEMMA CallComesBack ==
  ASSUME BuildInv, NEW t \in Thread, CallStands(t), work[t].at \in CallPhase,
         NEW answer, work'[t].at = After(t, answer), work'[t].answer = "",
         lease'[t] = "none", flight' = flight,
         work[t].at = "load" => ~Routing(t)' /\ lookup'[t].live = NoRow,
         work[t].at # "load" => Routing(t)' /\ lookup'[t].live = NoRow
  PROVE  CallStands(t)'
  <1>1. flight'[t].at = "owner" BY DEF BuildInv, Fits, InGet, Phase, CallPhase
  <1>2. CASE work[t].at = "load"
    <2>1. work'[t].at \in {"computed", "raised"} BY <1>2 DEF After, At
    <2> QED BY <1>1, <1>2, <2>1 DEF CallStands, CallOf, CallPhase
  <1>3. CASE work[t].at # "load"
    <2>1. work'[t].at = "route" BY <1>3 DEF After, At
    <2> QED BY <1>3, <2>1 DEF CallStands, CallOf, CallPhase
  <1> QED BY <1>2, <1>3

\* What a call does to the segment cache, answered or not.
Called(t, ok) ==
  CASE At(t, "load")  -> UNCHANGED segmentVars
    [] At(t, "fetch") -> Fetch(t, Item(t).trip, ok)
    [] At(t, "keep")  -> StoreLeg(t, ok)

\* ... and to the trip in hand.
LEMMA CallInHand ==
  ASSUME BuildInv, NEW t \in Thread, CallStands(t), Calling(t),
         NEW ok \in BOOLEAN,
         Called(t, ok)
  PROVE  /\ lookup'[t].live = NoRow
         /\ Routing(t)' <=> work[t].at # "load"
  <1>1. /\ lookup = [u \in Thread |-> lookup[u]]
        /\ lookup[t] \in [trip : Seq(Stop), rows : [Pair -> Leg \cup {NoRow}], legs : Seq(Leg), live : Leg \cup {NoRow}]
    BY FamilyAssumption DEF BuildInv, SegmentInv, LookupFits
  <1>2. CASE At(t, "load")
    <2>1. UNCHANGED segmentVars BY <1>2 DEF At, Called
    <2>2. lookup' = lookup BY <2>1 DEF segmentVars
    <2> QED BY <1>2, <2>2 DEF At, CallStands, CallOf, Routing
  <1>3. CASE At(t, "fetch")
    <2>1. Fetch(t, Item(t).trip, ok) BY <1>3 DEF At, Called
    <2>2. PICK rows : lookup' = [lookup EXCEPT ![t] = [NoLookup EXCEPT !.trip = Item(t).trip, !.rows = rows]]
      BY <2>1 DEF Fetch
    <2> DEFINE l == [NoLookup EXCEPT !.trip = Item(t).trip, !.rows = rows]
    <2>3. l.trip = Item(t).trip /\ l.live = NoRow BY DEF NoLookup
    <2>4. lookup' = [lookup EXCEPT ![t] = l] BY <2>2
    <2> HIDE DEF l
    <2>5. lookup'[t] = l BY <1>1, <2>4
    <2>6. Item(t).trip # <<>> BY <1>3 DEF BuildInv, Fits, InGet, At, Phase, CallPhase
    <2>7. work[t].at # "load" BY <1>3 DEF At
    <2> QED BY <2>3, <2>5, <2>6, <2>7 DEF Routing
  <1>4. CASE At(t, "keep")
    <2>1. StoreLeg(t, ok) BY <1>4 DEF At, Called
    <2>2. lookup[t].trip # <<>> BY <2>1 DEF StoreLeg, Routing
    <2>3. PICK legs : lookup' = [lookup EXCEPT ![t] = [lookup[t] EXCEPT !.legs = legs, !.live = NoRow]]
      BY <2>1 DEF StoreLeg
    <2>4. lookup'[t].trip = lookup[t].trip /\ lookup'[t].live = NoRow BY <1>1, <2>3
    <2>5. work[t].at # "load" BY <1>4 DEF At
    <2> QED BY <2>2, <2>4, <2>5 DEF Routing
  <1> QED BY <1>2, <1>3, <1>4 DEF Calling, At

\* Every step leaves its thread somewhere it can go on from.
LEMMA CallGoes ==
  ASSUME StuckInv, NEW t \in Thread, ThreadStep(t)
  PROVE  CallStands(t)'
  <1>1. BuildInv /\ Fits(t) /\ CallStands(t) BY DEF StuckInv, BuildInv
  <1>2. /\ work \in [Thread -> Work] /\ work[t] \in Work
        /\ lookup = [u \in Thread |-> lookup[u]] /\ LookupFits(lookup[t])
        /\ lookup[t] \in [trip : Seq(Stop), rows : [Pair -> Leg \cup {NoRow}], legs : Seq(Leg), live : Leg \cup {NoRow}]
    BY <1>1, FamilyAssumption DEF BuildInv, BuildTypeOK, SegmentInv, LookupFits
  <1>3. lease \in [Borrower -> Lease] /\ t \in Borrower
    BY <1>1, ThreadBorrows DEF BuildInv, PoolInv, PoolTypeOK
  <1>4. Idle.at = "idle" /\ Idle.answer = "" BY DEF Idle
  <1>5. work[t].at \notin CallPhase => work[t].answer = "" /\ lease[t] = "none"
    BY <1>1 DEF CallStands, CallOf, Fits, Connected
  <1>6. work[t].at \in CallPhase \cup {"route"} => flight[t].at = "owner"
    BY <1>1 DEF Fits, InGet, Phase, CallPhase
  <1>7. CASE TakeTask(t)
    <2> DEFINE w == [Idle EXCEPT !.at = "next", !.task = Head(todo), !.plan = WarmPlan(Head(todo))]
    <2>1. work' = [work EXCEPT ![t] = w] /\ work[t].at = "idle" /\ lookup' = lookup
      BY <1>7 DEF TakeTask, At, segmentVars
    <2>2. w.at = "next" /\ w.answer = "" BY DEF Idle
    <2> HIDE DEF w
    <2>3. work'[t] = w BY <1>2, <2>1
    <2> QED BY <1>1, <2>1, <2>2, <2>3, OutOfCall
  <1>8. ASSUME work' = [work EXCEPT ![t] = Idle], work[t].at \notin {"fetch", "keep", "route"}, lookup' = lookup
        PROVE  CallStands(t)'
    <2>1. work'[t] = Idle BY <1>2, <1>8
    <2> QED BY <1>1, <1>4, <1>8, <2>1, OutOfCall
  <1>9. CASE FinishPlan(t)
    BY <1>8, <1>9 DEF FinishPlan, At, segmentVars
  <1>10. CASE LookUpRouter(t)
    <2>1. work[t].at = "next" /\ lookup' = lookup BY <1>10 DEF LookUpRouter, At, segmentVars
    <2>2. CASE work' = [work EXCEPT ![t].plan = Tail(@)]
      <3>1. work'[t].at = "next" /\ work'[t].answer = "" BY <1>2, <1>5, <2>1, <2>2 DEF Work, CallPhase
      <3> QED BY <1>1, <2>1, <3>1, OutOfCall
    <2>3. CASE Abort(t) BY <1>8, <2>1, <2>3 DEF Abort
    <2> QED BY <1>10, <2>2, <2>3 DEF LookUpRouter
  <1>11. CASE GetHit(t)
    <2>1. work[t].at = "next" /\ lookup' = lookup /\ work' = [work EXCEPT ![t].plan = Tail(@)]
      BY <1>11 DEF GetHit, Asks, At, segmentVars
    <2>2. work'[t].at = "next" /\ work'[t].answer = "" BY <1>2, <1>5, <2>1 DEF Work, CallPhase
    <2> QED BY <1>1, <2>1, <2>2, OutOfCall
  <1>12. CASE GetMiss(t)
    <2>1. work[t].at = "next" /\ lookup' = lookup /\ lease' = lease
      BY <1>12 DEF GetMiss, Asks, At, segmentVars, poolVars
    <2>2. CASE UNCHANGED work BY <1>1, <2>1, <2>2, CallWaits
    <2>3. CASE \E at \in {"load", "fetch"} : work' = [work EXCEPT ![t].at = at]
      <3>1. PICK at \in {"load", "fetch"} : work' = [work EXCEPT ![t].at = at] BY <2>3
      <3>2. work'[t].at = at /\ work'[t].answer = work[t].answer BY <1>2, <3>1 DEF Work
      <3>3. work[t].answer = "" BY <1>5, <2>1 DEF CallPhase
      <3> QED BY <1>1, <1>5, <2>1, <3>2, <3>3 DEF CallStands, CallOf, CallPhase, Routing
    <2> QED BY <1>12, <2>2, <2>3 DEF GetMiss, Go
  <1>13. CASE BorrowSlot(t) \/ BorrowConnection(t)
    <2>1. Calling(t) /\ work' = work /\ lookup' = lookup /\ flight' = flight
      BY <1>13 DEF BorrowSlot, BorrowConnection, flightVars, segmentVars, buildVars
    <2>2. lease'[t] \in {"slot", "open"}
      BY <1>3, <1>13 DEF BorrowSlot, BorrowConnection, Acquire, GetConn
    <2> QED BY <1>1, <2>1, <2>2 DEF CallStands, CallOf, CallPhase, Routing, Calling
  <1>14. CASE BorrowFails(t)
    <2>1. Calling(t) /\ NoAnswer(t) /\ work' = [work EXCEPT ![t].at = After(t, "failed")] /\ flight' = flight
      BY <1>14 DEF BorrowFails, Go, flightVars
    <2>2. lease'[t] = "none" BY <1>3, <1>14 DEF BorrowFails, AcquireTimesOut, GetConnFails, poolVars
    <2>3. lookup'[t].live = NoRow /\ (Routing(t)' <=> work[t].at # "load")
      <3>1. Called(t, FALSE)
        BY <2>1 DEF NoAnswer, Called
      <3> QED BY <1>1, <2>1, <3>1, CallInHand
    <2>4. work'[t].at = After(t, "failed") /\ work'[t].answer = "" BY <1>2, <2>1 DEF Work, Calling
    <2>5. work[t].at \in CallPhase BY <2>1 DEF Calling, CallPhase
    <2> QED BY <1>1, <2>1, <2>2, <2>3, <2>4, <2>5, CallComesBack
  <1>15. CASE QueryAnswers(t) \/ QueryFails(t)
    <2>1. /\ Calling(t) /\ flight' = flight
          /\ \E a \in {"ok", "failed"} : work' = [work EXCEPT ![t].answer = a]
      BY <1>15 DEF QueryAnswers, QueryFails, Answer, flightVars
    <2>2. lease'[t] \in {"open", "broken"}
      BY <1>3, <1>15 DEF QueryAnswers, QueryFails, Break, poolVars
    <2>3. lookup'[t].live = NoRow /\ (Routing(t)' <=> work[t].at # "load")
      <3>1. CASE QueryAnswers(t)
        <4>1. Called(t, TRUE)
          BY <3>1 DEF QueryAnswers, Called
        <4> QED BY <1>1, <2>1, <4>1, CallInHand
      <3>2. CASE QueryFails(t)
        <4>1. Called(t, FALSE)
          BY <3>2 DEF QueryFails, NoAnswer, Called
        <4> QED BY <1>1, <2>1, <4>1, CallInHand
      <3> QED BY <1>15, <3>1, <3>2
    <2>4. work'[t].at = work[t].at /\ work'[t].answer # ""
      <3>1. PICK a \in {"ok", "failed"} : work' = [work EXCEPT ![t].answer = a] BY <2>1
      <3>2. work'[t].at = work[t].at /\ work'[t].answer = a BY <1>2, <3>1 DEF Work
      <3> QED BY <3>1, <3>2
    <2>5. work[t].at \in CallPhase BY <2>1 DEF Calling, CallPhase
    <2> QED BY <2>2, <2>3, <2>4, <2>5 DEF CallStands, CallOf, CallPhase
  <1>16. CASE GiveBack(t)
    <2>1. /\ work[t].answer # "" /\ work' = work /\ lookup' = lookup /\ flight' = flight
          /\ lease'[t] = "returned"
      BY <1>3, <1>16 DEF GiveBack, PutConn, flightVars, segmentVars, buildVars
    <2> QED BY <1>1, <2>1 DEF CallStands, CallOf, Routing
  <1>17. CASE GoOn(t)
    <2>1. /\ lease[t] = "returned" /\ lease'[t] = "none" /\ lookup' = lookup /\ flight' = flight
          /\ work' = [work EXCEPT ![t].at = After(t, work[t].answer), ![t].answer = ""]
      BY <1>3, <1>17 DEF GoOn, ReleaseSlot, flightVars, segmentVars
    <2>2. work[t].at \in CallPhase BY <1>5, <2>1
    <2>3. work[t].answer # "" BY <1>1, <2>1, <2>2 DEF CallStands, CallOf
    <2>4. work'[t].at = After(t, work[t].answer) /\ work'[t].answer = "" BY <1>2, <2>1 DEF Work
    <2>5. lookup'[t].live = NoRow /\ (Routing(t)' <=> work[t].at # "load")
      BY <1>1, <2>1, <2>2, <2>3 DEF CallStands, CallOf, CallPhase, Routing
    <2> QED BY <1>1, <2>1, <2>2, <2>4, <2>5, CallComesBack
  <1>18. CASE UseRow(t)
    <2>1. work' = work /\ flight' = flight /\ lease' = lease
      BY <1>18 DEF UseRow, poolVars, flightVars, buildVars
    <2>2. PICK legs : lookup' = [lookup EXCEPT ![t].legs = legs] BY <1>18 DEF UseRow, TakeCached
    <2>3. lookup'[t].trip = lookup[t].trip /\ lookup'[t].live = lookup[t].live BY <1>2, <2>2
    <2> QED BY <1>1, <2>1, <2>3 DEF CallStands, CallOf, Routing
  <1>19. CASE RouteMiss(t)
    <2>1. work[t].at = "route" /\ lease' = lease /\ flight' = flight
      BY <1>19 DEF RouteMiss, At, poolVars, flightVars
    <2>2. work[t].answer = "" /\ lease'[t] = "none" /\ flight'[t].at = "owner"
      BY <1>5, <1>6, <2>1 DEF CallPhase
    <2>3. CASE RouteLive(t) /\ Go(t, "keep")
      <3> DEFINE leg == LiveLeg(From(t), To(t), served)
      <3>1. Routing(t) /\ ~Assembled(t) /\ lookup' = [lookup EXCEPT ![t].live = leg]
        BY <2>3 DEF RouteLive
      <3>2. SegmentInv /\ t \in Router BY <1>1, FamilyAssumption DEF BuildInv
      <3>3. From(t) \in Stop /\ To(t) \in Stop /\ From(t) # To(t) BY <3>1, <3>2, NextPair
      <3>4. leg \in Leg BY <3>2, <3>3, LiveLegFits DEF SegmentInv, Between
      <3> HIDE DEF leg
      <3>5. lookup'[t].live # NoRow /\ lookup'[t].trip = lookup[t].trip
        BY <1>2, <3>1, <3>4, RequestAssumption
      <3>6. work'[t].at = "keep" /\ work'[t].answer = "" BY <1>2, <2>2, <2>3 DEF Go, Work
      <3> QED BY <2>2, <3>1, <3>5, <3>6 DEF CallStands, CallOf, CallPhase, Routing
    <2>4. CASE RouteFails(t) /\ Go(t, "raised")
      <3>1. NoLookup.trip = <<>> /\ NoLookup.live = NoRow BY DEF NoLookup
      <3>2. lookup'[t] = NoLookup BY <1>2, <2>4 DEF RouteFails
      <3>3. work'[t].at = "raised" /\ work'[t].answer = "" BY <1>2, <2>2, <2>4 DEF Go, Work
      <3> QED BY <2>2, <3>1, <3>2, <3>3 DEF CallStands, CallOf, CallPhase, Routing
    <2> QED BY <1>19, <2>3, <2>4 DEF RouteMiss
  <1>20. CASE Routed(t)
    <2>1. /\ work[t].at = "route" /\ lookup' = [lookup EXCEPT ![t] = NoLookup]
          /\ work' = [work EXCEPT ![t].at = "computed", ![t].value = lookup[t].legs]
      BY <1>20 DEF Routed, HandOver, At
    <2>2. NoLookup.trip = <<>> /\ NoLookup.live = NoRow BY DEF NoLookup
    <2>3. lookup'[t] = NoLookup BY <1>2, <2>1
    <2>4. work'[t].at = "computed" /\ work'[t].answer = "" BY <1>2, <1>5, <2>1 DEF Work, CallPhase
    <2> QED BY <2>2, <2>3, <2>4 DEF CallStands, CallOf, CallPhase, Routing
  <1>21. CASE KeepValue(t)
    <2>1. work[t].at = "computed" /\ work' = work /\ lookup' = lookup /\ lease' = lease
      BY <1>21 DEF KeepValue, At, buildVars, segmentVars, poolVars
    <2> QED BY <1>1, <2>1, CallWaits
  <1>22. CASE ForgetKey(t)
    <2>1. work' = work /\ lookup' = lookup /\ lease' = lease
      BY <1>22 DEF ForgetKey, buildVars, segmentVars, poolVars
    <2>2. PICK kept \in BOOLEAN : Forget(t, kept)
      <3>1. At(t, "computed") \in BOOLEAN BY DEF At
      <3> QED BY <1>22, <3>1 DEF ForgetKey
    <2>3. flight \in [Thread -> Flight] BY <1>1 DEF BuildInv, FlightInv, FlightShape
    <2>4. flight'[t].at = "forgot" BY <2>2, <2>3 DEF Forget, Flight
    <2> QED BY <1>1, <2>1, <2>4 DEF CallStands, CallOf, Routing
  <1>23. CASE LeaveGet(t)
    <2>1. work[t].at \in {"computed", "raised"} /\ lookup' = lookup
      BY <1>23 DEF LeaveGet, segmentVars
    <2>2. CASE work' = [work EXCEPT ![t].at = "next", ![t].plan = Tail(@), ![t].value = Nothing]
      <3>1. work'[t].at = "next" /\ work'[t].answer = "" BY <1>2, <1>5, <2>1, <2>2 DEF Work, CallPhase
      <3> QED BY <1>1, <2>1, <3>1, OutOfCall
    <2>3. CASE Abort(t) BY <1>8, <2>1, <2>3 DEF Abort
    <2> QED BY <1>23, <2>2, <2>3 DEF LeaveGet
  <1> QED BY <1>7, <1>9, <1>10, <1>11, <1>12, <1>13, <1>14, <1>15, <1>16, <1>17, <1>18, <1>19, <1>20,
            <1>21, <1>22, <1>23 DEF ThreadStep

LEMMA ThreadStuck ==
  ASSUME StuckInv, NEW t \in Thread, ThreadStep(t)
  PROVE  StuckInv'
  <1>1. BuildInv /\ BuildInv' BY ThreadStepInv DEF StuckInv
  <1>2. FlightInv /\ (FlightAct(t) \/ UNCHANGED flightVars) BY <1>1, ThreadFlight DEF BuildInv
  <1>3. ASSUME NEW u \in Thread PROVE CallStands(u)'
    <2>1. CASE u = t BY <2>1, CallGoes
    <2>2. CASE u # t
      <3>1. PICK w \in Work : work' = [work EXCEPT ![t] = w] BY <1>1, ThreadMoves
      <3>2. work'[u] = work[u] BY <1>1, <2>2, <3>1 DEF BuildInv, BuildTypeOK
      <3>3. lookup'[u] = lookup[u] BY <1>1, <2>2, TripMoves
      <3>4. lease'[u] = lease[u] BY <1>1, <2>2, BystanderLease
      <3>5. flight'[u] = flight[u] \/ (flight[u].at = "waiting" /\ flight'[u].at = "out")
        BY <1>2, <2>2, FlightFrame
      <3>6. CallStands(u) BY DEF StuckInv
      <3>7. flight'[u] = flight[u] \/ work[u].at # "raised" BY <3>5, <3>6 DEF CallStands, CallOf
      <3> QED BY <3>2, <3>3, <3>4, <3>6, <3>7, CallWaits
    <2> QED BY <2>1, <2>2
  <1>4. ASSUME NEW u \in Thread PROVE OutIsOutside(u)'
    BY <1>2, StaysOutside DEF StuckInv
  <1> QED BY <1>1, <1>3, <1>4 DEF StuckInv

LEMMA StuckStep == StuckInv /\ [Next]_vars => StuckInv'
  <1> SUFFICES ASSUME StuckInv, [Next]_vars PROVE StuckInv' OBVIOUS
  <1>1. BuildInv /\ BuildInv' BY BuildStepInv DEF StuckInv
  <1>2. work \in [Thread -> Work] /\ Main \in Thread BY <1>1, FamilyAssumption DEF BuildInv, BuildTypeOK
  <1>3. ASSUME flight' = flight, \A t \in Thread : CallStands(t)' PROVE StuckInv'
    BY <1>1, <1>3 DEF StuckInv, OutIsOutside
  <1>4. ASSUME work' = work, lookup' = lookup, flight' = flight, \A t \in Thread : lease'[t] = lease[t]
        PROVE  StuckInv'
    <2>1. \A t \in Thread : CallStands(t)' BY <1>4, CallWaits DEF StuckInv
    <2> QED BY <1>3, <1>4, <2>1
  <1>5. CASE \E t \in Thread : ThreadStep(t) BY <1>5, ThreadStuck
  <1>6. CASE LoopStep
    <2>1. UNCHANGED <<lookup, flight, lease>>
      BY <1>6 DEF LoopStep, StartMember, EvaluateMember, MemberRaises, poolVars, flightVars, segmentVars
    <2>2. ASSUME work[Main].at \in {"idle", "next"}, work'[Main].at \in {"idle", "next"},
                 work'[Main].answer = "", \A u \in Thread \ {Main} : work'[u] = work[u]
          PROVE  StuckInv'
      <3>1. ASSUME NEW u \in Thread PROVE CallStands(u)'
        <4>1. CallStands(u) BY DEF StuckInv
        <4>2. CASE u = Main BY <2>1, <2>2, <4>1, <4>2, OutOfCall
        <4>3. CASE u # Main BY <2>1, <2>2, <4>1, <4>3, CallWaits
        <4> QED BY <4>2, <4>3
      <3> QED BY <1>3, <2>1, <3>1
    <2>3. CASE StartMember
      <3> DEFINE task == RouteKey(Head(remaining))
                 w == [Idle EXCEPT !.at = "next", !.task = task, !.plan = MemberPlan(task)]
      <3>1. /\ work' = [work EXCEPT ![Main] = w] /\ work[Main].at \in {"idle", "next"}
        BY <2>3 DEF StartMember, At
      <3>2. w.at \in {"idle", "next"} /\ w.answer = "" BY DEF Idle
      <3> HIDE DEF w
      <3>3. work'[Main] = w /\ \A u \in Thread \ {Main} : work'[u] = work[u] BY <1>2, <3>1
      <3> QED BY <2>2, <3>1, <3>2, <3>3
    <2>4. CASE EvaluateMember BY <1>4, <2>1, <2>4 DEF EvaluateMember
    <2>5. CASE MemberRaises
      <3>1. work' = [work EXCEPT ![Main] = Idle] /\ work[Main].at \in {"idle", "next"}
        BY <2>5 DEF MemberRaises, Abort, At
      <3>2. Idle.at \in {"idle", "next"} /\ Idle.answer = "" BY DEF Idle
      <3> HIDE DEF Idle
      <3>3. work'[Main] = Idle /\ \A u \in Thread \ {Main} : work'[u] = work[u] BY <1>2, <3>1
      <3> QED BY <2>2, <3>1, <3>2, <3>3
    <2> QED BY <1>6, <2>3, <2>4, <2>5 DEF LoopStep
  <1>7. CASE \E b \in Other : OtherBorrows(b) \/ OtherEnds(b)
    <2>1. PICK b \in Other : OtherBorrows(b) \/ OtherEnds(b) BY <1>7
    <2>2. work' = work /\ lookup' = lookup /\ flight' = flight
      BY <2>1 DEF OtherBorrows, OtherEnds, flightVars, segmentVars, buildVars
    <2>3. \A t \in Thread : lease'[t] = lease[t]
      BY <1>1, <2>1, ThreadBorrows
         DEF Other, BuildInv, PoolInv, PoolTypeOK, OtherBorrows, OtherEnds, Acquire, GetConn,
             GetConnFails, PutConn, ReleaseSlot
    <2> QED BY <1>4, <2>2, <2>3
  <1>8. CASE \E pair \in Pair, up \in BOOLEAN, date \in 1 .. MaxImport : OtherProcessStores(pair, up, date)
    BY <1>4, <1>8 DEF OtherProcessStores, StoreElsewhere, poolVars, flightVars, buildVars
  <1>9. CASE TableMoves
    BY <1>4, <1>9 DEF TableMoves, Reimport, SyncStep, ReadDate, ReadStored, PurgeRows, Record, SyncFails,
           poolVars, flightVars, buildVars
  <1>10. CASE UNCHANGED vars
    BY <1>4, <1>10 DEF vars, poolVars, flightVars, segmentVars, buildVars
  <1>11. CASE Finished BY <1>10, <1>11 DEF Finished
  <1> QED BY <1>5, <1>6, <1>7, <1>8, <1>9, <1>10, <1>11 DEF Next

\* However the threads of a build interleave, and whatever fails, the build
\* never hangs: a thread in the middle of something can go on or waits for
\* one that can, and until the family is whole somebody can go on.
THEOREM BuildNeverStuck ==
  ASSUME Worker # {}
  PROVE  Spec => []NobodyIsStuck
  <1>1. StuckInv => NobodyIsStuck BY InvNobodyIsStuck
  <1> QED BY <1>1, StuckInit, StuckStep, PTL DEF Spec
=============================================================================
