-------------------------- MODULE PoolAndMemoProofs --------------------------
(***************************************************************************)
(* The two small components every family build leans on.  ConnectionPool:  *)
(* for every number of borrowers and every pool size, slots and connections *)
(* are counted, and a slot stands for one.  SingleFlight: for every set of *)
(* threads, keys and values, one computation at a time, nobody waiting on a *)
(* gate nobody will open, and values that stay.                            *)
(***************************************************************************)
EXTENDS ConnectionPool, SingleFlight, FiniteSetTheorems, TLAPS

-----------------------------------------------------------------------------
(***************************************************************************)
(* The connection pool.                                                    *)
(***************************************************************************)

\* The inductive invariant: the two counts that every step balances.
PoolInv == PoolTypeOK /\ SlotsConserved /\ ConnectionsBounded

\* Who holds what is a finite set.
LEMMA HoldingFinite ==
  ASSUME NEW held
  PROVE  IsFiniteSet(Holding(held)) /\ Cardinality(Holding(held)) \in Nat
  <1>1. Holding(held) \subseteq Borrower BY DEF Holding
  <1> QED BY <1>1, PoolAssumption, FS_Subset, FS_CardinalityType

\* A step of one borrower moves it into or out of a set of holders, and
\* nobody else.
LEMMA OneMoves ==
  ASSUME NEW b \in Borrower, NEW x, NEW held,
         lease \in [Borrower -> Lease], lease' = [lease EXCEPT ![b] = x]
  PROVE  /\ x \in held /\ lease[b] \in held => Cardinality(Holding(held))' = Cardinality(Holding(held))
         /\ x \in held /\ lease[b] \notin held => Cardinality(Holding(held))' = Cardinality(Holding(held)) + 1
         /\ x \notin held /\ lease[b] \in held => Cardinality(Holding(held))' = Cardinality(Holding(held)) - 1
         /\ x \notin held /\ lease[b] \notin held => Cardinality(Holding(held))' = Cardinality(Holding(held))
         /\ Cardinality(Holding(held))' \in Nat
  <1> DEFINE H == Holding(held)
  <1>1. IsFiniteSet(H) /\ Cardinality(H) \in Nat BY HoldingFinite
  <1>2. b \in H <=> lease[b] \in held BY DEF Holding
  <1>3. Holding(held)' = IF x \in held THEN H \cup {b} ELSE H \ {b} BY DEF Holding
  <1>n. Cardinality(Holding(held))' \in Nat
    BY <1>1, <1>3, FS_AddElement, FS_RemoveElement, FS_CardinalityType
  <1>4. CASE x \in held /\ lease[b] \in held
    <2>1. H \cup {b} = H BY <1>2, <1>4
    <2> QED BY <1>3, <1>4, <1>n, <2>1
  <1>5. CASE x \in held /\ lease[b] \notin held
    <2>1. Cardinality(H \cup {b}) = Cardinality(H) + 1 BY <1>1, <1>2, <1>5, FS_AddElement
    <2> QED BY <1>3, <1>5, <1>n, <2>1
  <1>6. CASE x \notin held /\ lease[b] \in held
    <2>1. Cardinality(H \ {b}) = Cardinality(H) - 1 BY <1>1, <1>2, <1>6, FS_RemoveElement
    <2> QED BY <1>3, <1>6, <1>n, <2>1
  <1>7. CASE x \notin held /\ lease[b] \notin held
    <2>1. H \ {b} = H BY <1>2, <1>7
    <2> QED BY <1>3, <1>7, <1>n, <2>1
  <1> QED BY <1>4, <1>5, <1>6, <1>7, <1>n

LEMMA PoolInitInv == PoolInit => PoolInv
  <1> SUFFICES ASSUME PoolInit PROVE PoolInv OBVIOUS
  <1>1. Holding(Lease \ {"none"}) = {} /\ Used = {} BY DEF PoolInit, Holding, Used
  <1>2. Cardinality({}) = 0 BY FS_EmptySet
  <1>3. PoolTypeOK BY PoolAssumption DEF PoolInit, PoolTypeOK, Lease
  <1>4. SlotsConserved BY <1>1, <1>2, PoolAssumption DEF SlotsConserved, PoolInit
  <1>5. ConnectionsBounded BY <1>1, <1>2, PoolAssumption DEF ConnectionsBounded, PoolInit
  <1> QED BY <1>3, <1>4, <1>5 DEF PoolInv

\* Every step balances both counts.
LEMMA PoolStepInv == PoolInv /\ [PoolNext]_poolVars => PoolInv'
  <1> SUFFICES ASSUME PoolInv, [PoolNext]_poolVars PROVE PoolInv' OBVIOUS
  <1> DEFINE held == Lease \ {"none"}
             out == {"open", "broken"}
             n == Cardinality(Holding(held))
             u == Cardinality(Used)
  <1>1. /\ slots \in 0..MaxConn /\ idle \in 0..MinConn /\ lease \in [Borrower -> Lease]
        /\ slots + n = MaxConn /\ idle + u <= MaxConn
        /\ n \in Nat /\ u \in Nat /\ MinConn \in Nat /\ MaxConn \in Nat
    BY HoldingFinite, PoolAssumption DEF PoolInv, PoolTypeOK, SlotsConserved, ConnectionsBounded, Used
  <1>2. CASE UNCHANGED poolVars
    BY <1>2 DEF poolVars, PoolInv, PoolTypeOK, SlotsConserved, ConnectionsBounded, Used, Holding
  \* What is left of each step once its two counts are known.
  <1> DEFINE Balanced == /\ slots' \in Int /\ idle' \in 0..MinConn /\ lease' \in [Borrower -> Lease]
                         /\ n' \in Nat
                         /\ slots' + n' = MaxConn /\ idle' + u' <= MaxConn /\ slots' >= 0
  <1>3. ASSUME Balanced PROVE PoolInv'
    <2>1. slots' \in 0..MaxConn BY <1>1, <1>3
    <2> QED BY <1>3, <2>1 DEF PoolInv, PoolTypeOK, SlotsConserved, ConnectionsBounded
  <1>4. ASSUME NEW b \in Borrower, NEW x, lease' = [lease EXCEPT ![b] = x]
        PROVE  /\ n' \in Nat
               /\ x \in held /\ lease[b] \in held => n' = n
               /\ x \in held /\ lease[b] \notin held => n' = n + 1
               /\ x \notin held /\ lease[b] \in held => n' = n - 1
               /\ x \in out /\ lease[b] \in out => u' = u
               /\ x \in out /\ lease[b] \notin out => u' = u + 1
               /\ x \notin out /\ lease[b] \in out => u' = u - 1
               /\ x \notin out /\ lease[b] \notin out => u' = u
    <2>1. lease \in [Borrower -> Lease] BY <1>1
    <2> QED BY <1>4, <2>1, OneMoves DEF Used
  <1>5. /\ "none" \notin held /\ {"slot", "open", "broken", "returned"} \subseteq held
        /\ "open" \in out /\ "broken" \in out
        /\ "none" \notin out /\ "slot" \notin out /\ "returned" \notin out
        /\ {"none", "slot", "open", "broken", "returned"} \subseteq Lease
    BY DEF Lease
  <1> HIDE DEF held, out, n, u
  <1>u. u = Cardinality(Used) BY DEF u
  <1>6. ASSUME NEW b \in Borrower, NEW x \in Lease, lease' = [lease EXCEPT ![b] = x]
        PROVE  lease' \in [Borrower -> Lease]
    BY <1>1, <1>6
  <1> SUFFICES ASSUME PoolNext PROVE PoolInv' BY <1>2
  <1>7. PICK b \in Borrower :
          \/ Acquire(b) \/ AcquireTimesOut(b) \/ GetConn(b) \/ GetConnFails(b)
          \/ Break(b) \/ PutConn(b) \/ ReleaseSlot(b)
    BY DEF PoolNext
  <1>8. CASE Acquire(b)
    <2>1. n' = n + 1 /\ u' = u /\ n' \in Nat BY <1>4, <1>5, <1>8 DEF Acquire
    <2>2. lease' \in [Borrower -> Lease] BY <1>5, <1>6, <1>8 DEF Acquire
    <2>3. Balanced BY <1>1, <1>8, <2>1, <2>2 DEF Acquire
    <2> QED BY <1>3, <2>3
  <1>9. CASE GetConn(b)
    <2>1. n' = n /\ u' = u + 1 /\ n' \in Nat BY <1>4, <1>5, <1>9 DEF GetConn
    <2>2. lease' \in [Borrower -> Lease] BY <1>5, <1>6, <1>9 DEF GetConn
    <2>3. Balanced BY <1>1, <1>9, <1>u, <2>1, <2>2 DEF GetConn
    <2> QED BY <1>3, <2>3
  <1>10. CASE GetConnFails(b)
    <2>1. n' = n - 1 /\ u' = u /\ n' \in Nat BY <1>4, <1>5, <1>10 DEF GetConnFails
    <2>2. lease' \in [Borrower -> Lease] BY <1>5, <1>6, <1>10 DEF GetConnFails
    <2>3. Balanced BY <1>1, <1>10, <2>1, <2>2 DEF GetConnFails
    <2> QED BY <1>3, <2>3
  <1>11. CASE Break(b)
    <2>1. n' = n /\ u' = u /\ n' \in Nat BY <1>4, <1>5, <1>11 DEF Break
    <2>2. lease' \in [Borrower -> Lease] BY <1>5, <1>6, <1>11 DEF Break
    <2>3. Balanced BY <1>1, <1>11, <2>1, <2>2 DEF Break
    <2> QED BY <1>3, <2>3
  <1>12. CASE PutConn(b)
    <2>1. n' = n /\ u' = u - 1 /\ n' \in Nat BY <1>4, <1>5, <1>12 DEF PutConn
    <2>2. lease' \in [Borrower -> Lease] BY <1>5, <1>6, <1>12 DEF PutConn
    <2>3. Balanced BY <1>1, <1>12, <2>1, <2>2 DEF PutConn
    <2> QED BY <1>3, <2>3
  <1>13. CASE ReleaseSlot(b)
    <2>1. n' = n - 1 /\ u' = u /\ n' \in Nat BY <1>4, <1>5, <1>13 DEF ReleaseSlot
    <2>2. lease' \in [Borrower -> Lease] BY <1>5, <1>6, <1>13 DEF ReleaseSlot
    <2>3. Balanced BY <1>1, <1>13, <2>1, <2>2 DEF ReleaseSlot
    <2> QED BY <1>3, <2>3
  <1>14. CASE AcquireTimesOut(b) BY <1>2, <1>14 DEF AcquireTimesOut
  <1> QED BY <1>7, <1>8, <1>9, <1>10, <1>11, <1>12, <1>13, <1>14

\* A slot in hand is not a connection yet, and there are as many slots as
\* connections: one is left.
LEMMA InvSlotMeansConnection == PoolInv => SlotMeansConnection
  <1> SUFFICES ASSUME PoolInv, NEW b \in Holding({"slot"})
      PROVE  Cardinality(Used) < MaxConn
    BY DEF SlotMeansConnection
  <1> DEFINE H == Holding(Lease \ {"none"})
  <1>1. IsFiniteSet(Used) /\ IsFiniteSet(H) /\ Cardinality(H) \in Nat /\ Cardinality(Used) \in Nat
    BY HoldingFinite DEF Used
  <1>2. b \notin Used /\ Used \cup {b} \subseteq H BY DEF Used, Holding, Lease
  <1>3. Cardinality(Used \cup {b}) = Cardinality(Used) + 1 BY <1>1, <1>2, FS_AddElement
  <1>4. Cardinality(Used \cup {b}) <= Cardinality(H) BY <1>1, <1>2, FS_Subset
  <1>5. slots \in Nat /\ slots + Cardinality(H) = MaxConn /\ MaxConn \in Nat
    BY PoolAssumption DEF PoolInv, PoolTypeOK, SlotsConserved
  <1> QED BY <1>1, <1>3, <1>4, <1>5

\* However the blocks of its borrowers end, the pool keeps its slots, its
\* connections stay within DB_POOL_MAX and a slot means a connection.
THEOREM PoolSafe ==
  PoolSpec => [](PoolTypeOK /\ PoolIsSound)
  <1>1. PoolInv => PoolTypeOK /\ PoolIsSound
    BY InvSlotMeansConnection DEF PoolInv, PoolIsSound
  <1> QED BY <1>1, PoolInitInv, PoolStepInv, PTL DEF PoolSpec

-----------------------------------------------------------------------------
(***************************************************************************)
(* The memo.                                                               *)
(***************************************************************************)

Owning(t) == flight[t].at \in {"owner", "stored"}

\* The tables have their shape, whatever the computations return.
FlightShape ==
  /\ values = [k \in Key |-> values[k]]
  /\ inFlight \in [Key -> Thread \cup {Nothing}]
  /\ flight \in [Thread -> Flight]

\* An entry of _in_flight names the thread that owns the key, and only it.
EntryIsTheOwner ==
  /\ \A t \in Thread :
       Owning(t) => flight[t].key \in Key /\ inFlight[flight[t].key] = t
  /\ \A k \in Key :
       inFlight[k] # Nothing => Owning(inFlight[k]) /\ flight[inFlight[k]].key = k

\* Only a miss is computed.
OwnersMissed ==
  \A t \in Thread : Computing(t) => values[flight[t].key] = Nothing

\* Who waits has a gate to wait on, and nobody else has one.
GateOfWaiters ==
  \A t \in Thread :
    /\ flight[t].at # "waiting" => flight[t].gate = Nothing
    /\ flight[t].at = "waiting" => flight[t].gate \in Thread

FlightInv ==
  /\ FlightShape
  /\ EntryIsTheOwner /\ OwnersMissed /\ GateOfWaiters
  /\ WaitersHaveAnOwner

LEMMA FlightInitInv == FlightInit => FlightInv
  BY FlightAssumption
     DEF FlightInit, FlightInv, FlightShape, Flight, Outside, EntryIsTheOwner, Owning,
         OwnersMissed, Computing, GateOfWaiters, WaitersHaveAnOwner

\* A thread that enters get() on a key.
LEMMA EnterInv ==
  ASSUME FlightInv, NEW t \in Thread, NEW k \in Key, Own(t, k) \/ Await(t, k)
  PROVE  FlightInv'
  <1>1. /\ values = [l \in Key |-> values[l]] /\ inFlight \in [Key -> Thread \cup {Nothing}]
        /\ flight \in [Thread -> Flight] /\ flight[t] = Outside /\ flight[t].at = "out"
        /\ values' = values /\ values[k] = Nothing
    BY DEF FlightInv, FlightShape, Own, Await, Outside
  <1>2. CASE Own(t, k)
    <2> DEFINE mine == [at |-> "owner", key |-> k, gate |-> Nothing]
    <2>1. /\ flight' = [flight EXCEPT ![t] = mine] /\ inFlight' = [inFlight EXCEPT ![k] = t]
          /\ inFlight[k] = Nothing
      BY <1>2 DEF Own
    <2>2. mine \in Flight BY DEF Flight
    <2>3. mine.at = "owner" /\ mine.key = k /\ mine.gate = Nothing OBVIOUS
    <2> HIDE DEF mine
    <2>4. flight'[t] = mine /\ \A u \in Thread \ {t} : flight'[u] = flight[u] BY <1>1, <2>1
    <2>5. inFlight'[k] = t /\ \A l \in Key \ {k} : inFlight'[l] = inFlight[l] BY <1>1, <2>1
    <2>6. FlightShape' BY <1>1, <2>1, <2>2 DEF FlightShape
    <2>7. EntryIsTheOwner'
      <3>1. ASSUME NEW u \in Thread, Owning(u)'
            PROVE  flight'[u].key \in Key /\ inFlight'[flight'[u].key] = u
        BY <1>1, <2>1, <2>3, <2>4, <2>5, <3>1, FlightAssumption DEF FlightInv, EntryIsTheOwner, Owning
      <3>2. ASSUME NEW l \in Key, inFlight'[l] # Nothing
            PROVE  Owning(inFlight[l])' /\ flight'[inFlight'[l]].key = l
        <4>1. CASE l = k BY <2>3, <2>4, <2>5, <4>1 DEF Owning
        <4>2. CASE l # k
          <5>1. inFlight'[l] = inFlight[l] /\ inFlight[l] \in Thread \ {t}
            BY <1>1, <2>5, <3>2, <4>2 DEF FlightInv, EntryIsTheOwner, Owning
          <5> QED BY <2>4, <3>2, <5>1 DEF FlightInv, EntryIsTheOwner, Owning
        <4> QED BY <4>1, <4>2
      <3> QED BY <3>1, <3>2 DEF EntryIsTheOwner
    <2>8. OwnersMissed' BY <1>1, <2>3, <2>4 DEF FlightInv, OwnersMissed, Computing
    <2>9. GateOfWaiters' BY <1>1, <2>3, <2>4 DEF FlightInv, GateOfWaiters
    <2>10. WaitersHaveAnOwner'
      BY <1>1, <2>3, <2>4 DEF FlightInv, WaitersHaveAnOwner, GateOfWaiters
    <2> QED BY <2>6, <2>7, <2>8, <2>9, <2>10 DEF FlightInv
  <1>3. CASE Await(t, k)
    <2> DEFINE mine == [at |-> "waiting", key |-> k, gate |-> inFlight[k]]
    <2>1. /\ flight' = [flight EXCEPT ![t] = mine] /\ inFlight' = inFlight
          /\ inFlight[k] # Nothing
      BY <1>3 DEF Await
    <2>2. inFlight[k] \in Thread /\ Owning(inFlight[k]) /\ inFlight[k] # t
      BY <1>1, <2>1 DEF FlightInv, EntryIsTheOwner, Owning
    <2>3. mine \in Flight BY <2>2 DEF Flight
    <2>4. mine.at = "waiting" /\ mine.key = k /\ mine.gate = inFlight[k] OBVIOUS
    <2> HIDE DEF mine
    <2>5. flight'[t] = mine /\ \A u \in Thread \ {t} : flight'[u] = flight[u] BY <1>1, <2>1
    <2>6. FlightShape' BY <1>1, <2>1, <2>3 DEF FlightShape
    <2>7. EntryIsTheOwner'
      <3>1. ASSUME NEW l \in Key, inFlight[l] # Nothing PROVE inFlight[l] \in Thread \ {t}
        BY <1>1, <3>1 DEF FlightInv, EntryIsTheOwner, Owning
      <3> QED BY <2>1, <2>4, <2>5, <3>1 DEF FlightInv, EntryIsTheOwner, Owning
    <2>8. OwnersMissed' BY <1>1, <2>4, <2>5 DEF FlightInv, OwnersMissed, Computing
    <2>9. GateOfWaiters' BY <2>2, <2>4, <2>5 DEF FlightInv, GateOfWaiters
    <2>10. WaitersHaveAnOwner'
      BY <1>1, <2>2, <2>4, <2>5 DEF FlightInv, WaitersHaveAnOwner, GateOfWaiters, Owning
    <2> QED BY <2>6, <2>7, <2>8, <2>9, <2>10 DEF FlightInv
  <1> QED BY <1>2, <1>3

\* compute() returned.
LEMMA KeepInv ==
  ASSUME FlightInv, NEW t \in Thread, NEW v, Keep(t, v)
  PROVE  FlightInv'
  <1> DEFINE k == flight[t].key
             mine == [flight[t] EXCEPT !.at = "stored"]
  <1>1. /\ values = [l \in Key |-> values[l]] /\ inFlight \in [Key -> Thread \cup {Nothing}]
        /\ flight \in [Thread -> Flight] /\ flight[t] \in Flight /\ flight[t].at = "owner"
        /\ k \in Key /\ inFlight[k] = t
    BY DEF FlightInv, FlightShape, Keep, Computing, EntryIsTheOwner, Owning
  <1>2. /\ flight' = [flight EXCEPT ![t] = mine] /\ inFlight' = inFlight
        /\ values' = [values EXCEPT ![k] = v]
    BY <1>1 DEF Keep
  <1>3. mine \in Flight /\ mine.at = "stored" /\ mine.key = k /\ mine.gate = flight[t].gate
    BY <1>1 DEF Flight
  <1> HIDE DEF mine, k
  <1>4. flight'[t] = mine /\ \A u \in Thread \ {t} : flight'[u] = flight[u] BY <1>1, <1>2
  <1>5. FlightShape' BY <1>1, <1>2, <1>3 DEF FlightShape
  <1>6. EntryIsTheOwner' BY <1>1, <1>2, <1>3, <1>4 DEF FlightInv, EntryIsTheOwner, Owning, k
  <1>7. OwnersMissed'
    <2> SUFFICES ASSUME NEW u \in Thread, Computing(u)' PROVE values'[flight'[u].key] = Nothing
      BY DEF OwnersMissed
    <2>1. u # t /\ Computing(u) BY <1>3, <1>4 DEF Computing
    <2>2. flight'[u].key = flight[u].key /\ flight[u].key \in Key /\ flight[u].key # k
      BY <1>1, <1>4, <2>1 DEF FlightInv, EntryIsTheOwner, Owning, Computing
    <2> QED BY <1>1, <1>2, <2>1, <2>2 DEF FlightInv, OwnersMissed
  <1>8. GateOfWaiters' BY <1>1, <1>3, <1>4 DEF FlightInv, GateOfWaiters
  <1>9. WaitersHaveAnOwner'
    BY <1>1, <1>3, <1>4 DEF FlightInv, WaitersHaveAnOwner, GateOfWaiters
  <1> QED BY <1>5, <1>6, <1>7, <1>8, <1>9 DEF FlightInv

\* The entry is deleted.
LEMMA ForgetInv ==
  ASSUME FlightInv, NEW t \in Thread, NEW kept \in BOOLEAN, Forget(t, kept)
  PROVE  FlightInv'
  <1> DEFINE k == flight[t].key
             mine == [flight[t] EXCEPT !.at = "forgot"]
  <1>1. /\ inFlight \in [Key -> Thread \cup {Nothing}]
        /\ flight \in [Thread -> Flight] /\ flight[t] \in Flight /\ Owning(t)
        /\ k \in Key /\ inFlight[k] = t
    BY DEF FlightInv, FlightShape, Forget, EntryIsTheOwner, Owning
  <1>2. /\ flight' = [flight EXCEPT ![t] = mine] /\ values' = values
        /\ inFlight' = [inFlight EXCEPT ![k] = Nothing]
    BY <1>1 DEF Forget
  <1>3. mine \in Flight /\ mine.at = "forgot" /\ mine.key = k /\ mine.gate = flight[t].gate
    BY <1>1 DEF Flight
  <1> HIDE DEF mine, k
  <1>4. flight'[t] = mine /\ \A u \in Thread \ {t} : flight'[u] = flight[u] BY <1>1, <1>2
  <1>5. inFlight'[k] = Nothing /\ \A l \in Key \ {k} : inFlight'[l] = inFlight[l] BY <1>1, <1>2
  <1>6. FlightShape' BY <1>1, <1>2, <1>3 DEF FlightInv, FlightShape
  <1>7. EntryIsTheOwner'
    <2>1. ASSUME NEW u \in Thread, Owning(u)'
          PROVE  flight'[u].key \in Key /\ inFlight'[flight'[u].key] = u
      <3>1. u # t /\ flight'[u] = flight[u] BY <1>3, <1>4, <2>1 DEF Owning
      <3>2. flight[u].key \in Key /\ inFlight[flight[u].key] = u
        BY <2>1, <3>1 DEF FlightInv, EntryIsTheOwner, Owning
      <3> QED BY <1>1, <1>5, <3>1, <3>2
    <2>2. ASSUME NEW l \in Key, inFlight'[l] # Nothing
          PROVE  Owning(inFlight[l])' /\ flight'[inFlight'[l]].key = l
      <3>1. l # k /\ inFlight'[l] = inFlight[l] BY <1>5, <2>2
      <3>2. flight[inFlight[l]].key = l /\ Owning(inFlight[l]) /\ inFlight[l] \in Thread
        BY <1>1, <2>2, <3>1 DEF FlightInv, EntryIsTheOwner
      <3>3. inFlight[l] # t BY <3>1, <3>2 DEF k
      <3> QED BY <1>4, <3>1, <3>2, <3>3 DEF Owning
    <2> QED BY <2>1, <2>2 DEF EntryIsTheOwner
  <1>8. OwnersMissed' BY <1>2, <1>3, <1>4 DEF FlightInv, OwnersMissed, Computing
  <1>9. GateOfWaiters' BY <1>1, <1>3, <1>4 DEF FlightInv, GateOfWaiters, Owning
  <1>10. WaitersHaveAnOwner'
    BY <1>1, <1>3, <1>4 DEF FlightInv, WaitersHaveAnOwner, GateOfWaiters, Owning
  <1> QED BY <1>6, <1>7, <1>8, <1>9, <1>10 DEF FlightInv

\* The gate opens: its waiters go, and nobody waits on a waiter.
LEMMA OpenGateInv ==
  ASSUME FlightInv, NEW t \in Thread, OpenGate(t)
  PROVE  FlightInv'
  <1>1. /\ flight \in [Thread -> Flight] /\ flight[t].at = "forgot"
        /\ inFlight \in [Key -> Thread \cup {Nothing}]
        /\ values' = values /\ inFlight' = inFlight
        /\ \A u \in Thread :
             flight'[u] = IF u = t \/ flight[u].gate = t THEN Outside ELSE flight[u]
        /\ flight' \in [Thread -> Flight]
    BY DEF FlightInv, FlightShape, OpenGate, Flight, Outside
  <1>2. Outside.at = "out" /\ Outside.gate = Nothing BY DEF Outside
  \* Threads that own a key are not disturbed.
  <1>3. ASSUME NEW u \in Thread, Owning(u) PROVE flight'[u] = flight[u]
    BY <1>1, <1>3, FlightAssumption DEF FlightInv, GateOfWaiters, Owning
  <1>4. ASSUME NEW u \in Thread, flight'[u].at # "out" PROVE flight'[u] = flight[u]
    BY <1>1, <1>2, <1>4
  <1>5. FlightShape' BY <1>1 DEF FlightInv, FlightShape
  <1>6. EntryIsTheOwner'
    <2>1. ASSUME NEW u \in Thread, Owning(u)' PROVE flight'[u] = flight[u]
      BY <1>4, <2>1 DEF Owning
    <2>2. ASSUME NEW l \in Key, inFlight[l] # Nothing
          PROVE  inFlight[l] \in Thread /\ flight'[inFlight[l]] = flight[inFlight[l]]
      BY <1>1, <1>3, <2>2 DEF FlightInv, EntryIsTheOwner
    <2> QED BY <1>1, <2>1, <2>2 DEF FlightInv, EntryIsTheOwner, Owning
  <1>7. OwnersMissed' BY <1>1, <1>4 DEF FlightInv, OwnersMissed, Computing
  <1>8. GateOfWaiters' BY <1>1, <1>2 DEF FlightInv, GateOfWaiters
  <1>9. WaitersHaveAnOwner'
    <2> SUFFICES ASSUME NEW u \in Thread, flight'[u].at = "waiting"
        PROVE  flight'[flight'[u].gate].at \in {"owner", "stored", "forgot"}
      BY DEF WaitersHaveAnOwner
    <2> DEFINE g == flight[u].gate
    <2>1. flight'[u] = flight[u] /\ u # t /\ g # t BY <1>1, <1>2
    <2>2. g \in Thread /\ flight[g].at \in {"owner", "stored", "forgot"} /\ flight[g].gate = Nothing
      BY <2>1 DEF FlightInv, WaitersHaveAnOwner, GateOfWaiters
    <2>3. flight'[g] = flight[g] BY <1>1, <2>1, <2>2, FlightAssumption
    <2> QED BY <2>1, <2>2, <2>3
  <1> QED BY <1>5, <1>6, <1>7, <1>8, <1>9 DEF FlightInv

\* What one thread may do, with whatever value its computation returns.
FlightAct(t) ==
  \/ \E k \in Key : Hit(t, k) \/ Own(t, k) \/ Await(t, k)
  \/ \E v : Keep(t, v)
  \/ \E kept \in BOOLEAN : Forget(t, kept)
  \/ OpenGate(t)

LEMMA FlightActInv ==
  ASSUME FlightInv, NEW t \in Thread, FlightAct(t) \/ UNCHANGED flightVars
  PROVE  FlightInv'
  <1>1. CASE UNCHANGED flightVars
    BY <1>1 DEF flightVars, FlightInv, FlightShape, EntryIsTheOwner, Owning, OwnersMissed,
                Computing, GateOfWaiters, WaitersHaveAnOwner
  <1>2. CASE \E k \in Key : Hit(t, k) BY <1>1, <1>2 DEF Hit
  <1>3. CASE \E k \in Key : Own(t, k) \/ Await(t, k) BY <1>3, EnterInv
  <1>4. CASE \E v : Keep(t, v) BY <1>4, KeepInv
  <1>5. CASE \E kept \in BOOLEAN : Forget(t, kept) BY <1>5, ForgetInv
  <1>6. CASE OpenGate(t) BY <1>6, OpenGateInv
  <1> QED BY <1>1, <1>2, <1>3, <1>4, <1>5, <1>6 DEF FlightAct

LEMMA NextIsAnAct ==
  ASSUME [FlightNext]_flightVars
  PROVE  UNCHANGED flightVars \/ \E t \in Thread : FlightAct(t)
  BY DEF FlightNext, FlightAct

LEMMA FlightStepInv == FlightInv /\ [FlightNext]_flightVars => FlightInv'
  <1> SUFFICES ASSUME FlightInv, [FlightNext]_flightVars PROVE FlightInv' OBVIOUS
  <1>1. CASE UNCHANGED flightVars
    BY <1>1 DEF flightVars, FlightInv, FlightShape, EntryIsTheOwner, Owning, OwnersMissed,
                Computing, GateOfWaiters, WaitersHaveAnOwner
  <1> QED BY <1>1, NextIsAnAct, FlightActInv

LEMMA InvOneComputation == FlightInv => OneComputation
  BY DEF FlightInv, EntryIsTheOwner, OwnersMissed, OneComputation, Computing, Owning

\* The values stay typed when every computation returns one.
LEMMA TypesStay == FlightInv /\ FlightTypeOK /\ [FlightNext]_flightVars => FlightTypeOK'
  <1> SUFFICES ASSUME FlightInv, FlightTypeOK, [FlightNext]_flightVars PROVE FlightTypeOK' OBVIOUS
  <1>1. inFlight' \in [Key -> Thread \cup {Nothing}] /\ flight' \in [Thread -> Flight]
    BY FlightStepInv DEF FlightInv, FlightShape
  <1>2. CASE \E t \in Thread, v \in Value : Keep(t, v)
    BY <1>1, <1>2 DEF FlightTypeOK, Keep
  <1>3. CASE ~\E t \in Thread, v \in Value : Keep(t, v)
    <2>1. values' = values
      BY <1>3 DEF FlightNext, flightVars, Hit, Own, Await, Forget, OpenGate
    <2> QED BY <1>1, <2>1 DEF FlightTypeOK
  <1> QED BY <1>2, <1>3

\* No step touches a value that is there.
LEMMA ActValuesStay ==
  ASSUME FlightInv, NEW t \in Thread, FlightAct(t) \/ UNCHANGED flightVars,
         NEW k \in Key, values[k] # Nothing
  PROVE  values'[k] = values[k]
  <1>1. CASE \E v : Keep(t, v)
    <2>1. PICK v : Keep(t, v) BY <1>1
    <2>2. flight[t].key # k BY <2>1 DEF FlightInv, OwnersMissed, Keep
    <2> QED BY <2>1, <2>2 DEF Keep, FlightInv, FlightShape
  <1>2. CASE ~\E v : Keep(t, v)
    BY <1>2 DEF FlightAct, flightVars, Hit, Own, Await, Forget, OpenGate
  <1> QED BY <1>1, <1>2

\* For any threads and keys, whatever the computations do: one of them per
\* key at a time, no waiter without somebody to wake it, and no stored value
\* ever replaced.
THEOREM FlightSafe ==
  FlightSpec => [](FlightTypeOK /\ MemoIsSound) /\ ValuesStay
  <1>1. FlightInv => MemoIsSound
    BY InvOneComputation DEF FlightInv, MemoIsSound
  <1>2. FlightInv /\ [FlightNext]_flightVars
        => [\A k \in Key : values[k] # Nothing => values'[k] = values[k]]_flightVars
    <2> SUFFICES ASSUME FlightInv, [FlightNext]_flightVars, ~UNCHANGED flightVars,
                        NEW k \in Key, values[k] # Nothing
        PROVE  values'[k] = values[k]
      OBVIOUS
    <2> QED BY NextIsAnAct, ActValuesStay
  <1>3. FlightInit => FlightTypeOK
    BY FlightAssumption DEF FlightInit, FlightTypeOK, Flight, Outside
  <1> QED BY <1>1, <1>2, <1>3, FlightInitInv, FlightStepInv, TypesStay, PTL DEF FlightSpec, ValuesStay
=============================================================================
