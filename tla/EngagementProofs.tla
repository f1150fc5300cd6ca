--------------------------- MODULE EngagementProofs ---------------------------
(***************************************************************************)
(* Accounts and engagement, proved for every set of threads, addresses,    *)
(* names and proposals, and any number of requests.  The invariant says of *)
(* every thread what it knows at the step it is at, although what it read  *)
(* may be outdated: its own earlier codes are among those it replaces, the *)
(* code it checked has no session of its own thread, the name it looked    *)
(* for was taken since by other threads only, the guest it merges is its   *)
(* to merge and gains no like, and the comment it may change is its        *)
(* author's or went with the author to another account.                    *)
(* The last section is about locks: nobody waits for a lock without a      *)
(* holder, and which requests can wait for each other in a circle.         *)
(***************************************************************************)
EXTENDS Engagement, FiniteSetTheorems, WellFoundedInduction, TLAPS

Steps ==
  {"free", "create", "issue", "replace", "mail", "check", "name", "register",
   "use", "consume", "confirm", "insert", "merge", "move", "drop", "relike", "mark",
   "like", "unlike", "comment", "may edit", "may delete", "edit", "delete", "lock", "log",
   "redeem"}

Request ==
  [at : Steps, user : UserIds \cup {None}, email : Emails \cup {None},
   name : Names \cup GuestNames \cup {None}, code : CodeIds \cup {None},
   guest : UserIds \cup {None}, verified : BOOLEAN,
   seen : SUBSET (CodeIds \cup Proposals), held : SUBSET (CodeIds \cup Proposals),
   began : CodeIds \cup {None}, item : Proposals \cup Nat \cup {None}]

RequestsTyped == req \in [Workers -> Request]

-----------------------------------------------------------------------------
(* What is still to come of the requests accepted.                          *)

Count(steps) == Cardinality({w \in Workers : req[w].at \in steps})

ToUser   == {"create", "insert"}
ToCode   == {"create", "issue", "replace"}
ToBegin  == {"create", "issue"}
ToRedeem == {"redeem"}

\* Every accepted request makes a row of each kind at most once.
CountsFit ==
  /\ Len(users) + Count(ToUser) <= Len(StartUsers) + started
  /\ Len(codes) + Count(ToCode) <= Len(StartCodes) + started
  /\ clock + Count(ToBegin) <= Len(StartCodes) + started
  /\ redeemed + Count(ToRedeem) <= started
  /\ MaxRedemptions > 0 =>
       redeemed + Count(ToRedeem) <= MaxRedemptions + Cardinality(Workers) - 1

-----------------------------------------------------------------------------
(* The tables.                                                              *)

\* An account with an address: what codes are for and guests are merged into.
Registered(u) == u \in DOMAIN users /\ users[u].email # None

RowsKnown ==
  /\ \A c \in DOMAIN codes : Registered(codes[c].user)
  /\ \A i \in DOMAIN sessions :
       sessions[i].code \in DOMAIN codes /\ codes[sessions[i].code].used
  /\ \A u \in DOMAIN users : users[u].merged # None => Registered(users[u].merged)

\* Unused codes race like the live ones among them.
CodesRaced ==
  \A c, d \in DOMAIN codes :
    c # d /\ codes[c].user = codes[d].user /\ ~codes[c].used /\ ~codes[d].used
      => codes[c].by # codes[d].by

Raced == CodesRaced /\ SessionsRaced /\ NamesRaced

-----------------------------------------------------------------------------
(* The threads.                                                             *)

\* Nobody but other threads has taken the name since it was looked for.
NameOpen(n, w) ==
  \A u \in DOMAIN users :
    users[u].name # None /\ Folded[users[u].name] = Folded[n] => users[u].by # w

Verifying == {"check", "name", "register", "use", "consume", "confirm"}
Merging == {"merge"} \cup MergeSteps

IssueFits(w) ==
  LET r == req[w]
  IN  /\ r.at = "create" => r.email \in Emails
      /\ r.at \in {"issue", "replace"} => Registered(r.user)
      /\ r.at = "replace" =>
           /\ r.began \in CodeIds
           /\ \A c \in Unused(r.user) : codes[c].by = w => c \in r.seen
      /\ r.at = "mail" => r.code \in DOMAIN codes

VerifyFits(w) ==
  LET r == req[w]
  IN  /\ r.at \in Verifying =>
           /\ r.code \in DOMAIN codes
           /\ Registered(r.user)
           /\ r.guest # None => r.guest \in DOMAIN users /\ IsGuest(r.guest)
      /\ r.at \in {"name", "register", "use", "consume", "confirm"} =>
           \A i \in DOMAIN sessions : sessions[i].code = r.code => sessions[i].by # w
      /\ r.at \in {"name", "register", "use"} => r.name \in Names \cup GuestNames \cup {None}
      /\ r.at \in {"register", "use", "insert"} => r.name # None /\ NameOpen(r.name, w)
      /\ r.at = "name" => r.name # None

MergeFits(w) ==
  LET r == req[w]
  IN  /\ r.at \in Merging =>
           Registered(r.user) /\ r.guest \in DOMAIN users /\ IsGuest(r.guest)
      /\ r.at \in MergeSteps => users[r.guest].merged = None
      /\ r.at = "mark" =>
           r.held \subseteq Proposals /\ LikedBy(r.guest) \subseteq r.seen \cup r.held

\* One merge of a guest at a time.
MergesApart ==
  \A v, w \in Workers :
    req[v].at \in MergeSteps /\ req[w].at \in MergeSteps /\ req[v].guest = req[w].guest
      => v = w

EngageFits(w) ==
  LET r == req[w]
  IN  /\ r.at \in {"like", "unlike", "comment", "may edit", "may delete", "edit", "delete"} =>
           r.user \in DOMAIN users
      /\ r.at \in {"like", "unlike"} => r.item \in Proposals
      /\ r.at \in {"may edit", "may delete", "edit", "delete"} => r.item \in DOMAIN comments
      /\ r.at \in {"edit", "delete"} =>
           comments[r.item].user \in {r.user, users[r.user].merged}

ThreadsFit ==
  \A w \in Workers : IssueFits(w) /\ VerifyFits(w) /\ MergeFits(w) /\ EngageFits(w)

IInv ==
  /\ EngagementTypeOK /\ RequestsTyped /\ CountsFit
  /\ RowsKnown /\ Raced /\ MergesApart /\ ThreadsFit

-----------------------------------------------------------------------------
(* Threads and counts.                                                      *)

\* Two sets of threads that differ in one of them at most.
LEMMA OneThreadApart ==
  ASSUME NEW w \in Workers, NEW A \in SUBSET Workers, NEW B \in SUBSET Workers,
         A \ {w} = B \ {w}
  PROVE  /\ Cardinality(A) \in Nat /\ Cardinality(B) \in Nat
         /\ Cardinality(Workers) \in Nat /\ Cardinality(B) <= Cardinality(Workers)
         /\ (w \in A <=> w \in B) => Cardinality(B) = Cardinality(A)
         /\ w \in A /\ w \notin B => Cardinality(B) = Cardinality(A) - 1
         /\ w \notin A /\ w \in B => Cardinality(B) = Cardinality(A) + 1
  <1>1. IsFiniteSet(Workers) BY AccountAssumptions
  <1>2. /\ IsFiniteSet(A) /\ IsFiniteSet(B) /\ Cardinality(B) <= Cardinality(Workers)
    BY <1>1, FS_Subset
  <1>3. Cardinality(A) \in Nat /\ Cardinality(B) \in Nat /\ Cardinality(Workers) \in Nat
    BY <1>1, <1>2, FS_CardinalityType
  <1>4. Cardinality(A \ {w}) = IF w \in A THEN Cardinality(A) - 1 ELSE Cardinality(A)
    BY <1>2, FS_RemoveElement
  <1>5. Cardinality(B \ {w}) = IF w \in B THEN Cardinality(B) - 1 ELSE Cardinality(B)
    BY <1>2, FS_RemoveElement
  <1>6. Cardinality(A \ {w}) = Cardinality(B \ {w}) OBVIOUS
  <1> QED BY <1>2, <1>3, <1>4, <1>5, <1>6

\* A step of one thread moves it in or out of a set of steps.
LEMMA CountSteps ==
  ASSUME NEW w \in Workers, \A v \in Workers : v # w => req'[v] = req[v], NEW steps
  PROVE  /\ Count(steps) \in Nat /\ Count(steps)' \in Nat
         /\ Count(steps)' <= Cardinality(Workers) /\ Cardinality(Workers) \in Nat
         /\ (req[w].at \in steps <=> req'[w].at \in steps) => Count(steps)' = Count(steps)
         /\ req[w].at \in steps /\ req'[w].at \notin steps => Count(steps)' = Count(steps) - 1
         /\ req[w].at \notin steps /\ req'[w].at \in steps => Count(steps)' = Count(steps) + 1
  <1> DEFINE A == {v \in Workers : req[v].at \in steps}
             B == {v \in Workers : req'[v].at \in steps}
  <1>1. A \in SUBSET Workers /\ B \in SUBSET Workers /\ A \ {w} = B \ {w} OBVIOUS
  <1>2. (w \in A <=> req[w].at \in steps) /\ (w \in B <=> req'[w].at \in steps) OBVIOUS
  <1>3. Count(steps) = Cardinality(A) BY DEF Count
  <1>4. Count(steps)' = Cardinality(B) BY DEF Count
  <1> HIDE DEF A, B
  <1>5. /\ Cardinality(A) \in Nat /\ Cardinality(B) \in Nat
        /\ Cardinality(Workers) \in Nat /\ Cardinality(B) <= Cardinality(Workers)
        /\ (w \in A <=> w \in B) => Cardinality(B) = Cardinality(A)
        /\ w \in A /\ w \notin B => Cardinality(B) = Cardinality(A) - 1
        /\ w \notin A /\ w \in B => Cardinality(B) = Cardinality(A) + 1
    BY <1>1, OneThreadApart
  <1> QED BY <1>2, <1>3, <1>4, <1>5

\* A step of thread w comes closer to no row, and makes only the row it was to make.
Makes(w, steps, n) ==
  \/ n' = n /\ (req'[w].at \in steps => req[w].at \in steps)
  \/ n' = n + 1 /\ req[w].at \in steps /\ req'[w].at \notin steps

LEMMA MakesFits ==
  ASSUME NEW w \in Workers, \A v \in Workers : v # w => req'[v] = req[v], NEW steps,
         NEW n \in Nat, NEW m \in Nat, NEW bound \in Int,
         n + Count(steps) <= bound,
         \/ m = n /\ (req'[w].at \in steps => req[w].at \in steps)
         \/ m = n + 1 /\ req[w].at \in steps /\ req'[w].at \notin steps
  PROVE  m + Count(steps)' <= bound
  <1> DEFINE C == Count(steps)
             D == Count(steps)'
  <1>1. /\ C \in Nat /\ D \in Nat
        /\ (req[w].at \in steps <=> req'[w].at \in steps) => D = C
        /\ req[w].at \in steps /\ req'[w].at \notin steps => D = C - 1
        /\ req[w].at \notin steps /\ req'[w].at \in steps => D = C + 1
    BY CountSteps
  <1>2. n + C <= bound OBVIOUS
  <1> HIDE DEF C, D
  <1>3. m + D <= bound BY <1>1, <1>2
  <1> QED BY <1>3 DEF D

LEMMA AcceptFits ==
  ASSUME NEW w \in Workers, \A v \in Workers : v # w => req'[v] = req[v], NEW steps,
         NEW n \in Nat, NEW bound \in Int, n + Count(steps) <= bound
  PROVE  n + Count(steps)' <= bound + 1
  <1> DEFINE C == Count(steps)
             D == Count(steps)'
  <1>1. /\ C \in Nat /\ D \in Nat
        /\ (req[w].at \in steps <=> req'[w].at \in steps) => D = C
        /\ req[w].at \in steps /\ req'[w].at \notin steps => D = C - 1
        /\ req[w].at \notin steps /\ req'[w].at \in steps => D = C + 1
    BY CountSteps
  <1>2. n + C <= bound OBVIOUS
  <1> HIDE DEF C, D
  <1>3. n + D <= bound + 1 BY <1>1, <1>2
  <1> QED BY <1>3 DEF D

CountersTyped ==
  /\ users \in Seq(User) /\ codes \in Seq(Code)
  /\ clock \in Nat /\ redeemed \in Nat /\ started \in Nat

LEMMA Lengths ==
  ASSUME CountersTyped
  PROVE  /\ Len(users) \in Nat /\ Len(codes) \in Nat
         /\ Len(StartUsers) + started \in Int /\ Len(StartCodes) + started \in Int
         /\ started \in Int /\ MaxRedemptions \in Nat
         /\ Cardinality(Workers) \in Nat
         /\ MaxRedemptions + Cardinality(Workers) - 1 \in Int
  <1>1. Cardinality(Workers) \in Nat BY AccountAssumptions, FS_CardinalityType
  <1>2. Len(StartUsers) \in Nat /\ Len(StartCodes) \in Nat BY StartAccountsAssumption
  <1> QED BY <1>1, <1>2, MaxRedemptionsAssumption DEF CountersTyped

LEMMA CountsKeep ==
  ASSUME CountsFit, CountersTyped, CountersTyped', started' = started,
         NEW w \in Workers, \A v \in Workers : v # w => req'[v] = req[v],
         Makes(w, ToUser, Len(users)), Makes(w, ToCode, Len(codes)),
         Makes(w, ToBegin, clock), Makes(w, ToRedeem, redeemed)
  PROVE  CountsFit'
  <1>1. /\ Len(users) \in Nat /\ Len(codes) \in Nat
        /\ Len(StartUsers) + started \in Int /\ Len(StartCodes) + started \in Int
        /\ started \in Int
        /\ MaxRedemptions + Cardinality(Workers) - 1 \in Int
        /\ clock \in Nat /\ redeemed \in Nat
    BY Lengths DEF CountersTyped
  <1>2. Len(users') \in Nat /\ Len(codes') \in Nat /\ clock' \in Nat /\ redeemed' \in Nat
    BY DEF CountersTyped
  <1>3. Len(users') + Count(ToUser)' <= Len(StartUsers) + started
    BY <1>1, <1>2, MakesFits DEF CountsFit, Makes
  <1>4. Len(codes') + Count(ToCode)' <= Len(StartCodes) + started
    BY <1>1, <1>2, MakesFits DEF CountsFit, Makes
  <1>5. clock' + Count(ToBegin)' <= Len(StartCodes) + started
    BY <1>1, <1>2, MakesFits DEF CountsFit, Makes
  <1>6. redeemed' + Count(ToRedeem)' <= started
    BY <1>1, <1>2, MakesFits DEF CountsFit, Makes
  <1>7. MaxRedemptions > 0 =>
          redeemed' + Count(ToRedeem)' <= MaxRedemptions + Cardinality(Workers) - 1
    BY <1>1, <1>2, MakesFits DEF CountsFit, Makes
  <1> QED BY <1>3, <1>4, <1>5, <1>6, <1>7 DEF CountsFit

\* A request is accepted: one more of every kind may come of it.
LEMMA CountsAccept ==
  ASSUME CountsFit, CountersTyped, NEW w \in Workers, req[w].at = "free",
         \A v \in Workers : v # w => req'[v] = req[v],
         started' = started + 1, users' = users, codes' = codes, clock' = clock,
         redeemed' = redeemed,
         req'[w].at = "redeem" => Admits(redeemed)
  PROVE  CountsFit'
  <1>1. /\ Len(users) \in Nat /\ Len(codes) \in Nat
        /\ Len(StartUsers) + started \in Int /\ Len(StartCodes) + started \in Int
        /\ started \in Int /\ MaxRedemptions \in Nat /\ Cardinality(Workers) \in Nat
        /\ MaxRedemptions + Cardinality(Workers) - 1 \in Int
        /\ clock \in Nat /\ redeemed \in Nat
    BY Lengths DEF CountersTyped
  <1>2. Len(StartUsers) \in Int /\ Len(StartCodes) \in Int BY StartAccountsAssumption
  <1>3. Len(users) + Count(ToUser)' <= Len(StartUsers) + started + 1
    BY <1>1, AcceptFits DEF CountsFit
  <1>4. Len(codes) + Count(ToCode)' <= Len(StartCodes) + started + 1
    BY <1>1, AcceptFits DEF CountsFit
  <1>5. clock + Count(ToBegin)' <= Len(StartCodes) + started + 1
    BY <1>1, AcceptFits DEF CountsFit
  <1>6. redeemed + Count(ToRedeem)' <= started + 1
    BY <1>1, AcceptFits DEF CountsFit
  <1>7. MaxRedemptions > 0 =>
          redeemed + Count(ToRedeem)' <= MaxRedemptions + Cardinality(Workers) - 1
    <2> SUFFICES ASSUME MaxRedemptions > 0
                 PROVE  redeemed + Count(ToRedeem)' <= MaxRedemptions + Cardinality(Workers) - 1
      OBVIOUS
    <2>1. CASE req'[w].at # "redeem"
      BY <1>1, <2>1, MakesFits DEF CountsFit, ToRedeem
    <2>2. CASE req'[w].at = "redeem"
      <3>1. redeemed < MaxRedemptions BY <2>2 DEF Admits
      <3>2. Count(ToRedeem)' \in Nat /\ Count(ToRedeem)' <= Cardinality(Workers) BY CountSteps
      <3> DEFINE D == Count(ToRedeem)'
                 K == Cardinality(Workers)
      <3>3. D \in Nat /\ D <= K /\ K \in Nat BY <1>1, <3>2
      <3> HIDE DEF D, K
      <3>4. redeemed + D <= MaxRedemptions + K - 1 BY <1>1, <3>1, <3>3
      <3> QED BY <3>4 DEF D, K
    <2> QED BY <2>1, <2>2
  <1>8. Len(StartUsers) + started + 1 = Len(StartUsers) + (started + 1) BY <1>1, <1>2
  <1>9. Len(StartCodes) + started + 1 = Len(StartCodes) + (started + 1) BY <1>1, <1>2
  <1> QED BY <1>3, <1>4, <1>5, <1>6, <1>7, <1>8, <1>9 DEF CountsFit

LEMMA CountedOnce ==
  ASSUME NEW w \in Workers, NEW steps, req[w].at \in steps
  PROVE  Count(steps) \in Nat /\ Count(steps) >= 1
  <1> DEFINE A == {v \in Workers : req[v].at \in steps}
  <1>1. A \in SUBSET Workers /\ w \in A OBVIOUS
  <1> HIDE DEF A
  <1>2. IsFiniteSet(A) BY <1>1, AccountAssumptions, FS_Subset
  <1>3. Cardinality(A) \in Nat BY <1>2, FS_CardinalityType
  <1>4. Cardinality(A) # 0 BY <1>1, <1>2, FS_EmptySet
  <1>5. Cardinality(A) >= 1 BY <1>3, <1>4
  <1> QED BY <1>3, <1>5 DEF Count, A

LEMMA CountTyped ==
  ASSUME NEW steps
  PROVE  Count(steps) \in Nat
  <1> DEFINE A == {v \in Workers : req[v].at \in steps}
  <1>1. A \in SUBSET Workers OBVIOUS
  <1> HIDE DEF A
  <1>2. IsFiniteSet(A) BY <1>1, AccountAssumptions, FS_Subset
  <1>3. Cardinality(A) \in Nat BY <1>2, FS_CardinalityType
  <1> QED BY <1>3 DEF Count, A

\* Room for what a request may still make.
LEMMA Room ==
  ASSUME EngagementTypeOK, CountsFit
  PROVE  /\ CountersTyped /\ started \in Nat /\ started <= MaxRequests
         /\ DOMAIN users \subseteq UserIds /\ DOMAIN codes \subseteq CodeIds
         /\ \A w \in Workers :
              /\ req[w].at \in ToUser => Len(users) + 1 \in UserIds
              /\ req[w].at \in ToCode => Len(codes) + 1 \in CodeIds
              /\ req[w].at \in ToBegin => clock + 1 \in CodeIds
              /\ req[w].at \in ToRedeem => redeemed + 1 \in 0 .. MaxRequests
  <1>1. /\ started \in Nat /\ started <= MaxRequests /\ MaxRequests \in Nat
        /\ clock \in Nat /\ redeemed \in Nat
        /\ Len(users) \in Nat /\ Len(codes) \in Nat
        /\ Len(StartUsers) \in Nat /\ Len(StartCodes) \in Nat
    BY AccountAssumptions, StartAccountsAssumption DEF EngagementTypeOK, AccountsTypeOK
  <1>2. CountersTyped BY <1>1 DEF CountersTyped, EngagementTypeOK, AccountsTypeOK
  <1>3. DOMAIN users \subseteq UserIds
    <2>1. Count(ToUser) \in Nat BY CountTyped
    <2>2. Len(users) + Count(ToUser) <= Len(StartUsers) + started BY DEF CountsFit
    <2> DEFINE n == Count(ToUser)
    <2> HIDE DEF n
    <2>3. Len(users) <= Len(StartUsers) + MaxRequests BY <1>1, <2>1, <2>2 DEF n
    <2>4. DOMAIN users = 1 .. Len(users) BY DEF EngagementTypeOK, AccountsTypeOK
    <2> QED BY <1>1, <2>3, <2>4 DEF UserIds
  <1>4. DOMAIN codes \subseteq CodeIds
    <2>1. Count(ToCode) \in Nat BY CountTyped
    <2>2. Len(codes) + Count(ToCode) <= Len(StartCodes) + started BY DEF CountsFit
    <2>3. Len(codes) <= Len(StartCodes) + MaxRequests BY <1>1, <2>1, <2>2
    <2>4. DOMAIN codes = 1 .. Len(codes) BY DEF EngagementTypeOK, AccountsTypeOK
    <2> QED BY <1>1, <2>3, <2>4 DEF CodeIds
  <1>5. ASSUME NEW w \in Workers
        PROVE  /\ req[w].at \in ToUser => Len(users) + 1 \in UserIds
               /\ req[w].at \in ToCode => Len(codes) + 1 \in CodeIds
               /\ req[w].at \in ToBegin => clock + 1 \in CodeIds
               /\ req[w].at \in ToRedeem => redeemed + 1 \in 0 .. MaxRequests
    <2>1. ASSUME req[w].at \in ToUser PROVE Len(users) + 1 \in UserIds
      <3>1. Count(ToUser) \in Nat /\ Count(ToUser) >= 1 BY <2>1, CountedOnce
      <3>2. Len(users) + Count(ToUser) <= Len(StartUsers) + started BY DEF CountsFit
      <3> QED BY <1>1, <3>1, <3>2 DEF UserIds
    <2>2. ASSUME req[w].at \in ToCode PROVE Len(codes) + 1 \in CodeIds
      <3>1. Count(ToCode) \in Nat /\ Count(ToCode) >= 1 BY <2>2, CountedOnce
      <3>2. Len(codes) + Count(ToCode) <= Len(StartCodes) + started BY DEF CountsFit
      <3> QED BY <1>1, <3>1, <3>2 DEF CodeIds
    <2>3. ASSUME req[w].at \in ToBegin PROVE clock + 1 \in CodeIds
      <3>1. Count(ToBegin) \in Nat /\ Count(ToBegin) >= 1 BY <2>3, CountedOnce
      <3>2. clock + Count(ToBegin) <= Len(StartCodes) + started BY DEF CountsFit
      <3> QED BY <1>1, <3>1, <3>2 DEF CodeIds
    <2>4. ASSUME req[w].at \in ToRedeem PROVE redeemed + 1 \in 0 .. MaxRequests
      <3>1. Count(ToRedeem) \in Nat /\ Count(ToRedeem) >= 1 BY <2>4, CountedOnce
      <3>2. redeemed + Count(ToRedeem) <= started BY DEF CountsFit
      <3> QED BY <1>1, <3>1, <3>2
    <2> QED BY <2>1, <2>2, <2>3, <2>4
  <1> QED BY <1>1, <1>2, <1>3, <1>4, <1>5

-----------------------------------------------------------------------------
(* Steps that leave the tables alone.                                       *)

SameTables ==
  /\ users' = users /\ codes' = codes /\ sessions' = sessions /\ clock' = clock
  /\ likes' = likes /\ comments' = comments /\ owner' = owner /\ redeemed' = redeemed

Fits(w) == IssueFits(w) /\ VerifyFits(w) /\ MergeFits(w) /\ EngageFits(w)

LEMMA FreeType == Free \in Request /\ Free.at = "free"
  BY DEF Free, Request, Steps

LEMMA FreeFits ==
  ASSUME NEW w, req'[w].at \in {"free", "redeem", "lock", "log"}
  PROVE  Fits(w)'
  BY DEF Fits, IssueFits, VerifyFits, MergeFits, EngageFits, Verifying, Merging, MergeSteps

LEMMA OthersStill ==
  ASSUME SameTables, NEW v \in Workers, req'[v] = req[v], Fits(v)
  PROVE  Fits(v)'
  <1>1. IssueFits(v)' BY DEF Fits, SameTables, IssueFits, Registered, Unused
  <1>2. VerifyFits(v)' BY DEF Fits, SameTables, VerifyFits, Registered, NameOpen, IsGuest
  <1>3. MergeFits(v)' BY DEF Fits, SameTables, MergeFits, Registered, IsGuest, LikedBy
  <1>4. EngageFits(v)' BY DEF Fits, SameTables, EngageFits
  <1> QED BY <1>1, <1>2, <1>3, <1>4 DEF Fits

\* The guest a thread is about to merge is its own already or nobody's.
LEMMA ApartStill ==
  ASSUME RequestsTyped, MergesApart, NEW w \in Workers, NEW r, req' = [req EXCEPT ![w] = r],
         r.at \in MergeSteps =>
           \/ req[w].at \in MergeSteps /\ r.guest = req[w].guest
           \/ ~UserHeld(r.guest)
  PROVE  MergesApart'
  BY DEF RequestsTyped, MergesApart, UserHeld, MergeHasUser

LEMMA TablesStill ==
  ASSUME IInv, SameTables, started' \in 0 .. MaxRequests, CountsFit',
         NEW w \in Workers, NEW r \in Request, req' = [req EXCEPT ![w] = r],
         r.at \in MergeSteps =>
           \/ req[w].at \in MergeSteps /\ r.guest = req[w].guest
           \/ ~UserHeld(r.guest),
         Fits(w)'
  PROVE  IInv'
  <1>1. EngagementTypeOK' BY DEF IInv, SameTables, EngagementTypeOK, AccountsTypeOK
  <1>2. RequestsTyped' BY DEF IInv, RequestsTyped
  <1>3. \A v \in Workers : v # w => req'[v] = req[v] BY DEF IInv, RequestsTyped
  <1>4. ThreadsFit'
    <2> SUFFICES ASSUME NEW v \in Workers PROVE Fits(v)' BY DEF ThreadsFit, Fits
    <2>1. Fits(v) BY DEF IInv, ThreadsFit, Fits
    <2> QED BY <1>3, <2>1, OthersStill
  <1>5. RowsKnown' BY DEF IInv, SameTables, RowsKnown, Registered
  <1>6. Raced' BY DEF IInv, SameTables, Raced, CodesRaced, SessionsRaced, NamesRaced
  <1>7. MergesApart' BY ApartStill DEF IInv
  <1> QED BY <1>1, <1>2, <1>4, <1>5, <1>6, <1>7 DEF IInv

\* A step of a request that is under way.
LEMMA StillStep ==
  ASSUME IInv, SameTables, started' = started,
         NEW w \in Workers, NEW r \in Request, req' = [req EXCEPT ![w] = r],
         r.at \in ToCode \cup ToUser \cup ToRedeem => FALSE,
         r.at \in MergeSteps =>
           \/ req[w].at \in MergeSteps /\ r.guest = req[w].guest
           \/ ~UserHeld(r.guest),
         Fits(w)'
  PROVE  IInv'
  <1>1. CountersTyped /\ started \in 0 .. MaxRequests
    BY Room DEF IInv, EngagementTypeOK, AccountsTypeOK
  <1>2. CountersTyped' BY <1>1 DEF CountersTyped, SameTables
  <1>3. \A v \in Workers : v # w => req'[v] = req[v] BY DEF IInv, RequestsTyped
  <1>4. req'[w] = r BY DEF IInv, RequestsTyped
  <1>5. /\ Makes(w, ToUser, Len(users)) /\ Makes(w, ToCode, Len(codes))
        /\ Makes(w, ToBegin, clock) /\ Makes(w, ToRedeem, redeemed)
    BY <1>4 DEF Makes, SameTables, ToUser, ToCode, ToBegin, ToRedeem
  <1>6. CountsFit' BY <1>1, <1>2, <1>3, <1>5, CountsKeep DEF IInv
  <1> QED BY <1>1, <1>6, TablesStill

\* A request is accepted.
LEMMA AcceptStep ==
  ASSUME IInv, SameTables, NEW w \in Workers, NEW kind, NEW r \in Request, Accept(w, kind, r),
         r.at \notin MergeSteps,
         r.at = "redeem" => Admits(redeemed),
         Fits(w)'
  PROVE  IInv'
  <1>1. /\ req[w].at = "free" /\ started < MaxRequests /\ started' = started + 1
        /\ req' = [req EXCEPT ![w] = r]
    BY DEF Accept, At
  <1>2. CountersTyped /\ started \in Nat BY Room DEF IInv
  <1>3. \A v \in Workers : v # w => req'[v] = req[v] BY <1>1 DEF IInv, RequestsTyped
  <1>4. req'[w] = r BY <1>1 DEF IInv, RequestsTyped
  <1>5. CountsFit' BY <1>1, <1>2, <1>3, <1>4, CountsAccept DEF IInv, SameTables
  <1>6. started' \in 0 .. MaxRequests BY <1>1, <1>2, AccountAssumptions
  <1> QED BY <1>1, <1>5, <1>6, TablesStill

LEMMA AcceptedIs ==
  ASSUME IInv, NEW w \in Workers, NEW kind, NEW r, Accept(w, kind, r)
  PROVE  req'[w] = r
  BY DEF Accept, IInv, RequestsTyped

LEMMA RowIds ==
  ASSUME IInv
  PROVE  /\ users \in Seq(User) /\ codes \in Seq(Code)
         /\ DOMAIN users \subseteq UserIds /\ DOMAIN codes \subseteq CodeIds
         /\ \A u \in DOMAIN users : users[u] \in User /\ u # None
         /\ \A c \in DOMAIN codes : codes[c] \in Code /\ Registered(codes[c].user)
         /\ \A c \in DOMAIN comments : c \in Nat /\ comments[c] \in Comment
         /\ \A w \in Workers : req[w] \in Request /\ Fits(w)
  <1>1. users \in Seq(User) /\ codes \in Seq(Code) /\ comments \in Seq(Comment)
    BY DEF IInv, EngagementTypeOK, AccountsTypeOK
  <1>2. DOMAIN users \subseteq UserIds /\ DOMAIN codes \subseteq CodeIds BY Room DEF IInv
  <1>3. \A u \in DOMAIN users : users[u] \in User /\ u # None
    BY <1>1, AccountAssumptions
  <1>4. \A c \in DOMAIN codes : codes[c] \in Code /\ Registered(codes[c].user)
    BY <1>1 DEF IInv, RowsKnown
  <1>5. \A c \in DOMAIN comments : c \in Nat /\ comments[c] \in Comment BY <1>1
  <1>6. \A w \in Workers : req[w] \in Request /\ Fits(w)
    BY DEF IInv, RequestsTyped, ThreadsFit, Fits
  <1> QED BY <1>1, <1>2, <1>3, <1>4, <1>5, <1>6

LEMMA RequestCodeStep ==
  ASSUME IInv, NEW w \in Workers, RequestCode(w), UNCHANGED <<rows, redeemed>>
  PROVE  IInv'
  <1>1. SameTables BY DEF RequestCode, tables, rows, SameTables
  <1>2. PICK e \in Emails :
          IF ByEmail(e) = {}
          THEN Accept(w, "code", [Free EXCEPT !.at = "create", !.email = e])
          ELSE \E u \in ByEmail(e) :
                 Accept(w, "code", [Free EXCEPT !.at = "issue", !.user = u])
    BY DEF RequestCode
  <1>3. CASE Accept(w, "code", [Free EXCEPT !.at = "create", !.email = e])
    <2> DEFINE r == [Free EXCEPT !.at = "create", !.email = e]
    <2>1. r \in Request /\ r.at = "create" /\ r.email = e BY DEF Free, Request, Steps
    <2>2. Accept(w, "code", r) BY <1>3
    <2> HIDE DEF r
    <2>3. req'[w] = r BY <2>2, AcceptedIs
    <2>4. Fits(w)' BY <2>1, <2>3
      DEF Fits, IssueFits, VerifyFits, MergeFits, EngageFits, Verifying, Merging, MergeSteps
    <2> QED BY <1>1, <2>1, <2>2, <2>4, AcceptStep DEF MergeSteps
  <1>4. ASSUME NEW u \in ByEmail(e), Accept(w, "code", [Free EXCEPT !.at = "issue", !.user = u])
        PROVE  IInv'
    <2> DEFINE r == [Free EXCEPT !.at = "issue", !.user = u]
    <2>1. u \in DOMAIN users /\ users[u].email # None BY AccountAssumptions DEF ByEmail
    <2>2. u \in UserIds BY <2>1, RowIds
    <2>3. r \in Request /\ r.at = "issue" /\ r.user = u BY <2>2 DEF Free, Request, Steps
    <2>4. Accept(w, "code", r) BY <1>4
    <2> HIDE DEF r
    <2>5. req'[w] = r BY <2>4, AcceptedIs
    <2>6. Fits(w)' BY <1>1, <2>1, <2>3, <2>5
      DEF Fits, IssueFits, VerifyFits, MergeFits, EngageFits, Verifying, Merging, MergeSteps,
          Registered, SameTables
    <2> QED BY <1>1, <2>3, <2>4, <2>6, AcceptStep DEF MergeSteps
  <1> QED BY <1>2, <1>3, <1>4

LEMMA VerifyStep ==
  ASSUME IInv, NEW w \in Workers, Verify(w), UNCHANGED <<rows, redeemed>>
  PROVE  IInv'
  <1>1. PICK c \in DOMAIN codes, n \in Names \cup {None},
             g \in {u \in DOMAIN users : IsGuest(u)} \cup {None} :
          /\ Accept(w, "verify",
               [Free EXCEPT !.at = "check", !.user = codes[c].user, !.code = c,
                            !.verified = users[codes[c].user].verified, !.name = n, !.guest = g])
          /\ UNCHANGED tables
    BY DEF Verify
  <1> DEFINE u == codes[c].user
             r == [Free EXCEPT !.at = "check", !.user = u, !.code = c,
                               !.verified = users[u].verified, !.name = n, !.guest = g]
  <1>2. SameTables BY <1>1 DEF tables, rows, SameTables
  <1>3. /\ c \in CodeIds /\ Registered(u) /\ u \in UserIds /\ users[u].verified \in BOOLEAN
        /\ g \in UserIds \cup {None}
    BY RowIds DEF Registered, User
  <1>4. /\ r \in Request /\ r.at = "check" /\ r.user = u /\ r.code = c /\ r.guest = g
    BY <1>3 DEF Free, Request, Steps
  <1>5. Accept(w, "verify", r) BY <1>1
  <1> HIDE DEF r, u
  <1>6. req'[w] = r BY <1>5, AcceptedIs
  <1>7. g # None => g \in DOMAIN users /\ IsGuest(g) OBVIOUS
  <1>8. VerifyFits(w)' BY <1>2, <1>3, <1>4, <1>6, <1>7
    DEF VerifyFits, Verifying, Registered, IsGuest, SameTables
  <1>9. Fits(w)' BY <1>4, <1>6, <1>8
    DEF Fits, IssueFits, MergeFits, EngageFits, Merging, MergeSteps
  <1> QED BY <1>2, <1>4, <1>5, <1>9, AcceptStep DEF MergeSteps

LEMMA GuestStep ==
  ASSUME IInv, NEW w \in Workers, Guest(w), UNCHANGED <<rows, redeemed>>
  PROVE  IInv'
  <1>1. PICK n \in GuestNames :
          /\ ~Taken(n) /\ Accept(w, "guest", [Free EXCEPT !.at = "insert", !.name = n])
          /\ UNCHANGED tables
    BY DEF Guest
  <1> DEFINE r == [Free EXCEPT !.at = "insert", !.name = n]
  <1>2. SameTables BY <1>1 DEF tables, rows, SameTables
  <1>3. r \in Request /\ r.at = "insert" /\ r.name = n BY DEF Free, Request, Steps
  <1>4. Accept(w, "guest", r) BY <1>1
  <1> HIDE DEF r
  <1>5. req'[w] = r BY <1>4, AcceptedIs
  <1>6. n # None BY AccountAssumptions
  <1>7. VerifyFits(w)' BY <1>1, <1>2, <1>3, <1>5, <1>6
    DEF VerifyFits, Verifying, NameOpen, Taken, SameTables
  <1>8. Fits(w)' BY <1>3, <1>5, <1>7
    DEF Fits, IssueFits, MergeFits, EngageFits, Merging, MergeSteps
  <1> QED BY <1>2, <1>3, <1>4, <1>8, AcceptStep DEF MergeSteps

LEMMA SignInOperatorStep ==
  ASSUME IInv, NEW w \in Workers, SignInOperator(w), UNCHANGED <<rows, redeemed>>
  PROVE  IInv'
  <1>1. PICK e \in Operators, n \in Names :
          /\ ~Taken(n)
          /\ Accept(w, "operator", [Free EXCEPT !.at = "insert", !.email = e, !.name = n])
          /\ UNCHANGED tables
    BY DEF SignInOperator
  <1> DEFINE r == [Free EXCEPT !.at = "insert", !.email = e, !.name = n]
  <1>2. SameTables BY <1>1 DEF tables, rows, SameTables
  <1>3. e \in Emails BY AccountAssumptions
  <1>4. r \in Request /\ r.at = "insert" /\ r.name = n BY <1>3 DEF Free, Request, Steps
  <1>5. Accept(w, "operator", r) BY <1>1
  <1> HIDE DEF r
  <1>6. req'[w] = r BY <1>5, AcceptedIs
  <1>7. n # None BY AccountAssumptions
  <1>8. VerifyFits(w)' BY <1>1, <1>2, <1>4, <1>6, <1>7
    DEF VerifyFits, Verifying, NameOpen, Taken, SameTables
  <1>9. Fits(w)' BY <1>4, <1>6, <1>8
    DEF Fits, IssueFits, MergeFits, EngageFits, Merging, MergeSteps
  <1> QED BY <1>2, <1>4, <1>5, <1>9, AcceptStep DEF MergeSteps

LEMMA EngageStep ==
  ASSUME IInv, NEW w \in Workers, Engage(w)
  PROVE  IInv'
  <1>1. PICK u \in Identities, p \in Proposals, step \in {"like", "unlike", "comment"} :
          /\ Accept(w, step, [Free EXCEPT !.at = step, !.user = u, !.item = p])
          /\ UNCHANGED <<tables, rows, redeemed>>
    BY DEF Engage
  <1> DEFINE r == [Free EXCEPT !.at = step, !.user = u, !.item = p]
  <1>2. SameTables BY <1>1 DEF tables, rows, SameTables
  <1>3. u \in DOMAIN users /\ u \in UserIds BY RowIds DEF Identities
  <1>4. r \in Request /\ r.at = step /\ r.user = u /\ r.item = p
    BY <1>3 DEF Free, Request, Steps
  <1>5. Accept(w, step, r) BY <1>1
  <1> HIDE DEF r
  <1>6. req'[w] = r BY <1>5, AcceptedIs
  <1>7. EngageFits(w)' BY <1>2, <1>3, <1>4, <1>6 DEF EngageFits, SameTables
  <1>8. Fits(w)' BY <1>4, <1>6, <1>7
    DEF Fits, IssueFits, VerifyFits, MergeFits, Merging, MergeSteps, Verifying
  <1> QED BY <1>2, <1>4, <1>5, <1>8, AcceptStep DEF MergeSteps

LEMMA ChangeStep ==
  ASSUME IInv, NEW w \in Workers, Change(w)
  PROVE  IInv'
  <1>1. PICK u \in Identities, c \in DOMAIN comments, step \in {"may edit", "may delete"} :
          /\ Accept(w, "change", [Free EXCEPT !.at = step, !.user = u, !.item = c])
          /\ UNCHANGED <<tables, rows, redeemed>>
    BY DEF Change
  <1> DEFINE r == [Free EXCEPT !.at = step, !.user = u, !.item = c]
  <1>2. SameTables BY <1>1 DEF tables, rows, SameTables
  <1>3. u \in DOMAIN users /\ u \in UserIds /\ c \in Nat BY RowIds DEF Identities
  <1>4. r \in Request /\ r.at = step /\ r.user = u /\ r.item = c
    BY <1>3 DEF Free, Request, Steps
  <1>5. Accept(w, "change", r) BY <1>1
  <1> HIDE DEF r
  <1>6. req'[w] = r BY <1>5, AcceptedIs
  <1>7. EngageFits(w)' BY <1>2, <1>3, <1>4, <1>6 DEF EngageFits, SameTables
  <1>8. Fits(w)' BY <1>4, <1>6, <1>7
    DEF Fits, IssueFits, VerifyFits, MergeFits, Merging, MergeSteps, Verifying
  <1> QED BY <1>2, <1>4, <1>5, <1>8, AcceptStep DEF MergeSteps

LEMMA OverwriteStep ==
  ASSUME IInv, NEW w \in Workers, Overwrite(w)
  PROVE  IInv'
  <1>1. PICK u \in Identities, p \in Proposals :
          /\ Accept(w, "overwrite", [Free EXCEPT !.at = "lock", !.user = u, !.item = p])
          /\ UNCHANGED <<tables, rows, redeemed>>
    BY DEF Overwrite
  <1> DEFINE r == [Free EXCEPT !.at = "lock", !.user = u, !.item = p]
  <1>2. SameTables BY <1>1 DEF tables, rows, SameTables
  <1>3. u \in UserIds BY RowIds DEF Identities
  <1>4. r \in Request /\ r.at = "lock" BY <1>3 DEF Free, Request, Steps
  <1>5. Accept(w, "overwrite", r) BY <1>1
  <1> HIDE DEF r
  <1>6. req'[w] = r BY <1>5, AcceptedIs
  <1> QED BY <1>2, <1>4, <1>5, <1>6, FreeFits, AcceptStep DEF MergeSteps

LEMMA RedeemStep ==
  ASSUME IInv, NEW w \in Workers, Redeem(w)
  PROVE  IInv'
  <1> DEFINE r == [Free EXCEPT !.at = "redeem"]
  <1>1. SameTables BY DEF Redeem, tables, rows, SameTables
  <1>2. r \in Request /\ r.at = "redeem" BY DEF Free, Request, Steps
  <1>3. Accept(w, "redeem", r) /\ Admits(redeemed) BY DEF Redeem
  <1> HIDE DEF r
  <1>4. req'[w] = r BY <1>3, AcceptedIs
  <1> QED BY <1>1, <1>2, <1>3, <1>4, FreeFits, AcceptStep DEF MergeSteps

LEMMA EndStep ==
  ASSUME IInv, SameTables, started' = started, NEW w \in Workers, End(w)
  PROVE  IInv'
  <1>1. req' = [req EXCEPT ![w] = Free] BY DEF End
  <1>2. req'[w] = Free BY <1>1 DEF IInv, RequestsTyped
  <1>3. Fits(w)' BY <1>2, FreeType, FreeFits
  <1> QED BY <1>1, <1>3, FreeType, StillStep DEF MergeSteps, ToCode, ToUser, ToRedeem

\* What Go(w, step) leaves of the request.
LEMMA Gone ==
  ASSUME IInv, NEW w \in Workers, NEW step \in Steps, Go(w, step)
  PROVE  LET r == [req[w] EXCEPT !.at = step]
         IN  /\ req' = [req EXCEPT ![w] = r] /\ req'[w] = r /\ r \in Request
             /\ r.at = step /\ r.user = req[w].user /\ r.code = req[w].code
             /\ r.guest = req[w].guest /\ r.name = req[w].name /\ r.item = req[w].item
             /\ r.seen = req[w].seen /\ r.held = req[w].held
  <1>1. req[w] \in Request /\ req \in [Workers -> Request] BY DEF IInv, RequestsTyped
  <1>2. req' = [req EXCEPT ![w] = [req[w] EXCEPT !.at = step]] BY DEF Go
  <1> QED BY <1>1, <1>2 DEF Request

LEMMA GoStep ==
  ASSUME IInv, SameTables, started' = started, NEW w \in Workers, NEW step \in Steps, Go(w, step),
         step \notin ToCode \cup ToUser \cup ToRedeem,
         step \in MergeSteps => req[w].at \in MergeSteps \/ ~UserHeld(req[w].guest),
         Fits(w)'
  PROVE  IInv'
  <1> DEFINE r == [req[w] EXCEPT !.at = step]
  <1>1. /\ req' = [req EXCEPT ![w] = r] /\ r \in Request
        /\ r.at = step /\ r.guest = req[w].guest
    BY Gone
  <1> HIDE DEF r
  <1> QED BY <1>1, StillStep

LEMMA CheckCodeStep ==
  ASSUME IInv, NEW w \in Workers, CheckCode(w), UNCHANGED <<rows, redeemed>>
  PROVE  IInv'
  <1>1. SameTables /\ started' = started BY DEF CheckCode, tables, rows, SameTables
  <1>2. req[w].at = "check" BY DEF CheckCode, At
  <1>3. CASE End(w) BY <1>1, <1>3, EndStep
  <1>4. ASSUME Accepted(req[w].user, req[w].code), NEW step \in {"name", "consume"},
               Go(w, step), step = "name" => req[w].name # None
        PROVE  IInv'
    <2> DEFINE r == [req[w] EXCEPT !.at = step]
    <2>1. step \in Steps BY DEF Steps
    <2>2. /\ req'[w] = r /\ r.at = step /\ r.user = req[w].user /\ r.code = req[w].code
          /\ r.guest = req[w].guest /\ r.name = req[w].name
      BY <1>4, <2>1, Gone
    <2> HIDE DEF r
    <2>3. VerifyFits(w) /\ req[w].name \in Names \cup GuestNames \cup {None}
      BY RowIds DEF Fits, Request
    <2>4. /\ req[w].code \in DOMAIN codes /\ ~codes[req[w].code].used
      BY <1>4 DEF Accepted, LatestValid, Live, Unused
    <2>5. \A i \in DOMAIN sessions : sessions[i].code # req[w].code
      BY <2>4 DEF IInv, RowsKnown
    <2>6. VerifyFits(w)'
      BY <1>1, <1>2, <1>4, <2>2, <2>3, <2>5
      DEF VerifyFits, Verifying, SameTables, Registered, IsGuest
    <2>7. Fits(w)' BY <2>2, <2>6
      DEF Fits, IssueFits, MergeFits, EngageFits, Merging, MergeSteps
    <2> QED BY <1>1, <1>4, <2>1, <2>7, GoStep DEF ToCode, ToUser, ToRedeem, MergeSteps
  <1> QED BY <1>3, <1>4 DEF CheckCode

LEMMA CheckNameStep ==
  ASSUME IInv, NEW w \in Workers, CheckName(w), UNCHANGED <<rows, redeemed>>
  PROVE  IInv'
  <1>1. SameTables /\ started' = started BY DEF CheckName, tables, rows, SameTables
  <1>2. req[w].at = "name" BY DEF CheckName, At
  <1>3. CASE End(w) BY <1>1, <1>3, EndStep
  <1>4. CASE ~Taken(req[w].name) /\ Go(w, "register")
    <2> DEFINE r == [req[w] EXCEPT !.at = "register"]
    <2>1. "register" \in Steps BY DEF Steps
    <2>2. /\ req'[w] = r /\ r.at = "register" /\ r.user = req[w].user /\ r.code = req[w].code
          /\ r.guest = req[w].guest /\ r.name = req[w].name
      BY <1>4, <2>1, Gone
    <2> HIDE DEF r
    <2>3. VerifyFits(w) BY RowIds DEF Fits
    <2>4. VerifyFits(w)'
      BY <1>1, <1>2, <1>4, <2>2, <2>3
      DEF VerifyFits, Verifying, SameTables, Registered, IsGuest, Taken, NameOpen
    <2>5. Fits(w)' BY <2>2, <2>4
      DEF Fits, IssueFits, MergeFits, EngageFits, Merging, MergeSteps
    <2> QED BY <1>1, <1>4, <2>1, <2>5, GoStep DEF ToCode, ToUser, ToRedeem, MergeSteps
  <1> QED BY <1>3, <1>4 DEF CheckName

LEMMA RegisterStep ==
  ASSUME IInv, NEW w \in Workers, Register(w), UNCHANGED <<rows, redeemed>>
  PROVE  IInv'
  <1>1. SameTables /\ started' = started BY DEF Register, tables, rows, SameTables
  <1>2. req[w].at = "register" BY DEF Register, At
  <1>3. CASE End(w) BY <1>1, <1>3, EndStep
  <1>4. CASE Go(w, "use")
    <2> DEFINE r == [req[w] EXCEPT !.at = "use"]
    <2>1. "use" \in Steps BY DEF Steps
    <2>2. /\ req'[w] = r /\ r.at = "use" /\ r.user = req[w].user /\ r.code = req[w].code
          /\ r.guest = req[w].guest /\ r.name = req[w].name
      BY <1>4, <2>1, Gone
    <2> HIDE DEF r
    <2>3. VerifyFits(w) BY RowIds DEF Fits
    <2>4. VerifyFits(w)'
      BY <1>1, <1>2, <2>2, <2>3 DEF VerifyFits, Verifying, SameTables, Registered, IsGuest, NameOpen
    <2>5. Fits(w)' BY <2>2, <2>4
      DEF Fits, IssueFits, MergeFits, EngageFits, Merging, MergeSteps
    <2> QED BY <1>1, <1>4, <2>1, <2>5, GoStep DEF ToCode, ToUser, ToRedeem, MergeSteps
  <1> QED BY <1>3, <1>4 DEF Register

LEMMA ConsumeStep ==
  ASSUME IInv, NEW w \in Workers, Consume(w), UNCHANGED <<rows, redeemed>>
  PROVE  IInv'
  <1>1. SameTables /\ started' = started BY DEF Consume, tables, rows, SameTables
  <1>2. req[w].at = "consume" BY DEF Consume, At
  <1>4. CASE Go(w, "confirm")
    <2> DEFINE r == [req[w] EXCEPT !.at = "confirm"]
    <2>1. "confirm" \in Steps BY DEF Steps
    <2>2. /\ req'[w] = r /\ r.at = "confirm" /\ r.user = req[w].user /\ r.code = req[w].code
          /\ r.guest = req[w].guest /\ r.name = req[w].name
      BY <1>4, <2>1, Gone
    <2> HIDE DEF r
    <2>3. VerifyFits(w) BY RowIds DEF Fits
    <2>4. VerifyFits(w)'
      BY <1>1, <1>2, <2>2, <2>3 DEF VerifyFits, Verifying, SameTables, Registered, IsGuest, NameOpen
    <2>5. Fits(w)' BY <2>2, <2>4
      DEF Fits, IssueFits, MergeFits, EngageFits, Merging, MergeSteps
    <2> QED BY <1>1, <1>4, <2>1, <2>5, GoStep DEF ToCode, ToUser, ToRedeem, MergeSteps
  <1> QED BY <1>4 DEF Consume

LEMMA MergeLockStep ==
  ASSUME IInv, NEW w \in Workers, MergeLock(w)
  PROVE  IInv'
  <1>1. SameTables /\ started' = started BY DEF MergeLock, tables, rows, SameTables
  <1>2. req[w].at = "merge" /\ ~UserHeld(req[w].guest) BY DEF MergeLock, At
  <1>3. CASE End(w) BY <1>1, <1>3, EndStep
  <1>4. CASE StillGuest(req[w].guest) /\ Go(w, "move")
    <2> DEFINE r == [req[w] EXCEPT !.at = "move"]
    <2>1. "move" \in Steps BY DEF Steps
    <2>2. /\ req'[w] = r /\ r.at = "move" /\ r.user = req[w].user /\ r.guest = req[w].guest
      BY <1>4, <2>1, Gone
    <2> HIDE DEF r
    <2>3. MergeFits(w) BY RowIds DEF Fits
    <2>4. MergeFits(w)'
      BY <1>1, <1>2, <1>4, <2>2, <2>3
      DEF MergeFits, Merging, MergeSteps, SameTables, Registered, IsGuest, StillGuest
    <2>5. Fits(w)' BY <2>2, <2>4 DEF Fits, IssueFits, VerifyFits, EngageFits, Verifying
    <2> QED BY <1>1, <1>2, <1>4, <2>1, <2>5, GoStep DEF ToCode, ToUser, ToRedeem
  <1> QED BY <1>3, <1>4 DEF MergeLock

LEMMA MoveProposalsStep ==
  ASSUME IInv, NEW w \in Workers, MoveProposals(w)
  PROVE  IInv'
  <1>1. SameTables /\ started' = started BY DEF MoveProposals, tables, rows, SameTables
  <1>2. req[w].at = "move" /\ Go(w, "drop") BY DEF MoveProposals, At
  <1> DEFINE r == [req[w] EXCEPT !.at = "drop"]
  <1>3. "drop" \in Steps BY DEF Steps
  <1>4. /\ req'[w] = r /\ r.at = "drop" /\ r.user = req[w].user /\ r.guest = req[w].guest
    BY <1>2, <1>3, Gone
  <1> HIDE DEF r
  <1>5. MergeFits(w) BY RowIds DEF Fits
  <1>6. MergeFits(w)'
    BY <1>1, <1>2, <1>4, <1>5 DEF MergeFits, Merging, MergeSteps, SameTables, Registered, IsGuest
  <1>7. Fits(w)' BY <1>4, <1>6 DEF Fits, IssueFits, VerifyFits, EngageFits, Verifying
  <1> QED BY <1>1, <1>2, <1>3, <1>7, GoStep DEF ToCode, ToUser, ToRedeem, MergeSteps

LEMMA DropLikesStep ==
  ASSUME IInv, NEW w \in Workers, DropLikes(w)
  PROVE  IInv'
  <1>1. SameTables /\ started' = started BY DEF DropLikes, tables, rows, SameTables
  <1> DEFINE both == LikedBy(req[w].guest) \cap LikedBy(req[w].user)
             r == [req[w] EXCEPT !.at = "relike", !.seen = both]
  <1>2. req[w].at = "drop" /\ req' = [req EXCEPT ![w] = r] BY DEF DropLikes, At
  <1>3. both \in SUBSET (CodeIds \cup Proposals) BY DEF LikedBy
  <1>4. req[w] \in Request /\ req \in [Workers -> Request] BY DEF IInv, RequestsTyped
  <1> HIDE DEF both
  <1>5. /\ r \in Request /\ r.at = "relike" /\ r.user = req[w].user /\ r.guest = req[w].guest
    <2>1. "relike" \in Steps BY DEF Steps
    <2>2. r \in Request BY <1>3, <1>4, <2>1 DEF Request
    <2>3. r.at = "relike" /\ r.user = req[w].user /\ r.guest = req[w].guest
      BY <1>4 DEF Request
    <2> QED BY <2>2, <2>3
  <1> HIDE DEF r
  <1>6. req'[w] = r BY <1>2, <1>4
  <1>7. MergeFits(w) BY RowIds DEF Fits
  <1>8. MergeFits(w)'
    BY <1>1, <1>2, <1>5, <1>6, <1>7
    DEF MergeFits, Merging, MergeSteps, SameTables, Registered, IsGuest
  <1>9. Fits(w)' BY <1>5, <1>6, <1>8 DEF Fits, IssueFits, VerifyFits, EngageFits, Verifying
  <1> QED BY <1>1, <1>2, <1>5, <1>9, StillStep DEF ToCode, ToUser, ToRedeem, MergeSteps

LEMMA MoveLikesStep ==
  ASSUME IInv, NEW w \in Workers, MoveLikes(w)
  PROVE  IInv'
  <1>1. SameTables /\ started' = started BY DEF MoveLikes, tables, rows, SameTables
  <1> DEFINE rest == LikedBy(req[w].guest) \ req[w].seen
             r == [req[w] EXCEPT !.at = "mark", !.held = rest]
  <1>2. req[w].at = "relike" /\ (End(w) \/ req' = [req EXCEPT ![w] = r])
    BY DEF MoveLikes, At
  <1>3. CASE End(w) BY <1>1, <1>3, EndStep
  <1>4. CASE req' = [req EXCEPT ![w] = r]
    <2>1. /\ rest \subseteq Proposals /\ rest \in SUBSET (CodeIds \cup Proposals)
          /\ LikedBy(req[w].guest) \subseteq req[w].seen \cup rest
      BY DEF LikedBy
    <2>2. req[w] \in Request /\ req \in [Workers -> Request] BY DEF IInv, RequestsTyped
    <2> HIDE DEF rest
    <2>3. /\ r \in Request /\ r.at = "mark" /\ r.user = req[w].user /\ r.guest = req[w].guest
          /\ r.seen = req[w].seen /\ r.held = rest
      <3>1. "mark" \in Steps BY DEF Steps
      <3>2. r \in Request BY <2>1, <2>2, <3>1 DEF Request
      <3>3. r.at = "mark" /\ r.user = req[w].user /\ r.guest = req[w].guest
        BY <2>2 DEF Request
      <3>4. r.seen = req[w].seen /\ r.held = rest BY <2>2 DEF Request
      <3> QED BY <3>2, <3>3, <3>4
    <2> HIDE DEF r
    <2>4. req'[w] = r BY <1>4, <2>2
    <2>5. MergeFits(w) BY RowIds DEF Fits
    <2>6. MergeFits(w)'
      BY <1>1, <1>2, <2>1, <2>3, <2>4, <2>5
      DEF MergeFits, Merging, MergeSteps, SameTables, Registered, IsGuest, LikedBy
    <2>7. Fits(w)' BY <2>3, <2>4, <2>6 DEF Fits, IssueFits, VerifyFits, EngageFits, Verifying
    <2> QED BY <1>1, <1>2, <1>4, <2>3, <2>7, StillStep DEF ToCode, ToUser, ToRedeem, MergeSteps
  <1> QED BY <1>2, <1>3, <1>4

LEMMA AuthorizeCommentStep ==
  ASSUME IInv, NEW w \in Workers, AuthorizeComment(w)
  PROVE  IInv'
  <1>1. SameTables /\ started' = started BY DEF AuthorizeComment, tables, rows, SameTables
  <1>2. req[w].at \in {"may edit", "may delete"} BY DEF AuthorizeComment
  <1>3. CASE End(w) BY <1>1, <1>3, EndStep
  <1>4. ASSUME MayChange(req[w].item, req[w].user), NEW step \in {"edit", "delete"}, Go(w, step)
        PROVE  IInv'
    <2> DEFINE r == [req[w] EXCEPT !.at = step]
    <2>1. step \in Steps BY DEF Steps
    <2>2. /\ req'[w] = r /\ r.at = step /\ r.user = req[w].user /\ r.item = req[w].item
      BY <1>4, <2>1, Gone
    <2> HIDE DEF r
    <2>3. EngageFits(w) BY RowIds DEF Fits
    <2>4. EngageFits(w)'
      BY <1>1, <1>2, <1>4, <2>2, <2>3 DEF EngageFits, SameTables, MayChange
    <2>5. Fits(w)' BY <2>2, <2>4
      DEF Fits, IssueFits, VerifyFits, MergeFits, Verifying, Merging, MergeSteps
    <2> QED BY <1>1, <1>4, <2>1, <2>5, GoStep DEF ToCode, ToUser, ToRedeem, MergeSteps
  <1>5. CASE MayChange(req[w].item, req[w].user)
    <2>1. Go(w, IF At(w, "may edit") THEN "edit" ELSE "delete") BY <1>5 DEF AuthorizeComment
    <2>2. (IF At(w, "may edit") THEN "edit" ELSE "delete") \in {"edit", "delete"} OBVIOUS
    <2> QED BY <1>4, <1>5, <2>1, <2>2
  <1>6. CASE ~MayChange(req[w].item, req[w].user) BY <1>3, <1>6 DEF AuthorizeComment
  <1> QED BY <1>5, <1>6

LEMMA LockForOverwriteStep ==
  ASSUME IInv, NEW w \in Workers, LockForOverwrite(w)
  PROVE  IInv'
  <1>1. SameTables /\ started' = started BY DEF LockForOverwrite, tables, rows, SameTables
  <1>2. CASE End(w) BY <1>1, <1>2, EndStep
  <1>3. CASE Go(w, "log")
    <2> DEFINE r == [req[w] EXCEPT !.at = "log"]
    <2>1. "log" \in Steps BY DEF Steps
    <2>2. req'[w] = r /\ r.at = "log" BY <1>3, <2>1, Gone
    <2> HIDE DEF r
    <2> QED BY <1>1, <1>3, <2>1, <2>2, FreeFits, GoStep DEF ToCode, ToUser, ToRedeem, MergeSteps
  <1> QED BY <1>2, <1>3 DEF LockForOverwrite

\* Requests that end and leave nothing: an answer, an error, a victim of a deadlock.
LEMMA EndingStep ==
  ASSUME IInv,
         \/ Deadlock
         \/ \E w \in Workers : WriteLog(w) \/ (Raises(w) /\ UNCHANGED <<rows, redeemed>>)
  PROVE  IInv'
  <1>1. SameTables /\ started' = started
    BY DEF Deadlock, WriteLog, Raises, tables, rows, SameTables
  <1>2. \E w \in Workers : End(w) BY DEF Deadlock, WriteLog, Raises
  <1> QED BY <1>1, <1>2, EndStep

-----------------------------------------------------------------------------
(* Steps that write the tables of the accounts.                             *)

\* What thread w may do to the rows the others know of.
AccountsGrow(w) ==
  /\ \A u \in DOMAIN users :
       /\ u \in DOMAIN users' /\ users'[u].email = users[u].email
       /\ users'[u].merged = users[u].merged
  /\ \A u \in DOMAIN users' :
       \/ users'[u].name = None \/ users'[u].by = w
       \/ /\ u \in DOMAIN users
          /\ users'[u].name = users[u].name /\ users'[u].by = users[u].by
  /\ \A c \in DOMAIN codes :
       /\ c \in DOMAIN codes' /\ codes'[c].user = codes[c].user /\ codes'[c].by = codes[c].by
       /\ codes[c].used => codes'[c].used
  /\ \A c \in DOMAIN codes' : codes'[c].by = w \/ c \in DOMAIN codes
  /\ \A i \in DOMAIN sessions' :
       sessions'[i].by = w \/ (i \in DOMAIN sessions /\ sessions'[i] = sessions[i])
  /\ likes' = likes /\ comments' = comments

LEMMA OthersGrow ==
  ASSUME NEW w, AccountsGrow(w), NEW v \in Workers, v # w, req'[v] = req[v], Fits(v)
  PROVE  Fits(v)'
  <1>1. \A u : Registered(u) => Registered(u)' BY DEF AccountsGrow, Registered
  <1>2. \A u \in DOMAIN users : u \in DOMAIN users' /\ (IsGuest(u) => users'[u].email = None)
    BY DEF AccountsGrow, IsGuest
  <1>3. IssueFits(v)'
    <2>1. \A c, u : c \in Unused(u)' /\ codes'[c].by = v => c \in Unused(u) /\ codes[c].by = v
      BY DEF AccountsGrow, Unused
    <2>2. IssueFits(v) BY DEF Fits
    <2> QED BY <1>1, <2>1, <2>2 DEF IssueFits, AccountsGrow
  <1>4. VerifyFits(v)'
    <2>1. \A n : NameOpen(n, v) => NameOpen(n, v)' BY DEF AccountsGrow, NameOpen
    <2>2. VerifyFits(v) BY DEF Fits
    <2> DEFINE r == req[v]
    <2>3. r.at \in Verifying =>
            /\ r.code \in DOMAIN codes'
            /\ Registered(r.user)'
            /\ r.guest # None => r.guest \in DOMAIN users' /\ users'[r.guest].email = None
      BY <1>1, <1>2, <2>2 DEF VerifyFits, AccountsGrow
    <2>4. r.at \in {"name", "register", "use", "consume", "confirm"} =>
            \A i \in DOMAIN sessions' : sessions'[i].code = r.code => sessions'[i].by # v
      BY <2>2 DEF VerifyFits, AccountsGrow
    <2>5. r.at \in {"register", "use", "insert"} => r.name # None /\ NameOpen(r.name, v)'
      BY <2>1, <2>2 DEF VerifyFits
    <2> QED BY <2>2, <2>3, <2>4, <2>5 DEF VerifyFits, Registered, IsGuest, NameOpen
  <1>5. MergeFits(v)'
    BY <1>1, <1>2 DEF Fits, MergeFits, AccountsGrow, LikedBy, IsGuest, Registered, Merging
  <1>6. EngageFits(v)'
    <2>1. EngageFits(v) BY DEF Fits
    <2>2. /\ \A u \in DOMAIN users : u \in DOMAIN users' /\ users'[u].merged = users[u].merged
          /\ comments' = comments
      BY DEF AccountsGrow
    <2> QED BY <2>1, <2>2 DEF EngageFits
  <1> QED BY <1>3, <1>4, <1>5, <1>6 DEF Fits

LEMMA RowsGrow ==
  ASSUME RowsKnown, NEW w, AccountsGrow(w),
         \A c \in DOMAIN codes' : c \in DOMAIN codes \/ Registered(codes'[c].user),
         \A i \in DOMAIN sessions' :
           \/ i \in DOMAIN sessions /\ sessions'[i] = sessions[i]
           \/ sessions'[i].code \in DOMAIN codes' /\ codes'[sessions'[i].code].used,
         \A u \in DOMAIN users' : u \in DOMAIN users \/ users'[u].merged = None
  PROVE  RowsKnown'
  <1> DEFINE Known(u) == u \in DOMAIN users' /\ users'[u].email # None
  <1>1. \A u : Registered(u) => Known(u) BY DEF AccountsGrow, Registered
  <1>2. \A c \in DOMAIN codes' : Known(codes'[c].user)
    <2> TAKE c \in DOMAIN codes'
    <2>1. CASE c \in DOMAIN codes BY <1>1, <2>1 DEF RowsKnown, AccountsGrow
    <2>2. CASE c \notin DOMAIN codes BY <1>1, <2>2
    <2> QED BY <2>1, <2>2
  <1>3. \A i \in DOMAIN sessions' :
          sessions'[i].code \in DOMAIN codes' /\ codes'[sessions'[i].code].used
    BY DEF RowsKnown, AccountsGrow
  <1>4. \A u \in DOMAIN users' : users'[u].merged # None => Known(users'[u].merged)
    <2> TAKE u \in DOMAIN users'
    <2>1. CASE u \in DOMAIN users BY <1>1, <2>1 DEF RowsKnown, AccountsGrow
    <2>2. CASE u \notin DOMAIN users BY <2>2
    <2> QED BY <2>1, <2>2
  <1> QED BY <1>2, <1>3, <1>4 DEF RowsKnown, Registered

LEMMA GrowStep ==
  ASSUME IInv, NEW w \in Workers, NEW r \in Request, req' = [req EXCEPT ![w] = r],
         r.at \notin MergeSteps, AccountsGrow(w),
         EngagementTypeOK', CountsFit', RowsKnown', Raced', Fits(w)'
  PROVE  IInv'
  <1>1. RequestsTyped' BY DEF IInv, RequestsTyped
  <1>2. \A v \in Workers : v # w => req'[v] = req[v] BY DEF IInv, RequestsTyped
  <1>3. ThreadsFit'
    <2> SUFFICES ASSUME NEW v \in Workers PROVE Fits(v)' BY DEF ThreadsFit, Fits
    <2>1. Fits(v) BY DEF IInv, ThreadsFit, Fits
    <2> QED BY <1>2, <2>1, OthersGrow
  <1>4. MergesApart' BY ApartStill DEF IInv
  <1> QED BY <1>1, <1>3, <1>4 DEF IInv

LEMMA Appended ==
  ASSUME NEW S, NEW s \in Seq(S), NEW e \in S, NEW t, t = Append(s, e)
  PROVE  /\ t \in Seq(S) /\ Len(t) = Len(s) + 1 /\ Len(s) + 1 \in Nat
         /\ DOMAIN t = DOMAIN s \cup {Len(s) + 1} /\ Len(s) + 1 \notin DOMAIN s
         /\ t[Len(s) + 1] = e /\ \A i \in DOMAIN s : t[i] = s[i]
  OBVIOUS

\* The rows made are those the requests were to make.
LEMMA GrowCounts ==
  ASSUME IInv, EngagementTypeOK', started' = started,
         NEW w \in Workers, NEW r, req' = [req EXCEPT ![w] = r],
         \/ Len(users') = Len(users) /\ (r.at \in ToUser => req[w].at \in ToUser)
         \/ /\ Len(users') = Len(users) + 1
            /\ req[w].at \in ToUser /\ r.at \notin ToUser,
         \/ Len(codes') = Len(codes) /\ (r.at \in ToCode => req[w].at \in ToCode)
         \/ /\ Len(codes') = Len(codes) + 1
            /\ req[w].at \in ToCode /\ r.at \notin ToCode,
         \/ clock' = clock /\ (r.at \in ToBegin => req[w].at \in ToBegin)
         \/ clock' = clock + 1 /\ req[w].at \in ToBegin /\ r.at \notin ToBegin,
         \/ redeemed' = redeemed /\ (r.at \in ToRedeem => req[w].at \in ToRedeem)
         \/ redeemed' = redeemed + 1 /\ req[w].at \in ToRedeem /\ r.at \notin ToRedeem
  PROVE  CountsFit'
  <1>1. CountersTyped BY Room DEF IInv
  <1>2. CountersTyped'
    BY AccountAssumptions, StartAccountsAssumption
    DEF CountersTyped, EngagementTypeOK, AccountsTypeOK
  <1>3. \A v \in Workers : v # w => req'[v] = req[v] BY DEF IInv, RequestsTyped
  <1>4. req'[w] = r BY DEF IInv, RequestsTyped
  <1>5. Makes(w, ToUser, Len(users)) BY <1>4 DEF Makes
  <1>6. Makes(w, ToCode, Len(codes)) BY <1>4 DEF Makes
  <1>7. Makes(w, ToBegin, clock) /\ Makes(w, ToRedeem, redeemed) BY <1>4 DEF Makes
  <1> QED BY <1>1, <1>2, <1>3, <1>5, <1>6, <1>7, CountsKeep DEF IInv

LEMMA CreatePendingStep ==
  ASSUME IInv, NEW w \in Workers, CreatePending(w), UNCHANGED <<rows, redeemed>>
  PROVE  IInv'
  <1>1. /\ codes' = codes /\ sessions' = sessions /\ clock' = clock /\ started' = started
        /\ likes' = likes /\ comments' = comments /\ owner' = owner /\ redeemed' = redeemed
        /\ req[w].at = "create"
    BY DEF CreatePending, rows, At
  <1>2. CASE End(w) /\ users' = users
    <2>1. SameTables BY <1>1, <1>2 DEF SameTables
    <2> QED BY <1>1, <1>2, <2>1, EndStep
  <1>3. CASE /\ users' = Append(users, NewUser(req[w].email, None, FALSE, None))
             /\ req' = [req EXCEPT ![w].at = "issue", ![w].user = Len(users) + 1]
    <2> DEFINE n == Len(users) + 1
               e == NewUser(req[w].email, None, FALSE, None)
               r == [req[w] EXCEPT !.at = "issue", !.user = n]
    <2>1. req[w] \in Request /\ req \in [Workers -> Request] BY DEF IInv, RequestsTyped
    <2>2. req[w].email \in Emails BY <1>1, RowIds DEF Fits, IssueFits
    <2>3. /\ e \in User /\ e.email \in Emails /\ e.email # None /\ e.name = None
          /\ e.merged = None
      BY <2>2, AccountAssumptions DEF NewUser, User
    <2>4. users \in Seq(User) /\ users' = Append(users, e) BY <1>3, RowIds
    <2> HIDE DEF e
    <2>5. /\ users' \in Seq(User) /\ Len(users') = n /\ DOMAIN users' = DOMAIN users \cup {n}
          /\ n \notin DOMAIN users /\ users'[n] = e
          /\ \A u \in DOMAIN users : users'[u] = users[u]
      BY <2>3, <2>4, Appended
    <2>6. n \in UserIds BY <1>1, Room DEF IInv, ToUser
    <2>7. r \in Request /\ r.at = "issue" /\ r.user = n /\ req' = [req EXCEPT ![w] = r]
      <3>1. "issue" \in Steps BY DEF Steps
      <3>2. r \in Request /\ r.at = "issue" /\ r.user = n BY <2>1, <2>6, <3>1 DEF Request
      <3>3. req' = [req EXCEPT ![w] = r] BY <1>3, <2>1 DEF Request
      <3> QED BY <3>2, <3>3
    <2> HIDE DEF r, n
    <2>8. EngagementTypeOK' BY <1>1, <2>5 DEF IInv, EngagementTypeOK, AccountsTypeOK
    <2>9. CountsFit' BY <1>1, <2>5, <2>7, <2>8, GrowCounts
      DEF n, ToUser, ToCode, ToBegin, ToRedeem
    <2>10. AccountsGrow(w) BY <1>1, <2>3, <2>5 DEF AccountsGrow
    <2>11. RowsKnown' BY <1>1, <2>3, <2>5, <2>10, RowsGrow DEF IInv, RowsKnown
    <2>12. Raced' BY <1>1, <2>3, <2>5 DEF IInv, Raced, CodesRaced, SessionsRaced, NamesRaced
    <2>13. req'[w] = r BY <2>1, <2>7
    <2>14. Fits(w)' BY <2>3, <2>5, <2>7, <2>13
      DEF Fits, IssueFits, VerifyFits, MergeFits, EngageFits, Verifying, Merging, MergeSteps,
          Registered
    <2> QED BY <2>7, <2>8, <2>9, <2>10, <2>11, <2>12, <2>14, GrowStep DEF MergeSteps
  <1> QED BY <1>2, <1>3 DEF CreatePending

\* What a statement that reads the unused codes of a user sees.
LEMMA MarkOldStep ==
  ASSUME IInv, NEW w \in Workers, MarkOld(w), UNCHANGED <<rows, redeemed>>
  PROVE  IInv'
  <1>1. /\ users' = users /\ codes' = codes /\ sessions' = sessions /\ clock' = clock + 1
        /\ started' = started
        /\ likes' = likes /\ comments' = comments /\ owner' = owner /\ redeemed' = redeemed
        /\ req[w].at = "issue"
    BY DEF MarkOld, rows, At
  <1> DEFINE old == Unused(req[w].user)
             r == [req[w] EXCEPT !.at = "replace", !.seen = old, !.began = clock + 1]
  <1>2. req[w] \in Request /\ req \in [Workers -> Request] BY DEF IInv, RequestsTyped
  <1>3. clock + 1 \in CodeIds BY <1>1, Room DEF IInv, ToBegin
  <1>4. old \in SUBSET (CodeIds \cup Proposals) BY RowIds DEF Unused
  <1>5. req' = [req EXCEPT ![w] = r] BY <1>2 DEF MarkOld, OldCodes
  <1> HIDE DEF old
  <1>6. /\ r \in Request /\ r.at = "replace" /\ r.seen = old /\ r.began = clock + 1
        /\ r.user = req[w].user
    <2>1. "replace" \in Steps BY DEF Steps
    <2>2. r \in Request BY <1>2, <1>3, <1>4, <2>1 DEF Request
    <2>3. r.at = "replace" /\ r.seen = old BY <1>2 DEF Request
    <2>4. r.began = clock + 1 /\ r.user = req[w].user BY <1>2 DEF Request
    <2> QED BY <2>2, <2>3, <2>4
  <1> HIDE DEF r
  <1>7. req'[w] = r BY <1>2, <1>5
  <1>8. EngagementTypeOK'
    BY <1>1, <1>3 DEF IInv, EngagementTypeOK, AccountsTypeOK, CodeIds
  <1>9. CountsFit' BY <1>1, <1>5, <1>6, <1>8, GrowCounts
    DEF ToUser, ToCode, ToBegin, ToRedeem
  <1>10. AccountsGrow(w) BY <1>1 DEF AccountsGrow
  <1>11. RowsKnown' BY <1>1 DEF IInv, RowsKnown, Registered
  <1>12. Raced' BY <1>1 DEF IInv, Raced, CodesRaced, SessionsRaced, NamesRaced
  <1>13. Registered(r.user) BY <1>1, <1>6, RowIds DEF Fits, IssueFits
  <1>14. Fits(w)' BY <1>1, <1>3, <1>6, <1>7, <1>13
    DEF Fits, IssueFits, VerifyFits, MergeFits, EngageFits, Verifying, Merging, MergeSteps,
        Registered, Unused, old
  <1> QED BY <1>5, <1>6, <1>8, <1>9, <1>10, <1>11, <1>12, <1>14, GrowStep DEF MergeSteps

LEMMA StoreCodeStep ==
  ASSUME IInv, NEW w \in Workers, StoreCode(w), UNCHANGED <<rows, redeemed>>
  PROVE  IInv'
  <1> DEFINE q == req[w]
             m == Len(codes) + 1
             f == [c \in DOMAIN codes |->
                     IF c \in q.seen THEN [codes[c] EXCEPT !.used = TRUE] ELSE codes[c]]
             e == [user |-> q.user, used |-> FALSE, expired |-> FALSE,
                   sent |-> FALSE, created |-> q.began, by |-> w]
             r == [q EXCEPT !.at = "mail", !.code = m]
  <1>1. /\ users' = users /\ sessions' = sessions /\ clock' = clock /\ started' = started
        /\ likes' = likes /\ comments' = comments /\ owner' = owner /\ redeemed' = redeemed
        /\ q.at = "replace" /\ codes' = Append(f, e)
    BY DEF StoreCode, rows, At
  <1>2. q \in Request /\ req \in [Workers -> Request] BY DEF IInv, RequestsTyped
  <1>3. /\ Registered(q.user) /\ q.began \in CodeIds
        /\ \A c \in Unused(q.user) : codes[c].by = w => c \in q.seen
    BY <1>1, RowIds DEF Fits, IssueFits
  <1>4. q.user \in UserIds BY <1>3, RowIds DEF Registered
  <1>5. e \in Code /\ e.user = q.user /\ e.by = w BY <1>3, <1>4 DEF Code
  <1>6. /\ codes \in Seq(Code) /\ f \in Seq(Code) /\ DOMAIN f = DOMAIN codes
        /\ Len(f) = Len(codes)
        /\ \A c \in DOMAIN codes :
             /\ f[c].user = codes[c].user /\ f[c].by = codes[c].by
             /\ f[c].used <=> codes[c].used \/ c \in q.seen
    <2>1. codes \in Seq(Code) /\ DOMAIN codes = 1 .. Len(codes) /\ Len(codes) \in Nat
      BY RowIds
    <2>2. \A c \in DOMAIN codes : codes[c] \in Code /\ [codes[c] EXCEPT !.used = TRUE] \in Code
      <3>1. \A e1 \in Code : [e1 EXCEPT !.used = TRUE] \in Code BY DEF Code
      <3>2. \A c \in DOMAIN codes : codes[c] \in Code BY <2>1
      <3> QED BY <3>1, <3>2
    <2>3. \A c \in DOMAIN codes : f[c] \in Code BY <2>2
    <2>4. f \in Seq(Code) /\ Len(f) = Len(codes) BY <2>1, <2>3
    <2>5. ASSUME NEW c \in DOMAIN codes
          PROVE  /\ f[c].user = codes[c].user /\ f[c].by = codes[c].by
                 /\ f[c].used <=> codes[c].used \/ c \in q.seen
      BY <2>2 DEF Code
    <2> QED BY <2>1, <2>4, <2>5
  <1>7. req' = [req EXCEPT ![w] = r]
    BY <1>2 DEF StoreCode, Request
  <1>8. m \in CodeIds BY <1>1, Room DEF IInv, ToCode
  <1>9. r \in Request /\ r.at = "mail" /\ r.code = m
    <2>1. "mail" \in Steps BY DEF Steps
    <2> QED BY <1>2, <1>8, <2>1 DEF Request
  <1> HIDE DEF r, f, e
  <1>10. req'[w] = r BY <1>2, <1>7
  <1>11. /\ codes' \in Seq(Code) /\ Len(codes') = m /\ DOMAIN codes' = DOMAIN codes \cup {m}
         /\ m \notin DOMAIN codes /\ codes'[m] = e
         /\ \A c \in DOMAIN codes : codes'[c] = f[c]
    BY <1>1, <1>5, <1>6, Appended
  <1> HIDE DEF m
  <1>12. \A c \in DOMAIN codes :
           /\ codes'[c].user = codes[c].user /\ codes'[c].by = codes[c].by
           /\ codes'[c].used <=> codes[c].used \/ c \in q.seen
    BY <1>6, <1>11
  <1>13. EngagementTypeOK' BY <1>1, <1>11 DEF IInv, EngagementTypeOK, AccountsTypeOK
  <1>14. CountsFit' BY <1>1, <1>7, <1>9, <1>11, <1>13, GrowCounts
    DEF m, ToUser, ToCode, ToBegin, ToRedeem
  <1>15. AccountsGrow(w) BY <1>1, <1>5, <1>11, <1>12 DEF AccountsGrow
  <1>16. RowsKnown' BY <1>1, <1>3, <1>5, <1>11, <1>15, RowsGrow DEF IInv, RowsKnown
  <1>17. CodesRaced'
    <2>1. CodesRaced BY DEF IInv, Raced
    <2>2. \A c \in DOMAIN codes :
            codes'[c].user = q.user /\ ~codes'[c].used => codes'[c].by # w
      BY <1>3, <1>12 DEF Unused
    <2> QED BY <1>5, <1>11, <1>12, <2>1, <2>2 DEF CodesRaced
  <1>18. Raced' BY <1>1, <1>17 DEF IInv, Raced, SessionsRaced, NamesRaced
  <1>19. Fits(w)' BY <1>9, <1>10, <1>11
    DEF Fits, IssueFits, VerifyFits, MergeFits, EngageFits, Verifying, Merging, MergeSteps
  <1> QED BY <1>7, <1>9, <1>13, <1>14, <1>15, <1>16, <1>18, <1>19, GrowStep DEF MergeSteps

\* One field of one code changes.
LEMMA OneCode ==
  ASSUME IInv, NEW c \in DOMAIN codes, NEW e \in Code, codes' = [codes EXCEPT ![c] = e]
  PROVE  /\ codes' \in Seq(Code) /\ Len(codes') = Len(codes) /\ DOMAIN codes' = DOMAIN codes
         /\ codes'[c] = e /\ \A d \in DOMAIN codes : d # c => codes'[d] = codes[d]
  <1>1. codes \in Seq(Code) BY RowIds
  <1> QED BY <1>1

LEMMA MailStep ==
  ASSUME IInv, NEW w \in Workers, Mail(w), UNCHANGED <<rows, redeemed>>
  PROVE  IInv'
  <1> DEFINE c == req[w].code
             e == [codes[c] EXCEPT !.sent = TRUE]
  <1>1. /\ users' = users /\ sessions' = sessions /\ clock' = clock /\ started' = started
        /\ likes' = likes /\ comments' = comments /\ owner' = owner /\ redeemed' = redeemed
        /\ req[w].at = "mail" /\ req' = [req EXCEPT ![w] = Free]
        /\ codes' = [codes EXCEPT ![c].sent = TRUE]
    BY DEF Mail, rows, At, End
  <1>2. c \in DOMAIN codes BY <1>1, RowIds DEF Fits, IssueFits
  <1>3. codes[c] \in Code /\ codes \in Seq(Code) BY <1>2, RowIds
  <1>4. /\ e \in Code /\ e.user = codes[c].user /\ e.by = codes[c].by
        /\ e.used = codes[c].used
    BY <1>3 DEF Code
  <1>5. codes' = [codes EXCEPT ![c] = e] BY <1>1, <1>2
  <1> HIDE DEF e, c
  <1>6. /\ codes' \in Seq(Code) /\ Len(codes') = Len(codes) /\ DOMAIN codes' = DOMAIN codes
        /\ codes'[c] = e /\ \A d \in DOMAIN codes : d # c => codes'[d] = codes[d]
    BY <1>2, <1>4, <1>5, OneCode
  <1>7. \A d \in DOMAIN codes :
          /\ codes'[d].user = codes[d].user /\ codes'[d].by = codes[d].by
          /\ codes'[d].used = codes[d].used
    BY <1>4, <1>6
  <1>8. EngagementTypeOK' BY <1>1, <1>6 DEF IInv, EngagementTypeOK, AccountsTypeOK
  <1>9. CountsFit' BY <1>1, <1>6, <1>8, FreeType, GrowCounts
    DEF ToUser, ToCode, ToBegin, ToRedeem
  <1>10. AccountsGrow(w) BY <1>1, <1>6, <1>7 DEF AccountsGrow
  <1>11. RowsKnown' BY <1>1, <1>6, <1>10, RowsGrow DEF IInv, RowsKnown
  <1>12. Raced' BY <1>1, <1>6, <1>7 DEF IInv, Raced, CodesRaced, SessionsRaced, NamesRaced
  <1>13. req'[w] = Free BY <1>1 DEF IInv, RequestsTyped
  <1>14. Fits(w)' BY <1>13, FreeType, FreeFits
  <1> QED BY <1>1, <1>8, <1>9, <1>10, <1>11, <1>12, <1>14, FreeType, GrowStep DEF MergeSteps

\* One row of the accounts changes.
LEMMA OneUser ==
  ASSUME IInv, NEW u \in DOMAIN users, NEW e \in User, users' = [users EXCEPT ![u] = e]
  PROVE  /\ users' \in Seq(User) /\ Len(users') = Len(users) /\ DOMAIN users' = DOMAIN users
         /\ users'[u] = e /\ \A v \in DOMAIN users : v # u => users'[v] = users[v]
  <1>1. users \in Seq(User) BY RowIds
  <1> QED BY <1>1

\* The code is used up and the answer carries a token, whatever becomes of the account's row.
LEMMA SignedInStep ==
  ASSUME IInv, NEW w \in Workers, SignedIn(w), req[w].at \in {"use", "confirm"},
         clock' = clock, started' = started, UNCHANGED <<rows, redeemed>>,
         users' \in Seq(User), Len(users') = Len(users), DOMAIN users' = DOMAIN users,
         \A u \in DOMAIN users :
           /\ users'[u].email = users[u].email /\ users'[u].merged = users[u].merged
           /\ \/ users'[u].name = None \/ users'[u].by = w
              \/ users'[u].name = users[u].name /\ users'[u].by = users[u].by,
         NamesRaced'
  PROVE  IInv'
  <1> DEFINE q == req[w]
             c == q.code
             e == [codes[c] EXCEPT !.used = TRUE]
             m == Len(sessions) + 1
             s == [user |-> q.user, code |-> c, by |-> w]
             Session == [user : UserIds, code : CodeIds, by : Workers]
  <1>1. /\ likes' = likes /\ comments' = comments /\ owner' = owner /\ redeemed' = redeemed
        /\ codes' = [codes EXCEPT ![c].used = TRUE] /\ sessions' = Append(sessions, s)
        /\ IF q.guest = None THEN End(w) ELSE Go(w, "merge")
    BY DEF SignedIn, rows
  <1>2. VerifyFits(w) BY RowIds DEF Fits
  <1>3. /\ c \in DOMAIN codes /\ Registered(q.user)
        /\ q.guest # None => q.guest \in DOMAIN users /\ IsGuest(q.guest)
        /\ \A i \in DOMAIN sessions : sessions[i].code = c => sessions[i].by # w
    BY <1>2 DEF VerifyFits, Verifying
  <1>4. codes[c] \in Code /\ codes \in Seq(Code) /\ c \in CodeIds /\ q.user \in UserIds
    BY <1>3, RowIds DEF Registered
  <1>5. /\ e \in Code /\ e.user = codes[c].user /\ e.by = codes[c].by /\ e.used
    BY <1>4 DEF Code
  <1>6. codes' = [codes EXCEPT ![c] = e] BY <1>1, <1>3
  <1>7. s \in Session /\ s.code = c /\ s.by = w BY <1>4
  <1>8. sessions \in Seq(Session) BY DEF IInv, EngagementTypeOK, AccountsTypeOK
  <1> HIDE DEF e, c, s
  <1>9. /\ codes' \in Seq(Code) /\ Len(codes') = Len(codes) /\ DOMAIN codes' = DOMAIN codes
        /\ codes'[c] = e /\ \A d \in DOMAIN codes : d # c => codes'[d] = codes[d]
    BY <1>3, <1>5, <1>6, OneCode
  <1>10. \A d \in DOMAIN codes :
           /\ codes'[d].user = codes[d].user /\ codes'[d].by = codes[d].by
           /\ codes[d].used => codes'[d].used
    BY <1>5, <1>9
  <1>11. /\ sessions' \in Seq(Session) /\ DOMAIN sessions' = DOMAIN sessions \cup {m}
         /\ m \notin DOMAIN sessions /\ sessions'[m] = s
         /\ \A i \in DOMAIN sessions : sessions'[i] = sessions[i]
    <2> HIDE DEF Session, m
    <2> QED BY <1>1, <1>7, <1>8, Appended DEF m
  <1> HIDE DEF m
  <1>12. EngagementTypeOK' BY <1>1, <1>9, <1>11 DEF IInv, EngagementTypeOK, AccountsTypeOK
  <1> HIDE DEF Session
  <1>13. AccountsGrow(w) BY <1>1, <1>7, <1>9, <1>10, <1>11 DEF AccountsGrow
  <1>14. RowsKnown' BY <1>3, <1>5, <1>7, <1>9, <1>11, <1>13, RowsGrow DEF IInv, RowsKnown
  <1>15. Raced'
    <2>1. CodesRaced' BY <1>9, <1>10 DEF IInv, Raced, CodesRaced
    <2>2. SessionsRaced' BY <1>3, <1>7, <1>11 DEF IInv, Raced, SessionsRaced
    <2> QED BY <2>1, <2>2 DEF Raced
  <1>16. ASSUME NEW r \in Request, r.at \in {"free", "merge"}, req' = [req EXCEPT ![w] = r],
                Fits(w)'
         PROVE  IInv'
    <2>1. CountsFit' BY <1>1, <1>9, <1>12, <1>16, GrowCounts
      DEF ToUser, ToCode, ToBegin, ToRedeem
    <2> QED BY <1>12, <1>13, <1>14, <1>15, <1>16, <2>1, GrowStep DEF MergeSteps
  <1>17. CASE End(w)
    <2>1. req' = [req EXCEPT ![w] = Free] BY <1>17 DEF End
    <2>2. req'[w] = Free BY <2>1 DEF IInv, RequestsTyped
    <2>3. Fits(w)' BY <2>2, FreeType, FreeFits
    <2> QED BY <1>16, <2>1, <2>3, FreeType
  <1>18. CASE q.guest # None /\ Go(w, "merge")
    <2> DEFINE r == [req[w] EXCEPT !.at = "merge"]
    <2>1. "merge" \in Steps BY DEF Steps
    <2>2. /\ req' = [req EXCEPT ![w] = r] /\ req'[w] = r /\ r \in Request
          /\ r.at = "merge" /\ r.user = q.user /\ r.guest = q.guest
      BY <1>18, <2>1, Gone
    <2> HIDE DEF r
    <2>3. MergeFits(w)' BY <1>3, <1>18, <2>2
      DEF MergeFits, Merging, MergeSteps, Registered, IsGuest
    <2>4. Fits(w)' BY <2>2, <2>3 DEF Fits, IssueFits, VerifyFits, EngageFits, Verifying
    <2> QED BY <1>16, <2>2, <2>4
  <1> QED BY <1>1, <1>17, <1>18

LEMMA UseCodeStep ==
  ASSUME IInv, NEW w \in Workers, UseCode(w), UNCHANGED <<rows, redeemed>>
  PROVE  IInv'
  <1> DEFINE u == req[w].user
             n == req[w].name
             e == [users[u] EXCEPT !.name = n, !.verified = TRUE, !.by = w]
  <1>1. req[w].at = "use" /\ clock' = clock /\ started' = started
    BY DEF UseCode, At
  <1>2. CASE /\ users' = [users EXCEPT ![u].name = n, ![u].verified = TRUE, ![u].by = w]
             /\ SignedIn(w)
    <2>1. VerifyFits(w) /\ users \in Seq(User) BY RowIds DEF Fits
    <2>2. /\ u \in DOMAIN users /\ n \in Names \cup GuestNames /\ NameOpen(n, w)
      BY <1>1, <2>1 DEF VerifyFits, Verifying, Registered
    <2>3. users[u] \in User BY <2>2, RowIds
    <2>4. /\ e \in User /\ e.email = users[u].email /\ e.merged = users[u].merged
          /\ e.name = n /\ e.by = w
      BY <2>2, <2>3 DEF User
    <2>5. users' = [users EXCEPT ![u] = e] BY <1>2, <2>2, <2>3 DEF User
    <2> HIDE DEF e, u, n
    <2>6. /\ users' \in Seq(User) /\ Len(users') = Len(users) /\ DOMAIN users' = DOMAIN users
          /\ users'[u] = e /\ \A v \in DOMAIN users : v # u => users'[v] = users[v]
      BY <2>2, <2>4, <2>5, OneUser
    <2>7. NamesRaced' BY <2>2, <2>4, <2>6 DEF IInv, Raced, NamesRaced, NameOpen
    <2>8. \A v \in DOMAIN users :
            /\ users'[v].email = users[v].email /\ users'[v].merged = users[v].merged
            /\ \/ users'[v].by = w
               \/ users'[v].name = users[v].name /\ users'[v].by = users[v].by
      BY <2>4, <2>6
    <2> QED BY <1>1, <1>2, <2>6, <2>7, <2>8, SignedInStep
  <1> QED BY <1>2 DEF UseCode

LEMMA ConfirmStep ==
  ASSUME IInv, NEW w \in Workers, Confirm(w), UNCHANGED <<rows, redeemed>>
  PROVE  IInv'
  <1> DEFINE u == req[w].user
             e == [users[u] EXCEPT !.verified = TRUE]
  <1>1. /\ req[w].at = "confirm" /\ clock' = clock /\ started' = started /\ SignedIn(w)
        /\ users' = [users EXCEPT ![u].verified = TRUE]
    BY DEF Confirm, At
  <1>2. VerifyFits(w) /\ users \in Seq(User) BY RowIds DEF Fits
  <1>3. u \in DOMAIN users BY <1>1, <1>2 DEF VerifyFits, Verifying, Registered
  <1>4. users[u] \in User BY <1>3, RowIds
  <1>5. /\ e \in User /\ e.email = users[u].email /\ e.merged = users[u].merged
        /\ e.name = users[u].name /\ e.by = users[u].by
    BY <1>4 DEF User
  <1>6. users' = [users EXCEPT ![u] = e] BY <1>1, <1>3
  <1> HIDE DEF e, u
  <1>7. /\ users' \in Seq(User) /\ Len(users') = Len(users) /\ DOMAIN users' = DOMAIN users
        /\ users'[u] = e /\ \A v \in DOMAIN users : v # u => users'[v] = users[v]
    BY <1>3, <1>5, <1>6, OneUser
  <1>8. \A v \in DOMAIN users :
          /\ users'[v].email = users[v].email /\ users'[v].merged = users[v].merged
          /\ users'[v].name = users[v].name /\ users'[v].by = users[v].by
    BY <1>5, <1>7
  <1>9. NamesRaced' BY <1>7, <1>8 DEF IInv, Raced, NamesRaced
  <1> QED BY <1>1, <1>7, <1>8, <1>9, SignedInStep

LEMMA CreateUserStep ==
  ASSUME IInv, NEW w \in Workers, CreateUser(w), UNCHANGED <<rows, redeemed>>
  PROVE  IInv'
  <1> DEFINE r == req[w]
             n == Len(users) + 1
             e == NewUser(r.email, r.name, r.email # None, w)
  <1>1. /\ codes' = codes /\ sessions' = sessions /\ clock' = clock /\ started' = started
        /\ likes' = likes /\ comments' = comments /\ owner' = owner /\ redeemed' = redeemed
        /\ r.at = "insert" /\ End(w)
    BY DEF CreateUser, rows, At
  <1>2. CASE users' = users
    <2>1. SameTables BY <1>1, <1>2 DEF SameTables
    <2> QED BY <1>1, <2>1, EndStep
  <1>3. CASE users' = Append(users, e)
    <2>1. r \in Request /\ VerifyFits(w) /\ users \in Seq(User) BY RowIds DEF Fits
    <2>2. /\ r.name \in Names \cup GuestNames /\ NameOpen(r.name, w)
          /\ r.email \in Emails \cup {None}
      BY <1>1, <2>1 DEF VerifyFits, Request
    <2>3. /\ e \in User /\ e.name = r.name /\ e.by = w /\ e.merged = None
      <3>1. (r.email # None) \in BOOLEAN OBVIOUS
      <3> QED BY <2>2, <3>1 DEF NewUser, User
    <2> HIDE DEF e
    <2>4. /\ users' \in Seq(User) /\ Len(users') = n /\ DOMAIN users' = DOMAIN users \cup {n}
          /\ n \notin DOMAIN users /\ users'[n] = e
          /\ \A u \in DOMAIN users : users'[u] = users[u]
      BY <1>3, <2>1, <2>3, Appended
    <2> HIDE DEF n
    <2>5. req' = [req EXCEPT ![w] = Free] /\ req'[w] = Free
      BY <1>1 DEF IInv, RequestsTyped, End
    <2>6. EngagementTypeOK' BY <1>1, <2>4 DEF IInv, EngagementTypeOK, AccountsTypeOK
    <2>7. CountsFit' BY <1>1, <2>4, <2>5, <2>6, FreeType, GrowCounts
      DEF n, ToUser, ToCode, ToBegin, ToRedeem
    <2>8. AccountsGrow(w) BY <1>1, <2>3, <2>4 DEF AccountsGrow
    <2>9. RowsKnown' BY <1>1, <2>3, <2>4, <2>8, RowsGrow DEF IInv, RowsKnown
    <2>10. NamesRaced' BY <2>2, <2>3, <2>4 DEF IInv, Raced, NamesRaced, NameOpen
    <2>11. Raced' BY <1>1, <2>10 DEF IInv, Raced, CodesRaced, SessionsRaced
    <2>12. Fits(w)' BY <2>5, FreeType, FreeFits
    <2> QED BY <2>5, <2>6, <2>7, <2>8, <2>9, <2>11, <2>12, FreeType, GrowStep DEF MergeSteps
  <1> QED BY <1>2, <1>3 DEF CreateUser

\* Time passes, and no thread moves.
LEMMA ExpireStep ==
  ASSUME IInv, Expire, UNCHANGED <<rows, redeemed>>
  PROVE  IInv'
  <1>1. PICK c \in DOMAIN codes : codes' = [codes EXCEPT ![c].expired = TRUE]
    BY DEF Expire
  <1>2. /\ users' = users /\ sessions' = sessions /\ clock' = clock /\ started' = started
        /\ likes' = likes /\ comments' = comments /\ owner' = owner /\ redeemed' = redeemed
        /\ req' = req
    BY DEF Expire, rows
  <1> DEFINE e == [codes[c] EXCEPT !.expired = TRUE]
  <1>3. codes[c] \in Code /\ codes \in Seq(Code) BY RowIds
  <1>4. /\ e \in Code /\ e.user = codes[c].user /\ e.by = codes[c].by
        /\ e.used = codes[c].used
    BY <1>3 DEF Code
  <1>5. codes' = [codes EXCEPT ![c] = e] BY <1>1
  <1> HIDE DEF e
  <1>6. /\ codes' \in Seq(Code) /\ Len(codes') = Len(codes) /\ DOMAIN codes' = DOMAIN codes
        /\ codes'[c] = e /\ \A d \in DOMAIN codes : d # c => codes'[d] = codes[d]
    BY <1>4, <1>5, OneCode
  <1>7. \A d \in DOMAIN codes :
          /\ codes'[d].user = codes[d].user /\ codes'[d].by = codes[d].by
          /\ codes'[d].used = codes[d].used
    BY <1>4, <1>6
  <1>8. EngagementTypeOK' BY <1>2, <1>6 DEF IInv, EngagementTypeOK, AccountsTypeOK
  <1>9. RequestsTyped' /\ MergesApart' BY <1>2 DEF IInv, RequestsTyped, MergesApart
  <1>10. CountsFit' BY <1>2, <1>6 DEF IInv, CountsFit, Count
  <1>11. AccountsGrow(None) BY <1>2, <1>6, <1>7 DEF AccountsGrow
  <1>12. RowsKnown' BY <1>2, <1>6, <1>11, RowsGrow DEF IInv, RowsKnown
  <1>13. Raced' BY <1>2, <1>6, <1>7 DEF IInv, Raced, CodesRaced, SessionsRaced, NamesRaced
  <1>14. \A v \in Workers : Fits(v)'
    <2> TAKE v \in Workers
    <2>1. Fits(v) /\ v # None BY RowIds, AccountAssumptions
    <2> QED BY <1>2, <1>11, <2>1, OthersGrow
  <1>15. ThreadsFit' BY <1>14 DEF ThreadsFit, Fits
  <1> QED BY <1>8, <1>9, <1>10, <1>12, <1>13, <1>15 DEF IInv

-----------------------------------------------------------------------------
(* Steps that write what accounts leave on proposals.                       *)

SameAccounts == users' = users /\ codes' = codes /\ sessions' = sessions /\ clock' = clock

\* A request that ends with a row written, where no merge can miss it.
LEMMA EngagedStep ==
  ASSUME IInv, NEW w \in Workers, End(w), SameAccounts, started' = started,
         EngagementTypeOK', redeemed' = redeemed \/ (redeemed' = redeemed + 1 /\ At(w, "redeem")),
         \A v \in Workers : req[v].at = "mark" =>
           LikedBy(req[v].guest)' \subseteq LikedBy(req[v].guest),
         \A c \in DOMAIN comments : c \in DOMAIN comments' /\ comments'[c].user = comments[c].user
  PROVE  IInv'
  <1>1. req' = [req EXCEPT ![w] = Free] /\ req'[w] = Free
    BY DEF IInv, RequestsTyped, End
  <1>2. RequestsTyped' BY <1>1, FreeType DEF IInv, RequestsTyped
  <1>3. CountsFit' BY <1>1, FreeType, GrowCounts
    DEF SameAccounts, At, ToUser, ToCode, ToBegin, ToRedeem
  <1>4. RowsKnown' /\ Raced'
    BY DEF IInv, SameAccounts, RowsKnown, Registered, Raced, CodesRaced, SessionsRaced, NamesRaced
  <1>5. MergesApart' BY <1>1, FreeType, ApartStill DEF IInv, MergeSteps
  <1>6. ASSUME NEW v \in Workers PROVE Fits(v)'
    <2>1. CASE v = w BY <1>1, <2>1, FreeType, FreeFits
    <2>2. CASE v # w
      <3>1. req'[v] = req[v] /\ Fits(v) BY <1>1, <2>2, RowIds DEF IInv, RequestsTyped
      <3>2. IssueFits(v)' BY <3>1 DEF Fits, SameAccounts, IssueFits, Registered, Unused
      <3>3. VerifyFits(v)' BY <3>1 DEF Fits, SameAccounts, VerifyFits, Registered, NameOpen, IsGuest
      <3>4. MergeFits(v)'
        <4>1. req[v].at = "mark" =>
                LikedBy(req[v].guest)' \subseteq req[v].seen \cup req[v].held
          BY <3>1 DEF Fits, MergeFits
        <4> QED BY <3>1, <4>1 DEF Fits, SameAccounts, MergeFits, Registered, IsGuest, LikedBy
      <3>5. EngageFits(v)' BY <3>1 DEF Fits, SameAccounts, EngageFits
      <3> QED BY <3>2, <3>3, <3>4, <3>5 DEF Fits
    <2> QED BY <2>1, <2>2
  <1>7. ThreadsFit' BY <1>6 DEF ThreadsFit, Fits
  <1> QED BY <1>2, <1>3, <1>4, <1>5, <1>7 DEF IInv

\* A like of a guest that is being merged waits for the merge.
LEMMA LikeSteps ==
  ASSUME IInv, NEW w \in Workers, AddLike(w) \/ RemoveLike(w)
  PROVE  IInv'
  <1> DEFINE p == req[w].item
             u == req[w].user
  <1>1. /\ req[w].at \in {"like", "unlike"} /\ End(w) /\ SameAccounts /\ started' = started
        /\ comments' = comments /\ owner' = owner /\ redeemed' = redeemed
    BY DEF AddLike, RemoveLike, At, tables, SameAccounts
  <1>2. p \in Proposals /\ u \in UserIds BY <1>1, RowIds DEF Fits, EngageFits
  <1>3. \/ likes' = likes \cup {<<p, u>>} /\ ~UserHeld(u)
        \/ likes' = likes \ {<<p, u>>}
    BY DEF AddLike, RemoveLike
  <1> HIDE DEF p, u
  <1>4. likes' \subseteq Proposals \X UserIds
    BY <1>2, <1>3 DEF IInv, EngagementTypeOK
  <1>5. EngagementTypeOK'
    BY <1>1, <1>4 DEF IInv, EngagementTypeOK, AccountsTypeOK, SameAccounts
  <1>6. ASSUME NEW v \in Workers, req[v].at = "mark"
        PROVE  LikedBy(req[v].guest)' \subseteq LikedBy(req[v].guest)
    <2>1. CASE likes' = likes \cup {<<p, u>>} /\ ~UserHeld(u)
      <3>1. req[v].guest # u BY <1>6, <2>1 DEF UserHeld, MergeHasUser, MergeSteps
      <3>2. req'[v] = req[v] BY <1>1, <1>6 DEF IInv, RequestsTyped, End
      <3> QED BY <2>1, <3>1, <3>2 DEF LikedBy
    <2>2. CASE likes' = likes \ {<<p, u>>}
      <3>1. req'[v] = req[v] BY <1>1, <1>6 DEF IInv, RequestsTyped, End
      <3> QED BY <2>2, <3>1 DEF LikedBy
    <2> QED BY <1>3, <2>1, <2>2
  <1> QED BY <1>1, <1>5, <1>6, EngagedStep

LEMMA AddCommentStep ==
  ASSUME IInv, NEW w \in Workers, AddComment(w)
  PROVE  IInv'
  <1> DEFINE e == [user |-> req[w].user, deleted |-> FALSE, editor |-> None]
  <1>1. /\ req[w].at = "comment" /\ End(w) /\ SameAccounts /\ started' = started
        /\ likes' = likes /\ owner' = owner /\ redeemed' = redeemed
        /\ comments' = Append(comments, e)
    BY DEF AddComment, At, tables, SameAccounts
  <1>2. req[w].user \in UserIds BY <1>1, RowIds DEF Fits, EngageFits
  <1>3. e \in Comment BY <1>2 DEF Comment
  <1>4. comments \in Seq(Comment) BY DEF IInv, EngagementTypeOK
  <1> HIDE DEF e
  <1>5. /\ comments' \in Seq(Comment)
        /\ \A c \in DOMAIN comments : c \in DOMAIN comments' /\ comments'[c] = comments[c]
    BY <1>1, <1>3, <1>4, Appended
  <1>6. EngagementTypeOK'
    BY <1>1, <1>5 DEF IInv, EngagementTypeOK, AccountsTypeOK, SameAccounts
  <1>7. \A v \in Workers : req[v].at = "mark" =>
          LikedBy(req[v].guest)' \subseteq LikedBy(req[v].guest)
    BY <1>1 DEF LikedBy, End, IInv, RequestsTyped
  <1> QED BY <1>1, <1>5, <1>6, <1>7, EngagedStep

LEMMA ChangeCommentSteps ==
  ASSUME IInv, NEW w \in Workers, EditComment(w) \/ DeleteComment(w)
  PROVE  IInv'
  <1> DEFINE c == req[w].item
             u == req[w].user
  <1>1. /\ req[w].at \in {"edit", "delete"} /\ End(w) /\ SameAccounts /\ started' = started
        /\ likes' = likes /\ owner' = owner /\ redeemed' = redeemed
    BY DEF EditComment, DeleteComment, At, tables, SameAccounts
  <1>2. c \in DOMAIN comments /\ u \in UserIds BY <1>1, RowIds DEF Fits, EngageFits
  <1>3. comments \in Seq(Comment) BY DEF IInv, EngagementTypeOK
  <1>4. comments[c] \in Comment BY <1>2, <1>3
  <1>5. PICK e \in Comment : e.user = comments[c].user /\ comments' = [comments EXCEPT ![c] = e]
    <2>1. CASE EditComment(w)
      <3>1. comments' = [comments EXCEPT ![c] = [comments[c] EXCEPT !.editor = u]]
        BY <1>2, <2>1 DEF EditComment
      <3>2. /\ [comments[c] EXCEPT !.editor = u] \in Comment
            /\ [comments[c] EXCEPT !.editor = u].user = comments[c].user
        BY <1>2, <1>4 DEF Comment
      <3> QED BY <3>1, <3>2
    <2>2. CASE DeleteComment(w)
      <3>1. comments' = [comments EXCEPT ![c] =
                           [comments[c] EXCEPT !.deleted = TRUE, !.editor = u]]
        BY <1>2, <1>4, <2>2 DEF DeleteComment, Comment
      <3>2. /\ [comments[c] EXCEPT !.deleted = TRUE, !.editor = u] \in Comment
            /\ [comments[c] EXCEPT !.deleted = TRUE, !.editor = u].user = comments[c].user
        BY <1>2, <1>4 DEF Comment
      <3> QED BY <3>1, <3>2
    <2> QED BY <2>1, <2>2
  <1>6. /\ comments' \in Seq(Comment) /\ DOMAIN comments' = DOMAIN comments
        /\ \A d \in DOMAIN comments : comments'[d].user = comments[d].user
    BY <1>2, <1>3, <1>5
  <1>7. EngagementTypeOK'
    BY <1>1, <1>6 DEF IInv, EngagementTypeOK, AccountsTypeOK, SameAccounts
  <1>8. \A v \in Workers : req[v].at = "mark" =>
          LikedBy(req[v].guest)' \subseteq LikedBy(req[v].guest)
    BY <1>1 DEF LikedBy, End, IInv, RequestsTyped
  <1> QED BY <1>1, <1>6, <1>7, <1>8, EngagedStep

LEMMA InsertRedemptionStep ==
  ASSUME IInv, NEW w \in Workers, InsertRedemption(w)
  PROVE  IInv'
  <1>1. /\ At(w, "redeem") /\ End(w) /\ SameAccounts /\ started' = started
        /\ likes' = likes /\ owner' = owner /\ comments' = comments /\ redeemed' = redeemed + 1
    BY DEF InsertRedemption, tables, rows, SameAccounts
  <1>2. redeemed' \in 0 .. MaxRequests BY <1>1, Room DEF IInv, ToRedeem, At
  <1>3. EngagementTypeOK'
    BY <1>1, <1>2 DEF IInv, EngagementTypeOK, AccountsTypeOK, SameAccounts
  <1>4. \A v \in Workers : req[v].at = "mark" =>
          LikedBy(req[v].guest)' \subseteq LikedBy(req[v].guest)
    BY <1>1 DEF LikedBy, End, IInv, RequestsTyped, At
  <1> QED BY <1>1, <1>3, <1>4, EngagedStep

\* The merge itself.  No other thread merges this guest, and no other guest
\* is the account it is merged into.
LEMMA MarkMergedStep ==
  ASSUME IInv, NEW w \in Workers, MarkMerged(w)
  PROVE  IInv'
  <1> DEFINE g == req[w].guest
             u == req[w].user
             seen == req[w].seen
             held == req[w].held
             e == [users[g] EXCEPT !.merged = u]
  <1>1. /\ req[w].at = "mark" /\ End(w)
        /\ codes' = codes /\ sessions' = sessions /\ clock' = clock /\ started' = started
        /\ redeemed' = redeemed
        /\ users' = [users EXCEPT ![g].merged = u]
        /\ likes' = (likes \ {<<p, g>> : p \in seen \cup held}) \cup {<<p, u>> : p \in held}
        /\ owner' = [p \in Proposals |-> IF owner[p] = g THEN u ELSE owner[p]]
        /\ comments' = [c \in DOMAIN comments |->
                          IF comments[c].user = g THEN [comments[c] EXCEPT !.user = u]
                          ELSE comments[c]]
    BY DEF MarkMerged, At
  <1>2. /\ Registered(u) /\ g \in DOMAIN users /\ IsGuest(g) /\ users[g].merged = None
        /\ held \subseteq Proposals
    BY <1>1, RowIds DEF Fits, MergeFits, Merging, MergeSteps
  <1>3. u \in UserIds /\ g \in UserIds /\ users[g] \in User /\ users \in Seq(User)
    BY <1>2, RowIds DEF Registered
  <1>4. /\ e \in User /\ e.email = users[g].email /\ e.merged = u
        /\ e.name = users[g].name /\ e.by = users[g].by
    BY <1>3 DEF User
  <1>5. users' = [users EXCEPT ![g] = e] BY <1>1, <1>2
  <1>6. req' = [req EXCEPT ![w] = Free] /\ req'[w] = Free
    BY <1>1 DEF IInv, RequestsTyped, End
  <1> HIDE DEF e, g, u, seen, held
  <1>7. /\ users' \in Seq(User) /\ Len(users') = Len(users) /\ DOMAIN users' = DOMAIN users
        /\ users'[g] = e /\ \A v \in DOMAIN users : v # g => users'[v] = users[v]
    BY <1>2, <1>4, <1>5, OneUser
  <1>8. \A v \in DOMAIN users :
          /\ users'[v].email = users[v].email
          /\ users'[v].name = users[v].name /\ users'[v].by = users[v].by
    BY <1>4, <1>7
  <1>9. /\ comments' \in Seq(Comment) /\ DOMAIN comments' = DOMAIN comments
        /\ \A c \in DOMAIN comments :
             comments'[c].user = IF comments[c].user = g THEN u ELSE comments[c].user
    <2>1. comments \in Seq(Comment) BY DEF IInv, EngagementTypeOK
    <2>2. \A e1 \in Comment :
            /\ [e1 EXCEPT !.user = u] \in Comment /\ [e1 EXCEPT !.user = u].user = u
      BY <1>3 DEF Comment
    <2>3. \A c \in DOMAIN comments : comments[c] \in Comment BY <2>1
    <2>4. \A c \in DOMAIN comments : comments'[c] \in Comment BY <1>1, <2>2, <2>3
    <2>5. DOMAIN comments = 1 .. Len(comments) /\ Len(comments) \in Nat BY <2>1
    <2>6. comments' \in Seq(Comment) BY <1>1, <2>4, <2>5
    <2> QED BY <1>1, <2>2, <2>3, <2>6
  <1>10. EngagementTypeOK'
    <2>1. likes' \subseteq Proposals \X UserIds
      BY <1>1, <1>2, <1>3 DEF IInv, EngagementTypeOK
    <2>2. owner' \in [Proposals -> UserIds] BY <1>1, <1>3 DEF IInv, EngagementTypeOK
    <2> QED BY <1>1, <1>7, <1>9, <2>1, <2>2 DEF IInv, EngagementTypeOK, AccountsTypeOK
  <1>11. RequestsTyped' BY <1>6, FreeType DEF IInv, RequestsTyped
  <1>12. CountsFit' BY <1>1, <1>6, <1>7, <1>10, FreeType, GrowCounts
    DEF ToUser, ToCode, ToBegin, ToRedeem
  <1>13. \A v : Registered(v) => v \in DOMAIN users' /\ users'[v].email # None
    BY <1>7, <1>8 DEF Registered
  <1>14. RowsKnown'
    <2>1. \A v \in DOMAIN users' : users'[v].merged # None => Registered(users'[v].merged)
      BY <1>2, <1>4, <1>7 DEF IInv, RowsKnown
    <2>2. \A v \in DOMAIN users' : users'[v].merged # None =>
            /\ users'[v].merged \in DOMAIN users' /\ users'[users'[v].merged].email # None
      BY <1>13, <2>1
    <2>3. \A c \in DOMAIN codes' :
            codes'[c].user \in DOMAIN users' /\ users'[codes'[c].user].email # None
      BY <1>1, <1>13, RowIds
    <2>4. \A i \in DOMAIN sessions' :
            sessions'[i].code \in DOMAIN codes' /\ codes'[sessions'[i].code].used
      BY <1>1 DEF IInv, RowsKnown
    <2> QED BY <2>2, <2>3, <2>4 DEF RowsKnown, Registered
  <1>15. Raced' BY <1>1, <1>7, <1>8 DEF IInv, Raced, CodesRaced, SessionsRaced, NamesRaced
  <1>16. MergesApart' BY <1>6, FreeType, ApartStill DEF IInv, MergeSteps
  <1>17. ASSUME NEW v \in Workers, v # w PROVE Fits(v)'
    <2>1. req'[v] = req[v] /\ Fits(v) BY <1>6, <1>17, RowIds DEF IInv, RequestsTyped
    <2>2. \A n : NameOpen(n, v) => NameOpen(n, v)' BY <1>7, <1>8 DEF NameOpen
    <2>3. IssueFits(v)'
      BY <1>1, <1>13, <2>1 DEF Fits, IssueFits, Registered, Unused
    <2>4. VerifyFits(v)'
      <3> DEFINE r == req[v]
      <3>1. VerifyFits(v) BY <2>1 DEF Fits
      <3>2. r.at \in Verifying =>
              /\ r.code \in DOMAIN codes'
              /\ r.user \in DOMAIN users' /\ users'[r.user].email # None
              /\ r.guest # None => r.guest \in DOMAIN users' /\ users'[r.guest].email = None
        BY <1>1, <1>7, <1>8, <1>13, <3>1 DEF VerifyFits, IsGuest
      <3>3. r.at \in {"register", "use", "insert"} => r.name # None /\ NameOpen(r.name, v)'
        BY <2>1, <2>2, <3>1 DEF VerifyFits
      <3> QED BY <1>1, <2>1, <3>1, <3>2, <3>3 DEF VerifyFits, Registered, IsGuest, NameOpen
    <2>5. MergeFits(v)'
      <3> DEFINE r == req[v]
      <3>1. MergeFits(v) BY <2>1 DEF Fits
      <3>2. r.at \in Merging =>
              /\ r.user \in DOMAIN users' /\ users'[r.user].email # None
              /\ r.guest \in DOMAIN users' /\ users'[r.guest].email = None
        BY <1>7, <1>8, <1>13, <3>1 DEF MergeFits, IsGuest
      <3>3. r.at \in MergeSteps => r.guest # g
        BY <1>1, <1>17 DEF IInv, MergesApart, MergeSteps, g
      <3>4. r.at \in MergeSteps => users'[r.guest].merged = None
        <4>1. r.at \in MergeSteps => r.guest \in DOMAIN users /\ users[r.guest].merged = None
          BY <3>1 DEF MergeFits, Merging
        <4> QED BY <1>7, <3>3, <4>1
      <3>5. ASSUME r.at = "mark"
            PROVE  /\ r.held \subseteq Proposals
                   /\ {p \in Proposals : <<p, r.guest>> \in likes'} \subseteq r.seen \cup r.held
        <4>1. r.held \subseteq Proposals /\ LikedBy(r.guest) \subseteq r.seen \cup r.held
          BY <3>1, <3>5 DEF MergeFits
        <4>2. r.guest # u
          BY <1>2, <3>1, <3>5 DEF MergeFits, Merging, MergeSteps, IsGuest, Registered
        <4>3. \A p \in Proposals : <<p, r.guest>> \in likes' => <<p, r.guest>> \in likes
          BY <1>1, <4>2
        <4> QED BY <4>1, <4>3 DEF LikedBy
      <3> QED BY <2>1, <3>2, <3>4, <3>5 DEF MergeFits, Registered, IsGuest, LikedBy
    <2>6. EngageFits(v)'
      <3> DEFINE r == req[v]
      <3>1. EngageFits(v) BY <2>1 DEF Fits
      <3>2. ASSUME r.at \in {"edit", "delete"}
            PROVE  comments'[r.item].user \in {r.user, users'[r.user].merged}
        <4>1. /\ r.item \in DOMAIN comments /\ r.user \in DOMAIN users
              /\ comments[r.item].user \in {r.user, users[r.user].merged}
          BY <3>1, <3>2 DEF EngageFits
        <4>2. comments[r.item].user # None
          <5>1. comments[r.item].user \in UserIds BY <4>1, RowIds DEF Comment
          <5> QED BY <5>1, AccountAssumptions, StartAccountsAssumption DEF UserIds
        <4>3. users[r.user].merged # g
          <5>1. g # None BY <1>2, RowIds
          <5>2. users[r.user].merged # None => Registered(users[r.user].merged)
            BY <4>1 DEF IInv, RowsKnown
          <5> QED BY <1>2, <5>1, <5>2 DEF Registered, IsGuest
        <4>4. CASE r.user = g
          <5>1. users'[r.user].merged = u /\ users[r.user].merged = None
            BY <1>2, <1>4, <1>7, <4>4
          <5>2. comments[r.item].user = g BY <4>1, <4>2, <4>4, <5>1
          <5> QED BY <1>9, <4>1, <5>1, <5>2
        <4>5. CASE r.user # g
          <5>1. users'[r.user].merged = users[r.user].merged BY <1>7, <4>1, <4>5
          <5>2. comments[r.item].user # g BY <4>1, <4>3, <4>5
          <5> QED BY <1>9, <4>1, <5>1, <5>2
        <4> QED BY <4>4, <4>5
      <3> QED BY <1>7, <1>9, <2>1, <3>1, <3>2 DEF EngageFits
    <2> QED BY <2>3, <2>4, <2>5, <2>6 DEF Fits
  <1>18. Fits(w)' BY <1>6, FreeType, FreeFits
  <1>19. ThreadsFit' BY <1>17, <1>18 DEF ThreadsFit, Fits
  <1> QED BY <1>10, <1>11, <1>12, <1>14, <1>15, <1>16, <1>19 DEF IInv

LEMMA StillAll ==
  ASSUME IInv, UNCHANGED vars
  PROVE  IInv'
  <1> USE DEF vars, accountVars, rows
  <1>1. EngagementTypeOK' /\ RequestsTyped'
    BY DEF IInv, EngagementTypeOK, AccountsTypeOK, RequestsTyped
  <1>2. CountsFit' BY DEF IInv, CountsFit, Count
  <1>3. RowsKnown' /\ Raced' /\ MergesApart'
    BY DEF IInv, RowsKnown, Registered, Raced, CodesRaced, SessionsRaced, NamesRaced,
           MergesApart
  <1>4. \A v \in Workers : Fits(v)' BY RowIds, OthersStill DEF SameTables
  <1>5. ThreadsFit' BY <1>4 DEF ThreadsFit, Fits
  <1> QED BY <1>1, <1>2, <1>3, <1>5 DEF IInv

LEMMA InitIInv == Init => IInv
  <1> SUFFICES ASSUME Init PROVE IInv OBVIOUS
  <1> USE DEF Init, AccountsInit
  <1>1. /\ Len(StartUsers) \in Nat /\ Len(StartCodes) \in Nat /\ MaxRequests \in Nat
        /\ StartUsers \in Seq(User) /\ StartCodes \in Seq(Code)
    BY StartAccountsAssumption, AccountAssumptions
  <1>2. EngagementTypeOK
    <2>1. sessions \in Seq([user : UserIds, code : CodeIds, by : Workers]) OBVIOUS
    <2> QED BY <1>1, <2>1, StartRowsAssumption DEF EngagementTypeOK, AccountsTypeOK
  <1>3. RequestsTyped BY FreeType DEF RequestsTyped
  <1>4. CountsFit
    <2>1. ASSUME NEW steps, "free" \notin steps PROVE Count(steps) = 0
      <3>1. {w \in Workers : req[w].at \in steps} = {} BY <2>1, FreeType
      <3> QED BY <3>1, FS_EmptySet DEF Count
    <2>2. Count(ToUser) = 0 /\ Count(ToCode) = 0 /\ Count(ToBegin) = 0 /\ Count(ToRedeem) = 0
      BY <2>1 DEF ToUser, ToCode, ToBegin, ToRedeem
    <2>3. MaxRedemptions > 0 => 0 <= MaxRedemptions + Cardinality(Workers) - 1
      <3>1. Cardinality(Workers) \in Nat BY AccountAssumptions, FS_CardinalityType
      <3> QED BY <3>1, MaxRedemptionsAssumption
    <2> QED BY <1>1, <2>2, <2>3 DEF CountsFit
  <1>5. RowsKnown BY StartAccountsAssumption DEF RowsKnown, Registered
  <1>6. Raced BY StartAccountsAssumption DEF Raced, CodesRaced, SessionsRaced, NamesRaced
  <1>7. \A w \in Workers : req[w].at = "free" BY FreeType
  <1>8. MergesApart BY <1>7 DEF MergesApart, MergeSteps
  <1>9. ThreadsFit BY <1>7
    DEF ThreadsFit, IssueFits, VerifyFits, MergeFits, EngageFits, Verifying, Merging, MergeSteps
  <1> QED BY <1>2, <1>3, <1>4, <1>5, <1>6, <1>8, <1>9 DEF IInv

LEMMA NextIInv == IInv /\ [Next]_vars => IInv'
  <1> SUFFICES ASSUME IInv, [Next]_vars PROVE IInv' OBVIOUS
  <1>1. ASSUME NEW w \in Workers, AccountRequest(w), UNCHANGED <<rows, redeemed>> PROVE IInv'
    BY <1>1, RequestCodeStep, VerifyStep, GuestStep, SignInOperatorStep DEF AccountRequest
  <1>2. ASSUME NEW w \in Workers, Engage(w) \/ Change(w) \/ Overwrite(w) \/ Redeem(w)
        PROVE  IInv'
    BY <1>2, EngageStep, ChangeStep, OverwriteStep, RedeemStep
  <1>3. ASSUME NEW w \in Workers, AccountStep(w), UNCHANGED <<rows, redeemed>> PROVE IInv'
    <2>1. CASE CreatePending(w) BY <1>3, <2>1, CreatePendingStep
    <2>2. CASE MarkOld(w) BY <1>3, <2>2, MarkOldStep
    <2>3. CASE StoreCode(w) BY <1>3, <2>3, StoreCodeStep
    <2>4. CASE Mail(w) BY <1>3, <2>4, MailStep
    <2>5. CASE CheckCode(w) BY <1>3, <2>5, CheckCodeStep
    <2>6. CASE CheckName(w) BY <1>3, <2>6, CheckNameStep
    <2>7. CASE Register(w) BY <1>3, <2>7, RegisterStep
    <2>8. CASE UseCode(w) BY <1>3, <2>8, UseCodeStep
    <2>9. CASE Consume(w) BY <1>3, <2>9, ConsumeStep
    <2>10. CASE Confirm(w) BY <1>3, <2>10, ConfirmStep
    <2>11. CASE CreateUser(w) BY <1>3, <2>11, CreateUserStep
    <2> QED BY <1>3, <2>1, <2>2, <2>3, <2>4, <2>5, <2>6, <2>7, <2>8, <2>9, <2>10, <2>11
      DEF AccountStep
  <1>4. ASSUME NEW w \in Workers, MergeStep(w) PROVE IInv'
    BY <1>4, MergeLockStep, MoveProposalsStep, DropLikesStep, MoveLikesStep, MarkMergedStep
    DEF MergeStep
  <1>5. ASSUME NEW w \in Workers, EngagementStep(w) PROVE IInv'
    <2>1. CASE AddLike(w) \/ RemoveLike(w) BY <2>1, LikeSteps
    <2>2. CASE AddComment(w) BY <2>2, AddCommentStep
    <2>3. CASE AuthorizeComment(w) BY <2>3, AuthorizeCommentStep
    <2>4. CASE EditComment(w) \/ DeleteComment(w) BY <2>4, ChangeCommentSteps
    <2>5. CASE LockForOverwrite(w) BY <2>5, LockForOverwriteStep
    <2>6. CASE WriteLog(w)
      <3>1. \E v \in Workers : WriteLog(v) \/ (Raises(v) /\ UNCHANGED <<rows, redeemed>>)
        BY <2>6
      <3> QED BY <3>1, EndingStep
    <2>7. CASE InsertRedemption(w) BY <2>7, InsertRedemptionStep
    <2> QED BY <1>5, <2>1, <2>2, <2>3, <2>4, <2>5, <2>6, <2>7 DEF EngagementStep
  <1>6. ASSUME NEW w \in Workers, Raises(w), UNCHANGED <<rows, redeemed>> PROVE IInv'
    BY <1>6, EndingStep
  <1>7. CASE Expire /\ UNCHANGED <<rows, redeemed>> BY <1>7, ExpireStep
  <1>8. CASE Deadlock BY <1>8, EndingStep
  <1>9. CASE UNCHANGED vars BY <1>9, StillAll
  <1> QED BY <1>1, <1>2, <1>3, <1>4, <1>5, <1>6, <1>7, <1>8, <1>9 DEF Next, Step

THEOREM EngagementInvariant == Spec => []IInv
  <1> QED BY InitIInv, NextIInv, PTL DEF Spec

-----------------------------------------------------------------------------
(* What follows.                                                            *)

\* Codes, sessions, names and redemptions in any instance: a limit that is
\* checked in one statement and used up in another gives way only to requests
\* of different threads (issue_otp(), latest_valid_otp() and consume_otp(),
\* display_name_taken() and the inserts, the count of the gate's codes).
THEOREM LimitsGiveWayToRaces == Spec => []LimitsYieldToRacesOnly
  <1>1. ASSUME IInv PROVE LimitsYieldToRacesOnly
    <2>1. LiveCodesRaced BY <1>1 DEF IInv, Raced, CodesRaced, LiveCodesRaced, Live, Unused
    <2>2. RedemptionsRaced
      <3>1. Count(ToRedeem) \in Nat BY CountTyped
      <3>2. redeemed \in Nat BY <1>1, Room DEF IInv, CountersTyped
      <3>3. Cardinality(Workers) \in Nat BY AccountAssumptions, FS_CardinalityType
      <3>4. MaxRedemptions > 0 =>
              redeemed + Count(ToRedeem) <= MaxRedemptions + Cardinality(Workers) - 1
        BY <1>1 DEF IInv, CountsFit
      <3> DEFINE n == Count(ToRedeem)
      <3> HIDE DEF n
      <3>5. MaxRedemptions > 0 => redeemed <= MaxRedemptions + Cardinality(Workers) - 1
        BY <3>1, <3>2, <3>3, <3>4, MaxRedemptionsAssumption DEF n
      <3> QED BY <3>5 DEF RedemptionsRaced
    <2> QED BY <1>1, <2>1, <2>2 DEF IInv, Raced, LimitsYieldToRacesOnly
  <1>2. IInv => LimitsYieldToRacesOnly BY <1>1
  <1> QED BY <1>2, EngagementInvariant, PTL

\* What every step but the merge itself leaves of the accounts and codes there are.
Kept ==
  /\ \A u \in DOMAIN users :
       /\ users'[u].email = users[u].email /\ users'[u].merged = users[u].merged
       /\ users[u].verified => users'[u].verified
  /\ \A c \in DOMAIN codes : codes[c].used => codes'[c].used

LEMMA AccountStepKeeps ==
  ASSUME IInv, NEW w \in Workers, AccountStep(w)
  PROVE  Kept
  <1>1. users \in Seq(User) /\ codes \in Seq(Code) BY RowIds
  <1>2. \A u \in DOMAIN users : users[u] \in User BY <1>1
  <1>3. \A c \in DOMAIN codes : codes[c] \in Code BY <1>1
  <1>4. \A e : \A u \in DOMAIN users : Append(users, e)[u] = users[u]
    BY <1>1
  <1>5. CASE users' = users /\ codes' = codes BY <1>5 DEF Kept
  <1>6. CASE CreatePending(w) \/ CreateUser(w)
    <2>1. codes' = codes /\ \A u \in DOMAIN users : users'[u] = users[u]
      BY <1>4, <1>6 DEF CreatePending, CreateUser
    <2> QED BY <2>1 DEF Kept
  <1>7. CASE StoreCode(w)
    <2> DEFINE f == [c \in DOMAIN codes |->
                       IF c \in req[w].seen THEN [codes[c] EXCEPT !.used = TRUE] ELSE codes[c]]
    <2>1. users' = users /\ \E e : codes' = Append(f, e) BY <1>7 DEF StoreCode
    <2>2. DOMAIN codes = 1 .. Len(codes) /\ Len(codes) \in Nat BY <1>1
    <2>3. DOMAIN f = 1 .. Len(codes) /\ Len(f) = Len(codes) BY <2>2
    <2>4. \A c \in DOMAIN codes : codes[c].used => f[c].used BY <1>3 DEF Code
    <2> HIDE DEF f
    <2>5. \A e : \A c \in DOMAIN codes : Append(f, e)[c] = f[c] BY <2>2, <2>3
    <2> QED BY <2>1, <2>4, <2>5 DEF Kept
  <1>8. CASE Mail(w)
    <2>1. users' = users /\ codes' = [codes EXCEPT ![req[w].code].sent = TRUE]
      BY <1>8 DEF Mail
    <2> QED BY <1>3, <2>1 DEF Kept, Code
  <1>9. ASSUME SignedIn(w) PROVE \A c \in DOMAIN codes : codes[c].used => codes'[c].used
    BY <1>3, <1>9 DEF SignedIn, Code
  <1>10. CASE UseCode(w)
    <2>1. /\ users' = [users EXCEPT ![req[w].user].name = req[w].name,
                                    ![req[w].user].verified = TRUE, ![req[w].user].by = w]
          /\ SignedIn(w)
      BY <1>10 DEF UseCode
    <2>2. \A u \in DOMAIN users :
            /\ users'[u].email = users[u].email /\ users'[u].merged = users[u].merged
            /\ users[u].verified => users'[u].verified
      BY <1>2, <2>1 DEF User
    <2> QED BY <1>9, <2>1, <2>2 DEF Kept
  <1>11. CASE Confirm(w)
    <2>1. users' = [users EXCEPT ![req[w].user].verified = TRUE] /\ SignedIn(w)
      BY <1>11 DEF Confirm
    <2>2. \A u \in DOMAIN users :
            /\ users'[u].email = users[u].email /\ users'[u].merged = users[u].merged
            /\ users[u].verified => users'[u].verified
      BY <1>2, <2>1 DEF User
    <2> QED BY <1>9, <2>1, <2>2 DEF Kept
  <1>12. CASE MarkOld(w) \/ CheckCode(w) \/ CheckName(w) \/ Register(w) \/ Consume(w)
    BY <1>5, <1>12 DEF MarkOld, CheckCode, CheckName, Register, Consume, tables
  <1> QED BY <1>6, <1>7, <1>8, <1>10, <1>11, <1>12 DEF AccountStep

LEMMA StepKeeps ==
  ASSUME IInv, [Next]_vars, \A w \in Workers : ~MarkMerged(w)
  PROVE  Kept
  <1>1. CASE users' = users /\ codes' = codes BY <1>1 DEF Kept
  <1>2. CASE Expire
    <2>1. codes \in Seq(Code) BY RowIds
    <2>2. \A c \in DOMAIN codes : codes[c] \in Code BY <2>1
    <2>3. users' = users /\ \E c \in DOMAIN codes : codes' = [codes EXCEPT ![c].expired = TRUE]
      BY <1>2 DEF Expire
    <2> QED BY <2>2, <2>3 DEF Kept, Code
  <1>3. CASE \E w \in Workers : AccountStep(w) BY <1>3, AccountStepKeeps
  <1>4. ASSUME NEW w \in Workers, AccountRequest(w) PROVE users' = users /\ codes' = codes
    BY <1>4 DEF AccountRequest, RequestCode, Verify, Guest, SignInOperator, tables
  <1>5. ASSUME NEW w \in Workers, Engage(w) \/ Change(w) \/ Overwrite(w) \/ Redeem(w)
        PROVE  users' = users /\ codes' = codes
    BY <1>5 DEF Engage, Change, Overwrite, Redeem, tables
  <1>6. ASSUME NEW w \in Workers, MergeStep(w) PROVE users' = users /\ codes' = codes
    BY <1>6 DEF MergeStep, MergeLock, MoveProposals, DropLikes, MoveLikes, tables
  <1>7. ASSUME NEW w \in Workers, EngagementStep(w) PROVE users' = users /\ codes' = codes
    BY <1>7 DEF EngagementStep, AddLike, RemoveLike, AddComment, AuthorizeComment, EditComment,
       DeleteComment, LockForOverwrite, WriteLog, InsertRedemption, tables
  <1>8. CASE Deadlock \/ UNCHANGED vars \/ \E w \in Workers : Raises(w)
    BY <1>1, <1>8 DEF Deadlock, Raises, tables, vars, accountVars
  <1> QED BY <1>1, <1>2, <1>3, <1>4, <1>5, <1>6, <1>7, <1>8 DEF Next, Step

\* Addresses, verifications, merges and used codes stand, in any instance:
\* no statement of the repository takes one of them back.
THEOREM NothingTakenBack == Spec => NothingIsTakenBack
  <1> DEFINE A ==
        /\ \A u \in DOMAIN users :
             /\ users'[u].email = users[u].email
             /\ users[u].verified => users'[u].verified
             /\ users[u].merged # None => users'[u].merged = users[u].merged
        /\ \A c \in DOMAIN codes : codes[c].used => codes'[c].used
  <1>1. ASSUME IInv, [Next]_vars PROVE A
    <2>1. CASE \A w \in Workers : ~MarkMerged(w) BY <1>1, <2>1, StepKeeps DEF Kept
    <2>2. ASSUME NEW w \in Workers, MarkMerged(w) PROVE A
      <3> DEFINE g == req[w].guest
      <3>1. /\ users' = [users EXCEPT ![g].merged = req[w].user] /\ codes' = codes
            /\ req[w].at = "mark"
        BY <2>2 DEF MarkMerged, At
      <3>2. g \in DOMAIN users /\ users[g].merged = None
        BY <1>1, <3>1, RowIds DEF Fits, MergeFits, Merging, MergeSteps
      <3>3. \A u \in DOMAIN users : users[u] \in User BY <1>1, RowIds
      <3> QED BY <3>1, <3>2, <3>3 DEF User
    <2> QED BY <2>1, <2>2
  <1>2. IInv /\ [Next]_vars => [A]_accountVars BY <1>1
  <1> HIDE DEF A
  <1>3. Spec => [][A]_accountVars BY <1>2, EngagementInvariant, PTL DEF Spec
  <1> QED BY <1>3 DEF NothingIsTakenBack, A

\* A merge leaves nothing under the guest's name, in any instance: the likes
\* it moved in two statements are all there are, because the guest's row is
\* held and an insert that references it waits (merge_guest_into()).
THEOREM MergeTakesEverything == Spec => MergeTakesAll
  <1> DEFINE A ==
        \A g \in DOMAIN users :
          users[g].merged = None /\ users'[g].merged # None =>
            /\ \A p \in Proposals : owner'[p] # g /\ <<p, g>> \notin likes'
            /\ \A c \in DOMAIN comments' : comments'[c].user # g
  <1>1. ASSUME IInv, [Next]_vars PROVE A
    <2>1. CASE \A w \in Workers : ~MarkMerged(w) BY <1>1, <2>1, StepKeeps DEF Kept
    <2>2. ASSUME NEW w \in Workers, MarkMerged(w) PROVE A
      <3> DEFINE g == req[w].guest
                 u == req[w].user
                 all == req[w].seen \cup req[w].held
      <3>1. /\ req[w].at = "mark"
            /\ users' = [users EXCEPT ![g].merged = u]
            /\ likes' = (likes \ {<<p, g>> : p \in all}) \cup {<<p, u>> : p \in req[w].held}
            /\ owner' = [p \in Proposals |-> IF owner[p] = g THEN u ELSE owner[p]]
            /\ comments' = [c \in DOMAIN comments |->
                              IF comments[c].user = g THEN [comments[c] EXCEPT !.user = u]
                              ELSE comments[c]]
        BY <2>2 DEF MarkMerged, At
      <3>2. g # u /\ LikedBy(g) \subseteq all
        BY <1>1, <3>1, RowIds
        DEF Fits, MergeFits, Merging, MergeSteps, Registered, IsGuest
      <3>3. \A p \in Proposals : owner'[p] # g BY <3>1, <3>2
      <3>4. \A p \in Proposals : <<p, g>> \notin likes' BY <3>1, <3>2 DEF LikedBy
      <3>5. \A c \in DOMAIN comments : comments[c] \in Comment BY <1>1, RowIds
      <3>6. \A c \in DOMAIN comments' : comments'[c].user # g BY <3>1, <3>2, <3>5 DEF Comment
      <3>7. \A h \in DOMAIN users : h # g => users'[h] = users[h] BY <3>1
      <3> QED BY <3>3, <3>4, <3>6, <3>7
    <2> QED BY <2>1, <2>2
  <1>2. IInv /\ [Next]_vars => [A]_vars BY <1>1
  <1> HIDE DEF A
  <1>3. Spec => [][A]_vars BY <1>2, EngagementInvariant, PTL DEF Spec
  <1> QED BY <1>3 DEF MergeTakesAll, A

\* A comment is changed by its author only, in any instance, although the
\* author was checked in a transaction of its own and the comment may have
\* moved with a merge in between (proposal_engagement.py).
THEOREM OnlyAuthorsChange == Spec => AuthorsChange
  <1> DEFINE A ==
        \A c \in DOMAIN comments :
          comments'[c].editor # comments[c].editor =>
            LET u == comments'[c].editor
            IN  comments[c].user \in {u, users[u].merged}
  <1>1. ASSUME IInv, [Next]_vars PROVE A
    <2>1. comments \in Seq(Comment) BY <1>1 DEF IInv, EngagementTypeOK
    <2>2. \A c \in DOMAIN comments : comments[c] \in Comment BY <2>1
    <2>3. CASE \A c \in DOMAIN comments : comments'[c].editor = comments[c].editor BY <2>3
    <2>4. ASSUME NEW w \in Workers, EditComment(w) \/ DeleteComment(w) PROVE A
      <3> DEFINE i == req[w].item
                 v == req[w].user
      <3>1. req[w].at \in {"edit", "delete"} BY <2>4 DEF EditComment, DeleteComment, At
      <3>2. i \in DOMAIN comments /\ comments[i].user \in {v, users[v].merged}
        BY <1>1, <3>1, RowIds DEF Fits, EngageFits
      <3>3. \/ comments' = [comments EXCEPT ![i].editor = v]
            \/ comments' = [comments EXCEPT ![i].deleted = TRUE, ![i].editor = v]
        BY <2>4 DEF EditComment, DeleteComment
      <3>4. /\ comments'[i].editor = v
            /\ \A c \in DOMAIN comments : c # i => comments'[c] = comments[c]
        <4>1. CASE comments' = [comments EXCEPT ![i].editor = v]
          BY <2>2, <3>2, <4>1 DEF Comment
        <4>2. CASE comments' = [comments EXCEPT ![i].deleted = TRUE, ![i].editor = v]
          BY <2>2, <3>2, <4>2 DEF Comment
        <4> QED BY <3>3, <4>1, <4>2
      <3> QED BY <3>2, <3>4
    <2>5. ASSUME NEW w \in Workers, AddComment(w) PROVE A
      <3>1. \E e : comments' = Append(comments, e) BY <2>5 DEF AddComment
      <3>2. \A c \in DOMAIN comments : comments'[c] = comments[c] BY <2>1, <3>1
      <3> QED BY <3>2
    <2>6. ASSUME NEW w \in Workers, MarkMerged(w) PROVE A
      <3>1. \A c \in DOMAIN comments : comments'[c].editor = comments[c].editor
        BY <2>2, <2>6 DEF MarkMerged, Comment
      <3> QED BY <3>1
    <2>7. CASE comments' = comments BY <2>7
    <2>8. CASE UNCHANGED <<rows, redeemed>> BY <2>7, <2>8 DEF rows
    <2>9. ASSUME NEW w \in Workers, Engage(w) \/ Change(w) \/ Overwrite(w) \/ Redeem(w)
          PROVE  comments' = comments
      BY <2>9 DEF Engage, Change, Overwrite, Redeem, rows
    <2>10. ASSUME NEW w \in Workers, MergeStep(w), ~MarkMerged(w) PROVE comments' = comments
      BY <2>10 DEF MergeStep, MergeLock, MoveProposals, DropLikes, MoveLikes, rows
    <2>11. ASSUME NEW w \in Workers, EngagementStep(w),
                  ~EditComment(w), ~DeleteComment(w), ~AddComment(w)
           PROVE  comments' = comments
      BY <2>11 DEF EngagementStep, AddLike, RemoveLike, AuthorizeComment, LockForOverwrite,
         WriteLog, InsertRedemption, rows
    <2>12. CASE Deadlock \/ UNCHANGED vars BY <2>7, <2>12 DEF Deadlock, vars, rows
    <2> QED BY <1>1, <2>4, <2>5, <2>6, <2>7, <2>8, <2>9, <2>10, <2>11, <2>12 DEF Next, Step
  <1>2. IInv /\ [Next]_vars => [A]_vars BY <1>1
  <1> HIDE DEF A
  <1>3. Spec => [][A]_vars BY <1>2, EngagementInvariant, PTL DEF Spec
  <1> QED BY <1>3 DEF AuthorsChange, A

-----------------------------------------------------------------------------
(* Who waits for whom.                                                      *)

\* A thread can take its next step: the guards of Step(w).
CanStep(w) ==
  LET r == req[w]
  IN  \/ r.at \in {"create", "issue", "mail", "check", "name", "drop", "may edit",
                   "may delete", "edit", "delete", "redeem"}
      \/ r.at = "replace" /\ \A v \in Workers : ~StoreWaits(w, v)
      \/ /\ r.at = "register"
         /\ \A v \in Workers : ~RegisterWaits(w, v) /\ ~RefersTo(v, r.user)
      \/ r.at \in {"use", "consume"} /\ \A v \in Workers : ~TokenHeld(r.code, v)
      \/ r.at \in {"confirm", "mark"} /\ ~Renaming(r.user)
      \/ r.at = "insert" /\ \A v \in Workers : ~NameHeld(r.name, v)
      \/ r.at = "merge" /\ ~UserHeld(r.guest)
      \/ /\ r.at = "move"
         /\ \A p \in Proposals :
              owner[p] = r.guest => ~OverwriteHolds(p) /\ ~Renaming(r.user)
      \/ r.at = "relike" /\ (LikedBy(r.guest) \ r.seen # {} => ~Renaming(r.user))
      \/ r.at = "like" /\ ~UserHeld(r.user) /\ ~LikeHeld(r.item, r.user)
      \/ r.at = "unlike" /\ ~LikeHeld(r.item, r.user)
      \/ r.at \in {"comment", "log"} /\ ~UserHeld(r.user)
      \/ r.at = "lock" /\ ~OverwriteHolds(r.item) /\ ~MergeHolds(r.item)

\* While there is a request in progress, one can go on or the database has a
\* deadlock to resolve.
RequestsGoOn ==
  (\E w \in Workers : ~At(w, "free")) =>
    (\E w \in Workers : CanStep(w)) \/ (\E D \in SUBSET Workers : Circle(D))

\* The deadlocks there are: a merge that waits for the row of an overwrite
\* that waits for the guest's row; and a registration that has the row of the
\* account and waits for its code beside requests for codes, or verifications,
\* that have codes and wait for that row.
MergeWithOverwrite(v, w) ==
  /\ At(v, "move") /\ At(w, "log")
  /\ req[v].guest = req[w].user /\ owner[req[w].item] = req[w].user
CodeSteps == {"use", "replace", "confirm"}
CirclesKnown ==
  \A D \in SUBSET Workers :
    Circle(D) =>
      \/ \E v, w \in D : D = {v, w} /\ MergeWithOverwrite(v, w)
      \/ (\A w \in D : req[w].at \in CodeSteps) /\ \E w \in D : At(w, "use")

\* An overwrite has the row of a proposal of its user, and no merge that has
\* moved the rows of its guest has that one.
OverwritesFit ==
  /\ \A w \in Workers : req[w].at \in {"lock", "log"} => req[w].item \in Proposals
  /\ \A w \in Workers : At(w, "log") => owner[req[w].item] = req[w].user
  /\ \A v, w \in Workers :
       At(w, "log") /\ req[v].at \in MergeHasRows => owner[req[w].item] # req[v].guest

\* A thread whose step is at no lock of a proposal, before and after.
Elsewhere == Steps \ ({"lock", "log"} \cup MergeHasRows)
Quiet(w) == owner' = owner /\ \E r : req' = [req EXCEPT ![w] = r] /\ r.at \in Elsewhere

LEMMA OverwritesStill ==
  ASSUME IInv, OverwritesFit, owner' = owner, NEW w \in Workers, NEW r,
         req' = [req EXCEPT ![w] = r],
         r.at \in {"lock", "log"} => r.item \in Proposals,
         r.at = "log" => owner[r.item] = r.user /\ ~MergeHolds(r.item),
         r.at \in MergeHasRows =>
           \/ req[w].at \in MergeHasRows /\ r.guest = req[w].guest
           \/ \A p \in Proposals : owner[p] = r.guest => ~OverwriteHolds(p)
  PROVE  OverwritesFit'
  <1>1. req'[w] = r /\ \A v \in Workers : v # w => req'[v] = req[v]
    BY DEF IInv, RequestsTyped
  <1>2. \A v \in Workers : req'[v].at \in {"lock", "log"} => req'[v].item \in Proposals
    BY <1>1 DEF OverwritesFit
  <1>3. \A v \in Workers : req'[v].at = "log" => owner'[req'[v].item] = req'[v].user
    BY <1>1 DEF OverwritesFit, At
  <1>4. ASSUME NEW u \in Workers, NEW v \in Workers,
               req'[u].at = "log", req'[v].at \in MergeHasRows
        PROVE  owner'[req'[u].item] # req'[v].guest
    <2>1. CASE u # w /\ v # w BY <1>1, <1>4, <2>1 DEF OverwritesFit, At
    <2>2. CASE u = w /\ v # w
      <3>1. ~MergeHolds(r.item) /\ req[v].at \in MergeHasRows BY <1>1, <1>4, <2>2
      <3> QED BY <1>1, <2>2, <3>1 DEF MergeHolds
    <2>3. CASE u # w /\ v = w
      <3>1. At(u, "log") /\ req[u].item \in Proposals BY <1>1, <1>4, <2>3 DEF OverwritesFit, At
      <3>2. OverwriteHolds(req[u].item) BY <3>1 DEF OverwriteHolds
      <3>3. req[w].at \in MergeHasRows => owner[req[u].item] # req[w].guest
        BY <3>1 DEF OverwritesFit
      <3> QED BY <1>1, <1>4, <2>3, <3>1, <3>2, <3>3
    <2>4. CASE u = w /\ v = w BY <1>4, <2>4 DEF MergeHasRows
    <2> QED BY <2>1, <2>2, <2>3, <2>4
  <1> QED BY <1>2, <1>3, <1>4 DEF OverwritesFit, At

LEMMA QuietStep ==
  ASSUME IInv, OverwritesFit, NEW w \in Workers, Quiet(w)
  PROVE  OverwritesFit'
  <1>1. PICK r : req' = [req EXCEPT ![w] = r] /\ r.at \in Elsewhere BY DEF Quiet
  <1>2. r.at \notin {"lock", "log"} /\ r.at \notin MergeHasRows BY <1>1 DEF Elsewhere
  <1> QED BY <1>1, <1>2, OverwritesStill DEF Quiet

\* Ends, and the steps of Go() that are quiet.
LEMMA QuietEnds ==
  ASSUME NEW w, owner' = owner, End(w)
  PROVE  Quiet(w)
  <1>1. Free.at \in Elsewhere BY DEF Free, Elsewhere, Steps, MergeHasRows
  <1> QED BY <1>1 DEF End, Quiet

LEMMA Went ==
  ASSUME IInv, NEW w \in Workers, NEW step, Go(w, step)
  PROVE  \E r : /\ req' = [req EXCEPT ![w] = r] /\ r.at = step
                /\ r.user = req[w].user /\ r.guest = req[w].guest /\ r.item = req[w].item
  <1> DEFINE r == [req[w] EXCEPT !.at = step]
  <1>1. req[w] \in Request BY DEF IInv, RequestsTyped
  <1>2. req' = [req EXCEPT ![w] = r] BY DEF Go
  <1>3. /\ r.at = step /\ r.user = req[w].user /\ r.guest = req[w].guest
        /\ r.item = req[w].item
    BY <1>1 DEF Request
  <1> HIDE DEF r
  <1> QED BY <1>2, <1>3

LEMMA QuietGoes ==
  ASSUME IInv, NEW w \in Workers, owner' = owner, NEW step \in Elsewhere, Go(w, step)
  PROVE  Quiet(w)
  <1>1. PICK r : req' = [req EXCEPT ![w] = r] /\ r.at = step BY Went
  <1> QED BY <1>1 DEF Quiet

LEMMA QuietAccounts ==
  ASSUME IInv, NEW w \in Workers, owner' = owner, AccountStep(w)
  PROVE  Quiet(w)
  <1>1. /\ "issue" \in Elsewhere /\ "replace" \in Elsewhere /\ "mail" \in Elsewhere
        /\ "consume" \in Elsewhere /\ "name" \in Elsewhere /\ "register" \in Elsewhere
        /\ "merge" \in Elsewhere /\ "use" \in Elsewhere /\ "confirm" \in Elsewhere
    BY DEF Elsewhere, Steps, MergeHasRows
  <1>2. req[w] \in Request /\ req \in [Workers -> Request] BY DEF IInv, RequestsTyped
  <1>3. CASE End(w) BY <1>3, QuietEnds
  <1>4. CASE \E step \in Elsewhere : Go(w, step) BY <1>4, QuietGoes
  <1>5. CASE CreatePending(w)
    <2> DEFINE r == [req[w] EXCEPT !.at = "issue", !.user = Len(users) + 1]
    <2>1. End(w) \/ req' = [req EXCEPT ![w] = r] BY <1>2, <1>5 DEF CreatePending
    <2>2. r.at = "issue" BY <1>2 DEF Request
    <2> HIDE DEF r
    <2> QED BY <1>1, <1>3, <2>1, <2>2 DEF Quiet
  <1>6. CASE MarkOld(w)
    <2> DEFINE old == OldCodes(req[w].user)
               r == [req[w] EXCEPT !.at = "replace", !.seen = old, !.began = clock + 1]
    <2>1. req' = [req EXCEPT ![w] = r] BY <1>2, <1>6 DEF MarkOld
    <2> HIDE DEF old
    <2>2. r.at = "replace" BY <1>2 DEF Request
    <2> HIDE DEF r
    <2> QED BY <1>1, <2>1, <2>2 DEF Quiet
  <1>7. CASE StoreCode(w)
    <2> DEFINE r == [req[w] EXCEPT !.at = "mail", !.code = Len(codes) + 1]
    <2>1. req' = [req EXCEPT ![w] = r] BY <1>2, <1>7 DEF StoreCode
    <2>2. r.at = "mail" BY <1>2 DEF Request
    <2> HIDE DEF r
    <2> QED BY <1>1, <2>1, <2>2 DEF Quiet
  <1>8. CASE Mail(w) \/ CreateUser(w) BY <1>3, <1>8 DEF Mail, CreateUser
  <1>9. CASE CheckCode(w) BY <1>1, <1>3, <1>4, <1>9 DEF CheckCode
  <1>10. CASE CheckName(w) BY <1>1, <1>3, <1>4, <1>10 DEF CheckName
  <1>11. CASE Register(w) BY <1>1, <1>3, <1>4, <1>11 DEF Register
  <1>12. CASE Consume(w) BY <1>1, <1>4, <1>12 DEF Consume
  <1>13. CASE UseCode(w) \/ Confirm(w)
    BY <1>1, <1>3, <1>4, <1>13 DEF UseCode, Confirm, SignedIn
  <1> QED BY <1>5, <1>6, <1>7, <1>8, <1>9, <1>10, <1>11, <1>12, <1>13 DEF AccountStep

LEMMA QuietAccepts ==
  ASSUME NEW w, NEW kind, NEW r, Accept(w, kind, r), owner' = owner, r.at \in Elsewhere
  PROVE  Quiet(w)
  BY DEF Accept, Quiet

LEMMA QuietRequests ==
  ASSUME NEW w \in Workers, owner' = owner,
         AccountRequest(w) \/ Engage(w) \/ Change(w) \/ Redeem(w)
  PROVE  Quiet(w)
  <1> USE DEF Free, Elsewhere, Steps, MergeHasRows
  <1>1. CASE RequestCode(w)
    <2>1. PICK e \in Emails :
            \/ Accept(w, "code", [Free EXCEPT !.at = "create", !.email = e])
            \/ \E u \in ByEmail(e) :
                 Accept(w, "code", [Free EXCEPT !.at = "issue", !.user = u])
      BY <1>1 DEF RequestCode
    <2> QED BY <2>1, QuietAccepts
  <1>2. CASE Verify(w)
    <2>1. PICK c \in DOMAIN codes, n \in Names \cup {None},
               g \in {u \in DOMAIN users : IsGuest(u)} \cup {None} :
            Accept(w, "verify",
              [Free EXCEPT !.at = "check", !.user = codes[c].user, !.code = c,
                           !.verified = users[codes[c].user].verified,
                           !.name = n, !.guest = g])
      BY <1>2 DEF Verify
    <2> QED BY <2>1, QuietAccepts
  <1>3. CASE Guest(w)
    <2>1. PICK n \in GuestNames : Accept(w, "guest", [Free EXCEPT !.at = "insert", !.name = n])
      BY <1>3 DEF Guest
    <2> QED BY <2>1, QuietAccepts
  <1>4. CASE SignInOperator(w)
    <2>1. PICK e \in Operators, n \in Names :
            Accept(w, "operator", [Free EXCEPT !.at = "insert", !.email = e, !.name = n])
      BY <1>4 DEF SignInOperator
    <2> QED BY <2>1, QuietAccepts
  <1>5. CASE Engage(w)
    <2>1. PICK u \in Identities, p \in Proposals, step \in {"like", "unlike", "comment"} :
            Accept(w, step, [Free EXCEPT !.at = step, !.user = u, !.item = p])
      BY <1>5 DEF Engage
    <2> QED BY <2>1, QuietAccepts
  <1>6. CASE Change(w)
    <2>1. PICK u \in Identities, c \in DOMAIN comments, step \in {"may edit", "may delete"} :
            Accept(w, "change", [Free EXCEPT !.at = step, !.user = u, !.item = c])
      BY <1>6 DEF Change
    <2> QED BY <2>1, QuietAccepts
  <1>7. CASE Redeem(w)
    <2>1. Accept(w, "redeem", [Free EXCEPT !.at = "redeem"]) BY <1>7 DEF Redeem
    <2> QED BY <2>1, QuietAccepts
  <1> QED BY <1>1, <1>2, <1>3, <1>4, <1>5, <1>6, <1>7 DEF AccountRequest

\* The steps about the locks of proposals.
LEMMA OverwriteFitsStep ==
  ASSUME IInv, OverwritesFit, NEW w \in Workers, Overwrite(w)
  PROVE  OverwritesFit'
  <1>1. PICK u \in Identities, p \in Proposals :
          /\ Accept(w, "overwrite", [Free EXCEPT !.at = "lock", !.user = u, !.item = p])
          /\ UNCHANGED rows
    BY DEF Overwrite, rows
  <1> DEFINE r == [Free EXCEPT !.at = "lock", !.user = u, !.item = p]
  <1>2. r.at = "lock" /\ r.item = p BY DEF Free
  <1>3. req' = [req EXCEPT ![w] = r] /\ owner' = owner BY <1>1 DEF Accept, rows
  <1> HIDE DEF r
  <1> QED BY <1>2, <1>3, OverwritesStill DEF MergeHasRows

LEMMA LockFitsStep ==
  ASSUME IInv, OverwritesFit, NEW w \in Workers, LockForOverwrite(w)
  PROVE  OverwritesFit'
  <1>1. owner' = owner BY DEF LockForOverwrite, rows
  <1>2. CASE End(w) BY <1>1, <1>2, QuietEnds, QuietStep
  <1>3. CASE Go(w, "log") /\ owner[req[w].item] = req[w].user
    <2>1. Go(w, "log") BY <1>3
    <2>2. PICK r : /\ req' = [req EXCEPT ![w] = r] /\ r.at = "log"
                   /\ r.item = req[w].item /\ r.user = req[w].user
      BY <2>1, Went
    <2>3. r.item \in Proposals BY <2>2 DEF LockForOverwrite, OverwritesFit, At
    <2>4. ~MergeHolds(r.item) BY <2>2 DEF LockForOverwrite
    <2> QED BY <1>1, <1>3, <2>2, <2>3, <2>4, OverwritesStill DEF MergeHasRows
  <1> QED BY <1>2, <1>3 DEF LockForOverwrite

LEMMA MergeFitsLocks ==
  ASSUME IInv, OverwritesFit, NEW w \in Workers, MergeStep(w)
  PROVE  OverwritesFit'
  <1> DEFINE q == req[w]
  <1>1. q \in Request /\ req \in [Workers -> Request] BY DEF IInv, RequestsTyped
  <1>2. CASE End(w) /\ owner' = owner BY <1>2, QuietEnds, QuietStep
  <1>3. CASE MergeLock(w)
    <2>1. owner' = owner /\ (End(w) \/ Go(w, "move")) BY <1>3 DEF MergeLock, rows
    <2>2. "move" \in Elsewhere BY DEF Elsewhere, Steps, MergeHasRows
    <2> QED BY <1>2, <2>1, <2>2, QuietGoes, QuietStep
  <1>4. CASE MoveProposals(w)
    <2>1. Go(w, "drop") BY <1>4 DEF MoveProposals
    <2>2. owner' = owner BY <1>4 DEF MoveProposals, rows
    <2>3. PICK r : req' = [req EXCEPT ![w] = r] /\ r.at = "drop" /\ r.guest = q.guest
      BY <2>1, Went
    <2>4. \A p \in Proposals : owner[p] = r.guest => ~OverwriteHolds(p)
      BY <1>4, <2>3 DEF MoveProposals
    <2> QED BY <2>2, <2>3, <2>4, OverwritesStill
  <1>5. CASE DropLikes(w)
    <2> DEFINE seen == LikedBy(q.guest) \cap LikedBy(q.user)
               r == [q EXCEPT !.at = "relike", !.seen = seen]
    <2>1. req' = [req EXCEPT ![w] = r] /\ owner' = owner /\ q.at \in MergeHasRows
      BY <1>1, <1>5 DEF DropLikes, rows, At, MergeHasRows
    <2> HIDE DEF seen
    <2>2. r.at = "relike" /\ r.guest = q.guest BY <1>1 DEF Request
    <2> HIDE DEF r
    <2> QED BY <2>1, <2>2, OverwritesStill
  <1>6. CASE MoveLikes(w)
    <2> DEFINE rest == LikedBy(q.guest) \ q.seen
               r == [q EXCEPT !.at = "mark", !.held = rest]
    <2>1. /\ owner' = owner /\ q.at \in MergeHasRows
          /\ req' = [req EXCEPT ![w] = r] \/ End(w)
      BY <1>1, <1>6 DEF MoveLikes, rows, At, MergeHasRows
    <2> HIDE DEF rest
    <2>2. r.at = "mark" /\ r.guest = q.guest BY <1>1 DEF Request
    <2> HIDE DEF r
    <2>3. CASE req' = [req EXCEPT ![w] = r] BY <2>1, <2>2, <2>3, OverwritesStill
    <2> QED BY <1>2, <2>1, <2>3
  <1>7. CASE MarkMerged(w)
    <2>1. /\ q.at \in MergeHasRows /\ End(w)
          /\ owner' = [p \in Proposals |-> IF owner[p] = q.guest THEN q.user ELSE owner[p]]
      BY <1>7 DEF MarkMerged, At, MergeHasRows
    <2>2. /\ req'[w].at = "free"
          /\ \A v \in Workers : v # w => req'[v] = req[v]
      BY <1>1, <2>1, FreeType DEF End
    <2>3. Registered(q.user) /\ q.guest \in DOMAIN users /\ IsGuest(q.guest)
      BY <2>1, RowIds DEF Fits, MergeFits, MergeHasRows, Merging, MergeSteps
    <2>4. q.user # q.guest BY <2>3 DEF Registered, IsGuest
    <2>5. \A v \in Workers :
            req'[v].at \in {"lock", "log"} => v # w /\ req[v].item \in Proposals
      BY <2>2 DEF OverwritesFit
    <2>6. ASSUME NEW v \in Workers, req'[v].at = "log"
          PROVE  v # w /\ At(v, "log") /\ owner'[req[v].item] = owner[req[v].item]
      <3>1. v # w /\ req[v].item \in Proposals /\ At(v, "log") BY <2>2, <2>5, <2>6 DEF At
      <3>2. owner[req[v].item] # q.guest BY <2>1, <3>1 DEF OverwritesFit
      <3> QED BY <2>1, <3>1, <3>2
    <2>7. \A v \in Workers : req'[v].at = "log" => owner'[req'[v].item] = req'[v].user
      BY <2>2, <2>6 DEF OverwritesFit
    <2>8. ASSUME NEW u \in Workers, NEW v \in Workers,
                 req'[u].at = "log", req'[v].at \in MergeHasRows
          PROVE  owner'[req'[u].item] # req'[v].guest
      <3>1. v # w BY <2>2, <2>8 DEF MergeHasRows
      <3>2. owner[req[u].item] # req[v].guest BY <2>2, <2>6, <2>8, <3>1 DEF OverwritesFit
      <3> QED BY <2>2, <2>6, <2>8, <3>1, <3>2
    <2>9. \A v \in Workers : req'[v].at \in {"lock", "log"} => req'[v].item \in Proposals
      BY <2>2, <2>5
    <2> QED BY <2>7, <2>8, <2>9 DEF OverwritesFit, At
  <1> QED BY <1>3, <1>4, <1>5, <1>6, <1>7 DEF MergeStep

LEMMA EngagementFitsLocks ==
  ASSUME IInv, OverwritesFit, NEW w \in Workers, EngagementStep(w)
  PROVE  OverwritesFit'
  <1>1. CASE LockForOverwrite(w) BY <1>1, LockFitsStep
  <1>2. CASE AuthorizeComment(w)
    <2>1. "edit" \in Elsewhere /\ "delete" \in Elsewhere BY DEF Elsewhere, Steps, MergeHasRows
    <2>2. owner' = owner /\ (End(w) \/ \E step \in {"edit", "delete"} : Go(w, step))
      BY <1>2 DEF AuthorizeComment, rows
    <2> QED BY <2>1, <2>2, QuietEnds, QuietGoes, QuietStep
  <1>3. CASE End(w) /\ owner' = owner BY <1>3, QuietEnds, QuietStep
  <1> QED BY <1>1, <1>2, <1>3
    DEF EngagementStep, AddLike, RemoveLike, AddComment, EditComment, DeleteComment, WriteLog,
        InsertRedemption, rows

LEMMA OverwritesInvariant == IInv /\ OverwritesFit /\ [Next]_vars => OverwritesFit'
  <1> SUFFICES ASSUME IInv, OverwritesFit, [Next]_vars PROVE OverwritesFit' OBVIOUS
  <1>1. ASSUME NEW w \in Workers, AccountRequest(w) \/ Engage(w) \/ Change(w) \/ Redeem(w),
               owner' = owner
        PROVE  OverwritesFit'
    BY <1>1, QuietRequests, QuietStep
  <1>2. ASSUME NEW w \in Workers, AccountStep(w), UNCHANGED <<rows, redeemed>>
        PROVE  OverwritesFit'
    BY <1>2, QuietAccounts, QuietStep DEF rows
  <1>3. ASSUME NEW w \in Workers, End(w), owner' = owner PROVE OverwritesFit'
    BY <1>3, QuietEnds, QuietStep
  <1>4. ASSUME NEW w \in Workers, Raises(w), UNCHANGED <<rows, redeemed>> PROVE OverwritesFit'
    BY <1>3, <1>4 DEF Raises, rows
  <1>5. CASE Deadlock BY <1>3, <1>5 DEF Deadlock, rows
  <1>6. ASSUME UNCHANGED <<req, owner>> PROVE OverwritesFit' BY <1>6 DEF OverwritesFit, At
  <1>7. CASE (Expire /\ UNCHANGED <<rows, redeemed>>) \/ UNCHANGED vars
    BY <1>6, <1>7 DEF Expire, rows, vars, accountVars
  <1>8. ASSUME NEW w \in Workers, Engage(w) \/ Change(w) \/ Redeem(w) PROVE owner' = owner
    BY <1>8 DEF Engage, Change, Redeem, rows
  <1>9. ASSUME NEW w \in Workers, AccountRequest(w), UNCHANGED <<rows, redeemed>>
        PROVE  OverwritesFit'
    BY <1>1, <1>9 DEF rows
  <1>10. ASSUME NEW w \in Workers, Engage(w) \/ Change(w) \/ Redeem(w) PROVE OverwritesFit'
    BY <1>1, <1>8, <1>10
  <1>11. ASSUME NEW w \in Workers, Step(w) PROVE OverwritesFit'
    BY <1>2, <1>11, MergeFitsLocks, EngagementFitsLocks DEF Step
  <1> QED BY <1>4, <1>5, <1>7, <1>9, <1>10, <1>11, OverwriteFitsStep DEF Next

\* A thread that is busy and cannot take its step waits for another.
LEMMA StuckWaits ==
  ASSUME IInv, NEW w \in Workers
  PROVE  At(w, "free") \/ CanStep(w) \/ \E v \in Workers : WaitsFor(w, v)
  <1> DEFINE r == req[w]
             Waits == \E v \in Workers : WaitsFor(w, v)
  <1>1. r.at \in Steps BY DEF IInv, RequestsTyped, Request
  <1>2. CASE r.at = "replace" BY <1>2 DEF CanStep, WaitsFor
  <1>3. CASE r.at = "register" BY <1>3 DEF CanStep, WaitsFor
  <1>4. CASE r.at \in {"use", "consume"} BY <1>4 DEF CanStep, WaitsFor
  <1>5. CASE r.at \in {"confirm", "mark"} BY <1>5 DEF CanStep, WaitsFor, Renaming
  <1>6. CASE r.at = "insert" BY <1>6 DEF CanStep, WaitsFor
  <1>7. CASE r.at = "merge" BY <1>7 DEF CanStep, WaitsFor, UserHeld
  <1>8. CASE r.at = "move"
    <2>1. ASSUME NEW p \in Proposals, owner[p] = r.guest, OverwriteHolds(p) PROVE Waits
      <3>1. PICK v \in Workers : At(v, "log") /\ req[v].item = p BY <2>1 DEF OverwriteHolds
      <3> QED BY <1>8, <2>1, <3>1 DEF WaitsFor
    <2>2. ASSUME NEW p \in Proposals, owner[p] = r.guest, Renaming(r.user) PROVE Waits
      <3>1. PICK v \in Workers : Renames(v, r.user) BY <2>2 DEF Renaming
      <3> QED BY <1>8, <2>2, <3>1 DEF WaitsFor
    <2> QED BY <1>8, <2>1, <2>2 DEF CanStep
  <1>9. CASE r.at = "relike" BY <1>9 DEF CanStep, WaitsFor, Renaming
  <1>10. CASE r.at \in {"like", "unlike"} BY <1>10 DEF CanStep, WaitsFor, UserHeld, LikeHeld
  <1>11. CASE r.at \in {"comment", "log"} BY <1>11 DEF CanStep, WaitsFor, UserHeld
  <1>12. CASE r.at = "lock" BY <1>12 DEF CanStep, WaitsFor, OverwriteHolds, MergeHolds
  <1>13. CASE r.at \in {"free", "create", "issue", "mail", "check", "name", "drop", "may edit",
                        "may delete", "edit", "delete", "redeem"}
    BY <1>13 DEF CanStep, At
  <1> QED BY <1>1, <1>2, <1>3, <1>4, <1>5, <1>6, <1>7, <1>8, <1>9, <1>10, <1>11, <1>12, <1>13
    DEF Steps

\* Nobody waits for a thread that has no request.
LEMMA Busy ==
  ASSUME NEW w, NEW v, WaitsFor(w, v)
  PROVE  ~At(v, "free")
  BY DEF WaitsFor, StoreWaits, Before, Renames, RegisterWaits, NameHeld, RefersTo, TokenHeld,
         MergeHasUser, MergeSteps, MergeHasRows, HoldsLike, Dropped, Moved, At

\* A set of naturals that is not empty has a least one.
LEMMA LeastNumber ==
  ASSUME NEW T, T \subseteq Nat, T # {}
  PROVE  \E n \in T : \A k \in T : n <= k
  <1> DEFINE L == {ss \in Nat \X Nat : ss[1] < ss[2]}
  <1>1. IsWellFoundedOn(L, Nat) BY NatLessThanWellFounded DEF OpToRel
  <1> HIDE DEF L
  <1>2. \E n \in T : \A k \in T : ~(<<k, n>> \in L) BY <1>1, WFMin
  <1>3. PICK n \in T : \A k \in T : ~(k < n) BY <1>2 DEF L
  <1>4. \A k \in T : n <= k BY <1>3
  <1> QED BY <1>4

\* Threads that wait for each other have a circle among them.
LEMMA CircleWithin ==
  ASSUME NEW D \in SUBSET Workers, Entangled(D)
  PROVE  \E E \in SUBSET D : Circle(E)
  <1> DEFINE T == {Cardinality(E) : E \in {F \in SUBSET D : Entangled(F)}}
  <1>1. \A E \in SUBSET D : IsFiniteSet(E) /\ Cardinality(E) \in Nat
    BY AccountAssumptions, FS_Subset, FS_CardinalityType
  <1>2. T \subseteq Nat /\ T # {} BY <1>1
  <1>3. PICK n \in T : \A k \in T : n <= k BY <1>2, LeastNumber
  <1>4. PICK E \in SUBSET D : Entangled(E) /\ n = Cardinality(E) BY <1>3
  <1>5. ASSUME NEW F \in SUBSET E, Entangled(F) PROVE F = E
    <2>1. F \in SUBSET D /\ n <= Cardinality(F) BY <1>3, <1>4, <1>5
    <2>2. Cardinality(F) <= Cardinality(E) /\ (Cardinality(F) = Cardinality(E) => F = E)
      BY <1>1, <1>4, FS_Subset
    <2> QED BY <1>1, <1>4, <2>1, <2>2
  <1> QED BY <1>4, <1>5 DEF Circle

\* UPDATEs of issue_otp() wait in the order they began, so one of them is first.
LEMMA ReplacesInOrder ==
  ASSUME IInv, NEW D \in SUBSET Workers, \E w \in D : At(w, "replace")
  PROVE  \E w \in D : At(w, "replace") /\ \A v \in D : ~Before(v, w)
  <1> DEFINE R == {w \in D : At(w, "replace")}
             T == {req[w].began : w \in R}
  <1>1. \A w \in R : req[w].began \in Nat
    <2>1. \A w \in Workers : At(w, "replace") => req[w].began \in CodeIds
      BY RowIds DEF Fits, IssueFits, At
    <2>2. CodeIds \subseteq Nat BY DEF CodeIds
    <2> QED BY <2>1, <2>2
  <1>2. T \subseteq Nat /\ T # {} BY <1>1
  <1> HIDE DEF T
  <1>3. PICK n \in T : \A k \in T : n <= k BY <1>2, LeastNumber
  <1>4. PICK w \in R : req[w].began = n BY <1>3 DEF T
  <1>5. ASSUME NEW v \in D, Before(v, w) PROVE FALSE
    <2>1. v \in R /\ req[v].began < req[w].began BY <1>5 DEF Before
    <2>2. req[v].began \in T BY <2>1 DEF T
    <2> QED BY <1>1, <1>3, <1>4, <2>1, <2>2
  <1> QED BY <1>4, <1>5

\* Whom the threads wait for that have a code, or want one.
LEMMA CodeStepsWait ==
  ASSUME NEW w, NEW v, req[w].at \in CodeSteps, WaitsFor(w, v)
  PROVE  req[v].at \in CodeSteps
  BY DEF CodeSteps, WaitsFor, StoreWaits, Before, TokenHeld, Renames, At

\* Without a registration that waits for its code a circle is one of a merge
\* and an overwrite.
LEMMA WithoutRegistration ==
  ASSUME IInv, OverwritesFit, NEW D \in SUBSET Workers, Entangled(D),
         \A w \in D : ~At(w, "use")
  PROVE  \E v, w \in D : MergeWithOverwrite(v, w)
  <1>1. D # {} /\ \A w \in D : \E v \in D : WaitsFor(w, v) BY DEF Entangled
  <1>2. \A v \in D : \A u, n : ~Renames(v, u) /\ ~NameHeld(n, v) BY DEF Renames, NameHeld
  <1>3. \A w \in D : ~At(w, "confirm") BY <1>1, <1>2 DEF WaitsFor, At
  <1>4. \A w \in D : ~At(w, "replace")
    <2> SUFFICES ASSUME \E w \in D : At(w, "replace") PROVE FALSE OBVIOUS
    <2>1. PICK w \in D : At(w, "replace") /\ \A v \in D : ~Before(v, w) BY ReplacesInOrder
    <2>2. PICK v \in D : WaitsFor(w, v) BY <1>1
    <2>3. StoreWaits(w, v) BY <2>1, <2>2 DEF WaitsFor, At
    <2> QED BY <1>2, <1>3, <2>1, <2>3 DEF StoreWaits
  <1>5. \A v \in D : \A c : ~TokenHeld(c, v) BY <1>3, <1>4 DEF TokenHeld
  <1>6. \A w \in D : req[w].at \notin MergeHasRows
    <2>1. ASSUME NEW w \in D, NEW v \in D, WaitsFor(w, v), req[w].at \in MergeHasRows PROVE FALSE
      <3>1. Renames(v, req[w].user) BY <2>1 DEF WaitsFor, MergeHasRows
      <3> QED BY <1>2, <3>1
    <2> QED BY <1>1, <2>1
  <1>7. ASSUME NEW v \in D, NEW u, MergeHasUser(v, u) PROVE At(v, "move")
    BY <1>6, <1>7 DEF MergeHasUser, MergeSteps, MergeHasRows, At
  <1>8. ASSUME NEW v \in D, NEW p, NEW u, HoldsLike(v, p, u) PROVE FALSE
    BY <1>6, <1>8 DEF HoldsLike, Dropped, Moved, MergeHasRows, At
  <1>9. ASSUME NEW w \in D, NEW v \in D, WaitsFor(w, v)
        PROVE  At(v, "move") \/ At(v, "log")
    <2>1. \A u, n : ~Renames(v, u) /\ ~NameHeld(n, v) BY <1>2
    <2>2. \A u : ~RefersTo(v, u) /\ req[v].at \notin MergeHasRows BY <1>6 DEF RefersTo
    <2>3. \A c : ~TokenHeld(c, v) BY <1>5
    <2>4. \A p, u : ~HoldsLike(v, p, u) BY <1>8
    <2>5. \A u : MergeHasUser(v, u) => At(v, "move") BY <1>7
    <2>6. req[w].at \notin {"replace", "confirm"} BY <1>3, <1>4 DEF At
    <2>7. ~RegisterWaits(w, v) BY <2>1 DEF RegisterWaits
    <2> QED BY <1>9, <2>1, <2>2, <2>3, <2>4, <2>5, <2>6, <2>7 DEF WaitsFor
  <1>10. \E m \in D : At(m, "move")
    <2>1. PICK w \in D, v \in D : WaitsFor(w, v) BY <1>1
    <2>2. CASE At(v, "log")
      <3>1. PICK m \in D : WaitsFor(v, m) BY <1>1
      <3>2. MergeHasUser(m, req[v].user) BY <1>2, <2>2, <3>1 DEF WaitsFor, At
      <3> QED BY <1>7, <3>2
    <2> QED BY <1>9, <2>1, <2>2
  <1>11. PICK m \in D : At(m, "move") BY <1>10
  <1>12. PICK w \in D : WaitsFor(m, w) BY <1>1
  <1>13. At(w, "log") /\ owner[req[w].item] = req[m].guest BY <1>2, <1>11, <1>12 DEF WaitsFor, At
  <1>14. owner[req[w].item] = req[w].user BY <1>13 DEF OverwritesFit
  <1> QED BY <1>11, <1>13, <1>14 DEF MergeWithOverwrite

LEMMA KnownCircles ==
  ASSUME IInv, OverwritesFit, NEW D \in SUBSET Workers, Circle(D)
  PROVE  \/ \E v, w \in D : D = {v, w} /\ MergeWithOverwrite(v, w)
         \/ (\A w \in D : req[w].at \in CodeSteps) /\ \E w \in D : At(w, "use")
  <1>1. Entangled(D) /\ \A E \in SUBSET D : Entangled(E) => E = D BY DEF Circle
  <1>2. CASE \E w \in D : At(w, "use")
    <2> DEFINE E == {w \in D : req[w].at \in CodeSteps}
    <2>1. E # {} BY <1>2 DEF CodeSteps, At
    <2>2. \A w \in E : \E v \in E : WaitsFor(w, v) BY <1>1, CodeStepsWait DEF Entangled
    <2>3. E = D BY <1>1, <2>1, <2>2 DEF Entangled
    <2> QED BY <1>2, <2>3
  <1>3. CASE \A w \in D : ~At(w, "use")
    <2>1. PICK v \in D, w \in D : MergeWithOverwrite(v, w) BY <1>1, <1>3, WithoutRegistration
    <2>2. WaitsFor(w, v)
      BY <2>1 DEF MergeWithOverwrite, WaitsFor, MergeHasUser, MergeSteps, At
    <2>3. req[w].item \in Proposals BY <2>1 DEF MergeWithOverwrite, OverwritesFit, At
    <2>4. WaitsFor(v, w) BY <2>1, <2>3 DEF MergeWithOverwrite, WaitsFor, At
    <2>5. Entangled({v, w}) BY <2>2, <2>4 DEF Entangled
    <2> QED BY <1>1, <2>1, <2>5
  <1> QED BY <1>2, <1>3

LEMMA OverwritesAlwaysFit == Spec => []OverwritesFit
  <1>1. Init => OverwritesFit
    <2> SUFFICES ASSUME Init PROVE OverwritesFit OBVIOUS
    <2>1. \A w \in Workers : req[w].at = "free" BY FreeType DEF Init, AccountsInit
    <2> QED BY <2>1 DEF OverwritesFit, At, MergeHasRows
  <1> QED BY <1>1, OverwritesInvariant, EngagementInvariant, PTL DEF Spec

\* In any instance requests do not hang on each other's row locks: some
\* request can go on, or there is a circle that PostgreSQL finds and resolves
\* (issue_otp(), complete_registration(), consume_otp(), merge_guest_into(),
\* likes, comments and overwrites).  No request waits for itself on another
\* connection, and none for a lock that nobody in the tables holds.
THEOREM RequestsNeverHang == Spec => []RequestsGoOn
  <1>1. ASSUME IInv, NEW b \in Workers, ~At(b, "free"), \A w \in Workers : ~CanStep(w)
        PROVE  \E D \in SUBSET Workers : Circle(D)
    <2> DEFINE D == {w \in Workers : ~At(w, "free")}
    <2>1. ASSUME NEW w \in D PROVE \E v \in D : WaitsFor(w, v)
      <3>1. PICK v \in Workers : WaitsFor(w, v) BY <1>1, StuckWaits
      <3>2. ~At(v, "free") BY <3>1, Busy
      <3> QED BY <3>1, <3>2
    <2>2. Entangled(D) BY <1>1, <2>1 DEF Entangled
    <2>3. PICK E \in SUBSET D : Circle(E) BY <2>2, CircleWithin
    <2> QED BY <2>3
  <1>2. IInv => RequestsGoOn BY <1>1 DEF RequestsGoOn
  <1> QED BY <1>2, EngagementInvariant, PTL

\* The only deadlocks of any instance are those of a merge with an overwrite
\* of the guest, and of a registration with requests for a code of the same
\* account: the order in which the repositories lock rows allows no other.
THEOREM OnlyKnownDeadlocks == Spec => []CirclesKnown
  <1>1. IInv /\ OverwritesFit => CirclesKnown BY KnownCircles DEF CirclesKnown
  <1> QED BY <1>1, OverwritesAlwaysFit, EngagementInvariant, PTL
=============================================================================
