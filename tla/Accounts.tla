------------------------------ MODULE Accounts ------------------------------
(***************************************************************************)
(* Accounts: one-time codes, registration, guest sessions, sign-in of       *)
(* operators, and the identity a request acts under (api/auth.py,           *)
(* api/auth_middleware.py, adapters/auth_repository.py).  The merge of a    *)
(* guest is in Engagement, with the rows it moves.                          *)
(*                                                                         *)
(* A request thread handles one request at a time.  Every repository call   *)
(* is a transaction of its own and a step of its own; a transaction whose   *)
(* statements can be told apart from outside (READ COMMITTED: each one sees *)
(* what was committed when it started) is several steps, and its writes     *)
(* appear with the last one.  Row locks are not stored: who holds which is  *)
(* read off the step a thread is at.                                       *)
(***************************************************************************)
EXTENDS Integers, Sequences, FiniteSets

CONSTANTS
  Workers,      \* request threads
  Emails,       \* addresses people register with
  Operators,    \* those of them that can sign in through the identity provider
  Names,        \* display names people choose
  GuestNames,   \* names generate_guest_name() may draw
  Folded,       \* what LOWER() makes of a name
  Workload,     \* the kinds of request of this instance
  MaxRequests,  \* bound: requests accepted
  StartUsers,   \* the rows of admin.users at the start,
  StartCodes,   \* and of admin.auth_tokens
  None          \* SQL NULL, and the placeholder name of a pending account

ASSUME AccountAssumptions ==
  /\ Operators \subseteq Emails
  /\ Folded \in [Names \cup GuestNames -> Names \cup GuestNames]
  /\ MaxRequests \in Nat
  /\ IsFiniteSet(Workers)
  /\ None \notin Emails \cup Names \cup GuestNames \cup Workers \cup Nat

VARIABLES
  users,     \* admin.users, the row's number is user_id
  codes,     \* admin.auth_tokens, the row's number is token_id
  sessions,  \* answers of verify() that carried a token
  clock,     \* the order in which the transactions of issue_otp() began
  started,   \* requests accepted so far
  req        \* what each thread is at

tables == <<users, codes, sessions, clock>>
accountVars == <<users, codes, sessions, clock, started, req>>

-----------------------------------------------------------------------------
(* Rows and requests.                                                      *)

UserIds == 1 .. (Len(StartUsers) + MaxRequests)
CodeIds == 1 .. (Len(StartCodes) + MaxRequests)
User ==
  [email : Emails \cup {None}, name : Names \cup GuestNames \cup {None},
   verified : BOOLEAN, merged : UserIds \cup {None}, by : Workers \cup {None}]
Code ==
  [user : UserIds, used : BOOLEAN, expired : BOOLEAN, sent : BOOLEAN,
   created : CodeIds, by : Workers]

\* The tables at the start: every code is of an account with an address, and
\* the codes and names that race there were taken by different threads.
ASSUME StartAccountsAssumption ==
  /\ StartUsers \in Seq(User) /\ StartCodes \in Seq(Code)
  /\ \A c \in DOMAIN StartCodes :
       /\ StartCodes[c].user \in DOMAIN StartUsers
       /\ StartUsers[StartCodes[c].user].email # None
  /\ \A u \in DOMAIN StartUsers :
       StartUsers[u].merged # None =>
         /\ StartUsers[u].merged \in DOMAIN StartUsers
         /\ StartUsers[StartUsers[u].merged].email # None
  /\ \A c, d \in DOMAIN StartCodes :
       /\ c # d /\ StartCodes[c].user = StartCodes[d].user
       /\ ~StartCodes[c].used /\ ~StartCodes[d].used
       => StartCodes[c].by # StartCodes[d].by
  /\ \A u, v \in DOMAIN StartUsers :
       /\ u # v /\ StartUsers[u].name # None /\ StartUsers[v].name # None
       /\ Folded[StartUsers[u].name] = Folded[StartUsers[v].name]
       => StartUsers[u].by # StartUsers[v].by

\* A request in progress.  `user` is whom it acts for; `verified` and `seen`
\* are what it read and may be outdated by now.
Free ==
  [at |-> "free", user |-> None, email |-> None, name |-> None, code |-> None,
   guest |-> None, verified |-> FALSE, seen |-> {}, held |-> {},
   began |-> None, item |-> None]

At(w, step) == req[w].at = step
Go(w, step) == req' = [req EXCEPT ![w].at = step]
End(w) == req' = [req EXCEPT ![w] = Free]

\* A request of this kind is accepted while the bound allows it.
Accept(w, kind, r) ==
  /\ kind \in Workload /\ At(w, "free") /\ started < MaxRequests
  /\ started' = started + 1
  /\ req' = [req EXCEPT ![w] = r]

ByEmail(e) == {u \in DOMAIN users : users[u].email = e}
IsGuest(u) == users[u].email = None

\* display_name_taken() folds case, the UNIQUE constraint does not.
TakenExactly(n) == \E u \in DOMAIN users : users[u].name = n
Taken(n) ==
  \E u \in DOMAIN users :
    users[u].name # None /\ Folded[users[u].name] = Folded[n]

\* Identities the middleware lets through: guests by the token of their
\* session, verified accounts by theirs, operators by the row of their
\* address, and none of them once merged.
Identities ==
  {u \in DOMAIN users :
     /\ users[u].merged = None
     /\ IsGuest(u) \/ users[u].verified \/ users[u].email \in Operators}

Unused(u) == {c \in DOMAIN codes : codes[c].user = u /\ ~codes[c].used}
Live(u) == {c \in Unused(u) : ~codes[c].expired}
LatestValid(u) ==
  {c \in Live(u) : \A d \in Live(u) : codes[d].created <= codes[c].created}

\* Locks on the rows of admin.auth_tokens.  The UPDATE of issue_otp() locks
\* those it is still to change in the order of the table, so it waits at its
\* first one for the UPDATEs that want it and came before, and holds nothing
\* yet; the one that came first holds its rows.  consume_otp() holds its code.
Wanted(w) == {c \in req[w].seen : ~codes[c].used}
Before(v, w) ==
  At(v, "replace") /\ req[v].began < req[w].began /\ Wanted(v) \cap Wanted(w) # {}
TokenHeld(c, v) ==
  \/ At(v, "replace") /\ c \in Wanted(v) /\ \A u \in Workers : ~Before(u, v)
  \/ At(v, "confirm") /\ req[v].code = c

\* Locks on admin.users of a registration that has set the name: display_name
\* is UNIQUE, so the row is locked like one that is deleted, rows that refer
\* to it have to wait, and so do others that want the new or the old name.
Renames(v, u) == At(v, "use") /\ req[v].user = u
NameHeld(n, v) == At(v, "use") /\ n \in {req[v].name, users[req[v].user].name}

-----------------------------------------------------------------------------
(* POST /api/auth/request-code: find or create the row, replace the codes, *)
(* mail the new one.                                                       *)

NewUser(e, n, v, w) ==
  [email |-> e, name |-> n, verified |-> v, merged |-> None, by |-> w]

RequestCode(w) ==
  \E e \in Emails :
    /\ IF ByEmail(e) = {}
       THEN Accept(w, "code", [Free EXCEPT !.at = "create", !.email = e])
       ELSE \E u \in ByEmail(e) :
              Accept(w, "code", [Free EXCEPT !.at = "issue", !.user = u])
    /\ UNCHANGED tables

\* create_user() of a pending account; the UNIQUE address may fail it.
CreatePending(w) ==
  /\ At(w, "create")
  /\ IF ByEmail(req[w].email) = {}
     THEN /\ users' = Append(users, NewUser(req[w].email, None, FALSE, None))
          /\ req' = [req EXCEPT ![w].at = "issue", ![w].user = Len(users) + 1]
     ELSE End(w) /\ UNCHANGED users
  /\ UNCHANGED <<codes, sessions, clock, started>>

\* issue_otp(): the UPDATE sees the unused codes of the moment it starts;
\* created_at is the transaction's start.
OldCodes(u) == Unused(u)
MarkOld(w) ==
  /\ At(w, "issue")
  /\ LET old == OldCodes(req[w].user)
     IN  req' = [req EXCEPT ![w].at = "replace", ![w].seen = old,
                            ![w].began = clock + 1]
  /\ clock' = clock + 1
  /\ UNCHANGED <<users, codes, sessions, started>>

\* ... the rest of it, once it has locked those that are still unused and
\* may refer to the account.
StoreWaits(w, v) ==
  \/ Before(v, w)
  \/ At(v, "confirm") /\ req[v].code \in Wanted(w)
  \/ Renames(v, req[w].user)
StoreCode(w) ==
  /\ At(w, "replace") /\ \A v \in Workers : ~StoreWaits(w, v)
  /\ codes' =
       Append([c \in DOMAIN codes |->
                 IF c \in req[w].seen THEN [codes[c] EXCEPT !.used = TRUE]
                 ELSE codes[c]],
              [user |-> req[w].user, used |-> FALSE, expired |-> FALSE,
               sent |-> FALSE, created |-> req[w].began, by |-> w])
  /\ req' = [req EXCEPT ![w].at = "mail", ![w].code = Len(codes) + 1]
  /\ UNCHANGED <<users, sessions, clock, started>>

\* send_otp_email(), which answers whether it went out.
Mail(w) ==
  /\ At(w, "mail")
  /\ codes' = [codes EXCEPT ![req[w].code].sent = TRUE]
  /\ End(w)
  /\ UNCHANGED <<users, sessions, clock, started>>

Expire ==
  \E c \in DOMAIN codes :
    /\ ~codes[c].expired /\ ~codes[c].used
    /\ codes' = [codes EXCEPT ![c].expired = TRUE]
    /\ UNCHANGED <<users, sessions, clock, started, req>>

-----------------------------------------------------------------------------
(* POST /api/auth/verify with a code that was mailed, a name or none (an   *)
(* account that was verified before ignores it), and the bearer token of a *)
(* guest or none.                                                          *)

Verify(w) ==
  \E c \in DOMAIN codes, n \in Names \cup {None},
     g \in {u \in DOMAIN users : IsGuest(u)} \cup {None} :
    LET u == users[codes[c].user]
    IN  /\ codes[c].sent
        /\ u.verified => n = None
        /\ Accept(w, "verify",
             [Free EXCEPT !.at = "check", !.user = codes[c].user, !.code = c,
                          !.verified = u.verified, !.name = n, !.guest = g])
        /\ UNCHANGED tables

\* latest_valid_otp(); without a name a pending account keeps its code.
AnyUnexpired(u, c) == codes[c].user = u /\ ~codes[c].expired
Accepted(u, c) == c \in LatestValid(u)
CheckCode(w) ==
  /\ At(w, "check")
  /\ IF ~Accepted(req[w].user, req[w].code) THEN End(w)
     ELSE IF req[w].verified THEN Go(w, "consume")
     ELSE IF req[w].name = None THEN End(w)
     ELSE Go(w, "name")
  /\ UNCHANGED <<tables, started>>

CheckName(w) ==
  /\ At(w, "name")
  /\ IF Taken(req[w].name) THEN End(w) ELSE Go(w, "register")
  /\ UNCHANGED <<tables, started>>

\* The code is used and the answer will carry a token.
SignedIn(w) ==
  /\ codes' = [codes EXCEPT ![req[w].code].used = TRUE]
  /\ sessions' = Append(sessions,
                   [user |-> req[w].user, code |-> req[w].code, by |-> w])
  /\ IF req[w].guest = None THEN End(w) ELSE Go(w, "merge")

\* complete_registration(): the name and the mark, which the UNIQUE name may
\* fail, then the code; both are visible once it commits.
RegisterWaits(w, v) == Renames(v, req[w].user) \/ NameHeld(req[w].name, v)
Register(w) ==
  /\ At(w, "register") /\ \A v \in Workers : ~RegisterWaits(w, v)
  /\ IF \A u \in DOMAIN users \ {req[w].user} : users[u].name # req[w].name
     THEN Go(w, "use") ELSE End(w)
  /\ UNCHANGED <<tables, started>>

UseCode(w) ==
  /\ At(w, "use") /\ \A v \in Workers : ~TokenHeld(req[w].code, v)
  /\ users' = [users EXCEPT ![req[w].user].name = req[w].name,
                            ![req[w].user].verified = TRUE,
                            ![req[w].user].by = w]
  /\ SignedIn(w)
  /\ UNCHANGED <<clock, started>>

\* consume_otp() for an account that had been verified before: the code, then
\* the mark.
Consume(w) ==
  /\ At(w, "consume") /\ \A v \in Workers : ~TokenHeld(req[w].code, v)
  /\ Go(w, "confirm")
  /\ UNCHANGED <<tables, started>>

Confirm(w) ==
  /\ At(w, "confirm") /\ \A v \in Workers : ~Renames(v, req[w].user)
  /\ users' = [users EXCEPT ![req[w].user].verified = TRUE]
  /\ SignedIn(w)
  /\ UNCHANGED <<clock, started>>

-----------------------------------------------------------------------------
(* POST /api/auth/guest and the first sign-in of an operator.  A free name *)
(* is looked for before the row is inserted; names only get taken, so the  *)
(* last look is the one that counts.                                       *)

Guest(w) ==
  \E n \in GuestNames :
    /\ ~Taken(n)
    /\ Accept(w, "guest", [Free EXCEPT !.at = "insert", !.name = n])
    /\ UNCHANGED tables

SignInOperator(w) ==
  \E e \in Operators, n \in Names :
    /\ ByEmail(e) = {} /\ ~Taken(n)
    /\ Accept(w, "operator", [Free EXCEPT !.at = "insert", !.email = e, !.name = n])
    /\ UNCHANGED tables

\* create_user(), which a UNIQUE constraint may fail.
CreateUser(w) ==
  /\ At(w, "insert") /\ \A v \in Workers : ~NameHeld(req[w].name, v)
  /\ LET r == req[w]
     IN  IF TakenExactly(r.name) \/ (r.email # None /\ ByEmail(r.email) # {})
         THEN UNCHANGED users
         ELSE users' = Append(users, NewUser(r.email, r.name, r.email # None, w))
  /\ End(w)
  /\ UNCHANGED <<codes, sessions, clock, started>>

\* A repository call raises (connection lost, statement failed): its
\* transaction is rolled back, its locks go, and the request ends with an
\* error.  Mail that does not go out ends the request as well.
Raises(w) == ~At(w, "free") /\ End(w) /\ UNCHANGED <<tables, started>>

AccountsInit ==
  /\ users = StartUsers
  /\ codes = StartCodes /\ sessions = << >>
  /\ clock = Len(StartCodes) /\ started = 0
  /\ req = [w \in Workers |-> Free]

AccountRequest(w) ==
  RequestCode(w) \/ Verify(w) \/ Guest(w) \/ SignInOperator(w)

AccountStep(w) ==
  \/ CreatePending(w) \/ MarkOld(w) \/ StoreCode(w) \/ Mail(w)
  \/ CheckCode(w) \/ CheckName(w)
  \/ Register(w) \/ UseCode(w) \/ Consume(w) \/ Confirm(w) \/ CreateUser(w)

-----------------------------------------------------------------------------
(* Properties.                                                             *)

AccountsTypeOK ==
  /\ users \in Seq(User) /\ codes \in Seq(Code)
  /\ sessions \in Seq([user : UserIds, code : CodeIds, by : Workers])
  /\ clock \in 0 .. Len(StartCodes) + MaxRequests /\ started \in 0 .. MaxRequests

\* Two codes of one user are live together only when two threads issued them
\* at the same time: a thread's own earlier code is always replaced.  What
\* issue_otp() invalidates the old codes for.
LiveCodesRaced ==
  \A c, d \in DOMAIN codes :
    c # d /\ codes[c].user = codes[d].user /\ {c, d} \subseteq Live(codes[c].user)
      => codes[c].by # codes[d].by

\* One code opens a second session only in another thread that had checked
\* it before: a code is not good for two verifications one after the other.
SessionsRaced ==
  \A i, j \in DOMAIN sessions :
    i # j /\ sessions[i].code = sessions[j].code => sessions[i].by # sessions[j].by

\* Display names that differ by case only were taken by two threads at once.
NamesRaced ==
  \A u, v \in DOMAIN users :
    /\ u # v /\ users[u].name # None /\ users[v].name # None
    /\ Folded[users[u].name] = Folded[users[v].name]
    => users[u].by # users[v].by

\* Addresses, verifications, merges and used codes are for good.
NothingIsTakenBack ==
  [][/\ \A u \in DOMAIN users :
          /\ users'[u].email = users[u].email
          /\ users[u].verified => users'[u].verified
          /\ users[u].merged # None => users'[u].merged = users[u].merged
     /\ \A c \in DOMAIN codes : codes[c].used => codes'[c].used]_accountVars
=============================================================================
