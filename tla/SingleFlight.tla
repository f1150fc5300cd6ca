----------------------------- MODULE SingleFlight -----------------------------
(***************************************************************************)
(* The memo of one family build (models/family/context.py, _SingleFlight): *)
(* the first caller of a key computes it outside the lock, whoever asks    *)
(* meanwhile waits on the owner's gate and then asks again.  A computation *)
(* that raises stores nothing, so a waiter becomes the next owner.  The    *)
(* entry of _in_flight goes and the gate opens in two steps.               *)
(***************************************************************************)
EXTENDS Naturals

CONSTANTS Thread,   \* the threads of the build
          Key,      \* the keys it memoises
          Value,    \* what a computation may return
          Nothing   \* no value, no owner, no key

ASSUME FlightAssumption == Nothing \notin Thread \cup Key \cup Value

VARIABLES values,    \* _values: key -> value, or Nothing
          inFlight,  \* _in_flight: key -> the thread whose gate it is, or Nothing
          flight     \* what each thread is doing in get()

flightVars == <<values, inFlight, flight>>

\* at: "out" (not in get, or about to look again), "waiting" on the gate of
\* thread gate, "owner" (computing), "stored" (value kept, entry still
\* there), "forgot" (entry gone, gate still shut).
Flight == [at : {"out", "waiting", "owner", "stored", "forgot"},
           key : Key \cup {Nothing},
           gate : Thread \cup {Nothing}]

Outside == [at |-> "out", key |-> Nothing, gate |-> Nothing]

Computing(t) == flight[t].at = "owner"

FlightInit ==
  /\ values = [k \in Key |-> Nothing]
  /\ inFlight = [k \in Key |-> Nothing]
  /\ flight = [t \in Thread |-> Outside]

-----------------------------------------------------------------------------
\* The locked head of get(): a hit,
Hit(t, k) ==
  /\ flight[t] = Outside
  /\ values[k] # Nothing
  /\ UNCHANGED flightVars

\* the first miss, which owns the key,
Own(t, k) ==
  /\ flight[t] = Outside
  /\ values[k] = Nothing /\ inFlight[k] = Nothing
  /\ inFlight' = [inFlight EXCEPT ![k] = t]
  /\ flight' = [flight EXCEPT ![t] = [at |-> "owner", key |-> k, gate |-> Nothing]]
  /\ UNCHANGED values

\* or a later one, which waits for the owner's gate.
Await(t, k) ==
  /\ flight[t] = Outside
  /\ values[k] = Nothing /\ inFlight[k] # Nothing
  /\ flight' = [flight EXCEPT ![t] = [at |-> "waiting", key |-> k, gate |-> inFlight[k]]]
  /\ UNCHANGED <<values, inFlight>>

\* compute() returned v.
Keep(t, v) ==
  /\ Computing(t)
  /\ values' = [values EXCEPT ![flight[t].key] = v]
  /\ flight' = [flight EXCEPT ![t].at = "stored"]
  /\ UNCHANGED inFlight

\* Mutant: the entry is deleted after the value is kept, not in a finally.
ForgetWhenKept(t, kept) ==
  /\ flight[t].at = (IF kept THEN "stored" ELSE "owner")
  /\ inFlight' = IF kept THEN [inFlight EXCEPT ![flight[t].key] = Nothing] ELSE inFlight
  /\ flight' = [flight EXCEPT ![t].at = "forgot"]
  /\ UNCHANGED values

\* The finally, first half: compute() returned and the value is kept, or it
\* raised (kept is FALSE) and nothing is.
Forget(t, kept) ==
  /\ flight[t].at = (IF kept THEN "stored" ELSE "owner")
  /\ inFlight' = [inFlight EXCEPT ![flight[t].key] = Nothing]
  /\ flight' = [flight EXCEPT ![t].at = "forgot"]
  /\ UNCHANGED values

\* Mutant: the gate is never released.
LeaveGateShut(t) ==
  /\ flight[t].at = "forgot"
  /\ flight' = [flight EXCEPT ![t] = Outside]
  /\ UNCHANGED <<values, inFlight>>

\* Second half: the gate opens and every waiter looks again.
OpenGate(t) ==
  /\ flight[t].at = "forgot"
  /\ flight' = [u \in Thread |->
                  IF u = t \/ flight[u].gate = t THEN Outside ELSE flight[u]]
  /\ UNCHANGED <<values, inFlight>>

FlightNext ==
  \E t \in Thread :
    \/ \E k \in Key : Hit(t, k) \/ Own(t, k) \/ Await(t, k)
    \/ \E v \in Value : Keep(t, v)
    \/ \E kept \in BOOLEAN : Forget(t, kept)
    \/ OpenGate(t)

FlightSpec == FlightInit /\ [][FlightNext]_flightVars

-----------------------------------------------------------------------------
FlightTypeOK ==
  /\ values \in [Key -> Value \cup {Nothing}]
  /\ inFlight \in [Key -> Thread \cup {Nothing}]
  /\ flight \in [Thread -> Flight]

\* At most one thread computes a key at a time, and nobody computes a key
\* that already has its value.
OneComputation ==
  /\ \A t, u \in Thread :
       Computing(t) /\ Computing(u) /\ flight[t].key = flight[u].key => t = u
  /\ \A t \in Thread : Computing(t) => values[flight[t].key] = Nothing

\* A waiter waits for a thread that still has to open its gate, and that
\* waits for nobody itself: no two threads of a build can wait in a circle.
WaitersHaveAnOwner ==
  \A t \in Thread :
    flight[t].at = "waiting" =>
      flight[flight[t].gate].at \in {"owner", "stored", "forgot"}

\* The memo computes a key once and wakes everybody who waited for it.
MemoIsSound == OneComputation /\ WaitersHaveAnOwner

\* A value once stored is what every later caller gets: it is neither
\* replaced nor withdrawn.
ValuesStay ==
  [][\A k \in Key : values[k] # Nothing => values'[k] = values[k]]_flightVars
=============================================================================
