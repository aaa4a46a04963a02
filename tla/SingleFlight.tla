---------------------------- MODULE SingleFlight ----------------------------
(***************************************************************************)
(* What Collector.GatherFamilies promises its callers, without the mutex,  *)
(* the condition variable or the flag it is built from: at most one        *)
(* collection is in flight, a caller that arrives while one is in flight   *)
(* rides along with it, and a rider gets off only after that flight ended. *)
(* Collector.tla is shown to implement this specification, and so is each  *)
(* host's collector in SnapshotLoop.tla, whoever calls it.                 *)
(***************************************************************************)

CONSTANTS Callers,   \* goroutines that call GatherFamilies on one collector
          NoCaller   \* "no collection is in flight"

VARIABLES flight,    \* the caller that runs the collection, or NoCaller
          aboard,    \* the callers riding along with the flight
          landed     \* the riders whose flight has ended

vars == <<flight, aboard, landed>>

\* A caller has at most one call outstanding.
Out(c) == c # flight /\ c \notin aboard \cup landed

Init ==
  /\ flight = NoCaller
  /\ aboard = {}
  /\ landed = {}

\* Nobody is collecting: c does it itself.
Depart(c) ==
  /\ flight = NoCaller
  /\ Out(c)
  /\ flight' = c
  /\ UNCHANGED <<aboard, landed>>

\* A collection is in flight: c waits for it instead of starting another.
Board(c) ==
  /\ flight # NoCaller
  /\ Out(c)
  /\ aboard' = aboard \cup {c}
  /\ UNCHANGED <<flight, landed>>

\* The collection ends, whatever its outcome, and frees all of its riders.
Land(c) ==
  /\ flight = c
  /\ flight' = NoCaller
  /\ landed' = landed \cup aboard
  /\ aboard' = {}

\* A rider returns to its own caller.
Leave(c) ==
  /\ c \in landed
  /\ landed' = landed \ {c}
  /\ UNCHANGED <<flight, aboard>>

Next == \E c \in Callers : Depart(c) \/ Board(c) \/ Land(c) \/ Leave(c)

\* Flights end and landed riders return.
Fairness == \A c \in Callers : WF_vars(Land(c)) /\ WF_vars(Leave(c))

SafetySpec == Init /\ [][Next]_vars

Spec == SafetySpec /\ Fairness
=============================================================================
