--------------------------- MODULE CollectorProofs ---------------------------
(***************************************************************************)
(* Theorems about Collector for any set of callers, finite or not.  The    *)
(* argument is one inductive invariant, TypeOK /\ Consistent: the mutex    *)
(* and the flag `collecting' agree with where the callers are, and a       *)
(* released rider whose collection succeeded finds its result in the cache.*)
(***************************************************************************)
EXTENDS Collector, TLAPS

\* The state components keep their types.
LEMMA TypeStep == TypeOK /\ [Next]_vars => TypeOK'
<1> SUFFICES ASSUME TypeOK, [Next]_vars PROVE TypeOK'
  OBVIOUS
<1> USE DEF TypeOK, States, Replies, LeaderStates, RiderStates
<1>1. CASE UNCHANGED vars
  BY <1>1 DEF vars
<1>2. ASSUME NEW c \in Callers, Call(c) PROVE TypeOK'
  BY <1>2 DEF Call, Goto
<1>3. ASSUME NEW c \in Callers, Acquire(c) PROVE TypeOK'
  <2>1. CASE ReuseClient(c) BY <2>1 DEF ReuseClient, Goto
  <2>2. CASE BeginCreate(c) BY <2>2 DEF BeginCreate, Goto, Holds
  <2>3. CASE Join(c) BY <2>3 DEF Join, Goto
  <2>4. CASE Lead(c) BY <2>4 DEF Lead, Goto
  <2>5. CASE Finish(c) BY <2>5 DEF Finish
  <2>6. CASE Reacquire(c) BY <2>6 DEF Reacquire, Goto, Holds
  <2> QED BY <1>3, <2>1, <2>2, <2>3, <2>4, <2>5, <2>6 DEF Acquire
<1>4. ASSUME NEW c \in Callers, Proceed(c) PROVE TypeOK'
  <2>1. CASE CreateSucceeds(c) BY <2>1 DEF CreateSucceeds, Goto, Unlock
  <2>2. CASE CreateFails(c) BY <2>2 DEF CreateFails, Return, Goto, Unlock
  <2>3. CASE GatherSucceeds(c) BY <2>3 DEF GatherSucceeds, Goto
  <2>4. CASE GatherFails(c) BY <2>4 DEF GatherFails, Goto
  <2>5. CASE StoreFamilies(c) BY <2>5 DEF StoreFamilies, Goto
  <2>6. CASE ReadFamilies(c)
    BY <2>6 DEF ReadFamilies, ReadOutcomes, Return, Goto, Unlock
  <2> QED BY <1>4, <2>1, <2>2, <2>3, <2>4, <2>5, <2>6 DEF Proceed
<1> QED BY <1>1, <1>2, <1>3, <1>4 DEF Next

\* Every reachable state is well typed, for any number of goroutines.
THEOREM TypeCorrect == SafetySpec => []TypeOK
<1>1. Init => TypeOK
  BY DEF Init, TypeOK, States, Replies
<1> QED BY <1>1, TypeStep, PTL DEF SafetySpec

-----------------------------------------------------------------------------
\* The inductive invariant holds initially ...
LEMMA ConsistentInit == Init => Consistent
BY NoCallerAssumption DEF Init, Consistent, MutexHolder, ClientSettled, OneLeader,
   FlagMeansLeader, NotifyList, ParkedUnderLeader, LeaderOutcome, RidersServed,
   LeaderStates, RiderStates

\* ... and every step preserves it.
LEMMA ConsistentStep == TypeOK /\ Consistent /\ [Next]_vars => Consistent'
<1> SUFFICES ASSUME TypeOK, Consistent, [Next]_vars PROVE Consistent'
  OBVIOUS
<1> USE NoCallerAssumption
    DEF TypeOK, States, LeaderStates, RiderStates, Consistent, MutexHolder,
        ClientSettled, OneLeader, FlagMeansLeader, NotifyList, ParkedUnderLeader,
        LeaderOutcome, RidersServed
<1>1. CASE UNCHANGED vars
  BY <1>1 DEF vars
<1>2. ASSUME NEW c \in Callers, Call(c) PROVE Consistent'
  BY <1>2 DEF Call, Goto
<1>3. ASSUME NEW c \in Callers, Acquire(c) PROVE Consistent'
  <2>1. CASE ReuseClient(c) BY <2>1 DEF ReuseClient, Goto, MutexFree
  <2>2. CASE BeginCreate(c) BY <2>2 DEF BeginCreate, Goto, Holds, MutexFree
  <2>3. CASE Join(c) BY <2>3 DEF Join, Goto, MutexFree, ResultStored
  <2>4. CASE Lead(c) BY <2>4 DEF Lead, Goto, MutexFree
  <2>5. CASE Finish(c) BY <2>5 DEF Finish, MutexFree
  <2>6. CASE Reacquire(c) BY <2>6 DEF Reacquire, Goto, Holds, MutexFree
  <2> QED BY <1>3, <2>1, <2>2, <2>3, <2>4, <2>5, <2>6 DEF Acquire
<1>4. ASSUME NEW c \in Callers, Proceed(c) PROVE Consistent'
  <2>1. CASE CreateSucceeds(c) BY <2>1 DEF CreateSucceeds, Goto, Unlock
  <2>2. CASE CreateFails(c) BY <2>2 DEF CreateFails, Return, Goto, Unlock
  <2>3. CASE GatherSucceeds(c) BY <2>3 DEF GatherSucceeds, Goto
  <2>4. CASE GatherFails(c) BY <2>4 DEF GatherFails, Goto
  <2>5. CASE StoreFamilies(c) BY <2>5 DEF StoreFamilies, Goto
  <2>6. CASE ReadFamilies(c) BY <2>6 DEF ReadFamilies, Return, Goto, Unlock
  <2> QED BY <1>4, <2>1, <2>2, <2>3, <2>4, <2>5, <2>6 DEF Proceed
<1> QED BY <1>1, <1>2, <1>3, <1>4 DEF Next

\* The mutex, the flag, the notify list and the cache agree in every reachable state.
THEOREM Invariant == SafetySpec => [](TypeOK /\ Consistent)
<1>1. Init => TypeOK
  BY DEF Init, TypeOK, States, Replies
<1> QED BY <1>1, TypeStep, ConsistentInit, ConsistentStep, PTL DEF SafetySpec

-----------------------------------------------------------------------------
\* Whatever the interleaving, at most one goroutine uses the collector's client:
\* the comment "Do not act concurrently on the same host", within one Collector.
THEOREM OneActor == SafetySpec => []OneActorPerCollector
<1>1. ASSUME TypeOK, Consistent PROVE OneActorPerCollector
  <2> SUFFICES ASSUME NEW c \in Acting, NEW d \in Acting PROVE c = d
    BY DEF OneActorPerCollector
  <2>1. CASE pc[c] = "creating" /\ pc[d] = "creating"
    BY <2>1, <1>1, NoCallerAssumption DEF Acting, Consistent, MutexHolder
  <2>2. CASE pc[c] \in LeaderStates /\ pc[d] \in LeaderStates
    BY <2>2, <1>1 DEF Acting, Consistent, OneLeader
  <2>3. CASE (pc[c] = "creating") # (pc[d] = "creating")
    \* one of the two found no client, the other was let through because there is one
    BY <2>3, <1>1 DEF Acting, Consistent, ClientSettled, LeaderStates
  <2> QED BY <2>1, <2>2, <2>3 DEF Acting
<1> QED BY <1>1, Invariant, PTL

\* No goroutine is left in Wait without a leader that will broadcast.
THEOREM NobodyForgotten == SafetySpec => []NoLostWakeup
<1>1. Consistent => NoLostWakeup
  BY DEF Consistent, ParkedUnderLeader, FlagMeansLeader, NoLostWakeup
<1> QED BY <1>1, Invariant, PTL

-----------------------------------------------------------------------------
\* A caller that got an old or empty cache without an error waited for a
\* collection that failed; a successful one reaches all of its riders.
THEOREM RidersGetTheirResult == SafetySpec => []StaleOnlyAfterFailure
<1>1. Init => StaleOnlyAfterFailure
  BY DEF Init, StaleOnlyAfterFailure
<1>2. TypeOK /\ Consistent /\ StaleOnlyAfterFailure /\ [Next]_vars => StaleOnlyAfterFailure'
  <2> SUFFICES ASSUME TypeOK, Consistent, StaleOnlyAfterFailure, [Next]_vars
               PROVE  StaleOnlyAfterFailure'
    OBVIOUS
  <2> USE DEF StaleOnlyAfterFailure, TypeOK
  <2>1. CASE UNCHANGED vars
    BY <2>1 DEF vars
  <2>2. ASSUME NEW c \in Callers, Call(c) PROVE StaleOnlyAfterFailure'
    BY <2>2 DEF Call
  <2>3. ASSUME NEW c \in Callers, Acquire(c) PROVE StaleOnlyAfterFailure'
    BY <2>3 DEF Acquire, ReuseClient, BeginCreate, Join, Lead, Finish, Reacquire
  <2>4. ASSUME NEW c \in Callers, ReadFamilies(c) PROVE StaleOnlyAfterFailure'
    \* the one action that returns a cached slice: RidersServed says what is in it
    <3>1. PICK r \in ReadOutcomes(c) : Return(c, "reading", r)
      BY <2>4 DEF ReadFamilies
    <3>2. c \in failed \/ (families = "data" /\ c \notin behind)
      BY <3>1 DEF Return, Goto, Consistent, RidersServed
    <3>3. r \in {"stale", "nil"} => c \in failed
      BY <3>2 DEF ReadOutcomes
    <3>4. failed' = failed
      BY <2>4 DEF ReadFamilies
    <3> QED BY <3>1, <3>3, <3>4 DEF Return
  <2>5. ASSUME NEW c \in Callers, Proceed(c), ~ReadFamilies(c) PROVE StaleOnlyAfterFailure'
    BY <2>5 DEF Proceed, CreateSucceeds, CreateFails, Return, GatherSucceeds,
       GatherFails, StoreFamilies
  <2> QED BY <2>1, <2>2, <2>3, <2>4, <2>5 DEF Next
<1> QED BY <1>1, <1>2, Invariant, PTL DEF SafetySpec

-----------------------------------------------------------------------------
\* The caller in charge of the flight, read off the collector's state.
LEMMA FlightOfLeader ==
  ASSUME OneLeader, NEW c \in Callers, pc[c] \in LeaderStates
  PROVE  Flight = c
BY DEF Flight, OneLeader

LEMMA NoFlight ==
  ASSUME \A c \in Callers : pc[c] \notin LeaderStates
  PROVE  Flight = NoCaller
BY DEF Flight

\* A step that changes neither the leaders, nor the notify list, nor the released
\* riders is invisible to the callers.
Released == {c \in Callers : pc[c] \in {"woken", "reading"}}

LEMMA FlightKept ==
  ASSUME \A c \in Callers : pc'[c] \in LeaderStates <=> pc[c] \in LeaderStates
  PROVE  Flight' = Flight
<1>1. ASSUME NEW c \in Callers PROVE (pc[c] \in LeaderStates)' <=> pc[c] \in LeaderStates
  BY DEF LeaderStates
<1> QED BY <1>1 DEF Flight, LeaderStates

\* Leading is the abstract departure, joining is boarding, the deferred broadcast
\* is the landing, and reading the cache is getting off; every other step is silent.
LEMMA StepRefines ==
  TypeOK /\ Consistent /\ Consistent' /\ [Next]_vars => [Abstract!Next]_(Abstract!vars)
<1> SUFFICES ASSUME TypeOK, Consistent, Consistent', [Next]_vars
             PROVE  [Abstract!Next]_(Abstract!vars)
  OBVIOUS
<1> USE DEF TypeOK, Abstract!vars
<1>1. ASSUME Flight' = Flight, waiting' = waiting, Released' = Released
      PROVE  UNCHANGED Abstract!vars
  BY <1>1 DEF Released
<1>2. CASE UNCHANGED vars
  <2>1. Flight' = Flight
    BY <1>2, FlightKept DEF vars
  <2> QED BY <1>1, <1>2, <2>1 DEF vars, Released
<1>3. ASSUME NEW c \in Callers, Call(c) \/ ReuseClient(c) \/ BeginCreate(c) \/ Reacquire(c)
                                \/ CreateSucceeds(c) \/ CreateFails(c) \/ GatherSucceeds(c)
                                \/ GatherFails(c) \/ StoreFamilies(c)
      PROVE  UNCHANGED Abstract!vars
  <2> USE DEF Call, ReuseClient, BeginCreate, Reacquire, CreateSucceeds, CreateFails,
              GatherSucceeds, GatherFails, StoreFamilies, Return, Goto, LeaderStates
  <2>1. Flight' = Flight
    BY <1>3, FlightKept
  <2>2. waiting' = waiting /\ Released' = Released
    BY <1>3 DEF Released
  <2> QED BY <1>1, <2>1, <2>2
<1>4. ASSUME NEW c \in Callers, Join(c) PROVE Abstract!Board(c)
  <2> USE <1>4 DEF Join, Goto, LeaderStates
  <2>1. PICK d \in Callers : pc[d] \in LeaderStates
    BY DEF Consistent, FlagMeansLeader
  <2>2. Flight = d /\ d # c
    BY <2>1, FlightOfLeader DEF Consistent
  <2>3. Flight' = Flight
    BY FlightKept
  <2>4. c \notin waiting /\ c \notin Released /\ Released' = Released
    BY DEF Consistent, NotifyList, Released
  <2> QED BY <2>2, <2>3, <2>4, NoCallerAssumption DEF Abstract!Board, Abstract!Out, Released
<1>5. ASSUME NEW c \in Callers, Lead(c) PROVE Abstract!Depart(c)
  <2> USE <1>5 DEF Lead, Goto
  <2>1. Flight = NoCaller
    BY NoFlight DEF Consistent, FlagMeansLeader
  <2>2. Flight' = c
    BY DEF Flight, Consistent, OneLeader, LeaderStates
  <2>3. c \notin waiting /\ c \notin Released /\ Released' = Released
    BY DEF Consistent, NotifyList, Released
  <2> QED BY <2>1, <2>2, <2>3, NoCallerAssumption DEF Abstract!Depart, Abstract!Out, Released
<1>6. ASSUME NEW c \in Callers, Finish(c) PROVE Abstract!Land(c)
  <2> USE <1>6 DEF Finish
  <2>1. Flight = c
    BY FlightOfLeader DEF Consistent, LeaderStates
  <2>2. Flight' = NoCaller
    BY DEF Flight, Consistent, OneLeader, LeaderStates
  <2>3. Released' = Released \cup waiting
    BY DEF Released, Consistent, NotifyList
  <2> QED BY <2>1, <2>2, <2>3 DEF Abstract!Land, Released
<1>7. ASSUME NEW c \in Callers, ReadFamilies(c) PROVE Abstract!Leave(c)
  <2> USE <1>7 DEF ReadFamilies, Return, Goto
  <2>1. Flight' = Flight
    BY FlightKept DEF LeaderStates
  <2>2. c \in Released /\ Released' = Released \ {c}
    BY DEF Released
  <2> QED BY <2>1, <2>2 DEF Abstract!Leave, Released
<1> QED
  BY <1>2, <1>3, <1>4, <1>5, <1>6, <1>7 DEF Next, Acquire, Proceed, Abstract!Next

\* The mutex, condition variable and flag implement the coalescing of SingleFlight.
THEOREM Refinement == SafetySpec => Abstract!SafetySpec
<1>1. Init => Abstract!Init
  BY DEF Init, Abstract!Init, Flight, LeaderStates
<1> QED BY <1>1, StepRefines, Invariant, PTL DEF SafetySpec, Abstract!SafetySpec
=============================================================================
