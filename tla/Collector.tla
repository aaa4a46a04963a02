------------------------------ MODULE Collector ------------------------------
(***************************************************************************)
(* One Collector object of internal/collector/collector.go, used by the    *)
(* goroutines that serve /metrics, by the scrape-all fan-out and by the    *)
(* snapshot loop.  A call is the pair every one of them makes:             *)
(* GetCollector's critical section on collector.collected.L, which creates *)
(* the Redfish client once, then GatherFamilies, which coalesces           *)
(* concurrent callers with sync.Cond.                                      *)
(*                                                                         *)
(* The content of a scrape is abstracted to whether the cache holds one;   *)
(* how old it is for a given caller is kept in two history variables:      *)
(* `behind', the callers for whom the cache does not yet hold the result   *)
(* of the collection they joined, and `failed', the callers whose          *)
(* collection ended with an error.                                         *)
(***************************************************************************)
EXTENDS FiniteSets

CONSTANTS Callers,   \* goroutines that use this collector
          NoCaller   \* collected.L is not held

ASSUME NoCallerAssumption == NoCaller \notin Callers

VARIABLES mutex,       \* holder of collected.L across several steps
          client,      \* collector.client # nil
          collecting,  \* collector.collecting
          waiting,     \* notify list of the sync.Cond
          families,    \* collector.families: "nil" or "data"
          pc,          \* where each caller is
          reply,       \* what each caller's latest call returned
          behind,      \* history, see above
          failed       \* history, see above

vars == <<mutex, client, collecting, waiting, families, pc, reply, behind, failed>>

\* Callers that GetCollector has let through to GatherFamilies as leader:
\* collecting was set by them and they have not reset it yet.
LeaderStates == {"gathering", "storing", "closing"}
RiderStates  == {"waiting", "woken", "reading"}

States == {"idle", "locking", "creating", "ready"} \cup LeaderStates \cup RiderStates

\* "fresh": the result of the collection joined or of a later one; "stale": an
\* older cached result; "nil": the empty cache; "torn": a slice header read while
\* it was being written; "error": the call returned a non-nil error.
Replies == {"none", "fresh", "stale", "nil", "torn", "error"}

TypeOK ==
  /\ mutex \in Callers \cup {NoCaller}
  /\ client \in BOOLEAN
  /\ collecting \in BOOLEAN
  /\ waiting \subseteq Callers
  /\ families \in {"nil", "data"}
  /\ pc \in [Callers -> States]
  /\ reply \in [Callers -> Replies]
  /\ behind \subseteq Callers
  /\ failed \subseteq Callers

Init ==
  /\ mutex = NoCaller
  /\ client = FALSE
  /\ collecting = FALSE
  /\ waiting = {}
  /\ families = "nil"
  /\ pc = [c \in Callers |-> "idle"]
  /\ reply = [c \in Callers |-> "none"]
  /\ behind = {}
  /\ failed = {}

-----------------------------------------------------------------------------
\* Helpers

Goto(c, from, to) == pc[c] = from /\ pc' = [pc EXCEPT ![c] = to]

Return(c, from, r) == Goto(c, from, "idle") /\ reply' = [reply EXCEPT ![c] = r]

\* A critical section with no blocking call inside is one step; it needs the
\* mutex to be free.
MutexFree == mutex = NoCaller

\* The running collection has already put its result into the cache.
ResultStored == \E d \in Callers : pc[d] = "closing" /\ reply[d] = "fresh"

\* What reading collector.families yields for c.  The leader assigns the slice
\* without the mutex, so a read that overlaps the assignment may see the old
\* header, the new one, or words of both.
ReadOutcomes(c) ==
  LET old == IF families = "nil" THEN "nil" ELSE IF c \in behind THEN "stale" ELSE "fresh"
  IN  IF \E d \in Callers : pc[d] = "storing" THEN {old, "fresh", "torn"} ELSE {old}

Holds(c) == mutex' = c
Unlock   == mutex' = NoCaller

-----------------------------------------------------------------------------
\* GetCollector, from collector.collected.L.Lock() on

\* A goroutine with no call outstanding asks for a scrape.
Call(c) ==
  /\ Goto(c, "idle", "locking")
  /\ reply' = [reply EXCEPT ![c] = "none"]
  /\ behind' = behind \ {c}
  /\ failed' = failed \ {c}
  /\ UNCHANGED <<mutex, client, collecting, waiting, families>>

\* The client exists: the critical section does nothing.
ReuseClient(c) ==
  /\ MutexFree
  /\ client
  /\ Goto(c, "locking", "ready")
  /\ UNCHANGED <<mutex, client, collecting, waiting, families, reply, behind, failed>>

\* No client yet: L is held over the credentials lookup and all of NewClient's requests.
BeginCreate(c) ==
  /\ MutexFree
  /\ ~client
  /\ Goto(c, "locking", "creating")
  /\ Holds(c)
  /\ UNCHANGED <<client, collecting, waiting, families, reply, behind, failed>>

CreateSucceeds(c) ==
  /\ Goto(c, "creating", "ready")
  /\ client' = TRUE
  /\ Unlock
  /\ UNCHANGED <<collecting, waiting, families, reply, behind, failed>>

\* No credentials, or the BMC did not answer: the next caller tries again.
CreateFails(c) ==
  /\ Return(c, "creating", "error")
  /\ Unlock
  /\ UNCHANGED <<client, collecting, waiting, families, behind, failed>>

-----------------------------------------------------------------------------
\* GatherFamilies

\* Mutant of Join: serve the cached families at once instead of waiting.
JoinWithoutWaiting(c) ==
  /\ MutexFree
  /\ collecting
  /\ Goto(c, "ready", "reading")
  /\ Holds(c)
  /\ UNCHANGED <<client, collecting, waiting, families, reply, behind, failed>>

\* A collection is in progress: Wait adds c to the notify list and unlocks.
Join(c) ==
  /\ MutexFree
  /\ collecting
  /\ Goto(c, "ready", "waiting")
  /\ waiting' = waiting \cup {c}
  /\ behind' = IF ResultStored THEN behind \ {c} ELSE behind \cup {c}
  /\ UNCHANGED <<mutex, client, collecting, families, reply, failed>>

\* Mutant of Lead: the flag is not looked at.
LeadUnchecked(c) ==
  /\ MutexFree
  /\ Goto(c, "ready", "gathering")
  /\ collecting' = TRUE
  /\ UNCHANGED <<mutex, client, waiting, families, reply, behind, failed>>

Lead(c) ==
  /\ MutexFree
  /\ ~collecting
  /\ Goto(c, "ready", "gathering")
  /\ collecting' = TRUE
  /\ UNCHANGED <<mutex, client, waiting, families, reply, behind, failed>>

\* registry.Gather answered; the assignment to collector.families begins.
GatherSucceeds(c) ==
  /\ Goto(c, "gathering", "storing")
  /\ UNCHANGED <<mutex, client, collecting, waiting, families, reply, behind, failed>>

\* Mutant of GatherFails: an early return that bypasses the deferred function.
FailWithoutReset(c) ==
  /\ Return(c, "gathering", "error")
  /\ UNCHANGED <<mutex, client, collecting, waiting, families, behind, failed>>

\* registry.Gather rejected the metrics: the cache is left as it was.
GatherFails(c) ==
  /\ Goto(c, "gathering", "closing")
  /\ reply' = [reply EXCEPT ![c] = "error"]
  /\ UNCHANGED <<mutex, client, collecting, waiting, families, behind, failed>>

\* Mutants of StoreFamilies: only the first result is kept; an error marker is kept.
StoreOnce(c) ==
  /\ Goto(c, "storing", "closing")
  /\ reply' = [reply EXCEPT ![c] = "fresh"]
  /\ families' = "data"
  /\ behind' = IF families = "nil" THEN {} ELSE behind
  /\ UNCHANGED <<mutex, client, collecting, waiting, failed>>

StoreError(c) ==
  /\ Goto(c, "storing", "closing")
  /\ reply' = [reply EXCEPT ![c] = "fresh"]
  /\ families' \in {"data", "error"}
  /\ behind' = {}
  /\ UNCHANGED <<mutex, client, collecting, waiting, failed>>

\* The assignment ends: from here on everybody reads this result.
StoreFamilies(c) ==
  /\ Goto(c, "storing", "closing")
  /\ reply' = [reply EXCEPT ![c] = "fresh"]
  /\ families' = "data"
  /\ behind' = {}
  /\ UNCHANGED <<mutex, client, collecting, waiting, failed>>

\* Mutant of Finish: Signal, which wakes one goroutine, in place of Broadcast.
FinishSignal(c) ==
  /\ MutexFree
  /\ pc[c] = "closing"
  /\ \E w \in SUBSET waiting :
       /\ Cardinality(w) = IF waiting = {} THEN 0 ELSE 1
       /\ pc' = [d \in Callers |-> IF d = c THEN "idle" ELSE IF d \in w THEN "woken" ELSE pc[d]]
       /\ waiting' = waiting \ w
       /\ failed' = IF reply[c] = "error" THEN failed \cup w ELSE failed
  /\ collecting' = FALSE
  /\ UNCHANGED <<mutex, client, families, reply, behind>>

\* The deferred function: broadcast, then let the next caller lead.
Finish(c) ==
  /\ MutexFree
  /\ pc[c] = "closing"
  /\ pc' = [d \in Callers |-> IF d = c THEN "idle"
                              ELSE IF d \in waiting THEN "woken" ELSE pc[d]]
  /\ waiting' = {}
  /\ collecting' = FALSE
  /\ failed' = IF reply[c] = "error" THEN failed \cup waiting ELSE failed
  /\ UNCHANGED <<mutex, client, families, reply, behind>>

\* Wait returns in a woken caller once that has the mutex again.
Reacquire(c) ==
  /\ MutexFree
  /\ Goto(c, "woken", "reading")
  /\ Holds(c)
  /\ UNCHANGED <<client, collecting, waiting, families, reply, behind, failed>>

ReadFamilies(c) ==
  /\ \E r \in ReadOutcomes(c) : Return(c, "reading", r)
  /\ Unlock
  /\ UNCHANGED <<client, collecting, waiting, families, behind, failed>>

-----------------------------------------------------------------------------
\* Steps that wait for the mutex, and steps whose caller runs on its own.
Acquire(c) ==
  \/ ReuseClient(c) \/ BeginCreate(c) \/ Join(c) \/ Lead(c) \/ Finish(c) \/ Reacquire(c)

Proceed(c) ==
  \/ CreateSucceeds(c) \/ CreateFails(c)
  \/ GatherSucceeds(c) \/ GatherFails(c) \/ StoreFamilies(c)
  \/ ReadFamilies(c)

Next == \E c \in Callers : Call(c) \/ Acquire(c) \/ Proceed(c)

\* sync.Mutex hands the lock to a waiter that starves, hence strong fairness for
\* acquiring; every request has a timeout and the caller is not cancelled, hence
\* weak fairness for the rest.  Nobody has to call again.
Fairness == \A c \in Callers : SF_vars(Acquire(c)) /\ WF_vars(Proceed(c))

SafetySpec == Init /\ [][Next]_vars

Spec == SafetySpec /\ Fairness

-----------------------------------------------------------------------------
\* Properties

\* The BMC of a collector never sees two of its callers at work: either one is
\* creating the client or one is gathering, and client.cfg, the session and the
\* metric channel have a single owner ("Do not act concurrently on the same
\* host", within one Collector).
Acting == {c \in Callers : pc[c] = "creating" \/ pc[c] \in LeaderStates}

OneActorPerCollector == \A c, d \in Acting : c = d

\* A caller gets an old or an empty cache with a nil error only when the very
\* collection it waited for failed: a success is never hidden from a rider, even
\* when the rider is scheduled long after the broadcast.
StaleOnlyAfterFailure ==
  \A c \in Callers : reply[c] \in {"stale", "nil"} => c \in failed

\* A goroutine parked in Wait always has a running collection whose deferred
\* broadcast will wake it.
NoLostWakeup ==
  waiting # {} => \E d \in Callers : pc[d] \in LeaderStates

\* Claimed by the design record on the bridge: coalesced callers are safe.  A
\* caller never returns a slice header it read in the middle of an assignment.
NoTornReply == \A c \in Callers : reply[c] # "torn"

\* Every call returns, whoever leads, waits or fails.
CallsReturn == \A c \in Callers : pc[c] = "locking" ~> pc[c] = "idle"

\* The collector implements the coalescing its comment promises.
Flight == IF \E c \in Callers : pc[c] \in LeaderStates
          THEN CHOOSE c \in Callers : pc[c] \in LeaderStates
          ELSE NoCaller

Abstract == INSTANCE SingleFlight WITH
  flight <- Flight,
  aboard <- waiting,
  landed <- {c \in Callers : pc[c] \in {"woken", "reading"}}

Coalesces == Abstract!Spec

\* The strengthening that makes the safety properties inductive: who holds the
\* mutex across steps, what the client's existence implies, what the flag and the
\* notify list mean, and what a leader leaves in the cache for its riders.
MutexHolder == \A c \in Callers : mutex = c <=> pc[c] \in {"creating", "reading"}

ClientSettled ==
  \A c \in Callers :
    /\ pc[c] = "creating" => ~client
    /\ pc[c] \in {"ready"} \cup LeaderStates \cup RiderStates => client

OneLeader ==
  \A c, d \in Callers : pc[c] \in LeaderStates /\ pc[d] \in LeaderStates => c = d

FlagMeansLeader == collecting <=> \E c \in Callers : pc[c] \in LeaderStates

NotifyList == waiting = {c \in Callers : pc[c] = "waiting"}

ParkedUnderLeader == waiting # {} => collecting

LeaderOutcome ==
  \A c \in Callers : pc[c] = "closing" =>
    \/ reply[c] = "error"
    \/ reply[c] = "fresh" /\ families = "data" /\ waiting \cap behind = {}

RidersServed ==
  \A c \in Callers : pc[c] \in {"woken", "reading"} =>
    c \in failed \/ (families = "data" /\ c \notin behind)

Consistent ==
  /\ MutexHolder
  /\ ClientSettled
  /\ OneLeader
  /\ FlagMeansLeader
  /\ NotifyList
  /\ ParkedUnderLeader
  /\ LeaderOutcome
  /\ RidersServed
=============================================================================
