--------------------------- MODULE ReloadTriggers ---------------------------
(***************************************************************************)
(* When a reload starts and what it reads: the file watcher with its       *)
(* one-second window and its re-attachment (cmd/idrac_exporter/config.go), *)
(* SIGHUP (signals.go) and /reload (handler.go).  Each of these goroutines *)
(* reads the file without a lock and takes Config.Mutex only to apply what *)
(* it read.  What applying does, host by host, is CollectorCache's.        *)
(*                                                                         *)
(* Every change of the file gets the next version number.  What a version  *)
(* contains is abstracted to how a reload takes it: a valid configuration, *)
(* a file that is empty (valid YAML that switches every metric group off), *)
(* one that does not parse or validate, no file at all.                    *)
(***************************************************************************)
EXTENDS Naturals, Sequences

CONSTANTS Watcher, Signals,  \* the goroutines WatchConfig and handleSignals
          Handlers,          \* goroutines that serve /reload
          MaxEdits           \* bound: changes of the file

ASSUME TriggersAssumption == /\ Watcher # Signals
                             /\ Watcher \notin Handlers
                             /\ Signals \notin Handlers

ASSUME EditsAssumption == MaxEdits \in Nat

VARIABLES version,   \* of the file's latest change
          kind,      \* what the file is now
          attached,  \* the inotify watch is on the file of that name
          queue,     \* the watch's events that WatchConfig has not received
          watch,     \* where WatchConfig is
          tries,     \* calls of watcher.Add in readd that failed
          recent,    \* less than a second has passed since lastReload
          sighup,    \* the channel of handleSignals, which holds one signal
          job,       \* for each goroutine its ReloadConfig: none, begun, or read
          got,       \* the version that ReloadConfig read, 0 outside
          applied,   \* the version in force
          missed,    \* history: why an edit was not applied since the last that was
          unheard    \* history: a SIGHUP that no later read of handleSignals followed

vars == <<version, kind, attached, queue, watch, tries, recent, sighup,
          job, got, applied, missed, unheard>>

file   == <<version, kind>>
notify == <<attached, queue>>
loop   == <<watch, tries, recent>>
hup    == <<sighup, unheard>>

Triggers == Handlers \cup {Watcher, Signals}

Attempts == 5   \* of readd

Causes == {"startup", "window", "unreadable", "rollback"}

TypeOK ==
  /\ version \in 0..MaxEdits
  /\ kind \in {"valid", "empty", "broken", "absent"}
  /\ attached \in BOOLEAN
  /\ queue \in Seq({"write", "gone"})
  /\ watch \in {"starting", "waiting", "adding", "gating", "stopped"}
  /\ tries \in 0..Attempts /\ (watch = "adding" => tries < Attempts)
  /\ recent \in BOOLEAN
  /\ sighup \in BOOLEAN
  /\ job \in [Triggers -> {"none", "begun", "read"}]
  /\ got \in [Triggers -> 0..MaxEdits]
  /\ applied \in 0..MaxEdits
  /\ missed \subseteq Causes
  /\ unheard \in BOOLEAN

\* LoadConfig has applied the file and started WatchConfig.
Init ==
  /\ version = 0 /\ kind = "valid"
  /\ attached = FALSE /\ queue = <<>>
  /\ watch = "starting" /\ tries = 0 /\ recent = TRUE
  /\ sighup = FALSE /\ unheard = FALSE
  /\ job = [t \in Triggers |-> "none"]
  /\ got = [t \in Triggers |-> 0]
  /\ applied = 0 /\ missed = {}

-----------------------------------------------------------------------------
\* The file, changed by whoever edits it

Change(k) ==
  /\ version < MaxEdits
  /\ version' = version + 1
  /\ kind' = k
  /\ UNCHANGED <<watch, tries, recent, hup, job, got, applied, missed>>

\* An event of the watch; inotify merges it with an equal one at the tail.
Raise(e) ==
  queue' \in IF ~attached THEN {queue}
             ELSE {Append(queue, e)} \cup
                  {q \in {queue} : queue # <<>> /\ queue[Len(queue)] = e}

\* Written in place, which starts by truncating: the two are separate events.
EditInPlace ==
  /\ kind # "absent"
  /\ \E k \in {"valid", "broken", "empty"} : Change(k)
  /\ Raise("write")
  /\ UNCHANGED attached

\* Another file gets the name (an atomic save), or the name goes away.
Replace ==
  /\ kind # "absent"
  /\ \E k \in {"valid", "broken", "absent"} : Change(k)
  /\ Raise("gone")
  /\ attached' = FALSE

Create ==
  /\ kind = "absent"
  /\ Change("valid")
  /\ UNCHANGED notify

-----------------------------------------------------------------------------
\* ReloadConfig, called by goroutine t

Begin(t) ==
  /\ job[t] = "none"
  /\ job' = [job EXCEPT ![t] = "begun"]
  /\ UNCHANGED <<got, applied>>

\* FromFile and Validate: an error ends the reload, nothing is applied.
Read(t) ==
  /\ job[t] = "begun"
  /\ IF kind \in {"valid", "empty"}
     THEN /\ job' = [job EXCEPT ![t] = "read"]
          /\ got' = [got EXCEPT ![t] = version]
          /\ UNCHANGED missed
     ELSE /\ job' = [job EXCEPT ![t] = "none"]
          /\ missed' = missed \cup {"unreadable"}
          /\ UNCHANGED got
  /\ unheard' = (unheard /\ t # Signals)
  /\ UNCHANGED <<file, notify, loop, sighup, applied>>

\* Mutant of Apply: the events that arrived during the reload are discarded.
ApplyAndDrain(t) ==
  /\ job[t] = "read"
  /\ job' = [job EXCEPT ![t] = "none"]
  /\ got' = [got EXCEPT ![t] = 0]
  /\ applied' = got[t]
  /\ missed' = IF got[t] = version THEN {}
               ELSE IF got[t] < applied THEN missed \cup {"rollback"} ELSE missed
  /\ queue' = IF t = Watcher THEN <<>> ELSE queue
  /\ UNCHANGED <<file, attached, loop, hup>>

\* The section of Config.Mutex.
Apply(t) ==
  /\ job[t] = "read"
  /\ job' = [job EXCEPT ![t] = "none"]
  /\ got' = [got EXCEPT ![t] = 0]
  /\ applied' = got[t]
  /\ missed' = IF got[t] = version THEN {}
               ELSE IF got[t] < applied THEN missed \cup {"rollback"} ELSE missed
  /\ UNCHANGED <<file, notify, loop, hup>>

-----------------------------------------------------------------------------
\* WatchConfig

StartWatch ==
  /\ watch = "starting"
  /\ attached' = (kind # "absent")
  /\ watch' = IF kind = "absent" THEN "stopped" ELSE "waiting"
  /\ missed' = IF applied = version THEN missed ELSE missed \cup {"startup"}
  /\ UNCHANGED <<file, queue, tries, recent, hup, job, got, applied>>

\* Mutant of Receive: the window is looked at first, also for a file that is gone.
ReceiveGated ==
  /\ watch = "waiting" /\ job[Watcher] = "none"
  /\ queue # <<>>
  /\ queue' = Tail(queue)
  /\ IF Head(queue) = "gone" /\ ~recent
     THEN /\ attached' = FALSE
          /\ watch' = "adding"
          /\ tries' = 0
     ELSE /\ watch' = "gating"
          /\ UNCHANGED <<attached, tries>>
  /\ UNCHANGED <<file, recent, hup, job, got, applied, missed>>

\* Mutant of Receive: renames and removals are not looked at.
ReceiveWrites ==
  /\ watch = "waiting" /\ job[Watcher] = "none"
  /\ queue # <<>>
  /\ queue' = Tail(queue)
  /\ watch' = IF Head(queue) = "gone" THEN "waiting" ELSE "gating"
  /\ UNCHANGED <<file, attached, tries, recent, hup, job, got, applied, missed>>

\* One event; the watch of a file that is gone is removed and has to be added again.
Receive ==
  /\ watch = "waiting" /\ job[Watcher] = "none"
  /\ queue # <<>>
  /\ queue' = Tail(queue)
  /\ IF Head(queue) = "gone"
     THEN /\ attached' = FALSE
          /\ watch' = "adding"
          /\ tries' = 0
     ELSE /\ watch' = "gating"
          /\ UNCHANGED <<attached, tries>>
  /\ UNCHANGED <<file, recent, hup, job, got, applied, missed>>

\* Mutant of Readd: no bound on the attempts.
ReaddForever ==
  /\ watch = "adding"
  /\ attached' = (kind # "absent")
  /\ watch' = IF kind = "absent" THEN "adding" ELSE "gating"
  /\ tries' = IF kind = "absent" THEN tries + 1 ELSE tries
  /\ UNCHANGED <<file, queue, recent, hup, job, got, applied, missed>>

\* One call of watcher.Add in readd, with the sleep that follows a failure.
Readd ==
  /\ watch = "adding"
  /\ attached' = (kind # "absent")
  /\ tries' = IF kind = "absent" THEN tries + 1 ELSE 0
  /\ watch' = IF kind # "absent" THEN "gating"
              ELSE IF tries + 1 = Attempts THEN "stopped" ELSE "adding"
  /\ UNCHANGED <<file, queue, recent, hup, job, got, applied, missed>>

\* The window: within a second of the last reload the event is dropped.
Gate ==
  /\ watch = "gating"
  /\ watch' = "waiting"
  /\ IF recent
     THEN /\ missed' = IF applied = version THEN missed ELSE missed \cup {"window"}
          /\ UNCHANGED <<recent, job, got, applied>>
     ELSE /\ recent' = TRUE
          /\ Begin(Watcher)
          /\ UNCHANGED missed
  /\ UNCHANGED <<file, notify, tries, hup>>

\* A second has passed since lastReload.
Elapse ==
  /\ recent
  /\ recent' = FALSE
  /\ UNCHANGED <<file, notify, watch, tries, hup, job, got, applied, missed>>

-----------------------------------------------------------------------------
\* SIGHUP and /reload

\* Mutant of Hup: a channel without a buffer.
HupUnbuffered ==
  /\ sighup' = (job[Signals] = "none")
  /\ unheard' = TRUE
  /\ UNCHANGED <<file, notify, loop, job, got, applied, missed>>

\* os/signal drops a signal when the channel is full.
Hup ==
  /\ sighup' = TRUE
  /\ unheard' = TRUE
  /\ UNCHANGED <<file, notify, loop, job, got, applied, missed>>

HandleHup ==
  /\ sighup
  /\ Begin(Signals)
  /\ sighup' = FALSE
  /\ UNCHANGED <<file, notify, loop, unheard, missed>>

RequestReload(h) ==
  /\ Begin(h)
  /\ UNCHANGED <<file, notify, loop, hup, missed>>

-----------------------------------------------------------------------------
Edit == EditInPlace \/ Replace \/ Create

Watching == StartWatch \/ Receive \/ Readd \/ Gate

Next ==
  \/ Edit \/ Watching \/ Elapse \/ Hup \/ HandleHup
  \/ \E h \in Handlers : RequestReload(h)
  \/ \E t \in Triggers : Read(t) \/ Apply(t)

SafetySpec == Init /\ [][Next]_vars

\* The goroutines run whenever they can, every reload ends, time passes.
Fairness ==
  /\ WF_vars(Watching) /\ WF_vars(Elapse) /\ WF_vars(HandleHup)
  /\ \A t \in Triggers : WF_vars(Read(t) \/ Apply(t))

Spec == SafetySpec /\ Fairness

-----------------------------------------------------------------------------
\* Properties

Gone(q) == \E i \in 1..Len(q) : q[i] = "gone"

\* While WatchConfig waits for events its watch is on the file that has the name
\* now, or the event that tells it otherwise is on its way: an atomic save never
\* leaves it waiting for events of a file nobody sees any more.
NeverDetached == watch = "waiting" => attached \/ Gone(queue)

\* A file that differs from the configuration in force will be looked at again,
\* unless the code gave the edit up at one of the places it is known to: before
\* the watch began, within the window, an unreadable file, a slower reload that
\* put back older content, the end of the watch.  Edits during a reload, between
\* the removal and the re-attachment of the watch, or beside SIGHUP and /reload
\* are not lost.
UnderWay ==
  \/ watch \in {"starting", "adding", "gating"}
  \/ job[Watcher] = "begun"
  \/ job[Watcher] = "read" /\ got[Watcher] = version
  \/ queue # <<>>

NoEditLostWithoutCause ==
  applied # version => UnderWay \/ missed # {} \/ watch = "stopped"

\* A SIGHUP is answered by a read of the file that comes after it, also when it
\* arrives in the middle of a reload or with another one pending.
HupHeard == unheard ~> ~unheard

\* When the edits end, so do the reloads: with the last edit in force, or with
\* one of the causes above.
EditsSettle == <>[](applied = version \/ missed # {} \/ watch = "stopped")

\* The strengthening: what a reload read is not newer than the file, what is in
\* force neither, and a detached watch has told so.
Accounted ==
  /\ NeverDetached
  /\ NoEditLostWithoutCause
  /\ watch = "gating" => attached \/ Gone(queue)
  /\ attached => kind # "absent"
  /\ job[Watcher] # "none" => watch = "waiting"
  /\ applied <= version
  /\ \A t \in Triggers : got[t] <= version
=============================================================================
