------------------------- MODULE ReloadTriggersProofs -------------------------
(***************************************************************************)
(* Theorems about ReloadTriggers for any number of edits of the file and   *)
(* any set of /reload handlers.  The argument is one inductive invariant,  *)
(* TypeOK /\ Accounted: a watch that is attached is on a file that exists, *)
(* one that is not has an event about it in its queue unless WatchConfig   *)
(* is busy re-attaching it, and no goroutine has read more than was        *)
(* written.                                                                *)
(***************************************************************************)
EXTENDS ReloadTriggers, SequenceTheorems, TLAPS

Events == {"write", "gone"}

\* What an edit does to the queue keeps the events that were in it.
LEMMA RaiseKeeps ==
  ASSUME NEW e \in Events, queue \in Seq(Events), Raise(e)
  PROVE  /\ queue' \in Seq(Events)
         /\ Gone(queue) => Gone(queue')
         /\ attached => queue' # <<>>
         /\ attached /\ e = "gone" => Gone(queue')
<1>1. CASE ~attached
  <2>1. queue' = queue
    BY <1>1 DEF Raise
  <2> QED BY <1>1, <2>1
<1>2. CASE attached
  <2>1. CASE queue' = Append(queue, e)
    <3>1. Len(queue') = Len(queue) + 1 /\ queue'[Len(queue) + 1] = e
          /\ \A i \in 1..Len(queue) : queue'[i] = queue[i]
      BY <2>1 DEF Events
    <3>2. queue' \in Seq(Events) /\ queue' # <<>>
      BY <2>1 DEF Events
    <3>3. Gone(queue) => Gone(queue')
      BY <3>1 DEF Gone
    <3>4. e = "gone" => Gone(queue')
      BY <3>1 DEF Gone
    <3> QED BY <3>2, <3>3, <3>4
  <2>2. CASE queue' = queue /\ queue # <<>> /\ queue[Len(queue)] = e
    <3>1. Len(queue) \in 1..Len(queue)
      BY <2>2
    <3>2. e = "gone" => Gone(queue')
      BY <2>2, <3>1 DEF Gone
    <3> QED BY <2>2, <3>2
  <2> QED BY <1>2, <2>1, <2>2 DEF Raise
<1> QED BY <1>1, <1>2

\* An event that is not received stays in the queue.
LEMMA TailKeeps ==
  ASSUME NEW q \in Seq(Events), q # <<>>, Gone(q), Head(q) # "gone"
  PROVE  Gone(Tail(q))
<1>1. PICK i \in 1..Len(q) : q[i] = "gone"
  BY DEF Gone
<1>2. i # 1
  BY <1>1
<1>3. i - 1 \in 1..Len(Tail(q)) /\ Tail(q)[i - 1] = "gone"
  BY <1>1, <1>2
<1> QED BY <1>3 DEF Gone

-----------------------------------------------------------------------------
\* Every reachable state is well typed: the attempts of readd are bounded, and
\* what a reload read, or has applied, is a version the file has had.
LEMMA TypeStep == TypeOK /\ [Next]_vars => TypeOK'
<1> SUFFICES ASSUME TypeOK, [Next]_vars PROVE TypeOK'
  OBVIOUS
<1> USE EditsAssumption DEF TypeOK, Triggers, Causes, Attempts
<1>1. CASE UNCHANGED vars
  BY <1>1 DEF vars
<1>2. CASE Edit
  <2>1. ASSUME NEW e \in Events, Raise(e) PROVE queue' \in Seq(Events)
    BY <2>1, RaiseKeeps DEF Events
  <2>2. CASE EditInPlace
    BY <2>1, <2>2 DEF EditInPlace, Change, Events, hup
  <2>3. CASE Replace
    <3>1. queue' \in Seq({"write", "gone"}) /\ attached' \in BOOLEAN
      BY <2>1, <2>3 DEF Replace, Events
    <3> QED BY <2>3, <3>1 DEF Replace, Change, hup
  <2>4. CASE Create
    BY <2>4 DEF Create, Change, hup, notify
  <2> QED BY <1>2, <2>2, <2>3, <2>4 DEF Edit
<1>3. CASE StartWatch
  BY <1>3 DEF StartWatch, file, hup
<1>4. CASE Receive
  <2>1. queue' \in Seq({"write", "gone"})
    BY <1>4 DEF Receive
  <2>2. attached' \in BOOLEAN
    BY <1>4 DEF Receive
  <2>3. tries' \in 0..Attempts /\ (watch' = "adding" => tries' < Attempts)
    BY <1>4 DEF Receive
  <2> QED BY <1>4, <2>1, <2>2, <2>3 DEF Receive, file, hup
<1>5. CASE Readd
  <2>1. attached' \in BOOLEAN
    BY <1>5 DEF Readd
  <2>2. tries' \in 0..Attempts /\ (watch' = "adding" => tries' < Attempts)
    BY <1>5 DEF Readd
  <2> QED BY <1>5, <2>1, <2>2 DEF Readd, file, hup
<1>6. CASE Gate
  BY <1>6 DEF Gate, Begin, file, notify, hup
<1>7. CASE Elapse
  BY <1>7 DEF Elapse, file, notify, hup
<1>8. CASE Hup
  BY <1>8 DEF Hup, file, notify, loop
<1>9. CASE HandleHup
  BY <1>9 DEF HandleHup, Begin, file, notify, loop
<1>10. ASSUME NEW h \in Handlers, RequestReload(h) PROVE TypeOK'
  BY <1>10 DEF RequestReload, Begin, file, notify, loop, hup
<1>11. ASSUME NEW t \in Triggers, Read(t) PROVE TypeOK'
  BY <1>11 DEF Read, file, notify, loop
<1>12. ASSUME NEW t \in Triggers, Apply(t) PROVE TypeOK'
  <2>1. applied' \in 0..MaxEdits
    BY <1>12 DEF Apply
  <2>2. missed' \subseteq Causes
    BY <1>12 DEF Apply
  <2>3. job' \in [Triggers -> {"none", "begun", "read"}] /\ got' \in [Triggers -> 0..MaxEdits]
    BY <1>12 DEF Apply
  <2> QED BY <1>12, <2>1, <2>2, <2>3 DEF Apply, file, notify, loop, hup
<1> QED BY <1>1, <1>2, <1>3, <1>4, <1>5, <1>6, <1>7, <1>8, <1>9, <1>10, <1>11, <1>12
        DEF Next, Watching

THEOREM TypeCorrect == SafetySpec => []TypeOK
<1>1. Init => TypeOK
  <2> SUFFICES ASSUME Init PROVE TypeOK
    OBVIOUS
  <2>1. attached \in BOOLEAN /\ recent \in BOOLEAN /\ sighup \in BOOLEAN /\ unheard \in BOOLEAN
    BY DEF Init
  <2>2. job \in [Triggers -> {"none", "begun", "read"}] /\ got \in [Triggers -> 0..MaxEdits]
    BY EditsAssumption DEF Init
  <2>3. queue \in Seq({"write", "gone"}) /\ missed \subseteq Causes
    BY DEF Init
  <2>4. version \in 0..MaxEdits /\ applied \in 0..MaxEdits /\ tries \in 0..Attempts
    BY EditsAssumption DEF Init, Attempts
  <2> QED BY <2>1, <2>2, <2>3, <2>4 DEF Init, TypeOK
<1> QED BY <1>1, TypeStep, PTL DEF SafetySpec

-----------------------------------------------------------------------------
\* The inductive invariant holds initially ...
LEMMA AccountedInit == Init => Accounted
BY EditsAssumption
   DEF Init, Accounted, NeverDetached, NoEditLostWithoutCause, UnderWay, Gone, Triggers

\* ... and every step preserves it.
LEMMA AccountedStep == TypeOK /\ Accounted /\ [Next]_vars => Accounted'
<1> SUFFICES ASSUME TypeOK, Accounted, [Next]_vars PROVE Accounted'
  OBVIOUS
<1>q. queue \in Seq(Events)
  BY DEF TypeOK, Events
<1>w. Watcher \in Triggers
  BY DEF Triggers
<1> USE DEF Accounted, NeverDetached, NoEditLostWithoutCause, UnderWay
<1>1. CASE UNCHANGED vars
  BY <1>1 DEF vars, Gone
<1>2. CASE Edit
  <2>1. version' = version + 1 /\ applied < version'
    BY <1>2 DEF Edit, EditInPlace, Replace, Create, Change, TypeOK
  <2>2. UNCHANGED <<watch, tries, recent, job, got, applied, missed>>
    BY <1>2 DEF Edit, EditInPlace, Replace, Create, Change
  <2>3. /\ Gone(queue) => Gone(queue')
        /\ attached => queue' # <<>>
        /\ attached' => attached
        /\ attached /\ ~attached' => Gone(queue')
        /\ attached' => kind' # "absent"
    <3>1. CASE EditInPlace
      BY <1>q, <3>1, RaiseKeeps DEF EditInPlace, Change, Events
    <3>2. CASE Replace
      BY <1>q, <3>2, RaiseKeeps DEF Replace, Events
    <3>3. CASE Create
      BY <3>3 DEF Create, notify
    <3> QED BY <1>2, <3>1, <3>2, <3>3 DEF Edit
  <2>4. Gone(queue') => queue' # <<>>
    BY DEF Gone
  <2>5. \A t \in Triggers : got'[t] <= version'
    BY <2>1, <2>2 DEF TypeOK
  <2> QED BY <2>1, <2>2, <2>3, <2>4, <2>5 DEF TypeOK
<1>3. CASE StartWatch
  BY <1>3 DEF StartWatch, file, hup, Gone
<1>4. CASE Receive
  <2>1. CASE Head(queue) = "gone"
    BY <1>4, <2>1, <1>w DEF Receive, file, hup
  <2>2. CASE Head(queue) # "gone"
    <3>1. Gone(queue) => Gone(queue')
      BY <1>q, <1>4, <2>2, TailKeeps DEF Receive
    <3> QED BY <1>4, <2>2, <3>1 DEF Receive, file, hup
  <2> QED BY <2>1, <2>2
<1>5. CASE Readd
  BY <1>5 DEF Readd, file, hup, Gone
<1>6. CASE Gate
  <2>1. watch = "gating" /\ watch' = "waiting"
        /\ UNCHANGED <<version, kind, attached, queue, got, applied>>
    BY <1>6 DEF Gate, Begin, file, notify
  <2>2. Gone(queue) => Gone(queue')
    BY <2>1
  <2>3. CASE recent
    BY <1>6, <2>1, <2>2, <2>3 DEF Gate
  <2>4. CASE ~recent
    BY <1>6, <1>w, <2>1, <2>2, <2>4 DEF Gate, Begin, TypeOK
  <2> QED BY <2>3, <2>4
<1>7. CASE Elapse
  BY <1>7 DEF Elapse, file, notify, hup, Gone
<1>8. CASE Hup
  BY <1>8 DEF Hup, file, notify, loop, Gone
<1>9. CASE HandleHup
  BY <1>9, <1>w, TriggersAssumption DEF HandleHup, Begin, file, notify, loop, Gone, TypeOK, Triggers
<1>10. ASSUME NEW h \in Handlers, RequestReload(h) PROVE Accounted'
  BY <1>10, <1>w, TriggersAssumption DEF RequestReload, Begin, file, notify, loop, hup, Gone, TypeOK, Triggers
<1>11. ASSUME NEW t \in Triggers, Read(t) PROVE Accounted'
  <2>1. UNCHANGED <<version, kind, attached, queue, watch, applied>>
    BY <1>11 DEF Read, file, notify, loop
  <2>2. Gone(queue) => Gone(queue')
    BY <2>1
  <2>3. \A u \in Triggers : got'[u] <= version'
    BY <1>11, <2>1 DEF Read, TypeOK
  <2>4. job'[Watcher] # "none" => job[Watcher] # "none"
    BY <1>11, <1>w DEF Read, TypeOK
  <2>5. CASE kind \in {"valid", "empty"}
    BY <1>11, <1>w, <2>1, <2>2, <2>3, <2>4, <2>5 DEF Read, TypeOK
  <2>6. CASE kind \notin {"valid", "empty"}
    <3>1. missed' # {}
      BY <1>11, <2>6 DEF Read
    <3> QED BY <2>1, <2>2, <2>3, <2>4, <3>1
  <2> QED BY <2>5, <2>6
<1>12. ASSUME NEW t \in Triggers, Apply(t) PROVE Accounted'
  <2>1. UNCHANGED <<version, kind, attached, queue, watch>> /\ applied' = got[t]
    BY <1>12 DEF Apply, file, notify, loop
  <2>2. Gone(queue) => Gone(queue')
    BY <2>1
  <2>3. \A u \in Triggers : got'[u] <= version'
    BY <1>12, <2>1 DEF Apply, TypeOK
  <2>4. job'[Watcher] # "none" => job[Watcher] # "none"
    BY <1>12, <1>w DEF Apply, TypeOK
  <2>5. applied' <= version'
    BY <2>1
  <2>6. applied' # version' => UnderWay' \/ missed' # {} \/ watch' = "stopped"
    <3>1. CASE got[t] = version
      BY <2>1, <3>1
    <3>2. CASE got[t] # version
      <4>1. CASE got[t] < applied
        BY <1>12, <3>2, <4>1 DEF Apply
      <4>2. CASE ~(got[t] < applied)
        <5>1. applied # version
          BY <3>2, <4>2 DEF TypeOK
        <5>2. missed' = missed
          BY <1>12, <3>2, <4>2 DEF Apply
        <5>3. UnderWay => UnderWay'
          BY <1>12, <1>w, <2>1, <3>2 DEF Apply, TypeOK
        <5> QED BY <2>1, <5>1, <5>2, <5>3
      <4> QED BY <4>1, <4>2
    <3> QED BY <3>1, <3>2
  <2> QED BY <2>1, <2>2, <2>3, <2>4, <2>5, <2>6
<1> QED BY <1>1, <1>2, <1>3, <1>4, <1>5, <1>6, <1>7, <1>8, <1>9, <1>10, <1>11, <1>12
        DEF Next, Watching

LEMMA AccountedAlways == SafetySpec => []Accounted
BY TypeCorrect, AccountedInit, AccountedStep, PTL DEF SafetySpec

-----------------------------------------------------------------------------
\* WatchConfig never waits for events of a file that lost its name without one
\* that tells it so being on its way.
THEOREM WatchFollowsTheName == SafetySpec => []NeverDetached
<1>1. Accounted => NeverDetached
  BY DEF Accounted
<1> QED BY <1>1, AccountedAlways, PTL

\* An edit that is not in force will be looked at, or was given up at one of the
\* places where the code gives edits up.
THEOREM EditsAccountedFor == SafetySpec => []NoEditLostWithoutCause
<1>1. Accounted => NoEditLostWithoutCause
  BY DEF Accounted
<1> QED BY <1>1, AccountedAlways, PTL
=============================================================================
