---------------------------- MODULE ExporterProofs ----------------------------
(***************************************************************************)
(* Theorems about Exporter for any files, environments and goroutines.     *)
(* The argument is one inductive invariant, TypeOK /\ Consistent: whoever  *)
(* merges a reload, or reads with the mutex, holds it; what a merge has    *)
(* done is in force; and no entry that is in force, or was loaded, is      *)
(* incomplete.                                                             *)
(***************************************************************************)
EXTENDS Exporter, TLAPS

Jobs == [cfg      : Configs \cup {Nobody},
         left     : SUBSET UNION {Keys(c.hosts) : c \in Configs},
         applying : BOOLEAN]

Shapes ==
  /\ \E h, m : config = [hosts |-> h, metrics |-> m]
  /\ job \in [Reloaders -> Jobs]

\* The mutex is with who merges or reads under it; who does not merge yet has all of
\* it to do.
Exclusive ==
  /\ \A r \in Reloaders : job[r].applying => mutex = r
  /\ \A r \in Reloaders :
       job[r] # NoJob /\ ~job[r].applying => job[r].left = Keys(job[r].cfg.hosts)
  /\ \A x \in reading : TakesLock(x) => mutex = x
  /\ phase = "starting" => \A r \in Reloaders : job[r] = NoJob

InForce(k, hosts, cfg) == k \in Keys(hosts) /\ hosts[k] = cfg.hosts[k]

\* What is in force during a merge, and between merges.
Merged ==
  config.hosts # Null =>
    /\ \A r \in Reloaders : job[r].applying =>
         /\ config.metrics = job[r].cfg.metrics
         /\ \A k \in Keys(job[r].cfg.hosts) : k \in job[r].left \/ InForce(k, config.hosts, job[r].cfg)
    /\ (\A r \in Reloaders : ~job[r].applying) =>
         /\ config.metrics = last.metrics
         /\ \A k \in Keys(last.hosts) : InForce(k, config.hosts, last)

Consistent == Shapes /\ Exclusive /\ Merged

-----------------------------------------------------------------------------
\* What is loaded

\* What may be loaded is complete, and never null.
LEMMA ConfigsFacts ==
  ASSUME NEW c \in Configs
  PROVE  /\ \A k \in Keys(c.hosts) : Complete(c.hosts[k]) /\ c.hosts[k] # Null
         /\ c.metrics \subseteq Flags
<1>1. PICK e \in Environs, f \in Files : Valid(e, f) /\ c = Load(e, f)
  BY DEF Configs
<1>2. c.hosts = HostsOf(e, f) /\ c.metrics = MetricsOf(e, f)
  BY <1>1 DEF Load
<1>3. \A k \in Keys(c.hosts) : Complete(c.hosts[k])
  BY <1>1, <1>2 DEF Valid
<1>4. c.metrics \subseteq Flags
  BY <1>2, FlagsAssumption DEF MetricsOf
<1> QED BY <1>3, <1>4 DEF Complete

\* What a valid file gives is one of the configurations.
LEMMA LoadTyped ==
  ASSUME TypeOK, Valid(env, file)
  PROVE  Load(env, file) \in Configs
BY DEF TypeOK, Configs

\* A panic over the environment needs a null section or entry.
LEMMA PanicsNull == Panics(env, file) => NullSection
BY DEF Panics, NullSection

\* The fields of the configuration in force and of the jobs.
LEMMA ConfigWith ==
  ASSUME Shapes, NEW x
  PROVE  /\ [config EXCEPT !.hosts = x] = [hosts |-> x, metrics |-> config.metrics]
         /\ [config EXCEPT !.metrics = x] = [hosts |-> config.hosts, metrics |-> x]
BY DEF Shapes

\* What a job that has begun has loaded and has left.
LEMMA JobTyped ==
  ASSUME TypeOK, Shapes, NEW r \in Reloaders, job[r] # NoJob
  PROVE  /\ job[r] \in Jobs
         /\ job[r].cfg \in Configs
         /\ job[r].left \subseteq Keys(job[r].cfg.hosts)
         /\ job[r].applying \in BOOLEAN
<1>1. job[r] \in Jobs
  BY DEF Shapes
<1> QED BY <1>1 DEF TypeOK, Jobs

\* Changing one field of a job.
LEMMA JobWith ==
  ASSUME NEW j \in Jobs, NEW x
  PROVE  /\ [j EXCEPT !.applying = x] = [cfg |-> j.cfg, left |-> j.left, applying |-> x]
         /\ [j EXCEPT !.left = x] = [cfg |-> j.cfg, left |-> x, applying |-> j.applying]
BY DEF Jobs

\* What any job may be, as TypeOK and Shapes have it.
JobOK(j) ==
  /\ j \in Jobs
  /\ j = NoJob \/ j.cfg \in Configs
  /\ j.left \subseteq Keys(IF j = NoJob THEN Null ELSE j.cfg.hosts)

\* No job is well typed ...
LEMMA NoJobOK == JobOK(NoJob)
BY DEF JobOK, NoJob, Jobs

\* ... and so is one with a configuration and some of its hosts left.
LEMMA NewJobOK ==
  ASSUME NEW c \in Configs, NEW l \in SUBSET Keys(c.hosts), NEW b \in BOOLEAN
  PROVE  JobOK([cfg |-> c, left |-> l, applying |-> b])
<1> DEFINE j == [cfg |-> c, left |-> l, applying |-> b]
<1>1. l \in SUBSET UNION {Keys(d.hosts) : d \in Configs}
  OBVIOUS
<1>2. j \in Jobs /\ j.cfg \in Configs
  BY <1>1 DEF Jobs
<1>3. CASE j = NoJob
  <2>1. l = {}
    BY <1>3 DEF NoJob
  <2> QED BY <1>2, <1>3, <2>1 DEF JobOK
<1>4. CASE j # NoJob
  BY <1>2, <1>4 DEF JobOK
<1> QED BY <1>3, <1>4

\* Changing one job keeps the others, and all well typed.
LEMMA JobsOK ==
  ASSUME TypeOK, Shapes, NEW r \in Reloaders, NEW j, JobOK(j), job' = [job EXCEPT ![r] = j]
  PROVE  /\ job' \in [Reloaders -> Jobs]
         /\ \A q \in Reloaders : JobOK(job'[q])
         /\ job'[r] = j /\ \A q \in Reloaders : q # r => job'[q] = job[q]
<1>1. job \in [Reloaders -> Jobs] /\ j \in Jobs
  BY DEF Shapes, JobOK
<1>2. /\ job' \in [Reloaders -> Jobs]
      /\ job'[r] = j /\ \A q \in Reloaders : q # r => job'[q] = job[q]
  BY <1>1
<1>3. \A q \in Reloaders : JobOK(job[q])
  BY <1>1 DEF TypeOK, JobOK
<1> QED BY <1>2, <1>3

-----------------------------------------------------------------------------
\* What the steps of a reload do.  A merge into a map that is there never panics.

Ready(cfg) == [cfg |-> cfg, left |-> Keys(cfg.hosts), applying |-> FALSE]

\* A file that is loaded gives a job with all of it to do.
LEMMA LoadFacts ==
  ASSUME TypeOK, Shapes, NEW r \in Reloaders, LoadFile(r)
  PROVE  /\ Load(env, file) \in Configs
         /\ JobOK(Ready(Load(env, file)))
         /\ job' = [job EXCEPT ![r] = Ready(Load(env, file))]
         /\ job[r] = NoJob /\ phase # "starting"
         /\ UNCHANGED <<env, file, phase, config, mutex, reading, last>>
<1>1. Load(env, file) \in Configs
  BY LoadTyped DEF LoadFile
<1>2. JobOK(Ready(Load(env, file)))
  BY <1>1, NewJobOK DEF Ready
<1> QED BY <1>1, <1>2 DEF LoadFile, Ready, Idle, Running

\* A panic gives the job and the mutex up.
LEMMA PanicFacts ==
  ASSUME NEW r \in Reloaders, Panic(r)
  PROVE  /\ job' = [job EXCEPT ![r] = NoJob]
         /\ mutex' = IF mutex = r THEN Nobody ELSE mutex
         /\ phase' \in {phase, "crashed"}
BY DEF Panic

\* A merge begins with the mutex and the metrics.
LEMMA BeginMergeFacts ==
  ASSUME TypeOK, Shapes, NEW r \in Reloaders, BeginMerge(r)
  PROVE  LET j == [cfg |-> job[r].cfg, left |-> job[r].left, applying |-> TRUE] IN
         /\ job[r].cfg \in Configs /\ JobOK(j)
         /\ job' = [job EXCEPT ![r] = j]
         /\ config' = [hosts |-> config.hosts, metrics |-> job[r].cfg.metrics]
         /\ mutex = Nobody /\ mutex' = r /\ phase # "starting"
         /\ UNCHANGED <<env, file, phase, reading, last>>
<1> DEFINE j == [cfg |-> job[r].cfg, left |-> job[r].left, applying |-> TRUE]
<1>1. /\ job[r] \in Jobs
      /\ job[r].cfg \in Configs /\ job[r].left \subseteq Keys(job[r].cfg.hosts)
  BY JobTyped DEF BeginMerge
<1>2. JobOK(j)
  BY <1>1, NewJobOK
<1>3. [job[r] EXCEPT !.applying = TRUE] = j
  BY <1>1, JobWith
<1>4. job' = [job EXCEPT ![r] = j]
  BY <1>3 DEF BeginMerge
<1>5. config' = [hosts |-> config.hosts, metrics |-> job[r].cfg.metrics]
  BY ConfigWith DEF BeginMerge
<1> HIDE DEF j
<1>6. mutex = Nobody /\ mutex' = r /\ phase # "starting" /\ UNCHANGED <<env, file, phase, reading, last>>
  BY DEF BeginMerge, Running
<1> QED BY <1>1, <1>2, <1>4, <1>5, <1>6 DEF j

\* One entry is merged: it is in force then, and all others are as they were.
Entered(r, k) ==
  LET j == [cfg |-> job[r].cfg, left |-> job[r].left \ {k}, applying |-> TRUE] IN
  /\ JobOK(j) /\ job' = [job EXCEPT ![r] = j]
  /\ \E h : config' = [hosts |-> h, metrics |-> config.metrics]
  /\ config.hosts # Null
  /\ config'.hosts # Null =>
       /\ InForce(k, config'.hosts, job[r].cfg)
       /\ Keys(config'.hosts) = Keys(config.hosts) \cup {k}
       /\ \A i \in Keys(config.hosts) : i # k => config'.hosts[i] = config.hosts[i]
  /\ UNCHANGED mutex
  /\ phase' \in {phase, "crashed"}
  /\ phase' # phase => reading # {}

Abandoned(r) == config.hosts = Null /\ Panic(r) /\ UNCHANGED config

\* One entry is entered, or the map is nil.
LEMMA MergeFacts ==
  ASSUME TypeOK, Shapes, NEW r \in Reloaders, NEW k \in job[r].left, job[r] # NoJob, Merge(r, k)
  PROVE  /\ job[r].applying /\ job[r].cfg \in Configs /\ k \in Keys(job[r].cfg.hosts)
         /\ Entered(r, k) \/ Abandoned(r)
         /\ phase # "starting" /\ Running
         /\ UNCHANGED <<env, file, reading, last>>
<1> DEFINE entry == job[r].cfg.hosts[k]
           same  == k \in Keys(config.hosts) /\ config.hosts[k] = entry
           nil   == config.hosts = Null \/ (k \in Keys(config.hosts) /\ Null \in {config.hosts[k], entry})
           j     == [cfg |-> job[r].cfg, left |-> job[r].left \ {k}, applying |-> TRUE]
<1>1. /\ job[r] \in Jobs
      /\ job[r].cfg \in Configs /\ k \in Keys(job[r].cfg.hosts)
      /\ job[r].left \subseteq Keys(job[r].cfg.hosts)
      /\ job[r].applying /\ job[r].applying \in BOOLEAN
  BY JobTyped DEF Merge
<1>2. entry # Null
  BY <1>1, ConfigsFacts
<1>3. k \in Keys(config.hosts) => config.hosts[k] # Null
  BY DEF TypeOK
<1>4. JobOK(j) /\ [job[r] EXCEPT !.left = @ \ {k}] = j
  <2>1. JobOK(j)
    BY <1>1, NewJobOK
  <2>2. job[r].applying = TRUE
    BY <1>1
  <2>3. [job[r] EXCEPT !.left = @ \ {k}] = j
    BY <1>1, <2>2, JobWith
  <2> QED BY <2>1, <2>3
<1>5. \/ nil /\ Panic(r) /\ UNCHANGED config
      \/ /\ ~nil
         /\ job' = [job EXCEPT ![r] = j]
         /\ IF same THEN UNCHANGED <<config, phase>> ELSE WriteHosts(With(config.hosts, k, entry))
         /\ UNCHANGED mutex
  BY <1>4 DEF Merge
<1>6. CASE nil /\ Panic(r) /\ UNCHANGED config
  BY <1>1, <1>2, <1>3, <1>6 DEF Abandoned, Merge, Running
<1>7. CASE ~nil /\ job' = [job EXCEPT ![r] = j] /\ same /\ UNCHANGED <<config, phase>> /\ UNCHANGED mutex
  <2>1. \E h : config' = [hosts |-> h, metrics |-> config.metrics]
    BY <1>7 DEF Shapes
  <2>2. InForce(k, config'.hosts, job[r].cfg) /\ Keys(config'.hosts) = Keys(config.hosts) \cup {k}
    <3>1. job[r].cfg.hosts[k] = config.hosts[k] /\ config' = config /\ k \in Keys(config.hosts)
      BY <1>7
    <3>2. config'.hosts[k] = job[r].cfg.hosts[k]
      BY <3>1
    <3> QED BY <3>1, <3>2 DEF InForce
  <2> QED BY <1>1, <1>4, <1>7, <2>1, <2>2 DEF Entered, Merge, Running
<1>8. CASE /\ ~nil /\ job' = [job EXCEPT ![r] = j] /\ ~same
           /\ WriteHosts(With(config.hosts, k, entry)) /\ UNCHANGED mutex
  <2>1. config' = [hosts |-> With(config.hosts, k, entry), metrics |-> config.metrics]
    BY <1>8, ConfigWith DEF WriteHosts
  <2>2. Keys(config.hosts) = DOMAIN config.hosts
    BY <1>8 DEF Keys
  <2>3. config'.hosts = With(config.hosts, k, entry)
    BY <2>1
  <2>4. config'.hosts # Null => Keys(config'.hosts) = Keys(config.hosts) \cup {k}
    BY <2>2, <2>3 DEF With, Keys
  <2>5. config'.hosts[k] = entry /\ \A i \in Keys(config.hosts) : i # k => config'.hosts[i] = config.hosts[i]
    BY <2>2, <2>3 DEF With
  <2>6. config'.hosts # Null => InForce(k, config'.hosts, job[r].cfg)
    <3> SUFFICES ASSUME config'.hosts # Null
                 PROVE  k \in Keys(config'.hosts) /\ config'.hosts[k] = job[r].cfg.hosts[k]
      BY DEF InForce
    <3> QED BY <2>4, <2>5
  <2>7. phase' \in {phase, "crashed"} /\ (phase' # phase => reading # {})
    BY <1>8 DEF WriteHosts
  <2>8. Entered(r, k)
    BY <1>4, <1>8, <2>1, <2>4, <2>5, <2>6, <2>7 DEF Entered
  <2> QED BY <1>1, <2>8 DEF Merge, Running
<1> QED BY <1>5, <1>6, <1>7, <1>8

EndMergeFacts(r) ==
  /\ job' = [job EXCEPT ![r] = NoJob] /\ job[r].applying /\ job[r].left = {}
  /\ mutex' = IF mutex = r THEN Nobody ELSE mutex
  /\ last' = job[r].cfg
  /\ UNCHANGED <<env, file, phase, config, reading>>

\* Jobs stay well typed.
LEMMA JobsTyped ==
  ASSUME TypeOK, Shapes, NEW r \in Reloaders, NEW j, JobOK(j), job' = [job EXCEPT ![r] = j]
  PROVE  /\ job' \in [Reloaders -> Jobs]
         /\ \A q \in Reloaders :
              /\ job'[q] = NoJob \/ job'[q].cfg \in Configs
              /\ job'[q].left \subseteq Keys(IF job'[q] = NoJob THEN Null ELSE job'[q].cfg.hosts)
BY JobsOK DEF JobOK

-----------------------------------------------------------------------------
\* Every reachable state is well typed ...

\* One step per action.
LEMMA TypeStep == TypeOK /\ Shapes /\ [Next]_vars => (TypeOK /\ Shapes)'
<1> SUFFICES ASSUME TypeOK, Shapes, [Next]_vars PROVE (TypeOK /\ Shapes)'
  OBVIOUS
<1>1. CASE UNCHANGED vars
  BY <1>1 DEF vars, TypeOK, Shapes
<1>2. CASE Start
  <2>1. CASE Valid(env, file)
    <3>1. config' = Load(env, file) /\ last' = config' /\ phase' \in Phases
          /\ UNCHANGED <<env, file, mutex, job, reading>>
      BY <1>2, <2>1 DEF Start, Phases
    <3>2. config' \in Configs
      BY <2>1, <3>1, LoadTyped
    <3>3. \E h, m : config' = [hosts |-> h, metrics |-> m]
      BY <3>1 DEF Load
    <3> QED BY <3>1, <3>2, <3>3, ConfigsFacts DEF TypeOK, Shapes
  <2>2. CASE ~Valid(env, file)
    <3>1. phase' \in Phases /\ UNCHANGED <<config, last, env, file, mutex, job, reading>>
      BY <1>2, <2>2 DEF Start, Phases
    <3> QED BY <3>1 DEF TypeOK, Shapes
  <2> QED BY <2>1, <2>2
<1>3. CASE Terminate \/ End
  BY <1>3 DEF Terminate, End, Phases, TypeOK, Shapes
<1>4. CASE Edit
  BY <1>4 DEF Edit, TypeOK, Shapes
<1>5. ASSUME NEW r \in Reloaders, LoadFile(r) PROVE (TypeOK /\ Shapes)'
  BY <1>5, LoadFacts, JobsTyped DEF TypeOK, Shapes
<1>6. ASSUME NEW r \in Reloaders, Panic(r), UNCHANGED <<env, file, config, reading, last>>
      PROVE  (TypeOK /\ Shapes)'
  <2>1. phase' \in Phases /\ mutex' \in Reloaders \cup Readers \cup {Nobody}
    BY <1>6, PanicFacts DEF TypeOK, Phases
  <2> QED BY <1>6, <2>1, PanicFacts, NoJobOK, JobsTyped DEF TypeOK, Shapes
<1>7. ASSUME NEW r \in Reloaders, LoadPanics(r) PROVE (TypeOK /\ Shapes)'
  BY <1>6, <1>7 DEF LoadPanics
<1>8. ASSUME NEW r \in Reloaders, BeginMerge(r) PROVE (TypeOK /\ Shapes)'
  <2>1. PICK j : JobOK(j) /\ job' = [job EXCEPT ![r] = j]
    BY <1>8, BeginMergeFacts
  <2>2. /\ job[r].cfg \in Configs
        /\ config' = [hosts |-> config.hosts, metrics |-> job[r].cfg.metrics]
        /\ mutex' = r
        /\ UNCHANGED <<env, file, phase, reading, last>>
    BY <1>8, BeginMergeFacts
  <2>3. /\ config'.hosts = config.hosts /\ config'.metrics \subseteq Flags
        /\ \E h, m : config' = [hosts |-> h, metrics |-> m]
    BY <2>2, ConfigsFacts
  <2> QED BY <2>1, <2>2, <2>3, JobsTyped DEF TypeOK, Shapes
<1>9. ASSUME NEW r \in Reloaders, NEW k \in job[r].left, job[r] # NoJob, Merge(r, k)
      PROVE  (TypeOK /\ Shapes)'
  <2>1. CASE Abandoned(r)
    BY <1>6, <1>9, <2>1, MergeFacts DEF Abandoned
  <2>2. CASE Entered(r, k)
    <3>1. PICK j : JobOK(j) /\ job' = [job EXCEPT ![r] = j]
      BY <2>2 DEF Entered
    <3>2. /\ job[r].cfg \in Configs /\ k \in Keys(job[r].cfg.hosts)
          /\ UNCHANGED <<env, file, reading, last>>
      BY <1>9, MergeFacts
    <3>3. PICK h : config' = [hosts |-> h, metrics |-> config.metrics]
      BY <2>2 DEF Entered
    <3>4. \A i \in Keys(config'.hosts) : config'.hosts[i] # Null /\ Complete(config'.hosts[i])
      <4>1. CASE config'.hosts = Null
        BY <4>1 DEF Keys
      <4>2. CASE config'.hosts # Null
        <5>1. /\ config'.hosts[k] = job[r].cfg.hosts[k]
              /\ Keys(config'.hosts) = Keys(config.hosts) \cup {k}
              /\ \A i \in Keys(config.hosts) : i # k => config'.hosts[i] = config.hosts[i]
          BY <2>2, <4>2 DEF Entered, InForce
        <5>2. Complete(config'.hosts[k]) /\ config'.hosts[k] # Null
          BY <3>2, <5>1, ConfigsFacts
        <5> QED BY <5>1, <5>2 DEF TypeOK
      <4> QED BY <4>1, <4>2
    <3>5. config'.metrics \subseteq Flags /\ \E g, m : config' = [hosts |-> g, metrics |-> m]
      BY <3>3 DEF TypeOK
    <3>6. phase' \in Phases /\ mutex' = mutex
      BY <2>2 DEF Entered, TypeOK, Phases
    <3> QED BY <3>1, <3>2, <3>4, <3>5, <3>6, JobsTyped DEF TypeOK, Shapes
  <2> QED BY <1>9, <2>1, <2>2, MergeFacts
<1>10. ASSUME NEW r \in Reloaders, EndMerge(r) PROVE (TypeOK /\ Shapes)'
  <2>1. EndMergeFacts(r)
    BY <1>10 DEF EndMerge, EndMergeFacts
  <2>2. last' \in Configs
    BY <2>1, JobTyped DEF EndMergeFacts, NoJob
  <2>3. mutex' \in Reloaders \cup Readers \cup {Nobody}
    BY <2>1 DEF EndMergeFacts, TypeOK
  <2> QED BY <2>1, <2>2, <2>3, NoJobOK, JobsTyped DEF EndMergeFacts, TypeOK, Shapes
<1>11. ASSUME NEW x \in Readers \cup {Once}, BeginRead(x) \/ EndRead(x) PROVE (TypeOK /\ Shapes)'
  <2>1. UNCHANGED <<env, file, phase, config, job, last>> /\ reading' \subseteq Readers \cup {Once}
    BY <1>11 DEF BeginRead, EndRead, TypeOK
  <2>2. mutex' \in Reloaders \cup Readers \cup {Nobody}
    BY <1>11 DEF BeginRead, EndRead, TakesLock, Unlocked, TypeOK
  <2> QED BY <2>1, <2>2 DEF TypeOK, Shapes
<1> QED BY <1>1, <1>2, <1>3, <1>4, <1>5, <1>7, <1>8, <1>9, <1>10, <1>11 DEF Next, Reload

-----------------------------------------------------------------------------
\* ... who merges or reads under the mutex holds it ...

\* One step per action.
LEMMA ExclusiveStep == TypeOK /\ Shapes /\ Exclusive /\ [Next]_vars => Exclusive'
<1> SUFFICES ASSUME TypeOK, Shapes, Exclusive, [Next]_vars PROVE Exclusive'
  OBVIOUS
<1>1. CASE UNCHANGED vars
  BY <1>1 DEF vars, Exclusive
<1>2. CASE Start
  BY <1>2 DEF Start, Exclusive
<1>3. CASE Terminate \/ End \/ Edit
  BY <1>3 DEF Terminate, End, Edit, Running, Exclusive
\* A reloader holds no lock of a reader.
<1>4. ASSUME NEW r \in Reloaders PROVE \A x \in reading : TakesLock(x) => x # r
  BY GoroutinesAssumption DEF TypeOK
<1>5. ASSUME NEW r \in Reloaders, LoadFile(r) PROVE Exclusive'
  <2>1. /\ job'[r].applying = FALSE /\ \A q \in Reloaders : q # r => job'[q] = job[q]
        /\ job'[r].left = Keys(job'[r].cfg.hosts)
        /\ phase' # "starting"
    <3>1. PICK c \in Configs : JobOK(Ready(c)) /\ job' = [job EXCEPT ![r] = Ready(c)]
      BY <1>5, LoadFacts
    <3>2. job'[r] = Ready(c) /\ \A q \in Reloaders : q # r => job'[q] = job[q]
      BY <3>1, JobsOK
    <3>3. phase' # "starting"
      BY <1>5, LoadFacts
    <3> QED BY <3>2, <3>3 DEF Ready
  <2> QED BY <1>5, <2>1, LoadFacts DEF Exclusive
<1>6. ASSUME NEW r \in Reloaders, job' = [job EXCEPT ![r] = NoJob], reading' = reading,
             mutex' = IF mutex = r THEN Nobody ELSE mutex, phase' # "starting"
      PROVE  Exclusive'
  <2>1. job'[r] = NoJob /\ job'[r].applying = FALSE /\ \A q \in Reloaders : q # r => job'[q] = job[q]
    BY <1>6, NoJobOK, JobsOK DEF NoJob
  <2> QED BY <1>4, <1>6, <2>1 DEF Exclusive
<1>7. ASSUME NEW r \in Reloaders, LoadPanics(r) PROVE Exclusive'
  BY <1>6, <1>7, PanicFacts DEF LoadPanics, Running
<1>8. ASSUME NEW r \in Reloaders, BeginMerge(r) PROVE Exclusive'
  <2>1. PICK c, l : LET j == [cfg |-> c, left |-> l, applying |-> TRUE]
                    IN  JobOK(j) /\ job' = [job EXCEPT ![r] = j]
    BY <1>8, BeginMergeFacts
  <2>2. mutex = Nobody /\ mutex' = r /\ phase' # "starting" /\ reading' = reading
    BY <1>8, BeginMergeFacts
  <2>3. job'[r].applying /\ \A q \in Reloaders : q # r => job'[q] = job[q]
    BY <2>1, JobsOK
  <2>4. Nobody \notin Reloaders
    BY GoroutinesAssumption
  <2>5. \A x \in reading : ~TakesLock(x)
    BY <2>2, GoroutinesAssumption DEF Exclusive, TypeOK, TakesLock, Unlocked
  <2> QED BY <2>2, <2>3, <2>4, <2>5 DEF Exclusive
<1>9. ASSUME NEW r \in Reloaders, NEW k \in job[r].left, job[r] # NoJob, Merge(r, k)
      PROVE  Exclusive'
  <2>1. phase # "starting" /\ job[r].applying /\ reading' = reading
    BY <1>9, MergeFacts
  <2>2. CASE Abandoned(r)
    BY <1>6, <2>1, <2>2, PanicFacts DEF Abandoned
  <2>3. CASE Entered(r, k)
    <3>1. /\ job'[r].applying /\ \A q \in Reloaders : q # r => job'[q] = job[q]
          /\ mutex' = mutex /\ phase' # "starting"
      BY <2>1, <2>3, JobsOK DEF Entered
    <3> QED BY <2>1, <3>1 DEF Exclusive
  <2> QED BY <1>9, <2>2, <2>3, MergeFacts
<1>10. ASSUME NEW r \in Reloaders, EndMerge(r) PROVE Exclusive'
  BY <1>6, <1>10 DEF EndMerge, Running
<1>11. ASSUME NEW x \in Readers \cup {Once}, BeginRead(x) PROVE Exclusive'
  <2>1. CASE TakesLock(x)
    <3>1. mutex = Nobody /\ mutex' = x /\ job' = job /\ phase' = phase /\ reading' = reading \cup {x}
      BY <1>11, <2>1 DEF BeginRead
    <3>2. \A r \in Reloaders : ~job[r].applying
      BY <3>1, GoroutinesAssumption DEF Exclusive
    <3>3. \A y \in reading : ~TakesLock(y)
      BY <3>1, GoroutinesAssumption DEF Exclusive, TypeOK, TakesLock, Unlocked
    <3> QED BY <3>1, <3>2, <3>3 DEF Exclusive
  <2>2. CASE ~TakesLock(x)
    BY <1>11, <2>2 DEF BeginRead, Exclusive
  <2> QED BY <2>1, <2>2
<1>12. ASSUME NEW x \in Readers \cup {Once}, EndRead(x) PROVE Exclusive'
  <2>1. x \notin Reloaders
    BY GoroutinesAssumption
  <2> QED BY <1>12, <2>1 DEF EndRead, Exclusive
<1> QED BY <1>1, <1>2, <1>3, <1>5, <1>7, <1>8, <1>9, <1>10, <1>11, <1>12 DEF Next, Reload

-----------------------------------------------------------------------------
\* ... and what a merge has done is in force.

\* One step per action.
LEMMA MergedStep == TypeOK /\ Consistent /\ [Next]_vars => Merged'
<1> SUFFICES ASSUME TypeOK, Consistent, [Next]_vars, config'.hosts # Null PROVE Merged'
  BY DEF Merged
<1>i. Shapes /\ Exclusive /\ Merged
  BY DEF Consistent
<1>1. CASE UNCHANGED <<config, job, last>>
  BY <1>1, <1>i DEF Merged
<1>2. CASE Start
  <2>1. CASE Valid(env, file)
    <3>1. config' = last' /\ job' = job /\ \A r \in Reloaders : ~job[r].applying
      BY <1>2, <1>i, <2>1 DEF Start, Exclusive, NoJob
    <3> QED BY <3>1 DEF Merged, InForce
  <2>2. CASE ~Valid(env, file)
    BY <1>1, <1>2, <2>2 DEF Start
  <2> QED BY <2>1, <2>2
<1>3. ASSUME NEW r \in Reloaders, LoadFile(r) PROVE Merged'
  <2>1. /\ job'[r].applying = FALSE /\ job[r].applying = FALSE
        /\ \A q \in Reloaders : q # r => job'[q] = job[q]
        /\ UNCHANGED <<config, last>>
    <3>1. PICK c \in Configs : JobOK(Ready(c)) /\ job' = [job EXCEPT ![r] = Ready(c)]
      BY <1>3, <1>i, LoadFacts
    <3>2. job'[r] = Ready(c) /\ \A q \in Reloaders : q # r => job'[q] = job[q]
      BY <1>i, <3>1, JobsOK
    <3>3. job[r] = NoJob /\ UNCHANGED <<config, last>>
      BY <1>3, <1>i, LoadFacts
    <3> QED BY <3>2, <3>3 DEF Ready, NoJob
  <2> QED BY <1>i, <2>1 DEF Merged
<1>4. ASSUME NEW r \in Reloaders, LoadPanics(r) PROVE Merged'
  <2>1. job[r] = NoJob /\ job' = [job EXCEPT ![r] = NoJob] /\ UNCHANGED <<config, last>>
    BY <1>4, PanicFacts DEF LoadPanics, Idle
  <2>2. job' = job
    BY <1>i, <2>1 DEF Shapes
  <2> QED BY <1>1, <2>1, <2>2
<1>5. ASSUME NEW r \in Reloaders, BeginMerge(r) PROVE Merged'
  <2>1. /\ job' = [job EXCEPT ![r] = [cfg |-> job[r].cfg, left |-> job[r].left, applying |-> TRUE]]
        /\ JobOK([cfg |-> job[r].cfg, left |-> job[r].left, applying |-> TRUE])
        /\ config' = [hosts |-> config.hosts, metrics |-> job[r].cfg.metrics]
        /\ mutex = Nobody
    BY <1>5, <1>i, BeginMergeFacts
  <2>2. /\ job'[r] = [cfg |-> job[r].cfg, left |-> job[r].left, applying |-> TRUE]
        /\ \A q \in Reloaders : q # r => job'[q] = job[q]
    BY <1>i, <2>1, JobsOK
  <2>3. \A q \in Reloaders : ~job[q].applying
    BY <1>i, <2>1, GoroutinesAssumption DEF Exclusive
  <2>4. job[r].left = Keys(job[r].cfg.hosts)
    BY <1>5, <1>i, <2>3 DEF BeginMerge, Exclusive
  <2>5. config'.metrics = job'[r].cfg.metrics /\ job'[r].applying
        /\ \A k \in Keys(job'[r].cfg.hosts) : k \in job'[r].left
    BY <2>1, <2>2, <2>4
  <2> QED BY <2>2, <2>3, <2>5 DEF Merged
<1>6. ASSUME NEW r \in Reloaders, NEW k \in job[r].left, job[r] # NoJob, Merge(r, k) PROVE Merged'
  <2>1. CASE Abandoned(r)
    BY <2>1 DEF Abandoned
  <2>2. CASE Entered(r, k)
    <3>1. /\ job' = [job EXCEPT ![r] = [cfg |-> job[r].cfg, left |-> job[r].left \ {k}, applying |-> TRUE]]
          /\ JobOK([cfg |-> job[r].cfg, left |-> job[r].left \ {k}, applying |-> TRUE])
          /\ config.hosts # Null
      BY <2>2 DEF Entered
    <3>2. /\ job'[r] = [cfg |-> job[r].cfg, left |-> job[r].left \ {k}, applying |-> TRUE]
          /\ \A q \in Reloaders : q # r => job'[q] = job[q]
      BY <1>i, <3>1, JobsOK
    <3>3. job[r].applying /\ \A q \in Reloaders : q # r => ~job'[q].applying
      BY <1>6, <1>i, <3>2, MergeFacts DEF Exclusive
    <3>4. config'.metrics = job'[r].cfg.metrics
      <4>1. config'.metrics = config.metrics
        BY <2>2 DEF Entered
      <4> QED BY <1>i, <3>1, <3>2, <3>3, <4>1 DEF Merged
    <3>5. ASSUME NEW i \in Keys(job'[r].cfg.hosts), i \notin job'[r].left
          PROVE  InForce(i, config'.hosts, job'[r].cfg)
      <4>1. job'[r].cfg = job[r].cfg
        BY <3>2
      <4>2. CASE i = k
        BY <2>2, <4>1, <4>2 DEF Entered
      <4>3. CASE i # k
        <5>1. i \notin job[r].left
          BY <3>2, <3>5, <4>3
        <5>2. InForce(i, config.hosts, job[r].cfg)
          BY <1>i, <3>1, <3>3, <3>5, <4>1, <5>1 DEF Merged
        <5> QED BY <2>2, <4>1, <4>3, <5>2 DEF Entered, InForce
      <4> QED BY <4>2, <4>3
    <3>6. job'[r].applying
      BY <3>2
    <3> QED BY <3>3, <3>4, <3>5, <3>6 DEF Merged
  <2> QED BY <1>6, <1>i, <2>1, <2>2, MergeFacts
<1>7. ASSUME NEW r \in Reloaders, EndMerge(r) PROVE Merged'
  <2>1. EndMergeFacts(r)
    BY <1>7 DEF EndMerge, EndMergeFacts
  <2>2. /\ job'[r].applying = FALSE
        /\ \A q \in Reloaders : q # r => job'[q] = job[q]
    BY <1>i, <2>1, NoJobOK, JobsOK DEF EndMergeFacts, NoJob
  <2>3. \A q \in Reloaders : q # r => ~job[q].applying
    BY <1>i, <2>1 DEF EndMergeFacts, Exclusive
  <2>4. \A q \in Reloaders : ~job'[q].applying
    BY <2>2, <2>3
  <2>5. /\ config' = config /\ last' = job[r].cfg /\ job[r].left = {} /\ job[r].applying
    BY <2>1 DEF EndMergeFacts
  <2> QED BY <1>i, <2>4, <2>5 DEF Merged
<1>8. CASE Terminate \/ End \/ Edit
  BY <1>1, <1>8 DEF Terminate, End, Edit
<1>9. ASSUME NEW x \in Readers \cup {Once}, BeginRead(x) \/ EndRead(x) PROVE Merged'
  BY <1>1, <1>9 DEF BeginRead, EndRead
<1>10. CASE UNCHANGED vars
  BY <1>1, <1>10 DEF vars
<1> QED BY <1>2, <1>3, <1>4, <1>5, <1>6, <1>7, <1>8, <1>9, <1>10 DEF Next, Reload

-----------------------------------------------------------------------------
\* The theorems

\* The inductive invariant holds initially.
LEMMA InvariantInit == Init => TypeOK /\ Consistent
<1> SUFFICES ASSUME Init PROVE TypeOK /\ Consistent
  OBVIOUS
<1>1. /\ config.hosts = Null /\ config.metrics = {} /\ reading = {}
      /\ \E h, m : config = [hosts |-> h, metrics |-> m]
      /\ \A r \in Reloaders : job[r] = NoJob
  BY DEF Init
<1>2. job \in [Reloaders -> Jobs]
  BY NoJobOK DEF Init, JobOK
<1>3. \A r \in Reloaders : job[r].left = {} /\ ~job[r].applying
  BY <1>1 DEF NoJob
<1>4. TypeOK
  <2>1. env \in Environs /\ file \in Files /\ phase \in Phases /\ mutex = Nobody /\ last = Nobody
    BY DEF Init, Phases
  <2>2. Keys(config.hosts) = {}
    BY <1>1 DEF Keys
  <2> QED BY <1>1, <1>3, <2>1, <2>2 DEF TypeOK
<1> QED BY <1>1, <1>2, <1>3, <1>4 DEF Consistent, Shapes, Exclusive, Merged

\* Every reachable state is well typed and consistent.
THEOREM Invariant == Spec => [](TypeOK /\ Consistent)
<1>1. TypeOK /\ Consistent /\ [Next]_vars => (TypeOK /\ Consistent)'
  BY TypeStep, ExclusiveStep, MergedStep DEF Consistent
<1> QED BY <1>1, InvariantInit, PTL DEF Spec

\* Every reachable state is well typed: above all, no login that is in force lacks its
\* username or password, whatever files were loaded and merged.
THEOREM TypeCorrect == Spec => []TypeOK
BY Invariant, PTL

\* Between reloads all that is in force of the last one is in force together.
THEOREM Unmixed == Spec => []ReloadsUnmixed
<1>1. Consistent => ReloadsUnmixed
  BY DEF Consistent, Merged, InForce, ReloadsUnmixed
<1> QED BY <1>1, Invariant, PTL

\* The process dies of a null section or entry, or of a reader without the mutex.
THEOREM DeathsExplained == Spec => DeathExplained
<1>1. ASSUME TypeOK, Consistent, [Next]_vars
      PROVE  [(phase # "crashed" /\ phase' = "crashed") =>
                NullSection \/ (Running /\ config.hosts = Null) \/ reading \cap Unlocked # {}]_vars
  <2> SUFFICES ASSUME Next, phase # "crashed", phase' = "crashed"
               PROVE  NullSection \/ (Running /\ config.hosts = Null) \/ reading \cap Unlocked # {}
    BY <1>1 DEF vars
  <2>i. TypeOK /\ Shapes /\ Exclusive
    BY <1>1 DEF Consistent
  <2>1. CASE Start
    BY <2>1, PanicsNull DEF Start
  <2>2. ASSUME NEW r \in Reloaders, LoadPanics(r) PROVE NullSection
    BY <2>2, PanicsNull DEF LoadPanics
  <2>3. ASSUME NEW r \in Reloaders, NEW k \in job[r].left, job[r] # NoJob, Merge(r, k)
        PROVE  (Running /\ config.hosts = Null) \/ reading \cap Unlocked # {}
    <3>1. Running /\ job[r].applying /\ (Entered(r, k) \/ Abandoned(r))
      BY <2>3, <2>i, MergeFacts
    <3>2. CASE Abandoned(r)
      BY <3>1, <3>2 DEF Abandoned
    <3>3. CASE Entered(r, k)
      <4>1. PICK x \in reading : TRUE
        BY <3>3 DEF Entered
      <4>2. mutex = r /\ x # r
        BY <2>i, <3>1, GoroutinesAssumption DEF Exclusive, TypeOK
      <4>3. ~TakesLock(x)
        BY <2>i, <4>1, <4>2 DEF Exclusive
      <4> QED BY <4>1, <4>3 DEF TakesLock
    <3> QED BY <3>1, <3>2, <3>3
  <2>4. CASE Terminate \/ End \/ Edit
    BY <2>4 DEF Terminate, End, Edit
  <2>5. ASSUME NEW r \in Reloaders, LoadFile(r) \/ BeginMerge(r) \/ EndMerge(r) PROVE FALSE
    BY <2>5 DEF LoadFile, BeginMerge, EndMerge
  <2>6. ASSUME NEW x \in Readers \cup {Once}, BeginRead(x) \/ EndRead(x) PROVE FALSE
    BY <2>6 DEF BeginRead, EndRead
  <2> QED BY <2>1, <2>2, <2>3, <2>4, <2>5, <2>6 DEF Next, Reload
<1> QED BY <1>1, Invariant, PTL DEF Spec, DeathExplained
=============================================================================
