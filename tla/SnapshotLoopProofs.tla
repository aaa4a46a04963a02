-------------------------- MODULE SnapshotLoopProofs --------------------------
(***************************************************************************)
(* Theorems about SnapshotLoop for any finite set of hosts, any set of     *)
(* requests, any limit and any number of stamps. The argument is one       *)
(* inductive invariant, TypeOK /\ Consistent: a cycle's hosts are split    *)
(* between those to do, those being gathered and those with a row, and the *)
(* families of a host grow older from its collector through its cache to   *)
(* the rows and the stored snapshot.                                       *)
(*                                                                         *)
(* The last part is a refinement: the collector of each host, as the       *)
(* cycles and requests call it, implements SingleFlight.                   *)
(***************************************************************************)
EXTENDS SnapshotLoop, FiniteSetTheorems, TLAPS

HasRow(a, t) == \E r \in rows[a] : r.target = t

Unique(rs) == \A r, s \in rs : r.target = s.target => r = s

\* Where the hosts of a's cycle are, and that there are none between cycles.
Split(a) ==
  /\ phase[a] # "cycle" => todo[a] = {} /\ Busy(a) = {}
  /\ phase[a] = "cycle" =>
       \A t \in Targets : t \in wants[a] <=> (t \in todo[a] \/ t \in Busy(a) \/ HasRow(a, t))
  /\ \A t \in todo[a] : t \notin Busy(a)
  /\ \A r \in rows[a] : r.target \notin todo[a] /\ r.target \notin Busy(a)
  /\ Unique(rows[a])

WorkSplit == \A a \in Actors : Split(a)

\* A collector's leader, if any, is the only one, and has its last stamp.
LeaderLast ==
  \A a, b \in Actors, t \in Targets :
    call[a][t].at = "leading" =>
      call[a][t].stamp = stamp[t] /\ (call[b][t].at = "leading" => a = b)

\* Nothing in rs is newer than the collector of its host, nor than its cache.
Older(rs) ==
  \A r \in rs : r.up =>
    /\ r.families.stamp <= stamp[r.target]
    /\ cache[r.target].real => r.families.stamp <= cache[r.target].stamp

Aging ==
  /\ \A t \in Targets : cache[t].stamp <= stamp[t]
  /\ \A a \in Actors : Older(rows[a])
  /\ Older(store)
  /\ Unique(store)
  /\ \A r \in rows[Loop], s \in store :
       (r.target = s.target /\ r.up /\ s.up) => s.families.stamp <= r.families.stamp

Consistent == WorkSplit /\ LabelsOwn /\ LeaderLast /\ Aging

-----------------------------------------------------------------------------
\* What the steps of a call do to the calls of all actors

\* What is busy is a host.
LEMMA BusyTyped == ASSUME NEW a \in Actors PROVE Busy(a) \subseteq Targets
BY DEF Busy

\* The loop and the requests act.
LEMMA ActorsFacts == Loop \in Actors /\ Pullers \subseteq Actors
BY DEF Actors

\* Starting one call more keeps within the limit.
LEMMA SubmitBusy ==
  ASSUME TypeOK, NEW a \in Actors, NEW t \in Targets, Submit(a, t)
  PROVE  /\ call' \in [Actors -> [Targets -> Calls]]
         /\ Busy(a)' = Busy(a) \cup {t}
         /\ \A b \in Actors : b # a => Busy(b)' = Busy(b)
<1>1. call' = [call EXCEPT ![a][t].at = "entering"] /\ call \in [Actors -> [Targets -> Calls]]
  BY DEF Submit, Move, TypeOK
<1>2. call[a][t] \in Calls /\ [call[a][t] EXCEPT !.at = "entering"] \in Calls
  BY <1>1 DEF Calls, Stages
<1>3. call' \in [Actors -> [Targets -> Calls]]
  BY <1>1, <1>2
<1> QED BY <1>1, <1>2, <1>3 DEF Busy, Calls

\* A step inside a call starts none and ends none.
Inside(a, t, from, to) ==
  /\ call[a][t].at = from
  /\ call' \in [Actors -> [Targets -> Calls]]
  /\ call'[a][t].at = to
  /\ \A b \in Actors, u \in Targets : (b # a \/ u # t) => call'[b][u] = call[b][u]

\* A move between stages is a step inside a call ...
LEMMA MoveInside ==
  ASSUME TypeOK, NEW a \in Actors, NEW t \in Targets, NEW from, NEW to \in Stages,
         Move(a, t, from, to)
  PROVE  Inside(a, t, from, to)
<1>1. call' = [call EXCEPT ![a][t].at = to] /\ call \in [Actors -> [Targets -> Calls]]
  BY DEF Move, TypeOK
<1>2. call[a][t] \in Calls /\ [call[a][t] EXCEPT !.at = to] \in Calls
  BY <1>1 DEF Calls
<1>3. call' \in [Actors -> [Targets -> Calls]]
  BY <1>1, <1>2
<1> QED BY <1>1, <1>2, <1>3 DEF Move, Inside, Calls

\* ... and leaves what is busy as it is.
LEMMA InsideBusy ==
  ASSUME NEW a \in Actors, NEW t \in Targets, NEW from, NEW to, Inside(a, t, from, to),
         from # "none", to # "none"
  PROVE  \A b \in Actors : Busy(b)' = Busy(b)
BY DEF Inside, Busy

\* The start of a collection is a step inside a call, with a stamp of its own.
LEMMA DepartInside ==
  ASSUME TypeOK, NEW a \in Actors, NEW t \in Targets, Depart(a, t)
  PROVE  /\ Inside(a, t, "ready", "leading")
         /\ stamp' \in [Targets -> 0..MaxStamp]
         /\ \A u \in Targets : stamp[u] <= stamp'[u] /\ (u # t => stamp'[u] = stamp[u])
         /\ call'[a][t].stamp = stamp'[t]
<1>1. PICK n \in {IF stamp[t] < MaxStamp THEN stamp[t] + 1 ELSE MaxStamp} :
        /\ stamp' = [stamp EXCEPT ![t] = n]
        /\ call' = [call EXCEPT ![a][t] = [at |-> "leading", stamp |-> n, fresh |-> FALSE]]
  BY DEF Depart
<1>2. n \in 0..MaxStamp /\ stamp[t] <= n
  BY <1>1, NumbersAssumption DEF TypeOK
<1>3. [at |-> "leading", stamp |-> n, fresh |-> FALSE] \in Calls
  BY <1>2 DEF Calls, Stages
<1>4. stamp \in [Targets -> 0..MaxStamp] /\ call \in [Actors -> [Targets -> Calls]]
  BY DEF TypeOK
<1>5. /\ stamp' \in [Targets -> 0..MaxStamp]
      /\ \A u \in Targets : stamp[u] <= stamp'[u] /\ (u # t => stamp'[u] = stamp[u])
      /\ stamp'[t] = n
  BY <1>1, <1>2, <1>4
<1>6. call' \in [Actors -> [Targets -> Calls]] /\ call'[a][t].at = "leading" /\ call'[a][t].stamp = n
  BY <1>1, <1>3, <1>4
<1>7. \A b \in Actors, u \in Targets : (b # a \/ u # t) => call'[b][u] = call[b][u]
  BY <1>1, <1>4
<1> QED BY <1>5, <1>6, <1>7 DEF Depart, Inside

\* A call that ends: those of the others go on, as riders that landed perhaps.
Ended(a, t) ==
  /\ call[a][t].at # "none"
  /\ call' \in [Actors -> [Targets -> Calls]]
  /\ call'[a][t] = NoCall
  /\ \A b \in Actors, u \in Targets : (b # a \/ u # t) =>
       \/ call'[b][u] = call[b][u]
       \/ call[b][u].at = "riding" /\ call'[b][u].at = "landed"

\* No call is well typed.
LEMMA NoCallTyped == NoCall \in Calls
BY NumbersAssumption DEF NoCall, Calls, Stages

\* A call that ends alone has ended ...
LEMMA EndEnded ==
  ASSUME TypeOK, NEW a \in Actors, NEW t \in Targets, call[a][t].at # "none", call' = End(a, t)
  PROVE  Ended(a, t)
<1>1. call \in [Actors -> [Targets -> Calls]] /\ call' = [call EXCEPT ![a][t] = NoCall]
  BY DEF TypeOK, End
<1>2. call' \in [Actors -> [Targets -> Calls]]
  BY <1>1, NoCallTyped
<1> QED BY <1>1, <1>2 DEF Ended

\* ... and so has one that takes its riders along.
LEMMA DisembarkEnded ==
  ASSUME TypeOK, NEW a \in Actors, NEW t \in Targets, NEW fresh \in BOOLEAN,
         call[a][t].at = "leading", Disembark(a, t, fresh)
  PROVE  Ended(a, t)
<1>1. call \in [Actors -> [Targets -> Calls]]
  BY DEF TypeOK
<1>2. [at |-> "landed", stamp |-> 0, fresh |-> fresh] \in Calls
  BY NumbersAssumption DEF Calls, Stages
<1>3. \A b \in Actors, u \in Targets :
        call'[b][u] = CASE u = t /\ b = a -> NoCall
                        [] u = t /\ call[b][u].at = "riding" -> [at |-> "landed", stamp |-> 0, fresh |-> fresh]
                        [] OTHER -> call[b][u]
  BY DEF Disembark
<1>4. call'[a][t] = NoCall
  BY <1>3
<1>5. \A b \in Actors, u \in Targets : (b # a \/ u # t) =>
        \/ call'[b][u] = call[b][u]
        \/ call[b][u].at = "riding" /\ call'[b][u] = [at |-> "landed", stamp |-> 0, fresh |-> fresh]
  BY <1>3
<1>6. \A b \in Actors, u \in Targets : call'[b][u] \in Calls
  BY <1>1, <1>2, <1>4, <1>5, NoCallTyped
<1>7. call' \in [Actors -> [Targets -> Calls]]
  BY <1>6 DEF Disembark
<1> QED BY <1>4, <1>5, <1>7 DEF Ended

\* A call that ended is not busy any more, the others are as they were.
LEMMA EndedBusy ==
  ASSUME NEW a \in Actors, NEW t \in Targets, Ended(a, t)
  PROVE  /\ t \in Busy(a)
         /\ Busy(a)' = Busy(a) \ {t}
         /\ \A b \in Actors : b # a => Busy(b)' = Busy(b)
<1>1. call'[a][t].at = "none"
  BY DEF Ended, NoCall
<1>2. \A b \in Actors, u \in Targets :
        (b # a \/ u # t) => (call'[b][u].at # "none" <=> call[b][u].at # "none")
  BY DEF Ended
<1> QED BY <1>1, <1>2 DEF Ended, Busy

-----------------------------------------------------------------------------
\* Rows

\* No families are well typed, unlabelled and none of the BMC's.
LEMMA BareTyped == Bare \in Families /\ Bare.labels = {} /\ ~Bare.real
BY NumbersAssumption DEF Bare, Families

\* What a call returns is of its host, and up only with families of the BMC's,
\* which carry the labels of the cycle.
LEMMA RowFacts ==
  ASSUME TypeOK, NEW a \in Actors, NEW t \in Targets, NEW fams \in Families, fams.labels = {},
         NEW fresh \in BOOLEAN, NEW r, r = Row(a, t, fams, fresh)
  PROVE  /\ r \in Rows
         /\ r.target = t
         /\ r.up => /\ fams.real
                    /\ r.families.stamp = fams.stamp
                    /\ r.families.labels = names[a]
<1>1. names[a] \subseteq Names
  BY DEF TypeOK
<1>2. CASE ~fams.real
  BY <1>2, BareTyped DEF Row, Rows
<1>3. CASE fams.real
  <2> DEFINE copy == [fams EXCEPT !.labels = @ \cup names[a]]
  <2>1. copy \in Families /\ copy.stamp = fams.stamp /\ copy.labels = names[a]
    BY <1>1 DEF Families
  <2>2. r = [target |-> t, up |-> TRUE, families |-> copy, fresh |-> fresh]
    BY <1>3 DEF Row, labelFamilies
  <2> HIDE DEF copy
  <2> QED BY <1>3, <2>1, <2>2 DEF Rows
<1> QED BY <1>2, <1>3

\* The row goes to the actor whose call it was.
LEMMA ReturnRows ==
  ASSUME TypeOK, NEW a \in Actors, NEW t \in Targets, NEW fams \in Families, fams.labels = {},
         NEW fresh \in BOOLEAN, Return(a, t, fams, fresh)
  PROVE  /\ rows' \in [Actors -> SUBSET Rows]
         /\ rows'[a] = rows[a] \cup {Row(a, t, fams, fresh)}
         /\ \A b \in Actors : b # a => rows'[b] = rows[b]
<1>1. Row(a, t, fams, fresh) \in Rows
  BY RowFacts
<1> QED BY <1>1 DEF Return, TypeOK

\* A call that ends leaves one row, of the families it got: none, the ones just
\* collected, or those in the cache.
Returned(a, t, fams) ==
  /\ fams \in Families /\ fams.labels = {}
  /\ rows' \in [Actors -> SUBSET Rows]
  /\ \A b \in Actors : b # a => rows'[b] = rows[b]
  /\ \E r \in Rows :
       /\ rows'[a] = rows[a] \cup {r}
       /\ r.target = t
       /\ r.up => /\ fams.real
                  /\ r.families.stamp = fams.stamp
                  /\ r.families.labels = names[a]

\* A row of unlabelled families is as Returned describes.
LEMMA ReturnReturned ==
  ASSUME TypeOK, NEW a \in Actors, NEW t \in Targets, NEW fams \in Families, fams.labels = {},
         NEW fresh \in BOOLEAN, Return(a, t, fams, fresh)
  PROVE  Returned(a, t, fams)
<1>1. PICK r : r = Row(a, t, fams, fresh)
  OBVIOUS
<1>2. /\ r \in Rows
      /\ r.target = t
      /\ r.up => /\ fams.real
                 /\ r.families.stamp = fams.stamp
                 /\ r.families.labels = names[a]
  BY <1>1, RowFacts
<1>3. /\ rows' \in [Actors -> SUBSET Rows]
      /\ rows'[a] = rows[a] \cup {r}
      /\ \A b \in Actors : b # a => rows'[b] = rows[b]
  BY <1>1, ReturnRows
<1> QED BY <1>2, <1>3 DEF Returned

\* How the four ends of a call end it: refused ...
LEMMA RefuseFacts ==
  ASSUME TypeOK, NEW a \in Actors, NEW t \in Targets, Refuse(a, t)
  PROVE  Ended(a, t) /\ Returned(a, t, Bare) /\ cache' = cache
BY EndEnded, ReturnReturned, BareTyped DEF Refuse, collectors

\* ... failed ...
LEMMA FailFacts ==
  ASSUME TypeOK, NEW a \in Actors, NEW t \in Targets, Fail(a, t)
  PROVE  Ended(a, t) /\ Returned(a, t, Bare) /\ cache' = cache
BY DisembarkEnded, ReturnReturned, BareTyped DEF Fail, collectors

\* ... with the families just collected ...
LEMMA LandFacts ==
  ASSUME TypeOK, NEW a \in Actors, NEW t \in Targets, Land(a, t)
  PROVE  /\ call[a][t].at = "leading" /\ Ended(a, t)
         /\ \E fams \in {Bare, [real |-> TRUE, stamp |-> call[a][t].stamp, labels |-> {}]} :
              /\ Returned(a, t, fams)
              /\ cache' = [cache EXCEPT ![t] = fams]
<1>1. PICK fams \in {Bare, [real |-> TRUE, stamp |-> call[a][t].stamp, labels |-> {}]} :
        /\ cache' = [cache EXCEPT ![t] =
                       IF fams.real THEN labelFamilies(fams, names[a]).source ELSE fams]
        /\ Disembark(a, t, TRUE)
        /\ Return(a, t, fams, TRUE)
  BY DEF Land
<1>2. call[a][t] \in Calls
  BY DEF TypeOK
<1>3. fams \in Families /\ fams.labels = {}
  <2>1. [real |-> TRUE, stamp |-> call[a][t].stamp, labels |-> {}] \in Families
    BY <1>2 DEF Families, Calls
  <2>2. CASE fams = Bare
    BY <2>2, BareTyped
  <2>3. CASE fams = [real |-> TRUE, stamp |-> call[a][t].stamp, labels |-> {}]
    BY <2>1, <2>3
  <2> QED BY <2>2, <2>3
<1>4. cache' = [cache EXCEPT ![t] = fams]
  BY <1>1 DEF labelFamilies
<1>5. Ended(a, t) /\ call[a][t].at = "leading"
  BY <1>1, DisembarkEnded DEF Land
<1>6. Returned(a, t, fams)
  BY <1>1, <1>3, ReturnReturned
<1> QED BY <1>4, <1>5, <1>6

\* ... and with those in the cache.
LEMMA WakeFacts ==
  ASSUME TypeOK, LabelsOwn, NEW a \in Actors, NEW t \in Targets, Wake(a, t)
  PROVE  Ended(a, t) /\ Returned(a, t, cache[t]) /\ cache' = cache
<1>1. cache[t] \in Families /\ cache[t].labels = {} /\ call[a][t].fresh \in BOOLEAN
  BY DEF TypeOK, LabelsOwn, Calls
<1>2. Ended(a, t)
  BY EndEnded DEF Wake
<1>3. Returned(a, t, cache[t])
  BY <1>1, ReturnReturned DEF Wake
<1>4. cache' = cache
  BY DEF Wake, labelFamilies, TypeOK
<1> QED BY <1>2, <1>3, <1>4

-----------------------------------------------------------------------------
\* Every reachable state is well typed, the limit on calls included

\* Calls that end keep within the limit ...
LEMMA LimitSubset ==
  ASSUME LimitKept, \A a \in Actors : Busy(a)' \subseteq Busy(a)
  PROVE  LimitKept'
<1> SUFFICES ASSUME NEW a \in Actors, Limit > 0 PROVE Cardinality(Busy(a)') <= Limit
  BY DEF LimitKept
<1>1. IsFiniteSet(Busy(a))
  BY BusyTyped, TargetsAssumption, FS_Subset
<1>2. Cardinality(Busy(a)') <= Cardinality(Busy(a))
  BY <1>1, FS_Subset
<1>3. IsFiniteSet(Busy(a)')
  BY <1>1, FS_Subset
<1> QED BY <1>1, <1>2, <1>3, FS_CardinalityType, NumbersAssumption DEF LimitKept

\* ... and so does one that starts.
LEMMA LimitSubmit ==
  ASSUME TypeOK, NEW a \in Actors, NEW t \in Targets, Submit(a, t)
  PROVE  LimitKept'
<1> SUFFICES ASSUME NEW b \in Actors, Limit > 0 PROVE Cardinality(Busy(b)') <= Limit
  BY DEF LimitKept
<1>1. CASE b # a
  BY <1>1, SubmitBusy DEF TypeOK, LimitKept
<1>2. CASE b = a
  <2>1. IsFiniteSet(Busy(a)) /\ Cardinality(Busy(a)) \in Nat
    BY BusyTyped, TargetsAssumption, FS_Subset, FS_CardinalityType
  <2>2. Cardinality(Busy(a)) < Limit
    BY DEF Submit
  <2>3. Busy(a)' = Busy(a) \cup {t}
    BY SubmitBusy
  <2>4. Cardinality(Busy(a) \cup {t}) <= Cardinality(Busy(a)) + 1
    BY <2>1, FS_AddElement
  <2>5. Cardinality(Busy(a) \cup {t}) \in Nat
    BY <2>1, FS_AddElement, FS_CardinalityType
  <2> QED BY <1>2, <2>1, <2>2, <2>3, <2>4, <2>5, NumbersAssumption
<1> QED BY <1>1, <1>2

\* Every step keeps the types and the limit.
LEMMA TypeStep == TypeOK /\ LabelsOwn /\ [Next]_vars => TypeOK'
<1> SUFFICES ASSUME TypeOK, LabelsOwn, [Next]_vars PROVE TypeOK'
  OBVIOUS
<1>0. Loop \in Actors /\ Pullers \subseteq Actors
  BY ActorsFacts
<1>1. CASE UNCHANGED vars
  BY <1>1 DEF vars, collectors, cycle, process, TypeOK, LimitKept, Busy
<1>2. ASSUME NEW a \in Actors, Finish(a) PROVE TypeOK'
  <2>1. LimitKept'
    BY <1>2 DEF Finish, TypeOK, LimitKept, Busy
  <2> QED BY <1>2, <2>1 DEF Finish, collectors, process, TypeOK
<1>3. ASSUME NEW a \in Actors, NEW t \in Targets, Submit(a, t) PROVE TypeOK'
  BY <1>3, SubmitBusy, LimitSubmit DEF Submit, collectors, process, TypeOK
<1>4. ASSUME NEW a \in Actors, NEW t \in Targets, Enter(a, t) PROVE TypeOK'
  <2>1. PICK to \in {"ready", "connecting"} : Move(a, t, "entering", to)
    BY <1>4 DEF Enter
  <2>2. Inside(a, t, "entering", to)
    BY <2>1, MoveInside DEF Stages
  <2>3. LimitKept'
    BY <2>1, <2>2, InsideBusy, LimitSubset DEF TypeOK
  <2> QED BY <1>4, <2>2, <2>3 DEF Enter, Inside, collectors, cycle, process, TypeOK
<1>5. ASSUME NEW a \in Actors, NEW t \in Targets, Connect(a, t) PROVE TypeOK'
  <2>1. Inside(a, t, "connecting", "ready")
    BY <1>5, MoveInside DEF Connect, Stages
  <2>2. LimitKept'
    BY <2>1, InsideBusy, LimitSubset DEF TypeOK
  <2> QED BY <1>5, <2>1, <2>2 DEF Connect, Inside, cycle, process, TypeOK
<1>6. ASSUME NEW a \in Actors, NEW t \in Targets, Depart(a, t) PROVE TypeOK'
  <2>1. Inside(a, t, "ready", "leading") /\ stamp' \in [Targets -> 0..MaxStamp]
    BY <1>6, DepartInside
  <2>2. LimitKept'
    BY <2>1, InsideBusy, LimitSubset DEF TypeOK
  <2> QED BY <1>6, <2>1, <2>2 DEF Depart, Inside, cycle, process, TypeOK
<1>7. ASSUME NEW a \in Actors, NEW t \in Targets, Board(a, t) PROVE TypeOK'
  <2>1. Inside(a, t, "ready", "riding")
    BY <1>7, MoveInside DEF Board, Stages
  <2>2. LimitKept'
    BY <2>1, InsideBusy, LimitSubset DEF TypeOK
  <2> QED BY <1>7, <2>1, <2>2 DEF Board, Inside, collectors, cycle, process, TypeOK
<1>8. ASSUME NEW a \in Actors, NEW t \in Targets, NEW fams, Ended(a, t), Returned(a, t, fams)
      PROVE  /\ call' \in [Actors -> [Targets -> Calls]]
             /\ rows' \in [Actors -> SUBSET Rows]
             /\ LimitKept'
  <2>1. LimitKept'
    BY <1>8, EndedBusy, LimitSubset DEF TypeOK
  <2> QED BY <1>8, <2>1 DEF Ended, Returned
<1>9. ASSUME NEW a \in Actors, NEW t \in Targets, Refuse(a, t) PROVE TypeOK'
  BY <1>8, <1>9, RefuseFacts DEF Refuse, collectors, cycle, process, TypeOK
<1>10. ASSUME NEW a \in Actors, NEW t \in Targets, Fail(a, t) PROVE TypeOK'
  BY <1>8, <1>10, FailFacts DEF Fail, collectors, cycle, process, TypeOK
<1>11. ASSUME NEW a \in Actors, NEW t \in Targets, Land(a, t) PROVE TypeOK'
  <2>1. PICK fams \in {Bare, [real |-> TRUE, stamp |-> call[a][t].stamp, labels |-> {}]} :
          Returned(a, t, fams) /\ cache' = [cache EXCEPT ![t] = fams]
    BY <1>11, LandFacts
  <2>2. cache' \in [Targets -> Families]
    BY <2>1 DEF Returned, TypeOK
  <2>3. Ended(a, t)
    BY <1>11, LandFacts
  <2>4. /\ call' \in [Actors -> [Targets -> Calls]]
        /\ rows' \in [Actors -> SUBSET Rows]
        /\ LimitKept'
    BY <1>8, <2>1, <2>3
  <2> QED BY <1>11, <2>2, <2>4 DEF Land, cycle, process, TypeOK
<1>12. ASSUME NEW a \in Actors, NEW t \in Targets, Wake(a, t) PROVE TypeOK'
  BY <1>8, <1>12, WakeFacts DEF Wake, cycle, process, TypeOK
<1>13. CASE CollectOnce
  <2>1. /\ \E targets \in SUBSET Targets : Begin(Loop, targets, {"identity"})
        /\ tick' \in BOOLEAN
    BY <1>13 DEF CollectOnce, TypeOK
  <2>2. LimitKept'
    BY <2>1 DEF Begin, TypeOK, LimitKept, Busy
  <2> QED BY <1>0, <2>1, <2>2 DEF Begin, Names, collectors, process, TypeOK
<1>14. ASSUME NEW p \in Pullers, Request(p) PROVE TypeOK'
  <2>1. \E targets \in SUBSET Targets, labels \in SUBSET Names : Begin(p, targets, labels)
    BY <1>14 DEF Request, Names, TypeOK
  <2>2. LimitKept'
    BY <2>1 DEF Begin, TypeOK, LimitKept, Busy
  <2> QED BY <1>0, <1>14, <2>1, <2>2 DEF Request, Begin, collectors, process, TypeOK
<1>15. CASE Stop
  <2>1. LimitKept'
    BY <1>15 DEF Stop, TypeOK, LimitKept, Busy
  <2> QED BY <1>0, <1>15, <2>1 DEF Stop, collectors, cycle, process, TypeOK
<1>16. CASE Tick \/ Reload \/ Cancel \/ Exit
  <2>1. /\ UNCHANGED <<collectors, cycle, call, rows, phase, store>>
        /\ hosts' \subseteq Targets /\ tick' \in BOOLEAN /\ cancelled' \in BOOLEAN /\ exited' \in BOOLEAN
    BY <1>16 DEF Tick, Reload, Cancel, Exit, process, TypeOK
  <2>2. LimitKept'
    BY <2>1 DEF TypeOK, LimitKept, Busy
  <2> QED BY <2>1, <2>2 DEF collectors, cycle, TypeOK
<1> QED BY <1>1, <1>2, <1>3, <1>4, <1>5, <1>6, <1>7, <1>9, <1>10, <1>11, <1>12, <1>13, <1>14, <1>15, <1>16
        DEF Next, Gathering, Act

-----------------------------------------------------------------------------
\* The hosts of a cycle stay split

\* A step that moves no host keeps the split ...
LEMMA SplitKept ==
  ASSUME WorkSplit, \A b \in Actors : Busy(b)' = Busy(b), UNCHANGED <<wants, todo, rows, phase>>
  PROVE  WorkSplit'
BY DEF WorkSplit, Split, HasRow, Unique

\* ... the start of a call moves one from those to do ...
LEMMA SplitSubmit ==
  ASSUME TypeOK, WorkSplit, NEW a \in Actors, NEW t \in Targets, Submit(a, t)
  PROVE  WorkSplit'
<1> SUFFICES ASSUME NEW b \in Actors PROVE Split(b)'
  BY DEF WorkSplit
<1>1. /\ UNCHANGED <<wants, rows, phase>>
      /\ t \in todo[a] /\ todo' = [todo EXCEPT ![a] = @ \ {t}] /\ todo \in [Actors -> SUBSET Targets]
  BY DEF Submit, TypeOK
<1>2. Split(b)
  BY DEF WorkSplit
<1>3. CASE b # a
  BY <1>1, <1>2, <1>3, SubmitBusy DEF Split, HasRow, Unique
<1>4. CASE b = a
  <2>1. phase[b] = "cycle" /\ todo'[b] = todo[b] \ {t} /\ Busy(b)' = Busy(b) \cup {t}
    BY <1>1, <1>2, <1>4, SubmitBusy DEF Split
  <2>2. \A r \in rows[b] : r.target # t
    BY <1>1, <1>2, <1>4 DEF Split
  <2> QED BY <1>1, <1>2, <1>4, <2>1, <2>2 DEF Split, HasRow, Unique
<1> QED BY <1>3, <1>4

\* ... its end moves it to those with a row ...
LEMMA SplitReturned ==
  ASSUME TypeOK, WorkSplit, NEW a \in Actors, NEW t \in Targets, NEW fams,
         Ended(a, t), Returned(a, t, fams), UNCHANGED <<wants, todo, phase>>
  PROVE  WorkSplit'
<1> SUFFICES ASSUME NEW b \in Actors PROVE Split(b)'
  BY DEF WorkSplit
<1>1. Split(b)
  BY DEF WorkSplit
<1>2. CASE b # a
  BY <1>1, <1>2, EndedBusy DEF Returned, Split, HasRow, Unique
<1>3. CASE b = a
  <2>1. t \in Busy(b) /\ Busy(b)' = Busy(b) \ {t}
    BY <1>3, EndedBusy
  <2>2. PICK r \in Rows : rows'[b] = rows[b] \cup {r} /\ r.target = t
    BY <1>3 DEF Returned
  <2>3. phase[b] = "cycle" /\ t \notin todo[b] /\ \A q \in rows[b] : q.target # t
    BY <1>1, <2>1 DEF Split
  <2>4. Unique(rows[b])'
    BY <1>1, <2>2, <2>3 DEF Split, Unique
  <2>5. \A u \in Targets : HasRow(b, u)' <=> (HasRow(b, u) \/ u = t)
    BY <2>2 DEF HasRow
  <2>6. \A u \in Targets :
          u \in wants'[b] <=> (u \in todo'[b] \/ u \in Busy(b)' \/ HasRow(b, u)')
    BY <1>1, <2>1, <2>3, <2>5 DEF Split
  <2>7. \A q \in rows'[b] : q.target \notin todo'[b] /\ q.target \notin Busy(b)'
    BY <1>1, <2>1, <2>2, <2>3 DEF Split
  <2> QED BY <1>1, <2>1, <2>3, <2>4, <2>6, <2>7 DEF Split
<1> QED BY <1>2, <1>3

\* ... a new cycle has all of them to do ...
LEMMA SplitBegin ==
  ASSUME TypeOK, WorkSplit, NEW a \in Actors, NEW targets \in SUBSET Targets, NEW labels,
         phase[a] # "cycle", Begin(a, targets, labels)
  PROVE  WorkSplit'
<1> SUFFICES ASSUME NEW b \in Actors PROVE Split(b)'
  BY DEF WorkSplit
<1>1. Split(b) /\ Busy(b)' = Busy(b)
  BY DEF WorkSplit, Begin, Busy
<1>2. CASE b # a
  BY <1>1, <1>2 DEF Begin, TypeOK, Split, HasRow, Unique
<1>3. CASE b = a
  <2>1. phase'[b] = "cycle" /\ wants'[b] = targets /\ todo'[b] = targets /\ rows'[b] = {}
    BY <1>3 DEF Begin, TypeOK
  <2>2. Busy(b)' = {}
    BY <1>1, <1>3 DEF Split
  <2> QED BY <2>1, <2>2 DEF Split, HasRow, Unique
<1> QED BY <1>2, <1>3

\* ... and a cycle that is over leaves none.
LEMMA SplitFinish ==
  ASSUME TypeOK, WorkSplit, NEW a \in Actors, Finish(a)
  PROVE  WorkSplit'
<1> SUFFICES ASSUME NEW b \in Actors PROVE Split(b)'
  BY DEF WorkSplit
<1>1. Split(b) /\ Busy(b)' = Busy(b)
  BY DEF WorkSplit, Finish, Busy
<1>2. CASE b # a
  BY <1>1, <1>2 DEF Finish, TypeOK, Split, HasRow, Unique
<1>3. CASE b = a
  BY <1>1, <1>3 DEF Finish, Over, TypeOK, Split, Unique
<1> QED BY <1>2, <1>3

-----------------------------------------------------------------------------
\* Labels stay with their cycle, leaders lead alone, families age

\* The end of a call puts the labels of its own cycle on its row and none in the cache.
LEMMA LabelsReturned ==
  ASSUME TypeOK, LabelsOwn, NEW a \in Actors, NEW t \in Targets, NEW fams, Returned(a, t, fams),
         cache' \in {cache, [cache EXCEPT ![t] = fams]}, names' = names
  PROVE  LabelsOwn'
<1>1. \A u \in Targets : cache'[u].labels = {}
  BY DEF Returned, LabelsOwn, TypeOK
<1>2. ASSUME NEW b \in Actors, NEW r \in rows'[b], r.up PROVE r.families.labels = names'[b]
  <2>1. CASE r \in rows[b]
    BY <1>2, <2>1 DEF LabelsOwn
  <2>2. CASE r \notin rows[b]
    BY <1>2, <2>2 DEF Returned
  <2> QED BY <2>1, <2>2
<1> QED BY <1>1, <1>2 DEF LabelsOwn

\* Leaders stay the only ones while none starts.
LEMMA LeaderKept ==
  ASSUME LeaderLast, stamp' = stamp,
         \A b \in Actors, u \in Targets : call'[b][u].at = "leading" => call'[b][u] = call[b][u]
  PROVE  LeaderLast'
BY DEF LeaderLast

\* No family in any row, or in the snapshot, of t is newer than n.
Newest(t, n) ==
  \A r \in store \cup UNION {rows[b] : b \in Actors} :
    r.target = t /\ r.up => r.families.stamp <= n

\* A row that is the newest of its host keeps the order of ages.
LEMMA AgingReturned ==
  ASSUME TypeOK, Aging, NEW a \in Actors, NEW t \in Targets, NEW fams, Returned(a, t, fams),
         cache' \in {cache, [cache EXCEPT ![t] = fams]},
         fams.real /\ cache' = cache => fams = cache[t],
         fams.stamp <= stamp[t], fams.real => Newest(t, fams.stamp),
         UNCHANGED <<stamp, store>>
  PROVE  Aging'
<1>1. /\ fams \in Families /\ cache \in [Targets -> Families] /\ cache' \in [Targets -> Families]
      /\ stamp \in [Targets -> 0..MaxStamp]
  BY DEF Returned, TypeOK
<1>2. \A b \in Actors : rows[b] \subseteq Rows /\ rows'[b] \subseteq Rows
  BY DEF Returned, TypeOK
<1>3. store \subseteq Rows /\ Loop \in Actors
  BY ActorsFacts DEF TypeOK
<1>4. \A u \in Targets : u # t => cache'[u] = cache[u]
  BY <1>1
<1>5. cache'[t] = fams \/ cache'[t] = cache[t]
  BY <1>1
<1>6. \A u \in Targets : cache'[u].stamp <= stamp'[u]
  BY <1>4, <1>5 DEF Aging
<1>7. ASSUME NEW r \in store \cup UNION {rows[b] : b \in Actors}, r.up
      PROVE  /\ r.families.stamp <= stamp[r.target]
             /\ cache'[r.target].real => r.families.stamp <= cache'[r.target].stamp
  <2>1. r \in Rows
    BY <1>2, <1>3
  <2>2. /\ r.families.stamp <= stamp[r.target]
        /\ cache[r.target].real => r.families.stamp <= cache[r.target].stamp
    BY <1>7 DEF Aging, Older
  <2>3. CASE cache'[r.target] = cache[r.target]
    BY <2>2, <2>3
  <2>4. CASE cache'[r.target] # cache[r.target]
    <3>1. r.target = t /\ cache'[t] = fams
      BY <1>4, <1>5, <2>1, <2>4 DEF Rows
    <3> QED BY <1>7, <2>2, <3>1 DEF Newest
  <2> QED BY <2>3, <2>4
<1>8. PICK r \in Rows :
        /\ rows'[a] = rows[a] \cup {r}
        /\ r.target = t
        /\ r.up => fams.real /\ r.families.stamp = fams.stamp
  BY DEF Returned
<1>9. r.up => /\ r.families.stamp <= stamp[t]
              /\ cache'[t].real => r.families.stamp <= cache'[t].stamp
  <2> SUFFICES ASSUME r.up PROVE /\ fams.stamp <= stamp[t]
                                 /\ cache'[t].real => fams.stamp <= cache'[t].stamp
    BY <1>8
  <2>1. cache'[t] = fams
    BY <1>1, <1>8
  <2> QED BY <1>1, <2>1 DEF Families
<1>10. ASSUME NEW b \in Actors PROVE Older(rows[b])'
  <2> SUFFICES ASSUME NEW q \in rows'[b], q.up
               PROVE  /\ q.families.stamp <= stamp'[q.target]
                      /\ cache'[q.target].real => q.families.stamp <= cache'[q.target].stamp
    BY DEF Older
  <2>1. CASE q \in rows[b]
    BY <1>7, <2>1
  <2>2. CASE q \notin rows[b]
    <3>1. q = r
      BY <1>8, <2>2 DEF Returned
    <3> QED BY <1>8, <1>9, <3>1
  <2> QED BY <2>1, <2>2
<1>11. Older(store)' /\ Unique(store)'
  BY <1>7 DEF Older, Aging
<1>12. ASSUME NEW q \in rows'[Loop], NEW s \in store', q.target = s.target, q.up, s.up
       PROVE  s.families.stamp <= q.families.stamp
  <2>1. CASE q \in rows[Loop]
    BY <1>12, <2>1 DEF Aging
  <2>2. CASE q \notin rows[Loop]
    <3>1. q = r
      BY <1>3, <1>8, <2>2 DEF Returned
    <3>2. Newest(t, fams.stamp)
      BY <1>8, <1>12, <3>1
    <3> QED BY <1>8, <1>12, <3>1, <3>2 DEF Newest
  <2> QED BY <2>1, <2>2
<1> QED BY <1>6, <1>10, <1>11, <1>12 DEF Aging

\* The order of ages does not depend on anything else ...
LEMMA AgingUnchanged ==
  ASSUME Aging, UNCHANGED <<stamp, cache, rows, store>>
  PROVE  Aging'
BY DEF Aging, Older, Unique

\* A new collection is newer than all there is.
LEMMA AgingDepart ==
  ASSUME TypeOK, Aging, NEW a \in Actors, NEW t \in Targets, Depart(a, t)
  PROVE  Aging'
<1>1. UNCHANGED <<cache, rows, store>>
  BY DEF Depart
<1>2. /\ \A u \in Targets : stamp[u] \in Nat /\ stamp'[u] \in Nat /\ stamp[u] <= stamp'[u]
      /\ \A u \in Targets : cache[u].stamp \in Nat
  BY DepartInside, NumbersAssumption DEF TypeOK, Families
<1>3. ASSUME NEW rs \in SUBSET Rows, Older(rs) PROVE Older(rs)'
  <2> SUFFICES ASSUME NEW r \in rs, r.up
               PROVE  /\ r.families.stamp <= stamp'[r.target]
                      /\ cache[r.target].real => r.families.stamp <= cache[r.target].stamp
    BY <1>1 DEF Older
  <2>1. r.target \in Targets /\ r.families.stamp \in Nat
    BY DEF Rows, Families
  <2> QED BY <1>2, <1>3, <2>1 DEF Older
<1>4. store \in SUBSET Rows /\ \A b \in Actors : rows[b] \in SUBSET Rows
  BY DEF TypeOK
<1>5. Older(store)' /\ \A b \in Actors : Older(rows[b])'
  BY <1>1, <1>3, <1>4 DEF Aging, Older
<1> QED BY <1>1, <1>2, <1>5 DEF Aging, Unique

\* ... a new cycle drops rows ...
LEMMA AgingBegin ==
  ASSUME TypeOK, Aging, NEW a \in Actors, NEW targets, NEW labels, Begin(a, targets, labels)
  PROVE  Aging'
<1>1. UNCHANGED <<stamp, cache, store>> /\ \A b \in Actors : rows'[b] \subseteq rows[b]
  BY DEF Begin, collectors, TypeOK
<1> QED BY <1>1, ActorsFacts DEF Aging, Older, Unique

\* ... and a snapshot takes the rows of its cycle.
LEMMA AgingFinish ==
  ASSUME TypeOK, WorkSplit, Aging, NEW a \in Actors, Finish(a)
  PROVE  Aging'
<1>1. UNCHANGED <<stamp, cache>> /\ rows' = [rows EXCEPT ![a] = {}] /\ rows \in [Actors -> SUBSET Rows]
  BY DEF Finish, collectors, TypeOK
<1>2. Loop \in Actors /\ Split(Loop)
  BY ActorsFacts DEF WorkSplit
<1>3. \A b \in Actors : Older(rows[b])'
  BY <1>1 DEF Aging, Older
<1>4. CASE a = Loop
  <2>1. store' = rows[Loop] /\ rows'[Loop] = {}
    BY <1>1, <1>2, <1>4 DEF Finish
  <2>2. Older(store)' /\ Unique(store)'
    BY <1>1, <1>2, <2>1 DEF Aging, Older, Split, Unique
  <2> QED BY <1>1, <1>3, <2>1, <2>2 DEF Aging
<1>5. CASE a # Loop
  <2>1. store' = store /\ rows'[Loop] = rows[Loop]
    BY <1>1, <1>2, <1>5 DEF Finish
  <2> QED BY <1>1, <1>3, <2>1 DEF Aging, Older, Unique
<1> QED BY <1>4, <1>5

-----------------------------------------------------------------------------
\* The inductive invariant holds initially ...

\* Types first.
LEMMA TypeInit == Init => TypeOK
<1> SUFFICES ASSUME Init PROVE TypeOK
  OBVIOUS
<1>1. LimitKept
  <2>1. \A a \in Actors : Busy(a) = {}
    BY DEF Init, Busy, NoCall
  <2>2. Cardinality({}) = 0
    BY FS_EmptySet
  <2> QED BY <2>1, <2>2, NumbersAssumption DEF LimitKept
<1>2. call \in [Actors -> [Targets -> Calls]]
  BY NoCallTyped DEF Init
<1>3. stamp \in [Targets -> 0..MaxStamp] /\ cache \in [Targets -> Families]
  BY BareTyped, NumbersAssumption DEF Init
<1>4. /\ wants \in [Actors -> SUBSET Targets] /\ names \in [Actors -> SUBSET Names]
      /\ todo \in [Actors -> SUBSET Targets] /\ rows \in [Actors -> SUBSET Rows]
  BY DEF Init
<1>5. phase \in [Actors -> {"new", "cycle", "waiting", "stopped"}]
  BY DEF Init
<1>6. tick \in BOOLEAN /\ cancelled \in BOOLEAN /\ exited \in BOOLEAN
  BY DEF Init
<1>7. hosts \subseteq Targets /\ client \subseteq Targets /\ store \subseteq Rows
  BY DEF Init
<1> QED BY <1>1, <1>2, <1>3, <1>4, <1>5, <1>6, <1>7 DEF TypeOK

\* Then the rest.
LEMMA ConsistentInit == Init => Consistent
<1> SUFFICES ASSUME Init PROVE Consistent
  OBVIOUS
<1>1. /\ \A a \in Actors : Busy(a) = {} /\ rows[a] = {} /\ todo[a] = {} /\ phase[a] # "cycle"
      /\ \A a \in Actors, t \in Targets : call[a][t].at = "none"
      /\ \A t \in Targets : cache[t] = Bare /\ stamp[t] = 0
      /\ store = {}
  BY DEF Init, Busy, NoCall
<1>2. WorkSplit
  BY <1>1 DEF WorkSplit, Split, Unique
<1>3. LabelsOwn
  BY <1>1, BareTyped DEF LabelsOwn
<1>4. LeaderLast
  BY <1>1 DEF LeaderLast
<1>5. Aging
  BY <1>1, ActorsFacts DEF Aging, Older, Unique, Bare
<1> QED BY <1>2, <1>3, <1>4, <1>5 DEF Consistent

-----------------------------------------------------------------------------
\* ... and every step preserves it.

\* A step inside a call, other than the start of a collection, changes nothing else.
LEMMA InsideStep ==
  ASSUME Consistent, NEW a \in Actors, NEW t \in Targets, NEW from, NEW to,
         Inside(a, t, from, to), from # "none", to \notin {"none", "leading"},
         UNCHANGED <<stamp, cache, cycle, rows, phase, store>>
  PROVE  Consistent'
<1>1. WorkSplit'
  BY InsideBusy, SplitKept DEF Consistent, cycle
<1>2. LabelsOwn'
  BY DEF Consistent, LabelsOwn, cycle
<1>3. LeaderLast'
  BY LeaderKept DEF Consistent, Inside
<1>4. Aging'
  BY AgingUnchanged DEF Consistent
<1> QED BY <1>1, <1>2, <1>3, <1>4 DEF Consistent

\* The end of a call.
LEMMA ReturnedStep ==
  ASSUME TypeOK, Consistent, NEW a \in Actors, NEW t \in Targets, NEW fams,
         Ended(a, t), Returned(a, t, fams),
         cache' \in {cache, [cache EXCEPT ![t] = fams]},
         fams.real /\ cache' = cache => fams = cache[t],
         fams.stamp <= stamp[t], fams.real => Newest(t, fams.stamp),
         UNCHANGED <<stamp, cycle, phase, store>>
  PROVE  Consistent'
<1>1. WorkSplit'
  BY SplitReturned DEF Consistent, cycle
<1>2. LabelsOwn'
  BY LabelsReturned DEF Consistent, cycle
<1>3. \A b \in Actors, u \in Targets : call'[b][u].at = "leading" => call'[b][u] = call[b][u]
  BY DEF Ended, NoCall
<1>4. LeaderLast'
  BY <1>3, LeaderKept DEF Consistent
<1>5. Aging'
  BY AgingReturned DEF Consistent
<1> QED BY <1>1, <1>2, <1>4, <1>5 DEF Consistent

\* Nothing is newer than the collector's stamp, nor than a cache with families of the BMC's.
LEMMA NewestStamp ==
  ASSUME Aging, NEW t \in Targets
  PROVE  Newest(t, stamp[t]) /\ (cache[t].real => Newest(t, cache[t].stamp))
BY DEF Aging, Older, Newest

\* No families are older than any.
LEMMA BareStamp == ASSUME TypeOK, NEW t \in Targets PROVE Bare.stamp <= stamp[t]
BY NumbersAssumption DEF TypeOK, Bare

\* One step per action.
LEMMA ConsistentStep == TypeOK /\ Consistent /\ [Next]_vars => Consistent'
<1> SUFFICES ASSUME TypeOK, Consistent, [Next]_vars PROVE Consistent'
  OBVIOUS
<1>0. Loop \in Actors /\ Pullers \subseteq Actors
  BY ActorsFacts
<1>i. WorkSplit /\ LabelsOwn /\ LeaderLast /\ Aging
  BY DEF Consistent
<1>1. ASSUME UNCHANGED <<stamp, cache, wants, names, todo, call, rows, store>>,
             \A b \in Actors : phase'[b] = "cycle" <=> phase[b] = "cycle"
      PROVE  Consistent'
  <2>1. \A b \in Actors : Busy(b)' = Busy(b)
    BY <1>1 DEF Busy
  <2>2. WorkSplit'
    BY <1>1, <1>i, <2>1 DEF WorkSplit, Split, HasRow, Unique
  <2>3. LabelsOwn'
    BY <1>1, <1>i DEF LabelsOwn
  <2>4. LeaderLast'
    BY <1>1, <1>i DEF LeaderLast
  <2>5. Aging'
    BY <1>1, <1>i, AgingUnchanged
  <2> QED BY <2>2, <2>3, <2>4, <2>5 DEF Consistent
<1>2. CASE UNCHANGED vars
  BY <1>1, <1>2 DEF vars, collectors, cycle
<1>3. ASSUME NEW a \in Actors, Finish(a) PROVE Consistent'
  <2>1. WorkSplit'
    BY <1>3, <1>i, SplitFinish
  <2>2. LabelsOwn'
    BY <1>3, <1>i DEF Finish, collectors, TypeOK, LabelsOwn
  <2>3. LeaderLast'
    BY <1>3, <1>i DEF Finish, collectors, LeaderLast
  <2>4. Aging'
    BY <1>3, <1>i, AgingFinish
  <2> QED BY <2>1, <2>2, <2>3, <2>4 DEF Consistent
<1>4. ASSUME NEW a \in Actors, NEW t \in Targets, Submit(a, t) PROVE Consistent'
  <2>1. UNCHANGED <<stamp, cache, names, rows, store>>
    BY <1>4 DEF Submit, collectors
  <2>2. WorkSplit'
    BY <1>4, <1>i, SplitSubmit
  <2>3. LabelsOwn'
    BY <1>i, <2>1 DEF LabelsOwn
  <2>4. Inside(a, t, "none", "entering")
    BY <1>4, MoveInside DEF Submit, Stages
  <2>5. \A b \in Actors, u \in Targets : call'[b][u].at = "leading" => call'[b][u] = call[b][u]
    BY <2>4 DEF Inside
  <2>6. LeaderLast'
    BY <1>i, <2>1, <2>5, LeaderKept
  <2>7. Aging'
    BY <1>i, <2>1, AgingUnchanged
  <2> QED BY <2>2, <2>3, <2>6, <2>7 DEF Consistent
<1>5. ASSUME NEW a \in Actors, NEW t \in Targets, Enter(a, t) PROVE Consistent'
  <2>1. PICK to \in {"ready", "connecting"} : Move(a, t, "entering", to)
    BY <1>5 DEF Enter
  <2>2. Inside(a, t, "entering", to)
    BY <2>1, MoveInside DEF Stages
  <2>3. UNCHANGED <<stamp, cache, cycle, rows, phase, store>>
    BY <1>5 DEF Enter, collectors
  <2> QED BY <2>2, <2>3, InsideStep
<1>6. ASSUME NEW a \in Actors, NEW t \in Targets, Connect(a, t) PROVE Consistent'
  <2>1. Inside(a, t, "connecting", "ready")
    BY <1>6, MoveInside DEF Connect, Stages
  <2>2. UNCHANGED <<stamp, cache, cycle, rows, phase, store>>
    BY <1>6 DEF Connect
  <2> QED BY <2>1, <2>2, InsideStep
<1>7. ASSUME NEW a \in Actors, NEW t \in Targets, Board(a, t) PROVE Consistent'
  <2>1. Inside(a, t, "ready", "riding")
    BY <1>7, MoveInside DEF Board, Stages
  <2>2. UNCHANGED <<stamp, cache, cycle, rows, phase, store>>
    BY <1>7 DEF Board, collectors
  <2> QED BY <2>1, <2>2, InsideStep
<1>8. ASSUME NEW a \in Actors, NEW t \in Targets, Depart(a, t) PROVE Consistent'
  <2>1. /\ Inside(a, t, "ready", "leading")
        /\ \A u \in Targets : u # t => stamp'[u] = stamp[u]
        /\ call'[a][t].stamp = stamp'[t]
    BY <1>8, DepartInside
  <2>2. UNCHANGED <<cache, cycle, rows, phase, store>>
    BY <1>8 DEF Depart
  <2>3. WorkSplit'
    BY <1>i, <2>1, <2>2, InsideBusy, SplitKept DEF cycle
  <2>4. LabelsOwn'
    BY <1>i, <2>2 DEF LabelsOwn, cycle
  <2>5. \A b \in Actors : call[b][t].at # "leading"
    BY <1>8 DEF Depart, Collecting, Leading
  <2>6. LeaderLast'
    BY <1>i, <2>1, <2>5 DEF LeaderLast, Inside
  <2>7. Aging'
    BY <1>8, <1>i, AgingDepart
  <2> QED BY <2>3, <2>4, <2>6, <2>7 DEF Consistent
<1>9. ASSUME NEW a \in Actors, NEW t \in Targets, Ended(a, t), Returned(a, t, Bare), cache' = cache,
             UNCHANGED <<stamp, cycle, phase, store>>
      PROVE  Consistent'
  BY <1>9, BareTyped, BareStamp, ReturnedStep
<1>10. ASSUME NEW a \in Actors, NEW t \in Targets, Refuse(a, t) PROVE Consistent'
  BY <1>9, <1>10, RefuseFacts DEF Refuse, collectors
<1>11. ASSUME NEW a \in Actors, NEW t \in Targets, Fail(a, t) PROVE Consistent'
  BY <1>9, <1>11, FailFacts DEF Fail, collectors
<1>12. ASSUME NEW a \in Actors, NEW t \in Targets, Land(a, t) PROVE Consistent'
  <2>1. PICK fams \in {Bare, [real |-> TRUE, stamp |-> call[a][t].stamp, labels |-> {}]} :
          Returned(a, t, fams) /\ cache' = [cache EXCEPT ![t] = fams]
    BY <1>12, LandFacts
  <2>2. Ended(a, t) /\ call[a][t].at = "leading"
    BY <1>12, LandFacts
  <2>3. call[a][t].stamp = stamp[t] /\ stamp[t] \in Nat
    BY <1>i, <2>2, NumbersAssumption DEF LeaderLast, TypeOK
  <2>4. fams.stamp <= stamp[t] /\ (fams.real => Newest(t, fams.stamp))
    BY <1>i, <2>1, <2>3, BareTyped, BareStamp, NewestStamp
  <2>5. fams.real /\ cache' = cache => fams = cache[t]
    BY <2>1 DEF TypeOK
  <2>6. UNCHANGED <<stamp, cycle, phase, store>>
    BY <1>12 DEF Land
  <2> QED BY <2>1, <2>2, <2>4, <2>5, <2>6, ReturnedStep
<1>13. ASSUME NEW a \in Actors, NEW t \in Targets, Wake(a, t) PROVE Consistent'
  <2>1. Ended(a, t) /\ Returned(a, t, cache[t]) /\ cache' = cache
    BY <1>13, <1>i, WakeFacts
  <2>2. cache[t].stamp <= stamp[t] /\ (cache[t].real => Newest(t, cache[t].stamp))
    BY <1>i, NewestStamp DEF Aging
  <2>3. UNCHANGED <<stamp, cycle, phase, store>>
    BY <1>13 DEF Wake
  <2> QED BY <2>1, <2>2, <2>3, ReturnedStep
<1>14. ASSUME NEW a \in Actors, NEW targets \in SUBSET Targets, NEW labels \in SUBSET Names,
              phase[a] # "cycle", Begin(a, targets, labels)
       PROVE  Consistent'
  <2>1. WorkSplit'
    BY <1>14, <1>i, SplitBegin
  <2>2. LabelsOwn'
    BY <1>14, <1>i DEF Begin, collectors, TypeOK, LabelsOwn
  <2>3. LeaderLast'
    BY <1>14, <1>i DEF Begin, collectors, LeaderLast
  <2>4. Aging'
    BY <1>14, <1>i, AgingBegin
  <2> QED BY <2>1, <2>2, <2>3, <2>4 DEF Consistent
<1>15. CASE CollectOnce
  <2>1. phase[Loop] # "cycle" /\ hosts \in SUBSET Targets /\ {"identity"} \in SUBSET Names
    BY <1>15 DEF CollectOnce, TypeOK, Names
  <2> QED BY <1>0, <1>14, <1>15, <2>1 DEF CollectOnce
<1>16. ASSUME NEW p \in Pullers, Request(p) PROVE Consistent'
  <2>1. phase[p] # "cycle" /\ hosts \in SUBSET Targets /\ {"instance"} \in SUBSET Names
    BY <1>16 DEF Request, TypeOK, Names
  <2>2. \A t \in Targets : {t} \in SUBSET Targets /\ {} \in SUBSET Names
    OBVIOUS
  <2>3. \E targets \in SUBSET Targets, labels \in SUBSET Names : Begin(p, targets, labels)
    BY <1>16, <2>1, <2>2 DEF Request
  <2> QED BY <1>0, <1>14, <2>1, <2>3
<1>17. CASE Stop
  BY <1>0, <1>1, <1>17 DEF Stop, collectors, cycle, TypeOK
<1>18. CASE Tick \/ Reload \/ Cancel \/ Exit
  BY <1>1, <1>18 DEF Tick, Reload, Cancel, Exit, collectors, cycle
<1> QED BY <1>2, <1>3, <1>4, <1>5, <1>6, <1>7, <1>8, <1>10, <1>11, <1>12, <1>13, <1>15, <1>16, <1>17, <1>18
        DEF Next, Gathering, Act

-----------------------------------------------------------------------------
\* The theorems

\* Every reachable state is well typed and consistent.
THEOREM Invariant == SafetySpec => [](TypeOK /\ Consistent)
<1>1. Init => TypeOK /\ Consistent
  BY TypeInit, ConsistentInit
<1>2. TypeOK /\ Consistent /\ [Next]_vars => (TypeOK /\ Consistent)'
  BY TypeStep, ConsistentStep DEF Consistent
<1> QED BY <1>1, <1>2, PTL DEF SafetySpec

\* Every reachable state is well typed, and no cycle or request has more calls
\* under way than the limit.
THEOREM TypeCorrect == SafetySpec => []TypeOK
BY Invariant, PTL

\* A cycle ends with one row for each host that was configured when it began.
THEOREM HostsOnce == SafetySpec => []EveryHostOnce
<1>1. TypeOK /\ Consistent => EveryHostOnce
  <2> SUFFICES ASSUME TypeOK, Consistent, NEW a \in Actors, Over(a)
               PROVE  {r.target : r \in rows[a]} = wants[a] /\ Unique(rows[a])
    BY DEF EveryHostOnce, Unique
  <2>1. Split(a) /\ wants[a] \subseteq Targets /\ rows[a] \subseteq Rows
    BY DEF Consistent, WorkSplit, TypeOK
  <2>2. \A t \in Targets : t \in wants[a] <=> HasRow(a, t)
    BY <2>1 DEF Split, Over
  <2> QED BY <2>1, <2>2 DEF Split, HasRow, Rows
<1> QED BY <1>1, Invariant, PTL

\* Labels never leak from one cycle into another, nor into a collector.
THEOREM LabelsApart == SafetySpec => []LabelsOwn
<1>1. Consistent => LabelsOwn
  BY DEF Consistent
<1> QED BY <1>1, Invariant, PTL

\* From one snapshot to the next no host goes back to older families.
THEOREM Advance == SafetySpec => SnapshotsAdvance
<1>1. ASSUME TypeOK, Consistent, [Next]_vars
      PROVE  [\A old \in store, new \in store' :
                (old.target = new.target /\ old.up /\ new.up) =>
                  new.families.stamp >= old.families.stamp]_vars
  <2> SUFFICES ASSUME NEW old \in store, NEW new \in store',
                      old.target = new.target, old.up, new.up
               PROVE  new.families.stamp >= old.families.stamp
    OBVIOUS
  <2>1. store \subseteq Rows /\ rows[Loop] \subseteq Rows
    BY <1>1, ActorsFacts DEF TypeOK
  <2>2. store' \in {store, rows[Loop]}
    BY <1>1 DEF Next, Gathering, Act, Submit, Enter, Connect, Refuse, Depart, Board, Fail, Land, Wake,
                Finish, CollectOnce, Request, Begin, Stop, Tick, Reload, Cancel, Exit, vars
  <2>3. CASE store' = store
    <3>1. old = new
      BY <1>1, <2>3 DEF Consistent, Aging, Unique
    <3>2. old.families.stamp \in Nat
      BY <2>1 DEF Rows, Families
    <3> QED BY <3>1, <3>2
  <2>4. CASE store' = rows[Loop]
    <3>1. old.families.stamp <= new.families.stamp
      BY <1>1, <2>4 DEF Consistent, Aging
    <3>2. old.families.stamp \in Nat /\ new.families.stamp \in Nat
      BY <2>1, <2>4 DEF Rows, Families
    <3> QED BY <3>1, <3>2
  <2> QED BY <2>2, <2>3, <2>4
<1> QED BY <1>1, Invariant, PTL DEF SafetySpec, SnapshotsAdvance
-----------------------------------------------------------------------------
\* Whoever may call: each host's collector coalesces its callers

Stage(t, at) == {a \in Actors : call[a][t].at = at}

\* The actor that runs t's collection, or none.
Leader(t, none) == IF Collecting(t) THEN CHOOSE a \in Leading(t) : TRUE ELSE none

\* What t's collector looks like to those who call it; none is nobody.
Flight(t, none) == INSTANCE SingleFlight WITH
  Callers  <- Actors,
  NoCaller <- none,
  flight   <- Leader(t, none),
  aboard   <- Stage(t, "riding"),
  landed   <- Stage(t, "landed")

\* No call leads, rides or has landed at first.
LEMMA InitFlies ==
  ASSUME Init, NEW t \in Targets, NEW none
  PROVE  Flight(t, none)!Init
<1>1. \A a \in Actors : call[a][t].at = "none"
  BY DEF Init, NoCall
<1> QED BY <1>1 DEF Flight!Init, Leader, Collecting, Leading, Stage

\* The call that leads is the flight ...
LEMMA LeaderIs ==
  ASSUME LeaderLast, NEW a \in Actors, NEW t \in Targets, NEW none, call[a][t].at = "leading"
  PROVE  Leader(t, none) = a
BY DEF LeaderLast, Leader, Collecting, Leading

\* ... and there is none while no call leads.
LEMMA LeaderNone ==
  ASSUME NEW t \in Targets, NEW none, ~Collecting(t)
  PROVE  Leader(t, none) = none
BY DEF Leader

\* The flight is the same as long as the same calls lead.
LEMMA LeaderSame ==
  ASSUME NEW t \in Targets, NEW none,
         \A a \in Actors : call'[a][t].at = "leading" <=> call[a][t].at = "leading"
  PROVE  Leader(t, none)' = Leader(t, none)
<1>1. Leading(t)' = Leading(t)
  BY DEF Leading
<1> QED BY <1>1 DEF Leader, Collecting

\* What a call does before it leads or rides, its callers do not see.
LEMMA Silent ==
  ASSUME NEW t \in Targets, NEW none,
         \A a \in Actors, at \in {"leading", "riding", "landed"} :
           call'[a][t].at = at <=> call[a][t].at = at
  PROVE  UNCHANGED Flight(t, none)!vars
<1>1. Leader(t, none)' = Leader(t, none)
  BY LeaderSame
<1>2. Stage(t, "riding")' = Stage(t, "riding") /\ Stage(t, "landed")' = Stage(t, "landed")
  BY DEF Stage
<1> QED BY <1>1, <1>2 DEF Flight!vars

\* A collection that ends changes the calls of its own host only: its riders get off.
LEMMA DisembarkCalls ==
  ASSUME NEW a \in Actors, NEW t \in Targets, NEW fresh,
         call[a][t].at = "leading", Disembark(a, t, fresh)
  PROVE  /\ \A b \in Actors, u \in Targets : u # t => call'[b][u] = call[b][u]
         /\ call'[a][t].at = "none"
         /\ \A b \in Actors : b # a =>
              IF call[b][t].at = "riding" THEN call'[b][t].at = "landed" ELSE call'[b][t] = call[b][t]
<1>1. \A b \in Actors, u \in Targets :
        call'[b][u] = CASE u = t /\ b = a -> NoCall
                        [] u = t /\ call[b][u].at = "riding" -> [at |-> "landed", stamp |-> 0, fresh |-> fresh]
                        [] OTHER -> call[b][u]
  BY DEF Disembark
<1>2. \A b \in Actors, u \in Targets : u # t => call'[b][u] = call[b][u]
  BY <1>1
<1>3. call'[a][t] = NoCall
  BY <1>1
<1>4. \A b \in Actors : b # a =>
        IF call[b][t].at = "riding"
        THEN call'[b][t] = [at |-> "landed", stamp |-> 0, fresh |-> fresh]
        ELSE call'[b][t] = call[b][t]
  BY <1>1
<1> QED BY <1>2, <1>3, <1>4 DEF NoCall

\* A call of one host leaves the calls of the others as they are.
LEMMA Apart ==
  ASSUME TypeOK, NEW a \in Actors, NEW u \in Targets, Act(a, u), NEW t \in Targets, t # u
  PROVE  \A b \in Actors : call'[b][t] = call[b][t]
<1>1. CASE Fail(a, u) \/ Land(a, u)
  <2>1. PICK fresh \in BOOLEAN : call[a][u].at = "leading" /\ Disembark(a, u, fresh)
    BY <1>1 DEF Fail, Land
  <2> QED BY <2>1, DisembarkCalls
<1>2. CASE Submit(a, u) \/ Enter(a, u) \/ Connect(a, u) \/ Board(a, u)
  <2>1. PICK from \in Stages, to \in Stages : Move(a, u, from, to)
    BY <1>2 DEF Submit, Enter, Connect, Board, Stages
  <2> QED BY <2>1, MoveInside DEF Inside
<1>3. CASE Depart(a, u)
  BY <1>3, DepartInside DEF Inside
<1>4. CASE Refuse(a, u) \/ Wake(a, u)
  <2>1. call' = [call EXCEPT ![a][u] = NoCall] /\ call \in [Actors -> [Targets -> Calls]]
    BY <1>4 DEF Refuse, Wake, End, TypeOK
  <2> QED BY <2>1
<1> QED BY <1>1, <1>2, <1>3, <1>4 DEF Act

\* Starting or riding a collection, ending one and getting off are the abstract
\* steps; the other steps of a call are silent.
LEMMA CallFlies ==
  ASSUME TypeOK, LeaderLast, NEW a \in Actors, NEW t \in Targets, Act(a, t),
         NEW none, none \notin Actors
  PROVE  [Flight(t, none)!Next]_(Flight(t, none)!vars)
<1> DEFINE quiet == \A b \in Actors, at \in {"leading", "riding", "landed"} :
                      call'[b][t].at = at <=> call[b][t].at = at
<1>1. CASE Submit(a, t) \/ Enter(a, t) \/ Connect(a, t)
  <2>1. PICK from \in {"none", "entering", "connecting"}, to \in {"entering", "ready", "connecting"} :
          Move(a, t, from, to)
    BY <1>1 DEF Submit, Enter, Connect
  <2>2. Inside(a, t, from, to)
    BY <2>1, MoveInside DEF Stages
  <2>3. quiet
    BY <2>1, <2>2 DEF Inside
  <2> QED BY <2>3, Silent
<1>2. CASE Refuse(a, t)
  <2>1. call' = [call EXCEPT ![a][t] = NoCall] /\ call[a][t].at = "connecting"
    BY <1>2 DEF Refuse, End
  <2>2. quiet
    BY <2>1 DEF TypeOK, NoCall
  <2> QED BY <2>2, Silent
<1>3. CASE Depart(a, t)
  <2>1. Inside(a, t, "ready", "leading") /\ ~Collecting(t)
    BY <1>3, DepartInside DEF Depart
  <2>2. Leader(t, none) = none
    BY <2>1, LeaderNone
  <2>3. Leader(t, none)' = a
    BY <2>1 DEF Leader, Collecting, Leading, Inside
  <2>4. UNCHANGED <<Stage(t, "riding"), Stage(t, "landed")>>
    BY <2>1 DEF Stage, Inside
  <2>5. a \notin Stage(t, "riding") \cup Stage(t, "landed")
    BY <2>1 DEF Stage, Inside
  <2>6. Flight(t, none)!Depart(a)
    BY <2>2, <2>3, <2>4, <2>5 DEF Flight!Depart, Flight!Out
  <2> QED BY <2>6 DEF Flight!Next
<1>4. CASE Board(a, t)
  <2>1. Inside(a, t, "ready", "riding") /\ Collecting(t)
    BY <1>4, MoveInside DEF Board, Stages
  <2>2. PICK d \in Actors : call[d][t].at = "leading"
    BY <2>1 DEF Collecting, Leading
  <2>3. Leader(t, none) = d /\ d # a
    BY <2>1, <2>2, LeaderIs DEF Inside
  <2>4. Leader(t, none)' = Leader(t, none)
    BY <2>1, LeaderSame DEF Inside
  <2>5. Stage(t, "riding")' = Stage(t, "riding") \cup {a} /\ UNCHANGED Stage(t, "landed")
    BY <2>1 DEF Stage, Inside
  <2>6. a \notin Stage(t, "riding") \cup Stage(t, "landed")
    BY <2>1 DEF Stage, Inside
  <2>7. Flight(t, none)!Board(a)
    BY <2>3, <2>4, <2>5, <2>6 DEF Flight!Board, Flight!Out
  <2> QED BY <2>7 DEF Flight!Next
<1>5. CASE Fail(a, t) \/ Land(a, t)
  <2>1. /\ call[a][t].at = "leading"
        /\ call'[a][t].at = "none"
        /\ \A b \in Actors : b # a =>
             IF call[b][t].at = "riding" THEN call'[b][t].at = "landed" ELSE call'[b][t] = call[b][t]
    BY <1>5, DisembarkCalls DEF Fail, Land
  <2>2. \A b \in Actors : call[b][t].at = "leading" => b = a
    BY <2>1 DEF LeaderLast
  <2>3. Leader(t, none) = a
    BY <2>1, LeaderIs
  <2>4. \A b \in Actors : call'[b][t].at \notin {"leading", "riding"}
    BY <2>1, <2>2
  <2>5. Leader(t, none)' = none
    BY <2>4 DEF Leader, Collecting, Leading
  <2>6. Stage(t, "riding")' = {}
    BY <2>4 DEF Stage
  <2>7. Stage(t, "landed")' = Stage(t, "landed") \cup Stage(t, "riding")
    BY <2>1 DEF Stage
  <2>8. Flight(t, none)!Land(a)
    BY <2>3, <2>5, <2>6, <2>7 DEF Flight!Land
  <2> QED BY <2>8 DEF Flight!Next
<1>6. CASE Wake(a, t)
  <2>1. call' = [call EXCEPT ![a][t] = NoCall] /\ call[a][t].at = "landed"
    BY <1>6 DEF Wake, End
  <2>2. /\ call'[a][t].at = "none"
        /\ \A b \in Actors : b # a => call'[b][t] = call[b][t]
    BY <2>1 DEF TypeOK, NoCall
  <2>3. Leader(t, none)' = Leader(t, none)
    BY <2>1, <2>2, LeaderSame
  <2>4. a \in Stage(t, "landed") /\ Stage(t, "landed")' = Stage(t, "landed") \ {a}
    BY <2>1, <2>2 DEF Stage
  <2>5. Stage(t, "riding")' = Stage(t, "riding")
    BY <2>1, <2>2 DEF Stage
  <2>6. Flight(t, none)!Leave(a)
    BY <2>3, <2>4, <2>5 DEF Flight!Leave
  <2> QED BY <2>6 DEF Flight!Next
<1> QED BY <1>1, <1>2, <1>3, <1>4, <1>5, <1>6 DEF Act

\* Every step of the loop, of a request or of the rest of the process is an abstract
\* step or a silent one.
LEMMA StepFlies ==
  ASSUME TypeOK, LeaderLast, [Next]_vars, NEW t \in Targets, NEW none, none \notin Actors
  PROVE  [Flight(t, none)!Next]_(Flight(t, none)!vars)
<1>1. ASSUME call' = call PROVE UNCHANGED Flight(t, none)!vars
  BY <1>1, Silent
<1>2. ASSUME NEW a \in Actors, NEW u \in Targets, Act(a, u), u # t
      PROVE  UNCHANGED Flight(t, none)!vars
  <2>1. \A b \in Actors : call'[b][t] = call[b][t]
    BY <1>2, Apart
  <2> QED BY <2>1, Silent
<1>3. \/ call' = call
      \/ \E a \in Actors, u \in Targets : Act(a, u)
  BY DEF Next, Gathering, Finish, CollectOnce, Request, Begin, Stop, Tick, Reload, Cancel, Exit, vars
<1> QED BY <1>1, <1>2, <1>3, CallFlies

\* The collector of every host keeps SingleFlight's promise to all who call it, the
\* cycles of the loop and of scrapes of all hosts as well as scrapes of one: one
\* collection at a time, whoever comes meanwhile rides along with it, and gets off
\* only after it ended (collector.go's GatherFamilies under gather_all.go and loop.go).
THEOREM OneCollectionPerHost ==
  ASSUME NEW t \in Targets, NEW CONSTANT none, none \notin Actors
  PROVE  SafetySpec => Flight(t, none)!SafetySpec
<1>1. Init => Flight(t, none)!Init
  BY InitFlies
<1>2. TypeOK /\ Consistent /\ [Next]_vars => [Flight(t, none)!Next]_(Flight(t, none)!vars)
  BY StepFlies DEF Consistent
<1> QED BY <1>1, <1>2, Invariant, PTL DEF SafetySpec, Flight!SafetySpec
=============================================================================
