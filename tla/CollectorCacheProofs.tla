------------------------ MODULE CollectorCacheProofs ------------------------
(***************************************************************************)
(* Theorems about CollectorCache for any sets of requests, objects,        *)
(* targets, logins and files.  The argument for HostLoginCurrent is        *)
(* Provenance: where the login inside an object came from, told from the   *)
(* map's side (MappedCurrent) and from the side of the requests that hold  *)
(* an object, mapped or not (HeldCurrent).                                 *)
(***************************************************************************)
EXTENDS CollectorCache, TLAPS

\* The logins that answer for a target, and the ones still in force, are logins.
LEMMA LoginsTyped ==
  ASSUME NEW hs \in Hosts, NEW t \in Targets
  PROVE  LoginsOf(hs, t) \subseteq Logins
<1>1. EntryOf(hs, t) \in Keys
  BY DEF EntryOf, Keys
<1>2. hs[EntryOf(hs, t)] \in Creds \cup {NoCreds}
  BY <1>1 DEF Hosts
<1> QED BY <1>2 DEF LoginsOf, Creds

LEMMA InForceTyped ==
  ASSUME TypeOK, ResetPending, NEW t \in Targets
  PROVE  InForce(t) \subseteq Logins
BY LoginsTyped, NullsAssumption DEF TypeOK, ResetPending, InForce, Keys

\* A request that is not idle has a call, with an object.
LEMMA CallTyped ==
  ASSUME TypeOK, CallsMatch, NEW r \in Requests, pc[r] # "idle"
  PROVE  /\ call[r] \in Calls
         /\ Obj(r) \in Objects
         /\ call[r].target \in Targets
         /\ call[r].group \in Groups \cup {NoGroup}
         /\ call[r].client \in Clients \cup {NoClient}
<1>1. call[r] \in Calls
  BY DEF TypeOK, CallsMatch, Active
<1> QED BY <1>1 DEF Calls, Obj

\* What GetAuthConfig finds is a client's worth of credentials, or nothing.
LEMMA AuthTyped ==
  ASSUME TypeOK, NEW t \in Targets, NEW g \in Groups \cup {NoGroup}
  PROVE  GetAuthConfig(t, g) \in Clients \cup {NoClient}
<1>1. EntryOf(hosts, t) \in Keys
  BY DEF EntryOf, Keys
<1>2. CASE g = NoGroup
  BY <1>1, <1>2 DEF TypeOK, Hosts, GetAuthConfig, Clients
<1>3. CASE g # NoGroup
  BY <1>3 DEF TypeOK, GetAuthConfig, Clients
<1> QED BY <1>2, <1>3

LEMMA TypeStep == TypeOK /\ Provenance /\ [Next]_vars => TypeOK'
<1> SUFFICES ASSUME TypeOK, Provenance, [Next]_vars PROVE TypeOK'
  OBVIOUS
<1> USE NullsAssumption DEF TypeOK, States, Connecting, Leading
<1>1. CASE UNCHANGED vars
  BY <1>1 DEF vars
<1>2. ASSUME NEW r \in Requests, NEW t \in Targets, NEW g \in Groups \cup {NoGroup}, Lookup(r, t, g)
      PROVE  TypeOK'
  <2>1. PICK o \in Objects :
          /\ call' = [call EXCEPT ![r] = [target |-> t, group |-> g, object |-> o, client |-> NoClient]]
          /\ collectors' = [collectors EXCEPT ![t] = o]
    BY <1>2 DEF Lookup
  <2>2. call' \in [Requests -> Calls \cup {NoCall}]
    BY <2>1 DEF Calls
  <2>3. seen' \in [Requests -> SUBSET Logins]
    BY <1>2, InForceTyped DEF Lookup, Provenance
  <2> QED BY <1>2, <2>1, <2>2, <2>3 DEF Lookup, Goto
<1>3. ASSUME NEW r \in Requests, Scrape(r) PROVE TypeOK'
  <2>0. /\ call[r] \in Calls
        /\ Obj(r) \in Objects
        /\ call[r].target \in Targets
        /\ call[r].group \in Groups \cup {NoGroup}
        /\ call[r].client \in Clients \cup {NoClient}
    BY <1>3, CallTyped DEF Provenance, Scrape, Reuse, Enter, Choose, TakeSnapshot, Connect, ConnectFails,
       Lead, Join, Finish, Goto
  <2>1. CASE Reuse(r)
    <3>1. client[Obj(r)] \in Clients
      BY <2>0, <2>1 DEF Reuse
    <3>2. call' \in [Requests -> Calls \cup {NoCall}]
      BY <2>0, <2>1, <3>1 DEF Reuse, Calls
    <3> QED BY <2>1, <3>2 DEF Reuse, Goto
  <2>2. CASE Enter(r) BY <2>0, <2>2 DEF Enter, Goto
  <2>3. CASE Choose(r)
    <3> DEFINE c == GetAuthConfig(call[r].target, call[r].group)
    <3>1. CASE c = NoClient
      BY <2>3, <3>1 DEF Choose, Done, Sweep
    <3>2. CASE c # NoClient
      <4>1. c \in Clients
        BY <2>0, <3>2, AuthTyped
      <4>2. call' \in [Requests -> Calls \cup {NoCall}]
        BY <2>0, <2>3, <3>2, <4>1 DEF Choose, Calls
      <4> QED BY <2>3, <3>2, <4>2 DEF Choose, Goto
    <3> QED BY <3>1, <3>2
  <2>9. CASE TakeSnapshot(r) BY <2>9 DEF TakeSnapshot, Goto
  <2>4. CASE Connect(r) BY <2>0, <2>4 DEF Connect, Goto
  <2>5. CASE ConnectFails(r) BY <2>5 DEF ConnectFails, Done, Sweep
  <2>6. CASE Lead(r) BY <2>6 DEF Lead, Goto
  <2>7. CASE Join(r) BY <2>7 DEF Join, Goto
  <2>8. CASE Finish(r) BY <2>8 DEF Finish, Done, Sweep
  <2> QED BY <1>3, <2>1, <2>2, <2>3, <2>4, <2>5, <2>6, <2>7, <2>8, <2>9 DEF Scrape
<1>4. ASSUME NEW t \in Targets, ResetTarget(t) PROVE TypeOK'
  BY <1>4 DEF ResetTarget, Dropped, Sweep
<1>5. ASSUME NEW file \in Files, BeginReload(file) PROVE TypeOK'
  BY <1>5, FilesAssumption DEF BeginReload, Reloads
<1>6. ASSUME NEW k \in Keys, MergeHost(k) PROVE TypeOK'
  <2>1. reload \in Reloads /\ reload.left \in Hosts /\ reload.left[k] \in Creds
    BY <1>6 DEF MergeHost, Reloads, Hosts
  <2>2. hosts' \in Hosts
    BY <1>6, <2>1 DEF MergeHost, Hosts
  <2>3. LoginChanged(k) => hosts[k].login \in Logins
    BY DEF LoginChanged, Hosts, Creds
  <2>4. reload' \in Reloads
    BY <1>6, <2>1, <2>3 DEF MergeHost, Reloads, Hosts
  <2>5. ASSUME NEW r \in Requests, call[r] # NoCall
        PROVE  LoginsOf(hosts', call[r].target) \subseteq Logins
    <3>1. call[r].target \in Targets
      BY <2>5 DEF Calls
    <3> QED BY <2>2, <3>1, LoginsTyped
  <2>6. seen' \in [Requests -> SUBSET Logins]
    BY <1>6, <2>5 DEF MergeHost
  <2> QED BY <1>6, <2>2, <2>4, <2>6 DEF MergeHost
<1>7. CASE ResetChanged
  BY <1>7 DEF ResetChanged, Dropped, Sweep, Reloads
<1>8. CASE EndReload
  BY <1>8 DEF EndReload
<1> QED BY <1>1, <1>2, <1>3, <1>4, <1>5, <1>6, <1>7, <1>8 DEF Next, Reload

-----------------------------------------------------------------------------
\* Provenance holds initially, and survives every kind of step.

LEMMA ProvenanceInit == Init => Provenance
BY FilesAssumption, NullsAssumption DEF Init, Provenance, CallsMatch, GarbageBlank,
   OneTargetPerObject, EntryStays, ResetPending, SeenCurrent, MappedCurrent, HeldCurrent,
   Active, OwnEntry, Connecting, Leading

\* Steps that neither change the configuration nor let anything go.
LEMMA LocalStep ==
  ASSUME TypeOK, Provenance, NEW r \in Requests,
         Reuse(r) \/ Enter(r) \/ TakeSnapshot(r) \/ Connect(r) \/ Lead(r) \/ Join(r)
  PROVE  Provenance'
<1> USE NullsAssumption DEF TypeOK, Provenance, Connecting, Leading
<1>0. /\ call[r] \in Calls
      /\ Obj(r) \in Objects
      /\ call[r].target \in Targets
      /\ call[r].client \in Clients \cup {NoClient}
  BY CallTyped DEF Reuse, Enter, TakeSnapshot, Connect, Lead, Join, Goto
<1>1. CASE Reuse(r)
  <2> USE <1>0, <1>1 DEF Reuse, Goto
  <2>1. /\ \A d \in Requests : call'[d] # NoCall <=> call[d] # NoCall
        /\ \A d \in Requests : Active(d) => call'[d].target = call[d].target /\ call'[d].object = call[d].object
        /\ \A d \in Requests : d # r => call'[d] = call[d]
        /\ call'[r].client = client[Obj(r)]
    BY DEF Calls, Active, CallsMatch
  <2>2. CallsMatch'
    BY <2>1 DEF CallsMatch, Active
  <2>3. GarbageBlank'
    BY <2>1 DEF GarbageBlank, InUse, Obj, Active
  <2>4. OneTargetPerObject'
    BY <2>1 DEF OneTargetPerObject, Active, Obj
  <2>5. EntryStays'
    BY <2>1 DEF EntryStays, Active, OwnEntry
  <2>6. ResetPending' /\ SeenCurrent'
    BY <2>1 DEF ResetPending, SeenCurrent, LoginsOf, EntryOf, Active
  <2>7. MappedCurrent'
    <3>1. \A t \in Targets : InForce(t)' = InForce(t)
      BY DEF InForce, LoginsOf, EntryOf
    <3>2. \A d \in Requests : pc'[d] \in Connecting => d # r /\ pc[d] \in Connecting
      OBVIOUS
    <3> HIDE DEF Connecting, Leading
    <3> QED BY <2>1, <3>1, <3>2 DEF MappedCurrent, Active, Obj, OwnEntry, Login
  <2>8. HeldCurrent'
    BY <2>1 DEF HeldCurrent, Active, Obj, OwnEntry, Login
  <2> QED BY <2>2, <2>3, <2>4, <2>5, <2>6, <2>7, <2>8
<1>2. CASE Connect(r)
  <2> USE <1>0, <1>2 DEF Connect, Goto
  <2>1. /\ call' = call /\ collectors' = collectors
        /\ client'[Obj(r)] = call[r].client
        /\ \A o \in Objects : o # Obj(r) => client'[o] = client[o]
        /\ Active(r) /\ InUse' = InUse /\ Obj(r) \in InUse
    BY DEF Active, CallsMatch, InUse, Obj
  <2>2. CallsMatch'
    BY <2>1 DEF CallsMatch, Active
  <2>3. GarbageBlank'
    BY <2>1 DEF GarbageBlank
  <2>4. OneTargetPerObject'
    BY <2>1 DEF OneTargetPerObject, Active, Obj
  <2>5. EntryStays'
    BY <2>1 DEF EntryStays, Active, OwnEntry
  <2>6. ResetPending' /\ SeenCurrent'
    BY <2>1 DEF ResetPending, SeenCurrent, LoginsOf, EntryOf, Active
  <2>7. MappedCurrent'
    BY <2>1 DEF MappedCurrent, Active, Obj, OwnEntry, InForce, LoginsOf, EntryOf, Login
  <2>8. HeldCurrent'
    BY <2>1 DEF HeldCurrent, Active, Obj, OwnEntry, Login
  <2> QED BY <2>2, <2>3, <2>4, <2>5, <2>6, <2>7, <2>8
<1>3. CASE Enter(r) \/ TakeSnapshot(r) \/ Lead(r) \/ Join(r)
  <2> USE <1>0, <1>3 DEF Enter, TakeSnapshot, Lead, Join, Goto
  <2>1. /\ UNCHANGED <<hosts, auths, reload, collectors, client, call, seen>>
        /\ InUse' = InUse
        /\ \A d \in Requests : pc'[d] \in Connecting => pc[d] \in Connecting
    BY DEF InUse, Obj
  <2>2. CallsMatch'
    BY <2>1 DEF CallsMatch, Active
  <2>3. GarbageBlank' /\ OneTargetPerObject' /\ EntryStays' /\ ResetPending' /\ SeenCurrent'
    BY <2>1 DEF GarbageBlank, OneTargetPerObject, EntryStays, ResetPending, SeenCurrent,
       Active, Obj, OwnEntry, LoginsOf, EntryOf
  <2>4. MappedCurrent'
    <3>1. \A t \in Targets : InForce(t)' = InForce(t)
      BY <2>1 DEF InForce, LoginsOf, EntryOf
    <3> HIDE <1>3 DEF Connecting, Leading, Enter, TakeSnapshot, Lead, Join, Goto
    <3> QED BY <2>1, <3>1 DEF MappedCurrent, Active, Obj, OwnEntry, Login
  <2>5. HeldCurrent'
    BY <2>1 DEF HeldCurrent, Active, Obj, OwnEntry, Login
  <2> QED BY <2>2, <2>3, <2>4, <2>5
<1> QED BY <1>1, <1>2, <1>3

\* A request finds the target's object or enters a blank one; it has seen the logins
\* in force, which MappedCurrent says are the ones inside that object.
LEMMA LookupStep ==
  ASSUME TypeOK, Provenance, NEW r \in Requests, NEW t \in Targets,
         NEW g \in Groups \cup {NoGroup}, Lookup(r, t, g)
  PROVE  Provenance'
<1> USE NullsAssumption DEF TypeOK, Provenance, Connecting, Leading
<1>1. PICK o \in Objects :
        /\ o = collectors[t] \/ (collectors[t] = NoObject /\ o \notin InUse)
        /\ call' = [call EXCEPT ![r] = [target |-> t, group |-> g, object |-> o, client |-> NoClient]]
        /\ collectors' = [collectors EXCEPT ![t] = o]
  <2> DEFINE choice == IF collectors[t] # NoObject THEN {collectors[t]} ELSE Objects \ InUse
  <2>1. \E o \in choice :
          /\ call' = [call EXCEPT ![r] = [target |-> t, group |-> g, object |-> o, client |-> NoClient]]
          /\ collectors' = [collectors EXCEPT ![t] = o]
    BY DEF Lookup
  <2>2. \A o \in choice :
          o \in Objects /\ (o = collectors[t] \/ (collectors[t] = NoObject /\ o \notin InUse))
    OBVIOUS
  <2> HIDE DEF choice
  <2> QED BY <2>1, <2>2
<1>2. /\ pc[r] = "idle" /\ ~Active(r)
      /\ pc' = [pc EXCEPT ![r] = "entering"]
      /\ seen' = [seen EXCEPT ![r] = InForce(t)]
      /\ UNCHANGED <<hosts, auths, reload, client, holder>>
  BY DEF Lookup, Goto, CallsMatch
<1>3. /\ call'[r] = [target |-> t, group |-> g, object |-> o, client |-> NoClient]
      /\ call'[r] # NoCall
      /\ \A d \in Requests : d # r => call'[d] = call[d]
      /\ collectors'[t] = o
      /\ \A u \in Targets : u # t => collectors'[u] = collectors[u]
  BY <1>1 DEF Calls
<1>4. \A d \in Requests : Active(d) /\ Obj(d) = o => call[d].target = t
  <2>1. CASE o = collectors[t]
    BY <2>1 DEF OneTargetPerObject
  <2>2. CASE o \notin InUse
    BY <2>2 DEF InUse, Active
  <2> QED BY <1>1, <2>1, <2>2
<1>5. \A u \in Targets : collectors[u] = o => u = t
  <2>1. CASE o = collectors[t]
    <3>1. \A u \in Targets : collectors[t] # NoObject /\ collectors[t] = collectors[u] => t = u
      BY DEF OneTargetPerObject
    <3> QED BY <2>1, <3>1
  <2>2. CASE o \notin InUse
    BY <2>2 DEF InUse
  <2> QED BY <1>1, <2>1, <2>2
<1>6. OwnEntry(client[o], t) => client[o].creds.login \in InForce(t)
  BY <1>1 DEF MappedCurrent, GarbageBlank, OwnEntry
<1>7. \A d \in Requests :
        Active(d) /\ Obj(d) = o /\ pc[d] \in Connecting /\ OwnEntry(call[d].client, t)
          => Login(d) \in InForce(t)
  BY <1>1 DEF MappedCurrent, InUse, Active
<1>8. CallsMatch'
  BY <1>2, <1>3 DEF CallsMatch, Active
<1>9. GarbageBlank'
  <2>1. InUse \subseteq InUse'
    BY <1>1, <1>2, <1>3, <1>5 DEF InUse, Obj, Active
  <2> QED BY <1>2, <2>1 DEF GarbageBlank
<1>10. OneTargetPerObject'
  BY <1>2, <1>3, <1>4, <1>5 DEF OneTargetPerObject, Active, Obj
<1>11. EntryStays'
  BY <1>2, <1>3 DEF EntryStays, Active, OwnEntry
<1>12. ResetPending'
  BY <1>2 DEF ResetPending
<1>13. SeenCurrent'
  BY <1>2, <1>3 DEF SeenCurrent, LoginsOf, EntryOf, Active, InForce
<1>14. MappedCurrent'
  BY <1>2, <1>3, <1>6, <1>7
     DEF MappedCurrent, Active, Obj, OwnEntry, InForce, LoginsOf, EntryOf, Login
<1>15. HeldCurrent'
  BY <1>2, <1>3, <1>4, <1>6, <1>7 DEF HeldCurrent, Active, Obj, OwnEntry, Login
<1> QED BY <1>8, <1>9, <1>10, <1>11, <1>12, <1>13, <1>14, <1>15

\* A request takes its credentials from the configuration as it is now: a login that
\* is in force, and that every request inside the object has seen.
LEMMA ChooseStep ==
  ASSUME TypeOK, Provenance, NEW r \in Requests, Choose(r),
         GetAuthConfig(call[r].target, call[r].group) # NoClient
  PROVE  Provenance'
<1> USE NullsAssumption DEF TypeOK, Provenance, Connecting, Leading
<1> DEFINE t == call[r].target
           c == GetAuthConfig(t, call[r].group)
<1>1. /\ call[r] \in Calls
      /\ t \in Targets
      /\ call[r].group \in Groups \cup {NoGroup}
      /\ Active(r)
  BY CallTyped DEF Choose, CallsMatch
<1>2. c \in Clients
  BY <1>1, AuthTyped
<1>3. /\ reload = NoReload
      /\ pc' = [pc EXCEPT ![r] = "connecting"]
      /\ call' = [call EXCEPT ![r].client = c]
      /\ UNCHANGED <<hosts, auths, reload, collectors, client, holder, seen>>
  BY DEF Choose, Goto
<1>4. /\ \A d \in Requests : d # r => call'[d] = call[d] /\ pc'[d] = pc[d]
      /\ call'[r].target = t /\ call'[r].object = call[r].object /\ call'[r].client = c
      /\ call'[r] # NoCall
      /\ \A d \in Requests : Active(d)' <=> Active(d)
  BY <1>1, <1>2, <1>3 DEF Calls, Active
<1>5. \A u \in Targets : OwnEntry(c, u) => u = t /\ hosts[u] # NoCreds /\ LoginsOf(hosts, u) = {c.creds.login}
  BY <1>1, <1>2 DEF OwnEntry, GetAuthConfig, EntryOf, LoginsOf, Keys
<1>6. CallsMatch'
  BY <1>2, <1>3, <1>4 DEF CallsMatch, Active
<1>7. InUse' = InUse
  BY <1>3, <1>4 DEF InUse, Obj, Active
<1>8. GarbageBlank'
  BY <1>3, <1>7 DEF GarbageBlank
<1>9. OneTargetPerObject'
  BY <1>1, <1>3, <1>4 DEF OneTargetPerObject, Active, Obj
<1>10. EntryStays'
  BY <1>3, <1>4, <1>5 DEF EntryStays, Active, OwnEntry
<1>11. ResetPending' /\ SeenCurrent'
  BY <1>1, <1>3, <1>4 DEF ResetPending, SeenCurrent, LoginsOf, EntryOf, Active
<1>12. MappedCurrent'
  <2>1. \A u \in Targets : InForce(u)' = InForce(u) /\ LoginsOf(hosts, u) \subseteq InForce(u)
    BY <1>3 DEF InForce, LoginsOf, EntryOf
  <2>2. \A u \in Targets : OwnEntry(c, u) => c.creds.login \in InForce(u)
    BY <1>5, <2>1
  <2>3. Login(r)' = c.creds.login
    BY <1>4 DEF Login
  <2>4. \A d \in Requests : Obj(d)' = Obj(d)
    BY <1>4 DEF Obj
  <2>5. \A d \in Requests : d # r => Login(d)' = Login(d)
    BY <1>4 DEF Login
  <2> QED BY <1>3, <1>4, <2>1, <2>2, <2>3, <2>4, <2>5 DEF MappedCurrent, OwnEntry
<1>13. HeldCurrent'
  <2>1. \A d \in Requests : Active(d) /\ Obj(d) = Obj(r) /\ OwnEntry(c, t) => c.creds.login \in seen[d]
    BY <1>1, <1>5 DEF OneTargetPerObject, SeenCurrent
  <2>2. \A d \in Requests : Active(d) /\ Obj(d) = Obj(r) => call[d].target = t
    BY <1>1 DEF OneTargetPerObject
  <2> QED BY <1>1, <1>3, <1>4, <2>1, <2>2 DEF HeldCurrent, Active, Obj, OwnEntry, Login
<1> QED BY <1>6, <1>8, <1>9, <1>10, <1>11, <1>12, <1>13

\* Letting go of requests and map entries, with what becomes garbage, takes nothing
\* from those that stay.
LEMMA DropStep ==
  ASSUME TypeOK, Provenance, Sweep,
         UNCHANGED <<hosts, auths>>,
         reload' = reload \/ ResetChanged,
         \A t \in Targets : collectors'[t] \in {collectors[t], NoObject},
         \A r \in Requests :
           \/ call'[r] = NoCall /\ pc'[r] = "idle"
           \/ call'[r] = call[r] /\ pc'[r] = pc[r] /\ seen'[r] = seen[r]
  PROVE  Provenance'
<1> USE NullsAssumption DEF TypeOK, Provenance, Connecting, Leading
<1>1. \A o \in Objects : client'[o] = (IF o \in InUse' THEN client[o] ELSE NoClient)
  BY DEF Sweep
<1>2. \A r \in Requests : Active(r)' => Active(r) /\ call'[r] = call[r] /\ pc'[r] = pc[r] /\ seen'[r] = seen[r]
  BY DEF Active
<1>3. \A t \in Targets : collectors'[t] # NoObject => collectors'[t] = collectors[t]
  OBVIOUS
<1>4. \A t \in Targets : collectors'[t] # NoObject => InForce(t)' = InForce(t)
  <2>1. CASE reload' = reload
    BY <2>1 DEF InForce, LoginsOf, EntryOf
  <2>2. CASE ResetChanged
    \* the key whose reset ends is the one whose entry goes
    <3>1. reload \in Reloads /\ reload' = [reload EXCEPT !.key = NoKey, !.was = NoCreds]
      BY <2>2 DEF ResetChanged
    <3>2. reload' \in Reloads /\ reload'.key = NoKey
      BY <3>1 DEF Reloads
    <3>3. \A t \in Targets : collectors'[t] # NoObject => t # reload.key /\ t # NoKey
      BY <2>2 DEF ResetChanged, Dropped, Keys
    <3> QED BY <3>1, <3>2, <3>3 DEF InForce, LoginsOf, EntryOf
  <2> QED BY <2>1, <2>2
<1>5. CallsMatch'
  BY <1>2 DEF CallsMatch, Active
<1>6. GarbageBlank'
  BY <1>1 DEF GarbageBlank
<1>7. OneTargetPerObject'
  <2>1. \A r \in Requests : Active(r) => Obj(r) \in Objects
    BY DEF Active, Obj, Calls
  <2>2. \A r \in Requests : Active(r)' => Active(r) /\ Obj(r)' = Obj(r) /\ call'[r].target = call[r].target
    BY <1>2 DEF Obj
  <2> QED BY <1>3, <2>1, <2>2 DEF OneTargetPerObject
<1>8. EntryStays'
  BY <1>1, <1>2 DEF EntryStays, Active, OwnEntry
<1>9. ResetPending'
  BY DEF ResetPending, ResetChanged, Reloads
<1>10. SeenCurrent'
  BY <1>2 DEF SeenCurrent, LoginsOf, EntryOf, Active
<1>11. MappedCurrent'
  BY <1>1, <1>2, <1>3, <1>4 DEF MappedCurrent, Active, Obj, OwnEntry, Login
<1>12. HeldCurrent'
  <2>1. \A r \in Requests : Active(r) => Obj(r) \in Objects
    BY DEF Active, Obj, Calls
  <2> QED BY <1>1, <1>2, <2>1 DEF HeldCurrent, Active, Obj, OwnEntry, Login
<1> QED BY <1>5, <1>6, <1>7, <1>8, <1>9, <1>10, <1>11, <1>12

\* The configuration changes: what was in force stays in force for the key whose reset
\* is due, and every request sees what is in force from now on.
LEMMA MergeStep ==
  ASSUME TypeOK, Provenance, NEW k \in Keys, MergeHost(k)
  PROVE  Provenance'
<1> USE NullsAssumption DEF TypeOK, Provenance, Connecting, Leading
<1>1. /\ reload \in Reloads /\ reload # NoReload /\ reload.key = NoKey
      /\ reload.left[k] \in Creds
      /\ UNCHANGED <<auths, collectors, client, holder, pc, call>>
  BY DEF MergeHost, Reloads, Hosts
<1>2. /\ reload' \in Reloads /\ reload' # NoReload
      /\ reload'.key = (IF LoginChanged(k) THEN k ELSE NoKey)
      /\ reload'.was = (IF LoginChanged(k) THEN hosts[k].login ELSE NoCreds)
  <2>1. LoginChanged(k) => hosts[k].login \in Logins
    BY DEF LoginChanged, Hosts, Creds
  <2>2. reload' = [left |-> [reload.left EXCEPT ![k] = NoCreds],
                   key  |-> IF LoginChanged(k) THEN k ELSE NoKey,
                   was  |-> IF LoginChanged(k) THEN hosts[k].login ELSE NoCreds]
    BY <1>1 DEF MergeHost, Reloads
  <2>3. [reload.left EXCEPT ![k] = NoCreds] \in Hosts
    BY <1>1 DEF Reloads, Hosts
  <2>4. reload' \in Reloads
    BY <2>1, <2>2, <2>3 DEF Reloads
  <2> QED BY <2>2, <2>4
<1>3. /\ \A j \in Keys : j # k => hosts'[j] = hosts[j]
      /\ hosts'[k] = hosts[k] \/ hosts'[k] = reload.left[k]
      /\ ~LoginChanged(k) /\ hosts[k] # NoCreds => hosts'[k] = hosts[k]
      /\ \A j \in Keys : hosts[j] # NoCreds => hosts'[j] # NoCreds
  BY <1>1 DEF MergeHost, Hosts
<1>4. \A r \in Requests : Active(r) => seen[r] \subseteq seen'[r]
  BY DEF MergeHost, Active
<1>5. \A t \in Targets : hosts[t] # NoCreds => InForce(t) \subseteq InForce(t)'
  <2> SUFFICES ASSUME NEW t \in Targets, hosts[t] # NoCreds
               PROVE  InForce(t) \subseteq InForce(t)'
    OBVIOUS
  <2>1. t \in Keys /\ t # NoKey
    BY DEF Keys
  <2>2. InForce(t) = {hosts[t].login}
    BY <1>1, <2>1 DEF InForce, LoginsOf, EntryOf
  <2>3. hosts'[t] # NoCreds /\ hosts'[t].login \in InForce(t)'
    BY <1>3, <2>1 DEF InForce, LoginsOf, EntryOf
  <2>4. CASE t = k /\ LoginChanged(k)
    BY <1>2, <2>1, <2>2, <2>4 DEF InForce
  <2>5. CASE t # k \/ ~LoginChanged(k)
    BY <1>3, <2>1, <2>2, <2>3, <2>5
  <2> QED BY <2>4, <2>5
<1>6. CallsMatch'
  BY <1>1 DEF CallsMatch, Active
<1>7. GarbageBlank'
  BY <1>1 DEF GarbageBlank, InUse, Obj
<1>8. OneTargetPerObject'
  BY <1>1 DEF OneTargetPerObject, Active, Obj
<1>9. EntryStays'
  BY <1>1, <1>3 DEF EntryStays, Active, OwnEntry, Keys
<1>10. ResetPending'
  <2>1. LoginChanged(k) => hosts[k].login \in Logins
    BY DEF LoginChanged, Hosts, Creds
  <2> QED BY <1>2, <2>1 DEF ResetPending
<1>11. SeenCurrent'
  BY <1>1 DEF SeenCurrent, MergeHost, Active
<1>12. MappedCurrent'
  BY <1>1, <1>5 DEF MappedCurrent, EntryStays, Active, Obj, OwnEntry, Login
<1>13. HeldCurrent'
  BY <1>1, <1>4 DEF HeldCurrent, Active, Obj, OwnEntry, Login
<1> QED BY <1>6, <1>7, <1>8, <1>9, <1>10, <1>11, <1>12, <1>13

\* Taking and giving up Config.Mutex.
LEMMA LockStep ==
  ASSUME TypeOK, Provenance, (\E file \in Files : BeginReload(file)) \/ EndReload
  PROVE  Provenance'
<1> USE NullsAssumption DEF TypeOK, Provenance, Connecting, Leading
<1>1. UNCHANGED <<hosts, auths, collectors, client, holder, pc, call, seen>>
  BY DEF BeginReload, EndReload
<1>2. /\ reload = NoReload \/ reload.key = NoKey
      /\ reload' = NoReload \/ reload'.key = NoKey
  BY FilesAssumption DEF BeginReload, EndReload
<1>3. \A t \in Targets : InForce(t)' = InForce(t)
  BY <1>1, <1>2 DEF InForce, LoginsOf, EntryOf, Keys
<1>4. CallsMatch' /\ GarbageBlank' /\ OneTargetPerObject' /\ EntryStays'
  BY <1>1 DEF CallsMatch, GarbageBlank, InUse, OneTargetPerObject, EntryStays, Active, Obj, OwnEntry
<1>5. ResetPending'
  BY <1>2 DEF ResetPending
<1>6. SeenCurrent'
  BY <1>1 DEF SeenCurrent, LoginsOf, EntryOf, Active
<1>7. MappedCurrent'
  BY <1>1, <1>3 DEF MappedCurrent, Active, Obj, OwnEntry, Login
<1>8. HeldCurrent'
  BY <1>1 DEF HeldCurrent, Active, Obj, OwnEntry, Login
<1> QED BY <1>4, <1>5, <1>6, <1>7, <1>8

LEMMA ProvenanceStep == TypeOK /\ Provenance /\ [Next]_vars => Provenance'
<1> SUFFICES ASSUME TypeOK, Provenance, [Next]_vars PROVE Provenance'
  OBVIOUS
<1>1. CASE UNCHANGED vars
  <2> USE <1>1 DEF vars
  <2>1. CallsMatch' /\ GarbageBlank' /\ OneTargetPerObject'
    BY DEF Provenance, CallsMatch, GarbageBlank, InUse, OneTargetPerObject, Active, Obj
  <2>2. EntryStays' /\ ResetPending' /\ SeenCurrent'
    BY DEF Provenance, EntryStays, ResetPending, SeenCurrent, Active, OwnEntry, LoginsOf, EntryOf
  <2>3. MappedCurrent'
    BY DEF Provenance, MappedCurrent, Active, Obj, OwnEntry, InForce, LoginsOf, EntryOf, Login
  <2>4. HeldCurrent'
    BY DEF Provenance, HeldCurrent, Active, Obj, OwnEntry, Login
  <2> QED BY <2>1, <2>2, <2>3, <2>4 DEF Provenance
<1>2. ASSUME NEW r \in Requests, NEW t \in Targets, NEW g \in Groups \cup {NoGroup}, Lookup(r, t, g)
      PROVE  Provenance'
  BY <1>2, LookupStep
<1>3. ASSUME NEW r \in Requests, Scrape(r) PROVE Provenance'
  <2>1. CASE Reuse(r) \/ Enter(r) \/ TakeSnapshot(r) \/ Connect(r) \/ Lead(r) \/ Join(r)
    BY <2>1, LocalStep
  <2>2. CASE Choose(r) /\ GetAuthConfig(call[r].target, call[r].group) # NoClient
    BY <2>2, ChooseStep
  <2>3. CASE Choose(r) /\ GetAuthConfig(call[r].target, call[r].group) = NoClient
    BY <2>3, DropStep DEF TypeOK, Choose, Done
  <2>4. CASE ConnectFails(r)
    BY <2>4, DropStep DEF TypeOK, ConnectFails, Done
  <2>5. CASE Finish(r)
    BY <2>5, DropStep DEF TypeOK, Finish, Done
  <2> QED BY <1>3, <2>1, <2>2, <2>3, <2>4, <2>5 DEF Scrape
<1>4. ASSUME NEW t \in Targets, ResetTarget(t) PROVE Provenance'
  BY <1>4, DropStep DEF TypeOK, ResetTarget, Dropped
<1>5. CASE ResetChanged
  <2>1. /\ \A t \in Targets : collectors'[t] \in {collectors[t], NoObject}
        /\ \A r \in Requests : call'[r] = call[r] /\ pc'[r] = pc[r] /\ seen'[r] = seen[r]
        /\ Sweep /\ UNCHANGED <<hosts, auths>>
    BY <1>5 DEF TypeOK, ResetChanged, Dropped
  <2> QED BY <1>5, <2>1, DropStep
<1>6. ASSUME NEW k \in Keys, MergeHost(k) PROVE Provenance'
  BY <1>6, MergeStep
<1>7. CASE (\E file \in Files : BeginReload(file)) \/ EndReload
  BY <1>7, LockStep
<1> QED BY <1>1, <1>2, <1>3, <1>4, <1>5, <1>6, <1>7 DEF Next, Reload

-----------------------------------------------------------------------------
\* The state of the cache, its locks and its requests is well typed, and Provenance
\* is an invariant, for any sets of requests, targets, groups, logins and files.
THEOREM Invariant == SafetySpec => [](TypeOK /\ Provenance)
<1>1. Init => TypeOK
  BY FilesAssumption, NullsAssumption DEF Init, TypeOK, States
<1> QED BY <1>1, TypeStep, ProvenanceInit, ProvenanceStep, PTL DEF SafetySpec

THEOREM TypeCorrect == SafetySpec => []TypeOK
BY Invariant, PTL

\* However resets, reloads and scrapes interleave, a host with an entry of its own is
\* scraped with a login that was in force while the request ran.
THEOREM LoginsCurrent == SafetySpec => []HostLoginCurrent
<1>1. ASSUME TypeOK, Provenance PROVE HostLoginCurrent
  <2> SUFFICES ASSUME NEW r \in Requests, Scraping(r), call[r].client.from = call[r].target
               PROVE  Login(r) \in seen[r]
    BY DEF HostLoginCurrent
  <2>1. Active(r) /\ OwnEntry(call[r].client, call[r].target)
    BY <1>1 DEF Scraping, Provenance, CallsMatch, OwnEntry, Leading
  <2> QED BY <1>1, <2>1 DEF Provenance, HeldCurrent
<1> QED BY <1>1, Invariant, PTL
=============================================================================
