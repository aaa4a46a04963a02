--------------------------- MODULE CollectorCache ---------------------------
(***************************************************************************)
(* The cache of collectors shared by all requests, and the three things    *)
(* that race on it: scrapes (GetCollector, then GatherFamilies), /reset,   *)
(* and a configuration reload.  Several Collector objects may exist for    *)
(* one target: Reset only drops the map entry, requests that hold the old  *)
(* object go on using it.                                                  *)
(*                                                                         *)
(* Three locks: mu (the map; its sections call nothing and are one step),  *)
(* collected.L of each object (held while the client is created) and       *)
(* Config.Mutex (held by a reload over all of its steps).  GatherFamilies  *)
(* is taken by its abstract specification, SingleFlight: a request runs a  *)
(* collection or rides along until it ends.                                *)
(***************************************************************************)
EXTENDS Naturals, FiniteSets

CONSTANTS Requests,    \* goroutines that scrape
          Objects,     \* Collector objects; reused when nothing refers to them
          Targets,     \* hosts a request may name
          Groups,      \* names of the `auths' section
          Logins,      \* username, password and scheme
          Options,     \* port, verify and basic_auth
          Default,     \* the "default" key of `hosts'
          Files,       \* the `hosts' sections that the configuration file takes on
          NoObject, NoRequest, NoCreds, NoClient, NoGroup, NoKey, NoReload, NoCall

\* Every request and every map entry can hold an object of its own.
ASSUME ObjectsAssumption ==
  Cardinality(Objects) >= Cardinality(Requests) + Cardinality(Targets)

Keys  == Targets \cup {Default}
Creds == [login : Logins, options : Options]
Hosts == [Keys -> Creds \cup {NoCreds}]

\* What a client was built from: credentials, and the entry they came from.
Clients == [creds : Creds, from : Keys \cup Groups]
Calls   == [target : Targets, group : Groups \cup {NoGroup},
            object : Objects, client : Clients \cup {NoClient}]

Reloads == [left : Hosts, key : Keys \cup {NoKey}, was : Logins \cup {NoCreds}]

\* The null values are none of the things they stand in for, and the keys of the two
\* sections of the file are told apart.
ASSUME NullsAssumption ==
  /\ Default \notin Targets
  /\ Groups \cap Keys = {}
  /\ NoObject \notin Objects
  /\ NoRequest \notin Requests
  /\ NoGroup \notin Groups
  /\ NoKey \notin Keys
  /\ NoCreds \notin Creds \cup Logins
  /\ NoClient \notin Clients
  /\ NoCall \notin Calls
  /\ NoReload \notin Reloads

ASSUME FilesAssumption == Files \subseteq Hosts

VARIABLES hosts,       \* Config.Hosts
          auths,       \* Config.Auths
          reload,      \* the reload holding Config.Mutex: entries left, key to reset, its old login
          collectors,  \* the map `collectors'
          client,      \* object -> its client
          holder,      \* object -> the request that holds collected.L over several steps
          pc,          \* request -> where it is
          call,        \* request -> its arguments, object and client
          seen         \* history: logins in force for the target since the request began

vars == <<hosts, auths, reload, collectors, client, holder, pc, call, seen>>

\* NewClient logs in, takes a snapshot of the configuration and discovers; a collection
\* starts with a snapshot as well.
Connecting == {"connecting", "discovering"}
Leading    == {"starting", "collecting"}

States == {"idle", "entering", "choosing", "ready", "riding"} \cup Connecting \cup Leading

TypeOK ==
  /\ hosts \in Hosts
  /\ auths \in [Groups -> Creds \cup {NoCreds}]
  /\ reload \in Reloads \cup {NoReload}
  /\ collectors \in [Targets -> Objects \cup {NoObject}]
  /\ client \in [Objects -> Clients \cup {NoClient}]
  /\ holder \in [Objects -> Requests \cup {NoRequest}]
  /\ pc \in [Requests -> States]
  /\ call \in [Requests -> Calls \cup {NoCall}]
  /\ seen \in [Requests -> SUBSET Logins]

Init ==
  /\ hosts \in Files
  /\ auths \in [Groups -> Creds \cup {NoCreds}]
  /\ reload = NoReload
  /\ collectors = [t \in Targets |-> NoObject]
  /\ client = [o \in Objects |-> NoClient]
  /\ holder = [o \in Objects |-> NoRequest]
  /\ pc = [r \in Requests |-> "idle"]
  /\ call = [r \in Requests |-> NoCall]
  /\ seen = [r \in Requests |-> {}]

-----------------------------------------------------------------------------
\* Helpers

Goto(r, from, to) == pc[r] = from /\ pc' = [pc EXCEPT ![r] = to]

Obj(r) == call[r].object

\* The entry of `hosts' that answers for a target without an `auth' parameter.
EntryOf(hs, t) == IF hs[t] # NoCreds THEN t ELSE Default

\* Mutant of GetAuthConfig: a missing default entry is not noticed.
UncheckedAuthConfig(t, g) ==
  LET entry == EntryOf(hosts, t)
  IN  [creds |-> IF g # NoGroup THEN auths[g] ELSE hosts[entry],
       from  |-> IF g # NoGroup THEN g ELSE entry]

\* GetAuthConfig's lookup: the group when one is given, else host, else default.
GetAuthConfig(t, g) ==
  LET entry == EntryOf(hosts, t)
      creds == IF g # NoGroup THEN auths[g] ELSE hosts[entry]
  IN  IF creds = NoCreds THEN NoClient
      ELSE [creds |-> creds, from |-> IF g # NoGroup THEN g ELSE entry]

LoginsOf(hs, t) ==
  LET creds == hs[EntryOf(hs, t)] IN IF creds = NoCreds THEN {} ELSE {creds.login}

\* Logins in force for t now; a reload that has not reset t yet still counts as
\* before its write.
InForce(t) ==
  LoginsOf(hosts, t) \cup
    IF reload # NoReload /\ reload.key = t THEN {reload.was} ELSE {}

\* Objects that the map or a request refers to; any other is garbage, its client is
\* gone with it, and it may be allocated again.
InUse == {o \in Objects : \/ \E t \in Targets : collectors[t] = o
                          \/ \E r \in Requests : call[r] # NoCall /\ Obj(r) = o}

Sweep == client' = [o \in Objects |-> IF o \in InUse' THEN client[o] ELSE NoClient]

Done(rs) ==
  /\ pc'   = [r \in Requests |-> IF r \in rs THEN "idle" ELSE pc[r]]
  /\ call' = [r \in Requests |-> IF r \in rs THEN NoCall ELSE call[r]]
  /\ seen' = [r \in Requests |-> IF r \in rs THEN {} ELSE seen[r]]

-----------------------------------------------------------------------------
\* GetCollector

\* The section of mu: find the target's collector or enter a new one.
Lookup(r, t, g) ==
  /\ Goto(r, "idle", "entering")
  /\ \E o \in IF collectors[t] # NoObject THEN {collectors[t]} ELSE Objects \ InUse :
       /\ call' = [call EXCEPT ![r] = [target |-> t, group |-> g, object |-> o, client |-> NoClient]]
       /\ collectors' = [collectors EXCEPT ![t] = o]
  /\ seen' = [seen EXCEPT ![r] = InForce(t)]
  /\ UNCHANGED <<hosts, auths, reload, client, holder>>

\* collected.L, with the client in place already.
Reuse(r) ==
  /\ Goto(r, "entering", "ready")
  /\ holder[Obj(r)] = NoRequest
  /\ client[Obj(r)] # NoClient
  /\ call' = [call EXCEPT ![r].client = client[Obj(r)]]
  /\ UNCHANGED <<hosts, auths, reload, collectors, client, holder, seen>>

\* collected.L, held from here to the end of NewClient.
Enter(r) ==
  /\ Goto(r, "entering", "choosing")
  /\ holder[Obj(r)] = NoRequest
  /\ client[Obj(r)] = NoClient
  /\ holder' = [holder EXCEPT ![Obj(r)] = r]
  /\ UNCHANGED <<hosts, auths, reload, collectors, client, call, seen>>

\* GetAuthConfig, a section of Config.Mutex.
Choose(r) ==
  /\ pc[r] = "choosing"
  /\ reload = NoReload
  /\ UNCHANGED <<hosts, auths, reload, collectors>>
  /\ LET c == GetAuthConfig(call[r].target, call[r].group) IN
       IF c = NoClient
       THEN /\ Done({r})
            /\ Sweep
            /\ holder' = [holder EXCEPT ![Obj(r)] = NoRequest]
       ELSE /\ Goto(r, "choosing", "connecting")
            /\ call' = [call EXCEPT ![r].client = c]
            /\ UNCHANGED <<client, holder, seen>>

\* TakeSnapshot, a section of Config.Mutex: NewClient takes one between login and
\* discovery, Collect before anything else.
TakeSnapshot(r) ==
  /\ Goto(r, "connecting", "discovering") \/ Goto(r, "starting", "collecting")
  /\ reload = NoReload
  /\ UNCHANGED <<hosts, auths, reload, collectors, client, holder, call, seen>>

\* NewClient ends: the client is kept ...
Connect(r) ==
  /\ Goto(r, "discovering", "ready")
  /\ client' = [client EXCEPT ![Obj(r)] = call[r].client]
  /\ holder' = [holder EXCEPT ![Obj(r)] = NoRequest]
  /\ UNCHANGED <<hosts, auths, reload, collectors, call, seen>>

\* ... or nothing is, when discovery failed.
ConnectFails(r) ==
  /\ pc[r] = "discovering"
  /\ Done({r})
  /\ holder' = [holder EXCEPT ![Obj(r)] = NoRequest]
  /\ UNCHANGED <<hosts, auths, reload, collectors>>
  /\ Sweep

-----------------------------------------------------------------------------
\* GatherFamilies, by its abstract specification

Flying(o) == {d \in Requests : pc[d] \in Leading /\ Obj(d) = o}

Lead(r) ==
  /\ Goto(r, "ready", "starting")
  /\ holder[Obj(r)] = NoRequest
  /\ Flying(Obj(r)) = {}
  /\ UNCHANGED <<hosts, auths, reload, collectors, client, holder, call, seen>>

Join(r) ==
  /\ Goto(r, "ready", "riding")
  /\ holder[Obj(r)] = NoRequest
  /\ Flying(Obj(r)) # {}
  /\ UNCHANGED <<hosts, auths, reload, collectors, client, holder, call, seen>>

\* The collection ends and its riders return with it.
Finish(r) ==
  /\ pc[r] = "collecting"
  /\ holder[Obj(r)] = NoRequest
  /\ Done({r} \cup {d \in Requests : pc[d] = "riding" /\ Obj(d) = Obj(r)})
  /\ UNCHANGED <<hosts, auths, reload, collectors, holder>>
  /\ Sweep

-----------------------------------------------------------------------------
\* Reset and ReloadConfig

\* Reset deletes the map entry; requests inside the object are not told.
Dropped(k) == [t \in Targets |-> IF t = k THEN NoObject ELSE collectors[t]]

\* GET /reset?target=t
ResetTarget(t) ==
  /\ collectors' = Dropped(t)
  /\ UNCHANGED <<hosts, auths, reload, holder, pc, call, seen>>
  /\ Sweep

\* The file was read and found valid: take Config.Mutex.
BeginReload(file) ==
  /\ reload = NoReload
  /\ reload' = [left |-> file, key |-> NoKey, was |-> NoCreds]
  /\ UNCHANGED <<hosts, auths, collectors, client, holder, pc, call, seen>>

\* Only username, password and scheme are compared.
LoginChanged(k) == hosts[k] # NoCreds /\ hosts[k].login # reload.left[k].login

\* Mutant of MergeHost: the collector of a changed host is not reset.
MergeHostOnly(k) ==
  /\ reload # NoReload
  /\ reload.left[k] # NoCreds
  /\ reload.key = NoKey
  /\ hosts' = IF hosts[k] = NoCreds \/ LoginChanged(k)
              THEN [hosts EXCEPT ![k] = reload.left[k]] ELSE hosts
  /\ reload' = [reload EXCEPT !.left[k] = NoCreds]
  /\ seen' = [r \in Requests |->
                IF call[r] = NoCall THEN {} ELSE seen[r] \cup LoginsOf(hosts', call[r].target)]
  /\ UNCHANGED <<auths, collectors, client, holder, pc, call>>

\* One iteration of the loop over the new hosts, up to the call of Reset: an entry
\* is added, or replaced when its login differs; nothing is ever removed.
MergeHost(k) ==
  /\ reload # NoReload
  /\ reload.left[k] # NoCreds
  /\ reload.key = NoKey
  /\ hosts' = IF hosts[k] = NoCreds \/ LoginChanged(k)
              THEN [hosts EXCEPT ![k] = reload.left[k]] ELSE hosts
  /\ reload' = [reload EXCEPT !.left[k] = NoCreds,
                              !.key  = IF LoginChanged(k) THEN k ELSE NoKey,
                              !.was  = IF LoginChanged(k) THEN hosts[k].login ELSE NoCreds]
  /\ seen' = [r \in Requests |->
                IF call[r] = NoCall THEN {} ELSE seen[r] \cup LoginsOf(hosts', call[r].target)]
  /\ UNCHANGED <<auths, collectors, client, holder, pc, call>>

\* Mutant of ResetChanged: wait until nobody is inside the object.
ResetWhenQuiet ==
  /\ reload # NoReload
  /\ reload.key # NoKey
  /\ \A t \in Targets : t = reload.key /\ collectors[t] # NoObject => holder[collectors[t]] = NoRequest
  /\ collectors' = Dropped(reload.key)
  /\ reload' = [reload EXCEPT !.key = NoKey, !.was = NoCreds]
  /\ UNCHANGED <<hosts, auths, holder, pc, call, seen>>
  /\ Sweep

\* collector.Reset, called with Config.Mutex held.
ResetChanged ==
  /\ reload # NoReload
  /\ reload.key # NoKey
  /\ collectors' = Dropped(reload.key)
  /\ reload' = [reload EXCEPT !.key = NoKey, !.was = NoCreds]
  /\ UNCHANGED <<hosts, auths, holder, pc, call, seen>>
  /\ Sweep

EndReload ==
  /\ reload # NoReload
  /\ \A k \in Keys : reload.left[k] = NoCreds
  /\ reload.key = NoKey
  /\ reload' = NoReload
  /\ UNCHANGED <<hosts, auths, collectors, client, holder, pc, call, seen>>

-----------------------------------------------------------------------------
Scrape(r) ==
  \/ Reuse(r) \/ Enter(r) \/ Choose(r) \/ TakeSnapshot(r) \/ Connect(r) \/ ConnectFails(r)
  \/ Lead(r) \/ Join(r) \/ Finish(r)

Reload == (\E k \in Keys : MergeHost(k)) \/ ResetChanged \/ EndReload

Next ==
  \/ \E r \in Requests, t \in Targets, g \in Groups \cup {NoGroup} : Lookup(r, t, g)
  \/ \E r \in Requests : Scrape(r)
  \/ \E t \in Targets : ResetTarget(t)
  \/ \E file \in Files : BeginReload(file)
  \/ Reload

\* Go's mutexes let no goroutine starve; requests to a BMC time out; a reload in
\* progress runs to its end.  Nothing makes a scrape, a reset or a reload start.
Fairness ==
  /\ \A r \in Requests : SF_vars(Scrape(r))
  /\ WF_vars(Reload)

SafetySpec == Init /\ [][Next]_vars

Spec == SafetySpec /\ Fairness

-----------------------------------------------------------------------------
\* Properties

Scraping(r) == pc[r] \in {"collecting", "riding"}
Login(r)    == call[r].client.creds.login

\* A scrape that uses a host's own entry logs in with a login that was in force
\* at some time while the request ran, whatever reloads and resets ran across it:
\* ReloadConfig writes the entry before it resets the collector, both under
\* Config.Mutex, and requests caught in the old object cannot put it back.
HostLoginCurrent ==
  \A r \in Requests :
    Scraping(r) /\ call[r].client.from = call[r].target => Login(r) \in seen[r]

\* "/reload re-reads the configuration file and resets only the hosts whose
\* credentials changed": the same for every host whose login comes from `hosts',
\* the ones that fall back to the default entry included.
EffectiveLoginCurrent ==
  \A r \in Requests :
    Scraping(r) /\ call[r].group = NoGroup /\ call[r].client.from \in Keys => Login(r) \in seen[r]

\* The lock order collected.L, Config.Mutex, mu has no cycle: every request and
\* every reload comes to its end.
RequestsReturn == \A r \in Requests : pc[r] # "idle" ~> pc[r] = "idle"

ReloadsEnd == reload # NoReload ~> reload = NoReload

\* The strengthening that makes HostLoginCurrent inductive.  A client built from its
\* target's own entry carries a login in force now if the map leads to it, and a
\* login in force since the request began for every request inside its object.
OwnEntry(c, t) == c # NoClient /\ c.from = t

Active(r) == call[r] # NoCall

CallsMatch ==
  \A r \in Requests :
    /\ Active(r) <=> pc[r] # "idle"
    /\ pc[r] \in Connecting \cup Leading \cup {"ready", "riding"} => call[r].client # NoClient

GarbageBlank == \A o \in Objects \ InUse : client[o] = NoClient

OneTargetPerObject ==
  /\ \A t, u \in Targets : collectors[t] # NoObject /\ collectors[t] = collectors[u] => t = u
  /\ \A r \in Requests, t \in Targets : Active(r) /\ collectors[t] = Obj(r) => call[r].target = t
  /\ \A r, d \in Requests :
       Active(r) /\ Active(d) /\ Obj(r) = Obj(d) => call[r].target = call[d].target

EntryStays ==
  /\ \A o \in Objects, t \in Targets : OwnEntry(client[o], t) => hosts[t] # NoCreds
  /\ \A r \in Requests, t \in Targets :
       Active(r) /\ OwnEntry(call[r].client, t) => hosts[t] # NoCreds

ResetPending == reload # NoReload /\ reload.key # NoKey => reload.was \in Logins

SeenCurrent == \A r \in Requests : Active(r) => LoginsOf(hosts, call[r].target) \subseteq seen[r]

MappedCurrent ==
  \A t \in Targets : collectors[t] # NoObject =>
    /\ OwnEntry(client[collectors[t]], t) => client[collectors[t]].creds.login \in InForce(t)
    /\ \A r \in Requests :
         Active(r) /\ Obj(r) = collectors[t] /\ pc[r] \in Connecting /\ OwnEntry(call[r].client, t)
           => Login(r) \in InForce(t)

HeldCurrent ==
  \A r \in Requests : Active(r) =>
    /\ OwnEntry(client[Obj(r)], call[r].target) => client[Obj(r)].creds.login \in seen[r]
    /\ OwnEntry(call[r].client, call[r].target) => Login(r) \in seen[r]
    /\ \A d \in Requests :
         Active(d) /\ Obj(d) = Obj(r) /\ pc[d] \in Connecting /\ OwnEntry(call[d].client, call[r].target)
           => Login(d) \in seen[r]

Provenance ==
  /\ CallsMatch
  /\ GarbageBlank
  /\ OneTargetPerObject
  /\ EntryStays
  /\ ResetPending
  /\ SeenCurrent
  /\ MappedCurrent
  /\ HeldCurrent
=============================================================================
