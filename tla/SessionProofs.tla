---------------------------- MODULE SessionProofs ----------------------------
(***************************************************************************)
(* Theorems about Session for any number of clients and sessions and any   *)
(* limit of the BMC.  The lemmas say what an exchange with the BMC may     *)
(* bring; the invariant Accounted follows the sessions from there.         *)
(***************************************************************************)
EXTENDS Session, TLAPS

Records == [disabled : BOOLEAN, id : Sessions \cup {NoSession}, token : Sessions \cup {NoSession}]

Outcomes == [ok : BOOLEAN, rec : Records, live : SUBSET Sessions, clean : BOOLEAN]

\* A record that says sessions are disabled has no remains of one.
Sound(rec) == rec \in Records /\ (rec.disabled => rec.id = NoSession /\ rec.token = NoSession)

\* An outcome without a fault leaves id and token together, and the only session it can
\* have opened is the one of the token.
Clean(o) == o.rec.id = o.rec.token /\ o.live \subseteq live \cup {o.rec.token}

LEMMA HeldSound ==
  ASSUME TypeOK, DisabledHoldsNothing, NEW c \in Clients
  PROVE  Sound(Held(c))
BY DEF TypeOK, DisabledHoldsNothing, Sound, Held, Records

LEMMA OpenableTyped == Openable \subseteq Sessions
BY DEF Openable

\* A login without a usable answer, and one with an answer.
LEMMA LoginFailedFacts ==
  ASSUME TypeOK, NEW rec, Sound(rec), NEW o \in LoginFailed(rec)
  PROVE  /\ o \in Outcomes
         /\ o.ok = FALSE
         /\ o.rec = rec \/ o.rec = Disabled
         /\ o.clean => o.live = live
<1>1. Disabled \in Records
  BY DEF Disabled, Records
<1>2. \A s \in Openable : live \cup {s} \in SUBSET Sessions
  BY OpenableTyped DEF TypeOK
<1>3. CASE o \in [ok : {FALSE}, rec : {rec, Disabled}, live : {live}, clean : {TRUE}]
  BY <1>1, <1>3 DEF TypeOK, Sound, Outcomes
<1>4. CASE o \in [ok : {FALSE}, rec : {rec, Disabled}, live : {live \cup {s} : s \in Openable}, clean : {FALSE}]
  <2>1. /\ o.ok = FALSE /\ o.clean = FALSE /\ o.rec \in {rec, Disabled}
        /\ o.live \in {live \cup {s} : s \in Openable}
        /\ o = [ok |-> o.ok, rec |-> o.rec, live |-> o.live, clean |-> o.clean]
    BY <1>4
  <2>2. o.live \in SUBSET Sessions
    BY <1>2, <2>1
  <2> QED BY <1>1, <2>1, <2>2 DEF Sound, Outcomes
<1> QED BY <1>3, <1>4 DEF LoginFailed

LEMMA LoginDoneFacts ==
  ASSUME TypeOK, NEW s \in Openable, NEW o \in LoginDone(s)
  PROVE  /\ o \in Outcomes
         /\ o.ok = TRUE
         /\ o.rec.disabled = FALSE
         /\ o.clean => Clean(o)
<1>1. PICK i \in {s, NoSession}, k \in {s, NoSession} :
        o = [ok |-> TRUE, rec |-> [disabled |-> FALSE, id |-> i, token |-> k],
             live |-> live \cup {s}, clean |-> i = s /\ k = s]
  BY DEF LoginDone
<1>2. s \in Sessions
  BY OpenableTyped
<1> QED BY <1>1, <1>2 DEF TypeOK, Outcomes, Records, Clean

\* CreateSession for a record, and the reaction to a login that was due.
LEMMA CreateFacts ==
  ASSUME TypeOK, NEW rec, Sound(rec), rec.id = rec.token, NEW o \in CreateSession(rec)
  PROVE  /\ o \in Outcomes
         /\ Sound(o.rec)
         /\ o.clean => Clean(o)
<1>1. CASE rec.disabled
  <2>1. o = [ok |-> FALSE, rec |-> rec, live |-> live, clean |-> TRUE]
    BY <1>1 DEF CreateSession
  <2> QED BY <2>1 DEF TypeOK, Sound, Outcomes, Clean
<1>2. CASE ~rec.disabled /\ o \in LoginFailed(rec)
  <2>1. Disabled \in Records /\ Sound(Disabled) /\ Disabled.id = Disabled.token
    BY DEF Disabled, Records, Sound
  <2>2. /\ o \in Outcomes /\ (o.rec = rec \/ o.rec = Disabled)
        /\ o.clean => o.live = live
    BY <1>2, LoginFailedFacts
  <2> QED BY <2>1, <2>2 DEF Clean
<1>3. ASSUME ~rec.disabled, NEW s \in Openable, o \in LoginDone(s)
      PROVE  o \in Outcomes /\ Sound(o.rec) /\ (o.clean => Clean(o))
  BY <1>3, LoginDoneFacts DEF Sound, Outcomes
<1> QED BY <1>1, <1>2, <1>3 DEF CreateSession

LEMMA ReloginFacts ==
  ASSUME TypeOK, NEW rec, Sound(rec), NEW p \in Relogin(rec)
  PROVE  /\ p \in Outcomes
         /\ Sound(p.rec)
         /\ p.clean => Clean(p)
<1>1. PICK o \in CreateSession(rec) : p = [o EXCEPT !.rec = IF o.ok THEN o.rec ELSE Disabled]
  BY DEF Relogin
<1>2. Disabled \in Records /\ Sound(Disabled)
  BY DEF Disabled, Records, Sound
<1>3. CASE rec.disabled
  <2>1. o = [ok |-> FALSE, rec |-> rec, live |-> live, clean |-> TRUE]
    BY <1>3 DEF CreateSession
  <2> QED BY <1>1, <1>2, <2>1 DEF TypeOK, Outcomes, Clean, Disabled
<1>4. CASE o \in LoginFailed(rec)
  <2>1. o \in Outcomes /\ o.ok = FALSE /\ (o.clean => o.live = live)
    BY <1>4, LoginFailedFacts
  <2>2. p = [ok |-> FALSE, rec |-> Disabled, live |-> o.live, clean |-> o.clean]
    BY <1>1, <2>1 DEF Outcomes
  <2>3. p \in Outcomes /\ Sound(p.rec)
    BY <1>2, <2>1, <2>2 DEF Outcomes
  <2>4. p.clean => Clean(p)
    BY <2>1, <2>2 DEF Clean, Disabled
  <2> QED BY <2>3, <2>4
<1>5. ASSUME NEW s \in Openable, o \in LoginDone(s)
      PROVE  p \in Outcomes /\ Sound(p.rec) /\ (p.clean => Clean(p))
  <2>1. p = o
    BY <1>1, <1>5, LoginDoneFacts DEF Outcomes
  <2> QED BY <1>5, <2>1, LoginDoneFacts DEF Sound, Outcomes
<1> QED BY <1>3, <1>4, <1>5 DEF CreateSession

\* A refresh keeps what it has, or logs in when there is nothing to keep.
LEMMA RefreshFacts ==
  ASSUME TypeOK, DisabledHoldsNothing, NEW c \in Clients,
         NEW o \in Answered(c) \cup Unanswered(c)
  PROVE  /\ o \in Outcomes
         /\ Sound(o.rec)
         /\ \/ o = Keep(c)
            \/ /\ token[c] \notin live \/ id[c] = NoSession
               /\ o.clean => Clean(o)
<1>1. Sound(Held(c))
  BY HeldSound
<1>2. Keep(c) \in Outcomes /\ Keep(c).rec = Held(c)
  BY <1>1 DEF TypeOK, Keep, Outcomes, Sound
<1>3. CASE o \in Relogin(Held(c)) /\ (token[c] = NoSession \/ token[c] \notin live \/ id[c] = NoSession)
  BY <1>1, <1>3, ReloginFacts, NullsAssumption DEF TypeOK
<1>4. CASE o = Keep(c)
  BY <1>1, <1>2, <1>4
<1> QED BY <1>3, <1>4 DEF Answered, Unanswered

\* A logout ends the client's own session, or fails.
LEMMA DeleteFacts ==
  ASSUME TypeOK, DisabledHoldsNothing, NEW c \in Clients, NEW o \in DeleteSession(c)
  PROVE  /\ o \in Outcomes
         /\ o.clean => o.live = live \ {token[c]}
<1>1. Sound(Held(c)) /\ Blank \in Records
  BY HeldSound DEF Blank, Records
<1> DEFINE after == IF id[c] = NoSession THEN live ELSE live \ {token[c]}
<1>2. after \in SUBSET Sessions
  BY DEF TypeOK
<1>3. CASE token[c] = NoSession
  <2>1. o = Keep(c)
    BY <1>3 DEF DeleteSession
  <2> QED BY <1>1, <1>3, <2>1, NullsAssumption DEF TypeOK, Keep, Outcomes, Sound
<1>4. CASE o = [ok |-> TRUE, rec |-> Blank, live |-> after, clean |-> id[c] # NoSession]
  BY <1>1, <1>2, <1>4 DEF Outcomes
<1>5. CASE o \in [ok : {FALSE}, rec : {Held(c)}, live : {live, after}, clean : {FALSE}]
  BY <1>1, <1>2, <1>5 DEF TypeOK, Outcomes, Sound
<1> QED BY <1>3, <1>4, <1>5 DEF DeleteSession

-----------------------------------------------------------------------------
\* The session record and the BMC after an outcome, and the count of failed logins.
LEMMA UpdateFacts ==
  ASSUME TypeOK, DisabledHoldsNothing, NEW c \in Clients, NEW o \in Outcomes, Sound(o.rec),
         Update(c, o)
  PROVE  /\ disabled' \in [Clients -> BOOLEAN]
         /\ id' \in [Clients -> Sessions \cup {NoSession}]
         /\ token' \in [Clients -> Sessions \cup {NoSession}]
         /\ live' \subseteq Sessions
         /\ faulty' \in BOOLEAN
         /\ \A d \in Clients : d # c => disabled'[d] = disabled[d] /\ id'[d] = id[d] /\ token'[d] = token[d]
         /\ id'[c] = o.rec.id /\ token'[c] = o.rec.token
         /\ DisabledHoldsNothing'
<1>1. /\ o.rec.disabled \in BOOLEAN
      /\ o.rec.id \in Sessions \cup {NoSession}
      /\ o.rec.token \in Sessions \cup {NoSession}
      /\ o.live \in SUBSET Sessions
      /\ o.clean \in BOOLEAN
  BY DEF Outcomes, Records
<1> QED BY <1>1 DEF TypeOK, DisabledHoldsNothing, Update, Sound

\* What a client holds after an outcome is accounted for when nothing else changed.
LEMMA AccountedUpdate ==
  ASSUME TypeOK, Accounted, NEW c \in Clients, NEW o \in Outcomes, Sound(o.rec), Update(c, o),
         o.clean /\ ~faulty => Clean(o),
         o.clean /\ ~faulty => token[c] \notin o.live \/ o.rec.token = token[c],
         phase'[c] # "absent",
         \A d \in Clients : d # c => phase'[d] = phase[d],
         ~faulty' => c = current' /\ InUse \subseteq {current'}
  PROVE  Accounted'
<1>1. /\ \A d \in Clients : d # c => id'[d] = id[d] /\ token'[d] = token[d]
      /\ id'[c] = o.rec.id /\ token'[c] = o.rec.token
      /\ DisabledHoldsNothing'
  BY UpdateFacts DEF Accounted
<1>2. live' = o.live /\ (~faulty' => ~faulty /\ o.clean)
  BY DEF Update, TypeOK, Outcomes
<1>3. \A d \in Clients : d # c => (d \in InUse' <=> d \in InUse)
  BY DEF InUse
<1>4. OnlyCurrent'
  BY <1>3 DEF OnlyCurrent, InUse
<1>5. Paired'
  BY <1>1, <1>2 DEF Accounted, Paired, Clean
<1>6. NoLeakWithoutFault'
  <2> SUFFICES ASSUME ~faulty', NEW s \in live' PROVE \E d \in InUse' : token'[d] = s
    BY DEF NoLeakWithoutFault
  <2>1. c \in InUse'
    BY DEF InUse
  <2>2. CASE s = o.rec.token
    BY <1>1, <2>1, <2>2
  <2>3. CASE s # o.rec.token
    <3>1. s \in live
      BY <1>2, <2>3 DEF Clean
    <3>2. PICK d \in InUse : token[d] = s
      BY <1>2, <3>1 DEF Accounted, NoLeakWithoutFault
    <3>3. d # c
      BY <1>2, <2>3, <3>2
    <3> QED BY <1>1, <1>3, <3>2, <3>3 DEF InUse
  <2> QED BY <2>2, <2>3
<1> QED BY <1>1, <1>4, <1>5, <1>6 DEF Accounted


-----------------------------------------------------------------------------
\* The steps, one lemma for each kind.

\* A login for a new client, in the map or not.
LEMMA LoginStep ==
  ASSUME TypeOK, Accounted, NEW c \in Clients, NEW rec \in {Blank, Disabled},
         Connect(c, rec) \/ ConnectDropped(c, rec)
  PROVE  TypeOK' /\ Accounted'
<1>1. Sound(rec) /\ rec.id = rec.token
  <2>1. CASE rec = Blank
    BY <2>1 DEF Blank, Sound, Records
  <2>2. CASE rec = Disabled
    BY <2>2 DEF Disabled, Sound, Records
  <2> QED BY <2>1, <2>2
<1>2. PICK o \in CreateSession(rec) :
        \/ Login(c, o) /\ current = NoClient /\ current' = c
        \/ Login(c, [o EXCEPT !.clean = FALSE]) /\ current' = current
  BY DEF Connect, ConnectDropped
<1>3. o \in Outcomes /\ Sound(o.rec) /\ (o.clean => Clean(o))
  BY <1>1, CreateFacts
<1>4. PICK q \in Outcomes :
        /\ q.rec = o.rec /\ q.live = o.live
        /\ q.clean => Clean(q) /\ current = NoClient /\ current' = c
        /\ Login(c, q)
        /\ current' \in Clients \cup {NoClient}
  <2>1. CASE Login(c, o) /\ current = NoClient /\ current' = c
    BY <1>3, <2>1
  <2>2. CASE Login(c, [o EXCEPT !.clean = FALSE]) /\ current' = current
    <3> DEFINE q == [o EXCEPT !.clean = FALSE]
    <3>1. q \in Outcomes /\ q.rec = o.rec /\ q.live = o.live /\ q.clean = FALSE
      BY <1>3 DEF Outcomes
    <3>2. Login(c, q) /\ current' \in Clients \cup {NoClient}
      BY <2>2 DEF TypeOK
    <3> HIDE DEF q
    <3> QED BY <3>1, <3>2
  <2> QED BY <1>2, <2>1, <2>2
<1>5. /\ phase[c] = "absent" /\ phase' = [phase EXCEPT ![c] = "discovering"]
      /\ Update(c, q)
  BY <1>4 DEF Login, Goto
<1>7. TypeOK'
  BY <1>3, <1>4, <1>5, UpdateFacts DEF TypeOK, Phases, Accounted
<1>8. q.clean => token[c] \notin q.live
  BY <1>4, <1>5, NullsAssumption DEF TypeOK, Outcomes
<1>9. ~faulty' => c = current' /\ InUse \subseteq {current'}
  <2>1. ~faulty' => ~faulty /\ q.clean
    BY <1>4, <1>5 DEF Update, TypeOK, Outcomes
  <2> QED BY <2>1, <1>4, NullsAssumption DEF Accounted, OnlyCurrent, InUse
<1>10. phase'[c] # "absent" /\ \A d \in Clients : d # c => phase'[d] = phase[d]
  BY <1>5 DEF TypeOK
<1> QED BY <1>3, <1>4, <1>5, <1>7, <1>8, <1>9, <1>10, AccountedUpdate

\* A scrape begins with a refresh.
LEMMA RefreshStep ==
  ASSUME TypeOK, Accounted, NEW c \in Clients, ScrapeAnswered(c) \/ ScrapeUnanswered(c)
  PROVE  TypeOK' /\ Accounted'
<1>1. PICK o \in Answered(c) \cup Unanswered(c) : Update(c, o)
  BY DEF ScrapeAnswered, ScrapeUnanswered, Scrape
<1>2. /\ phase[c] = "idle" /\ phase' = [phase EXCEPT ![c] = "scraping"]
      /\ current' = current
  BY DEF ScrapeAnswered, ScrapeUnanswered, Scrape, Goto
<1>3. /\ o \in Outcomes /\ Sound(o.rec)
      /\ o = Keep(c) \/ ((token[c] \notin live \/ id[c] = NoSession) /\ (o.clean => Clean(o)))
  BY RefreshFacts DEF Accounted
<1>4. TypeOK'
  BY <1>1, <1>2, <1>3, UpdateFacts DEF TypeOK, Phases, Accounted
<1>5. ~faulty => id[c] = token[c] /\ c = current
  BY <1>2 DEF Accounted, Paired, OnlyCurrent, InUse
<1>6. o.clean /\ ~faulty => Clean(o) /\ (token[c] \notin o.live \/ o.rec.token = token[c])
  <2>1. CASE o = Keep(c)
    BY <1>5, <2>1 DEF Keep, Held, Clean
  <2>2. CASE (token[c] \notin live \/ id[c] = NoSession) /\ (o.clean => Clean(o))
    <3>1. ~faulty => token[c] \notin live
      BY <1>5, <2>2, NullsAssumption DEF TypeOK
    <3> QED BY <2>2, <3>1 DEF Clean
  <2> QED BY <1>3, <2>1, <2>2
<1>7. ~faulty' => c = current' /\ InUse \subseteq {current'}
  <2>1. ~faulty' => ~faulty
    BY <1>1 DEF Update, TypeOK
  <2> QED BY <2>1, <1>2, <1>5 DEF Accounted, OnlyCurrent
<1>8. phase'[c] # "absent" /\ \A d \in Clients : d # c => phase'[d] = phase[d]
  BY <1>2 DEF TypeOK
<1> QED BY <1>1, <1>3, <1>4, <1>6, <1>7, <1>8, AccountedUpdate

\* A client goes: after a failed discovery with a logout, else only when it had been
\* dropped by a Reset.
LEMMA GoStep ==
  ASSUME TypeOK, Accounted, NEW c \in Clients, DiscoverFails(c) \/ Release(c)
  PROVE  TypeOK' /\ Accounted'
<1>1. Sound(Blank) /\ Blank.id = NoSession /\ Blank.token = NoSession
  BY DEF Blank, Sound, Records
<1>2. PICK q \in Outcomes :
        /\ Update(c, q)
        /\ q.rec = Blank
        /\ q.clean => q.live = live \ {token[c]} \/ Release(c)
  <2>1. CASE DiscoverFails(c)
    <3>1. PICK o \in DeleteSession(c) : Update(c, [o EXCEPT !.rec = Blank])
      BY <2>1 DEF DiscoverFails
    <3>2. o \in Outcomes /\ (o.clean => o.live = live \ {token[c]})
      BY DeleteFacts DEF Accounted
    <3> DEFINE q == [o EXCEPT !.rec = Blank]
    <3>3. /\ q \in Outcomes /\ q.rec = Blank
          /\ q.clean => q.live = live \ {token[c]}
      BY <1>1, <3>2 DEF Outcomes, Sound
    <3> QED BY <3>1, <3>3
  <2>2. CASE Release(c)
    <3> DEFINE q == [rec |-> Blank, live |-> live, clean |-> TRUE]
               r == [ok |-> TRUE, rec |-> Blank, live |-> live, clean |-> TRUE]
    <3>1. r \in Outcomes
      BY <1>1 DEF Outcomes, Sound, TypeOK
    <3>2. Update(c, r)
      BY <2>2 DEF Release, Update
    <3> QED BY <2>2, <3>1, <3>2
  <2> QED BY <2>1, <2>2
<1>3. /\ phase' = [phase EXCEPT ![c] = "absent"] /\ phase[c] # "absent"
      /\ current' = (IF current = c THEN NoClient ELSE current)
  BY DEF DiscoverFails, Release, Goto
<1>4. /\ \A d \in Clients : d # c => id'[d] = id[d] /\ token'[d] = token[d]
      /\ id'[c] = NoSession /\ token'[c] = NoSession
      /\ DisabledHoldsNothing'
  BY <1>1, <1>2, UpdateFacts DEF Accounted
<1>5. TypeOK'
  BY <1>1, <1>2, <1>3, UpdateFacts DEF TypeOK, Phases, Accounted
<1>6. ~faulty' => ~faulty /\ q.clean /\ live' = q.live
  BY <1>2 DEF Update, TypeOK, Outcomes
<1>7. ~faulty' => InUse = {c} /\ current = c
  BY <1>3, <1>6 DEF Accounted, OnlyCurrent, InUse
<1>8. ~faulty' => live' = {}
  <2>1. ~faulty' => live \subseteq {token[c]}
    BY <1>6, <1>7 DEF Accounted, NoLeakWithoutFault
  <2>2. ~faulty' => q.live = live \ {token[c]}
    BY <1>2, <1>6, <1>7 DEF Release
  <2> QED BY <1>6, <2>1, <2>2
<1>9. OnlyCurrent'
  BY <1>3, <1>7 DEF OnlyCurrent, InUse, TypeOK
<1>10. Paired'
  BY <1>4, <1>6 DEF Accounted, Paired
<1> QED BY <1>4, <1>5, <1>8, <1>9, <1>10 DEF Accounted, NoLeakWithoutFault

\* The steps that leave every session record alone.
LEMMA QuietStep ==
  ASSUME TypeOK, Accounted,
         UNCHANGED <<disabled, id, token>>, live' \subseteq live,
         TypeOK',
         faulty' \/ (faulty' = faulty /\ current' = current /\ InUse' = InUse)
  PROVE  Accounted'
<1>1. DisabledHoldsNothing' /\ Paired'
  BY DEF Accounted, DisabledHoldsNothing, Paired
<1>2. OnlyCurrent' /\ NoLeakWithoutFault'
  BY DEF Accounted, OnlyCurrent, NoLeakWithoutFault
<1> QED BY <1>1, <1>2 DEF Accounted

LEMMA Step == TypeOK /\ Accounted /\ [Next]_vars => TypeOK' /\ Accounted'
<1> SUFFICES ASSUME TypeOK, Accounted, [Next]_vars PROVE TypeOK' /\ Accounted'
  OBVIOUS
<1>1. CASE UNCHANGED vars
  <2>1. TypeOK' /\ InUse' = InUse
    BY <1>1 DEF vars, TypeOK, InUse
  <2> QED BY <1>1, <2>1, QuietStep DEF vars
<1>2. ASSUME NEW c \in Clients, NEW rec \in {Blank, Disabled}, Connect(c, rec) \/ ConnectDropped(c, rec)
      PROVE  TypeOK' /\ Accounted'
  BY <1>2, LoginStep
<1>3. ASSUME NEW c \in Clients, ScrapeAnswered(c) \/ ScrapeUnanswered(c) PROVE TypeOK' /\ Accounted'
  BY <1>3, RefreshStep
<1>4. ASSUME NEW c \in Clients, DiscoverFails(c) \/ Release(c) PROVE TypeOK' /\ Accounted'
  BY <1>4, GoStep
<1>5. ASSUME NEW c \in Clients, Discover(c) \/ ScrapeBasic(c) \/ EndScrape(c)
      PROVE  TypeOK' /\ Accounted'
  <2>1. /\ UNCHANGED <<disabled, id, token, current, live, faulty>>
        /\ phase[c] # "absent" /\ phase' \in [Clients -> Phases]
        /\ phase'[c] # "absent" /\ \A d \in Clients : d # c => phase'[d] = phase[d]
    BY <1>5 DEF Discover, ScrapeBasic, EndScrape, Goto, TypeOK, Phases
  <2>2. TypeOK' /\ InUse' = InUse
    BY <2>1 DEF TypeOK, InUse
  <2> QED BY <2>1, <2>2, QuietStep
<1>6. ASSUME NEW c \in Clients, Drop(c) PROVE TypeOK' /\ Accounted'
  <2>1. TypeOK'
    BY <1>6 DEF Drop, TypeOK
  <2> QED BY <1>6, <2>1, QuietStep DEF Drop
<1>7. ASSUME NEW s \in Sessions, Expire(s) PROVE TypeOK' /\ Accounted'
  <2>1. TypeOK' /\ InUse' = InUse
    BY <1>7 DEF Expire, TypeOK, InUse
  <2> QED BY <1>7, <2>1, QuietStep DEF Expire
<1> QED BY <1>1, <1>2, <1>3, <1>4, <1>5, <1>6, <1>7 DEF Next, Use

-----------------------------------------------------------------------------
\* The session records, the BMC's sessions and the clients in use agree (Accounted), for
\* any number of clients and sessions and any limit of the BMC.
THEOREM Invariant == SafetySpec => [](TypeOK /\ Accounted)
<1>1. ASSUME Init PROVE TypeOK
  <2>1. disabled \in [Clients -> BOOLEAN] /\ faulty \in BOOLEAN
    BY <1>1, Zenon DEF Init
  <2> QED BY <1>1, <2>1 DEF Init, TypeOK, Phases
<1>2. Init => Accounted
  <2>1. Init => InUse = {} /\ live = {}
    BY DEF Init, InUse
  <2>2. Init => NoLeakWithoutFault /\ OnlyCurrent
    BY <2>1 DEF NoLeakWithoutFault, OnlyCurrent
  <2>3. Init => DisabledHoldsNothing /\ Paired
    BY DEF Init, DisabledHoldsNothing, Paired
  <2> QED BY <2>2, <2>3 DEF Accounted
<1> QED BY <1>1, <1>2, Step, PTL DEF SafetySpec

\* The session record of every client is well typed, and blank when the client is gone.
THEOREM TypeCorrect == SafetySpec => []TypeOK
BY Invariant, PTL

\* A client that gave up on sessions never has a token to send.
THEOREM NothingHeld == SafetySpec => []DisabledHoldsNothing
<1>1. Accounted => DisabledHoldsNothing
  BY DEF Accounted
<1> QED BY <1>1, Invariant, PTL

\* Unless an answer was lost or incomplete, a logout failed, or a Reset dropped a client,
\* every open session belongs to a client in use.
THEOREM NoLeak == SafetySpec => []NoLeakWithoutFault
<1>1. Accounted => NoLeakWithoutFault
  BY DEF Accounted
<1> QED BY <1>1, Invariant, PTL

\* The scrape of a client whose session is open keeps that session and opens no other.
THEOREM Idempotent == SafetySpec => RefreshIdempotent
<1> DEFINE Kept == \A c \in Clients :
             phase[c] = "idle" /\ phase'[c] = "scraping" /\ token[c] \in live /\ id[c] # NoSession
             => token'[c] = token[c] /\ live' = live
<1>1. TypeOK /\ Accounted /\ [Next]_vars => [Kept]_vars
  <2> SUFFICES ASSUME TypeOK, Accounted, Next,
                      NEW c \in Clients, phase[c] = "idle", phase'[c] = "scraping",
                      token[c] \in live, id[c] # NoSession
               PROVE  token'[c] = token[c] /\ live' = live
    OBVIOUS
  <2>1. token[c] # NoSession
    BY NullsAssumption DEF TypeOK
  <2>2. ASSUME NEW d \in Clients, NEW rec, Connect(d, rec) \/ ConnectDropped(d, rec) PROVE FALSE
    BY <2>2 DEF Connect, ConnectDropped, Login, Goto, TypeOK
  <2>3. ASSUME NEW d \in Clients, Discover(d) \/ DiscoverFails(d) \/ EndScrape(d) \/ Release(d) PROVE FALSE
    BY <2>3 DEF Discover, DiscoverFails, EndScrape, Release, Goto, TypeOK
  <2>4. ASSUME NEW d \in Clients, Drop(d) PROVE FALSE
    BY <2>4 DEF Drop
  <2>5. ASSUME NEW s \in Sessions, Expire(s) PROVE FALSE
    BY <2>5 DEF Expire
  <2>6. ASSUME NEW d \in Clients, ScrapeBasic(d) PROVE token'[c] = token[c] /\ live' = live
    BY <2>6 DEF ScrapeBasic
  <2>7. ASSUME NEW d \in Clients, ScrapeAnswered(d) \/ ScrapeUnanswered(d)
        PROVE  token'[c] = token[c] /\ live' = live
    <3>1. d = c
      BY <2>7 DEF ScrapeAnswered, ScrapeUnanswered, Scrape, Goto, TypeOK
    <3>2. PICK o \in Answered(c) \cup Unanswered(c) : Update(c, o)
      BY <2>7, <3>1 DEF ScrapeAnswered, ScrapeUnanswered, Scrape
    <3>3. o = Keep(c)
      BY RefreshFacts DEF Accounted
    <3> QED BY <3>2, <3>3 DEF Update, Keep, Held, TypeOK
  <2> QED BY <2>2, <2>3, <2>4, <2>5, <2>6, <2>7 DEF Next, Use
<1>2. [][Kept]_vars => RefreshIdempotent
  BY DEF RefreshIdempotent
<1> QED BY <1>1, <1>2, Invariant, PTL DEF SafetySpec

\* Clients that have given up on sessions open none, whoever else is told to.
THEOREM GivenUp == SafetySpec => GaveUpForGood
<1>1. ASSUME TypeOK, Accounted, [Next]_vars
      PROVE  [(\A c \in InUse : disabled[c]) /\ ~(\E c \in Clients : Connect(c, Blank) \/ ConnectDropped(c, Blank))
                => live' \subseteq live]_vars
  <2> SUFFICES ASSUME Next, \A c \in InUse : disabled[c],
                      ~(\E c \in Clients : Connect(c, Blank) \/ ConnectDropped(c, Blank))
               PROVE  live' \subseteq live
    BY <1>1 DEF vars
  <2>1. \A o \in CreateSession(Disabled) : o.live = live
    BY DEF CreateSession, Disabled
  <2>2. ASSUME NEW c \in Clients, Connect(c, Disabled) \/ ConnectDropped(c, Disabled)
        PROVE  live' = live
    <3>1. CASE Connect(c, Disabled)
      BY <2>1, <3>1 DEF Connect, Login, Update
    <3>2. CASE ConnectDropped(c, Disabled)
      <4>1. PICK o \in CreateSession(Disabled) : Login(c, [o EXCEPT !.clean = FALSE])
        BY <3>2 DEF ConnectDropped
      <4>2. o = [ok |-> FALSE, rec |-> Disabled, live |-> live, clean |-> TRUE]
        BY <4>1 DEF CreateSession, Disabled
      <4>3. [o EXCEPT !.clean = FALSE].live = live
        BY <4>2
      <4> QED BY <4>1, <4>3 DEF Login, Update
    <3> QED BY <2>2, <3>1, <3>2
  <2>3. ASSUME NEW c \in Clients, DiscoverFails(c) PROVE live' = live
    <3>1. disabled[c]
      BY <2>3 DEF DiscoverFails, Goto, InUse
    <3>2. token[c] = NoSession
      BY <1>1, <3>1 DEF Accounted, DisabledHoldsNothing
    <3>3. DeleteSession(c) = {Keep(c)}
      BY <3>2 DEF DeleteSession
    <3>4. [Keep(c) EXCEPT !.rec = Blank].live = live
      BY DEF Keep
    <3> QED BY <2>3, <3>3, <3>4 DEF DiscoverFails, Update
  <2>4. ASSUME NEW c \in Clients, ScrapeAnswered(c) \/ ScrapeUnanswered(c) PROVE FALSE
    BY <2>4 DEF ScrapeAnswered, ScrapeUnanswered, Scrape, Goto, InUse
  <2>5. ASSUME NEW c \in Clients, Discover(c) \/ ScrapeBasic(c) \/ EndScrape(c) \/ Drop(c) PROVE live' = live
    BY <2>5 DEF Discover, ScrapeBasic, EndScrape, Drop
  <2>6. ASSUME NEW c \in Clients, Release(c) PROVE live' = live
    BY <2>6 DEF Release, Update
  <2>7. ASSUME NEW s \in Sessions, Expire(s) PROVE live' \subseteq live
    BY <2>7 DEF Expire
  <2> QED BY <2>2, <2>3, <2>4, <2>5, <2>6, <2>7 DEF Next, Use
<1> QED BY <1>1, Invariant, PTL DEF SafetySpec, GaveUpForGood
=============================================================================
