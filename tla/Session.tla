------------------------------- MODULE Session -------------------------------
(***************************************************************************)
(* The Redfish session of a target's clients (internal/collector/          *)
(* redfish.go) and the sessions the BMC has open.  A client logs in when   *)
(* NewClient makes it, checks its session at the start of every scrape,    *)
(* and gives up on sessions for good when logging in again fails.          *)
(*                                                                         *)
(* A client has one caller at a time (Collector!OneActorPerCollector), so  *)
(* an exchange with the BMC is one step; the BMC may time a session out    *)
(* between any two steps, and an answer may be lost after the BMC acted.   *)
(* After a Reset the old client may still be in use beside the new one.    *)
(***************************************************************************)
EXTENDS Naturals, FiniteSets

CONSTANTS Clients,    \* Client objects of one target; reused when let go
          Sessions,   \* session resources of the BMC
          Limit,      \* how many sessions the BMC allows
          NoClient,
          NoSession   \* the empty string, for an id or a token

ASSUME NullsAssumption == NoClient \notin Clients /\ NoSession \notin Sessions
ASSUME LimitAssumption == Limit \in Nat

VARIABLES disabled,   \* client -> session.disabled
          id,         \* client -> session.id
          token,      \* client -> session.token
          phase,      \* client -> what it is being used for
          current,    \* the client of the collector in the map
          live,       \* the BMC: sessions it has open
          faulty      \* history: an answer was lost or incomplete, a logout failed, or
                      \* Reset dropped a client or the collector it was made for

vars == <<disabled, id, token, phase, current, live, faulty>>

Phases == {"absent", "discovering", "idle", "scraping"}

TypeOK ==
  /\ disabled \in [Clients -> BOOLEAN]
  /\ id \in [Clients -> Sessions \cup {NoSession}]
  /\ token \in [Clients -> Sessions \cup {NoSession}]
  /\ phase \in [Clients -> Phases]
  /\ current \in Clients \cup {NoClient}
  /\ live \subseteq Sessions
  /\ faulty \in BOOLEAN
  /\ \A c \in Clients : phase[c] = "absent" => token[c] = NoSession  \* garbage is blank

Init ==
  /\ disabled = [c \in Clients |-> FALSE]
  /\ id = [c \in Clients |-> NoSession]
  /\ token = [c \in Clients |-> NoSession]
  /\ phase = [c \in Clients |-> "absent"]
  /\ current = NoClient
  /\ live = {}
  /\ faulty = FALSE

-----------------------------------------------------------------------------
\* Exchanges with the BMC.  An outcome is what the Go function returns, the session
\* record it leaves, the BMC's sessions, and whether nothing went wrong on the way.

Held(c)  == [disabled |-> disabled[c], id |-> id[c], token |-> token[c]]
Blank    == [disabled |-> FALSE, id |-> NoSession, token |-> NoSession]

\* DisableSession
Disabled == [disabled |-> TRUE, id |-> NoSession, token |-> NoSession]

\* A session the BMC can open: it is below its limit, and it does not hand out an
\* identity that somebody still holds.
Openable == IF Cardinality(live) < Limit
            THEN Sessions \ (live \cup {id[c] : c \in Clients} \cup {token[c] : c \in Clients})
            ELSE {}

\* A login without a usable answer (lost, an error status, undecodable) leaves the
\* record alone, but the BMC may have opened a session.  When it is the second POST
\* (after a 405) that is lost, sessions are disabled at once.
LoginFailed(rec) ==
  [ok : {FALSE}, rec : {rec, Disabled}, live : {live}, clean : {TRUE}] \cup
  [ok : {FALSE}, rec : {rec, Disabled}, live : {live \cup {s} : s \in Openable}, clean : {FALSE}]

\* A 201 may come without a token header, or without an id in body and Location.
LoginDone(s) ==
  {[ok |-> TRUE, rec |-> [disabled |-> FALSE, id |-> i, token |-> k],
    live |-> live \cup {s}, clean |-> i = s /\ k = s] : i, k \in {s, NoSession}}

CreateSession(rec) ==
  IF rec.disabled THEN {[ok |-> FALSE, rec |-> rec, live |-> live, clean |-> TRUE]}
  ELSE LoginFailed(rec) \cup UNION {LoginDone(s) : s \in Openable}

\* Mutant of Relogin: sessions are disabled, the dead one is not forgotten.
ReloginKeeps(rec) ==
  {[o EXCEPT !.rec.disabled = ~o.ok] : o \in CreateSession(rec)}

\* RefreshSession's reaction to a login that is due: a single failure disables.
Relogin(rec) ==
  {[o EXCEPT !.rec = IF o.ok THEN o.rec ELSE Disabled] : o \in CreateSession(rec)}

Keep(c) == [ok |-> TRUE, rec |-> Held(c), live |-> live, clean |-> TRUE]

\* Mutant of Answered: 401 and 404 are treated as any other status.
AnsweredDeaf(c) == IF token[c] = NoSession THEN Relogin(Held(c)) ELSE {Keep(c)}

\* RefreshSession when the session's own URL was answered with 200, 401 or 404: the
\* last two, which a BMC gives for a session it no longer has, lead to a new login.
\* Without an id the URL is the BMC's front page, which may answer anything.
Answered(c) ==
  IF token[c] = NoSession THEN Relogin(Held(c))
  ELSE (IF token[c] \in live \/ id[c] = NoSession THEN {Keep(c)} ELSE {})
       \cup
       (IF token[c] \notin live \/ id[c] = NoSession THEN Relogin(Held(c)) ELSE {})

\* Mutant of Unanswered: every status other than 200 leads to a new login.
UnansweredRelogin(c) == IF token[c] = NoSession THEN {} ELSE Relogin(Held(c))

\* RefreshSession when there was no answer, or some other status: nothing changes.
Unanswered(c) == IF token[c] = NoSession THEN {} ELSE {Keep(c)}

\* DeleteSession: nothing to do without a token; a failed DELETE keeps the record.
\* Without an id the DELETE goes to the front page and reaches no session.
DeleteSession(c) ==
  LET after == IF id[c] = NoSession THEN live ELSE live \ {token[c]}
  IN  IF token[c] = NoSession THEN {Keep(c)}
      ELSE {[ok |-> TRUE, rec |-> Blank, live |-> after, clean |-> id[c] # NoSession]}
           \cup [ok : {FALSE}, rec : {Held(c)}, live : {live, after}, clean : {FALSE}]

Update(c, o) ==
  /\ disabled' = [disabled EXCEPT ![c] = o.rec.disabled]
  /\ id' = [id EXCEPT ![c] = o.rec.id]
  /\ token' = [token EXCEPT ![c] = o.rec.token]
  /\ live' = o.live
  /\ faulty' = (faulty \/ ~o.clean)

Goto(c, from, to) == phase[c] = from /\ phase' = [phase EXCEPT ![c] = to]

-----------------------------------------------------------------------------
\* NewClient, first half: NewRedfish, for a host with or without basic_auth, then a
\* login.  Failing to log in is no error, discovery then uses basic auth.
Login(c, o) ==
  /\ Goto(c, "absent", "discovering")
  /\ Update(c, o)

\* The client of the collector in the map.
Connect(c, rec) ==
  /\ current = NoClient
  /\ current' = c
  /\ \E o \in CreateSession(rec) : Login(c, o)

\* Requests that waited for a collector when Reset took it out of the map make a
\* client for it as well.
ConnectDropped(c, rec) ==
  /\ \E o \in CreateSession(rec) : Login(c, [o EXCEPT !.clean = FALSE])
  /\ UNCHANGED current

\* NewClient, second half: the endpoints were found ...
Discover(c) ==
  /\ Goto(c, "discovering", "idle")
  /\ UNCHANGED <<disabled, id, token, current, live, faulty>>

\* Mutants of DiscoverFails: no logout; the dropped client keeps its token.
DiscoverFailsOpen(c) ==
  /\ Goto(c, "discovering", "absent")
  /\ current' = IF current = c THEN NoClient ELSE current
  /\ Update(c, [rec |-> Blank, live |-> live, clean |-> TRUE])

DiscoverFailsKept(c) ==
  /\ Goto(c, "discovering", "absent")
  /\ current' = IF current = c THEN NoClient ELSE current
  /\ \E o \in DeleteSession(c) : Update(c, o)

\* ... or not: log out and drop the client.
DiscoverFails(c) ==
  /\ Goto(c, "discovering", "absent")
  /\ current' = IF current = c THEN NoClient ELSE current
  /\ \E o \in DeleteSession(c) : Update(c, [o EXCEPT !.rec = Blank])

\* Collect starts with RefreshSession; what follows only reads the token.
Scrape(c, outcomes) ==
  /\ ~disabled[c]
  /\ Goto(c, "idle", "scraping")
  /\ \E o \in outcomes : Update(c, o)
  /\ UNCHANGED current

ScrapeAnswered(c)   == Scrape(c, Answered(c))
ScrapeUnanswered(c) == Scrape(c, Unanswered(c))

\* Mutant of ScrapeBasic: every scrape gives sessions another try.
ScrapeBasicRetry(c) ==
  /\ disabled[c]
  /\ Goto(c, "idle", "scraping")
  /\ \E o \in Relogin(Blank) : Update(c, o)
  /\ UNCHANGED current

ScrapeBasic(c) ==
  /\ disabled[c]
  /\ Goto(c, "idle", "scraping")
  /\ UNCHANGED <<disabled, id, token, current, live, faulty>>

EndScrape(c) ==
  /\ Goto(c, "scraping", "idle")
  /\ UNCHANGED <<disabled, id, token, current, live, faulty>>

\* Reset removes the collector from the map, with no word to the BMC.
Drop(c) ==
  /\ current = c
  /\ current' = NoClient
  /\ faulty' = TRUE
  /\ UNCHANGED <<disabled, id, token, phase, live>>

\* The last request that used a dropped client is gone; so is the client.
Release(c) ==
  /\ current # c
  /\ Goto(c, "idle", "absent")
  /\ Update(c, [rec |-> Blank, live |-> live, clean |-> TRUE])
  /\ UNCHANGED current

\* The BMC's idle timeout, or its restart for all sessions in turn.
Expire(s) ==
  /\ s \in live
  /\ live' = live \ {s}
  /\ UNCHANGED <<disabled, id, token, phase, current, faulty>>

-----------------------------------------------------------------------------
Use(c) ==
  \/ Discover(c) \/ DiscoverFails(c)
  \/ ScrapeAnswered(c) \/ ScrapeUnanswered(c) \/ ScrapeBasic(c) \/ EndScrape(c)

Next ==
  \/ \E c \in Clients, rec \in {Blank, Disabled} : Connect(c, rec) \/ ConnectDropped(c, rec)
  \/ \E c \in Clients : Use(c) \/ Drop(c) \/ Release(c)
  \/ \E s \in Sessions : Expire(s)

SafetySpec == Init /\ [][Next]_vars

\* The snapshot loop scrapes every configured host again and again, so the client in
\* the map is always used.  Of the BMC it is assumed that it answers a refresh
\* sooner or later; nothing is assumed about what it answers.
Fairness ==
  \A c \in Clients :
    /\ WF_vars(current = c /\ Use(c))
    /\ SF_vars(current = c /\ ScrapeAnswered(c))

Spec == SafetySpec /\ Fairness

-----------------------------------------------------------------------------
\* Properties

InUse == {c \in Clients : phase[c] # "absent"}

\* A client that gave up on sessions holds no remains of one, so Get and Exists
\* send basic credentials and never a dead token.
DisabledHoldsNothing ==
  \A c \in Clients : disabled[c] => id[c] = NoSession /\ token[c] = NoSession

\* A session is left open on the BMC with no client to close it only through a
\* fault (see `faulty'): a failed discovery logs out, and a refresh never logs in
\* beside a session that is still open.
NoLeakWithoutFault ==
  ~faulty => live \subseteq {token[c] : c \in InUse}

\* "Session creation/refresh stays idempotent": the scrape of a client whose
\* session is open neither replaces that session nor opens another.
RefreshIdempotent ==
  [][\A c \in Clients :
       phase[c] = "idle" /\ phase'[c] = "scraping" /\ token[c] \in live /\ id[c] # NoSession
       => token'[c] = token[c] /\ live' = live]_vars

\* When every client of a target has given up on sessions, no session is opened any
\* more, however often they are scraped, unless a client is made for a host that
\* is not configured for basic auth.
GaveUpForGood ==
  [][(\A c \in InUse : disabled[c]) /\ ~(\E c \in Clients : Connect(c, Blank) \/ ConnectDropped(c, Blank))
       => live' \subseteq live]_vars

\* "A 401/404 on refresh recreates the session": a client in the map does not keep
\* a session that the BMC has closed, unless the BMC never gave it an id to check.
DeadSessionNoticed ==
  \A c \in Clients :
    current = c /\ token[c] \notin live /\ token[c] # NoSession /\ id[c] # NoSession
      ~> current # c \/ token[c] \in live \/ token[c] = NoSession \/ id[c] = NoSession

\* What makes NoLeakWithoutFault inductive: without a fault the only client is the one
\* in the map, and the id it has belongs to its token.
OnlyCurrent == ~faulty => InUse \subseteq {current}

Paired == ~faulty => \A c \in Clients : id[c] = token[c]

Accounted ==
  /\ DisabledHoldsNothing
  /\ NoLeakWithoutFault
  /\ OnlyCurrent
  /\ Paired
=============================================================================
