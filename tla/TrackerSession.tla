--------------------------- MODULE TrackerSession ---------------------------
(***************************************************************************)
(* One tracker client (tracker/client.go): the cookie session all workers  *)
(* share, and the singleflight group that collapses concurrent logins.     *)
(*                                                                         *)
(* Search and FetchTopicDetails have the same course: EnsureSession, fetch *)
(* a page, and if the page is the one a logged-out visitor gets, log in    *)
(* once and fetch it again.  Both parts run a flight of the group, the     *)
(* first under the key "session", the second under "login", so that one of *)
(* each may be in the air at a time.                                       *)
(***************************************************************************)
EXTENDS Naturals, FiniteSets

CONSTANTS
  Callers,      \* calls that can be in progress at a time
  None,         \* no caller
  Credentials,  \* whether the tracker accepts the configured credentials
  MaxCalls,     \* bound on calls
  MaxExpiries,  \* bound on sessions the tracker drops
  MaxFaults     \* bound on requests that fail or are answered by an unclear page

ASSUME SessionAssumption ==
  /\ None \notin Callers
  /\ Credentials \in BOOLEAN
  /\ MaxCalls \in Nat /\ MaxExpiries \in Nat /\ MaxFaults \in Nat

VARIABLES
  session,   \* whether the tracker honours the cookies in the jar
  caller,    \* where each call is
  logins,    \* history: logins accepted since the last session was dropped, by key
  doubts,    \* history: live sessions EnsureSession has doubted since then
  calls, expiries, faults

vars == <<session, caller, logins, doubts, calls, expiries, faults>>

Keys == {"session", "login"}

\* The places of a call that runs a flight of its own.
Aloft == {"check", "post", "verify"}

\* key: the part of the call that is reached; leader: the call whose flight it waits
\* for, itself if it leads.  lost is a history: after the login and before its check, the
\* session was dropped or the page of the check was unclear.
Outcomes == {"none", "results", "login_failed", "error"}
Call == [pc : {"idle", "ask", "wait", "fetch"} \cup Aloft, key : Keys, leader : Callers \cup {None},
         outcome : Outcomes, lost : BOOLEAN]
NoCall == [pc |-> "idle", key |-> "session", leader |-> None, outcome |-> "none", lost |-> FALSE]

Init ==
  /\ session = FALSE
  /\ caller = [c \in Callers |-> NoCall]
  /\ logins = [k \in Keys |-> 0]
  /\ doubts = 0
  /\ calls = 0 /\ expiries = 0 /\ faults = 0

Begin(c) ==
  /\ caller[c].pc = "idle" /\ calls < MaxCalls
  /\ caller' = [caller EXCEPT ![c] = [NoCall EXCEPT !.pc = "ask"]]
  /\ calls' = calls + 1
  /\ UNCHANGED <<session, logins, doubts, expiries, faults>>

\* The call ends; what it returns stays visible until the next one.
Ended(outcome, lost) == [NoCall EXCEPT !.outcome = outcome, !.lost = lost]

----------------------------------------------------------------------------
(* The pages the tracker answers with, as the set of selectors that match. *)

Selectors == {"in", "out"}

LoggedIn(page) == "in" \in page /\ "out" \notin page
LooksLoggedOut(page) == "out" \in page /\ "in" \notin page

\* A page is the one the visitor should get, or one both selectors match or neither
\* does: a notice, an error page behind a status 200.
Answer(page) ==
  \/ page = (IF session THEN {"in"} ELSE {"out"}) /\ UNCHANGED faults
  \/ page \in {{}, Selectors} /\ faults < MaxFaults /\ faults' = faults + 1

----------------------------------------------------------------------------
(* The flights of the group. *)

Leaders(key) == {c \in Callers : caller[c].pc \in Aloft /\ caller[c].key = key}

Lead(c) ==
  caller' = [caller EXCEPT ![c].pc = IF caller[c].key = "session" THEN "check" ELSE "post",
                           ![c].leader = c]

\* Fault, for mutation: without the group every caller flies alone.
DoAlone(c) ==
  /\ caller[c].pc = "ask"
  /\ Lead(c)
  /\ UNCHANGED <<session, logins, doubts, calls, expiries, faults>>

\* logins.Do: the first caller of a key leads a flight, those that come while it is in
\* the air wait for it.
Do(c) ==
  /\ caller[c].pc = "ask"
  /\ IF Leaders(caller[c].key) = {}
     THEN Lead(c)
     ELSE \E d \in Leaders(caller[c].key) :
            caller' = [caller EXCEPT ![c].pc = "wait", ![c].leader = d]
  /\ UNCHANGED <<session, logins, doubts, calls, expiries, faults>>

\* Where a flight with this result leaves one who was on it.
Landed(call, result, lost) ==
  IF result = "ok" THEN [NoCall EXCEPT !.pc = "fetch", !.key = call.key] ELSE Ended(result, lost)

\* Fault, for mutation: only the leader learns that the flight is over.
LandLeaderOnly(c, result, lost) == caller' = [caller EXCEPT ![c] = Landed(@, result, lost)]

\* The flight is over: all who wait for it get its result.
Land(c, result, lost) ==
  caller' = [d \in Callers |->
    IF caller[d].leader = c THEN Landed(caller[d], result, lost) ELSE caller[d]]

\* The first step of EnsureSession.
Check(c) ==
  /\ caller[c].pc = "check"
  /\ \E page \in SUBSET Selectors :
       /\ Answer(page)
       /\ \/ LoggedIn(page) /\ Land(c, "ok", FALSE) /\ UNCHANGED doubts
          \/ /\ ~LoggedIn(page)
             /\ caller' = [caller EXCEPT ![c].pc = "post"]
             /\ doubts' = IF session THEN doubts + 1 ELSE doubts
  /\ UNCHANGED <<session, logins, calls, expiries>>

\* The tracker answers the form with a session, if it accepts the credentials.
Admit(c) ==
  /\ session' = (session \/ Credentials)
  /\ logins' = IF Credentials THEN [logins EXCEPT ![caller[c].key] = @ + 1] ELSE logins

\* performLogin: the form is posted, then isLoggedIn tells whether it helped.
Post(c) ==
  /\ caller[c].pc = "post"
  /\ Admit(c)
  /\ caller' = [caller EXCEPT ![c].pc = "verify"]
  /\ UNCHANGED <<doubts, calls, expiries, faults>>

Verify(c) ==
  /\ caller[c].pc = "verify"
  /\ \E page \in SUBSET Selectors :
       /\ Answer(page)
       /\ IF LoggedIn(page) THEN Land(c, "ok", FALSE)
          ELSE Land(c, "login_failed", caller[c].lost \/ ~LooksLoggedOut(page))
  /\ UNCHANGED <<session, logins, doubts, calls, expiries>>

\* A request of the flight fails, or the leader's context ends: the error is returned to
\* every caller that waits, whatever its own context says.  The cookies of an accepted
\* form are in the jar even if the page it redirects to cannot be had.
FailFlight(c) ==
  /\ caller[c].pc \in Aloft /\ faults < MaxFaults
  /\ Land(c, "error", FALSE)
  /\ faults' = faults + 1
  /\ \/ UNCHANGED <<session, logins>>
     \/ caller[c].pc = "post" /\ Admit(c)
  /\ UNCHANGED <<doubts, calls, expiries>>

----------------------------------------------------------------------------
(* The pages of a call. *)

\* The first page: one of a logged-out visitor leads to a login of its own.
Fetch(c) ==
  /\ caller[c].pc = "fetch" /\ caller[c].key = "session"
  /\ \E page \in SUBSET Selectors :
       /\ Answer(page)
       /\ caller' = [caller EXCEPT ![c] =
            IF LooksLoggedOut(page) THEN [NoCall EXCEPT !.pc = "ask", !.key = "login"]
            ELSE Ended("results", FALSE)]
  /\ UNCHANGED <<session, logins, doubts, calls, expiries>>

\* Fault, for mutation: after the login the old page is looked at again.
RefetchNothing(c) ==
  /\ caller[c].pc = "fetch" /\ caller[c].key = "login"
  /\ caller' = [caller EXCEPT ![c] = Ended("login_failed", caller[c].lost)]
  /\ UNCHANGED <<session, logins, doubts, calls, expiries, faults>>

\* The page once more, after the login.
Refetch(c) ==
  /\ caller[c].pc = "fetch" /\ caller[c].key = "login"
  /\ \E page \in SUBSET Selectors :
       /\ Answer(page)
       /\ caller' = [caller EXCEPT ![c] =
            Ended(IF LooksLoggedOut(page) THEN "login_failed" ELSE "results", caller[c].lost)]
  /\ UNCHANGED <<session, logins, doubts, calls, expiries>>

FailFetch(c) ==
  /\ caller[c].pc = "fetch" /\ faults < MaxFaults
  /\ caller' = [caller EXCEPT ![c] = Ended("error", FALSE)]
  /\ faults' = faults + 1
  /\ UNCHANGED <<session, logins, doubts, calls, expiries>>

CallerStep(c) == Do(c) \/ Check(c) \/ Post(c) \/ Verify(c) \/ Fetch(c) \/ Refetch(c)

----------------------------------------------------------------------------

\* Between a login and the page that shows whether it helped.
Unproven(call) == call.pc = "verify" \/ (call.pc = "fetch" /\ call.key = "login")

\* The tracker drops the session.
Expire ==
  /\ session /\ expiries < MaxExpiries
  /\ session' = FALSE
  /\ expiries' = expiries + 1
  /\ logins' = [k \in Keys |-> 0] /\ doubts' = 0
  /\ caller' = [c \in Callers |-> [caller[c] EXCEPT !.lost = @ \/ Unproven(caller[c])]]
  /\ UNCHANGED <<calls, faults>>

Next ==
  \/ \E c \in Callers : Begin(c) \/ CallerStep(c) \/ FailFlight(c) \/ FailFetch(c)
  \/ Expire

Spec == Init /\ [][Next]_vars

\* Every HTTP request ends, by its timeout or the deadline of its context.
FairSpec == Spec /\ \A c \in Callers : WF_vars(CallerStep(c))

----------------------------------------------------------------------------
(* Properties. *)

\* Whoever runs a flight leads it, whoever waits has a leader that is in the air under the
\* same key, and nobody else is bound to a flight.
Bound(c) ==
  IF caller[c].pc = "wait" THEN caller[c].leader \in Leaders(caller[c].key)
  ELSE caller[c].leader = (IF caller[c].pc \in Aloft THEN c ELSE None)

\* The state of the client, with every call bound to the flight it is on and to no other.
TypeOK ==
  /\ session \in BOOLEAN
  /\ caller \in [Callers -> Call]
  /\ logins \in [Keys -> Nat] /\ doubts \in Nat
  /\ calls \in Nat /\ expiries \in Nat /\ faults \in Nat
  /\ \A c \in Callers : Bound(c)

\* What singleflight buys: however many calls find the session gone, EnsureSession logs in
\* once for it, and again only where the check of a live session met an unclear page.  The
\* "exactly one re-login" of client.go:6-8 does not hold: login has a key of its own and
\* adds logins of its own.
EnsureLogsInOnce == logins["session"] <= 1 + doubts

\* With accepted credentials a call ends in ErrLoginFailed, which handleError takes for
\* permanent, only if the session its login made was dropped before it was used, or the
\* page of the login's check was unclear: the two cases in which ErrLoginFailed does not
\* mean that "the credentials were rejected" (errors.go:15).
NoFalseRejection ==
  Credentials =>
    \A c \in Callers : caller[c].outcome = "login_failed" => caller[c].lost

\* Every call returns: no caller waits for a flight that nobody is left to land.
EveryCallReturns == \A c \in Callers : caller[c].pc # "idle" ~> caller[c].pc = "idle"

=============================================================================
