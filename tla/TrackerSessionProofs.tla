------------------------ MODULE TrackerSessionProofs ------------------------
(***************************************************************************)
(* Proofs about the cookie session all workers share: the client's state,  *)
(* what a rejected login tells, and how often EnsureSession logs in.       *)
(***************************************************************************)
EXTENDS TrackerSession, TLAPS

\* Where the session made by an accepted login is not there when it is looked for, it
\* has been dropped in between.
LossSeen ==
  Credentials =>
    /\ \A c \in Callers : Unproven(caller[c]) /\ ~session => caller[c].lost
    /\ NoFalseRejection

\* Singleflight: a key has one flight in the air.
OneFlight ==
  \A c, d \in Callers :
    caller[c].pc \in Aloft /\ caller[d].pc \in Aloft /\ caller[c].key = caller[d].key => c = d

\* A flight of EnsureSession is about to post the form.
Posting == \E c \in Callers : caller[c].pc = "post" /\ caller[c].key = "session"

\* A session that is there has been logged in for once, not counting the doubts; the flight
\* that is about to log in again has doubted it, or saw that it was not there yet.
Accounted ==
  /\ ~session => logins["session"] = 0
  /\ session => logins["session"] <= 1 + doubts
  /\ session /\ Posting => logins["session"] <= doubts

SessionInv == TypeOK /\ LossSeen /\ OneFlight /\ Accounted

----------------------------------------------------------------------------
(* What the parts of an action do. *)

\* A page that shows a session is served to one, a clear page without one is not; and
\* whatever is served, the count of faults stays one.
LEMMA PagesTell ==
  ASSUME TypeOK, NEW page \in SUBSET Selectors, Answer(page)
  PROVE  /\ LoggedIn(page) => session
         /\ LooksLoggedOut(page) => ~session
         /\ faults' \in Nat
<1>1. CASE page = (IF session THEN {"in"} ELSE {"out"}) /\ UNCHANGED faults
  BY <1>1 DEF TypeOK, LoggedIn, LooksLoggedOut
<1>2. CASE page \in {{}, Selectors} /\ faults' = faults + 1
  BY <1>2 DEF TypeOK, LoggedIn, LooksLoggedOut, Selectors
<1> QED
  BY <1>1, <1>2 DEF Answer

LEMMA EndedIsCall ==
  ASSUME NEW outcome \in Outcomes, NEW lost \in BOOLEAN
  PROVE  /\ Ended(outcome, lost) \in Call
         /\ Ended(outcome, lost).pc = "idle" /\ Ended(outcome, lost).leader = None
         /\ Ended(outcome, lost).outcome = outcome /\ Ended(outcome, lost).lost = lost
<1> DEFINE ended == [NoCall EXCEPT !.outcome = outcome]
<1>1. NoCall \in Call /\ NoCall.pc = "idle" /\ NoCall.leader = None
  BY DEF NoCall, Call, Outcomes, Keys
<1>2. ended \in Call /\ ended.pc = "idle" /\ ended.leader = None /\ ended.outcome = outcome
  BY <1>1 DEF Call
<1>3. Ended(outcome, lost) = [ended EXCEPT !.lost = lost]
  BY DEF Ended, NoCall
<1> HIDE DEF ended
<1> QED
  BY <1>2, <1>3 DEF Call

\* A call that is on no flight moves to a place where it is on none: the flights, and what
\* is accounted for them, stay as they are.
LEMMA BesideFlights ==
  ASSUME SessionInv, UNCHANGED <<session, logins, doubts>>,
         calls' \in Nat, expiries' \in Nat, faults' \in Nat,
         NEW c \in Callers, NEW call \in Call, caller' = [caller EXCEPT ![c] = call],
         caller[c].pc \in {"idle", "fetch"}, call.pc \in {"idle", "ask"}, call.leader = None,
         Credentials /\ call.outcome = "login_failed" => call.lost
  PROVE  SessionInv'
<1>1. /\ caller \in [Callers -> Call] /\ caller' \in [Callers -> Call]
      /\ caller'[c] = call /\ \A d \in Callers \ {c} : caller'[d] = caller[d]
  BY DEF SessionInv, TypeOK
<1>2. \A d \in Callers : caller'[d].pc \in Aloft <=> caller[d].pc \in Aloft
  BY <1>1 DEF Aloft
<1>3. \A d \in Callers : caller'[d].pc \in Aloft \cup {"wait"} => caller'[d] = caller[d]
  BY <1>1 DEF Aloft
<1>4. ASSUME NEW d \in Callers PROVE Bound(d)'
  <2>1. Bound(d)
    BY DEF SessionInv, TypeOK
  <2>2. CASE d = c
    BY <1>1, <2>2 DEF Bound, Aloft
  <2>3. CASE d # c
    <3>1. \A key \in Keys : Leaders(key)' = Leaders(key)
      BY <1>1, <1>2, <1>3 DEF Leaders, Aloft
    <3>2. caller'[d] = caller[d] /\ caller[d].key \in Keys
      BY <1>1, <2>3 DEF Call
    <3> QED
      BY <2>1, <3>1, <3>2 DEF Bound
  <2> QED
    BY <2>2, <2>3
<1>5. TypeOK'
  BY <1>1, <1>4 DEF SessionInv, TypeOK
<1>6. LossSeen'
  BY <1>1 DEF SessionInv, LossSeen, NoFalseRejection, Unproven
<1>7. OneFlight'
  BY <1>3 DEF SessionInv, OneFlight
<1>8. Posting' => Posting
  BY <1>3 DEF Posting, Aloft
<1>9. Accounted'
  BY <1>8 DEF SessionInv, Accounted
<1> QED
  BY <1>5, <1>6, <1>7, <1>9 DEF SessionInv

----------------------------------------------------------------------------
(* The pages of a call. *)

LEMMA BeginKeeps ==
  ASSUME SessionInv, NEW c \in Callers, Begin(c)
  PROVE  SessionInv'
<1> DEFINE call == [NoCall EXCEPT !.pc = "ask"]
<1>1. /\ caller' = [caller EXCEPT ![c] = call] /\ caller[c].pc = "idle" /\ calls' = calls + 1
      /\ UNCHANGED <<session, logins, doubts, expiries, faults>>
  BY DEF Begin
<1>2. call \in Call /\ call.pc = "ask" /\ call.leader = None /\ call.outcome = "none"
  BY DEF NoCall, Call, Outcomes, Keys
<1>3. calls' \in Nat /\ expiries' \in Nat /\ faults' \in Nat
  BY <1>1 DEF SessionInv, TypeOK
<1> HIDE DEF call
<1> QED
  BY <1>1, <1>2, <1>3, BesideFlights

LEMMA FetchKeeps ==
  ASSUME SessionInv, NEW c \in Callers, Fetch(c)
  PROVE  SessionInv'
<1>1. PICK page \in SUBSET Selectors :
        /\ Answer(page)
        /\ caller' = [caller EXCEPT ![c] =
             IF LooksLoggedOut(page) THEN [NoCall EXCEPT !.pc = "ask", !.key = "login"]
             ELSE Ended("results", FALSE)]
  BY DEF Fetch
<1>2. /\ caller[c].pc = "fetch" /\ UNCHANGED <<session, logins, doubts, calls, expiries>>
      /\ calls \in Nat /\ expiries \in Nat
  BY DEF Fetch, SessionInv, TypeOK
<1>3. faults' \in Nat
  BY <1>1, PagesTell DEF SessionInv
<1>4. CASE LooksLoggedOut(page)
  <2> DEFINE call == [NoCall EXCEPT !.pc = "ask", !.key = "login"]
  <2>1. call \in Call /\ call.pc = "ask" /\ call.leader = None /\ call.outcome = "none"
    BY DEF NoCall, Call, Outcomes, Keys
  <2>2. caller' = [caller EXCEPT ![c] = call]
    BY <1>1, <1>4
  <2> HIDE DEF call
  <2> QED
    BY <1>2, <1>3, <2>1, <2>2, BesideFlights
<1>5. CASE ~LooksLoggedOut(page)
  <2>1. caller' = [caller EXCEPT ![c] = Ended("results", FALSE)]
    BY <1>1, <1>5
  <2>2. /\ Ended("results", FALSE) \in Call /\ Ended("results", FALSE).pc = "idle"
        /\ Ended("results", FALSE).leader = None /\ Ended("results", FALSE).outcome = "results"
    BY EndedIsCall DEF Outcomes
  <2> QED
    BY <1>2, <1>3, <2>1, <2>2, BesideFlights
<1> QED
  BY <1>4, <1>5

\* The page that the own login did not help is a lost session's.
LEMMA RefetchKeeps ==
  ASSUME SessionInv, NEW c \in Callers, Refetch(c)
  PROVE  SessionInv'
<1>1. PICK page \in SUBSET Selectors :
        /\ Answer(page)
        /\ caller' = [caller EXCEPT ![c] =
             Ended(IF LooksLoggedOut(page) THEN "login_failed" ELSE "results", caller[c].lost)]
  BY DEF Refetch
<1>2. /\ caller[c].pc = "fetch" /\ caller[c].key = "login"
      /\ UNCHANGED <<session, logins, doubts, calls, expiries>>
      /\ calls \in Nat /\ expiries \in Nat /\ caller[c] \in Call
  BY DEF Refetch, SessionInv, TypeOK
<1>3. faults' \in Nat /\ (LooksLoggedOut(page) => ~session)
  BY <1>1, PagesTell DEF SessionInv
<1> DEFINE outcome == IF LooksLoggedOut(page) THEN "login_failed" ELSE "results"
           lost == caller[c].lost
<1>4. outcome \in Outcomes /\ lost \in BOOLEAN /\ (outcome = "login_failed" => ~session)
  BY <1>2, <1>3 DEF Outcomes, Call
<1>5. Credentials /\ ~session => lost
  BY <1>2 DEF SessionInv, LossSeen, Unproven
<1>6. caller' = [caller EXCEPT ![c] = Ended(outcome, lost)]
  BY <1>1
<1> HIDE DEF outcome, lost
<1>7. /\ Ended(outcome, lost) \in Call /\ Ended(outcome, lost).pc = "idle"
      /\ Ended(outcome, lost).leader = None
      /\ Ended(outcome, lost).outcome = outcome /\ Ended(outcome, lost).lost = lost
  BY <1>4, EndedIsCall
<1> QED
  BY <1>2, <1>3, <1>4, <1>5, <1>6, <1>7, BesideFlights

LEMMA FailFetchKeeps ==
  ASSUME SessionInv, NEW c \in Callers, FailFetch(c)
  PROVE  SessionInv'
<1>1. /\ caller' = [caller EXCEPT ![c] = Ended("error", FALSE)] /\ caller[c].pc = "fetch"
      /\ faults' = faults + 1 /\ UNCHANGED <<session, logins, doubts, calls, expiries>>
  BY DEF FailFetch
<1>2. /\ Ended("error", FALSE) \in Call /\ Ended("error", FALSE).pc = "idle"
      /\ Ended("error", FALSE).leader = None /\ Ended("error", FALSE).outcome = "error"
  BY EndedIsCall DEF Outcomes
<1>3. calls' \in Nat /\ expiries' \in Nat /\ faults' \in Nat
  BY <1>1 DEF SessionInv, TypeOK
<1> QED
  BY <1>1, <1>2, <1>3, BesideFlights

----------------------------------------------------------------------------
(* The flights. *)

\* A call starts a flight under a key that has none, or joins the one that is there.
LEMMA DoKeeps ==
  ASSUME SessionInv, NEW c \in Callers, Do(c)
  PROVE  SessionInv'
<1> DEFINE key == caller[c].key
<1>1. /\ caller[c].pc = "ask" /\ UNCHANGED <<session, logins, doubts, calls, expiries, faults>>
      /\ IF Leaders(key) = {} THEN Lead(c)
         ELSE \E d \in Leaders(key) : caller' = [caller EXCEPT ![c].pc = "wait", ![c].leader = d]
  BY DEF Do
<1>2. caller \in [Callers -> Call] /\ caller[c] \in Call /\ key \in Keys
  BY DEF SessionInv, TypeOK, Call
<1>3. PICK pc \in Aloft \cup {"wait"}, leader \in Callers :
        /\ caller' = [caller EXCEPT ![c].pc = pc, ![c].leader = leader]
        /\ \/ pc = "wait" /\ leader \in Leaders(key)
           \/ /\ leader = c /\ Leaders(key) = {}
              /\ pc = IF key = "session" THEN "check" ELSE "post"
  <2>1. CASE Leaders(key) = {}
    <3>1. caller' = [caller EXCEPT ![c].pc = IF key = "session" THEN "check" ELSE "post",
                                   ![c].leader = c]
      BY <1>1, <2>1 DEF Lead
    <3> QED
      BY <2>1, <3>1 DEF Aloft
  <2>2. CASE Leaders(key) # {}
    <3>1. PICK d \in Leaders(key) : caller' = [caller EXCEPT ![c].pc = "wait", ![c].leader = d]
      BY <1>1, <2>2
    <3>2. d \in Callers
      BY DEF Leaders
    <3> QED
      BY <3>1, <3>2
  <2> QED
    BY <2>1, <2>2
<1> DEFINE moved == [caller[c] EXCEPT !.pc = pc]
<1>4. /\ moved \in Call /\ moved.pc = pc /\ moved.key = key
      /\ moved.outcome = caller[c].outcome /\ moved.lost = caller[c].lost
  BY <1>2 DEF Call, Aloft
<1>5. caller' = [caller EXCEPT ![c] = [moved EXCEPT !.leader = leader]]
  BY <1>2, <1>3
<1> HIDE DEF moved
<1>6. /\ caller' \in [Callers -> Call]
      /\ caller'[c].pc = pc /\ caller'[c].key = key /\ caller'[c].leader = leader
      /\ caller'[c].outcome = caller[c].outcome /\ caller'[c].lost = caller[c].lost
      /\ \A d \in Callers \ {c} : caller'[d] = caller[d]
  BY <1>2, <1>4, <1>5 DEF Call
<1>7. c \notin Leaders(key)
  BY <1>1 DEF Leaders, Aloft
<1>8. \A d \in Callers : caller[d].pc \in Aloft => caller'[d] = caller[d]
  BY <1>1, <1>6 DEF Aloft
<1>9. ASSUME NEW d \in Callers PROVE Bound(d)'
  <2>1. Bound(d)
    BY DEF SessionInv, TypeOK
  <2>2. \A k \in Keys : Leaders(k) \subseteq Leaders(k)'
    BY <1>8 DEF Leaders
  <2>3. CASE d = c
    BY <1>2, <1>3, <1>6, <2>2, <2>3 DEF Bound, Aloft
  <2>4. CASE d # c
    <3>1. caller'[d] = caller[d] /\ caller[d].key \in Keys
      BY <1>2, <1>6, <2>4 DEF Call
    <3> QED
      BY <2>1, <2>2, <3>1 DEF Bound
  <2> QED
    BY <2>3, <2>4
<1>10. TypeOK'
  BY <1>1, <1>6, <1>9 DEF SessionInv, TypeOK
<1>11. pc # "verify" /\ pc # "fetch" /\ (pc = "post" => key # "session")
  BY <1>3 DEF Aloft
<1>12. LossSeen'
  BY <1>1, <1>6, <1>11 DEF SessionInv, LossSeen, NoFalseRejection, Unproven
<1>13. OneFlight'
  <2> SUFFICES ASSUME NEW d \in Callers, NEW e \in Callers, d # e,
                      caller'[d].pc \in Aloft, caller'[e].pc \in Aloft, caller'[d].key = caller'[e].key
               PROVE  FALSE
    BY DEF OneFlight
  <2>1. CASE d # c /\ e # c
    BY <1>6, <2>1 DEF SessionInv, OneFlight
  <2>2. CASE d = c \/ e = c
    <3>1. PICK f \in Callers \ {c} : caller[f].pc \in Aloft /\ caller[f].key = key
      BY <1>6, <2>2
    <3>2. f \in Leaders(key) /\ pc \in Aloft
      BY <1>6, <2>2, <3>1 DEF Leaders
    <3> QED
      BY <1>3, <3>2 DEF Aloft
  <2> QED
    BY <2>1, <2>2
<1>14. Posting' => Posting
  BY <1>6, <1>11 DEF Posting
<1>15. Accounted'
  BY <1>1, <1>14 DEF SessionInv, Accounted
<1> QED
  BY <1>10, <1>12, <1>13, <1>15 DEF SessionInv

\* A flight in the air moves on under its leader.
LEMMA FlightMoves ==
  ASSUME SessionInv, NEW c \in Callers, NEW pc \in {"post", "verify"},
         caller[c].pc \in Aloft, caller' = [caller EXCEPT ![c].pc = pc]
  PROVE  /\ caller' \in [Callers -> Call]
         /\ caller'[c].pc = pc /\ caller'[c].key = caller[c].key
         /\ caller'[c].outcome = caller[c].outcome /\ caller'[c].lost = caller[c].lost
         /\ \A d \in Callers \ {c} : caller'[d] = caller[d]
         /\ (\A d \in Callers : Bound(d))'
         /\ OneFlight'
<1>1. /\ caller \in [Callers -> Call] /\ caller' \in [Callers -> Call]
      /\ caller'[c].pc = pc /\ caller'[c].key = caller[c].key /\ caller'[c].leader = caller[c].leader
      /\ caller'[c].outcome = caller[c].outcome /\ caller'[c].lost = caller[c].lost
      /\ \A d \in Callers \ {c} : caller'[d] = caller[d]
  BY DEF SessionInv, TypeOK, Call, Aloft
<1>2. \A d \in Callers : /\ caller'[d].pc \in Aloft <=> caller[d].pc \in Aloft
                         /\ caller'[d].pc = "wait" <=> caller[d].pc = "wait"
                         /\ caller'[d].key = caller[d].key /\ caller'[d].leader = caller[d].leader
  BY <1>1 DEF Aloft
<1>3. \A k \in Keys : Leaders(k)' = Leaders(k)
  BY <1>2 DEF Leaders
<1>4. ASSUME NEW d \in Callers PROVE Bound(d)'
  <2>1. Bound(d) /\ caller[d].key \in Keys
    BY <1>1 DEF SessionInv, TypeOK, Call
  <2> QED
    BY <1>2, <1>3, <2>1 DEF Bound
<1>5. OneFlight'
  BY <1>2 DEF SessionInv, OneFlight
<1> QED
  BY <1>1, <1>4, <1>5

\* A landing takes all who waited off the flight, and nobody else.
LEMMA LandMoves ==
  ASSUME SessionInv, NEW c \in Callers, caller[c].pc \in Aloft,
         NEW result \in {"ok", "login_failed", "error"}, NEW lost \in BOOLEAN,
         Land(c, result, lost)
  PROVE  /\ caller' \in [Callers -> Call]
         /\ \A d \in Callers :
              \/ caller'[d] = caller[d] /\ d # c
              \/ result = "ok" /\ caller'[d].pc = "fetch" /\ caller'[d].outcome = "none"
              \/ /\ result # "ok" /\ caller'[d].pc = "idle"
                 /\ caller'[d].outcome = result /\ caller'[d].lost = lost
         /\ (\A d \in Callers : Bound(d))'
         /\ OneFlight'
<1>1. /\ caller \in [Callers -> Call]
      /\ \A d \in Callers : Bound(d) /\ caller[d].key \in Keys
      /\ caller[c].leader = c
  BY DEF SessionInv, TypeOK, Call, Bound, Aloft
<1>2. ASSUME NEW d \in Callers, caller[d].leader = c
      PROVE  /\ caller'[d] \in Call /\ caller'[d].leader = None
             /\ \/ result = "ok" /\ caller'[d].pc = "fetch" /\ caller'[d].outcome = "none"
                \/ /\ result # "ok" /\ caller'[d].pc = "idle"
                   /\ caller'[d].outcome = result /\ caller'[d].lost = lost
  <2>1. caller'[d] = Landed(caller[d], result, lost)
    BY <1>2 DEF Land
  <2>2. CASE result = "ok"
    <3>1. caller'[d] = [NoCall EXCEPT !.pc = "fetch", !.key = caller[d].key]
      BY <2>1, <2>2 DEF Landed
    <3>2. caller[d].key \in Keys
      BY <1>1
    <3>3. /\ caller'[d] \in Call /\ caller'[d].pc = "fetch"
          /\ caller'[d].leader = None /\ caller'[d].outcome = "none"
      BY <3>1, <3>2 DEF NoCall, Call, Outcomes
    <3> QED
      BY <2>2, <3>3
  <2>3. CASE result # "ok"
    <3>1. caller'[d] = Ended(result, lost) /\ result \in Outcomes
      BY <2>1, <2>3 DEF Landed, Outcomes
    <3> QED
      BY <2>3, <3>1, EndedIsCall
  <2> QED
    BY <2>2, <2>3
<1>3. ASSUME NEW d \in Callers, caller[d].leader # c
      PROVE  caller'[d] = caller[d] /\ d # c
  BY <1>1, <1>3 DEF Land
<1>4. caller' \in [Callers -> Call]
  <2>1. caller' = [d \in Callers |-> caller'[d]]
    BY DEF Land
  <2>2. \A d \in Callers : caller'[d] \in Call
    BY <1>1, <1>2, <1>3
  <2> QED
    BY <2>1, <2>2
<1>5. \A d \in Callers : caller'[d].pc \in Aloft \cup {"wait"} => caller[d].leader # c
  BY <1>2 DEF Aloft
<1>6. ASSUME NEW d \in Callers PROVE Bound(d)'
  <2>1. CASE caller[d].leader = c
    BY <1>2, <2>1 DEF Bound, Aloft
  <2>2. CASE caller[d].leader # c
    <3>1. caller'[d] = caller[d] /\ Bound(d) /\ caller[d].key \in Keys
      BY <1>1, <1>3, <2>2
    <3>2. CASE caller[d].pc = "wait"
      <4> DEFINE e == caller[d].leader
      <4>1. e \in Leaders(caller[d].key) /\ e # c
        BY <2>2, <3>1, <3>2 DEF Bound
      <4>2. e \in Callers /\ caller[e].pc \in Aloft /\ caller[e].key = caller[d].key
        BY <4>1 DEF Leaders
      <4>3. caller[e].leader = e
        BY <1>1, <4>2 DEF Bound, Aloft
      <4>4. caller'[e] = caller[e]
        BY <1>3, <4>1, <4>2, <4>3
      <4>5. e \in Leaders(caller[d].key)'
        BY <3>1, <4>2, <4>4 DEF Leaders
      <4> QED
        BY <3>1, <3>2, <4>5 DEF Bound
    <3>3. CASE caller[d].pc # "wait"
      BY <3>1, <3>3 DEF Bound
    <3> QED
      BY <3>2, <3>3
  <2> QED
    BY <2>1, <2>2
<1>7. OneFlight'
  BY <1>3, <1>5 DEF SessionInv, OneFlight
<1> QED
  BY <1>2, <1>3, <1>4, <1>6, <1>7

\* A flight stops posting, and nobody starts: an admitted login of EnsureSession is the
\* first since the session was dropped, or is accounted for by a doubt.
LEMMA AdmitAccounts ==
  ASSUME SessionInv, NEW c \in Callers, caller[c].pc = "post", Admit(c), UNCHANGED doubts,
         \A d \in Callers : caller'[d].pc = "post" => caller'[d] = caller[d] /\ d # c
  PROVE  session' \in BOOLEAN /\ (session => session') /\ logins' \in [Keys -> Nat] /\ Accounted'
<1>1. /\ session \in BOOLEAN /\ logins \in [Keys -> Nat] /\ doubts \in Nat /\ "session" \in Keys
      /\ Credentials \in BOOLEAN
  BY SessionAssumption DEF SessionInv, TypeOK, Keys, SessionAssumption
<1>2. caller[c].key \in Keys
  BY DEF SessionInv, TypeOK, Call
<1>3. Posting' => Posting
  BY DEF Posting
<1>4. CASE ~Credentials
  <2>1. session' = session /\ logins' = logins
    BY <1>1, <1>4 DEF Admit
  <2> QED
    BY <1>1, <1>3, <2>1 DEF SessionInv, Accounted
<1>5. CASE Credentials
  <2>1. session' = TRUE /\ logins' = [logins EXCEPT ![caller[c].key] = @ + 1]
    BY <1>5 DEF Admit
  <2>2. logins' \in [Keys -> Nat]
    BY <1>1, <1>2, <2>1
  <2>3. CASE caller[c].key = "session"
    <3>1. logins'["session"] = logins["session"] + 1
      BY <1>1, <2>1, <2>3
    <3>2. ~Posting'
      <4> SUFFICES ASSUME NEW d \in Callers, caller'[d].pc = "post", caller'[d].key = "session"
                   PROVE  FALSE
        BY DEF Posting
      <4>1. caller[d].pc = "post" /\ caller[d].key = "session" /\ d # c
        OBVIOUS
      <4> QED
        BY <2>3, <4>1 DEF SessionInv, OneFlight, Aloft
    <3>3. Posting
      BY <2>3 DEF Posting
    <3>4. logins["session"] <= doubts
      BY <1>1, <3>3 DEF SessionInv, Accounted
    <3> QED
      BY <1>1, <2>1, <2>2, <3>1, <3>2, <3>4 DEF Accounted
  <2>4. CASE caller[c].key # "session"
    <3>1. logins'["session"] = logins["session"]
      BY <1>1, <1>2, <2>1, <2>4
    <3>2. logins["session"] \in Nat
      BY <1>1
    <3>3. logins["session"] <= 1 + doubts /\ (Posting => logins["session"] <= doubts)
      BY <1>1, <3>2 DEF SessionInv, Accounted
    <3> QED
      BY <1>3, <2>1, <2>2, <3>1, <3>3 DEF Accounted
  <2> QED
    BY <2>3, <2>4
<1> QED
  BY <1>1, <1>4, <1>5

\* The rest of the invariant where a flight lands: with a live session if its result is
\* good, and with a loss or an unclear page if accepted credentials are refused.
LEMMA LandKeeps ==
  ASSUME SessionInv, NEW c \in Callers, caller[c].pc \in Aloft,
         NEW result \in {"ok", "login_failed", "error"}, NEW lost \in BOOLEAN,
         Land(c, result, lost),
         \/ UNCHANGED <<session, logins>>
         \/ caller[c].pc = "post" /\ Admit(c),
         result = "ok" => session,
         Credentials /\ result = "login_failed" => lost,
         UNCHANGED doubts, calls' \in Nat, expiries' \in Nat, faults' \in Nat
  PROVE  SessionInv'
<1>1. /\ caller' \in [Callers -> Call]
      /\ \A d \in Callers :
           \/ caller'[d] = caller[d] /\ d # c
           \/ result = "ok" /\ caller'[d].pc = "fetch" /\ caller'[d].outcome = "none"
           \/ /\ result # "ok" /\ caller'[d].pc = "idle"
              /\ caller'[d].outcome = result /\ caller'[d].lost = lost
      /\ (\A d \in Callers : Bound(d))'
      /\ OneFlight'
  BY LandMoves
<1>2. \A d \in Callers : caller'[d].pc = "post" => caller'[d] = caller[d] /\ d # c
  BY <1>1
<1>3. session' \in BOOLEAN /\ (session => session') /\ logins' \in [Keys -> Nat] /\ Accounted'
  <2>1. CASE UNCHANGED <<session, logins>>
    <3>1. Posting' => Posting
      BY <1>2 DEF Posting
    <3> QED
      BY <2>1, <3>1 DEF SessionInv, TypeOK, Accounted
  <2>2. CASE caller[c].pc = "post" /\ Admit(c)
    BY <1>2, <2>2, AdmitAccounts
  <2> QED
    BY <2>1, <2>2
<1>4. TypeOK'
  BY <1>1, <1>3 DEF SessionInv, TypeOK
<1>5. LossSeen'
  <2> SUFFICES ASSUME Credentials PROVE LossSeen'
    BY DEF LossSeen
  <2>1. \A d \in Callers : Unproven(caller'[d]) /\ ~session' => caller'[d].lost
    <3> SUFFICES ASSUME NEW d \in Callers, Unproven(caller'[d]), ~session'
                 PROVE  caller'[d].lost
      OBVIOUS
    <3>1. ~session
      BY <1>3
    <3>2. caller'[d] = caller[d]
      BY <1>1, <3>1 DEF Unproven
    <3> QED
      BY <3>1, <3>2 DEF SessionInv, LossSeen
  <2>2. \A d \in Callers : caller'[d].outcome = "login_failed" => caller'[d].lost
    BY <1>1 DEF SessionInv, LossSeen, NoFalseRejection
  <2> QED
    BY <2>1, <2>2 DEF LossSeen, NoFalseRejection
<1> QED
  BY <1>1, <1>3, <1>4, <1>5 DEF SessionInv

\* The check ends the flight, or sends it to log in: with a session that is gone, or one
\* that it doubts.
LEMMA CheckKeeps ==
  ASSUME SessionInv, NEW c \in Callers, Check(c)
  PROVE  SessionInv'
<1>1. PICK page \in SUBSET Selectors :
        /\ Answer(page)
        /\ \/ LoggedIn(page) /\ Land(c, "ok", FALSE) /\ UNCHANGED doubts
           \/ /\ ~LoggedIn(page)
              /\ caller' = [caller EXCEPT ![c].pc = "post"]
              /\ doubts' = IF session THEN doubts + 1 ELSE doubts
  BY DEF Check
<1>2. /\ caller[c].pc = "check" /\ UNCHANGED <<session, logins, calls, expiries>>
      /\ calls \in Nat /\ expiries \in Nat /\ caller[c].pc \in Aloft
  BY DEF Check, SessionInv, TypeOK, Aloft
<1>3. faults' \in Nat /\ (LoggedIn(page) => session)
  BY <1>1, PagesTell DEF SessionInv
<1>4. CASE LoggedIn(page)
  <2>1. Land(c, "ok", FALSE) /\ UNCHANGED doubts
    BY <1>1, <1>4
  <2> QED
    BY <1>2, <1>3, <1>4, <2>1, LandKeeps
<1>5. CASE ~LoggedIn(page)
  <2>1. /\ caller' = [caller EXCEPT ![c].pc = "post"]
        /\ doubts' = IF session THEN doubts + 1 ELSE doubts
    BY <1>1, <1>5
  <2>2. /\ caller' \in [Callers -> Call] /\ caller'[c].pc = "post"
        /\ caller'[c].outcome = caller[c].outcome /\ caller'[c].lost = caller[c].lost
        /\ \A d \in Callers \ {c} : caller'[d] = caller[d]
        /\ (\A d \in Callers : Bound(d))'
        /\ OneFlight'
    BY <1>2, <2>1, FlightMoves
  <2>3. session \in BOOLEAN /\ doubts \in Nat /\ logins["session"] \in Nat
    BY DEF SessionInv, TypeOK, Keys
  <2>4. doubts' \in Nat /\ (session => doubts' = doubts + 1)
    BY <2>1, <2>3
  <2>5. TypeOK'
    BY <1>2, <1>3, <2>2, <2>4 DEF SessionInv, TypeOK
  <2>6. LossSeen'
    BY <1>2, <2>2 DEF SessionInv, LossSeen, NoFalseRejection, Unproven
  <2>7. Accounted'
    <3>1. CASE session
      <4>1. logins["session"] <= 1 + doubts
        BY <3>1 DEF SessionInv, Accounted
      <4> QED
        BY <1>2, <2>3, <2>4, <3>1, <4>1 DEF Accounted
    <3>2. CASE ~session
      BY <1>2, <3>2 DEF SessionInv, Accounted
    <3> QED
      BY <3>1, <3>2
  <2> QED
    BY <2>2, <2>5, <2>6, <2>7 DEF SessionInv
<1> QED
  BY <1>4, <1>5

LEMMA PostKeeps ==
  ASSUME SessionInv, NEW c \in Callers, Post(c)
  PROVE  SessionInv'
<1>1. /\ caller[c].pc = "post" /\ caller[c].pc \in Aloft /\ Admit(c)
      /\ caller' = [caller EXCEPT ![c].pc = "verify"]
      /\ UNCHANGED <<doubts, calls, expiries, faults>>
  BY DEF Post, Aloft
<1>2. /\ caller' \in [Callers -> Call] /\ caller'[c].pc = "verify"
      /\ caller'[c].outcome = caller[c].outcome /\ caller'[c].lost = caller[c].lost
      /\ \A d \in Callers \ {c} : caller'[d] = caller[d]
      /\ (\A d \in Callers : Bound(d))'
      /\ OneFlight'
  BY <1>1, FlightMoves
<1>3. \A d \in Callers : caller'[d].pc = "post" => caller'[d] = caller[d] /\ d # c
  BY <1>2
<1>4. session' \in BOOLEAN /\ (session => session') /\ logins' \in [Keys -> Nat] /\ Accounted'
  BY <1>1, <1>3, AdmitAccounts
<1>5. TypeOK'
  BY <1>1, <1>2, <1>4 DEF SessionInv, TypeOK
<1>6. LossSeen'
  <2> SUFFICES ASSUME Credentials PROVE LossSeen'
    BY DEF LossSeen
  <2>1. session'
    BY <1>1 DEF Admit
  <2> QED
    BY <1>2, <2>1 DEF SessionInv, LossSeen, NoFalseRejection
<1> QED
  BY <1>2, <1>4, <1>5, <1>6 DEF SessionInv

LEMMA VerifyKeeps ==
  ASSUME SessionInv, NEW c \in Callers, Verify(c)
  PROVE  SessionInv'
<1>1. PICK page \in SUBSET Selectors :
        /\ Answer(page)
        /\ IF LoggedIn(page) THEN Land(c, "ok", FALSE)
           ELSE Land(c, "login_failed", caller[c].lost \/ ~LooksLoggedOut(page))
  BY DEF Verify
<1>2. /\ caller[c].pc = "verify" /\ UNCHANGED <<session, logins, doubts, calls, expiries>>
      /\ calls \in Nat /\ expiries \in Nat /\ caller[c].pc \in Aloft
  BY DEF Verify, SessionInv, TypeOK, Aloft
<1>3. faults' \in Nat /\ (LoggedIn(page) => session) /\ (LooksLoggedOut(page) => ~session)
  BY <1>1, PagesTell DEF SessionInv
<1>4. CASE LoggedIn(page)
  <2>1. Land(c, "ok", FALSE)
    BY <1>1, <1>4
  <2> QED
    BY <1>2, <1>3, <1>4, <2>1, LandKeeps
<1>5. CASE ~LoggedIn(page)
  <2> DEFINE lost == caller[c].lost \/ ~LooksLoggedOut(page)
  <2>1. Land(c, "login_failed", lost) /\ lost \in BOOLEAN
    BY <1>1, <1>5
  <2>2. Credentials => lost
    BY <1>2, <1>3 DEF SessionInv, LossSeen, Unproven
  <2> HIDE DEF lost
  <2> QED
    BY <1>2, <1>3, <2>1, <2>2, LandKeeps
<1> QED
  BY <1>4, <1>5

LEMMA FailFlightKeeps ==
  ASSUME SessionInv, NEW c \in Callers, FailFlight(c)
  PROVE  SessionInv'
<1>1. /\ caller[c].pc \in Aloft /\ Land(c, "error", FALSE) /\ faults' = faults + 1
      /\ \/ UNCHANGED <<session, logins>>
         \/ caller[c].pc = "post" /\ Admit(c)
      /\ UNCHANGED <<doubts, calls, expiries>>
  BY DEF FailFlight
<1>2. calls' \in Nat /\ expiries' \in Nat /\ faults' \in Nat
  BY <1>1 DEF SessionInv, TypeOK
<1> QED
  BY <1>1, <1>2, LandKeeps

\* The drop of a session is remembered where a login has been accepted and not yet used.
LEMMA ExpireKeeps ==
  ASSUME SessionInv, Expire
  PROVE  SessionInv'
<1>1. /\ session' = FALSE /\ expiries' = expiries + 1 /\ doubts' = 0 /\ UNCHANGED <<calls, faults>>
      /\ logins' = [k \in Keys |-> 0]
      /\ caller' = [c \in Callers |-> [caller[c] EXCEPT !.lost = @ \/ Unproven(caller[c])]]
  BY DEF Expire
<1>2. caller \in [Callers -> Call] /\ calls \in Nat /\ expiries \in Nat /\ faults \in Nat
  BY DEF SessionInv, TypeOK
<1>3. ASSUME NEW c \in Callers
      PROVE  /\ caller'[c] \in Call /\ caller'[c].pc = caller[c].pc
             /\ caller'[c].key = caller[c].key /\ caller'[c].leader = caller[c].leader
             /\ caller'[c].outcome = caller[c].outcome
             /\ caller'[c].lost = (caller[c].lost \/ Unproven(caller[c]))
  <2> DEFINE lost == caller[c].lost \/ Unproven(caller[c])
  <2>1. caller'[c] = [caller[c] EXCEPT !.lost = lost] /\ lost \in BOOLEAN
    BY <1>1
  <2> HIDE DEF lost
  <2>2. /\ caller'[c] \in Call /\ caller'[c].pc = caller[c].pc
        /\ caller'[c].key = caller[c].key /\ caller'[c].leader = caller[c].leader
        /\ caller'[c].outcome = caller[c].outcome /\ caller'[c].lost = lost
    BY <1>2, <2>1 DEF Call
  <2> QED
    BY <2>2 DEF lost
<1>4. \A key \in Keys : Leaders(key)' = Leaders(key)
  BY <1>3 DEF Leaders
<1>5. ASSUME NEW c \in Callers PROVE Bound(c)'
  <2>1. Bound(c) /\ caller[c].key \in Keys
    BY <1>2 DEF SessionInv, TypeOK, Call
  <2> QED
    BY <1>3, <1>4, <2>1 DEF Bound
<1>6. TypeOK'
  <2>1. caller' \in [Callers -> Call]
    BY <1>1, <1>3
  <2>2. session' \in BOOLEAN
    BY <1>1
  <2>3. logins' \in [Keys -> Nat] /\ doubts' \in Nat /\ calls' \in Nat /\ expiries' \in Nat /\ faults' \in Nat
    BY <1>1, <1>2
  <2> QED
    BY <1>5, <2>1, <2>2, <2>3 DEF TypeOK
<1>7. LossSeen'
  <2> SUFFICES ASSUME Credentials PROVE LossSeen'
    BY DEF LossSeen
  <2>1. \A c \in Callers : Unproven(caller'[c]) => caller'[c].lost
    BY <1>3 DEF Unproven
  <2>2. \A c \in Callers : caller'[c].outcome = "login_failed" => caller'[c].lost
    BY <1>3 DEF SessionInv, LossSeen, NoFalseRejection
  <2> QED
    BY <2>1, <2>2 DEF LossSeen, NoFalseRejection
<1>8. OneFlight'
  BY <1>3 DEF SessionInv, OneFlight
<1>9. Accounted'
  BY <1>1 DEF Accounted, Keys
<1> QED
  BY <1>6, <1>7, <1>8, <1>9 DEF SessionInv

----------------------------------------------------------------------------
(* The theorems. *)

LEMMA SessionInit == Init => SessionInv
<1> SUFFICES ASSUME Init PROVE SessionInv
  OBVIOUS
<1>1. NoCall \in Call /\ NoCall.pc = "idle" /\ NoCall.leader = None /\ NoCall.outcome = "none"
  BY DEF NoCall, Call, Outcomes, Keys
<1>2. TypeOK
  BY <1>1 DEF Init, TypeOK, Bound, Aloft
<1>3. LossSeen
  BY <1>1 DEF Init, LossSeen, NoFalseRejection, Unproven
<1>4. OneFlight
  BY <1>1 DEF Init, OneFlight, Aloft
<1>5. Accounted
  BY DEF Init, Accounted, Keys
<1> QED
  BY <1>2, <1>3, <1>4, <1>5 DEF SessionInv

LEMMA SessionStep == SessionInv /\ [Next]_vars => SessionInv'
<1> SUFFICES ASSUME SessionInv, [Next]_vars PROVE SessionInv'
  OBVIOUS
<1>1. CASE UNCHANGED vars
  <2>1. TypeOK'
    BY <1>1 DEF vars, SessionInv, TypeOK, Bound, Leaders
  <2>2. LossSeen'
    BY <1>1 DEF vars, SessionInv, LossSeen, NoFalseRejection
  <2>3. OneFlight'
    BY <1>1 DEF vars, SessionInv, OneFlight
  <2>4. Accounted'
    BY <1>1 DEF vars, SessionInv, Accounted, Posting
  <2> QED
    BY <2>1, <2>2, <2>3, <2>4 DEF SessionInv
<1>2. ASSUME NEW c \in Callers, Begin(c) \/ CallerStep(c) \/ FailFlight(c) \/ FailFetch(c)
      PROVE  SessionInv'
  <2>1. CASE CallerStep(c)
    BY <2>1, DoKeeps, CheckKeeps, PostKeeps, VerifyKeeps, FetchKeeps, RefetchKeeps DEF CallerStep
  <2>2. CASE Begin(c) \/ FailFlight(c) \/ FailFetch(c)
    BY <2>2, BeginKeeps, FailFlightKeeps, FailFetchKeeps
  <2> QED
    BY <1>2, <2>1, <2>2
<1>3. CASE Expire
  BY <1>3, ExpireKeeps
<1> QED
  BY <1>1, <1>2, <1>3 DEF Next

LEMMA SessionAlways == Spec => []SessionInv
BY SessionInit, SessionStep, PTL DEF Spec

\* Whatever calls are in the air, whoever waits for a flight has a leader that is on it,
\* under the same key.
THEOREM SessionTypes == Spec => []TypeOK
<1>1. SessionInv => TypeOK
  BY DEF SessionInv
<1> QED
  BY <1>1, SessionAlways, PTL

\* With accepted credentials the permanent verdict ErrLoginFailed is never given for
\* another reason than a session dropped under the call or an unclear page.
THEOREM RejectionIsLoss == Spec => []NoFalseRejection
<1>1. SessionInv /\ Credentials \in BOOLEAN => NoFalseRejection
  BY DEF SessionInv, LossSeen, NoFalseRejection
<1> QED
  BY <1>1, SessionAlways, SessionAssumption, PTL DEF SessionAssumption

\* However many calls there are, and however they interleave, EnsureSession logs in once
\* for a session that is gone, and once more for each live one it doubts.
THEOREM LoginsBounded == Spec => []EnsureLogsInOnce
<1>1. SessionInv => EnsureLogsInOnce
  <2> SUFFICES ASSUME SessionInv PROVE EnsureLogsInOnce
    OBVIOUS
  <2>1. session \in BOOLEAN /\ doubts \in Nat
    BY DEF SessionInv, TypeOK
  <2> QED
    BY <2>1 DEF SessionInv, Accounted, EnsureLogsInOnce
<1> QED
  BY <1>1, SessionAlways, PTL

=============================================================================
