------------------------ MODULE RequestQueueLifecycle ------------------------
(***************************************************************************)
(* RequestQueue implements RequestLifecycle: the refinement mapping.       *)
(***************************************************************************)
EXTENDS RequestQueue

PhaseOf(row) ==
  CASE row.status = "FRESH" -> "none"
    [] row.status = "QUEUED" -> "waiting"
    [] row.status \in InFlight -> "working"
    [] row.status = "DELETED" -> "gone"
    [] OTHER -> row.status

\* A row overwritten on an outdated check is void, and so is one deleted after that.
Phase == [r \in Requests |-> IF r \in raced THEN "void" ELSE PhaseOf(rows[r])]

Tries == [r \in Requests |-> IF r \in raced THEN 0 ELSE rows[r].attempt]

Lifecycle == INSTANCE RequestLifecycle
             WITH phase <- Phase, tries <- Tries, Budget <- MaxAttempts + MaxStops

\* Every step of the workers, calls, handlers and restarts is, for each request, a step of
\* its life as the operator knows it (model.go, Status) or none: statuses follow one
\* another only in that order, and no request is taken up more often than its budget
\* of attempts, plus one per restart, unless a call overwrote it on an outdated check.
ImplementsLifecycle == Lifecycle!Spec

=============================================================================
