--------------------------- MODULE RequestLifecycle ---------------------------
(***************************************************************************)
(* What the queue promises the operator of each request: it waits, is      *)
(* worked on, and comes to rest; only an order of the operator revives it, *)
(* and between two orders it is taken up a bounded number of times.        *)
(*                                                                         *)
(* It says nothing of tables, workers, copies or files; RequestQueue does, *)
(* and RequestQueueLifecycle shows that it implements this.                *)
(***************************************************************************)
EXTENDS Naturals

CONSTANTS
  Requests,   \* the requests that may be submitted
  Budget      \* how often a request is taken up at most after an order

VARIABLES
  phase,   \* "none", "waiting", "working", a status of rest, "gone", or "void"
  tries    \* how often each request was taken up since it was last ordered

vars == <<phase, tries>>

AtRest == {"DOWNLOADED", "NOT_FOUND", "FAILED", "DUPLICATE", "CANCELLED"}
Revivable == AtRest \ {"DOWNLOADED"}

Init ==
  /\ phase = [r \in Requests |-> "none"]
  /\ tries = [r \in Requests |-> 0]

\* One request moves from a phase to another; the count of tries is what it becomes.
Moves(r, from, to, count) ==
  phase[r] \in from /\ phase'[r] \in to /\ tries'[r] = count

\* A submission; a duplicate of a downloaded movie rests at once.
Order(r) == Moves(r, {"none"}, {"waiting", "DUPLICATE"}, 0)

TakeUp(r) == tries[r] < Budget /\ Moves(r, {"waiting"}, {"working"}, tries[r] + 1)

\* A later attempt, or the restart of the program.
PutBack(r) == Moves(r, {"working"}, {"waiting"}, tries[r])

Finish(r) == Moves(r, {"working"}, {"DOWNLOADED", "NOT_FOUND", "FAILED"}, tries[r])

Cancel(r) == Moves(r, {"waiting"}, {"CANCELLED"}, tries[r])

\* The operator's retry, with or without an edited query; it may prove a duplicate.
Reorder(r) == Moves(r, Revivable, {"waiting", "DUPLICATE"}, 0)

Remove(r) == Moves(r, {"waiting", "working"} \cup AtRest, {"gone"}, 0)

\* A call that acted on what it had read too long ago: nothing is promised any more.
Overtake(r) == phase[r] \notin {"none", "gone"} /\ Moves(r, {phase[r]}, {"void"}, 0)

Step(r) ==
  \/ Order(r) \/ TakeUp(r) \/ PutBack(r) \/ Finish(r)
  \/ Cancel(r) \/ Reorder(r) \/ Remove(r) \/ Overtake(r)

\* A batch, or a restart, moves several requests at once.
Next == \A r \in Requests : Step(r) \/ (phase'[r] = phase[r] /\ tries'[r] = tries[r])

Spec == Init /\ [][Next]_vars

=============================================================================
