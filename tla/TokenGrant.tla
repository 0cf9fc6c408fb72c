------------------------------ MODULE TokenGrant ------------------------------
(***************************************************************************)
(* The trakt grant (trakt/tokensource.go, oauth.go, jellyfin/): a pair of  *)
(* access and refresh token that lives in the configuration document of    *)
(* the jellyfin trakt plugin.  The service and the plugin both renew it,   *)
(* and each renewal retires the pair it was bought with.                   *)
(*                                                                         *)
(* A pair is the number of its renewal, so that trakt honours exactly the  *)
(* pair `live`.  Pairs grow old in that order.                             *)
(***************************************************************************)
EXTENDS Naturals

CONSTANTS
  MaxPairs,    \* bound on pairs issued
  MaxRelinks,  \* bound on authorizations by the operator
  MaxEdits,    \* bound on edits of the plugin's settings
  MaxCrashes,  \* bound on crashes of the service
  MaxFaults    \* bound on failed or unanswered HTTP requests

ASSUME GrantAssumption ==
  /\ MaxPairs \in Nat \ {0, 1}
  /\ MaxRelinks \in Nat /\ MaxEdits \in Nat /\ MaxCrashes \in Nat /\ MaxFaults \in Nat

VARIABLES
  live,       \* the pair trakt honours
  age,        \* pairs up to this one are past the expiry recorded for them
  doc,        \* the plugin's document
  pending,    \* the pair the service holds because it could not store it
  sync,       \* the pass in progress
  mishap,     \* history: the live pair was issued to no one, or besides a held one
  clobbered,  \* history: a save replaced a document edited since it was read
  relinks, edits, crashes, faults

vars == <<live, age, doc, pending, sync, mishap, clobbered, relinks, edits, crashes, faults>>
counters == <<relinks, edits, crashes, faults>>

NoPair == 0
Pairs == 1 .. MaxPairs

\* dated: the document's expiry can be read.  setting: all else it holds.
Document == [pair : Pairs, dated : BOOLEAN, setting : 0 .. MaxEdits]
NoDocument == [pair |-> NoPair, dated |-> FALSE, setting |-> 0]

\* token is the access token the pass was given last, doc the document Refresh read,
\* retried that trakt has refused a token of this pass.
\* overtaken and edited are histories of what was done to the document since then.
Idle == [pc |-> "idle", token |-> NoPair, doc |-> NoDocument, retried |-> FALSE,
         overtaken |-> FALSE, edited |-> FALSE]
Pass == [pc : {"idle", "refresh", "oauth", "save", "collect"}, token : {NoPair} \cup Pairs,
         doc : Document \cup {NoDocument}, retried : BOOLEAN, overtaken : BOOLEAN, edited : BOOLEAN]

Init ==
  /\ live = 1 /\ age = 0
  /\ doc \in [pair : {1}, dated : BOOLEAN, setting : {0}]
  /\ pending = NoPair
  /\ sync = Idle
  /\ mishap = FALSE /\ clobbered = FALSE
  /\ relinks = 0 /\ edits = 0 /\ crashes = 0 /\ faults = 0

Fresh(pair) == pair > age

\* Fault, for mutation: the expiry of the new pair is not written.
SetTokensUndated(d, pair) == [d EXCEPT !.pair = pair, !.dated = FALSE]

\* Fault, for mutation: the document is rebuilt from the fields the service knows.
SetTokensOnly(d, pair) == [pair |-> pair, dated |-> TRUE, setting |-> 0]

SetTokens(d, pair) == [d EXCEPT !.pair = pair, !.dated = TRUE]

\* Fault, for mutation: the document's pair is taken for the live one.
OverlayNothing(d) == d

\* Refresh starts from the held pair, if there is one.
Overlay(d) == IF pending = NoPair THEN d ELSE SetTokens(d, pending)

----------------------------------------------------------------------------
(* The service. *)

CollectWith(pair) == sync' = [sync EXCEPT !.pc = "collect", !.token = pair, !.doc = NoDocument,
                                          !.overtaken = FALSE, !.edited = FALSE]
GiveUp == sync' = Idle

Fail == faults < MaxFaults /\ faults' = faults + 1 /\ UNCHANGED <<relinks, edits, crashes>>

\* A pass starts with TokenSource.Token, which reads the document.
Token ==
  /\ sync.pc = "idle"
  /\ sync' = [Idle EXCEPT !.pc = IF doc.dated /\ ~Fresh(doc.pair) THEN "refresh" ELSE "collect",
                          !.token = doc.pair]
  /\ UNCHANGED <<live, age, doc, pending, mishap, clobbered, counters>>

\* The pass reads the watchlist. Trakt refuses a retired token, and may refuse one past
\* its recorded expiry; after the first refusal the pass tries a renewed one.
Collect ==
  /\ sync.pc = "collect"
  /\ \/ sync.token = live /\ GiveUp
     \/ /\ sync.token # live \/ ~Fresh(sync.token)
        /\ IF sync.retried THEN GiveUp
           ELSE sync' = [sync EXCEPT !.pc = "refresh", !.retried = TRUE]
  /\ UNCHANGED <<live, age, doc, pending, mishap, clobbered, counters>>

\* A pair newer than the refused one needs no renewal.
Renewed(d) == d.pair # sync.token /\ d.dated /\ Fresh(d.pair)

\* Fault, for mutation: the held pair is used and never stored.
RefreshWithoutStoring ==
  /\ sync.pc = "refresh"
  /\ LET d == Overlay(doc) IN
     IF Renewed(d) THEN CollectWith(d.pair) ELSE sync' = [sync EXCEPT !.pc = "oauth", !.doc = d]
  /\ UNCHANGED <<live, age, doc, pending, mishap, clobbered, counters>>

\* Refresh, up to the request it makes next: the document is read again.
Refresh ==
  /\ sync.pc = "refresh"
  /\ LET d == Overlay(doc) IN
     IF Renewed(d) /\ pending = NoPair
     THEN CollectWith(d.pair)
     ELSE sync' = [sync EXCEPT !.pc = IF Renewed(d) THEN "save" ELSE "oauth", !.doc = d]
  /\ UNCHANGED <<live, age, doc, pending, mishap, clobbered, counters>>

\* OAuth.Refresh: trakt answers 4xx to a retired refresh token (and, at the bound, to
\* any).
OAuthRefresh ==
  /\ sync.pc = "oauth"
  /\ IF sync.doc.pair = live /\ live < MaxPairs
     THEN /\ live' = live + 1
          /\ sync' = [sync EXCEPT !.pc = "save", !.doc = SetTokens(@, live + 1)]
     ELSE GiveUp /\ UNCHANGED live
  /\ UNCHANGED <<age, doc, pending, mishap, clobbered, counters>>

\* The answer to OAuth.Refresh is lost on its way: the new pair is issued to no one.
LoseIssued ==
  /\ sync.pc = "oauth" /\ sync.doc.pair = live /\ live < MaxPairs
  /\ live' = live + 1
  /\ mishap' = TRUE
  /\ GiveUp /\ Fail
  /\ UNCHANGED <<age, doc, pending, clobbered>>

\* SaveTraktConfig replaces the whole document.
Replace ==
  /\ doc' = sync.doc
  /\ clobbered' = (clobbered \/ sync.edited)

Store ==
  /\ sync.pc = "save"
  /\ Replace
  /\ pending' = NoPair
  /\ CollectWith(sync.doc.pair)
  /\ UNCHANGED <<live, age, mishap, counters>>

\* Fault, for mutation: a pair that could not be stored is forgotten.
HoldNothing == pending' = NoPair

\* What store does when the save fails.
Hold == pending' = sync.doc.pair

\* The save fails, or is carried out and its answer lost: the same to the service.
FailStore ==
  /\ sync.pc = "save"
  /\ Hold
  /\ Replace \/ UNCHANGED <<doc, clobbered>>
  /\ CollectWith(sync.doc.pair)
  /\ Fail
  /\ UNCHANGED <<live, age, mishap>>

\* Another request of the pass fails before it has any effect, or shutdown ends it.
FailPass ==
  /\ sync.pc \in {"refresh", "oauth", "collect"}
  /\ GiveUp /\ Fail
  /\ UNCHANGED <<live, age, doc, pending, mishap, clobbered>>

\* The process ends and starts again; pending is lost.
Crash ==
  /\ crashes < MaxCrashes
  /\ crashes' = crashes + 1
  /\ sync' = Idle /\ pending' = NoPair
  /\ mishap' = (doc.pair # live)
  /\ UNCHANGED <<live, age, doc, clobbered, relinks, edits, faults>>

ServiceStep == Token \/ Collect \/ Refresh \/ OAuthRefresh \/ Store

----------------------------------------------------------------------------
(* The plugin, its operator and time. *)

Holds == pending # NoPair \/ sync.pc = "save"

\* The plugin gets a pair of its own and writes it into the document.
Obtain(dated) ==
  /\ live < MaxPairs
  /\ live' = live + 1
  /\ doc' = [doc EXCEPT !.pair = live + 1, !.dated = dated]
  /\ sync' = [sync EXCEPT !.overtaken = sync.doc # NoDocument]
  /\ mishap' = Holds

PluginRefresh ==
  /\ doc.pair = live
  /\ Obtain(TRUE)
  /\ UNCHANGED <<age, pending, clobbered, counters>>

\* The operator authorizes the plugin anew: the grant of before is gone.
Relink ==
  /\ relinks < MaxRelinks
  /\ relinks' = relinks + 1
  /\ \E dated \in BOOLEAN : Obtain(dated)
  /\ UNCHANGED <<age, pending, clobbered, edits, crashes, faults>>

EditSetting ==
  /\ edits < MaxEdits
  /\ edits' = edits + 1
  /\ doc' = [doc EXCEPT !.setting = edits + 1]
  /\ sync' = [sync EXCEPT !.edited = sync.doc # NoDocument]
  /\ UNCHANGED <<live, age, pending, mishap, clobbered, relinks, crashes, faults>>

\* The last pair of the bound stays fresh, as nothing could follow it.
GrowOld ==
  /\ age < live /\ age + 1 < MaxPairs
  /\ age' = age + 1
  /\ UNCHANGED <<live, doc, pending, sync, mishap, clobbered, counters>>

Next ==
  \/ ServiceStep \/ LoseIssued \/ FailStore \/ FailPass \/ Crash
  \/ PluginRefresh \/ Relink \/ EditSetting \/ GrowOld

Spec == Init /\ [][Next]_vars

\* The ticker starts a pass at every interval, and each HTTP request of it ends, by its
\* answer or its timeout.
FairSpec == Spec /\ WF_vars(ServiceStep)

----------------------------------------------------------------------------
(* Properties. *)

\* What is kept where, and that every document about to be sent records an expiry, so
\* that the plugin and the next pass know how long its pair lasts (SetTokens, store).
TypeOK ==
  /\ live \in Pairs /\ age \in 0 .. live
  /\ doc \in Document /\ doc.pair <= live
  /\ pending \in 0 .. live
  /\ sync \in Pass
  /\ sync.pc \in {"idle", "refresh", "collect"} <=> sync.doc = NoDocument
  /\ sync.pc = "save" => sync.doc.dated
  /\ mishap \in BOOLEAN /\ clobbered \in BOOLEAN

\* The pair trakt honours is in the document, held, or about to be saved: the service
\* alone, whatever saves fail, never loses the grant (Refresh, store).
GrantKept ==
  mishap \/ live \in {doc.pair, pending} \/ (sync.pc = "save" /\ sync.doc.pair = live)

\* A renewal starts from the live pair, unless the plugin was quicker after the document
\* was read (Refresh: "every later refresh has to start from it").
RefreshStartsFromLive ==
  sync.pc = "oauth" => sync.doc.pair = live \/ sync.overtaken \/ mishap

\* A save, first or repeated after a failure, keeps what the operator has set in the
\* plugin, unless it was set between the read and the save (TraktConfig, SetTokens).
SettingsSurvive == clobbered \/ doc.setting = edits

\* A pair that could not be stored gets into the document in the end, by a later pass or
\* as the pair it was renewed to (store: "retrying on the next sync").
HeldPairStored ==
  pending # NoPair ~> doc.pair = live \/ mishap

=============================================================================
