--------------------------- MODULE TokenGrantProofs ---------------------------
(* The service alone never loses the grant, nor a setting of the plugin.     *)
EXTENDS TokenGrant, TLAPS

LEMMA SetTokensType ==
  ASSUME NEW d \in Document \cup {NoDocument}, NEW pair \in Pairs, d # NoDocument
  PROVE  /\ SetTokens(d, pair) \in Document
         /\ SetTokens(d, pair).pair = pair
         /\ SetTokens(d, pair).dated
         /\ SetTokens(d, pair).setting = d.setting
BY DEF SetTokens, Document

LEMMA DocumentRead == NoDocument \notin Document
BY DEF NoDocument, Document, Pairs, NoPair

LEMMA OverlayType ==
  ASSUME TypeOK
  PROVE  /\ Overlay(doc) \in Document /\ Overlay(doc) # NoDocument
         /\ Overlay(doc).pair = IF pending = NoPair THEN doc.pair ELSE pending
         /\ Overlay(doc).pair <= live
         /\ pending # NoPair => Overlay(doc).dated
         /\ Overlay(doc).setting = doc.setting
<1>1. doc \in Document /\ doc # NoDocument /\ doc.pair <= live
  BY DocumentRead DEF TypeOK
<1>2. CASE pending = NoPair
  BY <1>1, <1>2 DEF Overlay
<1>3. CASE pending # NoPair
  <2>1. pending \in Pairs /\ pending <= live
    BY <1>3, GrantAssumption DEF TypeOK, Pairs, NoPair, GrantAssumption
  <2> QED
    BY <1>1, <1>3, <2>1, SetTokensType, DocumentRead DEF Overlay
<1> QED
  BY <1>2, <1>3

----------------------------------------------------------------------------
(* Types.  No document that has been read carries a pair younger than live. *)

TypeInv == TypeOK /\ sync.doc.pair <= live /\ edits \in Nat

LEMMA TypeInit == Init => TypeInv
<1> SUFFICES ASSUME Init PROVE TypeInv
  OBVIOUS
<1>1. /\ live \in Pairs /\ age \in 0 .. live /\ pending \in 0 .. live
      /\ doc \in Document /\ doc.pair <= live
  BY GrantAssumption DEF Init, Document, Pairs, NoPair, GrantAssumption
<1>2. sync \in Pass /\ sync.pc = "idle" /\ sync.doc = NoDocument /\ sync.doc.pair <= live
  BY DEF Init, Idle, Pass, NoDocument, NoPair
<1> QED
  BY <1>1, <1>2 DEF Init, TypeInv, TypeOK

(* What a step may do to the pass. *)

LEMMA PassRead ==
  ASSUME sync \in Pass, NEW pc \in {"oauth", "save"}, NEW d \in Document,
         sync' = [sync EXCEPT !.pc = pc, !.doc = d]
  PROVE  sync' \in Pass /\ sync'.pc = pc /\ sync'.doc = d
BY DEF Pass

PassKept ==
  /\ sync' \in Pass
  /\ sync'.pc \in {"idle", "refresh", "collect"} <=> sync'.doc = NoDocument
  /\ sync'.pc = "save" => sync'.doc.dated
  /\ sync'.doc.pair <= live'

LEMMA GiveUpPass == TypeInv /\ live' \in Nat /\ sync' = Idle => PassKept
BY DEF PassKept, Idle, Pass, NoDocument, NoPair

LEMMA CollectPass ==
  ASSUME TypeInv, live' \in Nat, NEW pair \in Pairs, CollectWith(pair)
  PROVE  PassKept /\ sync'.pc = "collect"
<1>1. /\ sync' \in Pass
      /\ sync'.pc = "collect" /\ sync'.doc = NoDocument
  BY DEF TypeInv, TypeOK, CollectWith, Pass
<1>2. NoDocument.pair = 0
  BY DEF NoDocument, NoPair
<1> QED
  BY <1>1, <1>2 DEF PassKept

LEMMA TypeStep == TypeInv /\ [Next]_vars => TypeInv'
<1> SUFFICES ASSUME TypeInv, [Next]_vars PROVE TypeInv'
  OBVIOUS
<1> USE DEF counters
<1>0. /\ live \in Pairs /\ live \in Nat /\ age \in 0 .. live /\ pending \in 0 .. live
      /\ doc \in Document /\ doc.pair \in Pairs /\ doc.pair <= live /\ sync \in Pass
  BY GrantAssumption DEF TypeInv, TypeOK, Document, Pairs, GrantAssumption
<1>q. ASSUME PassKept, UNCHANGED <<live, age, doc, pending, edits>>,
             mishap' \in BOOLEAN, clobbered' \in BOOLEAN
      PROVE  TypeInv'
  BY <1>q DEF TypeInv, TypeOK, PassKept
<1>1. CASE Token
  <2>1. PassKept
    <3>1. PICK pc \in {"refresh", "collect"} : sync' = [Idle EXCEPT !.pc = pc, !.token = doc.pair]
      BY <1>1 DEF Token
    <3>2. /\ sync' \in Pass
          /\ sync'.pc = pc /\ sync'.doc = NoDocument
      BY <1>0, <3>1 DEF Idle, Pass
    <3>3. NoDocument.pair = 0 /\ live' \in Nat
      BY <1>0, <1>1 DEF Token, NoDocument, NoPair
    <3> QED
      BY <3>2, <3>3 DEF PassKept
  <2> QED
    BY <1>1, <1>q, <2>1 DEF Token, TypeInv, TypeOK
<1>2. CASE Collect
  <2>1. PassKept
    <3>1. CASE sync' = Idle
      BY <1>0, <1>2, <3>1, GiveUpPass DEF Collect
    <3>2. CASE sync' = [sync EXCEPT !.pc = "refresh", !.retried = TRUE]
      BY <1>0, <1>2, <3>2 DEF Collect, PassKept, TypeInv, TypeOK, Pass
    <3> QED
      BY <1>2, <3>1, <3>2 DEF Collect, GiveUp
  <2> QED
    BY <1>2, <1>q, <2>1 DEF Collect, TypeInv, TypeOK
<1>3. CASE Refresh
  <2> DEFINE d == Overlay(doc)
  <2>1. d \in Document /\ d # NoDocument /\ d.pair <= live /\ d.pair \in Pairs
    BY OverlayType DEF TypeInv, Document
  <2>2. PassKept
    <3>1. CASE CollectWith(d.pair)
      BY <1>0, <1>3, <2>1, <3>1, CollectPass DEF Refresh
    <3>2. CASE sync' = [sync EXCEPT !.pc = IF Renewed(d) THEN "save" ELSE "oauth", !.doc = d]
      <4>1. Renewed(d) => d.dated
        BY DEF Renewed
      <4> HIDE DEF d
      <4> QED
        BY <1>0, <1>3, <2>1, <3>2, <4>1, PassRead DEF Refresh, PassKept
    <3> QED
      BY <1>3, <3>1, <3>2 DEF Refresh
  <2> QED
    BY <1>3, <1>q, <2>2 DEF Refresh, TypeInv, TypeOK
<1>4. CASE OAuthRefresh
  <2>1. CASE sync.doc.pair = live /\ live < MaxPairs
    <3>1. live' = live + 1 /\ live' \in Pairs
      BY <1>0, <1>4, <2>1, GrantAssumption DEF OAuthRefresh, Pairs, GrantAssumption
    <3>2. sync.doc \in Document /\ sync.doc # NoDocument
      BY <1>4 DEF OAuthRefresh, TypeInv, TypeOK, Pass
    <3> DEFINE d == SetTokens(sync.doc, live + 1)
    <3>3. d \in Document /\ d # NoDocument /\ d.dated /\ d.pair = live'
      BY <3>1, <3>2, SetTokensType, DocumentRead
    <3>4. sync' = [sync EXCEPT !.pc = "save", !.doc = d]
      BY <1>4, <2>1 DEF OAuthRefresh
    <3>5. sync' \in Pass /\ sync'.pc = "save" /\ sync'.doc = d
      <4> HIDE DEF d
      <4> QED
        BY <1>0, <3>3, <3>4, PassRead
    <3>6. PassKept
      <4> HIDE DEF d
      <4> QED
        BY <1>0, <3>1, <3>3, <3>5, GrantAssumption DEF PassKept, Pairs, GrantAssumption
    <3> QED
      BY <1>0, <1>4, <3>1, <3>6 DEF OAuthRefresh, TypeInv, TypeOK, PassKept, Pairs
  <2>2. CASE ~(sync.doc.pair = live /\ live < MaxPairs)
    <3>1. UNCHANGED live /\ PassKept
      BY <1>0, <1>4, <2>2, GiveUpPass DEF OAuthRefresh, GiveUp
    <3> QED
      BY <1>4, <1>q, <3>1 DEF OAuthRefresh, TypeInv, TypeOK
  <2> QED
    BY <2>1, <2>2
<1>5. CASE LoseIssued
  <2>1. live' = live + 1 /\ live' \in Pairs /\ live' \in Nat
    BY <1>0, <1>5, GrantAssumption DEF LoseIssued, Pairs, GrantAssumption
  <2>2. PassKept
    BY <1>5, <2>1, GiveUpPass DEF LoseIssued, GiveUp
  <2> QED
    BY <1>0, <1>5, <2>1, <2>2 DEF LoseIssued, Fail, TypeInv, TypeOK, PassKept, Pairs
<1>6. CASE Store \/ FailStore
  <2>1. sync.doc \in Document /\ sync.doc.pair \in Pairs /\ sync.doc.pair <= live
    BY <1>6 DEF Store, FailStore, TypeInv, TypeOK, Pass, Document
  <2>2. UNCHANGED <<live, age, mishap, edits>> /\ CollectWith(sync.doc.pair)
    BY <1>6 DEF Store, FailStore, Fail
  <2>3. PassKept
    BY <1>0, <2>1, <2>2, CollectPass
  <2>4. doc' \in {doc, sync.doc} /\ pending' \in {NoPair, sync.doc.pair}
        /\ clobbered' \in BOOLEAN
    BY <1>6 DEF Store, FailStore, Replace, Hold, TypeInv, TypeOK, Pass
  <2>5. pending' \in 0 .. live
    BY <1>0, <2>1, <2>4 DEF NoPair, Pairs
  <2> QED
    BY <1>0, <2>1, <2>2, <2>3, <2>4, <2>5 DEF TypeInv, TypeOK, PassKept
<1>7. CASE FailPass
  BY <1>0, <1>7, <1>q, GiveUpPass DEF FailPass, Fail, GiveUp, TypeInv, TypeOK
<1>8. CASE Crash
  <2>1. PassKept
    BY <1>0, <1>8, GiveUpPass DEF Crash
  <2>2. pending' \in 0 .. live
    BY <1>0, <1>8 DEF Crash, NoPair
  <2> QED
    BY <1>0, <1>8, <2>1, <2>2 DEF Crash, TypeInv, TypeOK, PassKept
<1>9. ASSUME NEW dated \in BOOLEAN, Obtain(dated), UNCHANGED <<age, pending, clobbered, edits>>
      PROVE  TypeInv'
  <2>1. live' = live + 1 /\ live' \in Pairs
    BY <1>0, <1>9, GrantAssumption DEF Obtain, Pairs, GrantAssumption
  <2>2. doc' \in Document /\ doc'.pair <= live'
    <3>1. doc' = [doc EXCEPT !.pair = live', !.dated = dated]
      BY <1>9, <2>1 DEF Obtain
    <3>2. doc' = [pair |-> live', dated |-> dated, setting |-> doc.setting]
      BY <1>0, <3>1 DEF Document
    <3>3. doc.setting \in 0 .. MaxEdits /\ live' \in Nat
      BY <1>0, <2>1 DEF Document, Pairs
    <3> QED
      BY <2>1, <3>2, <3>3 DEF Document
  <2>3. PassKept
    <3>1. sync'.pc = sync.pc /\ sync'.doc = sync.doc /\ sync' \in Pass
      BY <1>0, <1>9 DEF Obtain, Pass
    <3>2. sync.doc.pair \in Nat
      BY <1>0 DEF Pass, Document, NoDocument, Pairs, NoPair
    <3> QED
      BY <1>0, <2>1, <3>1, <3>2 DEF PassKept, TypeInv, TypeOK
  <2>4. age' \in 0 .. live' /\ pending' \in 0 .. live' /\ mishap' \in BOOLEAN
    BY <1>0, <1>9, <2>1 DEF Obtain, Holds, Pairs
  <2> QED
    BY <1>9, <2>1, <2>2, <2>3, <2>4 DEF TypeInv, TypeOK, PassKept
<1>10. CASE PluginRefresh
  BY <1>9, <1>10 DEF PluginRefresh
<1>11. CASE Relink
  BY <1>9, <1>11 DEF Relink
<1>12. CASE EditSetting
  <2>1. edits' \in Nat /\ edits' \in 0 .. MaxEdits
    BY <1>12, GrantAssumption DEF EditSetting, GrantAssumption, TypeInv
  <2>2. doc' \in Document /\ doc'.pair = doc.pair
    BY <1>0, <1>12, <2>1 DEF EditSetting, Document
  <2>3. sync' \in Pass /\ sync'.pc = sync.pc /\ sync'.doc = sync.doc
    BY <1>0, <1>12 DEF EditSetting, Pass
  <2> QED
    BY <1>12, <2>1, <2>2, <2>3 DEF EditSetting, TypeInv, TypeOK
<1>13. CASE GrowOld
  <2>1. age' \in 0 .. live
    BY <1>0, <1>13 DEF GrowOld
  <2> QED
    BY <1>0, <1>13, <2>1 DEF GrowOld, TypeInv, TypeOK
<1>14. CASE UNCHANGED vars
  BY <1>14 DEF vars, TypeInv, TypeOK
<1> QED
  BY <1>1, <1>2, <1>3, <1>4, <1>5, <1>6, <1>7, <1>8, <1>10, <1>11, <1>12, <1>13, <1>14
  DEF Next, ServiceStep

\* The pairs, the document and the pass keep their types, and every document about to
\* be saved records an expiry (SetTokens, store).
THEOREM GrantTypes == Spec => []TypeOK
<1>1. TypeInv => TypeOK
  BY DEF TypeInv
<1> QED
  BY <1>1, TypeInit, TypeStep, PTL DEF Spec

----------------------------------------------------------------------------
(* The grant.  GrantKept is not inductive: it does not say that a held pair *)
(* is the live one, without which Refresh could start from a retired pair,  *)
(* nor that the pair a save is about to write is.                           *)

GrantInv ==
  /\ GrantKept
  /\ RefreshStartsFromLive
  /\ ~mishap /\ sync.pc = "save" => sync.doc.pair = live
  /\ ~mishap /\ sync.pc # "save" => pending \in {NoPair, live}

LEMMA GrantInit == Init => GrantInv
BY DEF Init, GrantInv, GrantKept, RefreshStartsFromLive, Idle

(* A step that leaves the pass with no document and all else as it was. *)

Rests == sync'.pc \in {"idle", "refresh", "collect"}

LEMMA GrantRests ==
  ASSUME GrantInv, Rests, sync.pc # "save", UNCHANGED <<live, doc, pending, mishap>>
  PROVE  GrantInv'
BY DEF GrantInv, GrantKept, RefreshStartsFromLive, Rests

LEMMA CollectRests == ASSUME TypeInv, NEW pair, CollectWith(pair) PROVE Rests /\ sync'.pc = "collect"
BY DEF TypeInv, TypeOK, CollectWith, Rests, Pass

LEMMA GiveUpRests == sync' = Idle => Rests /\ sync'.pc = "idle"
BY DEF Rests, Idle

LEMMA GrantStep == TypeInv /\ TypeInv' /\ GrantInv /\ [Next]_vars => GrantInv'
<1> SUFFICES ASSUME TypeInv, TypeInv', GrantInv, [Next]_vars PROVE GrantInv'
  OBVIOUS
<1> USE DEF counters
<1>0. /\ live \in Nat /\ live # NoPair /\ sync \in Pass
      /\ sync.pc \in {"oauth", "save"} => sync.doc \in Document /\ sync.doc # NoDocument
  BY GrantAssumption DEF TypeInv, TypeOK, Pairs, NoPair, Pass, GrantAssumption
<1>1. CASE Token
  <2>1. Rests
    BY <1>1 DEF Token, Rests, Idle
  <2> QED
    BY <1>1, <2>1, GrantRests DEF Token
<1>2. CASE Collect
  <2>1. Rests
    BY <1>0, <1>2, GiveUpRests DEF Collect, GiveUp, Rests, Pass
  <2> QED
    BY <1>2, <2>1, GrantRests DEF Collect
<1>3. CASE Refresh
  <2> DEFINE d == Overlay(doc)
  <2>1. CASE CollectWith(d.pair)
    BY <1>3, <2>1, CollectRests, GrantRests DEF Refresh
  <2>2. CASE sync' = [sync EXCEPT !.pc = IF Renewed(d) THEN "save" ELSE "oauth", !.doc = d]
    <3>1. sync'.pc \in {"save", "oauth"} /\ sync'.doc = d
      BY <1>0, <2>2 DEF Pass
    <3>2. ~mishap => d.pair = live
      <4>1. d.pair = IF pending = NoPair THEN doc.pair ELSE pending
        BY OverlayType DEF TypeInv
      <4> HIDE DEF d
      <4> QED
        BY <1>0, <1>3, <4>1 DEF Refresh, GrantInv, GrantKept
    <3> HIDE DEF d
    <3>3. UNCHANGED <<live, doc, pending, mishap>> /\ sync.pc = "refresh"
      BY <1>3 DEF Refresh
    <3> QED
      BY <3>1, <3>2, <3>3 DEF GrantInv, GrantKept, RefreshStartsFromLive
  <2>3. CollectWith(d.pair)
        \/ sync' = [sync EXCEPT !.pc = IF Renewed(d) THEN "save" ELSE "oauth", !.doc = d]
    BY <1>3 DEF Refresh
  <2> QED
    BY <2>1, <2>2, <2>3
<1>4. CASE OAuthRefresh
  <2>1. CASE sync.doc.pair = live /\ live < MaxPairs
    <3>1. live' = live + 1 /\ UNCHANGED mishap
      BY <1>4, <2>1 DEF OAuthRefresh
    <3>2. sync'.pc = "save" /\ sync'.doc = SetTokens(sync.doc, live + 1)
      BY <1>0, <1>4, <2>1 DEF OAuthRefresh, Pass
    <3>3. SetTokens(sync.doc, live + 1).pair = live + 1
      BY <1>0, <1>4 DEF OAuthRefresh, SetTokens, Document
    <3> QED
      BY <3>1, <3>2, <3>3 DEF GrantInv, GrantKept, RefreshStartsFromLive
  <2>2. CASE ~(sync.doc.pair = live /\ live < MaxPairs)
    BY <1>4, <2>2, GiveUpRests, GrantRests DEF OAuthRefresh, GiveUp
  <2> QED
    BY <2>1, <2>2
<1>5. CASE LoseIssued
  <2>1. mishap' /\ Rests
    BY <1>5, GiveUpRests DEF LoseIssued, GiveUp
  <2> QED
    BY <2>1 DEF GrantInv, GrantKept, RefreshStartsFromLive, Rests
<1>6. CASE Store
  <2>1. doc' = sync.doc /\ pending' = NoPair /\ UNCHANGED <<live, mishap>> /\ sync.pc = "save"
    BY <1>6 DEF Store, Replace
  <2>2. sync'.pc = "collect"
    BY <1>6, CollectRests DEF Store
  <2> QED
    BY <2>1, <2>2 DEF GrantInv, GrantKept, RefreshStartsFromLive
<1>7. CASE FailStore
  <2>1. pending' = sync.doc.pair /\ UNCHANGED <<live, mishap>> /\ sync.pc = "save"
    BY <1>7 DEF FailStore, Hold
  <2>2. sync'.pc = "collect"
    BY <1>7, CollectRests DEF FailStore
  <2> QED
    BY <2>1, <2>2 DEF GrantInv, GrantKept, RefreshStartsFromLive
<1>8. CASE FailPass
  BY <1>8, GiveUpRests, GrantRests DEF FailPass, GiveUp
<1>9. CASE Crash
  <2>1. sync'.pc = "idle" /\ pending' = NoPair /\ (mishap' <=> doc.pair # live)
        /\ UNCHANGED <<doc, live>>
    BY <1>9, GiveUpRests DEF Crash
  <2> QED
    BY <2>1 DEF GrantInv, GrantKept, RefreshStartsFromLive
<1>10. ASSUME NEW dated \in BOOLEAN, Obtain(dated), UNCHANGED pending
       PROVE  GrantInv'
  <2>1. live' = live + 1 /\ doc'.pair = live' /\ (mishap' <=> Holds)
    BY <1>10 DEF Obtain, TypeInv, TypeOK, Document
  <2>2. sync'.pc = sync.pc /\ sync'.doc = sync.doc /\ (sync.pc = "oauth" => sync'.overtaken)
    BY <1>0, <1>10 DEF Obtain, Pass
  <2> QED
    BY <1>10, <2>1, <2>2 DEF GrantInv, GrantKept, RefreshStartsFromLive, Holds
<1>11. CASE PluginRefresh
  BY <1>10, <1>11 DEF PluginRefresh
<1>12. CASE Relink
  BY <1>10, <1>12 DEF Relink
<1>13. CASE EditSetting
  <2>1. doc'.pair = doc.pair /\ sync'.pc = sync.pc /\ sync'.doc = sync.doc
        /\ sync'.overtaken = sync.overtaken /\ UNCHANGED <<live, pending, mishap>>
    BY <1>0, <1>13 DEF EditSetting, TypeInv, TypeOK, Document, Pass
  <2> QED
    BY <2>1 DEF GrantInv, GrantKept, RefreshStartsFromLive
<1>14. CASE GrowOld \/ UNCHANGED vars
  BY <1>14 DEF GrowOld, vars, GrantInv, GrantKept, RefreshStartsFromLive
<1> QED
  BY <1>1, <1>2, <1>3, <1>4, <1>5, <1>6, <1>7, <1>8, <1>9, <1>11, <1>12, <1>13, <1>14
  DEF Next, ServiceStep

LEMMA GrantCorrect == Spec => [](TypeInv /\ GrantInv)
<1>1. TypeInv /\ GrantInv /\ [Next]_vars => (TypeInv /\ GrantInv)'
  BY TypeStep, GrantStep
<1> QED
  BY <1>1, TypeInit, GrantInit, PTL DEF Spec

\* However saves fail and whoever renews it, the pair trakt honours is in the document,
\* held by the service, or about to be saved (Refresh, store).
THEOREM GrantNeverLost == Spec => []GrantKept
<1>1. GrantInv => GrantKept
  BY DEF GrantInv
<1> QED
  BY <1>1, GrantCorrect, PTL

\* No renewal is tried with a pair the service itself has retired (Refresh).
THEOREM RenewalFromLive == Spec => []RefreshStartsFromLive
<1>1. GrantInv => RefreshStartsFromLive
  BY DEF GrantInv
<1> QED
  BY <1>1, GrantCorrect, PTL

----------------------------------------------------------------------------
(* The settings.  What a pass is going to save is what the operator has set, *)
(* as long as nothing has been edited since it read the document.            *)

SettingsInv ==
  /\ SettingsSurvive
  /\ ~clobbered /\ sync.doc # NoDocument /\ ~sync.edited => sync.doc.setting = edits

LEMMA SettingsInit == Init => SettingsInv
BY DEF Init, SettingsInv, SettingsSurvive, Idle

LEMMA SettingsDropped ==
  ASSUME SettingsInv, sync'.doc = NoDocument, UNCHANGED <<doc, edits, clobbered>>
  PROVE  SettingsInv'
BY DEF SettingsInv, SettingsSurvive

LEMMA CollectDrops == ASSUME TypeInv, NEW pair, CollectWith(pair) PROVE sync'.doc = NoDocument
BY DEF TypeInv, TypeOK, CollectWith, Pass

LEMMA GiveUpDrops == sync' = Idle => sync'.doc = NoDocument
BY DEF Idle

LEMMA SettingsStep == TypeInv /\ SettingsInv /\ [Next]_vars => SettingsInv'
<1> SUFFICES ASSUME TypeInv, SettingsInv, [Next]_vars PROVE SettingsInv'
  OBVIOUS
<1> USE DEF counters
<1>0. /\ sync \in Pass /\ doc \in Document
      /\ sync.pc \in {"oauth", "save"} => sync.doc \in Document /\ sync.doc # NoDocument
      /\ sync.pc \in {"idle", "refresh", "collect"} => sync.doc = NoDocument
  BY DEF TypeInv, TypeOK, Pass
<1>1. CASE Token
  <2>1. sync'.doc = NoDocument
    BY <1>1 DEF Token, Idle
  <2> QED
    BY <1>1, <2>1, SettingsDropped DEF Token
<1>2. CASE Collect
  <2>1. sync'.doc = NoDocument
    BY <1>0, <1>2, GiveUpDrops DEF Collect, GiveUp, Pass
  <2> QED
    BY <1>2, <2>1, SettingsDropped DEF Collect
<1>3. CASE Refresh
  <2> DEFINE d == Overlay(doc)
  <2>1. CASE CollectWith(d.pair)
    BY <1>3, <2>1, CollectDrops, SettingsDropped DEF Refresh
  <2>2. CASE sync' = [sync EXCEPT !.pc = IF Renewed(d) THEN "save" ELSE "oauth", !.doc = d]
    <3>1. sync'.doc = d
      BY <1>0, <2>2 DEF Pass
    <3>2. d.setting = doc.setting
      BY OverlayType DEF TypeInv
    <3> HIDE DEF d
    <3>3. UNCHANGED <<doc, clobbered, edits>>
      BY <1>3 DEF Refresh
    <3> QED
      BY <3>1, <3>2, <3>3 DEF SettingsInv, SettingsSurvive
  <2>3. CollectWith(d.pair)
        \/ sync' = [sync EXCEPT !.pc = IF Renewed(d) THEN "save" ELSE "oauth", !.doc = d]
    BY <1>3 DEF Refresh
  <2> QED
    BY <2>1, <2>2, <2>3
<1>4. CASE OAuthRefresh
  <2>1. CASE sync.doc.pair = live /\ live < MaxPairs
    <3>1. sync'.doc = SetTokens(sync.doc, live + 1) /\ sync'.edited = sync.edited
      BY <1>0, <1>4, <2>1 DEF OAuthRefresh, Pass
    <3>2. SetTokens(sync.doc, live + 1).setting = sync.doc.setting /\ sync.doc # NoDocument
      BY <1>0, <1>4 DEF OAuthRefresh, SetTokens, Document
    <3>3. UNCHANGED <<doc, clobbered, edits>>
      BY <1>4 DEF OAuthRefresh
    <3> QED
      BY <3>1, <3>2, <3>3 DEF SettingsInv, SettingsSurvive
  <2>2. CASE ~(sync.doc.pair = live /\ live < MaxPairs)
    BY <1>4, <2>2, GiveUpDrops, SettingsDropped DEF OAuthRefresh, GiveUp
  <2> QED
    BY <2>1, <2>2
<1>5. CASE LoseIssued \/ FailPass
  BY <1>5, GiveUpDrops, SettingsDropped DEF LoseIssued, FailPass, Fail, GiveUp
<1>6. CASE Store \/ FailStore
  <2>1. sync'.doc = NoDocument /\ UNCHANGED edits
    BY <1>6, CollectDrops DEF Store, FailStore, Fail
  <2>2. CASE UNCHANGED <<doc, clobbered>>
    BY <2>1, <2>2, SettingsDropped
  <2>3. CASE Replace
    BY <1>0, <1>6, <2>1, <2>3 DEF Replace, Store, FailStore, SettingsInv, SettingsSurvive
  <2> QED
    BY <1>6, <2>2, <2>3 DEF Store, FailStore
<1>7. CASE Crash
  BY <1>7, GiveUpDrops, SettingsDropped DEF Crash
<1>8. ASSUME NEW dated \in BOOLEAN, Obtain(dated), UNCHANGED <<clobbered, edits>>
      PROVE  SettingsInv'
  <2>1. doc'.setting = doc.setting /\ sync'.doc = sync.doc /\ sync'.edited = sync.edited
    BY <1>0, <1>8 DEF Obtain, Document, Pass
  <2> QED
    BY <1>8, <2>1 DEF SettingsInv, SettingsSurvive
<1>9. CASE PluginRefresh
  BY <1>8, <1>9 DEF PluginRefresh
<1>10. CASE Relink
  BY <1>8, <1>10 DEF Relink
<1>11. CASE EditSetting
  <2>1. doc'.setting = edits' /\ sync'.doc = sync.doc
        /\ (sync.doc # NoDocument => sync'.edited) /\ UNCHANGED clobbered
    BY <1>0, <1>11 DEF EditSetting, Document, Pass
  <2> QED
    BY <2>1 DEF SettingsInv, SettingsSurvive
<1>12. CASE GrowOld \/ UNCHANGED vars
  BY <1>12 DEF GrowOld, vars, SettingsInv, SettingsSurvive
<1> QED
  BY <1>1, <1>2, <1>3, <1>4, <1>5, <1>6, <1>7, <1>9, <1>10, <1>11, <1>12
  DEF Next, ServiceStep

\* A save loses no setting of the plugin but one edited between its read and its write,
\* however often it has to be repeated (TraktConfig, SetTokens, store).
THEOREM NoSettingLost == Spec => []SettingsSurvive
<1>1. TypeInv /\ SettingsInv /\ [Next]_vars => (TypeInv /\ SettingsInv)'
  BY TypeStep, SettingsStep
<1>2. SettingsInv => SettingsSurvive
  BY DEF SettingsInv
<1> QED
  BY <1>1, <1>2, TypeInit, SettingsInit, PTL DEF Spec

=============================================================================
