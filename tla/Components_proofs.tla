------------------------- MODULE Components_proofs -------------------------
(***************************************************************************)
(* What the components' theorems say of MCComponents, where they are side  *)
(* by side.  A scene only takes behaviours away: to each component every   *)
(* step of a scene is one of its own steps or a stutter, so that whatever  *)
(* holds of the component alone holds in every scene, for any values of    *)
(* the constants.                                                          *)
(***************************************************************************)
EXTENDS MCComponents, Limits_proofs, Guild_proofs, Match_proofs

-----------------------------------------------------------------------------
(* The variables of one component in the steps of the others *)

\* Of the components other than the one of a scene, nothing changes.
LEMMA OneAtWork ==
  ASSUME [Next]_allVars
  PROVE  /\ [JobNext]_jobVars /\ [StatNext]_<<dbVars, recVars, statVars>> /\ [SettingNext]_settingVars
         /\ [RequestNext]_requestVars /\ [PremiumNext]_premiumVars /\ [TokenNext]_tokenVars
         /\ [StatusNext]_statusVars /\ [LinkNext]_linkVars
<1> USE DEF matchVars
<1>1. CASE JobScene BY <1>1 DEF JobScene
<1>2. CASE MatchScene BY <1>2 DEF MatchScene, MatchStep
<1>3. CASE SettingScene BY <1>3 DEF SettingScene
<1>4. CASE RequestScene BY <1>4 DEF RequestScene, RequestStep
<1>5. CASE PremiumScene BY <1>5 DEF PremiumScene
<1>6. CASE TokenScene BY <1>6 DEF TokenScene, TokenStep
<1>7. CASE MessageScene BY <1>7 DEF MessageScene, StatusStep
<1>8. CASE LinkScene BY <1>8 DEF LinkScene, LinkStep
<1>9. CASE UNCHANGED allVars BY <1>9 DEF allVars
<1> QED BY <1>1, <1>2, <1>3, <1>4, <1>5, <1>6, <1>7, <1>8, <1>9 DEF Next

\* Each scene begins as its component does, with less to choose from.
LEMMA AllBegin ==
  Init => /\ JobInit /\ RecInit /\ StatInit /\ SettingInit /\ RequestInit /\ PremiumInit
          /\ TokenInit /\ StatusInit /\ LinkInit
BY DEF Init

\* The scenes are executions of the components: what the runs on MCComponents
\* find is found in behaviours of their specifications, of which the theorems speak.
THEOREM ScenesAreComponents ==
  Spec => /\ JobSpec /\ RecSpec /\ StatSpec /\ SettingSpec /\ RequestSpec /\ PremiumSpec
          /\ TokenSpec /\ StatusSpec /\ LinkSpec
<1>1. [Next]_allVars => [RecNext]_<<dbVars, recVars>> BY OneAtWork, RecMeanwhile
<1>2. Spec => JobSpec BY AllBegin, OneAtWork, PTL DEF Spec, JobSpec
<1>3. Spec => RecSpec BY AllBegin, <1>1, PTL DEF Spec, RecSpec
<1>4. Spec => StatSpec BY AllBegin, OneAtWork, PTL DEF Spec, StatSpec
<1>5. Spec => SettingSpec BY AllBegin, OneAtWork, PTL DEF Spec, SettingSpec
<1>6. Spec => RequestSpec BY AllBegin, OneAtWork, PTL DEF Spec, RequestSpec
<1>7. Spec => PremiumSpec BY AllBegin, OneAtWork, PTL DEF Spec, PremiumSpec
<1>8. Spec => TokenSpec BY AllBegin, OneAtWork, PTL DEF Spec, TokenSpec
<1>9. Spec => StatusSpec BY AllBegin, OneAtWork, PTL DEF Spec, StatusSpec
<1>10. Spec => LinkSpec BY AllBegin, OneAtWork, PTL DEF Spec, LinkSpec
<1> QED BY <1>2, <1>3, <1>4, <1>5, <1>6, <1>7, <1>8, <1>9, <1>10

\* In every scene, whoever is at work keeps its types - and so do all those who rest.
THEOREM TypesHold == Spec => []TypesOK
<1>1. JobTypeOK /\ RecTypeOK /\ SettingsTypeOK /\ TokenTypeOK /\ StatusTypeOK /\ LinkTypeOK => TypesOK
  BY DEF TypesOK
<1> QED BY <1>1, ScenesAreComponents, JobTypeCorrect, RecTypeCorrect, SettingsTypeCorrect,
           TokenTypeCorrect, StatusTypeCorrect, LinkTypeCorrect, PTL
=============================================================================
