--------------------------- MODULE FrontendProofs ---------------------------
(***************************************************************************)
(* What is proved of the interface as a whole: a behaviour drives one part  *)
(* and leaves the others switched off, so an invariant of a part holds      *)
(* wherever that part is the one in focus.                                  *)
(***************************************************************************)
EXTENDS MCFrontend, InterfaceProofs, PanelProofs

FrontDialogInv == focus = "dialogs" => DialogOK(dg)

\* The dialogs' promises hold in every behaviour of the interface, whatever part it drives.
THEOREM FrontDialogsTheorem == FrontSpec => []FrontDialogs
<1>1. FrontInit => FrontDialogInv BY DialogInit DEF FrontInit, Part, FrontDialogInv
<1>2. FrontDialogInv /\ [FrontNext]_frontVars => FrontDialogInv'
  <2> SUFFICES ASSUME FrontDialogInv, [FrontNext]_frontVars, focus' = "dialogs" PROVE DialogOK(dg')
    BY DEF FrontDialogInv
  <2>1. focus = "dialogs" /\ (EdgNext \/ UNCHANGED dg) BY DEF FrontNext, Steps, frontVars
  <2> QED BY <2>1, DialogStep DEF FrontDialogInv
<1>3. FrontDialogInv => FrontDialogs BY DialogsTrue DEF FrontDialogInv, FrontDialogs
<1> QED BY <1>1, <1>2, <1>3, PTL DEF FrontSpec

FrontResultInv == (focus = "tabs" => TabsOK(rt)) /\ (focus = "export" => ExportOK(xp))

\* The result tabs and the export keep their promises in every behaviour of the interface.
THEOREM FrontResultsTheorem == FrontSpec => []FrontResults
<1>1. FrontInit => FrontResultInv BY TabsInit, ExportInit DEF FrontInit, Part, FrontResultInv
<1>2. FrontResultInv /\ [FrontNext]_frontVars => FrontResultInv'
  <2> SUFFICES ASSUME FrontResultInv, [FrontNext]_frontVars PROVE FrontResultInv' OBVIOUS
  <2>1. ASSUME focus' = "tabs" PROVE TabsOK(rt')
    <3>1. focus = "tabs" /\ (RtNext \/ UNCHANGED rt) BY <2>1 DEF FrontNext, Steps, frontVars
    <3> QED BY <3>1, TabsStep DEF FrontResultInv
  <2>2. ASSUME focus' = "export" PROVE ExportOK(xp')
    <3>1. focus = "export" /\ (XpNext \/ UNCHANGED xp) BY <2>2 DEF FrontNext, Steps, frontVars
    <3> QED BY <3>1, ExportStepKeeps DEF FrontResultInv
  <2> QED BY <2>1, <2>2 DEF FrontResultInv
<1>3. FrontResultInv => FrontResults BY TabsTrue, ExportTrue DEF FrontResultInv, FrontResults
<1> QED BY <1>1, <1>2, <1>3, PTL DEF FrontSpec

FrontRelationInv == focus = "relations" => PanelOK(rp)

\* The relationship panel keeps its promises in every behaviour of the interface.
THEOREM FrontRelationsTheorem == FrontSpec => []FrontRelations
<1>1. FrontInit => FrontRelationInv BY PanelInit DEF FrontInit, Part, FrontRelationInv
<1>2. FrontRelationInv /\ [FrontNext]_frontVars => FrontRelationInv'
  <2> SUFFICES ASSUME FrontRelationInv, [FrontNext]_frontVars, focus' = "relations" PROVE PanelOK(rp')
    BY DEF FrontRelationInv
  <2>1. focus = "relations" /\ (RpNext \/ UNCHANGED rp) BY DEF FrontNext, Steps, frontVars
  <2> QED BY <2>1, PanelStep DEF FrontRelationInv
<1>3. FrontRelationInv => FrontRelations BY PanelTrue DEF FrontRelationInv, FrontRelations
<1> QED BY <1>1, <1>2, <1>3, PTL DEF FrontSpec

FrontConnectionInv == focus = "connections" => ManagerOK(cm)

\* The connection manager keeps its promises in every behaviour of the interface.
THEOREM FrontConnectionsTheorem == FrontSpec => []FrontConnections
<1>1. FrontInit => FrontConnectionInv BY ManagerInit DEF FrontInit, Part, FrontConnectionInv
<1>2. FrontConnectionInv /\ [FrontNext]_frontVars => FrontConnectionInv'
  <2> SUFFICES ASSUME FrontConnectionInv, [FrontNext]_frontVars, focus' = "connections" PROVE ManagerOK(cm')
    BY DEF FrontConnectionInv
  <2>1. focus = "connections" /\ (CmNext \/ UNCHANGED cm) BY DEF FrontNext, Steps, frontVars
  <2> QED BY <2>1, ManagerStep DEF FrontConnectionInv
<1>3. FrontConnectionInv => FrontConnections BY ManagerTrue DEF FrontConnectionInv, FrontConnections
<1> QED BY <1>1, <1>2, <1>3, PTL DEF FrontSpec
=============================================================================
