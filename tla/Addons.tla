------------------------------- MODULE Addons -------------------------------
(***************************************************************************)
(* The tools, the log's retention, the client portal, the live chat and    *)
(* the payslip, side by side.  They share no state that the properties are *)
(* about, so a behaviour exercises one of them, its subject; the tools     *)
(* either by a client that walks or by one that calls.                     *)
(***************************************************************************)
EXTENDS Tools, LogRetention, ClientPortal, Livechat, Payslip

VARIABLE subject

vars == <<subject, toolsVars, retentionVars, portalVars, chatVars, payslipVars>>

Init ==
  /\ subject \in {"walk", "calls", "log", "portal", "chat", "payslip"}
  /\ ToolsInit /\ RetentionInit /\ PortalInit /\ LivechatInit /\ PayslipInit
  \* Only the subject's initial states are told apart.
  /\ subject # "calls" =>
       /\ open = [model \in Models |-> IF model = "record" THEN Operations ELSE {}]
       /\ subject # "walk" => rows = Ids
  /\ subject # "log" => keep = 1
  /\ subject # "chat" => bot /\ agent
  /\ subject # "payslip" => ~validatedOnly

Next ==
  \/ /\ subject \in {"walk", "calls"}
     /\ IF subject = "walk" THEN WalkNext ELSE CallNext
     /\ UNCHANGED <<subject, retentionVars, portalVars, chatVars, payslipVars>>
  \/ /\ subject = "log" /\ RetentionNext
     /\ UNCHANGED <<subject, toolsVars, portalVars, chatVars, payslipVars>>
  \/ /\ subject = "portal" /\ PortalNext
     /\ UNCHANGED <<subject, toolsVars, retentionVars, chatVars, payslipVars>>
  \/ /\ subject = "chat" /\ LivechatNext
     /\ UNCHANGED <<subject, toolsVars, retentionVars, portalVars, payslipVars>>
  \/ /\ subject = "payslip" /\ PayslipNext
     /\ UNCHANGED <<subject, toolsVars, retentionVars, portalVars, chatVars>>

Spec == Init /\ [][Next]_vars

TypeOK ==
  /\ ToolsTypeOK /\ RetentionTypeOK /\ PortalTypeOK /\ LivechatTypeOK /\ PayslipTypeOK
=============================================================================
