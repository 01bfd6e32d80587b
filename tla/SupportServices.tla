-------------------------- MODULE SupportServices ---------------------------
(***************************************************************************)
(* What runs beside the claim workflow, together: the life of policies and *)
(* claims, payments, the legacy adapter, document intelligence, the        *)
(* copilot, and the token validation every service does.                   *)
(*                                                                         *)
(* These parts have no variable in common and none calls another, so an    *)
(* interleaving of two of them shows nothing that each alone does not:     *)
(* one is picked, and the others are left without requests.                *)
(***************************************************************************)
EXTENDS Lifecycles, Payments, LegacyAdapter, Documents, Copilot, JwksCache

VARIABLE exercised   \* the part that gets requests

supportVars ==
  <<exercised, lifecyclesVars, paymentsVars, legacyVars, documentsVars, copilotVars, jwksVars>>

-----------------------------------------------------------------------------
Services ==
  {"lifecycles", "payments", "legacy-adapter", "document-intelligence", "copilot-rag", "auth"}

TypeOK ==
  /\ exercised \in Services
  /\ LifecyclesTypeOK
  /\ PaymentsTypeOK
  /\ LegacyTypeOK
  /\ DocumentsTypeOK
  /\ CopilotTypeOK
  /\ JwksTypeOK

(* What is not exercised has its default configuration. *)
DefaultSettings == [provider |-> "deterministic", keyed |-> FALSE]

Init ==
  /\ exercised \in Services
  /\ LifecyclesInit
  /\ PaymentsInit
  /\ LegacyInit
  /\ DocumentsInit
  /\ CopilotInit
  /\ JwksInit
  /\ exercised # "copilot-rag" => settings = DefaultSettings
  /\ exercised # "auth" => stampedAt = "request"

LifecyclesStep ==
  /\ exercised = "lifecycles"
  /\ LifecyclesNext
  /\ UNCHANGED <<exercised, paymentsVars, legacyVars, documentsVars, copilotVars, jwksVars>>

PaymentsStep ==
  /\ exercised = "payments"
  /\ PaymentsNext
  /\ UNCHANGED <<exercised, lifecyclesVars, legacyVars, documentsVars, copilotVars, jwksVars>>

LegacyStep ==
  /\ exercised = "legacy-adapter"
  /\ LegacyNext
  /\ UNCHANGED <<exercised, lifecyclesVars, paymentsVars, documentsVars, copilotVars, jwksVars>>

DocumentsStep ==
  /\ exercised = "document-intelligence"
  /\ DocumentsNext
  /\ UNCHANGED <<exercised, lifecyclesVars, paymentsVars, legacyVars, copilotVars, jwksVars>>

CopilotStep ==
  /\ exercised = "copilot-rag"
  /\ CopilotNext
  /\ UNCHANGED <<exercised, lifecyclesVars, paymentsVars, legacyVars, documentsVars, jwksVars>>

JwksStep ==
  /\ exercised = "auth"
  /\ JwksNext
  /\ UNCHANGED <<exercised, lifecyclesVars, paymentsVars, legacyVars, documentsVars, copilotVars>>

Next ==
  LifecyclesStep \/ PaymentsStep \/ LegacyStep \/ DocumentsStep \/ CopilotStep \/ JwksStep

Spec == Init /\ [][Next]_supportVars
=============================================================================
