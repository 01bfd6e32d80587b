----------------------- MODULE SupportServicesProofs ------------------------
(***************************************************************************)
(* Proofs about what runs beside the claim workflow put together.  Each    *)
(* step of the whole is a step of one part and leaves the variables of the *)
(* others alone, so every behaviour of the whole is one of each part, and  *)
(* what was proved of a part in its own module holds of the whole, which   *)
(* is the specification that TLC checks.                                   *)
(***************************************************************************)
EXTENDS SupportServices, LifecyclesProofs, ReceiversProofs, CopilotProofs, JwksCacheProofs

-----------------------------------------------------------------------------
(* The composition implements each of its parts *)

(* A step of the whole is seen by each part as one of its own steps or as none at all. *)
LEMMA StepsOfParts ==
  ASSUME [Next]_supportVars
  PROVE  /\ [LifecyclesNext]_lifecyclesVars
         /\ [PaymentsNext]_paymentsVars
         /\ [LegacyNext]_legacyVars
         /\ [DocumentsNext]_documentsVars
         /\ [CopilotNext]_copilotVars
         /\ [JwksNext]_jwksVars
         /\ UNCHANGED exercised
<1>1. CASE PaymentsStep
  BY <1>1 DEF PaymentsStep
<1>2. CASE LegacyStep
  BY <1>2 DEF LegacyStep
<1>3. CASE DocumentsStep
  BY <1>3 DEF DocumentsStep
<1>4. CASE CopilotStep
  BY <1>4 DEF CopilotStep
<1>5. CASE JwksStep
  BY <1>5 DEF JwksStep
<1>6. CASE LifecyclesStep
  BY <1>6 DEF LifecyclesStep
<1>7. CASE UNCHANGED supportVars
  BY <1>7 DEF supportVars
<1>. QED  BY <1>1, <1>2, <1>3, <1>4, <1>5, <1>6, <1>7 DEF Next

LEMMA InitOfParts ==
  Init => /\ LifecyclesInit /\ PaymentsInit /\ LegacyInit /\ DocumentsInit /\ CopilotInit /\ JwksInit
          /\ exercised \in Services
BY DEF Init

(* Putting the parts together adds no behaviour to any of them: payments behaves as
   Payments says, the adapter as LegacyAdapter, and so on. *)
THEOREM PartsAreImplemented ==
  Spec => /\ LifecyclesSpec /\ PaymentsSpec /\ LegacySpec
          /\ DocumentsSpec /\ CopilotSpec /\ JwksSpec
BY InitOfParts, StepsOfParts, PTL
   DEF Spec, LifecyclesSpec, PaymentsSpec, LegacySpec, DocumentsSpec, CopilotSpec, JwksSpec

-----------------------------------------------------------------------------
(* Type correctness of the whole. *)
THEOREM TypeCorrect == Spec => []TypeOK
<1>1. Spec => [](exercised \in Services)
  <2>1. Init => exercised \in Services
    BY InitOfParts
  <2>2. exercised \in Services /\ [Next]_supportVars => (exercised \in Services)'
    BY StepsOfParts
  <2>. QED  BY <2>1, <2>2, PTL DEF Spec
<1>2. /\ exercised \in Services /\ LifecyclesTypeOK /\ PaymentsTypeOK /\ LegacyTypeOK /\ DocumentsTypeOK
      /\ CopilotTypeOK /\ JwksTypeOK
      => TypeOK
  BY DEF TypeOK
<1>. QED  BY <1>1, <1>2, PartsAreImplemented, LifecyclesTypes, PaymentsTypes, LegacyTypes,
             DocumentsTypes, CopilotTypes, JwksTypes, PTL

(* The audit records of policies and claims lead to what the rows say; the answers of payments,
   of the adapter and of document intelligence agree with what these services stored, a draft
   with what it cites and with what its answer was written from, and an accepted or refused
   key with its life, in every state of the whole. *)
THEOREM AnswersAreTrue ==
  Spec => [](/\ LatestTellsStatus /\ TrailIsRooted /\ CoverWasActive
             /\ StablePayments /\ AnswersMatchRecord /\ UploadsResolve
             /\ DraftsAreGrounded /\ RevokedKeyExpires /\ PublishedKeyAccepted)
BY PartsAreImplemented, LatestIsStatus, RecordsAreRooted, CoverIsSound, PaymentsAreStable,
   LegacyAnswersAgree, UploadsAlwaysResolve, AnswersAreGrounded, RevokedKeysExpire, PublishedKeysAccepted, PTL

(* What was answered stays so in every step of the whole: a settled payment key is not charged
   again, an imported record keeps its place in the ledger, and a decided draft is not taken
   up for a decision again. *)
THEOREM AnswersStand ==
  Spec => AnsweredIsNotChargedAgain /\ ImportLedgerSpec /\ ApprovalsOverlap
BY PartsAreImplemented, AnsweredIsSettled, LegacyImplementsLedger, DecidedStayDecided, PTL
=============================================================================
