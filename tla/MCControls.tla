------------------------------ MODULE MCControls -------------------------------
(***************************************************************************)
(* Exceptions and waivers, collateral holds, covenants and policy loans    *)
(* share no state, so a behaviour runs one of them and the others rest.    *)
(***************************************************************************)
EXTENDS ExceptionWaivers, CollateralHolds, Covenants, PolicyLoan
CONSTANTS c1, c2, p1, a1, r1

VARIABLE part
controlVars == <<waiverVars, holdVars, evaluations, policyVars, part>>

ControlsInit ==
  /\ part \in {"waivers", "holds", "covenants", "policy"}
  /\ WaiversInit /\ HoldsInit /\ CovenantsInit /\ PolicyInit

ControlsNext ==
  \/ part = "waivers" /\ WaiversNext /\ UNCHANGED <<holdVars, evaluations, policyVars, part>>
  \/ part = "holds" /\ HoldsNext /\ UNCHANGED <<waiverVars, evaluations, policyVars, part>>
  \/ part = "covenants" /\ CovenantsNext /\ UNCHANGED <<waiverVars, holdVars, policyVars, part>>
  \/ part = "policy" /\ PolicyNext /\ UNCHANGED <<waiverVars, holdVars, evaluations, part>>

ControlsSpec == ControlsInit /\ [][ControlsNext]_controlVars

MCExceptionType == {"covenant_breach", "evidence_insufficient", "other"}
MCRole == {"risk_officer", "analyst"}
MCWaiverAmount == {500000, 500001}
MCDueDate == {0}

\* Sound collateral, one with liens of two kinds, and one with everything
\* else wrong, at the boundaries of variance, age and loan to value.
Sound == [municipal |-> 100, appraisal |-> 115, valuationAge |-> 365, uccFilings |-> FALSE, taxLiens |-> FALSE,
          mechanicsLiens |-> FALSE, titleStatus |-> "clear", insuranceStatus |-> "active",
          ltvMetric |-> 75, maxLTV |-> 75]
MCCollateral ==
  {Sound,
   [Sound EXCEPT !.uccFilings = TRUE, !.taxLiens = TRUE],
   [Sound EXCEPT !.appraisal = 84, !.municipal = 100, !.insuranceStatus = "lapsed"],
   [Sound EXCEPT !.ltvMetric = 76, !.municipal = 0]}
MCManualReason == {"lien_detected", "collateral_transfer"}
MCReleaseCondition == {"title_cured", "approved"}

MCCategory == {"loan_to_value", "debt_service_coverage_ratio"}
MCThreshold == {20}
MCTolerance == {0, 10, 50}
MCMeasure == 8..22

\* A ceiling below, at and above the phase's limit; carriers report a fall, a
\* debt beyond the cash value, nonsense, and old figures.
MCTerms ==
  {[cash |-> 10, loan |-> 0, rate |-> 1, phase |-> "origination", hard |-> 60, soft |-> 50],
   [cash |-> 20, loan |-> 8, rate |-> 1, phase |-> "mature", hard |-> 95, soft |-> 60]}
MCCarrierData ==
  {[cash |-> 10, loan |-> 5, rate |-> 0, stale |-> FALSE],
   [cash |-> 10, loan |-> 9, rate |-> 1, stale |-> FALSE],
   [cash |-> -1, loan |-> -1, rate |-> 1, stale |-> TRUE]}
MCDividend == {-5, 5}
=============================================================================
