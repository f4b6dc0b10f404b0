------------------------------ MODULE Covenants ------------------------------
(***************************************************************************)
(* Covenants (covenant/covenant-engine.ts): the grading of a measured      *)
(* value, as POST /evaluate of createCovenantRouter (api/index.ts) calls   *)
(* it and keeps the results.  Values are whole numbers and tolerances      *)
(* percentages, 0 for one that is left out.  The functions that check      *)
(* transitions between covenant states have no caller and keep no state.   *)
(***************************************************************************)
EXTENDS Integers, FiniteSets

CONSTANTS Category, Threshold, Tolerance, Measure, MaxEvaluations

ASSUME CovenantConstants == Threshold \subseteq Nat /\ Tolerance \subseteq Nat /\ Measure \subseteq Int

Severity == [compliant |-> 0, warning |-> 1, breached |-> 2]

VARIABLE evaluations  \* what POST /evaluate has stored

CovenantsInit == evaluations = {}

isHigherWorse(category) ==
  category \in {"loan_to_value", "construction_budget_variance", "completion_date_variance",
                "collateral_concentration", "portfolio_leverage", "cross_default"}

\* (a bug) The tolerance widens both kinds of covenant upwards.
evaluateCovenant_Above(definition, value) ==
  LET boundary == definition.threshold * (100 + definition.tolerance)
  IN  IF isHigherWorse(definition.category)
      THEN IF value > definition.threshold THEN "breached"
           ELSE IF 100 * value > boundary THEN "warning" ELSE "compliant"
      ELSE IF 100 * value < boundary THEN "breached"
           ELSE IF value < definition.threshold THEN "warning" ELSE "compliant"

\* The tolerance warns before the threshold where higher is worse, and allows
\* for falling short of it where lower is worse.
evaluateCovenant(definition, value) ==
  LET boundary == definition.threshold * (100 - definition.tolerance)
  IN  IF isHigherWorse(definition.category)
      THEN IF value > definition.threshold THEN "breached"
           ELSE IF 100 * value > boundary THEN "warning" ELSE "compliant"
      ELSE IF 100 * value < boundary THEN "breached"
           ELSE IF value < definition.threshold THEN "warning" ELSE "compliant"

\* POST /evaluate: a threshold or tolerance of 0 counts as none given.
EvaluateRoute(category, threshold, override, tolerance, value) ==
  LET definition == [category |-> category,
                     threshold |-> IF override # 0 THEN override ELSE threshold,
                     tolerance |-> IF tolerance # 0 THEN tolerance ELSE 10]
  IN  /\ Cardinality(evaluations) < MaxEvaluations
      /\ evaluations' = evaluations \cup
           {[definition |-> definition, value |-> value, state |-> evaluateCovenant(definition, value)]}

CovenantsNext ==
  \E category \in Category, threshold \in Threshold, override \in {0} \cup Threshold,
     tolerance \in Tolerance, value \in Measure :
    EvaluateRoute(category, threshold, override, tolerance, value)

CovenantsSpec == CovenantsInit /\ [][CovenantsNext]_evaluations

-----------------------------------------------------------------------------
(* Properties                                                              *)

\* Of two evaluations under the same terms the one of the worse value is
\* never graded better; a breach is always on the wrong side of the
\* threshold and a compliant value never is, for either direction and with
\* the tolerance that POST /evaluate puts in (evaluateCovenant).
GradesInOrder ==
  \A x, y \in evaluations : x.definition = y.definition =>
    LET higher == isHigherWorse(x.definition.category)
        wrong(v) == IF higher THEN v > x.definition.threshold ELSE v < x.definition.threshold
    IN  /\ (IF higher THEN x.value >= y.value ELSE x.value <= y.value) => Severity[x.state] >= Severity[y.state]
        /\ (x.state = "breached" => wrong(x.value)) /\ (x.state = "compliant" => ~wrong(x.value))
=============================================================================
