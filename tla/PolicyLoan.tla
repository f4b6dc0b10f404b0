----------------------------- MODULE PolicyLoan -----------------------------
(***************************************************************************)
(* A loan against the cash value of an insurance policy                    *)
(* (adapters/policy-loan-service.ts behind createPolicyLoanRouter of       *)
(* api/index.ts).  Every operation is synchronous, hence one step; the     *)
(* policies of the map do not touch each other, so there is one.           *)
(*                                                                         *)
(* Money is in whole units, loan-to-value limits in percent, and a rate is *)
(* the interest on one unit for one tick of the clock, so that the linear  *)
(* interest is exact.  policyLoanLTV is recomputed by updatePolicy at      *)
(* every write and therefore no state of its own.                          *)
(***************************************************************************)
EXTENDS Integers

CONSTANTS NoPolicy,
          Terms,     \* what a policy is created with: [cash, loan, rate, phase, hard, soft]
          CarrierData, \* what a carrier reports: [cash, loan, rate, stale]
          Amount,    \* of draws and repayments
          Dividend,  \* changes of the cash value
          MaxNow, MaxInterest, MaxLoan, MaxCash, MaxMissed, MaxDraws

PolicyPhase == {"origination", "seasoned", "mature"}

ASSUME PolicyConstants ==
  /\ Terms \subseteq [cash : Nat, loan : Nat, rate : Nat, phase : PolicyPhase, hard : Nat, soft : Nat]
  /\ CarrierData \subseteq [cash : Int, loan : Int, rate : Int, stale : BOOLEAN]
  /\ Amount \subseteq Nat \ {0} /\ Dividend \subseteq Int /\ MaxNow \in Nat

VARIABLES policy,    \* the record of the policy, or NoPolicy
          alerts,    \* the types of the alerts raised for it
          approvals, \* the CAPITAL_REQUEST_APPROVED events of POST /draw
          now,
          unseen     \* the figures came from outside and were not checked since
policyVars == <<policy, alerts, approvals, now, unseen>>

PolicyInit == policy = NoPolicy /\ alerts = {} /\ approvals = 0 /\ now = 0 /\ unseen = FALSE

Larger(a, b) == IF a > b THEN a ELSE b
Smaller(a, b) == IF a < b THEN a ELSE b

Debt(p) == p.loan + p.accrued

\* calculateLTV is infinite for a policy without value.
LTVAtLeast(p, percent) == p.cash = 0 \/ 100 * Debt(p) >= percent * p.cash
LTVAbove(p, percent) == p.cash = 0 \/ 100 * Debt(p) > percent * p.cash

getPhaseMaxLTV(phase) == CASE phase = "seasoned" -> 80 [] phase = "mature" -> 90 [] OTHER -> 70

\* (a bug) The ceiling is the phase's alone.
MaxAllowedLTV_PhaseOnly(p) == getPhaseMaxLTV(p.phase)

MaxAllowedLTV(p) == Smaller(getPhaseMaxLTV(p.phase), p.hard)

\* (a bug) Lapse is recognised only beyond the cash value.
checkLapseCondition_Beyond(p) ==
  IF Debt(p) > p.cash THEN [p EXCEPT !.lapsed = TRUE, !.frozen = TRUE]
  ELSE IF LTVAtLeast(p, p.hard) THEN [p EXCEPT !.frozen = TRUE] ELSE p

checkLapseCondition(p) ==
  IF Debt(p) >= p.cash THEN [p EXCEPT !.lapsed = TRUE, !.frozen = TRUE]
  ELSE IF LTVAtLeast(p, p.hard) THEN [p EXCEPT !.frozen = TRUE] ELSE p

\* Interest from the last accrual to a date; the date is taken over even if it
\* is the earlier one.
Interest(p, date) == IF p.loan = 0 THEN 0 ELSE p.loan * p.rate * Larger(0, date - p.last)

Accrued(p, date) ==
  IF p.loan = 0 THEN [p EXCEPT !.last = date]
  ELSE checkLapseCondition([p EXCEPT !.accrued = @ + Interest(p, date), !.last = date])

-----------------------------------------------------------------------------
(* The life of a policy                                                    *)

NewPolicy(terms) ==
  [cash |-> terms.cash, loan |-> terms.loan, rate |-> terms.rate, phase |-> terms.phase,
   hard |-> terms.hard, soft |-> terms.soft, accrued |-> 0, last |-> now,
   missed |-> 0, delinquent |-> FALSE, frozen |-> FALSE, lapsed |-> FALSE, stale |-> FALSE]

createPolicy(terms) ==
  /\ policy = NoPolicy
  /\ policy' = NewPolicy(terms)
  /\ unseen' = TRUE
  /\ UNCHANGED <<alerts, approvals, now>>

deletePolicy ==
  /\ policy # NoPolicy
  /\ policy' = NoPolicy /\ unseen' = FALSE
  /\ UNCHANGED <<alerts, approvals, now>>

\* POST /draw.  A draw that is refused at the ceiling leaves the accrual behind.
recordDraw(amount) ==
  LET p == Accrued(policy, now)
      drawn == [p EXCEPT !.loan = @ + amount]
      atSoft == LTVAtLeast(drawn, p.soft)
      refused == LTVAbove(drawn, MaxAllowedLTV(p))
  IN  /\ policy # NoPolicy /\ ~policy.lapsed /\ ~policy.frozen /\ ~policy.stale
      /\ approvals < MaxDraws /\ drawn.loan <= MaxLoan /\ Interest(policy, now) + policy.accrued <= MaxInterest
      /\ policy' = IF refused THEN p ELSE [drawn EXCEPT !.frozen = @ \/ atSoft]
      /\ alerts' = IF ~refused /\ atSoft THEN alerts \cup {"ltv_warning"} ELSE alerts
      /\ approvals' = IF refused THEN approvals ELSE approvals + 1
      /\ unseen' = (unseen /\ policy.loan = 0)
      /\ UNCHANGED now

\* POST /policy/:policyId/accrue, for any date the caller names.
accrueInterest(date) ==
  /\ policy # NoPolicy /\ Interest(policy, date) + policy.accrued <= MaxInterest
  /\ policy' = Accrued(policy, date)
  /\ unseen' = (unseen /\ policy.loan = 0)
  /\ UNCHANGED <<alerts, approvals, now>>

\* Interest is paid first; what exceeds the debt is lost.
Repaid(p, amount) ==
  LET interest == Smaller(amount, p.accrued)
  IN  [p EXCEPT !.accrued = @ - interest, !.loan = @ - Smaller(amount - interest, @)]

\* (a bug) A repayment brings a lapsed policy back.
recordRepayment_Reinstates(amount) ==
  LET paid == Repaid(Accrued(policy, now), amount)
  IN  /\ policy # NoPolicy /\ Interest(policy, now) + policy.accrued <= MaxInterest
      /\ policy' = [paid EXCEPT !.frozen = @ /\ LTVAtLeast(paid, paid.soft), !.lapsed = @ /\ Debt(paid) >= paid.cash]
      /\ unseen' = (unseen /\ policy.loan = 0)
      /\ UNCHANGED <<alerts, approvals, now>>

recordRepayment(amount) ==
  LET paid == Repaid(Accrued(policy, now), amount)
  IN  /\ policy # NoPolicy /\ Interest(policy, now) + policy.accrued <= MaxInterest
      /\ policy' = [paid EXCEPT !.frozen = @ /\ LTVAtLeast(paid, paid.soft)]
      /\ unseen' = (unseen /\ policy.loan = 0)
      /\ UNCHANGED <<alerts, approvals, now>>

recordPremiumPayment ==
  /\ policy # NoPolicy
  /\ policy' = [policy EXCEPT !.missed = 0, !.delinquent = FALSE]
  /\ UNCHANGED <<alerts, approvals, now, unseen>>

recordMissedPremium ==
  /\ policy # NoPolicy /\ policy.missed < MaxMissed
  /\ policy' = [policy EXCEPT !.missed = @ + 1, !.delinquent = TRUE, !.frozen = @ \/ policy.missed + 1 >= 3]
  /\ alerts' = IF policy.missed + 1 >= 3 THEN alerts \cup {"lapse_warning"} ELSE alerts
  /\ UNCHANGED <<approvals, now, unseen>>

adjustDividend(delta) ==
  /\ policy # NoPolicy /\ policy.cash + delta <= MaxCash
  /\ policy' = checkLapseCondition([policy EXCEPT !.cash = Larger(0, @ + delta)])
  /\ unseen' = FALSE
  /\ UNCHANGED <<alerts, approvals, now>>

\* The carrier's figures replace the policy's, or make a policy with the
\* default terms of the origination phase.  Interest accrued so far stays,
\* and the lapse condition is not looked at.
importCarrierData(data) ==
  LET cash == Larger(0, data.cash)
      loan == Larger(0, data.loan)
      rate == Larger(0, data.rate)
      p == IF policy # NoPolicy THEN policy
           ELSE NewPolicy([cash |-> cash, loan |-> loan, rate |-> rate,
                           phase |-> "origination", hard |-> 70, soft |-> 60])
  IN  /\ policy' = [p EXCEPT !.cash = cash, !.loan = loan, !.rate = rate, !.stale = data.stale]
      /\ alerts' = IF data.stale THEN alerts \cup {"staleness"} ELSE alerts
      /\ unseen' = TRUE
      /\ UNCHANGED <<approvals, now>>

Tick == now < MaxNow /\ now' = now + 1 /\ UNCHANGED <<policy, alerts, approvals, unseen>>

PolicyNext ==
  \/ \E terms \in Terms : createPolicy(terms)
  \/ deletePolicy
  \/ \E amount \in Amount : recordDraw(amount) \/ recordRepayment(amount)
  \/ \E date \in 0..MaxNow : accrueInterest(date)
  \/ recordPremiumPayment \/ recordMissedPremium
  \/ \E delta \in Dividend : adjustDividend(delta)
  \/ \E data \in CarrierData : importCarrierData(data)
  \/ Tick

PolicySpec == PolicyInit /\ [][PolicyNext]_policyVars

-----------------------------------------------------------------------------
(* Properties                                                              *)

\* An approved draw leaves the debt, interest up to now included, within the
\* phase's limit and the policy's own ceiling, on a policy that is not
\* lapsed, and draws frozen exactly if the soft threshold is reached.
\* recordDraw looks at lapse and freeze only before it accrues the interest
\* that may cause either; the ceiling makes up for it.
DrawWithinLimit ==
  [][approvals' > approvals =>
       /\ ~policy'.lapsed /\ ~policy'.stale /\ policy'.cash > 0
       /\ 100 * Debt(policy') <= policy'.hard * policy'.cash
       /\ 100 * Debt(policy') <= getPhaseMaxLTV(policy'.phase) * policy'.cash
       /\ policy'.frozen <=> 100 * Debt(policy') >= policy'.soft * policy'.cash]_policyVars

\* A policy whose debt has reached its cash value is lapsed, unless the
\* figures are as its creation or a carrier import left them: nothing checks
\* those until a dividend, or interest on a loan, comes next
\* (checkLapseCondition).
LapseNoticed ==
  (policy # NoPolicy /\ ~unseen /\ Debt(policy) >= policy.cash) => policy.lapsed

\* A lapse is never undone, and frozen draws are released only when the debt
\* is below the soft threshold, whatever repayments, premiums, dividends,
\* accruals to other dates and imports do in between (recordRepayment).
StandingKept ==
  [][(policy # NoPolicy /\ policy' # NoPolicy) =>
       /\ policy.lapsed => policy'.lapsed
       /\ (policy.frozen /\ ~policy'.frozen) => 100 * Debt(policy') < policy'.soft * policy'.cash]_policyVars
=============================================================================
