---------------------------- MODULE PaymentOnce ----------------------------
(***************************************************************************)
(* What the settlement side of a draw promises (ADR-0008): money is asked  *)
(* for at most once, for an amount that never changes afterwards, and what *)
(* the partner confirms is judged once and for all.                        *)
(***************************************************************************)
EXTENDS Naturals

CONSTANTS Draw, MaxAmount

VARIABLE payment     \* for every draw, whether and how much it pays

Unpaid == [amount |-> 0, judged |-> "no"]

Init == payment = [d \in Draw |-> Unpaid]

\* One draw is instructed, for a positive amount within the bound.
Instruct ==
  \E d \in Draw, n \in 1..MaxAmount :
    /\ payment[d] = Unpaid
    /\ payment' = [payment EXCEPT ![d] = [amount |-> n, judged |-> "no"]]

\* A batch of confirmations judges some of the payments that were asked for.
Judge ==
  \E J \in SUBSET {d \in Draw : payment[d].amount > 0 /\ payment[d].judged = "no"} :
    \E v \in [J -> {"matched", "exception"}] :
      payment' = [d \in Draw |-> IF d \in J THEN [payment[d] EXCEPT !.judged = v[d]]
                                 ELSE payment[d]]

Spec == Init /\ [][Instruct \/ Judge]_payment
=============================================================================
