-------------------------- MODULE ExceptionWaivers --------------------------
(***************************************************************************)
(* Exceptions and the waivers asked for them (workflow/exception-waiver.ts *)
(* behind createExceptionRouter of api/index.ts), of one tenant.           *)
(*                                                                         *)
(* Every operation changes the two maps before its first await, so each is *)
(* one step.  A waiver has at most one follow-up condition, due on a day.  *)
(* decidedAt is the waiver's place in the order of the decisions.          *)
(***************************************************************************)
EXTENDS Naturals, Sequences, FiniteSets

CONSTANTS ExceptionType,  \* the types of exception in use
          Role,           \* the authorizers' roles, in lower case
          WaiverAmount,   \* the amounts asked for, 0 when there is none
          DueDate,        \* the due dates of follow-up conditions
          DenialReason,   \* the reasons given for a denial
          NoDue,          \* no follow-up condition
          MaxExceptions, MaxWaivers, MaxToday

ENHANCED_APPROVAL_EXCEPTION_TYPES == {"collateral_impairment", "covenant_breach", "policy_threshold_breach"}
ENHANCED_AUTHORIZER_ROLES == {"chief_credit_officer", "risk_officer", "investment_committee",
                              "managing_director", "admin", "senior_approver"}
EnhancedAmount == 500000

VARIABLES exceptions,  \* the exceptions, in the order of their creation
          waivers,     \* the waivers, in the order of the requests
          announced,   \* the events: what was told of which exception
          date
waiverVars == <<exceptions, waivers, announced, date>>

NoRole == "none"
Closed(e) == exceptions[e].status \in {"resolved", "denied"}
Decided == {w \in DOMAIN waivers : waivers[w].status # "requested"}
WaiversInit == exceptions = <<>> /\ waivers = <<>> /\ announced = {} /\ date = 0

createException(type) ==
  /\ Len(exceptions) < MaxExceptions
  /\ exceptions' = Append(exceptions, [type |-> type, status |-> "open"])
  /\ announced' = announced \cup
       {<<CASE type = "covenant_breach" -> "COVENANT_BREACHED"
            [] type = "evidence_insufficient" -> "EVIDENCE_FLAGGED"
            [] OTHER -> "SETTLEMENT_EXCEPTION", Len(exceptions) + 1>>}
  /\ UNCHANGED <<waivers, date>>

escalateException(e) ==
  /\ ~Closed(e)
  /\ exceptions' = [exceptions EXCEPT ![e].status = "escalated"]
  /\ announced' = announced \cup {<<"CAPITAL_REQUEST_ESCALATED", e>>}
  /\ UNCHANGED <<waivers, date>>

NewWaiver(e, amount, due) ==
  /\ Len(waivers) < MaxWaivers
  /\ waivers' = Append(waivers,
       [exception |-> e, amount |-> amount, due |-> due, status |-> "requested",
        role |-> NoRole, decidedAt |-> 0,
        condition |-> IF due = NoDue THEN "none" ELSE "pending"])
  /\ exceptions' = [exceptions EXCEPT ![e].status = "under_review"]
  /\ UNCHANGED <<announced, date>>

requestWaiver(e, amount, due) == ~Closed(e) /\ NewWaiver(e, amount, due)

\* (a bug) The type of the exception is not considered.
requiresEnhancedApproval_AmountOnly(w) == waivers[w].amount > EnhancedAmount

requiresEnhancedApproval(w) ==
  \/ exceptions[waivers[w].exception].type \in ENHANCED_APPROVAL_EXCEPTION_TYPES
  \/ waivers[w].amount > EnhancedAmount

\* A signed hash is always there: the route makes one up when none is sent.
approveWaiver(w, role) ==
  /\ waivers[w].status = "requested"
  /\ requiresEnhancedApproval(w) => role \in ENHANCED_AUTHORIZER_ROLES
  /\ waivers' = [waivers EXCEPT ![w].status = "approved", ![w].role = role,
                                ![w].decidedAt = Cardinality(Decided) + 1]
  /\ exceptions' = [exceptions EXCEPT ![waivers[w].exception].status = "resolved"]
  /\ announced' = announced \cup {<<"COVENANT_WAIVED", waivers[w].exception>>}
  /\ UNCHANGED date

\* No event tells of it, and the route gives its reason where the service
\* expects the authorizer's role.
denyWaiver(w, reason) ==
  /\ waivers[w].status = "requested"
  /\ waivers' = [waivers EXCEPT ![w].status = "denied", ![w].role = reason,
                                ![w].decidedAt = Cardinality(Decided) + 1]
  /\ exceptions' = [exceptions EXCEPT ![waivers[w].exception].status = "denied"]
  /\ UNCHANGED <<announced, date>>

satisfyFollowUpCondition(w) ==
  /\ waivers[w].condition # "none"
  /\ waivers' = [waivers EXCEPT ![w].condition = "satisfied"]
  /\ UNCHANGED <<exceptions, announced, date>>

checkOverdueFollowUpConditions ==
  /\ waivers' = [w \in DOMAIN waivers |->
       IF waivers[w].status = "approved" /\ waivers[w].condition = "pending" /\ waivers[w].due < date
       THEN [waivers[w] EXCEPT !.condition = "overdue"] ELSE waivers[w]]
  /\ UNCHANGED <<exceptions, announced, date>>

Tomorrow == date < MaxToday /\ date' = date + 1 /\ UNCHANGED <<exceptions, waivers, announced>>

WaiversNext ==
  \/ \E type \in ExceptionType : createException(type)
  \/ \E e \in DOMAIN exceptions :
       \/ escalateException(e)
       \/ \E amount \in WaiverAmount, due \in DueDate \cup {NoDue} : requestWaiver(e, amount, due)
  \/ \E w \in DOMAIN waivers :
       \/ \E role \in Role : approveWaiver(w, role)
       \/ \E reason \in DenialReason : denyWaiver(w, reason)
       \/ satisfyFollowUpCondition(w)
  \/ checkOverdueFollowUpConditions
  \/ Tomorrow

WaiversSpec == WaiversInit /\ [][WaiversNext]_waiverVars

-----------------------------------------------------------------------------
(* Properties                                                              *)

\* An exception stands as the latest decision on any of its waivers left it:
\* a waiver that was still waiting overturns an earlier decision either way,
\* and before the first decision the exception is not closed.  If it is
\* resolved, that decision was made by someone whose role is enough for the
\* exception's type and for that waiver's amount (approveWaiver, denyWaiver).
LatestDecisionStands ==
  \A e \in DOMAIN exceptions :
    LET own == {w \in Decided : waivers[w].exception = e}
        enhanced(w) == exceptions[e].type \in ENHANCED_APPROVAL_EXCEPTION_TYPES
                       \/ waivers[w].amount > EnhancedAmount
    IN  IF own = {} THEN ~Closed(e)
        ELSE \E w \in own :
               /\ \A x \in own : waivers[x].decidedAt <= waivers[w].decidedAt
               /\ \/ waivers[w].status = "denied" /\ exceptions[e].status = "denied"
                  \/ /\ waivers[w].status = "approved" /\ exceptions[e].status = "resolved"
                     /\ enhanced(w) => waivers[w].role \in ENHANCED_AUTHORIZER_ROLES
=============================================================================
