--------------------------- MODULE ControlsProofs ---------------------------
(***************************************************************************)
(* The controls around a draw, each for any number of its own objects:     *)
(* exceptions and their waivers, collateral holds and the evaluations that *)
(* place them, the grades of covenants, and the limits of policy loans for *)
(* any terms, carrier figures, amounts and dates.                          *)
(***************************************************************************)
EXTENDS ExceptionWaivers, CollateralHolds, Covenants, PolicyLoan, ListLemmas, FiniteSetTheorems

-----------------------------------------------------------------------------
(* Exceptions and waivers                                                  *)

ExceptionStatus == {"open", "escalated", "under_review", "resolved", "denied"}

ExceptionRow == [type : ExceptionType, status : ExceptionStatus]

WaiverRow == [exception : Nat, amount : WaiverAmount, due : DueDate \cup {NoDue},
              status : {"requested", "approved", "denied"},
              role : Role \cup DenialReason \cup {NoRole}, decidedAt : Nat,
              condition : {"none", "pending", "satisfied", "overdue"}]

WaiversTyped ==
  /\ exceptions \in Seq(ExceptionRow) /\ waivers \in Seq(WaiverRow)
  /\ \A w \in DOMAIN waivers : waivers[w].exception \in DOMAIN exceptions

\* The decisions are numbered: a new one comes after all of them.
DecidedInOrder == \A w \in Decided : waivers[w].decidedAt <= Cardinality(Decided)

own(e) == {w \in Decided : waivers[w].exception = e}

enhanced(e, w) ==
  exceptions[e].type \in ENHANCED_APPROVAL_EXCEPTION_TYPES \/ waivers[w].amount > EnhancedAmount

\* Waiver w is the latest decided one of exception e and stands.
Stands(e, w) ==
  /\ \A x \in own(e) : waivers[x].decidedAt <= waivers[w].decidedAt
  /\ \/ waivers[w].status = "denied" /\ exceptions[e].status = "denied"
     \/ /\ waivers[w].status = "approved" /\ exceptions[e].status = "resolved"
        /\ enhanced(e, w) => waivers[w].role \in ENHANCED_AUTHORIZER_ROLES

WaiversInv == WaiversTyped /\ DecidedInOrder /\ LatestDecisionStands

\* The property of the run, in the names above.
LEMMA StandsIsLatest ==
  /\ LatestDecisionStands <=>
       \A e \in DOMAIN exceptions :
         IF own(e) = {} THEN ~Closed(e) ELSE \E w \in own(e) : Stands(e, w)
  /\ LatestDecisionStands' <=>
       \A e \in DOMAIN exceptions' :
         IF own(e)' = {} THEN ~Closed(e)' ELSE \E w \in own(e)' : Stands(e, w)'
BY DEF LatestDecisionStands, own, Stands, enhanced

\* The decided waivers are finitely many.
LEMMA DecidedFinite ==
  ASSUME WaiversTyped
  PROVE  IsFiniteSet(Decided) /\ Cardinality(Decided) \in Nat /\ Decided \subseteq DOMAIN waivers
<1>1. DOMAIN waivers = 1..Len(waivers) /\ Len(waivers) \in Nat
  BY LenProperties DEF WaiversTyped
<1>2. IsFiniteSet(DOMAIN waivers)
  BY <1>1, FS_Interval
<1>3. Decided \subseteq DOMAIN waivers
  BY DEF Decided
<1> QED
  BY <1>2, <1>3, FS_Subset, FS_CardinalityType

\* An operation that decides no waiver, and neither closes nor reopens an
\* exception, leaves the decisions standing.
LEMMA DecisionsKept ==
  ASSUME WaiversInv, WaiversTyped',
         DOMAIN waivers \subseteq DOMAIN waivers', DOMAIN exceptions \subseteq DOMAIN exceptions',
         \A w \in DOMAIN waivers :
           /\ waivers'[w].exception = waivers[w].exception /\ waivers'[w].amount = waivers[w].amount
           /\ waivers'[w].status = waivers[w].status /\ waivers'[w].role = waivers[w].role
           /\ waivers'[w].decidedAt = waivers[w].decidedAt,
         \A w \in DOMAIN waivers' \ DOMAIN waivers : waivers'[w].status = "requested",
         \A e \in DOMAIN exceptions :
           /\ exceptions'[e].type = exceptions[e].type
           /\ \/ exceptions'[e].status = exceptions[e].status
              \/ ~Closed(e) /\ ~Closed(e)',
         \A e \in DOMAIN exceptions' \ DOMAIN exceptions : ~Closed(e)'
  PROVE  WaiversInv'
<1>1. Decided' = Decided
  BY DEF Decided
<1>2. \A w \in Decided : w \in DOMAIN waivers
  BY DEF Decided
<1>3. DecidedInOrder'
  BY <1>1, <1>2 DEF WaiversInv, DecidedInOrder
<1>4. \A e : own(e)' = own(e)
  BY <1>1, <1>2 DEF own
<1>5. ASSUME NEW e \in DOMAIN exceptions', own(e) = {} PROVE ~Closed(e)'
  <2>1. CASE e \in DOMAIN exceptions
    <3>1. ~Closed(e)
      BY <1>5, <2>1, StandsIsLatest DEF WaiversInv
    <3> QED
      BY <2>1, <3>1 DEF Closed
  <2>2. CASE e \notin DOMAIN exceptions
    BY <2>2
  <2> QED
    BY <2>1, <2>2
<1>6. ASSUME NEW e \in DOMAIN exceptions', own(e) # {} PROVE \E w \in own(e) : Stands(e, w)'
  <2>1. e \in DOMAIN exceptions
    BY <1>2, <1>6 DEF own, WaiversInv, WaiversTyped
  <2>2. PICK w \in own(e) : Stands(e, w)
    BY <1>6, <2>1, StandsIsLatest DEF WaiversInv
  <2>3. exceptions'[e] = exceptions'[e] /\ exceptions'[e].status = exceptions[e].status
        /\ exceptions'[e].type = exceptions[e].type
    BY <2>1, <2>2 DEF Stands, Closed
  <2>4. \A x \in own(e) : x \in DOMAIN waivers
    BY <1>2 DEF own
  <2>5. Stands(e, w)'
    BY <1>4, <2>2, <2>3, <2>4 DEF Stands, enhanced
  <2> QED
    BY <2>5
<1>7. LatestDecisionStands'
  BY <1>4, <1>5, <1>6, StandsIsLatest
<1> QED
  BY <1>3, <1>7 DEF WaiversInv

\* A new exception has no decision yet.
LEMMA CreateExceptionKeeps ==
  ASSUME WaiversInv, NEW type \in ExceptionType, createException(type)
  PROVE  WaiversInv'
<1> DEFINE row == [type |-> type, status |-> "open"]
<1>1. row \in ExceptionRow /\ row.status = "open"
  BY DEF ExceptionRow, ExceptionStatus
<1>2. exceptions' = Append(exceptions, row) /\ waivers' = waivers
  BY DEF createException
<1> HIDE DEF row
<1>3. /\ exceptions' \in Seq(ExceptionRow)
      /\ DOMAIN exceptions' = DOMAIN exceptions \cup {Len(exceptions) + 1}
      /\ exceptions'[Len(exceptions) + 1] = row
      /\ \A e \in DOMAIN exceptions : exceptions'[e] = exceptions[e]
  BY <1>1, <1>2, AppendedAt DEF WaiversInv, WaiversTyped
<1>4. WaiversTyped'
  BY <1>2, <1>3 DEF WaiversInv, WaiversTyped
<1>5. \A e \in DOMAIN exceptions' \ DOMAIN exceptions : ~Closed(e)'
  BY <1>1, <1>3 DEF Closed
<1> QED
  BY <1>2, <1>3, <1>4, <1>5, DecisionsKept

\* Escalation leaves what was decided.
LEMMA EscalateKeeps ==
  ASSUME WaiversInv, NEW e \in DOMAIN exceptions, escalateException(e)
  PROVE  WaiversInv'
<1> DEFINE row == [exceptions[e] EXCEPT !.status = "escalated"]
<1>1. exceptions[e] \in ExceptionRow
  BY ElementOfSeq, LenProperties DEF WaiversInv, WaiversTyped
<1>2. row \in ExceptionRow /\ row.status = "escalated" /\ row.type = exceptions[e].type
  BY <1>1 DEF ExceptionRow, ExceptionStatus
<1>3. exceptions' = [exceptions EXCEPT ![e] = row] /\ waivers' = waivers /\ ~Closed(e)
  BY DEF escalateException
<1> HIDE DEF row
<1>4. /\ exceptions' \in Seq(ExceptionRow) /\ DOMAIN exceptions' = DOMAIN exceptions
      /\ exceptions'[e] = row
      /\ \A x \in DOMAIN exceptions : x # e => exceptions'[x] = exceptions[x]
  BY <1>2, <1>3, ChangedAt DEF WaiversInv, WaiversTyped
<1>5. WaiversTyped'
  BY <1>3, <1>4 DEF WaiversInv, WaiversTyped
<1>6. ~Closed(e)'
  BY <1>2, <1>4 DEF Closed
<1> QED
  BY <1>2, <1>3, <1>4, <1>5, <1>6, DecisionsKept

\* A new request leaves what was decided on the earlier ones.
LEMMA RequestWaiverKeeps ==
  ASSUME WaiversInv, NEW e \in DOMAIN exceptions, NEW amount \in WaiverAmount,
         NEW due \in DueDate \cup {NoDue}, requestWaiver(e, amount, due)
  PROVE  WaiversInv'
<1> DEFINE row == [exceptions[e] EXCEPT !.status = "under_review"]
           new == [exception |-> e, amount |-> amount, due |-> due, status |-> "requested",
                   role |-> NoRole, decidedAt |-> 0,
                   condition |-> IF due = NoDue THEN "none" ELSE "pending"]
<1>1. exceptions[e] \in ExceptionRow /\ e \in Nat
  BY ElementOfSeq, LenProperties DEF WaiversInv, WaiversTyped
<1>2. row \in ExceptionRow /\ row.status = "under_review" /\ row.type = exceptions[e].type
  BY <1>1 DEF ExceptionRow, ExceptionStatus
<1>3. new \in WaiverRow /\ new.status = "requested" /\ new.exception = e
  BY <1>1 DEF WaiverRow
<1>4. /\ exceptions' = [exceptions EXCEPT ![e] = row] /\ waivers' = Append(waivers, new)
      /\ ~Closed(e)
  BY DEF requestWaiver, NewWaiver
<1> HIDE DEF row, new
<1>5. /\ exceptions' \in Seq(ExceptionRow) /\ DOMAIN exceptions' = DOMAIN exceptions
      /\ exceptions'[e] = row
      /\ \A x \in DOMAIN exceptions : x # e => exceptions'[x] = exceptions[x]
  BY <1>2, <1>4, ChangedAt DEF WaiversInv, WaiversTyped
<1>6. /\ waivers' \in Seq(WaiverRow) /\ DOMAIN waivers' = DOMAIN waivers \cup {Len(waivers) + 1}
      /\ waivers'[Len(waivers) + 1] = new
      /\ \A w \in DOMAIN waivers : waivers'[w] = waivers[w]
  BY <1>3, <1>4, AppendedAt DEF WaiversInv, WaiversTyped
<1>7. WaiversTyped'
  BY <1>3, <1>5, <1>6 DEF WaiversInv, WaiversTyped
<1>8. ~Closed(e)'
  BY <1>2, <1>5 DEF Closed
<1> QED
  BY <1>2, <1>3, <1>4, <1>5, <1>6, <1>7, <1>8, DecisionsKept

\* Meeting a follow-up condition leaves what was decided.
LEMMA SatisfyKeeps ==
  ASSUME WaiversInv, NEW w \in DOMAIN waivers, satisfyFollowUpCondition(w)
  PROVE  WaiversInv'
<1> DEFINE row == [waivers[w] EXCEPT !.condition = "satisfied"]
<1>1. waivers[w] \in WaiverRow
  BY ElementOfSeq, LenProperties DEF WaiversInv, WaiversTyped
<1>2. /\ row \in WaiverRow /\ row.exception = waivers[w].exception /\ row.amount = waivers[w].amount
      /\ row.status = waivers[w].status /\ row.role = waivers[w].role
      /\ row.decidedAt = waivers[w].decidedAt
  BY <1>1 DEF WaiverRow
<1>3. waivers' = [waivers EXCEPT ![w] = row] /\ exceptions' = exceptions
  BY DEF satisfyFollowUpCondition
<1> HIDE DEF row
<1>4. /\ waivers' \in Seq(WaiverRow) /\ DOMAIN waivers' = DOMAIN waivers
      /\ waivers'[w] = row
      /\ \A x \in DOMAIN waivers : x # w => waivers'[x] = waivers[x]
  BY <1>2, <1>3, ChangedAt DEF WaiversInv, WaiversTyped
<1>5. WaiversTyped'
  BY <1>2, <1>3, <1>4 DEF WaiversInv, WaiversTyped
<1> QED
  BY <1>2, <1>3, <1>4, <1>5, DecisionsKept

\* Marking conditions as overdue leaves what was decided.
LEMMA OverdueKeeps ==
  ASSUME WaiversInv, checkOverdueFollowUpConditions
  PROVE  WaiversInv'
<1>1. waivers \in Seq(WaiverRow) /\ DOMAIN waivers = 1..Len(waivers) /\ Len(waivers) \in Nat
  BY LenProperties DEF WaiversInv, WaiversTyped
<1>2. exceptions' = exceptions /\ DOMAIN waivers' = DOMAIN waivers
  BY DEF checkOverdueFollowUpConditions
<1>3. ASSUME NEW w \in DOMAIN waivers
      PROVE  /\ waivers'[w] \in WaiverRow
             /\ waivers'[w].exception = waivers[w].exception /\ waivers'[w].amount = waivers[w].amount
             /\ waivers'[w].status = waivers[w].status /\ waivers'[w].role = waivers[w].role
             /\ waivers'[w].decidedAt = waivers[w].decidedAt
  <2>1. waivers[w] \in WaiverRow
    BY <1>1, ElementOfSeq
  <2>2. waivers'[w] = waivers[w] \/ waivers'[w] = [waivers[w] EXCEPT !.condition = "overdue"]
    BY DEF checkOverdueFollowUpConditions
  <2> QED
    BY <2>1, <2>2 DEF WaiverRow
<1>4. waivers' = [w \in 1..Len(waivers) |-> waivers'[w]]
  BY <1>1 DEF checkOverdueFollowUpConditions
<1>5. waivers' \in Seq(WaiverRow)
  BY <1>1, <1>3, <1>4, IsASeq
<1>6. WaiversTyped'
  BY <1>2, <1>3, <1>5 DEF WaiversInv, WaiversTyped
<1> QED
  BY <1>2, <1>3, <1>6, DecisionsKept

\* A decision is the latest one from then on: what it makes of the exception
\* stands, whatever an earlier one had made of it.
LEMMA DecisionStands ==
  ASSUME WaiversInv, NEW w \in DOMAIN waivers, waivers[w].status = "requested",
         NEW row \in WaiverRow, NEW e, e = waivers[w].exception,
         row.exception = e, row.amount = waivers[w].amount,
         row.decidedAt = Cardinality(Decided) + 1, NEW case \in ExceptionRow,
         case.type = exceptions[e].type,
         \/ row.status = "denied" /\ case.status = "denied"
         \/ /\ row.status = "approved" /\ case.status = "resolved"
            /\ enhanced(e, w) => row.role \in ENHANCED_AUTHORIZER_ROLES,
         waivers' = [waivers EXCEPT ![w] = row], exceptions' = [exceptions EXCEPT ![e] = case]
  PROVE  WaiversInv'
<1>1. e \in DOMAIN exceptions
  BY DEF WaiversInv, WaiversTyped
<1>2. /\ waivers' \in Seq(WaiverRow) /\ DOMAIN waivers' = DOMAIN waivers
      /\ waivers'[w] = row /\ \A x \in DOMAIN waivers : x # w => waivers'[x] = waivers[x]
  BY ChangedAt DEF WaiversInv, WaiversTyped
<1>3. /\ exceptions' \in Seq(ExceptionRow) /\ DOMAIN exceptions' = DOMAIN exceptions
      /\ exceptions'[e] = case
      /\ \A x \in DOMAIN exceptions : x # e => exceptions'[x] = exceptions[x]
  BY <1>1, ChangedAt DEF WaiversInv, WaiversTyped
<1>4. WaiversTyped'
  BY <1>1, <1>2, <1>3 DEF WaiversInv, WaiversTyped
<1>5. IsFiniteSet(Decided) /\ Cardinality(Decided) \in Nat /\ Decided \subseteq DOMAIN waivers
  BY DecidedFinite DEF WaiversInv
<1>6. w \notin Decided /\ Decided' = Decided \cup {w}
  BY <1>2 DEF Decided
<1>7. Cardinality(Decided') = Cardinality(Decided) + 1
  BY <1>5, <1>6, FS_AddElement
<1>8. \A x \in Decided : /\ x # w /\ waivers'[x] = waivers[x]
                         /\ waivers[x].decidedAt \in Nat
                         /\ waivers[x].decidedAt <= Cardinality(Decided)
  <2>1. \A x \in Decided : waivers[x] \in WaiverRow
    BY <1>5, ElementOfSeq, LenProperties DEF WaiversInv, WaiversTyped
  <2> QED
    BY <1>2, <1>5, <1>6, <2>1 DEF WaiverRow, WaiversInv, DecidedInOrder
<1>9. \A x \in Decided' : waivers'[x].decidedAt <= Cardinality(Decided) + 1
  BY <1>2, <1>5, <1>6, <1>8
<1>10. DecidedInOrder'
  BY <1>7, <1>9 DEF DecidedInOrder
<1>11. \A x : own(x)' = own(x) \cup (IF x = e THEN {w} ELSE {})
  BY <1>2, <1>6, <1>8 DEF own
<1>12. Stands(e, w)'
  <2>1. \A x \in own(e)' : waivers'[x].decidedAt <= waivers'[w].decidedAt
    BY <1>2, <1>9 DEF own
  <2>2. enhanced(e, w)' <=> enhanced(e, w)
    BY <1>2, <1>3 DEF enhanced
  <2> QED
    BY <1>2, <1>3, <2>1, <2>2 DEF Stands
<1>13. ASSUME NEW x \in DOMAIN exceptions, x # e
       PROVE  IF own(x)' = {} THEN ~Closed(x)' ELSE \E y \in own(x)' : Stands(x, y)'
  <2>1. own(x)' = own(x) /\ exceptions'[x] = exceptions[x]
    BY <1>3, <1>11, <1>13
  <2>2. \A y \in own(x) : waivers'[y] = waivers[y]
    BY <1>8 DEF own
  <2>3. IF own(x) = {} THEN ~Closed(x) ELSE \E y \in own(x) : Stands(x, y)
    BY StandsIsLatest DEF WaiversInv
  <2>4. CASE own(x) = {}
    BY <2>1, <2>3, <2>4 DEF Closed
  <2>5. CASE own(x) # {}
    <3>1. PICK y \in own(x) : Stands(x, y)
      BY <2>3, <2>5
    <3>2. Stands(x, y)'
      BY <2>1, <2>2, <3>1 DEF Stands, enhanced
    <3> QED
      BY <2>1, <2>5, <3>2
  <2> QED
    BY <2>4, <2>5
<1>14. w \in own(e)'
  BY <1>11
<1>15. LatestDecisionStands'
  BY <1>3, <1>12, <1>13, <1>14, StandsIsLatest
<1> QED
  BY <1>4, <1>10, <1>15 DEF WaiversInv

\* An approval is the latest decision.
LEMMA ApproveWaiverKeeps ==
  ASSUME WaiversInv, NEW w \in DOMAIN waivers, NEW role \in Role, approveWaiver(w, role)
  PROVE  WaiversInv'
<1> DEFINE e == waivers[w].exception
           n == Cardinality(Decided) + 1
           row == [waivers[w] EXCEPT !.status = "approved", !.role = role, !.decidedAt = n]
           case == [exceptions[e] EXCEPT !.status = "resolved"]
<1>1. waivers[w] \in WaiverRow /\ exceptions[e] \in ExceptionRow
  BY ElementOfSeq, LenProperties DEF WaiversInv, WaiversTyped
<1>2. n \in Nat
  BY DecidedFinite DEF WaiversInv
<1> HIDE DEF n
<1>3. /\ row \in WaiverRow /\ row.exception = e /\ row.amount = waivers[w].amount
      /\ row.decidedAt = n /\ row.status = "approved" /\ row.role = role
  BY <1>1, <1>2 DEF WaiverRow
<1>4. case \in ExceptionRow /\ case.type = exceptions[e].type /\ case.status = "resolved"
  BY <1>1 DEF ExceptionRow, ExceptionStatus
<1>5. /\ waivers[w].status = "requested"
      /\ waivers' = [waivers EXCEPT ![w] = row] /\ exceptions' = [exceptions EXCEPT ![e] = case]
      /\ enhanced(e, w) => role \in ENHANCED_AUTHORIZER_ROLES
  BY DEF approveWaiver, requiresEnhancedApproval, enhanced, n
<1> HIDE DEF row, case, e
<1> QED
  BY <1>3, <1>4, <1>5, DecisionStands DEF e, n

\* A denial is the latest decision.
LEMMA DenyWaiverKeeps ==
  ASSUME WaiversInv, NEW w \in DOMAIN waivers, NEW reason \in DenialReason, denyWaiver(w, reason)
  PROVE  WaiversInv'
<1> DEFINE e == waivers[w].exception
           n == Cardinality(Decided) + 1
           row == [waivers[w] EXCEPT !.status = "denied", !.role = reason, !.decidedAt = n]
           case == [exceptions[e] EXCEPT !.status = "denied"]
<1>1. waivers[w] \in WaiverRow /\ exceptions[e] \in ExceptionRow
  BY ElementOfSeq, LenProperties DEF WaiversInv, WaiversTyped
<1>2. n \in Nat
  BY DecidedFinite DEF WaiversInv
<1> HIDE DEF n
<1>3. /\ row \in WaiverRow /\ row.exception = e /\ row.amount = waivers[w].amount
      /\ row.decidedAt = n /\ row.status = "denied"
  BY <1>1, <1>2 DEF WaiverRow
<1>4. case \in ExceptionRow /\ case.type = exceptions[e].type /\ case.status = "denied"
  BY <1>1 DEF ExceptionRow, ExceptionStatus
<1>5. /\ waivers[w].status = "requested"
      /\ waivers' = [waivers EXCEPT ![w] = row] /\ exceptions' = [exceptions EXCEPT ![e] = case]
  BY DEF denyWaiver, n
<1> HIDE DEF row, case, e
<1> QED
  BY <1>3, <1>4, <1>5, DecisionStands DEF e, n

\* Every operation on exceptions keeps the invariant.
LEMMA WaiversStep == WaiversInv /\ [WaiversNext]_waiverVars => WaiversInv'
<1> SUFFICES ASSUME WaiversInv, [WaiversNext]_waiverVars PROVE WaiversInv'
  OBVIOUS
<1>1. ASSUME UNCHANGED <<exceptions, waivers>> PROVE WaiversInv'
  BY <1>1, DecisionsKept DEF WaiversInv, WaiversTyped
<1>2. CASE \E type \in ExceptionType : createException(type)
  BY <1>2, CreateExceptionKeeps
<1>3. CASE \E e \in DOMAIN exceptions :
             \/ escalateException(e)
             \/ \E amount \in WaiverAmount, due \in DueDate \cup {NoDue} : requestWaiver(e, amount, due)
  BY <1>3, EscalateKeeps, RequestWaiverKeeps
<1>4. CASE \E w \in DOMAIN waivers :
             \/ \E role \in Role : approveWaiver(w, role)
             \/ \E reason \in DenialReason : denyWaiver(w, reason)
             \/ satisfyFollowUpCondition(w)
  BY <1>4, ApproveWaiverKeeps, DenyWaiverKeeps, SatisfyKeeps
<1>5. CASE checkOverdueFollowUpConditions
  BY <1>5, OverdueKeeps
<1>6. CASE Tomorrow \/ UNCHANGED waiverVars
  BY <1>1, <1>6 DEF Tomorrow, waiverVars
<1> QED
  BY <1>2, <1>3, <1>4, <1>5, <1>6 DEF WaiversNext

\* Any waiver still waiting can overturn an earlier decision, and whichever
\* was decided last stands, by someone whose role was enough for it
\* (approveWaiver, denyWaiver).
THEOREM LatestDecisionAlwaysStands == WaiversSpec => []LatestDecisionStands
<1>1. WaiversInit => WaiversInv
  <2> SUFFICES ASSUME WaiversInit PROVE WaiversInv
    OBVIOUS
  <2>1. exceptions = <<>> /\ waivers = <<>> /\ DOMAIN <<>> = {}
    BY DEF WaiversInit
  <2> QED
    BY <2>1 DEF WaiversInv, WaiversTyped, DecidedInOrder, Decided, LatestDecisionStands
<1>2. WaiversInv => LatestDecisionStands
  BY DEF WaiversInv
<1> QED
  BY <1>1, <1>2, WaiversStep, PTL DEF WaiversSpec

-----------------------------------------------------------------------------
(* Collateral holds                                                        *)

Trigger == ReinspectTriggers \cup {"insurance_lapse", "ltv_exceeds_policy"} \cup ManualReason

HoldRow == [asset : Asset, project : Project, request : Request \cup {NoRequest},
            reason : Trigger, status : {"active", "escalated", "converted_to_block", "released"}]

PlacingCall == [step : {"next", "reinspect"}, asset : Asset, project : Project,
                request : Request \cup {NoRequest}, found : SUBSET Trigger, todo : Seq(Trigger),
                hold : Nat, gone : SUBSET Nat]

HoldsTyped ==
  /\ holds \in Seq(HoldRow)
  /\ placing \in [Placer -> {Unoccupied} \cup PlacingCall]
  /\ \A c \in Placer : placing[c] # Unoccupied => placing[c].gone \subseteq DOMAIN holds

\* A release is told of holds that are released, and of no others.
ReleasesTold ==
  \A h : <<"RELEASE_HOLD", h>> \in notices => h \in DOMAIN holds /\ holds[h].status = "released"

\* What a call has found and dealt with is held.
HeldFor(list, call) ==
  \A t \in call.found \ {call.todo[i] : i \in DOMAIN call.todo} :
    \E h \in DOMAIN list \ call.gone : list[h].asset = call.asset /\ list[h].reason = t

HoldsInv == HoldsTyped /\ ReleasesTold /\ FindingIsHeld

\* The property of the run, in these names.
LEMMA FindingHeldFor ==
  /\ FindingIsHeld <=> \A c \in Placer : placing[c] # Unoccupied => HeldFor(holds, placing[c])
  /\ FindingIsHeld' <=> \A c \in Placer : placing'[c] # Unoccupied => HeldFor(holds', placing'[c])
BY DEF FindingIsHeld, HeldFor

\* More holds, and other states of those there are, keep a finding held.
LEMMA HeldForMore ==
  ASSUME NEW list, NEW more, DOMAIN list \subseteq DOMAIN more,
         \A h \in DOMAIN list : more[h].asset = list[h].asset /\ more[h].reason = list[h].reason,
         NEW call, HeldFor(list, call)
  PROVE  HeldFor(more, call)
BY DEF HeldFor

\* What an evaluation finds are triggers.
LEMMA FoundTriggers ==
  ASSUME NEW x
  PROVE  evaluateCollateralRisk(x) \in Seq(Trigger)
<1>1. \A s, t \in Seq(Trigger) : s \o t \in Seq(Trigger)
  BY ConcatProperties
<1>2. \A cond : \A t \in Trigger : (IF cond THEN <<t>> ELSE <<>>) \in Seq(Trigger)
  OBVIOUS
<1>3. {"appraisal_municipal_variance", "stale_appraisal", "lien_detected", "title_defect",
       "insurance_lapse", "ltv_exceeds_policy"} \subseteq Trigger
  BY DEF Trigger, ReinspectTriggers
<1> HIDE DEF Trigger
<1> QED
  BY <1>1, <1>2, <1>3 DEF evaluateCollateralRisk

\* Going on with a call deals with its next finding, or ends it.
LEMMA CreateHoldKeeps ==
  ASSUME HoldsInv, NEW c \in Placer, NEW call \in PlacingCall, call.gone \subseteq DOMAIN holds,
         HeldFor(holds, call), createHold(c, call)
  PROVE  /\ HoldsInv' /\ DOMAIN holds \subseteq DOMAIN holds'
         /\ \A h \in DOMAIN holds : holds'[h] = holds[h]
<1>1. CASE call.todo = <<>>
  <2>1. /\ placing' = [placing EXCEPT ![c] = Unoccupied]
        /\ UNCHANGED <<holds, notices>>
    BY <1>1 DEF createHold
  <2>2. HoldsTyped' /\ ReleasesTold'
    BY <2>1 DEF HoldsInv, HoldsTyped, ReleasesTold
  <2>3. FindingIsHeld'
    BY <2>1, FindingHeldFor DEF HoldsInv, HoldsTyped
  <2> QED
    BY <2>1, <2>2, <2>3 DEF HoldsInv
<1>2. CASE call.todo # <<>>
  <2> DEFINE id == Len(holds) + 1
             row == [asset |-> call.asset, project |-> call.project, request |-> call.request,
                     reason |-> Head(call.todo), status |-> "active"]
             step == IF Head(call.todo) \in ReinspectTriggers THEN "reinspect" ELSE "next"
             after == [call EXCEPT !.todo = Tail(call.todo), !.hold = id, !.step = step]
  <2>1. /\ holds' = Append(holds, row)
        /\ notices' = notices \cup {<<"COLLATERAL_FLAGGED", id>>}
        /\ placing' = [placing EXCEPT ![c] = after]
    BY <1>2 DEF createHold
  <2>2. /\ call.todo \in Seq(Trigger) /\ Head(call.todo) \in Trigger /\ Tail(call.todo) \in Seq(Trigger)
        /\ Len(Tail(call.todo)) = Len(call.todo) - 1
        /\ \A i \in 1..Len(Tail(call.todo)) : Tail(call.todo)[i] = call.todo[i + 1]
    <3>1. call.todo \in Seq(Trigger)
      BY DEF PlacingCall
    <3> QED
      BY <1>2, <3>1, HeadTailProperties
  <2>3. row \in HoldRow /\ row.asset = call.asset /\ row.reason = Head(call.todo)
    BY <2>2 DEF PlacingCall, HoldRow
  <2> HIDE DEF row
  <2>4. /\ holds' \in Seq(HoldRow) /\ Len(holds) \in Nat
        /\ DOMAIN holds' = DOMAIN holds \cup {id} /\ id \notin DOMAIN holds
        /\ holds'[id] = row /\ \A h \in DOMAIN holds : holds'[h] = holds[h]
    BY <2>1, <2>3, AppendedAt DEF HoldsInv, HoldsTyped
  <2>5. id \in Nat /\ step \in {"next", "reinspect"}
    BY <2>4
  <2> HIDE DEF id, step
  <2>6. /\ after \in PlacingCall /\ after.todo = Tail(call.todo) /\ after.asset = call.asset
        /\ after.found = call.found /\ after.gone = call.gone
    BY <2>2, <2>5 DEF PlacingCall
  <2> HIDE DEF after
  <2>7. HoldsTyped'
    BY <2>1, <2>4, <2>6 DEF HoldsInv, HoldsTyped
  <2>8. ReleasesTold'
    <3>1. \A h : <<"RELEASE_HOLD", h>> \in notices' => <<"RELEASE_HOLD", h>> \in notices
      BY <2>1
    <3> QED
      BY <2>4, <3>1 DEF HoldsInv, ReleasesTold
  <2>9. HeldFor(holds', after)
    <3> SUFFICES ASSUME NEW t \in call.found, t \notin {after.todo[i] : i \in DOMAIN after.todo}
                 PROVE  \E h \in DOMAIN holds' \ call.gone :
                          holds'[h].asset = call.asset /\ holds'[h].reason = t
      BY <2>6 DEF HeldFor
    <3>1. CASE t = Head(call.todo)
      BY <2>3, <2>4, <3>1
    <3>2. CASE t # Head(call.todo)
      <4>1. ASSUME NEW i \in DOMAIN call.todo, call.todo[i] = t PROVE FALSE
        <5>1. DOMAIN call.todo = 1..Len(call.todo) /\ Len(call.todo) \in Nat
          BY <2>2, LenProperties
        <5>2. call.todo[1] = Head(call.todo)
          BY <1>2, <2>2
        <5>3. i # 1
          BY <3>2, <4>1, <5>2
        <5>4. i - 1 \in 1..Len(Tail(call.todo)) /\ i - 1 + 1 = i
          BY <2>2, <5>1, <5>3
        <5>5. Tail(call.todo)[i - 1] = t /\ i - 1 \in DOMAIN Tail(call.todo)
          BY <2>2, <4>1, <5>4, LenProperties
        <5> QED
          BY <2>6, <5>5
      <4>2. HeldFor(holds', call)
        BY <2>4, HeldForMore
      <4> QED
        BY <4>1, <4>2 DEF HeldFor
    <3> QED
      BY <3>1, <3>2
  <2>10. FindingIsHeld'
    <3> SUFFICES ASSUME NEW d \in Placer, placing'[d] # Unoccupied
                 PROVE  HeldFor(holds', placing'[d])
      BY FindingHeldFor
    <3>1. CASE d = c
      BY <2>1, <2>9, <3>1 DEF HoldsInv, HoldsTyped
    <3>2. CASE d # c
      <4>1. placing'[d] = placing[d]
        BY <2>1, <3>2 DEF HoldsInv, HoldsTyped
      <4>2. HeldFor(holds, placing[d])
        BY <4>1, FindingHeldFor DEF HoldsInv
      <4> QED
        BY <2>4, <4>1, <4>2, HeldForMore
    <3> QED
      BY <3>1, <3>2
  <2> QED
    BY <2>4, <2>7, <2>8, <2>10 DEF HoldsInv
<1> QED
  BY <1>1, <1>2

\* Beginning a call: findings that are not to be dealt with are held already,
\* by holds that were not released.
LEMMA BeginKeeps ==
  ASSUME HoldsInv, NEW c \in Placer, NEW asset \in Asset, NEW project \in Project,
         NEW request \in Request \cup {NoRequest}, NEW found \in SUBSET Trigger,
         NEW todo \in Seq(Trigger),
         \A t \in found \ {todo[i] : i \in DOMAIN todo} :
           \E h \in DOMAIN holds :
             holds[h].asset = asset /\ holds[h].reason = t /\ holds[h].status # "released",
         Begin(c, asset, project, request, found, todo)
  PROVE  /\ HoldsInv' /\ DOMAIN holds \subseteq DOMAIN holds'
         /\ \A h \in DOMAIN holds : holds'[h] = holds[h]
<1> DEFINE gone == {h \in DOMAIN holds : holds[h].status = "released"}
           call == [step |-> "next", asset |-> asset, project |-> project, request |-> request,
                    found |-> found, todo |-> todo, hold |-> 0, gone |-> gone]
<1>1. createHold(c, call)
  BY DEF Begin
<1>2. gone \subseteq DOMAIN holds /\ DOMAIN holds \subseteq Nat
  BY LenProperties DEF HoldsInv, HoldsTyped
<1>3. \A h \in DOMAIN holds : holds[h].status # "released" => h \notin gone
  OBVIOUS
<1> HIDE DEF gone
<1>4. /\ call \in PlacingCall /\ call.gone = gone /\ call.found = found /\ call.todo = todo
      /\ call.asset = asset
  BY <1>2 DEF PlacingCall
<1> HIDE DEF call
<1>5. HeldFor(holds, call)
  BY <1>3, <1>4 DEF HeldFor
<1> QED
  BY <1>1, <1>2, <1>4, <1>5, CreateHoldKeeps

\* POST /hold has one finding and deals with it at once.
LEMMA PlaceHoldKeeps ==
  ASSUME HoldsInv, NEW c \in Placer, NEW asset \in Asset, NEW project \in Project,
         NEW request \in Request \cup {NoRequest}, NEW reason \in ManualReason,
         PlaceHold(c, asset, project, request, reason)
  PROVE  /\ HoldsInv' /\ DOMAIN holds \subseteq DOMAIN holds'
         /\ \A h \in DOMAIN holds : holds'[h] = holds[h]
<1>1. reason \in Trigger
  BY DEF Trigger
<1> DEFINE todo == <<reason>>
<1>2. todo \in Seq(Trigger) /\ {reason} \in SUBSET Trigger
  BY <1>1
<1>3. 1 \in DOMAIN todo /\ todo[1] = reason
  OBVIOUS
<1>4. Begin(c, asset, project, request, {reason}, todo)
  BY DEF PlaceHold
<1> HIDE DEF todo
<1>5. {reason} \ {todo[i] : i \in DOMAIN todo} = {}
  BY <1>3
<1> QED
  BY <1>2, <1>4, <1>5, BeginKeeps

\* An evaluation passes over a finding only for a hold that blocks.
LEMMA EvaluateKeeps ==
  ASSUME HoldsInv, NEW c \in Placer, NEW asset \in Asset, NEW project \in Project,
         NEW request \in Request \cup {NoRequest}, NEW x,
         evaluateAndCreateHolds(c, asset, project, request, x)
  PROVE  /\ HoldsInv' /\ DOMAIN holds \subseteq DOMAIN holds'
         /\ \A h \in DOMAIN holds : holds'[h] = holds[h]
<1> DEFINE found == evaluateCollateralRisk(x)
           P == {i \in DOMAIN found : ~duplicateActive(asset, found[i])}
           todo == filter(found, P)
           F == {found[i] : i \in DOMAIN found}
<1>1. Begin(c, asset, project, request, F, todo)
  BY DEF evaluateAndCreateHolds
<1>2. found \in Seq(Trigger)
  BY FoundTriggers
<1> HIDE DEF found
<1>3. DOMAIN found = 1..Len(found) /\ F \in SUBSET Trigger
  BY <1>2, LenProperties, ElementOfSeq
<1>4. todo \in Seq(Trigger) /\ KeptTo(todo, found, P, Len(found))
  <2> HIDE DEF P
  <2> QED
    BY <1>2, FilterKeeps
<1>5. ASSUME NEW t \in F, t \notin {todo[i] : i \in DOMAIN todo}
      PROVE  duplicateActive(asset, t)
  <2>1. PICK p \in DOMAIN found : found[p] = t
    OBVIOUS
  <2> SUFFICES ASSUME p \in P PROVE FALSE
    BY <2>1
  <2>2. p \in 1..Len(found)
    BY <1>3
  <2>3. DOMAIN todo = 1..Len(todo)
    <3> HIDE DEF todo
    <3> QED
      BY <1>4, LenProperties
  <2> HIDE DEF todo, P
  <2>4. \E k \in 1..Len(todo) : todo[k] = found[p]
    BY <1>4, <2>2 DEF KeptTo
  <2> QED
    BY <1>5, <2>1, <2>3, <2>4
<1> HIDE DEF todo, F
<1>6. \A t \in F \ {todo[i] : i \in DOMAIN todo} :
        \E h \in DOMAIN holds :
          holds[h].asset = asset /\ holds[h].reason = t /\ holds[h].status # "released"
  BY <1>5 DEF duplicateActive
<1> QED
  BY <1>1, <1>3, <1>4, <1>6, BeginKeeps

\* The steps of a call that is at work.
LEMMA ContinueKeeps ==
  ASSUME HoldsInv, NEW c \in Placer, ContinuePlacing(c) \/ RequireReinspection(c)
  PROVE  /\ HoldsInv' /\ DOMAIN holds \subseteq DOMAIN holds'
         /\ \A h \in DOMAIN holds : holds'[h] = holds[h]
<1>1. /\ placing[c] \in PlacingCall /\ placing[c].gone \subseteq DOMAIN holds
      /\ HeldFor(holds, placing[c])
  <2>1. placing[c] # Unoccupied
    BY DEF ContinuePlacing, RequireReinspection, Unoccupied
  <2> QED
    BY <2>1, FindingHeldFor DEF HoldsInv, HoldsTyped
<1>2. CASE ContinuePlacing(c)
  BY <1>1, <1>2, CreateHoldKeeps DEF ContinuePlacing
<1>3. CASE RequireReinspection(c)
  <2> DEFINE after == [placing[c] EXCEPT !.step = "next"]
  <2>1. /\ placing' = [placing EXCEPT ![c] = after] /\ holds' = holds
        /\ notices' = notices \cup {<<"COLLATERAL_REINSPECT_REQUIRED", placing[c].hold>>}
    BY <1>3 DEF RequireReinspection
  <2>2. /\ after \in PlacingCall /\ after.gone = placing[c].gone /\ after.found = placing[c].found
        /\ after.todo = placing[c].todo /\ after.asset = placing[c].asset
    BY <1>1 DEF PlacingCall
  <2> HIDE DEF after
  <2>3. HoldsTyped'
    BY <1>1, <2>1, <2>2 DEF HoldsInv, HoldsTyped
  <2>4. \A h : <<"RELEASE_HOLD", h>> \in notices' => <<"RELEASE_HOLD", h>> \in notices
    BY <2>1
  <2>5. HeldFor(holds, after)
    BY <1>1, <2>2 DEF HeldFor
  <2>6. FindingIsHeld'
    BY <2>1, <2>5, FindingHeldFor DEF HoldsInv, HoldsTyped
  <2> QED
    BY <2>1, <2>3, <2>4, <2>6 DEF HoldsInv, ReleasesTold
<1> QED
  BY <1>2, <1>3

\* An operation of the desk changes the status of one hold.
LEMMA StatusKeeps ==
  ASSUME HoldsInv, NEW h \in DOMAIN holds,
         NEW s \in {"released", "escalated", "converted_to_block"},
         holds[h].status # "released",
         holds' = [holds EXCEPT ![h].status = s], placing' = placing,
         notices' = IF s = "released" THEN notices \cup {<<"RELEASE_HOLD", h>>} ELSE notices
  PROVE  /\ HoldsInv' /\ DOMAIN holds' = DOMAIN holds
         /\ \A x \in DOMAIN holds : /\ holds'[x].asset = holds[x].asset
                                    /\ holds'[x].project = holds[x].project
                                    /\ holds'[x].request = holds[x].request
                                    /\ x # h => holds'[x] = holds[x]
         /\ holds'[h].status = s
<1> DEFINE row == [holds[h] EXCEPT !.status = s]
<1>1. holds[h] \in HoldRow
  BY ElementOfSeq, LenProperties DEF HoldsInv, HoldsTyped
<1>2. /\ row \in HoldRow /\ row.asset = holds[h].asset /\ row.project = holds[h].project
      /\ row.request = holds[h].request /\ row.reason = holds[h].reason /\ row.status = s
  BY <1>1 DEF HoldRow
<1>3. holds' = [holds EXCEPT ![h] = row]
  OBVIOUS
<1> HIDE DEF row
<1>4. /\ holds' \in Seq(HoldRow) /\ DOMAIN holds' = DOMAIN holds
      /\ holds'[h] = row /\ \A x \in DOMAIN holds : x # h => holds'[x] = holds[x]
  BY <1>2, <1>3, ChangedAt DEF HoldsInv, HoldsTyped
<1>5. HoldsTyped'
  BY <1>4 DEF HoldsInv, HoldsTyped
<1>6. ReleasesTold'
  <2> SUFFICES ASSUME NEW x, <<"RELEASE_HOLD", x>> \in notices'
               PROVE  x \in DOMAIN holds /\ holds'[x].status = "released"
    BY <1>4 DEF ReleasesTold
  <2>1. CASE x = h /\ s = "released"
    BY <1>2, <1>4, <2>1
  <2>2. CASE <<"RELEASE_HOLD", x>> \in notices
    <3>1. x \in DOMAIN holds /\ holds[x].status = "released"
      BY <2>2 DEF HoldsInv, ReleasesTold
    <3> QED
      BY <1>4, <3>1
  <2> QED
    BY <2>1, <2>2
<1>7. \A x \in DOMAIN holds : holds'[x].asset = holds[x].asset /\ holds'[x].reason = holds[x].reason
  BY <1>2, <1>4
<1>8. FindingIsHeld'
  <2>1. \A c \in Placer : placing[c] # Unoccupied => HeldFor(holds, placing[c])
    BY FindingHeldFor DEF HoldsInv
  <2>2. ASSUME NEW c \in Placer, placing[c] # Unoccupied PROVE HeldFor(holds', placing[c])
    <3> DEFINE call == placing[c]
               more == holds'
    <3>1. HeldFor(holds, call)
      BY <2>1, <2>2
    <3>2. DOMAIN holds \subseteq DOMAIN more
      BY <1>4
    <3>3. \A y \in DOMAIN holds : more[y].asset = holds[y].asset /\ more[y].reason = holds[y].reason
      BY <1>7
    <3> HIDE DEF call, more
    <3>4. HeldFor(more, call)
      BY <3>1, <3>2, <3>3, HeldForMore
    <3> QED
      BY <3>4 DEF call, more
  <2> QED
    BY <2>2, FindingHeldFor
<1> QED
  BY <1>2, <1>4, <1>5, <1>6, <1>8 DEF HoldsInv

\* A hold that is announced as released was not announced before.
LEMMA DeskKeeps ==
  ASSUME HoldsInv, NEW h \in DOMAIN holds,
         \/ \E condition \in ReleaseCondition : releaseHold(h, condition)
         \/ escalateHold(h) \/ convertHoldToBlock(h)
  PROVE  /\ HoldsInv' /\ DOMAIN holds' = DOMAIN holds
         /\ \A x \in DOMAIN holds : /\ holds'[x].asset = holds[x].asset
                                    /\ holds'[x].project = holds[x].project
                                    /\ holds'[x].request = holds[x].request
                                    /\ Blocking(x) => Blocking(x)' \/ <<"RELEASE_HOLD", h>> \in notices' \ notices
<1>1. CASE \E condition \in ReleaseCondition : releaseHold(h, condition)
  <2>1. /\ holds[h].status # "released" /\ holds' = [holds EXCEPT ![h].status = "released"]
        /\ notices' = notices \cup {<<"RELEASE_HOLD", h>>} /\ placing' = placing
    BY <1>1 DEF releaseHold
  <2>2. <<"RELEASE_HOLD", h>> \notin notices
    BY <2>1 DEF HoldsInv, ReleasesTold
  <2> QED
    BY <2>1, <2>2, StatusKeeps
<1>2. CASE escalateHold(h)
  <2>1. /\ holds[h].status # "released" /\ holds' = [holds EXCEPT ![h].status = "escalated"]
        /\ notices' = notices /\ placing' = placing
    BY <1>2 DEF escalateHold
  <2> QED
    BY <2>1, StatusKeeps DEF Blocking
<1>3. CASE convertHoldToBlock(h)
  <2>1. /\ holds[h].status # "released"
        /\ holds' = [holds EXCEPT ![h].status = "converted_to_block"]
        /\ notices' = notices /\ placing' = placing
    BY <1>3 DEF convertHoldToBlock
  <2> QED
    BY <2>1, StatusKeeps DEF Blocking
<1> QED
  BY <1>1, <1>2, <1>3

\* What every step does to the holds there are.
LEMMA HoldsStep ==
  ASSUME HoldsInv, [HoldsNext]_holdVars
  PROVE  /\ HoldsInv' /\ DOMAIN holds \subseteq DOMAIN holds'
         /\ \A x \in DOMAIN holds : /\ holds'[x].asset = holds[x].asset
                                    /\ holds'[x].project = holds[x].project
                                    /\ holds'[x].request = holds[x].request
                                    /\ Blocking(x) => \/ Blocking(x)'
                                                      \/ \E h \in DOMAIN holds :
                                                           <<"RELEASE_HOLD", h>> \in notices' \ notices
<1> DEFINE Kept == /\ HoldsInv' /\ DOMAIN holds \subseteq DOMAIN holds'
                   /\ \A h \in DOMAIN holds : holds'[h] = holds[h]
<1>1. ASSUME NEW c \in Placer, NEW asset \in Asset, NEW project \in Project,
             NEW request \in Request \cup {NoRequest},
             \/ \E reason \in ManualReason : PlaceHold(c, asset, project, request, reason)
             \/ \E x \in Collateral : evaluateAndCreateHolds(c, asset, project, request, x)
      PROVE  Kept
  BY <1>1, PlaceHoldKeeps, EvaluateKeeps
<1>2. ASSUME NEW c \in Placer, RequireReinspection(c) \/ ContinuePlacing(c)
      PROVE  Kept
  BY <1>2, ContinueKeeps
<1>3. CASE UNCHANGED holdVars
  BY <1>3 DEF holdVars, HoldsInv, HoldsTyped, ReleasesTold, FindingIsHeld, Blocking
<1>4. CASE Kept
  BY <1>4 DEF Blocking
<1>5. CASE \E h \in DOMAIN holds :
             \/ \E condition \in ReleaseCondition : releaseHold(h, condition)
             \/ escalateHold(h) \/ convertHoldToBlock(h)
  BY <1>5, DeskKeeps
<1> HIDE DEF Kept
<1> QED
  BY <1>1, <1>2, <1>3, <1>4, <1>5 DEF HoldsNext

\* The holds satisfy their inductive invariant in every state, however callers
\* interleave at their awaits.
THEOREM HoldsInvariant == HoldsSpec => []HoldsInv
<1>1. HoldsInit => HoldsInv
  <2> SUFFICES ASSUME HoldsInit PROVE HoldsInv
    OBVIOUS
  <2>1. /\ holds = <<>> /\ notices = {} /\ placing = [c \in Placer |-> Unoccupied]
        /\ DOMAIN <<>> = {}
    BY DEF HoldsInit
  <2> QED
    BY <2>1 DEF HoldsInv, HoldsTyped, ReleasesTold, FindingIsHeld
<1> QED
  BY <1>1, HoldsStep, PTL DEF HoldsSpec

\* An evaluation never relies on a hold that was released before it began,
\* whatever happens to the holds while it waits (evaluateAndCreateHolds).
THEOREM FindingsAreHeld == HoldsSpec => []FindingIsHeld
<1>1. HoldsInv => FindingIsHeld
  BY DEF HoldsInv
<1> QED
  BY <1>1, HoldsInvariant, PTL

\* Nothing but a release, which is announced, lets a blocked draw through
\* (isDrawBlocked).
THEOREM ReleaseAloneUnblocks == HoldsSpec => OnlyReleaseUnblocks
<1> DEFINE Unblocked ==
      \A request \in Request \cup {NoRequest}, project \in Project, asset \in Asset :
        isDrawBlocked(request, project, asset) /\ ~isDrawBlocked(request, project, asset)'
        => \E h \in DOMAIN holds : <<"RELEASE_HOLD", h>> \in notices' \ notices
<1>1. HoldsInv /\ [HoldsNext]_holdVars => Unblocked
  <2> SUFFICES ASSUME HoldsInv, [HoldsNext]_holdVars,
                      NEW request \in Request \cup {NoRequest}, NEW project \in Project,
                      NEW asset \in Asset,
                      isDrawBlocked(request, project, asset),
                      ~isDrawBlocked(request, project, asset)'
               PROVE  \E h \in DOMAIN holds : <<"RELEASE_HOLD", h>> \in notices' \ notices
    OBVIOUS
  <2>1. PICK x \in DOMAIN holds :
          /\ Blocking(x)
          /\ \/ request # NoRequest /\ holds[x].request = request
             \/ holds[x].project = project \/ holds[x].asset = asset
    BY DEF isDrawBlocked
  <2>2. ~Blocking(x)'
    BY <2>1, HoldsStep DEF isDrawBlocked
  <2> QED
    BY <2>1, <2>2, HoldsStep
<1> QED
  BY <1>1, HoldsInvariant, PTL DEF HoldsSpec, OnlyReleaseUnblocks

-----------------------------------------------------------------------------
(* Covenants                                                               *)

\* The evaluations are what evaluateCovenant makes of their own figures.
Graded ==
  \A e \in evaluations :
    /\ e.definition.threshold \in Nat /\ e.definition.tolerance \in Nat /\ e.value \in Int
    /\ e.state = evaluateCovenant(e.definition, e.value)

\* A tolerance never takes the boundary beyond the threshold.
LEMMA BoundaryWithin ==
  ASSUME NEW t \in Nat, NEW p \in Nat
  PROVE  t * (100 - p) \in Int /\ t * (100 - p) <= 100 * t
<1>1. t * p \in Nat
  OBVIOUS
<1>2. t * (100 - p) = 100 * t - t * p
  OBVIOUS
<1> QED BY <1>1, <1>2

\* POST /evaluate stores only what it graded, under a tolerance and threshold
\* that are numbers (EvaluateRoute).
THEOREM EvaluationsGraded == CovenantsSpec => []Graded
<1>1. CovenantsInit => Graded
  BY DEF CovenantsInit, Graded
<1>2. Graded /\ [CovenantsNext]_evaluations => Graded'
  <2> SUFFICES ASSUME Graded, [CovenantsNext]_evaluations PROVE Graded'
    OBVIOUS
  <2>1. CASE UNCHANGED evaluations
    BY <2>1 DEF Graded
  <2>2. ASSUME NEW category \in Category, NEW threshold \in Threshold, NEW override \in {0} \cup Threshold,
               NEW tolerance \in Tolerance, NEW value \in Measure,
               EvaluateRoute(category, threshold, override, tolerance, value)
        PROVE  Graded'
    <3> DEFINE d == [category |-> category, threshold |-> IF override # 0 THEN override ELSE threshold,
                     tolerance |-> IF tolerance # 0 THEN tolerance ELSE 10]
               new == [definition |-> d, value |-> value, state |-> evaluateCovenant(d, value)]
    <3>1. evaluations' = evaluations \cup {new}
      BY <2>2 DEF EvaluateRoute
    <3>2. d.threshold \in Nat /\ d.tolerance \in Nat /\ value \in Int
      BY CovenantConstants
    <3> HIDE DEF d
    <3>3. new.definition = d /\ new.value = value /\ new.state = evaluateCovenant(d, value)
      OBVIOUS
    <3> HIDE DEF new
    <3> QED BY <3>1, <3>2, <3>3 DEF Graded
  <2> QED BY <2>1, <2>2 DEF CovenantsNext
<1> QED BY <1>1, <1>2, PTL DEF CovenantsSpec

\* A worse value is never graded better, and no grade contradicts the
\* threshold, for any figures (evaluateCovenant).
THEOREM GradesAlwaysInOrder == CovenantsSpec => []GradesInOrder
<1>1. Graded => GradesInOrder
  <2> SUFFICES ASSUME Graded, NEW x \in evaluations, NEW y \in evaluations, x.definition = y.definition
               PROVE  LET higher == isHigherWorse(x.definition.category)
                          wrong(v) == IF higher THEN v > x.definition.threshold ELSE v < x.definition.threshold
                      IN  /\ (IF higher THEN x.value >= y.value ELSE x.value <= y.value)
                             => Severity[x.state] >= Severity[y.state]
                          /\ (x.state = "breached" => wrong(x.value))
                          /\ (x.state = "compliant" => ~wrong(x.value))
    BY DEF GradesInOrder
  <2> DEFINE t == x.definition.threshold
             b == t * (100 - x.definition.tolerance)
  <2>1. t \in Nat /\ x.definition.tolerance \in Nat /\ x.value \in Int /\ y.value \in Int
    BY DEF Graded
  <2>2. b \in Int /\ b <= 100 * t
    BY <2>1, BoundaryWithin
  <2>3. x.state = evaluateCovenant(x.definition, x.value) /\ y.state = evaluateCovenant(x.definition, y.value)
    BY DEF Graded
  <2>4. ASSUME NEW v \in Int
        PROVE  evaluateCovenant(x.definition, v) =
                 IF isHigherWorse(x.definition.category)
                 THEN IF v > t THEN "breached" ELSE IF 100 * v > b THEN "warning" ELSE "compliant"
                 ELSE IF 100 * v < b THEN "breached" ELSE IF v < t THEN "warning" ELSE "compliant"
    BY DEF evaluateCovenant
  <2>5. Severity["compliant"] = 0 /\ Severity["warning"] = 1 /\ Severity["breached"] = 2
    BY DEF Severity
  <2> HIDE DEF b
  <2>6. CASE isHigherWorse(x.definition.category)
    BY <2>1, <2>2, <2>3, <2>4, <2>5, <2>6
  <2>7. CASE ~isHigherWorse(x.definition.category)
    BY <2>1, <2>2, <2>3, <2>4, <2>5, <2>7
  <2> QED BY <2>6, <2>7
<1> QED BY <1>1, EvaluationsGraded, PTL

-----------------------------------------------------------------------------
(* Policy loans                                                            *)

PolicyRecord ==
  [cash : Nat, loan : Nat, rate : Nat, phase : PolicyPhase, hard : Nat, soft : Nat, accrued : Nat,
   last : Int, missed : Nat, delinquent : BOOLEAN, frozen : BOOLEAN, lapsed : BOOLEAN, stale : BOOLEAN]

\* The state has its types: no amount is ever negative.
PolicyTyped ==
  /\ policy # NoPolicy => policy \in PolicyRecord
  /\ approvals \in Nat /\ now \in Int /\ unseen \in BOOLEAN

\* Interest is never negative, whatever date it is charged to.
LEMMA InterestIsNat ==
  ASSUME NEW p \in PolicyRecord, NEW upTo \in Int
  PROVE  Interest(p, upTo) \in Nat
<1>1. Larger(0, upTo - p.last) \in Nat
  BY DEF Larger, PolicyRecord
<1>2. p.loan \in Nat /\ p.rate \in Nat
  BY DEF PolicyRecord
<1>3. p.loan * p.rate \in Nat
  BY <1>2
<1> DEFINE a == p.loan * p.rate
           b == Larger(0, upTo - p.last)
<1> HIDE DEF a, b
<1>4. a \in Nat /\ b \in Nat => a * b \in Nat
  OBVIOUS
<1>5. p.loan * p.rate * Larger(0, upTo - p.last) \in Nat
  BY <1>1, <1>3, <1>4 DEF a, b
<1> QED BY <1>5 DEF Interest

\* checkLapseCondition only sets the two flags, and leaves a policy lapsed
\* whose debt has reached its cash value.
LEMMA LapseChecked ==
  ASSUME NEW p \in PolicyRecord
  PROVE  LET q == checkLapseCondition(p)
         IN  /\ q \in PolicyRecord
             /\ q.cash = p.cash /\ q.loan = p.loan /\ q.accrued = p.accrued /\ q.phase = p.phase
             /\ q.hard = p.hard /\ q.soft = p.soft /\ q.stale = p.stale
             /\ (p.lapsed => q.lapsed) /\ (p.frozen => q.frozen)
             /\ (q.lapsed <=> p.lapsed \/ Debt(p) >= p.cash)
             /\ (q.frozen => p.frozen \/ Debt(p) >= p.cash \/ LTVAtLeast(p, p.hard))
<1>1. CASE Debt(p) >= p.cash
  <2>1. checkLapseCondition(p) = [p EXCEPT !.lapsed = TRUE, !.frozen = TRUE]
    BY <1>1 DEF checkLapseCondition
  <2> QED BY <1>1, <2>1 DEF PolicyRecord
<1>2. CASE ~(Debt(p) >= p.cash) /\ LTVAtLeast(p, p.hard)
  <2>1. checkLapseCondition(p) = [p EXCEPT !.frozen = TRUE]
    BY <1>2 DEF checkLapseCondition
  <2> QED BY <1>2, <2>1 DEF PolicyRecord
<1>3. CASE ~(Debt(p) >= p.cash) /\ ~LTVAtLeast(p, p.hard)
  <2>1. checkLapseCondition(p) = p
    BY <1>3 DEF checkLapseCondition
  <2> QED BY <1>3, <2>1 DEF PolicyRecord
<1> QED BY <1>1, <1>2, <1>3

\* An accrual adds interest, and on a loan checks the lapse condition.
LEMMA AccrualChecked ==
  ASSUME NEW p \in PolicyRecord, NEW upTo \in Int
  PROVE  LET q == Accrued(p, upTo)
         IN  /\ q \in PolicyRecord
             /\ q.cash = p.cash /\ q.loan = p.loan /\ q.phase = p.phase
             /\ q.hard = p.hard /\ q.soft = p.soft /\ q.stale = p.stale
             /\ (p.lapsed => q.lapsed) /\ (p.frozen => q.frozen)
             /\ (p.loan = 0 => q.lapsed = p.lapsed /\ Debt(q) = Debt(p))
             /\ (p.loan # 0 /\ Debt(q) >= q.cash => q.lapsed)
             /\ (q.lapsed => p.lapsed \/ Debt(q) >= q.cash)
             /\ (q.frozen => p.frozen \/ Debt(q) >= q.cash \/ LTVAtLeast(q, q.hard))
<1>1. CASE p.loan = 0
  <2>1. Accrued(p, upTo) = [p EXCEPT !.last = upTo]
    BY <1>1 DEF Accrued
  <2> QED BY <1>1, <2>1 DEF PolicyRecord, Debt
<1>2. CASE p.loan # 0
  <2> DEFINE c == [p EXCEPT !.accrued = @ + Interest(p, upTo), !.last = upTo]
  <2>1. c \in PolicyRecord
    <3>1. p.accrued + Interest(p, upTo) \in Nat
      BY InterestIsNat DEF PolicyRecord
    <3> QED BY <3>1 DEF PolicyRecord
  <2>2. /\ c.cash = p.cash /\ c.loan = p.loan /\ c.phase = p.phase /\ c.hard = p.hard /\ c.soft = p.soft
        /\ c.stale = p.stale /\ c.lapsed = p.lapsed /\ c.frozen = p.frozen
    BY DEF PolicyRecord
  <2>3. Accrued(p, upTo) = checkLapseCondition(c)
    BY <1>2 DEF Accrued
  <2> HIDE DEF c
  <2>4. LTVAtLeast(c, c.hard) = LTVAtLeast(checkLapseCondition(c), checkLapseCondition(c).hard)
        /\ Debt(c) = Debt(checkLapseCondition(c))
    BY <2>1, LapseChecked DEF LTVAtLeast, Debt
  <2> QED BY <1>2, <2>1, <2>2, <2>3, <2>4, LapseChecked
<1> QED BY <1>1, <1>2

-----------------------------------------------------------------------------
(* Types                                                                   *)

\* A new policy has its type for any admissible terms (createPolicy).
LEMMA NewPolicyTyped ==
  ASSUME NEW t \in [cash : Nat, loan : Nat, rate : Nat, phase : PolicyPhase, hard : Nat, soft : Nat], now \in Int
  PROVE  NewPolicy(t) \in PolicyRecord
  BY DEF NewPolicy, PolicyRecord

\* A repayment lowers the debt and touches neither the cash value nor the flags.
LEMMA RepaidTyped ==
  ASSUME NEW p \in PolicyRecord, NEW n \in Nat
  PROVE  LET q == Repaid(p, n)
         IN  /\ q \in PolicyRecord
             /\ q.cash = p.cash /\ q.soft = p.soft /\ q.lapsed = p.lapsed /\ q.frozen = p.frozen
             /\ Debt(q) <= Debt(p)
<1> DEFINE i == Smaller(n, p.accrued)
           r == Smaller(n - i, p.loan)
<1>1. p.accrued \in Nat /\ p.loan \in Nat
  BY DEF PolicyRecord
<1>2. i \in Nat /\ i <= p.accrued /\ n - i \in Nat /\ r \in Nat /\ r <= p.loan
  BY <1>1 DEF Smaller
<1>3. Repaid(p, n) = [p EXCEPT !.accrued = @ - i, !.loan = @ - r]
  BY DEF Repaid
<1> HIDE DEF i, r
<1>4. p.accrued - i \in Nat /\ p.loan - r \in Nat
  BY <1>1, <1>2
<1> DEFINE q == [p EXCEPT !.accrued = @ - i, !.loan = @ - r]
<1>5. q \in PolicyRecord
  BY <1>4 DEF PolicyRecord
<1>6. /\ q.cash = p.cash /\ q.soft = p.soft /\ q.lapsed = p.lapsed /\ q.frozen = p.frozen
      /\ q.accrued = p.accrued - i /\ q.loan = p.loan - r
  BY DEF PolicyRecord
<1>7. Debt(q) <= Debt(p)
  BY <1>1, <1>2, <1>6 DEF Debt
<1> HIDE DEF q
<1>8. Repaid(p, n) = q
  BY <1>3 DEF q
<1> QED BY <1>5, <1>6, <1>7, <1>8

-----------------------------------------------------------------------------
(* The invariant                                                           *)

PolicyInv == PolicyTyped /\ LapseNoticed

\* What a step may do to the standing of a policy.
StandingStep ==
  (policy # NoPolicy /\ policy' # NoPolicy) =>
    /\ policy.lapsed => policy'.lapsed
    /\ (policy.frozen /\ ~policy'.frozen) => 100 * Debt(policy') < policy'.soft * policy'.cash

\* What an approved draw leaves behind.
DrawStep ==
  approvals' > approvals =>
    /\ ~policy'.lapsed /\ ~policy'.stale /\ policy'.cash > 0
    /\ 100 * Debt(policy') <= policy'.hard * policy'.cash
    /\ 100 * Debt(policy') <= getPhaseMaxLTV(policy'.phase) * policy'.cash
    /\ policy'.frozen <=> 100 * Debt(policy') >= policy'.soft * policy'.cash

\* A smaller limit allows no more.
LEMMA LimitMonotone ==
  ASSUME NEW a \in Nat, NEW b \in Nat, NEW c \in Nat, a <= b
  PROVE  a * c \in Nat /\ b * c \in Nat /\ a * c <= b * c
<1>1. b - a \in Nat
  OBVIOUS
<1> DEFINE d == b - a
<1>2. b = a + d /\ d \in Nat
  BY <1>1
<1> HIDE DEF d
<1>3. a * c \in Nat /\ d * c \in Nat
  BY <1>2
<1>4. b * c = a * c + d * c
  BY <1>2
<1> QED BY <1>3, <1>4

\* The ceiling of a draw is below the cash value and within both limits.
LEMMA CeilingKept ==
  ASSUME NEW p \in PolicyRecord, NEW d \in PolicyRecord, NEW amount \in Nat \ {0},
         d.cash = p.cash, d.hard = p.hard, d.phase = p.phase, Debt(d) = Debt(p) + amount,
         ~LTVAbove(d, MaxAllowedLTV(p))
  PROVE  /\ d.cash > 0 /\ Debt(d) < d.cash /\ Debt(p) < p.cash
         /\ 100 * Debt(d) <= d.hard * d.cash
         /\ 100 * Debt(d) <= getPhaseMaxLTV(d.phase) * d.cash
         /\ ~LTVAtLeast(p, p.hard)
<1> DEFINE g == getPhaseMaxLTV(p.phase)
           m == MaxAllowedLTV(p)
<1>1. g \in Nat /\ g <= 90
  BY DEF getPhaseMaxLTV
<1>2. p.cash \in Nat /\ p.hard \in Nat /\ Debt(p) \in Nat
  BY DEF PolicyRecord, Debt
<1>3. m \in Nat /\ m <= g /\ m <= p.hard
  BY <1>1, <1>2 DEF MaxAllowedLTV, Smaller
<1> HIDE DEF g, m
<1>4. m * p.cash \in Nat /\ m * p.cash <= g * p.cash /\ m * p.cash <= p.hard * p.cash
  BY <1>1, <1>2, <1>3, LimitMonotone
<1>5. g * p.cash \in Nat /\ g * p.cash <= 90 * p.cash /\ p.hard * p.cash \in Nat
  BY <1>1, <1>2, <1>3, LimitMonotone
<1>6. p.cash # 0 /\ ~(100 * Debt(d) > m * p.cash)
  BY DEF LTVAbove, m
<1>7. p.cash > 0 /\ 100 * Debt(d) <= m * p.cash
  BY <1>2, <1>4, <1>6
<1>8. 100 * Debt(d) <= p.hard * p.cash /\ 100 * Debt(d) <= g * p.cash /\ 100 * Debt(d) <= 90 * p.cash
  BY <1>2, <1>4, <1>5, <1>7
<1>9. ~LTVAtLeast(p, p.hard)
  BY <1>2, <1>5, <1>7, <1>8 DEF LTVAtLeast
<1> QED BY <1>2, <1>7, <1>8, <1>9 DEF g

-----------------------------------------------------------------------------
(* The operations                                                          *)

\* The interest up to a date: the lapse condition is known afterwards, unless
\* nothing was owed and nobody had looked at the figures.
LEMMA AccruedKnown ==
  ASSUME PolicyInv, policy # NoPolicy, NEW upTo \in Int, ~(unseen /\ policy.loan = 0)
  PROVE  LET q == Accrued(policy, upTo) IN Debt(q) >= q.cash => q.lapsed
<1>1. policy \in PolicyRecord
  BY DEF PolicyInv, PolicyTyped
<1>2. CASE policy.loan # 0
  BY <1>1, <1>2, AccrualChecked
<1>3. CASE policy.loan = 0 /\ ~unseen
  <2>1. Debt(policy) >= policy.cash => policy.lapsed
    BY <1>3 DEF PolicyInv, LapseNoticed
  <2> QED BY <1>1, <1>3, <2>1, AccrualChecked
<1> QED BY <1>2, <1>3, <1>1 DEF PolicyInv, PolicyTyped

\* POST /draw keeps the invariant, whether it refuses or approves (recordDraw).
LEMMA DrawKeeps ==
  ASSUME PolicyInv, NEW amount \in Amount, recordDraw(amount)
  PROVE  PolicyInv' /\ StandingStep /\ DrawStep
<1> DEFINE p == Accrued(policy, now)
           drawn == [p EXCEPT !.loan = @ + amount]
           refused == LTVAbove(drawn, MaxAllowedLTV(p))
           atSoft == LTVAtLeast(drawn, p.soft)
<1>1. policy # NoPolicy /\ policy \in PolicyRecord /\ now \in Int /\ approvals \in Nat /\ unseen \in BOOLEAN
  BY DEF PolicyInv, PolicyTyped, recordDraw
<1>2. amount \in Nat \ {0}
  BY PolicyConstants
<1>3. p \in PolicyRecord /\ p.cash = policy.cash /\ p.loan = policy.loan /\ p.stale = policy.stale
      /\ (p.lapsed => policy.lapsed \/ Debt(p) >= p.cash)
      /\ (p.frozen => policy.frozen \/ Debt(p) >= p.cash \/ LTVAtLeast(p, p.hard))
  BY <1>1, AccrualChecked
<1>4. ~policy.lapsed /\ ~policy.frozen /\ ~policy.stale
  BY DEF recordDraw
<1>5. policy' = (IF refused THEN p ELSE [drawn EXCEPT !.frozen = @ \/ atSoft])
      /\ approvals' = (IF refused THEN approvals ELSE approvals + 1)
      /\ unseen' = (unseen /\ policy.loan = 0) /\ now' = now
  BY DEF recordDraw
<1>6. Debt(p) >= p.cash => p.lapsed \/ unseen'
  BY <1>1, <1>5, AccruedKnown
<1> HIDE DEF p
<1>7. p.loan + amount \in Nat
  BY <1>2, <1>3 DEF PolicyRecord
<1>8. drawn \in PolicyRecord
  BY <1>3, <1>7 DEF PolicyRecord
<1>9. /\ drawn.cash = p.cash /\ drawn.hard = p.hard /\ drawn.soft = p.soft /\ drawn.phase = p.phase
      /\ drawn.stale = p.stale /\ drawn.lapsed = p.lapsed /\ drawn.frozen = p.frozen
      /\ drawn.loan = p.loan + amount /\ drawn.accrued = p.accrued
  BY <1>3 DEF PolicyRecord
<1>10. Debt(drawn) = Debt(p) + amount
  BY <1>2, <1>3, <1>9 DEF Debt, PolicyRecord
<1> HIDE DEF drawn, refused, atSoft
<1>11. CASE refused
  <2>1. policy' = p /\ approvals' = approvals
    BY <1>5, <1>11
  <2>2. PolicyTyped'
    BY <1>1, <1>3, <1>5, <2>1 DEF PolicyTyped
  <2>3. LapseNoticed'
    BY <1>6, <2>1 DEF LapseNoticed, Debt
  <2> QED BY <1>1, <1>4, <2>1, <2>2, <2>3 DEF PolicyInv, StandingStep, DrawStep
<1>12. CASE ~refused
  <2> DEFINE q == [drawn EXCEPT !.frozen = @ \/ atSoft]
  <2>1. policy' = q /\ approvals' = approvals + 1
    BY <1>5, <1>12
  <2>2. atSoft \in BOOLEAN
    BY DEF atSoft, LTVAtLeast
  <2>3. q \in PolicyRecord
    BY <1>8, <2>2 DEF PolicyRecord
  <2>4. /\ q.cash = drawn.cash /\ q.hard = drawn.hard /\ q.soft = drawn.soft /\ q.phase = drawn.phase
        /\ q.stale = drawn.stale /\ q.lapsed = drawn.lapsed /\ q.frozen = (drawn.frozen \/ atSoft)
        /\ q.loan = drawn.loan /\ q.accrued = drawn.accrued
    BY <1>8 DEF PolicyRecord
  <2>5. Debt(q) = Debt(drawn)
    BY <2>4 DEF Debt
  <2> HIDE DEF q
  <2>6. /\ drawn.cash > 0 /\ Debt(drawn) < drawn.cash /\ Debt(p) < p.cash
        /\ 100 * Debt(drawn) <= drawn.hard * drawn.cash
        /\ 100 * Debt(drawn) <= getPhaseMaxLTV(drawn.phase) * drawn.cash
        /\ ~LTVAtLeast(p, p.hard)
    BY <1>2, <1>3, <1>8, <1>9, <1>10, <1>12, CeilingKept DEF refused
  <2>7. Debt(p) \in Nat /\ p.cash \in Nat /\ Debt(drawn) \in Nat /\ drawn.cash \in Nat
    BY <1>3, <1>8 DEF Debt, PolicyRecord
  <2>8. ~p.lapsed /\ ~p.frozen
    BY <1>3, <1>4, <2>6, <2>7
  <2>9. q.frozen <=> 100 * Debt(q) >= q.soft * q.cash
    BY <1>9, <2>4, <2>5, <2>6, <2>7, <2>8 DEF atSoft, LTVAtLeast
  <2>10. PolicyTyped'
    BY <1>1, <1>5, <2>1, <2>3 DEF PolicyTyped
  <2>11. LapseNoticed'
    <3>1. ~(Debt(q) >= q.cash)
      BY <2>4, <2>5, <2>6, <2>7
    <3> QED BY <2>1, <3>1 DEF LapseNoticed, Debt
  <2>12. StandingStep
    BY <1>4 DEF StandingStep
  <2>13. DrawStep
    <3>1. ~q.lapsed /\ ~q.stale /\ q.cash > 0
      BY <1>3, <1>4, <1>9, <2>4, <2>6, <2>8
    <3>2. 100 * Debt(q) <= q.hard * q.cash /\ 100 * Debt(q) <= getPhaseMaxLTV(q.phase) * q.cash
      BY <2>4, <2>5, <2>6
    <3> QED BY <2>1, <2>9, <3>1, <3>2 DEF DrawStep, Debt
  <2> QED BY <2>10, <2>11, <2>12, <2>13 DEF PolicyInv
<1> QED BY <1>11, <1>12

\* An accrual to any date keeps the invariant (accrueInterest).
LEMMA AccrueKeeps ==
  ASSUME PolicyInv, NEW upTo \in 0..MaxNow, accrueInterest(upTo)
  PROVE  PolicyInv' /\ StandingStep /\ DrawStep
<1> DEFINE p == Accrued(policy, upTo)
<1>1. policy # NoPolicy /\ policy \in PolicyRecord /\ now \in Int /\ approvals \in Nat /\ unseen \in BOOLEAN
  BY DEF PolicyInv, PolicyTyped, accrueInterest
<1>2. upTo \in Int
  BY PolicyConstants
<1>3. p \in PolicyRecord /\ (policy.lapsed => p.lapsed) /\ (policy.frozen => p.frozen)
  BY <1>1, <1>2, AccrualChecked
<1>4. policy' = p /\ approvals' = approvals /\ unseen' = (unseen /\ policy.loan = 0) /\ now' = now
  BY DEF accrueInterest
<1>5. Debt(p) >= p.cash => p.lapsed \/ unseen'
  BY <1>1, <1>2, <1>4, AccruedKnown
<1> HIDE DEF p
<1>6. PolicyTyped'
  BY <1>1, <1>3, <1>4 DEF PolicyTyped
<1>7. LapseNoticed'
  BY <1>4, <1>5 DEF LapseNoticed, Debt
<1> QED BY <1>1, <1>3, <1>4, <1>6, <1>7 DEF PolicyInv, StandingStep, DrawStep

\* A repayment keeps the invariant and releases only below the soft threshold
\* (recordRepayment).
LEMMA RepaymentKeeps ==
  ASSUME PolicyInv, NEW amount \in Amount, recordRepayment(amount)
  PROVE  PolicyInv' /\ StandingStep /\ DrawStep
<1> DEFINE p == Accrued(policy, now)
           paid == Repaid(p, amount)
           q == [paid EXCEPT !.frozen = @ /\ LTVAtLeast(paid, paid.soft)]
<1>1. policy # NoPolicy /\ policy \in PolicyRecord /\ now \in Int /\ approvals \in Nat /\ unseen \in BOOLEAN
  BY DEF PolicyInv, PolicyTyped, recordRepayment
<1>2. amount \in Nat
  BY PolicyConstants
<1>3. p \in PolicyRecord /\ (policy.lapsed => p.lapsed) /\ (policy.frozen => p.frozen)
  BY <1>1, AccrualChecked
<1>4. policy' = q /\ approvals' = approvals /\ unseen' = (unseen /\ policy.loan = 0) /\ now' = now
  BY DEF recordRepayment
<1>5. Debt(p) >= p.cash => p.lapsed \/ unseen'
  BY <1>1, <1>4, AccruedKnown
<1> HIDE DEF p
<1>6. paid \in PolicyRecord /\ paid.cash = p.cash /\ paid.lapsed = p.lapsed /\ paid.frozen = p.frozen
      /\ Debt(paid) <= Debt(p)
  BY <1>2, <1>3, RepaidTyped
<1> HIDE DEF paid
<1>7. LTVAtLeast(paid, paid.soft) \in BOOLEAN
  BY DEF LTVAtLeast
<1>8. q \in PolicyRecord
  BY <1>6, <1>7 DEF PolicyRecord
<1>9. /\ q.cash = paid.cash /\ q.soft = paid.soft /\ q.lapsed = paid.lapsed /\ q.loan = paid.loan
      /\ q.accrued = paid.accrued /\ q.frozen = (paid.frozen /\ LTVAtLeast(paid, paid.soft))
  BY <1>6 DEF PolicyRecord
<1> HIDE DEF q
<1>10. Debt(q) = Debt(paid) /\ Debt(q) \in Nat /\ Debt(p) \in Nat /\ q.cash \in Nat /\ q.soft * q.cash \in Nat
  BY <1>3, <1>6, <1>8, <1>9 DEF Debt, PolicyRecord
<1>11. PolicyTyped'
  BY <1>1, <1>4, <1>8 DEF PolicyTyped
<1>12. LapseNoticed'
  <2>1. Debt(q) >= q.cash => q.lapsed \/ unseen'
    BY <1>3, <1>5, <1>6, <1>9, <1>10 DEF PolicyRecord
  <2> QED BY <1>4, <2>1 DEF LapseNoticed, Debt
<1>13. StandingStep
  <2>1. policy.lapsed => q.lapsed
    BY <1>3, <1>6, <1>9
  <2>2. ASSUME policy.frozen, ~q.frozen PROVE 100 * Debt(q) < q.soft * q.cash
    <3>1. ~LTVAtLeast(paid, paid.soft)
      BY <1>3, <1>6, <1>9, <2>2
    <3>2. ~(100 * Debt(paid) >= paid.soft * paid.cash)
      BY <3>1 DEF LTVAtLeast
    <3>3. ~(100 * Debt(q) >= q.soft * q.cash)
      BY <1>9, <1>10, <3>2
    <3> QED BY <1>10, <3>3
  <2> QED BY <1>4, <2>1, <2>2 DEF StandingStep, Debt
<1> QED BY <1>1, <1>4, <1>11, <1>12, <1>13 DEF PolicyInv, DrawStep

\* Premiums, paid or missed, keep the invariant and release nothing.
LEMMA PremiumKeeps ==
  ASSUME PolicyInv, recordPremiumPayment \/ recordMissedPremium
  PROVE  PolicyInv' /\ StandingStep /\ DrawStep
<1>1. policy # NoPolicy /\ policy \in PolicyRecord /\ now \in Int /\ approvals \in Nat /\ unseen \in BOOLEAN
  BY DEF PolicyInv, PolicyTyped, recordPremiumPayment, recordMissedPremium
<1>2. approvals' = approvals /\ unseen' = unseen /\ now' = now
  BY DEF recordPremiumPayment, recordMissedPremium
<1>3. /\ policy' \in PolicyRecord
      /\ policy'.cash = policy.cash /\ policy'.loan = policy.loan /\ policy'.accrued = policy.accrued
      /\ policy'.lapsed = policy.lapsed /\ (policy.frozen => policy'.frozen)
  <2>1. CASE recordPremiumPayment
    <3>1. policy' = [policy EXCEPT !.missed = 0, !.delinquent = FALSE]
      BY <2>1 DEF recordPremiumPayment
    <3> QED BY <1>1, <3>1 DEF PolicyRecord
  <2>2. CASE recordMissedPremium
    <3>1. policy' = [policy EXCEPT !.missed = @ + 1, !.delinquent = TRUE, !.frozen = @ \/ policy.missed + 1 >= 3]
      BY <2>2 DEF recordMissedPremium
    <3> DEFINE warned == policy.missed + 1 >= 3
               m == policy.missed + 1
    <3>2. m \in Nat /\ warned \in BOOLEAN
      BY <1>1 DEF PolicyRecord
    <3>3. policy' = [policy EXCEPT !.missed = m, !.delinquent = TRUE, !.frozen = @ \/ warned]
      BY <3>1
    <3> HIDE DEF warned, m
    <3> QED BY <1>1, <3>2, <3>3 DEF PolicyRecord
  <2> QED BY <2>1, <2>2
<1>4. PolicyTyped'
  BY <1>1, <1>2, <1>3 DEF PolicyTyped
<1>5. LapseNoticed'
  BY <1>1, <1>2, <1>3 DEF PolicyInv, LapseNoticed, Debt
<1>6. approvals' = approvals /\ (policy.lapsed => policy'.lapsed) /\ (policy.frozen => policy'.frozen)
  BY <1>2, <1>3
<1> QED BY <1>1, <1>4, <1>5, <1>6 DEF PolicyInv, StandingStep, DrawStep

\* A change of the cash value keeps the invariant (adjustDividend).
LEMMA DividendKeeps ==
  ASSUME PolicyInv, NEW delta \in Dividend, adjustDividend(delta)
  PROVE  PolicyInv' /\ StandingStep /\ DrawStep
<1> DEFINE c == [policy EXCEPT !.cash = Larger(0, @ + delta)]
           q == checkLapseCondition(c)
<1>1. policy # NoPolicy /\ policy \in PolicyRecord /\ now \in Int /\ approvals \in Nat
  BY DEF PolicyInv, PolicyTyped, adjustDividend
<1>2. Larger(0, policy.cash + delta) \in Nat
  BY <1>1, PolicyConstants DEF Larger, PolicyRecord
<1>3. c \in PolicyRecord /\ c.lapsed = policy.lapsed /\ c.frozen = policy.frozen
  BY <1>1, <1>2 DEF PolicyRecord
<1>4. policy' = q /\ approvals' = approvals /\ unseen' = FALSE /\ now' = now
  BY DEF adjustDividend
<1> HIDE DEF c
<1>5. q \in PolicyRecord /\ (c.lapsed => q.lapsed) /\ (c.frozen => q.frozen)
      /\ (Debt(q) >= q.cash => q.lapsed)
  BY <1>3, LapseChecked DEF Debt
<1> HIDE DEF q
<1>6. PolicyTyped'
  BY <1>1, <1>4, <1>5 DEF PolicyTyped
<1>7. LapseNoticed'
  BY <1>4, <1>5 DEF LapseNoticed, Debt
<1> QED BY <1>1, <1>3, <1>4, <1>5, <1>6, <1>7 DEF PolicyInv, StandingStep, DrawStep

\* A carrier import keeps the invariant; its figures count as unseen.
LEMMA ImportKeeps ==
  ASSUME PolicyInv, NEW data \in CarrierData, importCarrierData(data)
  PROVE  PolicyInv' /\ StandingStep /\ DrawStep
<1> DEFINE cash == Larger(0, data.cash)
           loan == Larger(0, data.loan)
           rate == Larger(0, data.rate)
           terms == [cash |-> cash, loan |-> loan, rate |-> rate,
                     phase |-> "origination", hard |-> 70, soft |-> 60]
           p == IF policy # NoPolicy THEN policy ELSE NewPolicy(terms)
           q == [p EXCEPT !.cash = cash, !.loan = loan, !.rate = rate, !.stale = data.stale]
<1>1. now \in Int /\ approvals \in Nat /\ (policy # NoPolicy => policy \in PolicyRecord)
  BY DEF PolicyInv, PolicyTyped
<1>2. cash \in Nat /\ loan \in Nat /\ rate \in Nat /\ data.stale \in BOOLEAN
  BY PolicyConstants DEF Larger
<1>3. policy' = q /\ approvals' = approvals /\ unseen' = TRUE /\ now' = now
  BY DEF importCarrierData
<1> HIDE DEF cash, loan, rate
<1>4. terms \in [cash : Nat, loan : Nat, rate : Nat, phase : PolicyPhase, hard : Nat, soft : Nat]
  BY <1>2 DEF PolicyPhase
<1> HIDE DEF terms
<1>5. p \in PolicyRecord
  BY <1>1, <1>4, NewPolicyTyped
<1>6. p = policy \/ policy = NoPolicy
  OBVIOUS
<1> HIDE DEF p
<1>7. q \in PolicyRecord /\ q.lapsed = p.lapsed /\ q.frozen = p.frozen
  BY <1>2, <1>5 DEF PolicyRecord
<1> HIDE DEF q
<1>8. PolicyTyped'
  BY <1>1, <1>3, <1>7 DEF PolicyTyped
<1>9. LapseNoticed'
  BY <1>3 DEF LapseNoticed
<1> QED BY <1>1, <1>3, <1>6, <1>7, <1>8, <1>9 DEF PolicyInv, StandingStep, DrawStep

\* Time, creation and deletion keep the invariant.
LEMMA LifeKeeps ==
  ASSUME PolicyInv, Tick \/ deletePolicy \/ \E terms \in Terms : createPolicy(terms)
  PROVE  PolicyInv' /\ StandingStep /\ DrawStep
<1>1. now \in Int /\ approvals \in Nat /\ unseen \in BOOLEAN /\ (policy # NoPolicy => policy \in PolicyRecord)
  BY DEF PolicyInv, PolicyTyped
<1>2. CASE Tick
  <2>1. policy' = policy /\ approvals' = approvals /\ unseen' = unseen /\ now' \in Int
    BY <1>1, <1>2 DEF Tick
  <2>2. PolicyTyped' /\ LapseNoticed'
    BY <1>1, <2>1 DEF PolicyInv, PolicyTyped, LapseNoticed, Debt
  <2> QED BY <1>1, <2>1, <2>2 DEF PolicyInv, StandingStep, DrawStep
<1>3. CASE deletePolicy
  <2>1. policy' = NoPolicy /\ approvals' = approvals /\ unseen' = FALSE /\ now' = now
    BY <1>3 DEF deletePolicy
  <2>2. PolicyTyped' /\ LapseNoticed'
    BY <1>1, <2>1 DEF PolicyTyped, LapseNoticed
  <2> QED BY <1>1, <2>1, <2>2 DEF PolicyInv, StandingStep, DrawStep
<1>4. ASSUME NEW terms \in Terms, createPolicy(terms)
      PROVE  PolicyInv' /\ StandingStep /\ DrawStep
  <2>1. policy = NoPolicy /\ policy' = NewPolicy(terms) /\ approvals' = approvals /\ unseen' = TRUE /\ now' = now
    BY <1>4 DEF createPolicy
  <2>2. NewPolicy(terms) \in PolicyRecord
    BY <1>1, PolicyConstants, NewPolicyTyped
  <2>3. PolicyTyped' /\ LapseNoticed'
    BY <1>1, <2>1, <2>2 DEF PolicyTyped, LapseNoticed
  <2> QED BY <1>1, <2>1, <2>3 DEF PolicyInv, StandingStep, DrawStep
<1> QED BY <1>2, <1>3, <1>4

\* Every step keeps the invariant and does what the action properties demand.
LEMMA StepKeeps ==
  ASSUME PolicyInv, [PolicyNext]_policyVars
  PROVE  PolicyInv' /\ [StandingStep]_policyVars /\ [DrawStep]_policyVars
<1>1. CASE UNCHANGED policyVars
  BY <1>1 DEF policyVars, PolicyInv, PolicyTyped, LapseNoticed, Debt
<1>2. CASE PolicyNext
  BY <1>2, DrawKeeps, AccrueKeeps, RepaymentKeeps, PremiumKeeps, DividendKeeps, ImportKeeps, LifeKeeps
     DEF PolicyNext
<1> QED BY <1>1, <1>2

-----------------------------------------------------------------------------
(* The theorems                                                            *)

\* LapseNoticed needs the types beside it: accruals add what is never negative.
LEMMA PolicyInvariant == PolicySpec => []PolicyInv
<1>1. PolicyInit => PolicyInv
  <2> SUFFICES ASSUME PolicyInit PROVE PolicyInv
    OBVIOUS
  <2>1. policy = NoPolicy /\ approvals = 0 /\ now = 0 /\ unseen = FALSE
    BY DEF PolicyInit
  <2>2. unseen \in BOOLEAN
    BY <2>1
  <2>3. approvals \in Nat /\ now \in Int
    BY <2>1
  <2>4. PolicyTyped
    BY <2>1, <2>2, <2>3 DEF PolicyTyped
  <2>5. LapseNoticed
    BY <2>1 DEF LapseNoticed
  <2> QED BY <2>4, <2>5 DEF PolicyInv
<1>2. PolicyInv /\ [PolicyNext]_policyVars => PolicyInv'
  BY StepKeeps
<1> QED BY <1>1, <1>2, PTL DEF PolicySpec

\* A policy whose debt has reached its cash value is known to be lapsed, as
\* soon as its figures were looked at (checkLapseCondition).
THEOREM LapseAlwaysNoticed == PolicySpec => []LapseNoticed
<1>1. PolicyInv => LapseNoticed
  BY DEF PolicyInv
<1> QED BY <1>1, PolicyInvariant, PTL

\* An approved draw respects every limit although lapse and freeze are looked
\* at before the interest is accrued (recordDraw).
THEOREM DrawsWithinLimit == PolicySpec => DrawWithinLimit
<1>1. PolicyInv /\ [PolicyNext]_policyVars => [DrawStep]_policyVars
  BY StepKeeps
<1>2. PolicySpec => [][DrawStep]_policyVars
  BY <1>1, PolicyInvariant, PTL DEF PolicySpec
<1> QED BY <1>2 DEF DrawWithinLimit, DrawStep

\* Only a repayment to below the soft threshold releases frozen draws, and
\* nothing takes a lapse back (recordRepayment).
THEOREM StandingAlwaysKept == PolicySpec => StandingKept
<1>1. PolicyInv /\ [PolicyNext]_policyVars => [StandingStep]_policyVars
  BY StepKeeps
<1>2. PolicySpec => [][StandingStep]_policyVars
  BY <1>1, PolicyInvariant, PTL DEF PolicySpec
<1> QED BY <1>2 DEF StandingKept, StandingStep
=============================================================================
