------------------------ MODULE DrawWorkflowProofs ------------------------
(***************************************************************************)
(* The safety of the draw workflow, for any number of draws, people,       *)
(* documents, policy packs and administrative states.                      *)
(*                                                                         *)
(* The properties lean on each other and are inductive only together: who  *)
(* instructs is segregated from later approvers because an instructed draw *)
(* is never under review again, an instruction carries what was approved   *)
(* because an approved draw carries it, and that rests on evidence that no *)
(* upload can change after submission.                                     *)
(***************************************************************************)
EXTENDS DrawWorkflow, FiniteSetTheorems, TLAPS

\* Only draws that exist are decided on.
DecisionsOnDraws == \A x \in decisions : draw[x.draw].status # "NONE"

\* What approval found complete and verified stays so.
DecidedIsEvidenced ==
  \A d \in Draw :
    draw[d].status \in Decided =>
      /\ draw[d].policy \in Policy
      /\ ManifestComplete(d)
      /\ \A e \in draw[d].manifest : Verified(e)

WorkflowInv ==
  /\ TypeOK
  /\ IsFiniteSet(docs)
  /\ DecisionsOnDraws
  /\ DecidedIsEvidenced
  /\ SegregationOfDuties
  /\ ApprovedIsBacked
  /\ EvidenceIsManifest
  /\ InstructionIsApproved

-----------------------------------------------------------------------------
\* Where the edges of ALLOWED_TRANSITIONS that the service uses start.
LEMMA Edges ==
  ASSUME NEW s
  PROVE  /\ CanMove(s, "SUBMITTED") => s = "DRAFT"
         /\ CanMove(s, "UNDER_REVIEW") =>
              s \in {"SUBMITTED", "REQUIRES_INFORMATION", "HELD", "ESCALATED", "APPROVED"}
         /\ CanMove(s, "SETTLEMENT_INSTRUCTED") => s \in {"APPROVED", "SETTLEMENT_FAILED"}
BY DEF CanMove, Allowed

\* The rows an empty database shows are typed.
LEMMA NoDrawTyped == NoDraw \in DrawRow
<1>1. (CHOOSE a \in Account : TRUE) \in Account /\ (CHOOSE p \in Party : TRUE) \in Party
  BY WorkflowConstants
<1> QED
  BY <1>1, WorkflowConstants DEF NoDraw, DrawRow, Amount, Status

\* Without draws the invariant holds.
LEMMA WorkflowInit == Init => WorkflowInv
<1> SUFFICES ASSUME Init PROVE WorkflowInv
  OBVIOUS
<1>1. TypeOK
  BY NoDrawTyped, WorkflowConstants DEF Init, TypeOK
<1>2. IsFiniteSet(docs)
  BY FS_EmptySet DEF Init
<1>3. \A d \in Draw : draw[d].status = "NONE"
  BY DEF Init, NoDraw
<1>4. DecisionsOnDraws /\ SegregationOfDuties /\ InstructionIsApproved
  BY DEF Init, DecisionsOnDraws, SegregationOfDuties, InstructionIsApproved
<1>5. DecidedIsEvidenced /\ ApprovedIsBacked /\ EvidenceIsManifest
  BY <1>3 DEF DecidedIsEvidenced, ApprovedIsBacked, EvidenceIsManifest, Decided
<1> QED
  BY <1>1, <1>2, <1>4, <1>5 DEF WorkflowInv

\* createDraft touches only a draw nobody has decided on.
LEMMA CreateDraftPreserves ==
  ASSUME WorkflowInv, NEW s \in Subject, NEW d \in Draw, NEW a \in Account, NEW p \in Party,
         NEW amount \in Amount, CreateDraft(s, d, a, p, amount)
  PROVE  WorkflowInv'
<1> DEFINE r == [NoDraw EXCEPT !.status = "DRAFT", !.requester = s, !.account = a, !.party = p,
                               !.requested = amount]
<1>1. /\ draw[d].status = "NONE"
      /\ draw' = [draw EXCEPT ![d] = r]
      /\ UNCHANGED <<docs, checks, decisions, instructions, world>>
  BY DEF CreateDraft
<1>2. r \in DrawRow /\ r.status = "DRAFT"
  BY NoDrawTyped DEF DrawRow, Status, NoDraw
<1>3. TypeOK'
  BY <1>1, <1>2 DEF WorkflowInv, TypeOK
<1>4. \A c \in Draw : c # d => draw'[c] = draw[c]
  BY <1>1 DEF WorkflowInv, TypeOK
<1>5. draw'[d].status = "DRAFT"
  BY <1>1, <1>2 DEF WorkflowInv, TypeOK
<1>6. \A x \in decisions : x.draw \in Draw /\ x.draw # d
  BY <1>1 DEF WorkflowInv, TypeOK, DecisionsOnDraws, Decision
<1>7. \A i \in instructions : i.draw \in Draw /\ i.draw # d
  BY <1>1 DEF WorkflowInv, TypeOK, InstructionIsApproved, Instruction, Decided
<1>8. DecisionsOnDraws'
  BY <1>1, <1>4, <1>6 DEF WorkflowInv, DecisionsOnDraws
<1>9. DecidedIsEvidenced'
  BY <1>1, <1>4, <1>5 DEF WorkflowInv, DecidedIsEvidenced, Decided, ManifestComplete, Verified
<1>10. SegregationOfDuties'
  BY <1>1, <1>4, <1>6, <1>7 DEF WorkflowInv, SegregationOfDuties
<1>11. ApprovedIsBacked'
  BY <1>1, <1>4, <1>5 DEF WorkflowInv, ApprovedIsBacked, Decided, Binding
<1>12. EvidenceIsManifest'
  BY <1>1, <1>4, <1>5 DEF WorkflowInv, EvidenceIsManifest, Latest, DocsOf
<1>13. InstructionIsApproved'
  BY <1>1, <1>4, <1>7 DEF WorkflowInv, InstructionIsApproved, Binding, ManifestComplete, Verified
<1> QED
  BY <1>1, <1>3, <1>8, <1>9, <1>10, <1>11, <1>12, <1>13 DEF WorkflowInv

\* uploadEvidence adds to a draft, whose manifest is not frozen yet.
LEMMA UploadEvidencePreserves ==
  ASSUME WorkflowInv, NEW s \in Subject, NEW d \in Draw, NEW ty \in DocType,
         UploadEvidence(s, d, ty)
  PROVE  WorkflowInv'
<1> DEFINE version == Cardinality(DocsOf(d, ty)) + 1
           n == [draw |-> d, type |-> ty, version |-> version, uploader |-> s]
<1>1. /\ draw[d].status = "DRAFT" /\ version <= MaxVersion
      /\ docs' = docs \cup {n}
      /\ UNCHANGED <<draw, checks, decisions, instructions, world>>
  BY DEF UploadEvidence
<1>2. version \in 1..MaxVersion
  <2>1. IsFiniteSet(DocsOf(d, ty))
    BY FS_Subset DEF WorkflowInv, DocsOf
  <2>2. Cardinality(DocsOf(d, ty)) \in Nat
    BY <2>1, FS_CardinalityType
  <2> QED
    BY <1>1, <2>2, WorkflowConstants
<1> HIDE DEF version
<1>3. TypeOK'
  BY <1>1, <1>2 DEF WorkflowInv, TypeOK, Document
<1>4. IsFiniteSet(docs')
  BY <1>1, FS_AddElement DEF WorkflowInv
<1>5. EvidenceIsManifest'
  <2> SUFFICES ASSUME NEW c \in Draw, draw[c].status \notin {"NONE", "DRAFT"}
               PROVE  draw[c].manifest = Latest(c)'
    BY <1>1 DEF EvidenceIsManifest
  <2>1. c # d /\ draw[c].manifest = Latest(c)
    BY <1>1 DEF WorkflowInv, EvidenceIsManifest
  <2>2. \A y : DocsOf(c, y)' = DocsOf(c, y)
    BY <1>1, <2>1 DEF DocsOf
  <2>3. Latest(c)' = Latest(c)
    BY <1>1, <2>1, <2>2 DEF Latest
  <2> QED
    BY <2>1, <2>3
<1> QED
  BY <1>1, <1>3, <1>4, <1>5 DEF WorkflowInv, DecisionsOnDraws, DecidedIsEvidenced,
     SegregationOfDuties, ApprovedIsBacked, InstructionIsApproved, Binding, ManifestComplete,
     Verified

\* verifyEvidence only adds: what was verified stays verified.
LEMMA VerifyEvidencePreserves ==
  ASSUME WorkflowInv, NEW s \in Subject, NEW e \in docs, VerifyEvidence(s, e)
  PROVE  WorkflowInv'
<1>1. /\ e.uploader # s
      /\ checks' = checks \cup {[doc |-> e, by |-> s]}
      /\ UNCHANGED <<draw, docs, decisions, instructions, world>>
  BY DEF VerifyEvidence
<1>2. TypeOK'
  BY <1>1 DEF WorkflowInv, TypeOK
<1>3. \A f : Verified(f) => Verified(f)'
  BY <1>1 DEF Verified
<1>4. SegregationOfDuties'
  BY <1>1 DEF WorkflowInv, SegregationOfDuties
<1>5. DecidedIsEvidenced' /\ InstructionIsApproved'
  BY <1>1, <1>3 DEF WorkflowInv, DecidedIsEvidenced, InstructionIsApproved, Binding,
     ManifestComplete
<1> QED
  BY <1>1, <1>2, <1>4, <1>5 DEF WorkflowInv, DecisionsOnDraws, ApprovedIsBacked,
     EvidenceIsManifest, Binding, Latest, DocsOf

\* What administrators change is no part of what the invariant relates.
LEMMA AdministerPreserves ==
  ASSUME WorkflowInv, Administer
  PROVE  WorkflowInv'
<1>1. /\ world' \in World
      /\ UNCHANGED <<draw, docs, checks, decisions, instructions>>
  BY WorkflowConstants DEF Administer
<1>2. TypeOK' /\ IsFiniteSet(docs')
  BY <1>1 DEF WorkflowInv, TypeOK
<1>3. DecisionsOnDraws' /\ SegregationOfDuties'
  BY <1>1 DEF WorkflowInv, DecisionsOnDraws, SegregationOfDuties
<1>4. ApprovedIsBacked' /\ EvidenceIsManifest'
  BY <1>1 DEF WorkflowInv, ApprovedIsBacked, EvidenceIsManifest, Binding, Latest, DocsOf
<1>5. DecidedIsEvidenced' /\ InstructionIsApproved'
  BY <1>1 DEF WorkflowInv, DecidedIsEvidenced, InstructionIsApproved, Binding, ManifestComplete,
     Verified
<1> QED
  BY <1>2, <1>3, <1>4, <1>5 DEF WorkflowInv

-----------------------------------------------------------------------------
\* What an operation that moves draw d to the row r leaves alone.
LEMMA Moved ==
  ASSUME WorkflowInv, NEW d \in Draw, NEW r \in DrawRow, SaveDraw(d, r)
  PROVE  /\ draw' \in [Draw -> DrawRow]
         /\ draw'[d] = r
         /\ \A c \in Draw : c # d => draw'[c] = draw[c]
BY DEF WorkflowInv, TypeOK, SaveDraw

\* The binding an approval is given for is what the draw carries.
LEMMA BindingTyped ==
  ASSUME WorkflowInv, NEW d \in Draw, NEW amount \in Amount
  PROVE  Binding(d, amount) \in BindingValue
<1>1. draw[d] \in DrawRow
  BY DEF WorkflowInv, TypeOK
<1> DEFINE row == draw[d]
<1>2. /\ row.account \in Account /\ row.manifest \in SUBSET Document
      /\ row.policy \in Policy \cup {NoPolicy}
  BY <1>1 DEF DrawRow
<1>3. Binding(d, amount) = [amount |-> amount, account |-> row.account,
                            manifest |-> row.manifest, policy |-> row.policy]
  BY DEF Binding
<1> HIDE DEF row
<1> QED
  BY <1>2, <1>3 DEF BindingValue

\* The rows submit, evaluate, approve and instruct save.
LEMMA SubmittedRow ==
  ASSUME NEW row \in DrawRow, NEW v \in Policy, NEW m \in SUBSET Document
  PROVE  LET r == Submitted(row, v, m)
         IN  /\ r \in DrawRow /\ r.status = "SUBMITTED" /\ r.requester = row.requester
             /\ r.manifest = m
BY DEF Submitted, DrawRow, Status

\* What evaluate writes is a draw.
LEMMA EvaluatedRow ==
  ASSUME NEW row \in DrawRow, NEW v \in {"NONE", "PASS", "HOLD"}
  PROVE  LET r == Evaluated(row, v)
         IN  /\ r \in DrawRow /\ r.status = "UNDER_REVIEW" /\ r.requester = row.requester
             /\ r.manifest = row.manifest
<1> DEFINE r == Evaluated(row, v)
<1>1. r \in DrawRow
  BY ZenonT(60) DEF Evaluated, DrawRow, Status
<1>2. r.status = "UNDER_REVIEW" /\ r.requester = row.requester /\ r.manifest = row.manifest
  BY ZenonT(60) DEF Evaluated, DrawRow
<1> QED
  BY <1>1, <1>2

\* What approve writes is a draw.
LEMMA ApprovedRow ==
  ASSUME NEW row \in DrawRow, NEW amount \in Amount, NEW b \in BindingValue
  PROVE  LET r == Approved(row, amount, b)
         IN  /\ r \in DrawRow /\ r.status = "APPROVED" /\ r.requester = row.requester
             /\ r.manifest = row.manifest /\ r.policy = row.policy /\ r.account = row.account
             /\ r.requested = row.requested /\ r.approved = amount /\ r.binding = b
<1> DEFINE r == Approved(row, amount, b)
<1>1. r \in DrawRow
  BY ZenonT(60) DEF Approved, DrawRow, Status
<1>2. /\ r.status = "APPROVED" /\ r.requester = row.requester /\ r.manifest = row.manifest
      /\ r.policy = row.policy /\ r.account = row.account
  BY ZenonT(60) DEF Approved, DrawRow
<1>3. r.requested = row.requested /\ r.approved = amount /\ r.binding = b
  BY ZenonT(60) DEF Approved, DrawRow
<1> QED
  BY <1>1, <1>2, <1>3

\* What instructSettlement writes is a draw.
LEMMA SentRow ==
  ASSUME NEW row \in DrawRow
  PROVE  LET r == Sent(row)
         IN  /\ r \in DrawRow /\ r.status = "SETTLEMENT_INSTRUCTED"
             /\ r.requester = row.requester
             /\ r.manifest = row.manifest /\ r.policy = row.policy /\ r.account = row.account
             /\ r.requested = row.requested /\ r.approved = row.approved
             /\ r.binding = row.binding
<1> DEFINE r == Sent(row)
<1>1. r \in DrawRow
  BY ZenonT(60) DEF Sent, DrawRow, Status
<1>2. /\ r.status = "SETTLEMENT_INSTRUCTED" /\ r.requester = row.requester
      /\ r.manifest = row.manifest /\ r.policy = row.policy /\ r.account = row.account
  BY ZenonT(60) DEF Sent, DrawRow
<1>3. r.requested = row.requested /\ r.approved = row.approved /\ r.binding = row.binding
  BY ZenonT(60) DEF Sent, DrawRow
<1> QED
  BY <1>1, <1>2, <1>3

\* submit freezes the documents a draft has.
LEMMA SubmitPreserves ==
  ASSUME WorkflowInv, NEW s \in Subject, NEW d \in Draw, Submit(s, d)
  PROVE  WorkflowInv'
<1> DEFINE r == Submitted(draw[d], world.effective, Latest(d))
<1>1. /\ draw[d].status = "DRAFT" /\ world.effective \in Policy
      /\ SaveDraw(d, r)
      /\ UNCHANGED <<docs, checks, decisions, instructions, world>>
  BY Edges DEF Submit
<1>2. /\ r \in DrawRow /\ r.status = "SUBMITTED" /\ r.requester = draw[d].requester
      /\ r.manifest = Latest(d)
  <2>1. draw[d] \in DrawRow /\ Latest(d) \subseteq Document
    BY DEF WorkflowInv, TypeOK, Latest
  <2> QED
    BY <1>1, <2>1, SubmittedRow
<1> HIDE DEF r
<1>3. /\ draw' \in [Draw -> DrawRow] /\ draw'[d] = r
      /\ \A c \in Draw : c # d => draw'[c] = draw[c]
  BY <1>1, <1>2, Moved
<1>4. TypeOK'
  BY <1>1, <1>3 DEF WorkflowInv, TypeOK
<1>5. \A i \in instructions : i.draw \in Draw /\ i.draw # d
  BY <1>1 DEF WorkflowInv, TypeOK, InstructionIsApproved, Instruction, Decided
<1>6. DecisionsOnDraws'
  BY <1>1, <1>2, <1>3 DEF WorkflowInv, TypeOK, Decision, DecisionsOnDraws
<1>7. DecidedIsEvidenced'
  BY <1>1, <1>2, <1>3 DEF WorkflowInv, DecidedIsEvidenced, Decided, ManifestComplete, Verified
<1>8. SegregationOfDuties'
  BY <1>1, <1>2, <1>3, <1>5 DEF WorkflowInv, TypeOK, Decision, SegregationOfDuties
<1>9. ApprovedIsBacked'
  BY <1>1, <1>2, <1>3 DEF WorkflowInv, ApprovedIsBacked, Decided, Binding
<1>10. EvidenceIsManifest'
  BY <1>1, <1>2, <1>3 DEF WorkflowInv, EvidenceIsManifest, Latest, DocsOf
<1>11. InstructionIsApproved'
  BY <1>1, <1>3, <1>5 DEF WorkflowInv, InstructionIsApproved, Binding, ManifestComplete, Verified
<1> QED
  BY <1>1, <1>4, <1>6, <1>7, <1>8, <1>9, <1>10, <1>11 DEF WorkflowInv

\* evaluate never meets an instructed draw.
LEMMA EvaluatePreserves ==
  ASSUME WorkflowInv, NEW s \in Subject, NEW d \in Draw, Evaluate(s, d)
  PROVE  WorkflowInv'
<1> DEFINE r == Evaluated(draw[d], IF ManifestComplete(d) THEN "PASS" ELSE "HOLD")
<1>1. /\ draw[d].status \in {"SUBMITTED", "REQUIRES_INFORMATION", "HELD", "ESCALATED", "APPROVED"}
      /\ SaveDraw(d, r)
      /\ UNCHANGED <<docs, checks, decisions, instructions, world>>
  BY Edges DEF Evaluate
<1>2. /\ r \in DrawRow /\ r.status = "UNDER_REVIEW" /\ r.requester = draw[d].requester
      /\ r.manifest = draw[d].manifest
  <2>1. draw[d] \in DrawRow
    BY DEF WorkflowInv, TypeOK
  <2> QED
    BY <2>1, EvaluatedRow
<1> HIDE DEF r
<1>3. /\ draw' \in [Draw -> DrawRow] /\ draw'[d] = r
      /\ \A c \in Draw : c # d => draw'[c] = draw[c]
  BY <1>1, <1>2, Moved
<1>4. TypeOK'
  BY <1>1, <1>3 DEF WorkflowInv, TypeOK
<1>5. \A i \in instructions : i.draw \in Draw /\ i.draw # d
  BY <1>1 DEF WorkflowInv, TypeOK, InstructionIsApproved, Instruction, Decided
<1>6. DecisionsOnDraws'
  BY <1>1, <1>2, <1>3 DEF WorkflowInv, TypeOK, Decision, DecisionsOnDraws
<1>7. DecidedIsEvidenced'
  BY <1>1, <1>2, <1>3 DEF WorkflowInv, DecidedIsEvidenced, Decided, ManifestComplete, Verified
<1>8. SegregationOfDuties'
  BY <1>1, <1>2, <1>3, <1>5 DEF WorkflowInv, TypeOK, Decision, SegregationOfDuties
<1>9. ApprovedIsBacked'
  BY <1>1, <1>2, <1>3 DEF WorkflowInv, ApprovedIsBacked, Decided, Binding
<1>10. EvidenceIsManifest'
  BY <1>1, <1>2, <1>3 DEF WorkflowInv, EvidenceIsManifest, Latest, DocsOf
<1>11. InstructionIsApproved'
  BY <1>1, <1>3, <1>5 DEF WorkflowInv, InstructionIsApproved, Binding, ManifestComplete, Verified
<1> QED
  BY <1>1, <1>4, <1>6, <1>7, <1>8, <1>9, <1>10, <1>11 DEF WorkflowInv

\* What the check of approve's caller and the decision's insert establish.
LEMMA Decides ==
  ASSUME WorkflowInv, NEW s \in Subject, NEW d \in Draw, NEW amount \in Amount,
         ApproveCall(s, d, amount)
  PROVE  LET x == [draw |-> d, approver |-> s, binding |-> Binding(d, amount)]
         IN  /\ draw[d].status = "UNDER_REVIEW" /\ draw[d].policy \in Policy
             /\ decisions' = decisions \cup {x}
             /\ x \in Decision /\ s # draw[d].requester
             /\ ManifestComplete(d) /\ \A e \in draw[d].manifest : Verified(e)
             /\ \A i \in instructions : i.draw \in Draw /\ i.draw # d
             /\ UNCHANGED <<docs, checks, instructions, world>>
<1>1. Binding(d, amount) \in BindingValue
  BY BindingTyped
<1>2. /\ draw[d].status = "UNDER_REVIEW" /\ draw[d].policy \in Policy
      /\ ~Blocked(d, amount, Approvers(s, d, amount))
      /\ InsertDecision(s, d, Binding(d, amount))
      /\ UNCHANGED <<docs, checks, instructions, world>>
  BY DEF ApproveCall
<1>3. ManifestComplete(d) /\ \A e \in draw[d].manifest : Verified(e)
  BY <1>2 DEF Blocked
<1>4. /\ decisions' = decisions \cup {[draw |-> d, approver |-> s, binding |-> Binding(d, amount)]}
      /\ s # draw[d].requester
  BY <1>2 DEF InsertDecision
<1>5. \A i \in instructions : i.draw \in Draw /\ i.draw # d
  BY <1>2 DEF WorkflowInv, TypeOK, InstructionIsApproved, Instruction, Decided
<1> QED
  BY <1>1, <1>2, <1>3, <1>4, <1>5 DEF Decision

\* A further approval adds a decision and leaves the draw under review.
LEMMA RecordApprovalPreserves ==
  ASSUME WorkflowInv, NEW s \in Subject, NEW d \in Draw, NEW amount \in Amount,
         RecordApproval(s, d, amount)
  PROVE  WorkflowInv'
<1> DEFINE x == [draw |-> d, approver |-> s, binding |-> Binding(d, amount)]
<1>1. /\ draw[d].status = "UNDER_REVIEW"
      /\ decisions' = decisions \cup {x} /\ x \in Decision /\ s # draw[d].requester
      /\ \A i \in instructions : i.draw \in Draw /\ i.draw # d
      /\ UNCHANGED <<draw, docs, checks, instructions, world>>
  BY Decides DEF RecordApproval
<1>2. x.draw = d /\ x.approver = s
  OBVIOUS
<1> HIDE DEF x
<1>3. TypeOK' /\ IsFiniteSet(docs')
  BY <1>1 DEF WorkflowInv, TypeOK
<1>4. DecisionsOnDraws' /\ SegregationOfDuties'
  BY <1>1, <1>2 DEF WorkflowInv, DecisionsOnDraws, SegregationOfDuties
<1>5. ApprovedIsBacked'
  BY <1>1 DEF WorkflowInv, ApprovedIsBacked, Binding
<1>6. EvidenceIsManifest'
  BY <1>1 DEF WorkflowInv, EvidenceIsManifest, Latest, DocsOf
<1>7. DecidedIsEvidenced' /\ InstructionIsApproved'
  BY <1>1 DEF WorkflowInv, DecidedIsEvidenced, InstructionIsApproved, Binding, ManifestComplete,
     Verified
<1> QED
  BY <1>3, <1>4, <1>5, <1>6, <1>7 DEF WorkflowInv

\* The last approval needed finds enough people behind the very same binding.
LEMMA ApprovePreserves ==
  ASSUME WorkflowInv, NEW s \in Subject, NEW d \in Draw, NEW amount \in Amount,
         Approve(s, d, amount)
  PROVE  WorkflowInv'
<1> DEFINE b == Binding(d, amount)
           x == [draw |-> d, approver |-> s, binding |-> b]
           r == Approved(draw[d], amount, b)
<1>1. /\ draw[d].status = "UNDER_REVIEW" /\ draw[d].policy \in Policy
      /\ decisions' = decisions \cup {x} /\ x \in Decision /\ s # draw[d].requester
      /\ ManifestComplete(d) /\ \A e \in draw[d].manifest : Verified(e)
      /\ \A i \in instructions : i.draw \in Draw /\ i.draw # d
      /\ UNCHANGED <<docs, checks, instructions, world>>
  BY Decides DEF Approve
<1>2. x.draw = d /\ x.approver = s /\ x.binding = b
  OBVIOUS
<1>3. Enough(s, d, amount) /\ SaveDraw(d, r)
  BY DEF Approve
<1>4. /\ r \in DrawRow /\ r.status = "APPROVED" /\ r.requester = draw[d].requester
      /\ r.manifest = draw[d].manifest /\ r.policy = draw[d].policy
      /\ r.account = draw[d].account /\ r.requested = draw[d].requested
      /\ r.approved = amount /\ r.binding = b
  <2>1. draw[d] \in DrawRow
    BY DEF WorkflowInv, TypeOK
  <2> QED
    BY <2>1, BindingTyped, ApprovedRow
<1>5. amount \in 1..draw[d].requested
  <2>1. r.approved > 0 /\ r.approved <= r.requested
    BY <1>3, <1>4 DEF SaveDraw, RowChecks, Decided
  <2> QED
    BY <1>4, <2>1 DEF DrawRow, Amount
<1>6. /\ draw' \in [Draw -> DrawRow] /\ draw'[d] = r
      /\ \A c \in Draw : c # d => draw'[c] = draw[c]
  BY <1>3, <1>4, Moved
<1>7. \E P \in SUBSET Subject :
        /\ Cardinality(P) >= Pack[draw[d].policy].approvals
        /\ \A q \in P : [draw |-> d, approver |-> q, binding |-> b] \in decisions'
  <2>1. Approvers(s, d, amount) \in SUBSET Subject
    BY DEF WorkflowInv, TypeOK, Decision, Approvers, PriorApprovers
  <2>2. ASSUME NEW q \in Approvers(s, d, amount)
        PROVE  [draw |-> d, approver |-> q, binding |-> b] \in decisions'
    <3>1. CASE q = s
      BY <1>1, <3>1
    <3>2. CASE q # s
      <4>1. PICK y \in decisions : y.draw = d /\ y.binding = b /\ y.approver = q
        BY <3>2 DEF Approvers, PriorApprovers
      <4>2. y = [draw |-> d, approver |-> q, binding |-> b]
        BY <4>1 DEF WorkflowInv, TypeOK, Decision
      <4> QED
        BY <1>1, <4>2
    <3> QED
      BY <3>1, <3>2
  <2> QED
    BY <1>3, <2>1, <2>2 DEF Enough
<1> HIDE DEF b, x, r
<1>8. b = Binding(d, amount)
  BY DEF b
<1>9. TypeOK'
  BY <1>1, <1>6 DEF WorkflowInv, TypeOK
<1>10. DecisionsOnDraws'
  BY <1>1, <1>2, <1>4, <1>6 DEF WorkflowInv, TypeOK, Decision, DecisionsOnDraws
<1>11. DecidedIsEvidenced'
  BY <1>1, <1>4, <1>6 DEF WorkflowInv, DecidedIsEvidenced, ManifestComplete, Verified
<1>12. SegregationOfDuties'
  BY <1>1, <1>2, <1>4, <1>6 DEF WorkflowInv, TypeOK, Decision, SegregationOfDuties
<1>13. ApprovedIsBacked'
  <2> SUFFICES ASSUME NEW c \in Draw, draw'[c].status \in Decided
               PROVE  /\ draw'[c].approved \in 1..draw'[c].requested
                      /\ draw'[c].binding = Binding(c, draw[c].approved)'
                      /\ \E P \in SUBSET Subject :
                           /\ Cardinality(P) >= Pack[draw'[c].policy].approvals
                           /\ \A q \in P : [draw |-> c, approver |-> q,
                                             binding |-> draw'[c].binding] \in decisions'
    BY DEF ApprovedIsBacked
  <2>1. CASE c = d
    BY <1>4, <1>5, <1>6, <1>7, <1>8, <2>1 DEF Binding
  <2>2. CASE c # d
    BY <1>1, <1>6, <2>2 DEF WorkflowInv, ApprovedIsBacked, Binding
  <2> QED
    BY <2>1, <2>2
<1>14. EvidenceIsManifest'
  BY <1>1, <1>4, <1>6 DEF WorkflowInv, EvidenceIsManifest, Latest, DocsOf
<1>15. InstructionIsApproved'
  BY <1>1, <1>6 DEF WorkflowInv, InstructionIsApproved, Binding, ManifestComplete, Verified
<1> QED
  BY <1>1, <1>9, <1>10, <1>11, <1>12, <1>13, <1>14, <1>15 DEF WorkflowInv

\* instruct pays what the approved draw carries, by somebody who did not decide.
LEMMA InstructPreserves ==
  ASSUME WorkflowInv, NEW s \in Subject, NEW d \in Draw, NEW ref \in Reference,
         Instruct(s, d, ref)
  PROVE  WorkflowInv'
<1> DEFINE r == Sent(draw[d])
           n == [draw |-> d, by |-> s, ref |-> ref, amount |-> draw[d].approved,
                 account |-> draw[d].account, binding |-> draw[d].binding, status |-> "SENT",
                 date |-> world.today]
<1>1. /\ draw[d].status \in {"APPROVED", "SETTLEMENT_FAILED"}
      /\ s # draw[d].requester /\ ~HasDecided(s, d)
      /\ \A i \in instructions : i.draw # d
      /\ instructions' = instructions \cup {n}
      /\ SaveDraw(d, r)
      /\ UNCHANGED <<docs, checks, decisions, world>>
  BY Edges DEF Instruct, InsertInstruction
<1>2. draw[d] \in DrawRow
  BY DEF WorkflowInv, TypeOK
<1>3. /\ r \in DrawRow /\ r.status = "SETTLEMENT_INSTRUCTED" /\ r.requester = draw[d].requester
      /\ r.manifest = draw[d].manifest /\ r.policy = draw[d].policy
      /\ r.account = draw[d].account /\ r.requested = draw[d].requested
      /\ r.approved = draw[d].approved /\ r.binding = draw[d].binding
  BY <1>2, SentRow
<1>4. /\ draw' \in [Draw -> DrawRow] /\ draw'[d] = r
      /\ \A c \in Draw : c # d => draw'[c] = draw[c]
  BY <1>1, <1>3, Moved
<1>5. /\ draw[d].approved \in 1..draw[d].requested
      /\ draw[d].binding = Binding(d, draw[d].approved)
  BY <1>1 DEF WorkflowInv, ApprovedIsBacked, Decided
<1>6. draw[d].policy \in Policy /\ ManifestComplete(d) /\ \A e \in draw[d].manifest : Verified(e)
  BY <1>1 DEF WorkflowInv, DecidedIsEvidenced, Decided
<1>7. n \in Instruction
  <2>1. draw[d].approved \in Amount /\ draw[d].account \in Account
    BY <1>2 DEF DrawRow
  <2>2. draw[d].binding \in BindingValue
    BY <1>5, <2>1, BindingTyped
  <2>3. world.today \in Nat
    BY DEF WorkflowInv, TypeOK, World
  <2> QED
    BY <2>1, <2>2, <2>3 DEF Instruction
<1>8. n.draw = d /\ n.by = s /\ n.amount = draw[d].approved /\ n.binding = draw[d].binding
  OBVIOUS
<1> HIDE DEF r, n
<1>9. TypeOK'
  BY <1>1, <1>4, <1>7 DEF WorkflowInv, TypeOK
<1>10. \A i \in instructions : i.draw \in Draw
  BY DEF WorkflowInv, TypeOK, Instruction
<1>11. DecisionsOnDraws'
  BY <1>1, <1>3, <1>4 DEF WorkflowInv, TypeOK, Decision, DecisionsOnDraws
<1>12. DecidedIsEvidenced'
  BY <1>1, <1>3, <1>4, <1>6 DEF WorkflowInv, DecidedIsEvidenced, ManifestComplete, Verified
<1>13. SegregationOfDuties'
  <2>1. \A x \in decisions : x.draw = d => x.approver # s
    BY <1>1 DEF HasDecided
  <2>2. \A c \in Draw : draw'[c].requester = draw[c].requester
    BY <1>3, <1>4
  <2>3. \A x \in decisions' : x.approver # draw'[x.draw].requester
    BY <1>1, <2>2 DEF WorkflowInv, TypeOK, Decision, SegregationOfDuties
  <2>4. ASSUME NEW i \in instructions'
        PROVE  /\ i.by # draw'[i.draw].requester
               /\ \A x \in decisions' : x.draw = i.draw => x.approver # i.by
    <3>1. CASE i = n
      BY <1>1, <1>8, <2>1, <2>2, <3>1
    <3>2. CASE i \in instructions
      BY <1>1, <1>10, <2>2, <3>2 DEF WorkflowInv, SegregationOfDuties
    <3> QED
      BY <1>1, <3>1, <3>2
  <2>5. \A c \in checks' : c.by # c.doc.uploader
    BY <1>1 DEF WorkflowInv, SegregationOfDuties
  <2> QED
    BY <2>3, <2>4, <2>5 DEF SegregationOfDuties
<1>14. ApprovedIsBacked'
  <2> SUFFICES ASSUME NEW c \in Draw, draw'[c].status \in Decided
               PROVE  /\ draw'[c].approved \in 1..draw'[c].requested
                      /\ draw'[c].binding = Binding(c, draw[c].approved)'
                      /\ \E P \in SUBSET Subject :
                           /\ Cardinality(P) >= Pack[draw'[c].policy].approvals
                           /\ \A q \in P : [draw |-> c, approver |-> q,
                                             binding |-> draw'[c].binding] \in decisions'
    BY DEF ApprovedIsBacked
  <2>1. draw[c].status \in Decided
    BY <1>1, <1>4 DEF Decided
  <2>2. /\ draw'[c].approved = draw[c].approved /\ draw'[c].requested = draw[c].requested
        /\ draw'[c].binding = draw[c].binding /\ draw'[c].policy = draw[c].policy
        /\ draw'[c].account = draw[c].account /\ draw'[c].manifest = draw[c].manifest
    BY <1>3, <1>4
  <2> QED
    BY <1>1, <2>1, <2>2 DEF WorkflowInv, ApprovedIsBacked, Binding
<1>15. EvidenceIsManifest'
  BY <1>1, <1>3, <1>4 DEF WorkflowInv, EvidenceIsManifest, Latest, DocsOf
<1>16. InstructionIsApproved'
  <2> SUFFICES ASSUME NEW i \in instructions'
               PROVE  /\ draw'[i.draw].status \in Decided \ {"APPROVED"}
                      /\ i.binding = Binding(i.draw, i.amount)'
                      /\ i.amount = draw'[i.draw].approved
                      /\ ManifestComplete(i.draw)'
                      /\ \A e \in draw'[i.draw].manifest : Verified(e)'
    BY DEF InstructionIsApproved
  <2>1. CASE i = n
    BY <1>1, <1>3, <1>4, <1>5, <1>6, <1>8, <2>1 DEF Decided, Binding, ManifestComplete, Verified
  <2>2. CASE i \in instructions
    BY <1>1, <1>4, <1>10, <2>2 DEF WorkflowInv, InstructionIsApproved, Binding, ManifestComplete,
       Verified
  <2> QED
    BY <1>1, <2>1, <2>2
<1> QED
  BY <1>1, <1>9, <1>11, <1>12, <1>13, <1>14, <1>15, <1>16 DEF WorkflowInv

-----------------------------------------------------------------------------
\* Every operation keeps the invariant.
LEMMA WorkflowNext == WorkflowInv /\ [Next]_vars => WorkflowInv'
<1> SUFFICES ASSUME WorkflowInv, [Next]_vars PROVE WorkflowInv'
  OBVIOUS
<1>1. CASE ServiceStep
  <2> PICK s \in Subject, d \in Draw :
        \/ \E a \in Account, p \in Party, n \in Amount : CreateDraft(s, d, a, p, n)
        \/ \E ty \in DocType : UploadEvidence(s, d, ty)
        \/ Submit(s, d)
        \/ Evaluate(s, d)
        \/ \E n \in Amount : RecordApproval(s, d, n)
        \/ \E n \in Amount : Approve(s, d, n)
        \/ \E ref \in Reference : Instruct(s, d, ref)
    BY <1>1 DEF ServiceStep
  <2>1. CASE \E a \in Account, p \in Party, n \in Amount : CreateDraft(s, d, a, p, n)
    BY <2>1, CreateDraftPreserves
  <2>2. CASE \E ty \in DocType : UploadEvidence(s, d, ty)
    BY <2>2, UploadEvidencePreserves
  <2>3. CASE Submit(s, d)
    BY <2>3, SubmitPreserves
  <2>4. CASE Evaluate(s, d)
    BY <2>4, EvaluatePreserves
  <2>5. CASE \E n \in Amount : RecordApproval(s, d, n)
    BY <2>5, RecordApprovalPreserves
  <2>6. CASE \E n \in Amount : Approve(s, d, n)
    BY <2>6, ApprovePreserves
  <2>7. CASE \E ref \in Reference : Instruct(s, d, ref)
    BY <2>7, InstructPreserves
  <2> QED
    BY <2>1, <2>2, <2>3, <2>4, <2>5, <2>6, <2>7
<1>2. CASE VerifyStep
  BY <1>2, VerifyEvidencePreserves DEF VerifyStep
<1>3. CASE Administer
  BY <1>3, AdministerPreserves
<1>4. CASE UNCHANGED vars
  <2>1. UNCHANGED <<draw, docs, checks, decisions, instructions, world>>
    BY <1>4 DEF vars
  <2>2. TypeOK' /\ IsFiniteSet(docs')
    BY <2>1 DEF WorkflowInv, TypeOK
  <2>3. DecisionsOnDraws' /\ SegregationOfDuties'
    BY <2>1 DEF WorkflowInv, DecisionsOnDraws, SegregationOfDuties
  <2>4. ApprovedIsBacked' /\ EvidenceIsManifest'
    BY <2>1 DEF WorkflowInv, ApprovedIsBacked, EvidenceIsManifest, Binding, Latest, DocsOf
  <2>5. DecidedIsEvidenced' /\ InstructionIsApproved'
    BY <2>1 DEF WorkflowInv, DecidedIsEvidenced, InstructionIsApproved, Binding,
       ManifestComplete, Verified
  <2> QED
    BY <2>2, <2>3, <2>4, <2>5 DEF WorkflowInv
<1> QED
  BY <1>1, <1>2, <1>3, <1>4 DEF Next

\* Every state the draw service and the administrators can reach satisfies
\* the inductive invariant.
THEOREM WorkflowInvariant == Spec => []WorkflowInv
BY WorkflowInit, WorkflowNext, PTL DEF Spec

\* Every row DrawService saves, and every document, decision and instruction
\* it inserts, has the type the schema declares.
THEOREM WorkflowTyped == Spec => []TypeOK
<1>1. WorkflowInv => TypeOK
  BY DEF WorkflowInv
<1> QED
  BY <1>1, WorkflowInvariant, PTL

\* ADR-0006 for any number of people and draws: over a draw's whole life its
\* requester, its approvers (also those of replaced approvals) and whoever
\* instructs it are different people, and nobody verifies an own upload.
THEOREM DutiesSegregated == Spec => []SegregationOfDuties
<1>1. WorkflowInv => SegregationOfDuties
  BY DEF WorkflowInv
<1> QED
  BY <1>1, WorkflowInvariant, PTL

\* However often a draw was taken back into review, once approve lets it
\* through it rests on as many decisions on exactly this amount, payee,
\* evidence and policy as the locked policy pack asks for.
THEOREM ApprovalsBacked == Spec => []ApprovedIsBacked
<1>1. WorkflowInv => ApprovedIsBacked
  BY DEF WorkflowInv
<1> QED
  BY <1>1, WorkflowInvariant, PTL

\* ADR-0007: what submit froze is, for ever, the evidence of the draw.
THEOREM EvidenceFrozen == Spec => []EvidenceIsManifest
<1>1. WorkflowInv => EvidenceIsManifest
  BY DEF WorkflowInv
<1> QED
  BY <1>1, WorkflowInvariant, PTL

\* What instruct sends to the settlement partner is what was approved, on
\* complete and verified evidence, and no later step decides it differently.
THEOREM InstructionsApproved == Spec => []InstructionIsApproved
<1>1. WorkflowInv => InstructionIsApproved
  BY DEF WorkflowInv
<1> QED
  BY <1>1, WorkflowInvariant, PTL
=============================================================================
