--------------------------- MODULE DrawWorkflow ---------------------------
(***************************************************************************)
(* DrawService (backend/workflow/draw-service.ts) with the constraints and *)
(* triggers of migrations/0001_autopilot_core.sql, from createDraft to     *)
(* instruct.  An operation is one action: it runs in one database          *)
(* transaction that locks the draw row first (loadDraw, FOR UPDATE), and   *)
(* an operation that throws changes nothing.  DrawTransactions takes the   *)
(* transactions apart, audit events and idempotency keys included;         *)
(* SettlementImport continues after SETTLEMENT_INSTRUCTED.                 *)
(*                                                                         *)
(* One tenant with one deal in one SPV and one currency.  A hash is the    *)
(* value it is computed over.  Tables the service only reads (user_role,   *)
(* hold, deal, counterparty, payee_bank_account) are the variable world,   *)
(* which administrators change between two operations.                     *)
(***************************************************************************)
EXTENDS Integers, FiniteSets

CONSTANTS
  Draw,        \* draw requests
  Subject,     \* people and service accounts (OIDC subjects)
  Robot,       \* the service accounts
  Account,     \* payee bank accounts
  Foreign,     \* accounts that are not in the deal's currency
  Party,       \* payee counterparties
  DocType,     \* evidence document types
  Reference,   \* (external partner, settlement reference) pairs
  Pack,        \* policy packs by version: evidence, approvals, roles
  Worlds,      \* the states of the administrative tables to consider
  Nobody, NoPolicy, NoBinding,
  MaxAmount,   \* bound: amounts, in minor units
  MaxVersion   \* bound: versions of one document

Role == {"BorrowerSponsor", "OperationsOwner", "Inspector", "Underwriter", "RiskOwner",
         "LenderAdmin", "PortfolioManager", "TreasuryOwner", "FundAdministrator"}

Policy == DOMAIN Pack

PolicyPack == [evidence : SUBSET DocType, approvals : Nat \ {0}, roles : SUBSET Role]

\* The open holds are given by what they are placed on; "TENANT" stands for
\* the tenant, the deal and the SPV, which every draw here shares.
World == [roles : SUBSET (Subject \X Role), holds : SUBSET (Draw \cup Party \cup {"TENANT"}),
          ready : SUBSET Account, screened : SUBSET Party,
          effective : Policy \cup {NoPolicy}, today : Nat]

ASSUME WorkflowConstants ==
  /\ Robot \subseteq Subject /\ Nobody \notin Subject
  /\ Account # {} /\ Party # {}
  /\ Foreign \subseteq Account
  /\ NoPolicy \notin Policy
  /\ Pack \in [Policy -> PolicyPack]
  /\ Worlds \subseteq World
  /\ MaxAmount \in Nat /\ MaxVersion \in Nat

VARIABLES
  draw,          \* draw_request
  docs,          \* evidence_document
  checks,        \* who verified which document (EVIDENCE_VERIFIED)
  decisions,     \* approval_decision
  instructions,  \* settlement_instruction
  world          \* the tables administrators maintain

vars == <<draw, docs, checks, decisions, instructions, world>>

Status ==
  {"DRAFT", "SUBMITTED", "UNDER_REVIEW", "APPROVED", "SETTLEMENT_INSTRUCTED",
   "SETTLEMENT_CONFIRMED", "RECONCILED", "CLOSED", "REQUIRES_INFORMATION", "HELD", "ESCALATED",
   "SETTLEMENT_FAILED", "RECONCILIATION_EXCEPTION", "REJECTED", "CANCELLED", "EXPIRED"}

Amount == 0..MaxAmount

Document == [draw : Draw, type : DocType, version : 1..MaxVersion, uploader : Subject]

\* approval_binding_hash, over what it hashes.
BindingValue == [amount : Amount, account : Account, manifest : SUBSET Document,
                 policy : Policy \cup {NoPolicy}]

\* A draw_request row.  "NONE" is a draw that does not exist yet, an approved
\* amount of 0 is NULL, and an empty manifest is a missing one.
DrawRow ==
  [status : Status \cup {"NONE"}, requester : Subject \cup {Nobody},
   account : Account, party : Party, requested : Amount, approved : Amount,
   policy : Policy \cup {NoPolicy}, manifest : SUBSET Document,
   binding : BindingValue \cup {NoBinding},
   evaluation : {"NONE", "PASS", "HOLD"},
   approval : {"NOT_STARTED", "PENDING", "APPROVED"},
   settlement : {"NONE", "INSTRUCTED", "CONFIRMED"},
   reconciliation : {"PENDING", "MATCHED", "EXCEPTION"}]

Decision == [draw : Draw, approver : Subject, binding : BindingValue]

Instruction ==
  [draw : Draw, by : Subject, ref : Reference, amount : Amount, account : Account,
   binding : BindingValue, status : {"SENT", "CONFIRMED"}, date : Nat]

TypeOK ==
  /\ draw \in [Draw -> DrawRow]
  /\ docs \subseteq Document
  /\ checks \subseteq [doc : Document, by : Subject]
  /\ decisions \subseteq Decision
  /\ instructions \subseteq Instruction
  /\ world \in World

NoDraw ==
  [status |-> "NONE", requester |-> Nobody, account |-> CHOOSE a \in Account : TRUE,
   party |-> CHOOSE p \in Party : TRUE, requested |-> 0, approved |-> 0,
   policy |-> NoPolicy, manifest |-> {}, binding |-> NoBinding, evaluation |-> "NONE",
   approval |-> "NOT_STARTED", settlement |-> "NONE", reconciliation |-> "PENDING"]

Init ==
  /\ draw = [d \in Draw |-> NoDraw]
  /\ docs = {} /\ checks = {} /\ decisions = {} /\ instructions = {}
  /\ world \in Worlds

-----------------------------------------------------------------------------
\* ALLOWED_TRANSITIONS, as pairs.
Allowed ==
  ({"DRAFT"} \X {"SUBMITTED", "CANCELLED"})
    \cup ({"SUBMITTED", "REQUIRES_INFORMATION", "HELD", "ESCALATED"} \X {"UNDER_REVIEW"})
    \cup ({"UNDER_REVIEW"} \X {"REQUIRES_INFORMATION", "HELD", "ESCALATED", "APPROVED",
                                "REJECTED", "EXPIRED"})
    \cup ({"APPROVED"} \X {"UNDER_REVIEW", "HELD", "CANCELLED", "SETTLEMENT_INSTRUCTED"})
    \cup ({"SETTLEMENT_INSTRUCTED"} \X {"SETTLEMENT_CONFIRMED", "SETTLEMENT_FAILED"})
    \cup ({"SETTLEMENT_FAILED"} \X {"SETTLEMENT_INSTRUCTED", "CANCELLED",
                                     "RECONCILIATION_EXCEPTION"})
    \cup ({"SETTLEMENT_CONFIRMED"} \X {"RECONCILED", "RECONCILIATION_EXCEPTION"})
    \cup {<<"RECONCILIATION_EXCEPTION", "RECONCILED">>, <<"RECONCILED", "CLOSED">>}

\* Mutant: an instructed draw may be taken back into review.
CanMove_Reopen(from, to) ==
  <<from, to>> \in Allowed \/ (from = "SETTLEMENT_INSTRUCTED" /\ to = "UNDER_REVIEW")

\* transitionDraw throws unless the edge exists.
CanMove(from, to) == <<from, to>> \in Allowed

Decided == {"APPROVED", "SETTLEMENT_INSTRUCTED", "SETTLEMENT_CONFIRMED", "SETTLEMENT_FAILED",
            "RECONCILIATION_EXCEPTION", "RECONCILED", "CLOSED"}

\* The CHECK constraints of draw_request.
RowChecks(r) ==
  /\ r.requested > 0
  /\ r.status # "DRAFT" => r.policy # NoPolicy /\ r.manifest # {}
  /\ r.status \in Decided => r.approved > 0 /\ r.binding # NoBinding
  /\ r.approved <= r.requested
  /\ r.status \in {"RECONCILED", "CLOSED"} => r.reconciliation = "MATCHED"
  /\ r.status = "RECONCILIATION_EXCEPTION" => r.reconciliation = "EXCEPTION"

\* Trigger draw_request_guard_locks.
LocksKept(old, new) ==
  /\ old.policy # NoPolicy => new.policy = old.policy
  /\ old.manifest # {} => new.manifest = old.manifest
  /\ new.requester = old.requester

\* saveDraw on a row this transaction has locked.
SaveDraw(d, r) ==
  /\ RowChecks(r)
  /\ LocksKept(draw[d], r)
  /\ draw' = [draw EXCEPT ![d] = r]

\* requireRole.
Holds(s, allowed) == \E r \in allowed : <<s, r>> \in world.roles

\* openHoldOn, and the same query in settlement_instruction_guard.
OpenHold(d) == world.holds \cap {d, draw[d].party, "TENANT"} # {}

-----------------------------------------------------------------------------
CreateDraft(s, d, a, p, amount) ==
  /\ draw[d].status = "NONE"
  /\ Holds(s, {"BorrowerSponsor", "OperationsOwner"})
  /\ amount > 0
  /\ draw' = [draw EXCEPT ![d] = [NoDraw EXCEPT !.status = "DRAFT", !.requester = s,
                                     !.account = a, !.party = p, !.requested = amount]]
  /\ UNCHANGED <<docs, checks, decisions, instructions, world>>

DocsOf(d, ty) == {e \in docs : e.draw = d /\ e.type = ty}

\* Mutant: evidence is accepted after submission.
UploadEvidence_AnyTime(s, d, ty) ==
  LET version == Cardinality(DocsOf(d, ty)) + 1
  IN /\ Holds(s, {"BorrowerSponsor", "Inspector", "OperationsOwner"})
     /\ draw[d].status # "NONE"
     /\ version <= MaxVersion
     /\ docs' = docs \cup {[draw |-> d, type |-> ty, version |-> version, uploader |-> s]}
     /\ UNCHANGED <<draw, checks, decisions, instructions, world>>

\* uploadEvidence: a further document of a type supersedes the last version.
UploadEvidence(s, d, ty) ==
  LET version == Cardinality(DocsOf(d, ty)) + 1
  IN /\ Holds(s, {"BorrowerSponsor", "Inspector", "OperationsOwner"})
     /\ draw[d].status = "DRAFT"
     /\ version <= MaxVersion
     /\ docs' = docs \cup {[draw |-> d, type |-> ty, version |-> version, uploader |-> s]}
     /\ UNCHANGED <<draw, checks, decisions, instructions, world>>

\* verifyEvidence, at any time of the draw's life.
VerifyEvidence(s, e) ==
  /\ e \in docs
  /\ Holds(s, {"OperationsOwner", "Inspector", "Underwriter", "RiskOwner"})
  /\ e.uploader # s
  /\ checks' = checks \cup {[doc |-> e, by |-> s]}
  /\ UNCHANGED <<draw, docs, decisions, instructions, world>>

\* The documents of a draw that no other document supersedes.
Latest(d) ==
  {e \in docs : e.draw = d /\ ~ \E n \in DocsOf(d, e.type) : n.version = e.version + 1}

Submitted(r, v, m) == [r EXCEPT !.status = "SUBMITTED", !.policy = v, !.manifest = m]

\* submit freezes the policy version of the deal and the latest documents.
Submit(s, d) ==
  /\ draw[d].requester = s
  /\ Latest(d) # {}
  /\ world.effective \in Policy
  /\ CanMove(draw[d].status, "SUBMITTED")
  /\ SaveDraw(d, Submitted(draw[d], world.effective, Latest(d)))
  /\ UNCHANGED <<docs, checks, decisions, instructions, world>>

\* Every document type the locked pack requires is in the frozen manifest.
ManifestComplete(d) ==
  \A ty \in Pack[draw[d].policy].evidence : \E e \in draw[d].manifest : e.type = ty

Evaluated(r, result) ==
  [r EXCEPT !.status = "UNDER_REVIEW", !.approval = "PENDING", !.evaluation = result]

\* evaluate: a HOLD result does not keep the draw out of review, and an
\* APPROVED draw is taken back into review with its amount and binding.
Evaluate(s, d) ==
  /\ Holds(s, {"OperationsOwner", "RiskOwner", "Underwriter", "LenderAdmin"})
  /\ draw[d].policy \in Policy
  /\ CanMove(draw[d].status, "UNDER_REVIEW")
  /\ SaveDraw(d, Evaluated(draw[d], IF ManifestComplete(d) THEN "PASS" ELSE "HOLD"))
  /\ UNCHANGED <<docs, checks, decisions, instructions, world>>

Binding(d, amount) ==
  [amount |-> amount, account |-> draw[d].account, manifest |-> draw[d].manifest,
   policy |-> draw[d].policy]

Verified(e) == \E c \in checks : c.doc = e

\* Mutant: approvals of another amount count as well.
PriorApprovers_AnyBinding(d, b) == {x.approver : x \in {y \in decisions : y.draw = d}}

\* Everybody who has approved exactly this binding.
PriorApprovers(d, b) ==
  {x.approver : x \in {y \in decisions : y.draw = d /\ y.binding = b}}

\* approvalFailures, with the approvers counted apart.  The budget, retainage,
\* covenant and loan-in-balance figures come from the caller and only decide
\* whether the call is refused.
Blocked(d, amount, approvers) ==
  \/ ~ManifestComplete(d)
  \/ \E e \in draw[d].manifest : ~Verified(e)
  \/ amount > draw[d].requested
  \/ draw[d].requester \in approvers
  \/ OpenHold(d)
  \/ draw[d].account \notin world.ready
  \/ draw[d].party \notin world.screened
  \/ draw[d].account \in Foreign
  \/ draw[d].evaluation = "NONE"

\* INSERT INTO approval_decision: its unique index and approval_decision_guard.
InsertDecision(s, d, b) ==
  /\ s # draw[d].requester
  /\ s \notin Robot
  /\ s \notin PriorApprovers(d, b)
  /\ decisions' = decisions \cup {[draw |-> d, approver |-> s, binding |-> b]}

Approvers(s, d, amount) == PriorApprovers(d, Binding(d, amount)) \cup {s}

\* What both outcomes of approve have in common.
ApproveCall(s, d, amount) ==
  /\ draw[d].status = "UNDER_REVIEW"
  /\ draw[d].policy \in Policy
  /\ Holds(s, Pack[draw[d].policy].roles)
  /\ ~Blocked(d, amount, Approvers(s, d, amount))
  /\ InsertDecision(s, d, Binding(d, amount))
  /\ UNCHANGED <<docs, checks, instructions, world>>

Enough(s, d, amount) ==
  Cardinality(Approvers(s, d, amount)) >= Pack[draw[d].policy].approvals

\* approve while more approvers are needed (APPROVAL_RECORDED).
RecordApproval(s, d, amount) ==
  /\ ApproveCall(s, d, amount)
  /\ ~Enough(s, d, amount)
  /\ UNCHANGED draw

Approved(r, amount, b) ==
  [r EXCEPT !.status = "APPROVED", !.approval = "APPROVED", !.approved = amount, !.binding = b]

\* approve by the last approver needed.
Approve(s, d, amount) ==
  /\ ApproveCall(s, d, amount)
  /\ Enough(s, d, amount)
  /\ CanMove(draw[d].status, "APPROVED")
  /\ SaveDraw(d, Approved(draw[d], amount, Binding(d, amount)))

\* Mutant: only approvals of what the draw now carries exclude.
HasDecided_CurrentBinding(s, d) ==
  \E x \in decisions : x.draw = d /\ x.approver = s /\ x.binding = draw[d].binding

\* Somebody who took part in any approval of the draw, whatever it was bound to.
HasDecided(s, d) == \E x \in decisions : x.draw = d /\ x.approver = s

\* INSERT INTO settlement_instruction: its unique indexes (one live instruction
\* per draw, one use of a reference) and settlement_instruction_guard, which
\* repeats the service's checks.
InsertInstruction(s, d, ref) ==
  /\ draw[d].status \in {"APPROVED", "SETTLEMENT_FAILED"}
  /\ s \notin Robot
  /\ draw[d].account \in world.ready
  /\ ~OpenHold(d)
  /\ \A i \in instructions : i.ref # ref /\ i.draw # d
  /\ instructions' = instructions \cup
       {[draw |-> d, by |-> s, ref |-> ref, amount |-> draw[d].approved,
         account |-> draw[d].account, binding |-> draw[d].binding, status |-> "SENT",
         date |-> world.today]}

Sent(r) == [r EXCEPT !.status = "SETTLEMENT_INSTRUCTED", !.settlement = "INSTRUCTED"]

Instruct(s, d, ref) ==
  /\ Holds(s, {"TreasuryOwner"})
  /\ s # draw[d].requester
  /\ ~HasDecided(s, d)
  /\ CanMove(draw[d].status, "SETTLEMENT_INSTRUCTED")
  /\ InsertInstruction(s, d, ref)
  /\ SaveDraw(d, Sent(draw[d]))
  /\ UNCHANGED <<docs, checks, decisions, world>>

\* Holds, role grants, payee verification, screening and the deal's policy
\* version are maintained outside DrawService.
Administer ==
  /\ \E w \in Worlds : w.today >= world.today /\ world' = w
  /\ UNCHANGED <<draw, docs, checks, decisions, instructions>>

ServiceStep ==
  \E s \in Subject, d \in Draw :
    \/ \E a \in Account, p \in Party, n \in Amount : CreateDraft(s, d, a, p, n)
    \/ \E ty \in DocType : UploadEvidence(s, d, ty)
    \/ Submit(s, d)
    \/ Evaluate(s, d)
    \/ \E n \in Amount : RecordApproval(s, d, n)
    \/ \E n \in Amount : Approve(s, d, n)
    \/ \E ref \in Reference : Instruct(s, d, ref)

VerifyStep == \E s \in Subject, e \in docs : VerifyEvidence(s, e)

Next == ServiceStep \/ VerifyStep \/ Administer

Spec == Init /\ [][Next]_vars

-----------------------------------------------------------------------------
(***************************************************************************)
(* Properties.                                                             *)
(***************************************************************************)

\* ADR-0006: nobody holds two of requester, approver and instructor on one
\* draw, over its whole life: an approval that a later one replaced still
\* excludes its approver from instructing.  Nobody verifies an own upload.
SegregationOfDuties ==
  /\ \A x \in decisions : x.approver # draw[x.draw].requester
  /\ \A i \in instructions :
       /\ i.by # draw[i.draw].requester
       /\ \A x \in decisions : x.draw = i.draw => x.approver # i.by
  /\ \A c \in checks : c.by # c.doc.uploader

\* A draw that is approved, or further, rests on enough distinct people who
\* decided on exactly the amount, payee, evidence and policy it now carries,
\* although it may have been taken back into review and approved again.
ApprovedIsBacked ==
  \A d \in Draw :
    draw[d].status \in Decided =>
      /\ draw[d].approved \in 1..draw[d].requested
      /\ draw[d].binding = Binding(d, draw[d].approved)
      /\ \E P \in SUBSET Subject :
           /\ Cardinality(P) >= Pack[draw[d].policy].approvals
           /\ \A s \in P : [draw |-> d, approver |-> s, binding |-> draw[d].binding] \in decisions

\* ADR-0007: from submission on, the evidence of a draw is exactly the frozen
\* manifest: nothing is added to it or superseded behind the approvers' back.
EvidenceIsManifest ==
  \A d \in Draw : draw[d].status \notin {"NONE", "DRAFT"} => draw[d].manifest = Latest(d)

\* An instruction pays what its draw was approved for, on verified evidence,
\* and the draw can no longer be decided differently.
InstructionIsApproved ==
  \A i \in instructions :
    /\ draw[i.draw].status \in Decided \ {"APPROVED"}
    /\ i.binding = Binding(i.draw, i.amount)
    /\ i.amount = draw[i.draw].approved
    /\ ManifestComplete(i.draw)
    /\ \A e \in draw[i.draw].manifest : Verified(e)
=============================================================================
