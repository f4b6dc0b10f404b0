---------------------------- MODULE EvidenceGate ----------------------------
(***************************************************************************)
(* The evidence of one project (backend/evidence): submission, the         *)
(* validation pipeline with its conflict checks, re-validation and the     *)
(* gate in front of a release.  Documents are in memory and are never      *)
(* removed.                                                                *)
(*                                                                         *)
(* submitEvidence and validateEvidence read the project's documents, wait  *)
(* at an await and act on what they read; calls[c] holds what caller c has *)
(* read.  Field checks that depend on the document alone (class, issuer,   *)
(* hash format, milestone, approval, exception status, budget category,    *)
(* appraisal) are the set "defects" of those that fail.  Dates are days.   *)
(***************************************************************************)
EXTENDS Naturals, Sequences, FiniteSets

CONSTANTS Document,      \* what is submitted, see DocumentFields
          Hash, Number, Destination, Milestone,
          None,          \* a field that is left out
          Submitter, Validator,
          MaxAgeOption,  \* the maxAgeDays a re-validation may ask for
          DefaultMaxAge, \* 90 days of the pipeline
          MaxAge,        \* class -> days of the gating policy
          Required,      \* the classes the policy requires
          MaxItems, MaxDay

Class == {"invoice", "change_order", "lien_waiver", "bank_account_validation",
          "insurance_verification", "other"}

DocumentFields ==
  [class : Class, hash : Hash \cup {None}, number : Number \cup {None},
   destination : Destination \cup {None}, verified : Destination \cup {None},
   milestone : Milestone, expires : Nat \cup {None}, defects : SUBSET {"approval", "category"}]

ASSUME DocumentsTyped == Document \subseteq DocumentFields
ASSUME PolicyTyped == Required \subseteq Class /\ MaxAge \in [Class -> Nat] /\ DefaultMaxAge \in Nat
ASSUME CallersFinite == IsFiniteSet(Submitter)

VARIABLES evidence,   \* the project's documents, in the order of submission
          calls,      \* what each caller has read and will do next
          told,       \* the last event about each document in the event store
          today

evidenceVars == <<evidence, calls, told, today>>

Caller == Submitter \cup Validator
Idle == [op |-> "idle"]

EvidenceInit ==
  /\ evidence = <<>> /\ told = <<>> /\ today = 0
  /\ calls = [c \in Caller |-> Idle]

-----------------------------------------------------------------------------
(* shared/validation                                                       *)

PastExpiry(e) == e.expires # None /\ e.expires < today

\* validateEvidenceFreshness
Fresh(e, maxAge) == today - e.submitted <= maxAge

\* (a bug) Only a document already marked as expired is.
Unexpired_StatusOnly(e) == e.status # "expired"

\* validateEvidenceExpiration
Unexpired(e) == e.status # "expired" /\ ~PastExpiry(e)

DuplicateHash(items) == \E i, j \in DOMAIN items : i # j /\ items[i].hash = items[j].hash

\* flagEvidenceConflicts looks at all documents, the target's own flag too.
flagEvidenceConflicts(items) ==
  {f \in {"DUPLICATE_DOCUMENT_HASH", "EVIDENCE_FLAGGED"} :
     IF f = "EVIDENCE_FLAGGED" THEN \E i \in DOMAIN items : items[i].status = "flagged"
     ELSE DuplicateHash(items)}

-----------------------------------------------------------------------------
(* detectEvidenceConflicts and the pipeline                                *)

DuplicateInvoice(e, seen) ==
  /\ e.number # None
  /\ \E i \in DOMAIN seen : seen[i].class = "invoice" /\ seen[i].number = e.number

\* The account paid to, against the one the document or else the first
\* unexpired bank validation declares.
DestinationChanged(e, seen) ==
  LET banks == SelectSeq(seen, LAMBDA b : b.class = "bank_account_validation" /\ b.status # "expired")
      account == IF e.verified # None THEN e.verified
                 ELSE IF banks # <<>> THEN banks[1].destination ELSE None
  IN  e.destination # None /\ account # None /\ e.destination # account

\* (a bug) A waiver of any milestone will do.
MissingLienWaiver_AnyMilestone(e, seen) ==
  /\ e.class \in {"invoice", "change_order"}
  /\ ~ \E i \in DOMAIN seen : seen[i].class = "lien_waiver" /\ seen[i].status \notin {"expired", "flagged"}

MissingLienWaiver(e, seen) ==
  /\ e.class \in {"invoice", "change_order"}
  /\ ~ \E i \in DOMAIN seen :
         /\ seen[i].class = "lien_waiver" /\ seen[i].milestone = e.milestone
         /\ seen[i].status \notin {"expired", "flagged"}

\* (a bug) A document is not compared with the invoices before it.
detectEvidenceConflicts_NoNumber(e, seen) ==
  flagEvidenceConflicts(Append(seen, e))
  \cup (IF DestinationChanged(e, seen) THEN {"PAYMENT_DESTINATION_CHANGE"} ELSE {})
  \cup (IF MissingLienWaiver(e, seen) THEN {"MISSING_LIEN_WAIVER"} ELSE {})

detectEvidenceConflicts(e, seen) ==
  flagEvidenceConflicts(Append(seen, e))
  \cup (IF DuplicateInvoice(e, seen) THEN {"DUPLICATE_INVOICE_NUMBER"} ELSE {})
  \cup (IF DestinationChanged(e, seen) THEN {"PAYMENT_DESTINATION_CHANGE"} ELSE {})
  \cup (IF MissingLienWaiver(e, seen) THEN {"MISSING_LIEN_WAIVER"} ELSE {})
  \cup (IF e.class = "insurance_verification" /\ PastExpiry(e) THEN {"EXPIRED_INSURANCE"} ELSE {})

\* The document as the pipeline leaves it: expired before flagged.
validateEvidencePipeline(e, seen, maxAge) ==
  LET flags == e.defects
               \cup (IF Fresh(e, maxAge) THEN {} ELSE {"EVIDENCE_STALE"})
               \cup (IF Unexpired(e) THEN {} ELSE {"EVIDENCE_EXPIRED"})
               \cup detectEvidenceConflicts(e, seen)
  IN  [e EXCEPT !.flags = flags # {},
                !.status = IF ~Unexpired(e) THEN "expired"
                           ELSE IF flags # {} THEN "flagged" ELSE "validated"]

-----------------------------------------------------------------------------
(* Submission                                                              *)

\* POST /submit and submitEvidence refuse a document without hash or content.
Accepted(d) == d.hash # None

\* A submission reads the project's documents and waits.
SubmitRead(c, d) ==
  /\ calls[c] = Idle /\ Accepted(d)
  /\ calls' = [calls EXCEPT ![c] =
       [op |-> "store", document |-> d, submitted |-> today, seen |-> evidence]]
  /\ UNCHANGED <<evidence, told, today>>

Stored(call) ==
  LET d == call.document
  IN  validateEvidencePipeline(
        [class |-> d.class, hash |-> d.hash, number |-> d.number, destination |-> d.destination,
         verified |-> d.verified, milestone |-> d.milestone, expires |-> d.expires,
         defects |-> d.defects, submitted |-> call.submitted, status |-> "pending", flags |-> FALSE],
        call.seen, DefaultMaxAge)

\* It judges the new document against what it read and stores it.
SubmitStore(c) ==
  LET e == Stored(calls[c])
      id == Len(evidence) + 1
  IN  /\ calls[c].op = "store" /\ Len(evidence) < MaxItems
      /\ evidence' = Append(evidence, e)
      /\ told' = Append(told, "EVIDENCE_SUBMITTED")
      /\ calls' = [calls EXCEPT ![c] =
           IF e.status = "validated" THEN Idle ELSE [op |-> "log", status |-> e.status, id |-> id]]
      /\ UNCHANGED today

StatusEvent(status) ==
  CASE status = "flagged" -> "EVIDENCE_FLAGGED"
    [] status = "expired" -> "EVIDENCE_EXPIRED"
    [] OTHER -> "EVIDENCE_VALIDATED"

\* A second event tells that it was flagged or expired.
SubmitLog(c) ==
  /\ calls[c].op = "log"
  /\ told' = [told EXCEPT ![calls[c].id] = StatusEvent(calls[c].status)]
  /\ calls' = [calls EXCEPT ![c] = Idle]
  /\ UNCHANGED <<evidence, today>>

-----------------------------------------------------------------------------
(* Re-validation                                                           *)

\* POST /validate and validateEvidence read the document and wait, ...
ValidateFind(c, id, maxAge) ==
  /\ calls[c] = Idle
  /\ calls' = [calls EXCEPT ![c] = [op |-> "read", id |-> id, item |-> evidence[id], maxAge |-> maxAge]]
  /\ UNCHANGED <<evidence, told, today>>

\* ... read the others and wait, ...
ValidateRead(c) ==
  LET id == calls[c].id
  IN  /\ calls[c].op = "read"
      /\ calls' = [calls EXCEPT ![c] =
           [op |-> "judge", id |-> id, item |-> @.item, maxAge |-> @.maxAge,
            seen |-> SubSeq(evidence, 1, id - 1) \o SubSeq(evidence, id + 1, Len(evidence))]]
      /\ UNCHANGED <<evidence, told, today>>

\* (a bug) The status starts from scratch, as for a new document.
ValidateStore_Afresh(c) ==
  LET e == validateEvidencePipeline([calls[c].item EXCEPT !.status = "pending"], calls[c].seen, calls[c].maxAge)
  IN  /\ calls[c].op = "judge"
      /\ evidence' = [evidence EXCEPT ![calls[c].id] = e]
      /\ told' = [told EXCEPT ![calls[c].id] = StatusEvent(e.status)]
      /\ calls' = [calls EXCEPT ![c] = Idle]
      /\ UNCHANGED today

\* (a bug) Only a changed status is told, compared with what is stored now.
ValidateStore_Unchanged(c) ==
  LET e == validateEvidencePipeline(calls[c].item, calls[c].seen, calls[c].maxAge)
  IN  /\ calls[c].op = "judge"
      /\ evidence' = [evidence EXCEPT ![calls[c].id] = e]
      /\ told' = [told EXCEPT ![calls[c].id] = IF e.status = "flagged" THEN @ ELSE StatusEvent(e.status)]
      /\ calls' = [calls EXCEPT ![c] = Idle]
      /\ UNCHANGED today

\* ... and write the document back as they judged it.
ValidateStore(c) ==
  LET e == validateEvidencePipeline(calls[c].item, calls[c].seen, calls[c].maxAge)
  IN  /\ calls[c].op = "judge"
      /\ evidence' = [evidence EXCEPT ![calls[c].id] = e]
      /\ told' = [told EXCEPT ![calls[c].id] = StatusEvent(e.status)]
      /\ calls' = [calls EXCEPT ![c] = Idle]
      /\ UNCHANGED today

NextDay ==
  /\ today < MaxDay /\ today' = today + 1
  /\ UNCHANGED <<evidence, calls, told>>

-----------------------------------------------------------------------------
(* The gate, evaluateEvidenceGating                                        *)

allPresent ==
  \A class \in Required : \E i \in DOMAIN evidence : evidence[i].class = class /\ Unexpired(evidence[i])

allFresh == \A i \in DOMAIN evidence : Fresh(evidence[i], MaxAge[evidence[i].class])
allValid == \A i \in DOMAIN evidence : Unexpired(evidence[i]) /\ evidence[i].status # "flagged"
noFlags == flagEvidenceConflicts(evidence) = {} /\ \A i \in DOMAIN evidence : ~evidence[i].flags

gatePassed(strict) == allPresent /\ allFresh /\ allValid /\ (strict => noFlags)

EvidenceNext ==
  \/ \E c \in Submitter :
       (\E d \in Document : SubmitRead(c, d)) \/ SubmitStore(c) \/ SubmitLog(c)
  \/ \E c \in Validator :
       \/ \E id \in DOMAIN evidence, maxAge \in MaxAgeOption : ValidateFind(c, id, maxAge)
       \/ ValidateRead(c) \/ ValidateStore(c)
  \/ NextDay

EvidenceSpec == EvidenceInit /\ [][EvidenceNext]_evidenceVars

-----------------------------------------------------------------------------
(* Properties                                                              *)

\* A flag is not cleared by re-validating the document, whatever was
\* submitted in the meantime, because its own flag counts as a conflict; it
\* is lost only when a re-validation that had read the document before it was
\* flagged writes it back.  An expired document stays expired even then
\* (validateEvidence, flagEvidenceConflicts).
FlagIsFinal ==
  [][\A i \in DOMAIN evidence :
       /\ evidence[i].status = "expired" => evidence'[i].status = "expired"
       /\ (evidence[i].status = "flagged" /\ evidence'[i].status = "validated") =>
            \E c \in Validator :
              calls[c].op = "judge" /\ calls[c].id = i /\ calls[c].item.status = "validated"]_evidenceVars

\* Once a document is too old or expired, or two have the same hash, the gate
\* never opens again: no later document replaces it (evaluateEvidenceGating
\* looks at every document, and none is removed).
GateStaysShut ==
  [][(\/ DuplicateHash(evidence)
      \/ \E i \in DOMAIN evidence :
           LET e == evidence[i]
           IN  e.status = "expired" \/ PastExpiry(e) \/ today - e.submitted > MaxAge[e.class])
     => ~gatePassed(TRUE)']_evidenceVars

\* A gate that passes, strict or not, has an unexpired, unflagged lien waiver
\* for the milestone of every invoice, although it never looks for one: the
\* invoice was checked when it was submitted, perhaps long ago, and what
\* became of its waiver since shuts the gate by itself.
InvoiceHasWaiver ==
  gatePassed(FALSE) =>
    \A i \in DOMAIN evidence : evidence[i].class = "invoice" =>
      \E j \in DOMAIN evidence :
        /\ evidence[j].class = "lien_waiver" /\ evidence[j].milestone = evidence[i].milestone
        /\ evidence[j].status = "validated" /\ ~PastExpiry(evidence[j])

\* A gate that passes, strict or not, has no two invoices of one number and no
\* two invoices with one hash, as long as the project's documents are
\* submitted one after the other; re-validations may overlap with them and
\* with each other (detectEvidenceConflicts).
NoDuplicateInvoicePasses ==
  (Cardinality(Submitter) = 1 /\ gatePassed(FALSE)) =>
    \A i, j \in DOMAIN evidence :
      (i # j /\ evidence[i].class = "invoice" /\ evidence[j].class = "invoice") =>
        /\ evidence[i].hash # evidence[j].hash
        /\ evidence[i].number # None => evidence[i].number # evidence[j].number

\* Once nobody is about to log, the last event about a document tells its
\* status, however many calls overlapped.  The one exception is a document
\* that a re-validation found expired between its submission and the event
\* that tells it was flagged (submitEvidence, validateEvidence).
StatusTold ==
  (\A c \in Submitter : calls[c].op # "log") =>
    \A i \in DOMAIN evidence :
      \/ told[i] = StatusEvent(evidence[i].status)
      \/ told[i] = "EVIDENCE_SUBMITTED" /\ evidence[i].status = "validated"
      \/ told[i] = "EVIDENCE_FLAGGED" /\ evidence[i].status = "expired"
=============================================================================
