------------------------- MODULE SettlementImport -------------------------
(***************************************************************************)
(* Settlement confirmations, as DrawService imports them from a CSV file   *)
(* that two people enter (stageCsvFirstEntry, confirmCsvSecondEntry,       *)
(* importCsvConfirmations).  The import is one transaction over the rows   *)
(* of the file: it works on copies of the tables, a row at a time, and     *)
(* publishes them when it commits.  It holds the audit chain head from its *)
(* first event on, so no other operation commits meanwhile.                *)
(***************************************************************************)
EXTENDS DrawWorkflow, Sequences

CONSTANTS
  Batch,       \* batch keys
  File,        \* the files to consider, as sequences of parsed rows
  MaxRows,     \* bound: rows of a file
  NoDrawId     \* the NULL draw of a reconciliation record

\* amount_minor may be 0 in a file that parses; sameCurrency says whether the
\* row is in the currency of the deal.
CsvRow == [ref : Reference, amount : Amount, account : Account, sameCurrency : BOOLEAN,
           date : Nat]

ASSUME ImportConstants ==
  /\ MaxRows \in Nat
  /\ \A f \in File : f \in Seq(CsvRow) /\ Len(f) <= MaxRows
  /\ <<>> \in File
  /\ NoDrawId \notin Draw

VARIABLES
  staged,         \* csv_import_batch
  imported,       \* batches with a CSV_BATCH_IMPORTED event
  confirmations,  \* settlement_confirmation
  records,        \* reconciliation_record
  job             \* the import in progress and its view of the tables

settleVars == <<staged, imported, confirmations, records, job>>
allVars == <<vars, settleVars>>

NoJob == [batch |-> "NONE"]
Idle == job = NoJob

SettlementInit ==
  /\ Init
  /\ staged = [b \in Batch |-> [by |-> Nobody, rows |-> <<>>]]
  /\ imported = {} /\ confirmations = {} /\ records = {}
  /\ job = NoJob

-----------------------------------------------------------------------------
EntryRoles == {"TreasuryOwner", "OperationsOwner", "FundAdministrator", "RiskOwner"}

StageCsvFirstEntry(s, b, rows) ==
  /\ Idle
  /\ staged[b].by = Nobody
  /\ Holds(s, EntryRoles)
  /\ staged' = [staged EXCEPT ![b] = [by |-> s, rows |-> rows]]
  /\ UNCHANGED <<vars, imported, confirmations, records, job>>

\* confirmCsvSecondEntry up to the CSV_BATCH_IMPORTED event: another person
\* submits the same rows, once per batch.
ConfirmCsvSecondEntry(s, b, rows) ==
  /\ Idle
  /\ staged[b].by \notin {Nobody, s}
  /\ rows = staged[b].rows
  /\ b \notin imported
  /\ Holds(staged[b].by, EntryRoles) /\ Holds(s, EntryRoles)
  /\ job' = [batch |-> b, entrant |-> staged[b].by, second |-> s, todo |-> rows, line |-> 1,
             tables |-> [draw |-> draw, instructions |-> instructions,
                         confirmations |-> confirmations, records |-> records]]
  /\ UNCHANGED <<vars, staged, imported, confirmations, records>>

Instructed(t, ref) == {i \in t.instructions : i.ref = ref}

\* Mutant: only the draw's status is looked at.
Duplicate_StatusOnly(t, row) ==
  \E i \in Instructed(t, row.ref) : t.draw[i.draw].status # "SETTLEMENT_INSTRUCTED"

\* Mutant: duplicates are not looked for.
Duplicate_Never(t, row) == FALSE

\* The partner confirms a reference again, or one whose draw is past waiting.
Duplicate(t, row) ==
  \/ \E c \in t.confirmations : c.row.ref = row.ref
  \/ \E i \in Instructed(t, row.ref) : t.draw[i.draw].status # "SETTLEMENT_INSTRUCTED"

\* Mutant: the date is not compared.
Mismatch_NoDate(i, row) ==
  (IF row.amount # i.amount THEN {"AMOUNT"} ELSE {})
    \cup (IF ~row.sameCurrency THEN {"CURRENCY"} ELSE {})
    \cup (IF row.account # i.account THEN {"PAYEE"} ELSE {})

\* Exact match on amount, currency, payee and date; the reference selected i.
Mismatch(i, row) ==
  (IF row.amount # i.amount THEN {"AMOUNT"} ELSE {})
    \cup (IF ~row.sameCurrency THEN {"CURRENCY"} ELSE {})
    \cup (IF row.account # i.account THEN {"PAYEE"} ELSE {})
    \cup (IF row.date < i.date THEN {"DATE"} ELSE {})

Note(t, d, row, codes) ==
  [t EXCEPT !.records = @ \cup {[batch |-> job.batch, line |-> job.line, draw |-> d,
                                 ref |-> row.ref, codes |-> codes]}]

Confirm(t, d, row) ==
  [t EXCEPT !.confirmations = @ \cup {[row |-> row, draw |-> d, entrant |-> job.entrant,
                                       second |-> job.second]}]

\* recordException for a duplicate: no confirmation is stored.
NoteDuplicate(t, row) ==
  LET hit == Instructed(t, row.ref)
  IN Note(t, IF hit = {} THEN NoDrawId ELSE (CHOOSE i \in hit : TRUE).draw, row,
          {"DUPLICATE_REFERENCE"})

\* SETTLEMENT_INSTRUCTED -> SETTLEMENT_CONFIRMED -> RECONCILED or
\* RECONCILIATION_EXCEPTION.
Settle(t, i, row) ==
  LET codes == Mismatch(i, row)
      judged == [Note(Confirm(t, i.draw, row), i.draw, row, codes) EXCEPT
                   !.instructions = (@ \ {i}) \cup {[i EXCEPT !.status = "CONFIRMED"]}]
  IN IF codes = {}
     THEN [judged EXCEPT !.draw[i.draw].status = "RECONCILED",
                         !.draw[i.draw].settlement = "CONFIRMED",
                         !.draw[i.draw].reconciliation = "MATCHED"]
     ELSE [judged EXCEPT !.draw[i.draw].status = "RECONCILIATION_EXCEPTION",
                         !.draw[i.draw].settlement = "CONFIRMED",
                         !.draw[i.draw].reconciliation = "EXCEPTION"]

\* What one row does to the tables.
ImportOf(t, row) ==
  IF Duplicate(t, row) THEN NoteDuplicate(t, row)
  ELSE IF Instructed(t, row.ref) = {}
       THEN Note(Confirm(t, NoDrawId, row), NoDrawId, row, {"UNAPPROVED_SETTLEMENT"})
       ELSE Settle(t, CHOOSE i \in Instructed(t, row.ref) : TRUE, row)

\* Trigger reconciliation_record_guard on a MATCHED record.
ExactMatch(i, row) == row.amount = i.amount /\ row.sameCurrency /\ row.account = i.account

\* CHECK (confirmed_amount_minor > 0) on a confirmation that would be stored.
RowAccepted(t, row) ==
  \/ Duplicate(t, row)
  \/ /\ row.amount > 0
     /\ \A i \in Instructed(t, row.ref) : Mismatch(i, row) = {} => ExactMatch(i, row)

ImportRow ==
  /\ ~Idle /\ job.todo # <<>>
  /\ RowAccepted(job.tables, Head(job.todo))
  /\ job' = [job EXCEPT !.tables = ImportOf(@, Head(job.todo)), !.todo = Tail(@),
                        !.line = @ + 1]
  /\ UNCHANGED <<vars, staged, imported, confirmations, records>>

ImportCommit ==
  /\ ~Idle /\ job.todo = <<>>
  /\ draw' = job.tables.draw
  /\ instructions' = job.tables.instructions
  /\ confirmations' = job.tables.confirmations
  /\ records' = job.tables.records
  /\ imported' = imported \cup {job.batch}
  /\ job' = NoJob
  /\ UNCHANGED <<docs, checks, decisions, world, staged>>

\* Mutant: rows are committed one by one.
ImportAbort_KeepsRows ==
  /\ ~Idle
  /\ draw' = job.tables.draw
  /\ instructions' = job.tables.instructions
  /\ confirmations' = job.tables.confirmations
  /\ records' = job.tables.records
  /\ job' = NoJob
  /\ UNCHANGED <<docs, checks, decisions, world, staged, imported>>

\* A row is refused or the connection is lost: the whole file is rolled back.
ImportAbort ==
  /\ ~Idle
  /\ job' = NoJob
  /\ UNCHANGED <<vars, staged, imported, confirmations, records>>

WorkflowStep == Idle /\ Next /\ UNCHANGED settleVars

SettlementNext ==
  \/ WorkflowStep
  \/ \E s \in Subject, b \in Batch, rows \in File :
       StageCsvFirstEntry(s, b, rows) \/ ConfirmCsvSecondEntry(s, b, rows)
  \/ ImportRow
  \/ ImportCommit
  \/ ImportAbort

SettlementSpec == SettlementInit /\ [][SettlementNext]_allVars

-----------------------------------------------------------------------------
\* Whatever files arrive, in whatever order and with whatever repetitions, a
\* reference is confirmed at most once and a draw has at most one confirmation.
ConfirmedOnce ==
  \A c, e \in confirmations :
    c.row.ref = e.row.ref \/ (c.draw = e.draw /\ c.draw # NoDrawId) => c = e

\* A RECONCILED draw was paid exactly as instructed, on a day that is not
\* before the instruction, and two people entered it; a confirmed draw that
\* was not is RECONCILIATION_EXCEPTION, and none is left unjudged.
ReconciledExactly ==
  \A i \in instructions :
    LET paid == {c \in confirmations : c.draw = i.draw}
        exact(c) == /\ c.row.amount = i.amount /\ c.row.account = i.account
                    /\ c.row.sameCurrency /\ c.row.date >= i.date
    IN /\ draw[i.draw].status =
            CASE paid = {} -> "SETTLEMENT_INSTRUCTED"
              [] \E c \in paid : exact(c) -> "RECONCILED"
              [] OTHER -> "RECONCILIATION_EXCEPTION"
       /\ \A c \in paid : c.row.ref = i.ref /\ c.entrant # c.second

\* A file is imported as a whole: every row of an imported file has exactly
\* one reconciliation record, and a file that failed left none.
FileAccounted ==
  \A b \in Batch :
    LET lines == {r.line : r \in {x \in records : x.batch = b}}
    IN /\ lines = IF b \in imported THEN DOMAIN staged[b].rows ELSE {}
       /\ \A x, y \in records : x.batch = y.batch /\ x.line = y.line => x = y

Paid(d) == {i \in instructions : i.draw = d}

\* What PaymentOnce sees of the tables: the payment asked for by a draw.
PaymentView ==
  [d \in Draw |->
     IF Paid(d) = {} THEN [amount |-> 0, judged |-> "no"]
     ELSE [amount |-> (CHOOSE i \in Paid(d) : TRUE).amount,
           judged |-> CASE draw[d].status = "RECONCILED" -> "matched"
                        [] draw[d].status = "RECONCILIATION_EXCEPTION" -> "exception"
                        [] OTHER -> "no"]]

Payments == INSTANCE PaymentOnce WITH payment <- PaymentView

\* The workflow implements PaymentOnce: a draw asks for money at most once, for
\* an amount that stays, and its confirmation is judged once.
RefinesPaymentOnce == Payments!Spec
=============================================================================
