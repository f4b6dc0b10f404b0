----------------------- MODULE SettlementImportProofs -----------------------
(***************************************************************************)
(* The safety of the confirmation import, on top of the draw workflow, for *)
(* any files, batches, draws and people, and that the two together         *)
(* implement PaymentOnce.                                                  *)
(*                                                                         *)
(* An import works on copies of the tables.  What has to hold of the       *)
(* tables holds of the copies after every row (PaymentsKept), and the      *)
(* copies differ from the tables only by payments judged (Progress), since *)
(* nothing else commits while an import runs.                              *)
(***************************************************************************)
EXTENDS SettlementImport, DrawWorkflowProofs, SequenceTheorems

Tables == [draw |-> draw, instructions |-> instructions, confirmations |-> confirmations,
           records |-> records]

Confirmation == [row : CsvRow, draw : Draw \cup {NoDrawId}, entrant : Subject, second : Subject]

RecordCode == {"AMOUNT", "CURRENCY", "PAYEE", "DATE", "DUPLICATE_REFERENCE", "UNAPPROVED_SETTLEMENT"}

Record == [batch : Batch, line : Nat, draw : Draw \cup {NoDrawId}, ref : Reference,
           codes : SUBSET RecordCode]

TableSet == [draw : [Draw -> DrawRow], instructions : SUBSET Instruction,
             confirmations : SUBSET Confirmation, records : SUBSET Record]

StagedTyped ==
  /\ staged \in [Batch -> [by : Subject \cup {Nobody}, rows : Seq(CsvRow)]]
  /\ imported \subseteq {b \in Batch : staged[b].by # Nobody}

\* One live instruction per draw and per reference.
InstructedOnce(t) ==
  \A i, j \in t.instructions : i.ref = j.ref \/ i.draw = j.draw => i = j

\* A stored confirmation is of an instruction, or of none that the draw
\* workflow knew, and was entered by two people.
ConfirmationsFounded(t) ==
  /\ \A c, e \in t.confirmations :
       c.row.ref = e.row.ref \/ (c.draw = e.draw /\ c.draw # NoDrawId) => c = e
  /\ \A c \in t.confirmations :
       /\ c.entrant # c.second
       /\ c.draw # NoDrawId => \E i \in t.instructions : i.draw = c.draw /\ i.ref = c.row.ref

Exact(c, i) ==
  /\ c.row.amount = i.amount /\ c.row.account = i.account
  /\ c.row.sameCurrency /\ c.row.date >= i.date

\* Where the draw of an instruction stands follows from its confirmations.
PaymentsJudged(t) ==
  \A i \in t.instructions :
    \/ /\ t.draw[i.draw].status = "SETTLEMENT_INSTRUCTED"
       /\ \A c \in t.confirmations : c.draw # i.draw
    \/ /\ t.draw[i.draw].status = "RECONCILED"
       /\ \E c \in t.confirmations : c.draw = i.draw /\ Exact(c, i)
    \/ /\ t.draw[i.draw].status = "RECONCILIATION_EXCEPTION"
       /\ \E c \in t.confirmations : c.draw = i.draw
       /\ \A c \in t.confirmations : c.draw = i.draw => ~Exact(c, i)

PaymentsKept(t) == InstructedOnce(t) /\ ConfirmationsFounded(t) /\ PaymentsJudged(t)

\* The row of a draw as an import may leave it.
JudgedRow(old, new) ==
  /\ old.status = "SETTLEMENT_INSTRUCTED"
  /\ new.status \in {"RECONCILED", "RECONCILIATION_EXCEPTION"}
  /\ new.requester = old.requester /\ new.account = old.account
  /\ new.requested = old.requested /\ new.approved = old.approved
  /\ new.policy = old.policy /\ new.manifest = old.manifest /\ new.binding = old.binding

SameInstruction(i, j) ==
  /\ i.draw = j.draw /\ i.by = j.by /\ i.ref = j.ref
  /\ i.amount = j.amount /\ i.account = j.account /\ i.binding = j.binding /\ i.date = j.date

\* What an import under way has changed of the tables.
Progress(t) ==
  /\ \A d \in Draw :
       \/ t.draw[d] = draw[d]
       \/ JudgedRow(draw[d], t.draw[d]) /\ \E i \in instructions : i.draw = d
  /\ \A i \in instructions : \E j \in t.instructions : SameInstruction(i, j)
  /\ \A j \in t.instructions : \E i \in instructions : SameInstruction(i, j)

Lines(t, b) == {r.line : r \in {x \in t.records : x.batch = b}}

OneRecordPerLine(t) == \A x, y \in t.records : x.batch = y.batch /\ x.line = y.line => x = y

\* The lines an import has come to have their records, and no others.
LinesCounted ==
  /\ OneRecordPerLine(Tables)
  /\ \A b \in Batch : Lines(Tables, b) = IF b \in imported THEN DOMAIN staged[b].rows ELSE {}

JobRecord == [batch : Batch, entrant : Subject, second : Subject, todo : Seq(CsvRow),
              line : Nat \ {0}, tables : TableSet]

JobSound ==
  ~Idle =>
    /\ job \in JobRecord
    /\ job.entrant # job.second
    /\ job.batch \notin imported /\ staged[job.batch].by # Nobody
    /\ Len(job.todo) + job.line = Len(staged[job.batch].rows) + 1
    /\ PaymentsKept(job.tables) /\ Progress(job.tables)
    /\ OneRecordPerLine(job.tables)
    /\ \A b \in Batch : Lines(job.tables, b) = IF b = job.batch THEN 1..(job.line - 1) ELSE Lines(Tables, b)

SettlementInv ==
  /\ WorkflowInv
  /\ StagedTyped
  /\ Tables \in TableSet
  /\ PaymentsKept(Tables)
  /\ LinesCounted
  /\ JobSound

-----------------------------------------------------------------------------
\* Before the first file nothing is confirmed.
LEMMA SettlementStart == SettlementInit => SettlementInv
<1> SUFFICES ASSUME SettlementInit PROVE SettlementInv
  OBVIOUS
<1>1. /\ Init /\ imported = {} /\ confirmations = {} /\ records = {} /\ instructions = {}
      /\ staged = [b \in Batch |-> [by |-> Nobody, rows |-> <<>>]] /\ job = NoJob
  BY DEF SettlementInit, Init
<1>2. WorkflowInv
  BY <1>1, WorkflowInit
<1>3. StagedTyped
  BY <1>1 DEF StagedTyped
<1>4. Tables \in TableSet
  BY <1>1, <1>2 DEF Tables, TableSet, WorkflowInv, TypeOK
<1>5. PaymentsKept(Tables)
  BY <1>1 DEF Tables, PaymentsKept, InstructedOnce, ConfirmationsFounded, PaymentsJudged
<1>6. LinesCounted
  BY <1>1 DEF LinesCounted, OneRecordPerLine, Lines, Tables
<1>7. JobSound
  BY <1>1 DEF JobSound, Idle
<1> QED
  BY <1>2, <1>3, <1>4, <1>5, <1>6, <1>7 DEF SettlementInv

-----------------------------------------------------------------------------
\* Of the draw workflow, only instruct adds an instruction, and no operation
\* touches a draw that has one.
LEMMA InstructedDrawsRest ==
  ASSUME WorkflowInv, Next
  PROVE  \/ UNCHANGED instructions /\ \A i \in instructions : draw'[i.draw] = draw[i.draw]
         \/ \E s \in Subject, d \in Draw, ref \in Reference : Instruct(s, d, ref)
<1> DEFINE Rest == UNCHANGED instructions /\ \A i \in instructions : draw'[i.draw] = draw[i.draw]
<1>1. \A i \in instructions :
        i.draw \in Draw /\ draw[i.draw].status \in Decided \ {"APPROVED"}
  BY DEF WorkflowInv, TypeOK, Instruction, InstructionIsApproved
<1>2. ASSUME NEW d \in Draw, NEW r, draw[d].status \notin Decided \ {"APPROVED"},
             draw' = [draw EXCEPT ![d] = r], UNCHANGED instructions
      PROVE  Rest
  BY <1>1, <1>2 DEF WorkflowInv, TypeOK
<1>3. ASSUME NEW s \in Subject, NEW d \in Draw, NEW a \in Account, NEW p \in Party,
             NEW n \in Amount, CreateDraft(s, d, a, p, n)
      PROVE  Rest
  BY <1>2, <1>3 DEF CreateDraft, Decided
<1>4. ASSUME NEW s \in Subject, NEW d \in Draw, Submit(s, d)
      PROVE  Rest
  BY <1>2, <1>4, Edges DEF Submit, SaveDraw, Decided
<1>5. ASSUME NEW s \in Subject, NEW d \in Draw, Evaluate(s, d)
      PROVE  Rest
  <2>1. draw[d].status \in {"SUBMITTED", "REQUIRES_INFORMATION", "HELD", "ESCALATED", "APPROVED"}
    BY <1>5, Edges DEF Evaluate
  <2> QED
    BY <1>2, <1>5, <2>1 DEF Evaluate, SaveDraw, Decided
<1>6. ASSUME NEW s \in Subject, NEW d \in Draw, NEW n \in Amount, Approve(s, d, n)
      PROVE  Rest
  BY <1>2, <1>6 DEF Approve, ApproveCall, SaveDraw, Decided
<1>7. ASSUME UNCHANGED <<draw, instructions>>
      PROVE  Rest
  BY <1>7
<1>8. CASE VerifyStep \/ Administer
  BY <1>7, <1>8 DEF VerifyStep, VerifyEvidence, Administer
<1>9. CASE ServiceStep
  <2> PICK s \in Subject, d \in Draw :
        \/ \E a \in Account, p \in Party, n \in Amount : CreateDraft(s, d, a, p, n)
        \/ \E ty \in DocType : UploadEvidence(s, d, ty)
        \/ Submit(s, d)
        \/ Evaluate(s, d)
        \/ \E n \in Amount : RecordApproval(s, d, n)
        \/ \E n \in Amount : Approve(s, d, n)
        \/ \E ref \in Reference : Instruct(s, d, ref)
    BY <1>9 DEF ServiceStep
  <2>1. CASE \E a \in Account, p \in Party, n \in Amount : CreateDraft(s, d, a, p, n)
    BY <1>3, <2>1
  <2>2. CASE \E ty \in DocType : UploadEvidence(s, d, ty)
    BY <1>7, <2>2 DEF UploadEvidence
  <2>3. CASE \E n \in Amount : RecordApproval(s, d, n)
    BY <1>7, <2>3 DEF RecordApproval, ApproveCall
  <2>4. CASE \E n \in Amount : Approve(s, d, n)
    BY <1>6, <2>4
  <2> QED
    BY <1>4, <1>5, <2>1, <2>2, <2>3, <2>4
<1> QED
  BY <1>8, <1>9 DEF Next

\* A draw is instructed before any confirmation of it: a confirmation that
\* names a draw has found its instruction.
LEMMA InstructKeepsPayments ==
  ASSUME SettlementInv, NEW s \in Subject, NEW d \in Draw, NEW ref \in Reference,
         Instruct(s, d, ref), UNCHANGED <<confirmations, records>>
  PROVE  PaymentsKept(Tables)'
<1> DEFINE n == [draw |-> d, by |-> s, ref |-> ref, amount |-> draw[d].approved,
                 account |-> draw[d].account, binding |-> draw[d].binding, status |-> "SENT",
                 date |-> world.today]
<1>1. /\ \A i \in instructions : i.ref # ref /\ i.draw # d
      /\ instructions' = instructions \cup {n}
      /\ draw' = [draw EXCEPT ![d] = Sent(draw[d])]
  BY DEF Instruct, InsertInstruction, SaveDraw
<1>2. n.draw = d /\ n.ref = ref
  OBVIOUS
<1> HIDE DEF n
<1>3. draw \in [Draw -> DrawRow] /\ \A i \in instructions : i.draw \in Draw
  BY DEF SettlementInv, WorkflowInv, TypeOK, Instruction
<1>4. draw'[d].status = "SETTLEMENT_INSTRUCTED" /\ \A i \in instructions : draw'[i.draw] = draw[i.draw]
  <2>1. draw'[d] = Sent(draw[d]) /\ draw[d] \in DrawRow
    BY <1>1, <1>3
  <2> QED
    BY <1>1, <1>3, <2>1, SentRow
<1>5. PaymentsKept(Tables)
  BY DEF SettlementInv
<1>6. \A c \in confirmations :
        c.draw # d /\ (c.draw # NoDrawId => \E i \in instructions : i.draw = c.draw /\ i.ref = c.row.ref)
  BY <1>1, <1>5, ImportConstants DEF PaymentsKept, ConfirmationsFounded, Tables
<1>7. InstructedOnce(Tables)'
  BY <1>1, <1>2, <1>5 DEF PaymentsKept, InstructedOnce, Tables
<1>8. ConfirmationsFounded(Tables)'
  BY <1>1, <1>5, <1>6 DEF PaymentsKept, ConfirmationsFounded, Tables
<1>9. PaymentsJudged(Tables)'
  <2> SUFFICES ASSUME NEW i \in instructions'
               PROVE  \/ /\ draw'[i.draw].status = "SETTLEMENT_INSTRUCTED"
                         /\ \A c \in confirmations : c.draw # i.draw
                      \/ /\ draw'[i.draw].status = "RECONCILED"
                         /\ \E c \in confirmations : c.draw = i.draw /\ Exact(c, i)
                      \/ /\ draw'[i.draw].status = "RECONCILIATION_EXCEPTION"
                         /\ \E c \in confirmations : c.draw = i.draw
                         /\ \A c \in confirmations : c.draw = i.draw => ~Exact(c, i)
    BY DEF PaymentsJudged, Tables
  <2>1. CASE i = n
    BY <1>2, <1>4, <1>6, <2>1
  <2>2. CASE i \in instructions
    BY <1>4, <1>5, <2>2 DEF PaymentsKept, PaymentsJudged, Tables
  <2> QED
    BY <1>1, <2>1, <2>2
<1> QED
  BY <1>7, <1>8, <1>9 DEF PaymentsKept

\* Any step of the draw workflow, between imports.
LEMMA WorkflowStepPreserves ==
  ASSUME SettlementInv, WorkflowStep
  PROVE  SettlementInv'
<1>1. Idle /\ Next /\ UNCHANGED <<staged, imported, confirmations, records, job>>
  BY DEF WorkflowStep, settleVars
<1>2. WorkflowInv'
  BY <1>1, WorkflowNext DEF SettlementInv
<1>3. StagedTyped'
  BY <1>1 DEF SettlementInv, StagedTyped
<1>4. (Tables \in TableSet)'
  <2>1. confirmations \subseteq Confirmation /\ records \subseteq Record
    BY DEF SettlementInv, Tables, TableSet
  <2> QED
    BY <1>1, <1>2, <2>1 DEF WorkflowInv, TypeOK, Tables, TableSet
<1>5. PaymentsKept(Tables)'
  <2>1. CASE UNCHANGED instructions /\ \A i \in instructions : draw'[i.draw] = draw[i.draw]
    BY <1>1, <2>1 DEF SettlementInv, PaymentsKept, InstructedOnce, ConfirmationsFounded,
       PaymentsJudged, Tables
  <2>2. CASE \E s \in Subject, d \in Draw, ref \in Reference : Instruct(s, d, ref)
    BY <1>1, <2>2, InstructKeepsPayments
  <2> QED
    BY <1>1, <2>1, <2>2, InstructedDrawsRest DEF SettlementInv
<1>6. LinesCounted'
  BY <1>1 DEF SettlementInv, LinesCounted, OneRecordPerLine, Lines, Tables
<1>7. JobSound'
  BY <1>1 DEF JobSound, Idle
<1> QED
  BY <1>2, <1>3, <1>4, <1>5, <1>6, <1>7 DEF SettlementInv

\* What an operation that leaves every table alone has to show.
LEMMA TablesKept ==
  ASSUME SettlementInv, UNCHANGED <<vars, imported, confirmations, records>>,
         staged' \in [Batch -> [by : Subject \cup {Nobody}, rows : Seq(CsvRow)]],
         \A b \in Batch : staged[b].by # Nobody => staged'[b] = staged[b],
         JobSound'
  PROVE  SettlementInv'
<1>1. UNCHANGED <<draw, instructions, confirmations, records, imported>> /\ UNCHANGED vars
  BY DEF vars
<1>2. WorkflowInv'
  BY <1>1, WorkflowNext DEF SettlementInv
<1>3. StagedTyped'
  BY <1>1 DEF SettlementInv, StagedTyped
<1>4. (Tables \in TableSet)' /\ PaymentsKept(Tables)'
  BY <1>1 DEF SettlementInv, PaymentsKept, InstructedOnce, ConfirmationsFounded, PaymentsJudged,
     Tables, TableSet
<1>5. LinesCounted'
  BY <1>1 DEF SettlementInv, StagedTyped, LinesCounted, OneRecordPerLine, Lines, Tables
<1> QED
  BY <1>2, <1>3, <1>4, <1>5 DEF SettlementInv

\* stageCsvFirstEntry fills a batch nobody has staged.
LEMMA StagePreserves ==
  ASSUME SettlementInv, NEW s \in Subject, NEW b \in Batch, NEW rows \in File,
         StageCsvFirstEntry(s, b, rows)
  PROVE  SettlementInv'
<1>1. /\ job' = job /\ Idle
      /\ staged[b].by = Nobody
      /\ staged' = [staged EXCEPT ![b] = [by |-> s, rows |-> rows]]
      /\ UNCHANGED <<vars, imported, confirmations, records>>
  BY DEF StageCsvFirstEntry
<1>2. rows \in Seq(CsvRow)
  BY ImportConstants
<1>3. staged' \in [Batch -> [by : Subject \cup {Nobody}, rows : Seq(CsvRow)]]
  BY <1>1, <1>2 DEF SettlementInv, StagedTyped
<1>4. \A x \in Batch : staged[x].by # Nobody => staged'[x] = staged[x]
  BY <1>1 DEF SettlementInv, StagedTyped
<1>5. JobSound'
  BY <1>1 DEF JobSound, Idle
<1> QED
  BY <1>1, <1>3, <1>4, <1>5, TablesKept

\* confirmCsvSecondEntry starts from the tables as they are.
LEMMA SecondEntryPreserves ==
  ASSUME SettlementInv, NEW s \in Subject, NEW b \in Batch, NEW rows \in File,
         ConfirmCsvSecondEntry(s, b, rows)
  PROVE  SettlementInv'
<1> DEFINE j == [batch |-> b, entrant |-> staged[b].by, second |-> s, todo |-> rows, line |-> 1,
                 tables |-> Tables]
<1>1. /\ job' = j
      /\ staged[b].by \notin {Nobody, s} /\ rows = staged[b].rows /\ b \notin imported
      /\ UNCHANGED <<vars, staged, imported, confirmations, records>>
  BY DEF ConfirmCsvSecondEntry, Tables
<1>2. UNCHANGED <<draw, instructions>> /\ UNCHANGED Tables
  BY <1>1 DEF vars, Tables
<1>3. staged[b].by \in Subject /\ rows \in Seq(CsvRow)
  BY <1>1, ImportConstants DEF SettlementInv, StagedTyped
<1>4. j \in JobRecord
  BY <1>3 DEF SettlementInv, JobRecord
<1>5. /\ j.batch = b /\ j.entrant = staged[b].by /\ j.second = s /\ j.todo = rows /\ j.line = 1
      /\ j.tables = Tables
  OBVIOUS
<1> HIDE DEF j
<1>6. Len(rows) + 1 = Len(staged[b].rows) + 1
  BY <1>1
<1>7. Progress(Tables)'
  BY <1>2 DEF Progress, SameInstruction, Tables
<1>8. PaymentsKept(Tables)' /\ OneRecordPerLine(Tables)'
  BY <1>1, <1>2 DEF SettlementInv, LinesCounted, OneRecordPerLine, PaymentsKept, InstructedOnce,
     ConfirmationsFounded, PaymentsJudged, Tables
<1>9. \A x \in Batch : Lines(Tables, x)' = IF x = b THEN 1..(1 - 1) ELSE Lines(Tables, x)'
  <2>1. Lines(Tables, b)' = Lines(Tables, b)
    BY <1>2 DEF Lines
  <2>2. Lines(Tables, b) = {}
    BY <1>1 DEF SettlementInv, LinesCounted
  <2> QED
    BY <2>1, <2>2
<1>10. JobSound'
  <2>1. job'.tables = Tables'
    BY <1>1, <1>2, <1>5
  <2>2. PaymentsKept(job.tables)' /\ OneRecordPerLine(job.tables)' /\ Progress(job.tables)'
    BY <1>7, <1>8, <2>1
  <2>3. \A x \in Batch : Lines(job.tables, x)' =
                           IF x = job'.batch THEN 1..(job'.line - 1) ELSE Lines(Tables, x)'
    BY <1>1, <1>5, <1>9, <2>1
  <2> QED
    BY <1>1, <1>4, <1>5, <1>6, <2>2, <2>3 DEF JobSound
<1> QED
  BY <1>1, <1>10, TablesKept DEF SettlementInv, StagedTyped

\* Whatever goes wrong, the tables were never touched.
LEMMA AbortPreserves ==
  ASSUME SettlementInv, ImportAbort
  PROVE  SettlementInv'
<1>1. job' = NoJob /\ UNCHANGED <<vars, staged, imported, confirmations, records>>
  BY DEF ImportAbort
<1>2. JobSound'
  BY <1>1 DEF JobSound, Idle
<1> QED
  BY <1>1, <1>2, TablesKept DEF SettlementInv, StagedTyped

-----------------------------------------------------------------------------
(***************************************************************************)
(* One row of a file: how each of its three outcomes changes the tables.   *)
(***************************************************************************)

\* u is t with a record for the line at hand.
Recorded(t, u) ==
  \E r \in Record : /\ r.batch = job.batch /\ r.line = job.line
                    /\ u.records = t.records \cup {r}

\* A note adds one reconciliation record.
LEMMA NoteAddsRecord ==
  ASSUME NEW t \in TableSet, job \in JobRecord, NEW d \in Draw \cup {NoDrawId},
         NEW row \in CsvRow, NEW codes \in SUBSET RecordCode
  PROVE  LET u == Note(t, d, row, codes)
         IN  /\ u \in TableSet /\ Recorded(t, u) /\ u.draw = t.draw
             /\ u.instructions = t.instructions /\ u.confirmations = t.confirmations
<1> DEFINE r == [batch |-> job.batch, line |-> job.line, draw |-> d, ref |-> row.ref,
                 codes |-> codes]
           u == Note(t, d, row, codes)
<1>1. r \in Record /\ r.batch = job.batch /\ r.line = job.line
  BY DEF JobRecord, CsvRow, Record
<1> HIDE DEF r
<1>2. u = [t EXCEPT !.records = @ \cup {r}]
  BY DEF Note, r
<1>3. u \in TableSet
  BY <1>1, <1>2 DEF TableSet
<1>4. /\ u.records = t.records \cup {r} /\ u.draw = t.draw
      /\ u.instructions = t.instructions /\ u.confirmations = t.confirmations
  BY <1>2 DEF TableSet
<1> QED
  BY <1>1, <1>3, <1>4 DEF Recorded

\* A confirmation adds one confirmation, and leaves the records.
LEMMA ConfirmAddsConfirmation ==
  ASSUME NEW t \in TableSet, job \in JobRecord, NEW d \in Draw \cup {NoDrawId},
         NEW row \in CsvRow
  PROVE  LET u == Confirm(t, d, row)
             c == [row |-> row, draw |-> d, entrant |-> job.entrant, second |-> job.second]
         IN  /\ u \in TableSet /\ u.records = t.records /\ u.draw = t.draw
             /\ u.instructions = t.instructions
             /\ u.confirmations = t.confirmations \cup {c}
<1> DEFINE c == [row |-> row, draw |-> d, entrant |-> job.entrant, second |-> job.second]
           u == Confirm(t, d, row)
<1>1. c \in Confirmation
  BY DEF JobRecord, Confirmation
<1> HIDE DEF c
<1>2. u = [t EXCEPT !.confirmations = @ \cup {c}]
  BY DEF Confirm, c
<1> QED
  BY <1>1, <1>2 DEF TableSet, c

\* The line count of the copies goes on by the line recorded.
LEMMA RecordedIsCounted ==
  ASSUME JobSound, ~Idle, NEW u \in TableSet, Recorded(job.tables, u)
  PROVE  /\ OneRecordPerLine(u)
         /\ \A b \in Batch : Lines(u, b) = IF b = job.batch THEN 1..job.line ELSE Lines(Tables, b)
<1>1. PICK r \in Record : /\ r.batch = job.batch /\ r.line = job.line
                          /\ u.records = job.tables.records \cup {r}
  BY DEF Recorded
<1>2. /\ job.batch \in Batch /\ job.line \in Nat \ {0}
      /\ OneRecordPerLine(job.tables)
      /\ \A b \in Batch : Lines(job.tables, b) =
                            IF b = job.batch THEN 1..(job.line - 1) ELSE Lines(Tables, b)
  BY DEF JobSound, JobRecord
<1>3. \A x \in job.tables.records : x.batch = job.batch => x.line # job.line
  <2> SUFFICES ASSUME NEW x \in job.tables.records, x.batch = job.batch
               PROVE  x.line # job.line
    OBVIOUS
  <2>1. x.line \in 1..(job.line - 1)
    BY <1>2 DEF Lines
  <2> QED
    BY <1>2, <2>1
<1>4. OneRecordPerLine(u)
  BY <1>1, <1>2, <1>3 DEF OneRecordPerLine
<1>5. ASSUME NEW b \in Batch
      PROVE  Lines(u, b) = IF b = job.batch THEN 1..job.line ELSE Lines(Tables, b)
  <2>1. Lines(u, b) = Lines(job.tables, b) \cup (IF b = job.batch THEN {job.line} ELSE {})
    BY <1>1 DEF Lines
  <2>2. 1..(job.line - 1) \cup {job.line} = 1..job.line
    BY <1>2
  <2>3. CASE b = job.batch
    BY <1>2, <2>1, <2>2, <2>3
  <2>4. CASE b # job.batch
    BY <1>2, <2>1, <2>4
  <2> QED
    BY <2>3, <2>4
<1> QED
  BY <1>4, <1>5

\* Copies that differ only in their records keep the payments as they were.
LEMMA PaymentsUntouched ==
  ASSUME NEW t, NEW u, PaymentsKept(t), Progress(t), u.draw = t.draw,
         u.instructions = t.instructions, u.confirmations = t.confirmations
  PROVE  PaymentsKept(u) /\ Progress(u)
<1>1. PaymentsKept(u)
  BY DEF PaymentsKept, InstructedOnce, ConfirmationsFounded, PaymentsJudged
<1>2. Progress(u)
  BY DEF Progress
<1> QED
  BY <1>1, <1>2

\* What ImportOf has to do for the import to go on.
RowDone(u) == u \in TableSet /\ Recorded(job.tables, u) /\ PaymentsKept(u) /\ Progress(u)

\* A duplicate is only noted.
LEMMA DuplicateRow ==
  ASSUME SettlementInv, ~Idle, NEW row \in CsvRow
  PROVE  RowDone(NoteDuplicate(job.tables, row))
<1> DEFINE t == job.tables
           hit == Instructed(t, row.ref)
           d == IF hit = {} THEN NoDrawId ELSE (CHOOSE i \in hit : TRUE).draw
<1>1. job \in JobRecord /\ t \in TableSet /\ PaymentsKept(t) /\ Progress(t)
  BY DEF SettlementInv, JobSound, JobRecord
<1>2. d \in Draw \cup {NoDrawId}
  <2>1. \A i \in hit : i.draw \in Draw
    BY <1>1 DEF Instructed, TableSet, Instruction
  <2> QED
    BY <2>1
<1>3. {"DUPLICATE_REFERENCE"} \in SUBSET RecordCode
  BY DEF RecordCode
<1>4. NoteDuplicate(t, row) = Note(t, d, row, {"DUPLICATE_REFERENCE"})
  BY DEF NoteDuplicate
<1> HIDE DEF d, t
<1>5. LET u == Note(t, d, row, {"DUPLICATE_REFERENCE"})
      IN  /\ u \in TableSet /\ Recorded(t, u) /\ u.draw = t.draw
          /\ u.instructions = t.instructions /\ u.confirmations = t.confirmations
  BY <1>1, <1>2, <1>3, NoteAddsRecord
<1>6. PaymentsKept(NoteDuplicate(t, row)) /\ Progress(NoteDuplicate(t, row))
  BY <1>1, <1>4, <1>5, PaymentsUntouched
<1> QED
  BY <1>4, <1>5, <1>6 DEF RowDone, t

\* A payment nobody instructed is stored with no draw, and noted.
LEMMA UnapprovedRow ==
  ASSUME SettlementInv, ~Idle, NEW row \in CsvRow, ~Duplicate(job.tables, row)
  PROVE  RowDone(Note(Confirm(job.tables, NoDrawId, row), NoDrawId, row, {"UNAPPROVED_SETTLEMENT"}))
<1> DEFINE t == job.tables
           c == [row |-> row, draw |-> NoDrawId, entrant |-> job.entrant, second |-> job.second]
           v == Confirm(t, NoDrawId, row)
           u == Note(v, NoDrawId, row, {"UNAPPROVED_SETTLEMENT"})
<1>1. /\ job \in JobRecord /\ t \in TableSet /\ PaymentsKept(t) /\ Progress(t)
      /\ job.entrant # job.second
  BY DEF SettlementInv, JobSound, JobRecord
<1>2. c.row.ref = row.ref /\ c.draw = NoDrawId /\ c.entrant # c.second
  BY <1>1
<1>3. /\ v \in TableSet /\ v.records = t.records /\ v.draw = t.draw
      /\ v.instructions = t.instructions /\ v.confirmations = t.confirmations \cup {c}
  BY <1>1, ConfirmAddsConfirmation
<1>4. {"UNAPPROVED_SETTLEMENT"} \in SUBSET RecordCode
  BY DEF RecordCode
<1> HIDE DEF v, c
<1>5. /\ u \in TableSet /\ Recorded(v, u) /\ u.draw = v.draw
      /\ u.instructions = v.instructions /\ u.confirmations = v.confirmations
  BY <1>1, <1>3, <1>4, NoteAddsRecord
<1> HIDE DEF u
<1>6. /\ u.draw = t.draw /\ u.instructions = t.instructions
      /\ u.confirmations = t.confirmations \cup {c}
  BY <1>3, <1>5
<1>7. \A e \in t.confirmations : e.row.ref # row.ref
  BY DEF Duplicate
<1> HIDE DEF t
<1>8. ConfirmationsFounded(u)
  BY <1>1, <1>2, <1>6, <1>7 DEF PaymentsKept, ConfirmationsFounded
<1>9. PaymentsJudged(u)
  <2>1. \A i \in t.instructions : i.draw # c.draw
    BY <1>1, <1>2, ImportConstants DEF TableSet, Instruction
  <2> QED
    BY <1>1, <1>6, <2>1 DEF PaymentsKept, PaymentsJudged
<1>10. InstructedOnce(u)
  BY <1>1, <1>6 DEF PaymentsKept, InstructedOnce
<1>11. Progress(u)
  BY <1>1, <1>6 DEF Progress
<1>12. Recorded(t, u)
  BY <1>3, <1>5 DEF Recorded
<1> QED
  BY <1>5, <1>8, <1>9, <1>10, <1>11, <1>12 DEF RowDone, PaymentsKept, t, u, v

JudgedAs(row, v, m) ==
  [row EXCEPT !.status = v, !.settlement = "CONFIRMED", !.reconciliation = m]

TablesJudged(t, d, v, m) ==
  [t EXCEPT !.draw[d].status = v, !.draw[d].settlement = "CONFIRMED", !.draw[d].reconciliation = m]

\* The row of a draw that an import has judged.
LEMMA JudgedDraw ==
  ASSUME NEW row \in DrawRow, row.status = "SETTLEMENT_INSTRUCTED",
         NEW v \in {"RECONCILED", "RECONCILIATION_EXCEPTION"}, NEW m \in {"MATCHED", "EXCEPTION"}
  PROVE  LET r == JudgedAs(row, v, m) IN r \in DrawRow /\ r.status = v /\ JudgedRow(row, r)
<1> DEFINE r == JudgedAs(row, v, m)
<1>1. r \in DrawRow
  BY ZenonT(60) DEF JudgedAs, DrawRow, Status
<1>2. r.status = v /\ r.requester = row.requester /\ r.account = row.account
  BY ZenonT(60) DEF JudgedAs, DrawRow
<1>3. r.requested = row.requested /\ r.approved = row.approved /\ r.policy = row.policy
  BY ZenonT(60) DEF JudgedAs, DrawRow
<1>4. r.manifest = row.manifest /\ r.binding = row.binding
  BY ZenonT(60) DEF JudgedAs, DrawRow
<1> HIDE DEF r
<1>5. JudgedRow(row, r)
  BY <1>2, <1>3, <1>4 DEF JudgedRow
<1> QED
  BY <1>1, <1>2, <1>5 DEF r

\* How the copies look with draw d judged.
LEMMA JudgedTables ==
  ASSUME NEW t \in TableSet, NEW d \in Draw, t.draw[d].status = "SETTLEMENT_INSTRUCTED",
         NEW v \in {"RECONCILED", "RECONCILIATION_EXCEPTION"}, NEW m \in {"MATCHED", "EXCEPTION"}
  PROVE  LET u == TablesJudged(t, d, v, m)
         IN  /\ u \in TableSet /\ u.draw[d].status = v /\ JudgedRow(t.draw[d], u.draw[d])
             /\ \A e \in Draw : e # d => u.draw[e] = t.draw[e]
             /\ u.instructions = t.instructions /\ u.confirmations = t.confirmations
             /\ u.records = t.records
<1> DEFINE r == JudgedAs(t.draw[d], v, m)
           u == TablesJudged(t, d, v, m)
<1>1. t.draw \in [Draw -> DrawRow] /\ t.draw[d] \in DrawRow
  BY DEF TableSet
<1>2. r \in DrawRow /\ r.status = v /\ JudgedRow(t.draw[d], r)
  BY <1>1, JudgedDraw
<1>3. u = [t EXCEPT !.draw = [t.draw EXCEPT ![d] = r]]
  BY <1>1 DEF TableSet, TablesJudged, JudgedAs
<1> HIDE DEF r, u
<1>4. u \in TableSet
  BY <1>1, <1>2, <1>3 DEF TableSet
<1>5. /\ u.draw = [t.draw EXCEPT ![d] = r] /\ u.instructions = t.instructions
      /\ u.confirmations = t.confirmations /\ u.records = t.records
  BY <1>3 DEF TableSet
<1>6. u.draw[d] = r /\ \A e \in Draw : e # d => u.draw[e] = t.draw[e]
  BY <1>1, <1>5
<1> QED
  BY <1>2, <1>4, <1>5, <1>6 DEF u

\* Mismatch finds nothing to note exactly when the row pays the instruction.
LEMMA MismatchIsInexact ==
  ASSUME NEW i \in Instruction, NEW row \in CsvRow, NEW c, c.row = row
  PROVE  /\ Mismatch(i, row) \in SUBSET RecordCode
         /\ Mismatch(i, row) = {} <=> Exact(c, i)
<1>1. /\ i.date \in Nat /\ row.date \in Nat /\ row.sameCurrency \in BOOLEAN
  BY DEF Instruction, CsvRow
<1>2. Mismatch(i, row) \in SUBSET RecordCode
  BY DEF Mismatch, RecordCode
<1>3. row.date < i.date <=> ~(row.date >= i.date)
  BY <1>1
<1>4. /\ "AMOUNT" \in Mismatch(i, row) <=> row.amount # i.amount
      /\ "CURRENCY" \in Mismatch(i, row) <=> ~row.sameCurrency
      /\ "PAYEE" \in Mismatch(i, row) <=> row.account # i.account
      /\ "DATE" \in Mismatch(i, row) <=> row.date < i.date
  BY DEF Mismatch
<1>5. Mismatch(i, row) \subseteq {"AMOUNT", "CURRENCY", "PAYEE", "DATE"}
  BY DEF Mismatch
<1>6. Mismatch(i, row) = {} <=>
        ~(row.amount # i.amount) /\ row.sameCurrency /\ ~(row.account # i.account)
          /\ ~(row.date < i.date)
  BY <1>4, <1>5
<1> QED
  BY <1>2, <1>3, <1>6 DEF Exact

\* All that Settle does, for an instruction whose draw waits for its payment.
LEMMA SettleChanges ==
  ASSUME NEW t \in TableSet, job \in JobRecord, NEW i \in t.instructions, NEW row \in CsvRow,
         t.draw[i.draw].status = "SETTLEMENT_INSTRUCTED"
  PROVE  LET u == Settle(t, i, row)
             c == [row |-> row, draw |-> i.draw, entrant |-> job.entrant, second |-> job.second]
             k == [i EXCEPT !.status = "CONFIRMED"]
         IN  /\ u \in TableSet /\ Recorded(t, u)
             /\ u.confirmations = t.confirmations \cup {c}
             /\ u.instructions = (t.instructions \ {i}) \cup {k}
             /\ SameInstruction(i, k)
             /\ JudgedRow(t.draw[i.draw], u.draw[i.draw])
             /\ \A e \in Draw : e # i.draw => u.draw[e] = t.draw[e]
             /\ u.draw[i.draw].status =
                  IF Mismatch(i, row) = {} THEN "RECONCILED" ELSE "RECONCILIATION_EXCEPTION"
<1> DEFINE d == i.draw
           codes == Mismatch(i, row)
           c == [row |-> row, draw |-> i.draw, entrant |-> job.entrant, second |-> job.second]
           k == [i EXCEPT !.status = "CONFIRMED"]
           v == Confirm(t, d, row)
           w == Note(v, d, row, codes)
           j == [w EXCEPT !.instructions = (@ \ {i}) \cup {k}]
           u == Settle(t, i, row)
<1>1. i \in Instruction /\ d \in Draw
  BY DEF TableSet, Instruction
<1>2. k \in Instruction
  BY <1>1 DEF Instruction
<1>3. SameInstruction(i, k)
  BY <1>1 DEF Instruction, SameInstruction
<1>4. codes \in SUBSET RecordCode
  BY DEF Mismatch, RecordCode
<1>5. /\ v \in TableSet /\ v.records = t.records /\ v.draw = t.draw
      /\ v.instructions = t.instructions /\ v.confirmations = t.confirmations \cup {c}
  BY <1>1, ConfirmAddsConfirmation
<1> HIDE DEF v, c
<1>6. /\ w \in TableSet /\ Recorded(v, w) /\ w.draw = v.draw
      /\ w.instructions = v.instructions /\ w.confirmations = v.confirmations
  BY <1>1, <1>4, <1>5, NoteAddsRecord
<1> HIDE DEF w, k
<1>7. /\ j \in TableSet /\ j.draw = t.draw /\ j.records = w.records
      /\ j.confirmations = t.confirmations \cup {c}
      /\ j.instructions = (t.instructions \ {i}) \cup {k}
  BY <1>2, <1>5, <1>6 DEF TableSet
<1>8. Settle(t, i, row) =
        IF codes = {}
        THEN TablesJudged(j, d, "RECONCILED", "MATCHED")
        ELSE TablesJudged(j, d, "RECONCILIATION_EXCEPTION", "EXCEPTION")
  BY DEF Settle, TablesJudged, v, w, k
<1> HIDE DEF j, codes, d, u
<1>9. /\ u \in TableSet /\ JudgedRow(j.draw[d], u.draw[d])
      /\ \A e \in Draw : e # d => u.draw[e] = j.draw[e]
      /\ u.instructions = j.instructions /\ u.confirmations = j.confirmations
      /\ u.records = j.records
      /\ u.draw[d].status = IF codes = {} THEN "RECONCILED" ELSE "RECONCILIATION_EXCEPTION"
  <2>1. j \in TableSet /\ d \in Draw /\ j.draw[d].status = "SETTLEMENT_INSTRUCTED"
    BY <1>1, <1>7 DEF d
  <2>2. CASE codes = {}
    <3>1. u = TablesJudged(j, d, "RECONCILED", "MATCHED")
      BY <1>8, <2>2 DEF u
    <3> QED
      BY <2>1, <2>2, <3>1, JudgedTables
  <2>3. CASE codes # {}
    <3>1. u = TablesJudged(j, d, "RECONCILIATION_EXCEPTION", "EXCEPTION")
      BY <1>8, <2>3 DEF u
    <3> QED
      BY <2>1, <2>3, <3>1, JudgedTables
  <2> QED
    BY <2>2, <2>3
<1>10. Recorded(t, u)
  BY <1>5, <1>6, <1>7, <1>9 DEF Recorded
<1> QED
  BY <1>3, <1>7, <1>9, <1>10 DEF d, codes, c, k, u

\* The confirmation of an instruction judges its draw, which had none before.
LEMMA SettledRow ==
  ASSUME SettlementInv, ~Idle, NEW row \in CsvRow, ~Duplicate(job.tables, row),
         NEW i \in Instructed(job.tables, row.ref)
  PROVE  RowDone(Settle(job.tables, i, row))
<1> DEFINE t == job.tables
           u == Settle(t, i, row)
           c == [row |-> row, draw |-> i.draw, entrant |-> job.entrant, second |-> job.second]
           k == [i EXCEPT !.status = "CONFIRMED"]
<1>1. /\ job \in JobRecord /\ t \in TableSet /\ PaymentsKept(t) /\ Progress(t)
      /\ job.entrant # job.second
  BY DEF SettlementInv, JobSound, JobRecord
<1>2. i \in t.instructions /\ i.ref = row.ref /\ t.draw[i.draw].status = "SETTLEMENT_INSTRUCTED"
  BY DEF Duplicate, Instructed
<1>3. c.row = row /\ c.draw = i.draw /\ c.entrant # c.second
  BY <1>1
<1>4. /\ u \in TableSet /\ Recorded(t, u)
      /\ u.confirmations = t.confirmations \cup {c}
      /\ u.instructions = (t.instructions \ {i}) \cup {k}
      /\ SameInstruction(i, k)
      /\ JudgedRow(t.draw[i.draw], u.draw[i.draw])
      /\ \A e \in Draw : e # i.draw => u.draw[e] = t.draw[e]
      /\ u.draw[i.draw].status =
           IF Mismatch(i, row) = {} THEN "RECONCILED" ELSE "RECONCILIATION_EXCEPTION"
  BY <1>1, <1>2, SettleChanges
<1>5. i \in Instruction /\ \A e \in t.instructions : e.draw \in Draw
  BY <1>1, <1>2 DEF TableSet, Instruction
<1>6. \A e \in t.confirmations : e.row.ref # row.ref
  BY DEF Duplicate
<1> HIDE DEF t, u, c, k
<1>7. \A e \in t.confirmations : e.draw # i.draw
  <2>1. t.draw[i.draw].status # "RECONCILED" /\ t.draw[i.draw].status # "RECONCILIATION_EXCEPTION"
    BY <1>2
  <2> QED
    BY <1>1, <1>2, <2>1 DEF PaymentsKept, PaymentsJudged
<1>8. i.ref = k.ref /\ i.draw = k.draw
  BY <1>4 DEF SameInstruction
<1>9. InstructedOnce(u)
  BY <1>1, <1>2, <1>4, <1>8 DEF PaymentsKept, InstructedOnce
<1>10. ConfirmationsFounded(u)
  <2>1. \A x, y \in u.confirmations :
          x.row.ref = y.row.ref \/ (x.draw = y.draw /\ x.draw # NoDrawId) => x = y
    BY <1>1, <1>3, <1>4, <1>6, <1>7 DEF PaymentsKept, ConfirmationsFounded
  <2>2. \A e \in t.instructions : \E f \in u.instructions : f.draw = e.draw /\ f.ref = e.ref
    BY <1>4, <1>8
  <2>3. ASSUME NEW x \in u.confirmations
        PROVE  /\ x.entrant # x.second
               /\ x.draw # NoDrawId =>
                    \E f \in u.instructions : f.draw = x.draw /\ f.ref = x.row.ref
    <3>1. CASE x = c
      BY <1>2, <1>3, <2>2, <3>1
    <3>2. CASE x \in t.confirmations
      <4>1. /\ x.entrant # x.second
            /\ x.draw # NoDrawId =>
                 \E e \in t.instructions : e.draw = x.draw /\ e.ref = x.row.ref
        BY <1>1, <3>2 DEF PaymentsKept, ConfirmationsFounded
      <4> QED
        BY <2>2, <4>1
    <3> QED
      BY <1>4, <3>1, <3>2
  <2> QED
    BY <2>1, <2>3 DEF ConfirmationsFounded
<1>11. PaymentsJudged(u)
  <2> SUFFICES ASSUME NEW e \in u.instructions
               PROVE  \/ /\ u.draw[e.draw].status = "SETTLEMENT_INSTRUCTED"
                         /\ \A x \in u.confirmations : x.draw # e.draw
                      \/ /\ u.draw[e.draw].status = "RECONCILED"
                         /\ \E x \in u.confirmations : x.draw = e.draw /\ Exact(x, e)
                      \/ /\ u.draw[e.draw].status = "RECONCILIATION_EXCEPTION"
                         /\ \E x \in u.confirmations : x.draw = e.draw
                         /\ \A x \in u.confirmations : x.draw = e.draw => ~Exact(x, e)
    BY DEF PaymentsJudged
  <2>1. CASE e = k
    <3>1. Mismatch(i, row) = {} <=> Exact(c, i)
      BY <1>3, <1>5, MismatchIsInexact
    <3>2. Exact(c, i) <=> Exact(c, k)
      BY <1>4 DEF SameInstruction, Exact
    <3>3. c \in u.confirmations /\ \A x \in u.confirmations : x.draw = e.draw <=> x = c
      BY <1>3, <1>4, <1>7, <1>8, <2>1
    <3> QED
      BY <1>4, <1>8, <2>1, <3>1, <3>2, <3>3
  <2>2. CASE e \in t.instructions /\ e # i
    <3>1. e.draw # i.draw /\ e.draw \in Draw
      BY <1>1, <1>2, <1>5, <2>2 DEF PaymentsKept, InstructedOnce
    <3>2. u.draw[e.draw] = t.draw[e.draw]
      BY <1>4, <3>1
    <3>3. \A x \in u.confirmations : x.draw = e.draw => x \in t.confirmations
      BY <1>3, <1>4, <3>1
    <3> QED
      BY <1>1, <1>4, <2>2, <3>2, <3>3 DEF PaymentsKept, PaymentsJudged
  <2> QED
    BY <1>4, <2>1, <2>2
<1>12. Progress(u)
  <2>1. \E e \in instructions : SameInstruction(e, i)
    BY <1>1, <1>2 DEF Progress
  <2>2. ASSUME NEW d \in Draw
        PROVE  \/ u.draw[d] = draw[d]
               \/ JudgedRow(draw[d], u.draw[d]) /\ \E e \in instructions : e.draw = d
    <3>1. CASE d = i.draw
      <4>1. t.draw[d] = draw[d] \/ JudgedRow(draw[d], t.draw[d])
        BY <1>1 DEF Progress
      <4>2. t.draw[d] = draw[d]
        BY <1>2, <3>1, <4>1 DEF JudgedRow
      <4> QED
        BY <1>4, <2>1, <3>1, <4>2 DEF SameInstruction
    <3>2. CASE d # i.draw
      BY <1>1, <1>4, <3>2 DEF Progress
    <3> QED
      BY <3>1, <3>2
  <2>3. ASSUME NEW e \in instructions
        PROVE  \E f \in u.instructions : SameInstruction(e, f)
    <3>1. PICK f \in t.instructions : SameInstruction(e, f)
      BY <1>1 DEF Progress
    <3>2. f = i => SameInstruction(e, k)
      BY <1>4, <3>1 DEF SameInstruction
    <3> QED
      BY <1>4, <3>1, <3>2
  <2>4. ASSUME NEW f \in u.instructions
        PROVE  \E e \in instructions : SameInstruction(e, f)
    <3>1. CASE f = k
      BY <1>4, <2>1, <3>1 DEF SameInstruction
    <3>2. CASE f \in t.instructions
      BY <1>1, <3>2 DEF Progress
    <3> QED
      BY <1>4, <3>1, <3>2
  <2> QED
    BY <2>2, <2>3, <2>4 DEF Progress
<1> QED
  BY <1>4, <1>9, <1>10, <1>11, <1>12 DEF RowDone, PaymentsKept, t, u

\* A row of a file, whichever way it goes.
LEMMA RowIsDone ==
  ASSUME SettlementInv, ~Idle, NEW row \in CsvRow
  PROVE  RowDone(ImportOf(job.tables, row))
<1> DEFINE hit == Instructed(job.tables, row.ref)
<1>1. CASE Duplicate(job.tables, row)
  BY <1>1, DuplicateRow DEF ImportOf
<1>2. CASE ~Duplicate(job.tables, row) /\ hit = {}
  BY <1>2, UnapprovedRow DEF ImportOf
<1>3. CASE ~Duplicate(job.tables, row) /\ hit # {}
  <2>1. (CHOOSE i \in hit : TRUE) \in hit
    BY <1>3
  <2>2. RowDone(Settle(job.tables, CHOOSE i \in hit : TRUE, row))
    BY <1>3, <2>1, SettledRow
  <2> QED
    BY <1>3, <2>2 DEF ImportOf
<1> QED
  BY <1>1, <1>2, <1>3

\* Every row of a file keeps the invariant, whatever it says.
LEMMA ImportRowPreserves ==
  ASSUME SettlementInv, ImportRow
  PROVE  SettlementInv'
<1> DEFINE row == Head(job.todo)
           u == ImportOf(job.tables, row)
           rest == Tail(job.todo)
           next == job.line + 1
           j == [job EXCEPT !.tables = u, !.todo = rest, !.line = next]
<1>1. /\ ~Idle /\ job.todo # <<>> /\ job' = j
      /\ UNCHANGED <<vars, staged, imported, confirmations, records>>
  BY DEF ImportRow
<1>2. UNCHANGED <<draw, instructions>> /\ UNCHANGED Tables
  BY <1>1 DEF vars, Tables
<1>3. job \in JobRecord /\ JobSound
  BY <1>1 DEF SettlementInv, JobSound
<1>4. job.todo \in Seq(CsvRow) /\ job.line \in Nat \ {0}
  BY <1>3 DEF JobRecord
<1>5. /\ row \in CsvRow /\ rest \in Seq(CsvRow) /\ next \in Nat \ {0} /\ next - 1 = job.line
      /\ Len(rest) = Len(job.todo) - 1 /\ Len(job.todo) \in Nat
  BY <1>1, <1>4
<1>6. RowDone(u)
  BY <1>1, <1>5, RowIsDone
<1> HIDE DEF u, row, rest, next
<1>7. j \in JobRecord
  BY <1>3, <1>4, <1>5, <1>6 DEF JobRecord, RowDone
<1>8. /\ j.batch = job.batch /\ j.entrant = job.entrant /\ j.second = job.second
      /\ j.todo = rest /\ j.line = next /\ j.tables = u
  BY <1>3 DEF JobRecord
<1> HIDE DEF j
<1>9. /\ OneRecordPerLine(u)
      /\ \A b \in Batch : Lines(u, b) = IF b = job.batch THEN 1..job.line ELSE Lines(Tables, b)
  BY <1>1, <1>3, <1>6, RecordedIsCounted DEF RowDone
<1>10. JobSound'
  <2>1. PaymentsKept(job.tables)' /\ OneRecordPerLine(job.tables)'
    BY <1>1, <1>6, <1>8, <1>9 DEF RowDone, PaymentsKept, InstructedOnce, ConfirmationsFounded,
       PaymentsJudged, OneRecordPerLine
  <2>2. Progress(job.tables)'
    BY <1>1, <1>2, <1>6, <1>8 DEF RowDone, Progress
  <2>3. \A b \in Batch : Lines(job.tables, b)' = Lines(u, b) /\ Lines(Tables, b)' = Lines(Tables, b)
    BY <1>1, <1>2, <1>8 DEF Lines
  <2>4. job'.line - 1 = job.line
    BY <1>1, <1>5, <1>8
  <2>5. \A b \in Batch : Lines(job.tables, b)' =
                           IF b = job'.batch THEN 1..(job'.line - 1) ELSE Lines(Tables, b)'
    BY <1>1, <1>8, <1>9, <2>3, <2>4
  <2>6. Len(job'.todo) + job'.line = Len(staged[job.batch].rows) + 1
    <3>1. Len(job.todo) + job.line = Len(staged[job.batch].rows) + 1
      BY <1>1, <1>3 DEF JobSound
    <3>2. staged[job.batch].rows \in Seq(CsvRow)
      BY <1>3 DEF SettlementInv, StagedTyped, JobRecord
    <3>3. Len(staged[job.batch].rows) \in Nat
      BY <3>2
    <3>4. Len(rest) + next = Len(staged[job.batch].rows) + 1
      <4> DEFINE l == Len(job.todo)
                 k == Len(rest)
                 m == Len(staged[job.batch].rows)
                 n == job.line
      <4>1. /\ l \in Nat /\ k \in Nat /\ m \in Nat /\ n \in Nat /\ next \in Nat
            /\ l + n = m + 1 /\ k = l - 1 /\ next - 1 = n
        BY <1>4, <1>5, <3>1, <3>3
      <4> HIDE DEF l, k, m, n
      <4>2. k + next = m + 1
        BY <4>1
      <4> QED
        BY <4>2 DEF k, m
    <3> QED
      BY <1>1, <1>8, <3>4
  <2> QED
    BY <1>1, <1>3, <1>7, <1>8, <2>1, <2>2, <2>5, <2>6 DEF JobSound
<1> QED
  BY <1>1, <1>10, TablesKept DEF SettlementInv, StagedTyped

-----------------------------------------------------------------------------
\* The workflow's own invariant survives what an import publishes.
LEMMA CommitKeepsWorkflow ==
  ASSUME SettlementInv, ImportCommit
  PROVE  WorkflowInv'
<1>1. /\ ~Idle /\ draw' = job.tables.draw /\ instructions' = job.tables.instructions
      /\ UNCHANGED <<docs, checks, decisions, world>>
  BY DEF ImportCommit
<1>2. job.tables \in TableSet /\ Progress(job.tables)
  BY <1>1 DEF SettlementInv, JobSound, JobRecord
<1>3. /\ WorkflowInv
      /\ \A i \in instructions : i.draw \in Draw
      /\ \A i \in instructions' : \E j \in instructions : SameInstruction(j, i)
      /\ \A d \in Draw : draw'[d] = draw[d] \/ JudgedRow(draw[d], draw'[d])
  BY <1>1, <1>2 DEF SettlementInv, WorkflowInv, TypeOK, Instruction, Progress
<1>4. TypeOK' /\ IsFiniteSet(docs')
  BY <1>1, <1>2, <1>3 DEF WorkflowInv, TypeOK, TableSet
<1>5. \A d \in Draw :
        /\ draw'[d].requester = draw[d].requester /\ draw'[d].account = draw[d].account
        /\ draw'[d].requested = draw[d].requested /\ draw'[d].approved = draw[d].approved
        /\ draw'[d].policy = draw[d].policy /\ draw'[d].manifest = draw[d].manifest
        /\ draw'[d].binding = draw[d].binding
  BY <1>3 DEF JudgedRow
<1>6. \A d \in Draw :
        \/ draw'[d].status = draw[d].status
        \/ /\ draw[d].status = "SETTLEMENT_INSTRUCTED"
           /\ draw'[d].status \in {"RECONCILED", "RECONCILIATION_EXCEPTION"}
  BY <1>3 DEF JudgedRow
<1>7. DecisionsOnDraws'
  BY <1>1, <1>3, <1>6 DEF WorkflowInv, TypeOK, Decision, DecisionsOnDraws
<1>8. DecidedIsEvidenced'
  BY <1>1, <1>3, <1>5, <1>6 DEF WorkflowInv, DecidedIsEvidenced, ManifestComplete, Verified, Decided
<1>9. SegregationOfDuties'
  <2>1. \A x \in decisions : x.approver # draw'[x.draw].requester
    BY <1>3, <1>5 DEF WorkflowInv, TypeOK, Decision, SegregationOfDuties
  <2>2. ASSUME NEW i \in instructions'
        PROVE  /\ i.by # draw'[i.draw].requester
               /\ \A x \in decisions : x.draw = i.draw => x.approver # i.by
    <3>1. PICK j \in instructions : SameInstruction(j, i)
      BY <1>3
    <3> QED
      BY <1>3, <1>5, <3>1 DEF WorkflowInv, SegregationOfDuties, SameInstruction
  <2> QED
    BY <1>1, <1>3, <2>1, <2>2 DEF WorkflowInv, SegregationOfDuties
<1>10. ApprovedIsBacked'
  <2> SUFFICES ASSUME NEW c \in Draw, draw'[c].status \in Decided
               PROVE  /\ draw'[c].approved \in 1..draw'[c].requested
                      /\ draw'[c].binding = Binding(c, draw[c].approved)'
                      /\ \E P \in SUBSET Subject :
                           /\ Cardinality(P) >= Pack[draw'[c].policy].approvals
                           /\ \A q \in P : [draw |-> c, approver |-> q,
                                             binding |-> draw'[c].binding] \in decisions'
    BY DEF ApprovedIsBacked
  <2>1. draw[c].status \in Decided
    BY <1>6 DEF Decided
  <2> QED
    BY <1>1, <1>3, <1>5, <2>1 DEF WorkflowInv, ApprovedIsBacked, Binding
<1>11. EvidenceIsManifest'
  BY <1>1, <1>3, <1>5, <1>6 DEF WorkflowInv, EvidenceIsManifest, Latest, DocsOf
<1>12. InstructionIsApproved'
  <2> SUFFICES ASSUME NEW i \in instructions'
               PROVE  /\ draw'[i.draw].status \in Decided \ {"APPROVED"}
                      /\ i.binding = Binding(i.draw, i.amount)'
                      /\ i.amount = draw'[i.draw].approved
                      /\ ManifestComplete(i.draw)'
                      /\ \A e \in draw'[i.draw].manifest : Verified(e)'
    BY DEF InstructionIsApproved
  <2>1. PICK j \in instructions : SameInstruction(j, i)
    BY <1>3
  <2>2. /\ i.draw \in Draw /\ j.draw = i.draw /\ j.amount = i.amount /\ j.binding = i.binding
    BY <1>3, <2>1 DEF SameInstruction
  <2>3. draw'[i.draw].status \in Decided \ {"APPROVED"}
    BY <1>3, <1>6, <2>2 DEF WorkflowInv, InstructionIsApproved, Decided
  <2> QED
    BY <1>1, <1>3, <1>5, <2>2, <2>3 DEF WorkflowInv, InstructionIsApproved, Binding,
       ManifestComplete, Verified
<1> QED
  BY <1>4, <1>7, <1>8, <1>9, <1>10, <1>11, <1>12 DEF WorkflowInv

\* The commit publishes copies of which everything has been kept.
LEMMA CommitPreserves ==
  ASSUME SettlementInv, ImportCommit
  PROVE  SettlementInv'
<1> DEFINE t == job.tables
           b == job.batch
<1>1. /\ ~Idle /\ job.todo = <<>> /\ job' = NoJob
      /\ imported' = imported \cup {b} /\ staged' = staged
      /\ draw' = t.draw /\ instructions' = t.instructions
      /\ confirmations' = t.confirmations /\ records' = t.records
  BY DEF ImportCommit
<1>2. JobSound /\ job \in JobRecord /\ t \in TableSet
  BY <1>1 DEF SettlementInv, JobSound, JobRecord
<1>3. b \in Batch /\ job.line \in Nat \ {0} /\ staged[b].by # Nobody
      /\ staged[b].rows \in Seq(CsvRow)
  BY <1>1, <1>2 DEF JobSound, JobRecord, SettlementInv, StagedTyped
<1>4. WorkflowInv'
  BY CommitKeepsWorkflow
<1>5. StagedTyped'
  BY <1>1, <1>3 DEF SettlementInv, StagedTyped
<1>6. (Tables \in TableSet)'
  BY <1>1, <1>2 DEF Tables, TableSet
<1>7. PaymentsKept(t)
  BY <1>1, <1>2 DEF JobSound
<1>8. PaymentsKept(Tables)'
  BY <1>1, <1>7 DEF PaymentsKept, InstructedOnce, ConfirmationsFounded, PaymentsJudged, Tables
<1>9. 1..(job.line - 1) = DOMAIN staged[b].rows
  <2> DEFINE m == Len(staged[b].rows)
  <2>1. Len(job.todo) = 0 /\ m \in Nat /\ DOMAIN staged[b].rows = 1..m
    BY <1>1, <1>3
  <2>2. Len(job.todo) + job.line = m + 1
    BY <1>1, <1>2 DEF JobSound
  <2> HIDE DEF m
  <2>3. job.line - 1 = m
    BY <1>3, <2>1, <2>2
  <2> QED
    BY <2>1, <2>3
<1>10. LinesCounted'
  <2>1. OneRecordPerLine(Tables)'
    BY <1>1, <1>2 DEF JobSound, OneRecordPerLine, Tables
  <2>2. ASSUME NEW x \in Batch
        PROVE  Lines(Tables, x)' = IF x \in imported' THEN DOMAIN staged'[x].rows ELSE {}
    <3>1. Lines(Tables, x)' = Lines(t, x)
      BY <1>1 DEF Lines, Tables
    <3>2. Lines(t, x) = IF x = b THEN 1..(job.line - 1) ELSE Lines(Tables, x)
      BY <1>1, <1>2 DEF JobSound
    <3>3. Lines(Tables, x) = IF x \in imported THEN DOMAIN staged[x].rows ELSE {}
      BY DEF SettlementInv, LinesCounted
    <3> QED
      BY <1>1, <1>9, <3>1, <3>2, <3>3
  <2> QED
    BY <2>1, <2>2 DEF LinesCounted
<1>11. JobSound'
  BY <1>1 DEF JobSound, Idle
<1> QED
  BY <1>4, <1>5, <1>6, <1>8, <1>10, <1>11 DEF SettlementInv

\* Every operation, of the import or the workflow, keeps the invariant.
LEMMA SettlementStep == SettlementInv /\ [SettlementNext]_allVars => SettlementInv'
<1> SUFFICES ASSUME SettlementInv, [SettlementNext]_allVars PROVE SettlementInv'
  OBVIOUS
<1>1. CASE WorkflowStep
  BY <1>1, WorkflowStepPreserves
<1>2. CASE \E s \in Subject, b \in Batch, rows \in File :
             StageCsvFirstEntry(s, b, rows) \/ ConfirmCsvSecondEntry(s, b, rows)
  BY <1>2, StagePreserves, SecondEntryPreserves
<1>3. CASE ImportRow
  BY <1>3, ImportRowPreserves
<1>4. CASE ImportCommit
  BY <1>4, CommitPreserves
<1>5. CASE ImportAbort
  BY <1>5, AbortPreserves
<1>6. CASE UNCHANGED allVars
  <2>1. UNCHANGED <<vars, staged, imported, confirmations, records, job>>
    BY <1>6 DEF allVars, settleVars
  <2>2. UNCHANGED Tables
    BY <2>1 DEF vars, Tables
  <2>3. UNCHANGED <<draw, instructions>>
    BY <2>1 DEF vars
  <2>4. ASSUME ~Idle PROVE Progress(job.tables)' /\ \A b \in Batch : Lines(Tables, b)' = Lines(Tables, b)
    BY <2>1, <2>2, <2>3, <2>4 DEF SettlementInv, JobSound, Progress, Lines
  <2>5. ASSUME ~Idle
        PROVE  /\ PaymentsKept(job.tables)' /\ OneRecordPerLine(job.tables)'
               /\ \A b \in Batch : Lines(job.tables, b)' = Lines(job.tables, b)
    BY <2>1, <2>5 DEF SettlementInv, JobSound, PaymentsKept, InstructedOnce, ConfirmationsFounded,
       PaymentsJudged, OneRecordPerLine, Lines
  <2>6. JobSound'
    BY <2>1, <2>4, <2>5 DEF SettlementInv, JobSound, Idle
  <2> QED
    BY <2>1, <2>6, TablesKept DEF SettlementInv, StagedTyped
<1> QED
  BY <1>1, <1>2, <1>3, <1>4, <1>5, <1>6 DEF SettlementNext

\* Every state that draws, files and imports in any order can reach satisfies
\* the inductive invariant.
THEOREM SettlementInvariant == SettlementSpec => []SettlementInv
BY SettlementStart, SettlementStep, PTL DEF SettlementSpec

\* A partner reference is confirmed at most once and a draw has at most one
\* confirmation, however many files repeat them and however often they come.
THEOREM ReferencesConfirmedOnce == SettlementSpec => []ConfirmedOnce
<1>1. SettlementInv => ConfirmedOnce
  BY DEF SettlementInv, PaymentsKept, ConfirmationsFounded, Tables, ConfirmedOnce
<1> QED
  BY <1>1, SettlementInvariant, PTL

\* ADR-0008: importCsvConfirmations leaves a draw RECONCILED only if it was
\* paid as instructed, RECONCILIATION_EXCEPTION if it was paid otherwise, and
\* a draw that was not paid where instruct left it.
THEOREM DrawsReconciledExactly == SettlementSpec => []ReconciledExactly
<1>1. SettlementInv => ReconciledExactly
  <2> SUFFICES ASSUME SettlementInv, NEW i \in instructions
               PROVE  LET paid == {c \in confirmations : c.draw = i.draw}
                          exact(c) == /\ c.row.amount = i.amount /\ c.row.account = i.account
                                      /\ c.row.sameCurrency /\ c.row.date >= i.date
                      IN /\ draw[i.draw].status =
                              CASE paid = {} -> "SETTLEMENT_INSTRUCTED"
                                [] \E c \in paid : exact(c) -> "RECONCILED"
                                [] OTHER -> "RECONCILIATION_EXCEPTION"
                         /\ \A c \in paid : c.row.ref = i.ref /\ c.entrant # c.second
    BY DEF ReconciledExactly
  <2> DEFINE paid == {c \in confirmations : c.draw = i.draw}
  <2>1. PaymentsKept(Tables) /\ i.draw \in Draw
    BY DEF SettlementInv, WorkflowInv, TypeOK, Instruction
  <2>2. \A c \in paid : c.row.ref = i.ref /\ c.entrant # c.second
    <3> SUFFICES ASSUME NEW c \in paid PROVE c.row.ref = i.ref /\ c.entrant # c.second
      OBVIOUS
    <3>1. c.draw # NoDrawId
      BY <2>1, ImportConstants
    <3>2. PICK j \in instructions : j.draw = c.draw /\ j.ref = c.row.ref
      BY <2>1, <3>1 DEF PaymentsKept, ConfirmationsFounded, Tables
    <3>3. j = i
      BY <2>1, <3>2 DEF PaymentsKept, InstructedOnce, Tables
    <3> QED
      BY <2>1, <3>2, <3>3 DEF PaymentsKept, ConfirmationsFounded, Tables
  <2>3. \/ paid = {} /\ draw[i.draw].status = "SETTLEMENT_INSTRUCTED"
        \/ (\E c \in paid : Exact(c, i)) /\ draw[i.draw].status = "RECONCILED"
        \/ /\ paid # {} /\ ~ \E c \in paid : Exact(c, i)
           /\ draw[i.draw].status = "RECONCILIATION_EXCEPTION"
    BY <2>1 DEF PaymentsKept, PaymentsJudged, Tables
  <2> QED
    BY <2>2, <2>3 DEF Exact
<1> QED
  BY <1>1, SettlementInvariant, PTL

\* An imported file has exactly one reconciliation record per row, and a file
\* whose import failed, at whichever row, has none.
THEOREM FilesAccounted == SettlementSpec => []FileAccounted
<1>1. SettlementInv => FileAccounted
  BY DEF SettlementInv, LinesCounted, OneRecordPerLine, Lines, Tables, FileAccounted
<1> QED
  BY <1>1, SettlementInvariant, PTL

\* What was proved of the draw workflow alone holds with imports interleaved,
\* which publish draws and instructions of their own making.
THEOREM ImportsKeepWorkflow ==
  SettlementSpec => [](SegregationOfDuties /\ ApprovedIsBacked /\ EvidenceIsManifest
                         /\ InstructionIsApproved)
<1>1. SettlementInv => SegregationOfDuties /\ ApprovedIsBacked /\ EvidenceIsManifest
                         /\ InstructionIsApproved
  BY DEF SettlementInv, WorkflowInv
<1> QED
  BY <1>1, SettlementInvariant, PTL

-----------------------------------------------------------------------------
(***************************************************************************)
(* The refinement of PaymentOnce.                                          *)
(***************************************************************************)

Judgement(status) ==
  CASE status = "RECONCILED" -> "matched"
    [] status = "RECONCILIATION_EXCEPTION" -> "exception"
    [] OTHER -> "no"

\* PaymentView of given tables.
ViewOf(rows, sent) ==
  [d \in Draw |->
     IF {i \in sent : i.draw = d} = {} THEN Payments!Unpaid
     ELSE [amount |-> (CHOOSE i \in {i \in sent : i.draw = d} : TRUE).amount,
           judged |-> Judgement(rows[d].status)]]

\* What is paid before and after a step.
LEMMA ViewIsViewOf ==
  /\ PaymentView = ViewOf(draw, instructions)
  /\ PaymentView' = ViewOf(draw', instructions')
BY DEF PaymentView, ViewOf, Paid, Judgement, Payments!Unpaid

\* With one instruction per draw, the view shows that instruction.
LEMMA ViewOfInstruction ==
  ASSUME NEW rows, NEW sent, NEW i \in sent, i.draw \in Draw,
         \A k, m \in sent : k.draw = m.draw => k = m
  PROVE  ViewOf(rows, sent)[i.draw] =
           [amount |-> i.amount, judged |-> Judgement(rows[i.draw].status)]
<1> DEFINE paid == {k \in sent : k.draw = i.draw}
<1>1. paid = {i}
  OBVIOUS
<1>2. paid # {} /\ (CHOOSE k \in paid : TRUE) = i
  BY <1>1
<1> QED
  BY <1>2 DEF ViewOf

\* A draw nobody instructed pays nothing.
LEMMA ViewOfNone ==
  ASSUME NEW rows, NEW sent, NEW d \in Draw, \A k \in sent : k.draw # d
  PROVE  ViewOf(rows, sent)[d] = Payments!Unpaid
<1>1. {k \in sent : k.draw = d} = {}
  OBVIOUS
<1> QED
  BY <1>1 DEF ViewOf

\* What the two lemmas above need of the tables, now and after a step.
LEMMA OneInstructionPerDraw ==
  ASSUME SettlementInv, SettlementInv'
  PROVE  /\ \A i \in instructions : i.draw \in Draw
         /\ \A i, j \in instructions : i.draw = j.draw => i = j
         /\ \A i \in instructions' : i.draw \in Draw
         /\ \A i, j \in instructions' : i.draw = j.draw => i = j
BY DEF SettlementInv, PaymentsKept, InstructedOnce, Tables, WorkflowInv, TypeOK, Instruction

\* instruct asks for the payment of a draw that asked for none.
LEMMA InstructIsInstruct ==
  ASSUME SettlementInv, SettlementInv', NEW s \in Subject, NEW d \in Draw, NEW ref \in Reference,
         Instruct(s, d, ref)
  PROVE  Payments!Instruct
<1> DEFINE n == [draw |-> d, by |-> s, ref |-> ref, amount |-> draw[d].approved,
                 account |-> draw[d].account, binding |-> draw[d].binding, status |-> "SENT",
                 date |-> world.today]
<1>1. /\ \A i \in instructions : i.draw # d
      /\ instructions' = instructions \cup {n}
      /\ draw' = [draw EXCEPT ![d] = Sent(draw[d])]
      /\ draw[d].status \in {"APPROVED", "SETTLEMENT_FAILED"}
  BY DEF Instruct, InsertInstruction, SaveDraw
<1>2. n.draw = d /\ n.amount = draw[d].approved
  OBVIOUS
<1> HIDE DEF n
<1>3. draw \in [Draw -> DrawRow] /\ draw[d] \in DrawRow
  BY DEF SettlementInv, WorkflowInv, TypeOK
<1>4. draw'[d].status = "SETTLEMENT_INSTRUCTED" /\ \A e \in Draw : e # d => draw'[e] = draw[e]
  <2>1. draw'[d] = Sent(draw[d])
    BY <1>1, <1>3
  <2> QED
    BY <1>1, <1>3, <2>1, SentRow
<1>5. n.amount \in 1..MaxAmount
  <2>1. draw[d].approved \in 1..draw[d].requested
    BY <1>1 DEF SettlementInv, WorkflowInv, ApprovedIsBacked, Decided
  <2>2. draw[d].requested \in 0..MaxAmount
    BY <1>3 DEF DrawRow, Amount
  <2> QED
    BY <1>2, <2>1, <2>2, WorkflowConstants
<1> DEFINE v == PaymentView
           w == PaymentView'
<1>6. v = ViewOf(draw, instructions) /\ w = ViewOf(draw', instructions')
  BY ViewIsViewOf
<1>7. /\ \A i \in instructions : i.draw \in Draw
      /\ \A i, j \in instructions : i.draw = j.draw => i = j
      /\ \A i \in instructions' : i.draw \in Draw
      /\ \A i, j \in instructions' : i.draw = j.draw => i = j
  BY OneInstructionPerDraw
<1>8. v[d] = Payments!Unpaid
  BY <1>1, <1>6, ViewOfNone
<1>9. w[d] = [amount |-> n.amount, judged |-> "no"]
  <2>1. n \in instructions'
    BY <1>1
  <2>2. w[n.draw] = [amount |-> n.amount, judged |-> Judgement(draw'[n.draw].status)]
    BY <1>6, <1>7, <2>1, ViewOfInstruction
  <2> QED
    BY <1>2, <1>4, <2>2 DEF Judgement
<1>10. \A e \in Draw : e # d => w[e] = v[e]
  <2> SUFFICES ASSUME NEW e \in Draw, e # d PROVE w[e] = v[e]
    OBVIOUS
  <2>1. CASE \E i \in instructions : i.draw = e
    <3> PICK i \in instructions : i.draw = e
      BY <2>1
    <3>1. v[e] = [amount |-> i.amount, judged |-> Judgement(draw[e].status)]
      BY <1>6, <1>7, ViewOfInstruction
    <3>2. i \in instructions'
      BY <1>1
    <3>3. w[e] = [amount |-> i.amount, judged |-> Judgement(draw'[e].status)]
      BY <1>6, <1>7, <3>2, ViewOfInstruction
    <3> QED
      BY <1>4, <3>1, <3>3
  <2>2. CASE \A i \in instructions : i.draw # e
    <3>1. v[e] = Payments!Unpaid
      BY <1>6, <2>2, ViewOfNone
    <3>2. w[e] = Payments!Unpaid
      BY <1>1, <1>2, <1>6, <2>2, ViewOfNone
    <3> QED
      BY <3>1, <3>2
  <2> QED
    BY <2>1, <2>2
<1>11. w = [v EXCEPT ![d] = [amount |-> n.amount, judged |-> "no"]]
  <2>1. v = [e \in Draw |-> v[e]] /\ w = [e \in Draw |-> w[e]]
    BY <1>6 DEF ViewOf
  <2> HIDE DEF v, w
  <2> QED
    BY <1>9, <1>10, <2>1
<1> QED
  BY <1>5, <1>8, <1>11 DEF Payments!Instruct

\* Judgements that move together with the statuses of the instructed draws.
LEMMA CommitIsJudge ==
  ASSUME SettlementInv, SettlementInv', ImportCommit
  PROVE  Payments!Judge
<1> DEFINE v == PaymentView
           w == PaymentView'
           J == {d \in Draw : draw'[d] # draw[d]}
           verdict == [d \in J |-> Judgement(draw'[d].status)]
<1>1. /\ ~Idle /\ draw' = job.tables.draw /\ instructions' = job.tables.instructions
  BY DEF ImportCommit
<1>2. Progress(job.tables)
  BY <1>1 DEF SettlementInv, JobSound
<1>3. v = ViewOf(draw, instructions) /\ w = ViewOf(draw', instructions')
  BY ViewIsViewOf
<1>4. /\ \A i \in instructions : i.draw \in Draw
      /\ \A i, j \in instructions : i.draw = j.draw => i = j
      /\ \A i \in instructions' : i.draw \in Draw
      /\ \A i, j \in instructions' : i.draw = j.draw => i = j
  BY OneInstructionPerDraw
<1>5. \A i \in instructions :
        \E j \in instructions' : j.draw = i.draw /\ j.amount = i.amount
  BY <1>1, <1>2 DEF Progress, SameInstruction
<1>6. \A j \in instructions' : \E i \in instructions : i.draw = j.draw
  BY <1>1, <1>2 DEF Progress, SameInstruction
<1>7. ASSUME NEW d \in J
      PROVE  /\ JudgedRow(draw[d], draw'[d])
             /\ \E i \in instructions : i.draw = d
  BY <1>1, <1>2 DEF Progress
<1>8. ASSUME NEW i \in instructions
      PROVE  /\ v[i.draw] = [amount |-> i.amount, judged |-> Judgement(draw[i.draw].status)]
             /\ w[i.draw] = [amount |-> i.amount, judged |-> Judgement(draw'[i.draw].status)]
  <2>1. PICK j \in instructions' : j.draw = i.draw /\ j.amount = i.amount
    BY <1>5
  <2>2. w[j.draw] = [amount |-> j.amount, judged |-> Judgement(draw'[j.draw].status)]
    BY <1>3, <1>4, ViewOfInstruction
  <2>3. v[i.draw] = [amount |-> i.amount, judged |-> Judgement(draw[i.draw].status)]
    BY <1>3, <1>4, ViewOfInstruction
  <2> QED
    BY <2>1, <2>2, <2>3
<1>9. v = [d \in Draw |-> v[d]] /\ w = [d \in Draw |-> w[d]]
  BY <1>3 DEF ViewOf
<1>10. ASSUME NEW d \in Draw, \A i \in instructions : i.draw # d
       PROVE  w[d] = v[d]
  <2>1. \A j \in instructions' : j.draw # d
    BY <1>6, <1>10
  <2> QED
    BY <1>3, <1>10, <2>1, ViewOfNone
<1> HIDE DEF v, w
<1>11. ASSUME NEW d \in J
       PROVE  /\ v[d].amount > 0 /\ v[d].judged = "no"
              /\ w[d] = [v[d] EXCEPT !.judged = verdict[d]]
              /\ verdict[d] \in {"matched", "exception"}
  <2>1. PICK i \in instructions : i.draw = d
    BY <1>7
  <2>2. /\ draw[d].status = "SETTLEMENT_INSTRUCTED"
        /\ draw'[d].status \in {"RECONCILED", "RECONCILIATION_EXCEPTION"}
    BY <1>7 DEF JudgedRow
  <2>3. i.amount \in 1..draw[d].requested
    BY <2>1, <2>2 DEF SettlementInv, WorkflowInv, InstructionIsApproved, ApprovedIsBacked, Decided
  <2>4. v[d] = [amount |-> i.amount, judged |-> "no"]
    BY <1>8, <2>1, <2>2 DEF Judgement
  <2>5. w[d] = [amount |-> i.amount, judged |-> verdict[d]]
    BY <1>8, <2>1
  <2>6. verdict[d] \in {"matched", "exception"}
    BY <2>2 DEF Judgement
  <2>7. v[d].amount = i.amount /\ v[d].judged = "no"
    BY <2>4
  <2>8. w[d] = [v[d] EXCEPT !.judged = verdict[d]]
    BY <2>4, <2>5
  <2>9. i.amount > 0
    BY <2>3
  <2> QED
    BY <2>6, <2>7, <2>8, <2>9
<1>12. ASSUME NEW d \in Draw, d \notin J
       PROVE  w[d] = v[d]
  <2>1. draw'[d] = draw[d]
    BY <1>12
  <2>2. CASE \A i \in instructions : i.draw # d
    BY <1>10, <2>2
  <2>3. CASE \E i \in instructions : i.draw = d
    <3>1. PICK i \in instructions : i.draw = d
      BY <2>3
    <3> QED
      BY <1>8, <2>1, <3>1
  <2> QED
    BY <2>2, <2>3
<1>13. verdict \in [J -> {"matched", "exception"}]
  BY <1>11
<1>14. J \in SUBSET {d \in Draw : v[d].amount > 0 /\ v[d].judged = "no"}
  BY <1>11
<1> HIDE DEF J, verdict
<1>15. w = [d \in Draw |-> IF d \in J THEN [v[d] EXCEPT !.judged = verdict[d]] ELSE v[d]]
  BY <1>9, <1>11, <1>12
<1> QED
  BY <1>13, <1>14, <1>15 DEF Payments!Judge, v, w

\* Every other step of the workflow and of an import leaves the view alone.
LEMMA StepsMapToPayments ==
  ASSUME SettlementInv, SettlementInv', [SettlementNext]_allVars
  PROVE  [Payments!Instruct \/ Payments!Judge]_PaymentView
<1>1. CASE WorkflowStep
  <2>1. Next
    BY <1>1 DEF WorkflowStep
  <2>2. CASE \E s \in Subject, d \in Draw, ref \in Reference : Instruct(s, d, ref)
    BY <2>2, InstructIsInstruct
  <2>3. CASE UNCHANGED instructions /\ \A i \in instructions : draw'[i.draw] = draw[i.draw]
    <3> DEFINE v == ViewOf(draw, instructions)
               w == ViewOf(draw', instructions)
    <3>1. \A i \in instructions : i.draw \in Draw
      BY OneInstructionPerDraw
    <3>2. ASSUME NEW d \in Draw PROVE w[d] = v[d]
      <4>1. CASE {i \in instructions : i.draw = d} = {}
        BY <4>1 DEF ViewOf
      <4>2. CASE {i \in instructions : i.draw = d} # {}
        <5>1. draw'[d] = draw[d]
          BY <2>3, <4>2
        <5> QED
          BY <5>1 DEF ViewOf
      <4> QED
        BY <4>1, <4>2
    <3>3. v = w
      <4>1. v = [d \in Draw |-> v[d]] /\ w = [d \in Draw |-> w[d]]
        BY DEF ViewOf
      <4> HIDE DEF v, w
      <4> QED
        BY <3>2, <4>1
    <3>4. PaymentView = v /\ PaymentView' = w
      BY <2>3, ViewIsViewOf
    <3> QED
      BY <3>3, <3>4
  <2> QED
    BY <2>1, <2>2, <2>3, InstructedDrawsRest DEF SettlementInv
<1>2. CASE ImportCommit
  BY <1>2, CommitIsJudge
<1>3. CASE UNCHANGED <<draw, instructions>>
  BY <1>3 DEF PaymentView, Paid
<1>4. CASE ImportRow \/ ImportAbort \/ UNCHANGED allVars
  BY <1>3, <1>4 DEF ImportRow, ImportAbort, allVars, vars
<1>5. CASE \E s \in Subject, b \in Batch, rows \in File :
             StageCsvFirstEntry(s, b, rows) \/ ConfirmCsvSecondEntry(s, b, rows)
  BY <1>3, <1>5 DEF StageCsvFirstEntry, ConfirmCsvSecondEntry, vars
<1> QED
  BY <1>1, <1>2, <1>4, <1>5 DEF SettlementNext

\* The workflow with its imports implements PaymentOnce: whatever the files
\* say, a draw asks for money once, for an amount within the bound that stays,
\* and its payment is judged once and for all.
THEOREM SettlementRefinesPaymentOnce == SettlementSpec => RefinesPaymentOnce
<1>1. SettlementInit => Payments!Init
  <2> SUFFICES ASSUME SettlementInit PROVE PaymentView = [d \in Draw |-> Payments!Unpaid]
    BY DEF Payments!Init
  <2>1. instructions = {}
    BY DEF SettlementInit, Init
  <2> QED
    BY <2>1 DEF PaymentView, Paid, Payments!Unpaid
<1>2. SettlementInv /\ SettlementInv' /\ [SettlementNext]_allVars
        => [Payments!Instruct \/ Payments!Judge]_PaymentView
  BY StepsMapToPayments
<1> QED
  BY <1>1, <1>2, SettlementInvariant, PTL DEF SettlementSpec, RefinesPaymentOnce, Payments!Spec
=============================================================================
