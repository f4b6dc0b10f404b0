---------------------- MODULE PartnerSettlementProofs -----------------------
(***************************************************************************)
(* The settlement service and its reconciliation engine, for any number of *)
(* requests, handlers at work, amounts and events.                         *)
(*                                                                         *)
(* NoSilentMatch speaks of instructions nobody works on and is not         *)
(* inductive: a handler that still has to reconcile is what excuses a      *)
(* record that is matched too early, and it judges the figures of the      *)
(* moment.  JudgedByTheLast is the invariant behind it.                    *)
(***************************************************************************)
EXTENDS PartnerSettlement, ListLemmas

Instruction == [request : Request, amount : Amount, status : {"sent", "confirmed", "exception"},
                confirmed : Amount \cup {NoAmount}]

RecordStatus == {"pending", "matched", "variance_detected", "exception", "unmatched"}

Record == [instruction : Nat \ {0}, expected : Amount, confirmed : Amount \cup {NoAmount},
           status : RecordStatus]

ExceptionRow == [record : Nat \ {0}, instruction : Nat \ {0},
                 type : {"amount_mismatch", "failed_settlement", "missing_confirmation"},
                 resolved : BOOLEAN]

CallState == [op : {"idle", "log", "book", "reconcile"}, instruction : Nat]

BooksTyped ==
  /\ instructions \in Seq(Instruction)
  /\ requestIndex \in [Request -> 0..Len(instructions)]
  /\ records \in Seq(Record)
  /\ instructionIndex \in Seq(Nat)
  /\ exceptions \in Seq(ExceptionRow)
  /\ calls \in [Call -> CallState]

\* The maps and the handlers point at what is there, a record at the
\* instruction it was booked for.
BooksLinked ==
  /\ Len(instructionIndex) = Len(instructions)
  /\ \A i \in DOMAIN instructions :
       instructionIndex[i] # 0 =>
         /\ instructionIndex[i] \in DOMAIN records
         /\ records[instructionIndex[i]].instruction = i
  /\ \A k \in DOMAIN records : records[k].instruction \in DOMAIN instructions
  /\ \A x \in DOMAIN exceptions : exceptions[x].record \in DOMAIN records
  /\ \A c \in Call : calls[c].op # "idle" => calls[c].instruction \in DOMAIN instructions

ConfirmedWithAmount ==
  \A i \in DOMAIN instructions :
    instructions[i].status = "confirmed" => instructions[i].confirmed \in Amount

\* A record is matched against a confirmation of another amount only as long
\* as a handler has yet to judge it, or after somebody resolved an exception.
JudgedByTheLast ==
  \A i \in DOMAIN instructions :
    LET k == instructionIndex[i]
    IN  (/\ k # 0 /\ instructions[i].status = "confirmed" /\ Differs(i)
         /\ records[k].status = "matched"
         /\ \A c \in Call : calls[c].op = "reconcile" => calls[c].instruction # i)
        => \E x \in DOMAIN exceptions : exceptions[x].record = k /\ exceptions[x].resolved

BooksInv ==
  BooksTyped /\ BooksLinked /\ ConfirmedWithAmount /\ DifferenceBlocks /\ JudgedByTheLast

books == <<instructions, requestIndex, records, instructionIndex, exceptions, calls>>

-----------------------------------------------------------------------------
\* The service starts with empty books.
LEMMA BooksInit == SettlementInit => BooksInv
<1> SUFFICES ASSUME SettlementInit PROVE BooksInv
  OBVIOUS
<1>1. /\ instructions = <<>> /\ records = <<>> /\ exceptions = <<>> /\ instructionIndex = <<>>
      /\ requestIndex = [r \in Request |-> 0] /\ calls = [c \in Call |-> Idle]
  BY DEF SettlementInit
<1>2. BooksTyped
  BY <1>1 DEF BooksTyped, CallState, Idle
<1>3. DOMAIN <<>> = {} /\ Len(<<>>) = 0
  OBVIOUS
<1>4. \A c \in Call : calls[c].op = "idle"
  BY <1>1 DEF Idle
<1> QED
  BY <1>1, <1>2, <1>3, <1>4
  DEF BooksInv, BooksLinked, ConfirmedWithAmount, DifferenceBlocks, JudgedByTheLast

\* A step that only moves handlers, and takes no reconciliation off an
\* instruction that has a record, keeps the books.
LEMMA HandlersMove ==
  ASSUME BooksInv, UNCHANGED <<instructions, requestIndex, records, instructionIndex, exceptions>>,
         calls' \in [Call -> CallState],
         \A c \in Call : calls'[c].op # "idle" => calls'[c].instruction \in DOMAIN instructions,
         \A c \in Call :
           calls[c].op = "reconcile" =>
             calls'[c] = calls[c] \/ instructionIndex[calls[c].instruction] = 0
  PROVE  BooksInv'
<1>1. BooksTyped' /\ BooksLinked' /\ ConfirmedWithAmount' /\ DifferenceBlocks'
  BY DEF BooksInv, BooksTyped, BooksLinked, ConfirmedWithAmount, DifferenceBlocks
<1>2. JudgedByTheLast'
  BY DEF BooksInv, JudgedByTheLast, Differs
<1> QED
  BY <1>1, <1>2 DEF BooksInv

\* The store's own events are no part of the books.
LEMMA BooksUnchanged ==
  ASSUME BooksInv, UNCHANGED books
  PROVE  BooksInv'
BY HandlersMove DEF books, BooksInv, BooksTyped, BooksLinked

\* A repeated request goes on with the instruction it had.
LEMMA ReturnExistingKeeps ==
  ASSUME BooksInv, NEW c \in Call, NEW r \in Request, ReturnExisting(c, r)
  PROVE  BooksInv'
<1> DEFINE s == Await("book", requestIndex[r])
<1>1. /\ calls[c].op = "idle" /\ requestIndex[r] # 0
      /\ calls' = [calls EXCEPT ![c] = s]
      /\ UNCHANGED <<instructions, requestIndex, records, instructionIndex, exceptions>>
  BY DEF ReturnExisting, Idle
<1>2. requestIndex[r] \in DOMAIN instructions
  BY <1>1, LenProperties DEF BooksInv, BooksTyped
<1>3. s \in CallState /\ s.op = "book" /\ s.instruction = requestIndex[r]
  BY <1>2, LenProperties DEF BooksInv, BooksTyped, Await, CallState
<1> HIDE DEF s
<1> QED
  BY <1>1, <1>2, <1>3, HandlersMove DEF BooksInv, BooksTyped, BooksLinked

\* The event of a sent instruction leaves the books.
LEMMA LogSentKeeps ==
  ASSUME BooksInv, NEW c \in Call, LogSent(c)
  PROVE  BooksInv'
<1> DEFINE i == calls[c].instruction
           s == Await("book", i)
<1>1. /\ calls[c].op = "log" /\ calls' = [calls EXCEPT ![c] = s]
      /\ UNCHANGED <<instructions, requestIndex, records, instructionIndex, exceptions>>
  BY DEF LogSent
<1>2. i \in DOMAIN instructions /\ i \in Nat
  BY <1>1 DEF BooksInv, BooksTyped, BooksLinked, CallState
<1>3. s \in CallState /\ s.op = "book" /\ s.instruction = i
  BY <1>2 DEF Await, CallState
<1> HIDE DEF s
<1> QED
  BY <1>1, <1>2, <1>3, HandlersMove DEF BooksInv, BooksTyped, BooksLinked

\* Without a record there is nothing to reconcile.
LEMMA ReconcileMissingKeeps ==
  ASSUME BooksInv, NEW c \in Call, ReconcileMissing(c)
  PROVE  BooksInv'
<1>1. /\ instructionIndex[calls[c].instruction] = 0 /\ calls' = [calls EXCEPT ![c] = Idle]
      /\ UNCHANGED <<instructions, requestIndex, records, instructionIndex, exceptions>>
  BY DEF ReconcileMissing
<1>2. Idle \in CallState /\ Idle.op = "idle"
  BY DEF Idle, CallState
<1> QED
  BY <1>1, <1>2, HandlersMove DEF BooksInv, BooksTyped, BooksLinked

\* POST /instruction enters an instruction no handler and no record is of yet.
LEMMA CreateInstructionKeeps ==
  ASSUME BooksInv, NEW c \in Call, NEW r \in Request, NEW a \in Amount, NEW bank,
         CreateInstruction(c, r, a, bank)
  PROVE  BooksInv'
<1> DEFINE e == [request |-> r, amount |-> a, status |-> "sent", confirmed |-> NoAmount]
           n == Len(instructions) + 1
           s == Await("log", n)
<1>1. /\ instructions' = Append(instructions, e) /\ instructionIndex' = Append(instructionIndex, 0)
      /\ calls' = [calls EXCEPT ![c] = s]
      /\ requestIndex' = [requestIndex EXCEPT ![r] = n]
      /\ calls[c].op = "idle"
      /\ UNCHANGED <<records, exceptions>>
  BY DEF CreateInstruction, Enter, Idle
<1>2. e \in Instruction /\ e.status = "sent"
  BY DEF Instruction
<1> HIDE DEF e
<1>3. /\ instructions \in Seq(Instruction) /\ instructionIndex \in Seq(Nat)
      /\ Len(instructionIndex) = Len(instructions)
  BY DEF BooksInv, BooksTyped, BooksLinked
<1>4. /\ instructions' \in Seq(Instruction) /\ Len(instructions') = n /\ Len(instructions) \in Nat
      /\ DOMAIN instructions' = DOMAIN instructions \cup {n} /\ n \notin DOMAIN instructions
      /\ instructions'[n] = e /\ \A i \in DOMAIN instructions : instructions'[i] = instructions[i]
  BY <1>1, <1>2, <1>3, AppendedAt
<1>5. /\ instructionIndex' \in Seq(Nat) /\ Len(instructionIndex') = n
      /\ instructionIndex'[n] = 0
      /\ \A i \in DOMAIN instructionIndex : instructionIndex'[i] = instructionIndex[i]
  BY <1>1, <1>3, AppendedAt
<1>6. DOMAIN instructions = DOMAIN instructionIndex
  BY <1>3, LenProperties
<1>7. n \in Nat /\ n \in 0..n /\ 0..Len(instructions) \subseteq 0..n
  BY <1>4
<1>8. s \in CallState /\ s.op = "log" /\ s.instruction = n
  BY <1>7 DEF Await, CallState
<1> HIDE DEF s, n
<1>9. BooksTyped'
  BY <1>1, <1>4, <1>5, <1>7, <1>8 DEF BooksInv, BooksTyped
<1>10. BooksLinked'
  BY <1>1, <1>4, <1>5, <1>6, <1>8 DEF BooksInv, BooksTyped, BooksLinked
<1>11. ConfirmedWithAmount'
  BY <1>2, <1>4 DEF BooksInv, ConfirmedWithAmount
<1>12. DifferenceBlocks'
  BY <1>1 DEF BooksInv, DifferenceBlocks
<1>13. JudgedByTheLast'
  <2> SUFFICES ASSUME NEW i \in DOMAIN instructions', instructionIndex'[i] # 0,
                      instructions'[i].status = "confirmed", Differs(i)',
                      records[instructionIndex'[i]].status = "matched",
                      \A d \in Call : calls'[d].op = "reconcile" => calls'[d].instruction # i
               PROVE  \E x \in DOMAIN exceptions :
                        exceptions[x].record = instructionIndex'[i] /\ exceptions[x].resolved
    BY <1>1 DEF JudgedByTheLast
  <2>1. i \in DOMAIN instructions
    BY <1>4, <1>5
  <2>2. instructions'[i] = instructions[i] /\ instructionIndex'[i] = instructionIndex[i]
    BY <1>4, <1>5, <1>6, <2>1
  <2>3. Differs(i)
    BY <2>2 DEF Differs
  <2>4. \A d \in Call : calls[d].op = "reconcile" => calls[d].instruction # i
    BY <1>1 DEF BooksInv, BooksTyped
  <2> QED
    BY <2>1, <2>2, <2>3, <2>4 DEF BooksInv, JudgedByTheLast
<1> QED
  BY <1>9, <1>10, <1>11, <1>12, <1>13 DEF BooksInv

\* The route books a record that is still open; the one before it keeps its
\* exceptions.
LEMMA CreateReconciliationKeeps ==
  ASSUME BooksInv, NEW c \in Call, CreateReconciliation(c)
  PROVE  BooksInv'
<1> DEFINE i == calls[c].instruction
           e == [instruction |-> i, expected |-> instructions[i].amount, confirmed |-> NoAmount,
                 status |-> "pending"]
           n == Len(records) + 1
<1>1. /\ calls[c].op = "book"
      /\ records' = Append(records, e)
      /\ instructionIndex' = [instructionIndex EXCEPT ![i] = n]
      /\ calls' = [calls EXCEPT ![c] = Idle]
      /\ UNCHANGED <<instructions, requestIndex, exceptions>>
  BY DEF CreateReconciliation
<1>2. i \in DOMAIN instructions
  BY <1>1 DEF BooksInv, BooksLinked
<1>3. DOMAIN instructionIndex = DOMAIN instructions /\ DOMAIN instructions \subseteq Nat \ {0}
  BY LenProperties DEF BooksInv, BooksTyped, BooksLinked
<1>4. e \in Record /\ e.status = "pending" /\ e.instruction = i
  <2>1. instructions[i] \in Instruction
    BY <1>2, ElementOfSeq, LenProperties DEF BooksInv, BooksTyped
  <2> QED
    BY <1>2, <1>3, <2>1 DEF Instruction, Record, RecordStatus
<1> HIDE DEF e
<1>5. /\ records' \in Seq(Record) /\ Len(records) \in Nat
      /\ DOMAIN records' = DOMAIN records \cup {n} /\ n \notin DOMAIN records
      /\ records'[n] = e /\ \A k \in DOMAIN records : records'[k] = records[k]
  BY <1>1, <1>4, AppendedAt DEF BooksInv, BooksTyped
<1>6. n \in Nat /\ n # 0
  BY <1>5
<1> HIDE DEF n, i
<1>7. /\ instructionIndex' \in Seq(Nat) /\ Len(instructionIndex') = Len(instructionIndex)
      /\ instructionIndex'[i] = n
      /\ \A j \in DOMAIN instructions : j # i => instructionIndex'[j] = instructionIndex[j]
  BY <1>1, <1>2, <1>3, <1>6, ChangedAt DEF BooksInv, BooksTyped
<1>8. Idle \in CallState /\ Idle.op = "idle"
  BY DEF Idle, CallState
<1>9. BooksTyped'
  BY <1>1, <1>5, <1>7, <1>8 DEF BooksInv, BooksTyped
<1>10. BooksLinked'
  BY <1>1, <1>2, <1>4, <1>5, <1>7, <1>8 DEF BooksInv, BooksTyped, BooksLinked
<1>11. ConfirmedWithAmount'
  BY <1>1 DEF BooksInv, ConfirmedWithAmount
<1>12. DifferenceBlocks'
  BY <1>1, <1>4, <1>5 DEF BooksInv, DifferenceBlocks
<1>13. JudgedByTheLast'
  <2> SUFFICES ASSUME NEW j \in DOMAIN instructions, instructionIndex'[j] # 0,
                      instructions[j].status = "confirmed", Differs(j)',
                      records'[instructionIndex'[j]].status = "matched",
                      \A d \in Call : calls'[d].op = "reconcile" => calls'[d].instruction # j
               PROVE  \E x \in DOMAIN exceptions :
                        exceptions[x].record = instructionIndex'[j] /\ exceptions[x].resolved
    BY <1>1 DEF JudgedByTheLast
  <2>1. j # i
    BY <1>4, <1>5, <1>7
  <2>2. /\ instructionIndex'[j] = instructionIndex[j]
        /\ records'[instructionIndex[j]] = records[instructionIndex[j]]
    BY <1>5, <1>7, <2>1 DEF BooksInv, BooksLinked
  <2>3. Differs(j)
    BY <1>1 DEF Differs
  <2>4. \A d \in Call : calls[d].op = "reconcile" => calls[d].instruction # j
    BY <1>1 DEF BooksInv, BooksTyped
  <2> QED
    BY <2>2, <2>3, <2>4 DEF BooksInv, JudgedByTheLast
<1> QED
  BY <1>9, <1>10, <1>11, <1>12, <1>13 DEF BooksInv

\* A confirmation or a failure changes the instruction and leaves a handler
\* that has yet to judge it.
LEMMA ReportKeeps ==
  ASSUME BooksInv, NEW c \in Call, NEW i \in DOMAIN instructions, NEW e \in Instruction,
         e.status = "confirmed" => e.confirmed \in Amount,
         calls[c] = Idle, calls' = [calls EXCEPT ![c] = Await("reconcile", i)],
         instructions' = [instructions EXCEPT ![i] = e],
         UNCHANGED <<requestIndex, records, instructionIndex, exceptions>>
  PROVE  BooksInv'
<1> DEFINE s == Await("reconcile", i)
<1>1. i \in Nat
  BY LenProperties DEF BooksInv, BooksTyped
<1>2. s \in CallState /\ s.op = "reconcile" /\ s.instruction = i
  BY <1>1 DEF Await, CallState
<1>3. calls' = [calls EXCEPT ![c] = s] /\ calls[c].op = "idle"
  BY DEF Idle
<1> HIDE DEF s
<1>4. /\ instructions' \in Seq(Instruction) /\ Len(instructions') = Len(instructions)
      /\ DOMAIN instructions' = DOMAIN instructions /\ instructions'[i] = e
      /\ \A j \in DOMAIN instructions : j # i => instructions'[j] = instructions[j]
  BY ChangedAt DEF BooksInv, BooksTyped
<1>5. BooksTyped' /\ BooksLinked'
  BY <1>2, <1>3, <1>4 DEF BooksInv, BooksTyped, BooksLinked
<1>6. ConfirmedWithAmount'
  BY <1>4 DEF BooksInv, ConfirmedWithAmount
<1>7. DifferenceBlocks'
  BY DEF BooksInv, DifferenceBlocks
<1>8. JudgedByTheLast'
  <2> SUFFICES ASSUME NEW j \in DOMAIN instructions, instructionIndex[j] # 0,
                      instructions'[j].status = "confirmed", Differs(j)',
                      records[instructionIndex[j]].status = "matched",
                      \A d \in Call : calls'[d].op = "reconcile" => calls'[d].instruction # j
               PROVE  \E x \in DOMAIN exceptions :
                        exceptions[x].record = instructionIndex[j] /\ exceptions[x].resolved
    BY <1>4 DEF JudgedByTheLast
  <2>1. j # i
    BY <1>2, <1>3 DEF BooksInv, BooksTyped
  <2>2. Differs(j) /\ instructions[j].status = "confirmed"
    BY <1>4, <2>1 DEF Differs
  <2>3. \A d \in Call : calls[d].op = "reconcile" => calls[d].instruction # j
    BY <1>3 DEF BooksInv, BooksTyped
  <2> QED
    BY <2>2, <2>3 DEF BooksInv, JudgedByTheLast
<1> QED
  BY <1>5, <1>6, <1>7, <1>8 DEF BooksInv

\* A confirmation is judged by the reconciliation it starts.
LEMMA RecordConfirmationKeeps ==
  ASSUME BooksInv, NEW c \in Call, NEW i \in DOMAIN instructions, NEW a \in Amount,
         RecordConfirmation(c, i, a)
  PROVE  BooksInv'
<1> DEFINE e == [instructions[i] EXCEPT !.status = "confirmed", !.confirmed = a]
<1>1. instructions[i] \in Instruction
  BY ElementOfSeq, LenProperties DEF BooksInv, BooksTyped
<1>2. e \in Instruction /\ e.status = "confirmed" /\ e.confirmed = a
  BY <1>1 DEF Instruction
<1>3. instructions' = [instructions EXCEPT ![i] = e]
  BY DEF RecordConfirmation
<1> HIDE DEF e
<1> QED
  BY <1>2, <1>3, ReportKeeps DEF RecordConfirmation

\* A failure marks the instruction; the reconciliation it starts judges the record.
LEMMA RecordExceptionKeeps ==
  ASSUME BooksInv, NEW c \in Call, NEW i \in DOMAIN instructions, RecordException(c, i)
  PROVE  BooksInv'
<1> DEFINE e == [instructions[i] EXCEPT !.status = "exception"]
<1>1. instructions[i] \in Instruction
  BY ElementOfSeq, LenProperties DEF BooksInv, BooksTyped
<1>2. e \in Instruction /\ e.status = "exception"
  BY <1>1 DEF Instruction
<1>3. instructions' = [instructions EXCEPT ![i] = e]
  BY DEF RecordException
<1> HIDE DEF e
<1> QED
  BY <1>2, <1>3, ReportKeeps DEF RecordException

-----------------------------------------------------------------------------
\* A record judged as something else than matched gets an exception of its own.
LEMMA DifferenceRaised ==
  ASSUME BooksInv, NEW k \in DOMAIN records, NEW r \in Record,
         r.instruction = records[k].instruction,
         NEW type \in {"amount_mismatch", "failed_settlement", "missing_confirmation"},
         r.status # "matched",
         records' = [records EXCEPT ![k] = r],
         exceptions' = Append(exceptions, [record |-> k, instruction |-> records[k].instruction,
                                           type |-> type, resolved |-> FALSE]),
         calls' \in [Call -> CallState],
         \A c \in Call : calls'[c].op # "idle" => calls'[c] = calls[c],
         UNCHANGED <<instructions, requestIndex, instructionIndex>>,
         \A i \in DOMAIN instructions : instructionIndex[i] # k =>
           \A c \in Call : calls[c].op = "reconcile" /\ calls[c].instruction = i => calls'[c] = calls[c]
  PROVE  BooksInv'
<1> DEFINE e == [record |-> k, instruction |-> records[k].instruction, type |-> type,
                 resolved |-> FALSE]
           n == Len(exceptions) + 1
<1>1. /\ records' \in Seq(Record) /\ DOMAIN records' = DOMAIN records /\ records'[k] = r
      /\ \A j \in DOMAIN records : j # k => records'[j] = records[j]
  BY ChangedAt DEF BooksInv, BooksTyped
<1>2. records[k] \in Record /\ k \in Nat \ {0}
  BY ElementOfSeq, LenProperties DEF BooksInv, BooksTyped
<1>3. e \in ExceptionRow /\ e.record = k /\ ~e.resolved
  BY <1>2 DEF Record, ExceptionRow
<1>4. exceptions' = Append(exceptions, e)
  OBVIOUS
<1> HIDE DEF e
<1>5. /\ exceptions' \in Seq(ExceptionRow) /\ DOMAIN exceptions' = DOMAIN exceptions \cup {n}
      /\ exceptions'[n] = e /\ \A x \in DOMAIN exceptions : exceptions'[x] = exceptions[x]
  BY <1>3, <1>4, AppendedAt DEF BooksInv, BooksTyped
<1> HIDE DEF n
<1>6. BooksTyped'
  BY <1>1, <1>5 DEF BooksInv, BooksTyped
<1>7. BooksLinked'
  <2>1. \A j \in DOMAIN records : records'[j].instruction = records[j].instruction
    BY <1>1
  <2>2. BooksLinked
    BY DEF BooksInv
  <2>3. \A x \in DOMAIN exceptions' : exceptions'[x].record \in DOMAIN records
    BY <1>3, <1>5, <2>2 DEF BooksLinked
  <2>4. \A c \in Call : calls'[c].op # "idle" => calls'[c].instruction \in DOMAIN instructions
    BY <2>2 DEF BooksLinked
  <2> QED
    BY <1>1, <2>1, <2>2, <2>3, <2>4 DEF BooksLinked
<1>8. ConfirmedWithAmount'
  BY DEF BooksInv, ConfirmedWithAmount
<1>9. DifferenceBlocks'
  BY <1>1, <1>3, <1>5 DEF BooksInv, DifferenceBlocks
<1>10. JudgedByTheLast'
  <2> SUFFICES ASSUME NEW i \in DOMAIN instructions, instructionIndex[i] # 0,
                      instructions[i].status = "confirmed", Differs(i)',
                      records'[instructionIndex[i]].status = "matched",
                      \A c \in Call : calls'[c].op = "reconcile" => calls'[c].instruction # i
               PROVE  \E x \in DOMAIN exceptions' :
                        exceptions'[x].record = instructionIndex[i] /\ exceptions'[x].resolved
    BY DEF JudgedByTheLast
  <2>1. instructionIndex[i] # k
    BY <1>1
  <2>2. records[instructionIndex[i]].status = "matched"
    BY <1>1, <2>1 DEF BooksInv, BooksLinked
  <2>3. Differs(i)
    BY DEF Differs
  <2>4. \A c \in Call : calls[c].op = "reconcile" => calls[c].instruction # i
    BY <2>1
  <2>5. \E x \in DOMAIN exceptions :
          exceptions[x].record = instructionIndex[i] /\ exceptions[x].resolved
    BY <2>2, <2>3, <2>4 DEF BooksInv, JudgedByTheLast
  <2> QED
    BY <1>5, <2>5
<1> QED
  BY <1>6, <1>7, <1>8, <1>9, <1>10 DEF BooksInv

\* Reconciling judges the figures the instruction has by now.
LEMMA ReconcileKeeps ==
  ASSUME BooksInv, NEW c \in Call, Reconcile(c)
  PROVE  BooksInv'
<1> DEFINE i == calls[c].instruction
           k == instructionIndex[i]
           confirmed == instructions[i].status = "confirmed"
           type == IF confirmed THEN "amount_mismatch" ELSE "failed_settlement"
<1>1. PICK o \in IF confirmed THEN Judgements(i) ELSE {"exception"} :
        /\ records' = [records EXCEPT
             ![k].status = o,
             ![k].confirmed = IF confirmed THEN instructions[i].confirmed ELSE @]
        /\ exceptions' = IF o = "matched" THEN exceptions ELSE createException(k, type)
  BY DEF Reconcile
<1>2. /\ calls[c].op = "reconcile" /\ k # 0
      /\ calls' = [calls EXCEPT ![c] = Idle]
      /\ UNCHANGED <<instructions, requestIndex, instructionIndex>>
  BY DEF Reconcile
<1>3. i \in DOMAIN instructions /\ k \in DOMAIN records /\ records[k].instruction = i
  BY <1>2 DEF BooksInv, BooksLinked
<1>4. o \in {"matched", "variance_detected", "exception"}
  BY <1>1 DEF Judgements
<1> DEFINE r == [records[k] EXCEPT !.status = o,
                                   !.confirmed = IF confirmed THEN instructions[i].confirmed ELSE @]
<1>5. records[k] \in Record /\ instructions[i] \in Instruction
  BY <1>3, ElementOfSeq, LenProperties DEF BooksInv, BooksTyped
<1>6. r \in Record /\ r.status = o /\ r.instruction = records[k].instruction
  <2>1. confirmed => instructions[i].confirmed \in Amount
    BY <1>3 DEF BooksInv, ConfirmedWithAmount
  <2> QED
    BY <1>4, <1>5, <2>1 DEF Record, RecordStatus
<1>7. records' = [records EXCEPT ![k] = r]
  BY <1>1
<1>8. Idle \in CallState /\ Idle.op = "idle"
  BY DEF Idle, CallState
<1>9. type \in {"amount_mismatch", "failed_settlement", "missing_confirmation"}
  OBVIOUS
<1>10. confirmed /\ Differs(i) => o # "matched"
  <2> SUFFICES ASSUME confirmed, Differs(i) PROVE o # "matched"
    OBVIOUS
  <2>1. o \in Judgements(i)
    BY <1>1
  <2>2. instructions[i].confirmed \in Int /\ instructions[i].amount \in Int
    BY <1>3, <1>5, FiguresAreNumbers DEF BooksInv, ConfirmedWithAmount, Instruction
  <2>3. Diff(instructions[i].confirmed, instructions[i].amount) \in Int
    BY <2>2 DEF Diff
  <2>4. ~(Diff(instructions[i].confirmed, instructions[i].amount) <= Tolerance)
    BY <2>3, FiguresAreNumbers DEF Differs
  <2> QED
    BY <2>1, <2>4 DEF Judgements
<1>11. calls' \in [Call -> CallState]
  BY <1>2, <1>8 DEF BooksInv, BooksTyped
<1>12. \A d \in Call : /\ calls'[d].op # "idle" => calls'[d] = calls[d]
                       /\ d # c => calls'[d] = calls[d]
  BY <1>2, <1>8 DEF BooksInv, BooksTyped
<1> HIDE DEF r, type, k, i
<1>13. CASE o # "matched"
  <2>1. exceptions' = Append(exceptions, [record |-> k, instruction |-> records[k].instruction,
                                          type |-> type, resolved |-> FALSE])
    BY <1>1, <1>13 DEF createException
  <2>2. \A j \in DOMAIN instructions : instructionIndex[j] # k => j # i
    BY DEF k
  <2>3. \A j \in DOMAIN instructions : instructionIndex[j] # k =>
          \A d \in Call : calls[d].op = "reconcile" /\ calls[d].instruction = j
                            => calls'[d] = calls[d]
    BY <1>12, <2>2 DEF i
  <2> QED
    BY <1>2, <1>3, <1>6, <1>7, <1>9, <1>11, <1>12, <1>13, <2>1, <2>3, DifferenceRaised
<1>14. CASE o = "matched"
  <2>1. exceptions' = exceptions
    BY <1>1, <1>14
  <2>2. /\ records' \in Seq(Record) /\ DOMAIN records' = DOMAIN records /\ records'[k] = r
        /\ \A j \in DOMAIN records : j # k => records'[j] = records[j]
    BY <1>3, <1>6, <1>7, ChangedAt DEF BooksInv, BooksTyped
  <2>3. BooksTyped'
    BY <1>2, <1>11, <2>1, <2>2 DEF BooksInv, BooksTyped
  <2>4. BooksLinked'
    BY <1>2, <1>6, <1>12, <2>1, <2>2 DEF BooksInv, BooksLinked
  <2>5. ConfirmedWithAmount'
    BY <1>2 DEF BooksInv, ConfirmedWithAmount
  <2>6. DifferenceBlocks'
    BY <1>6, <1>14, <2>1, <2>2 DEF BooksInv, DifferenceBlocks
  <2>7. JudgedByTheLast'
    <3> SUFFICES ASSUME NEW j \in DOMAIN instructions, instructionIndex[j] # 0,
                        instructions[j].status = "confirmed", Differs(j)',
                        records'[instructionIndex[j]].status = "matched",
                        \A d \in Call : calls'[d].op = "reconcile" => calls'[d].instruction # j
                 PROVE  \E x \in DOMAIN exceptions :
                          exceptions[x].record = instructionIndex[j] /\ exceptions[x].resolved
      BY <1>2, <2>1 DEF JudgedByTheLast
    <3>1. Differs(j)
      BY <1>2 DEF Differs
    <3>2. j # i
      BY <1>10, <1>14, <3>1
    <3>3. instructionIndex[j] # k
      BY <1>3, <3>2 DEF BooksInv, BooksLinked
    <3>4. records[instructionIndex[j]].status = "matched"
      BY <2>2, <3>3 DEF BooksInv, BooksLinked
    <3>5. \A d \in Call : calls[d].op = "reconcile" => calls[d].instruction # j
      BY <1>12, <3>2 DEF i
    <3> QED
      BY <3>1, <3>4, <3>5 DEF BooksInv, JudgedByTheLast
  <2> QED
    BY <2>3, <2>4, <2>5, <2>6, <2>7 DEF BooksInv
<1> QED
  BY <1>13, <1>14

\* A record that waited too long gets an open exception.
LEMMA CheckUnmatchedKeeps ==
  ASSUME BooksInv, NEW k \in DOMAIN records, CheckUnmatched(k)
  PROVE  BooksInv'
<1> DEFINE r == [records[k] EXCEPT !.status = "unmatched"]
<1>1. records[k] \in Record
  BY ElementOfSeq, LenProperties DEF BooksInv, BooksTyped
<1>2. r \in Record /\ r.status = "unmatched" /\ r.instruction = records[k].instruction
  BY <1>1 DEF Record, RecordStatus
<1>3. /\ records' = [records EXCEPT ![k] = r]
      /\ exceptions' = Append(exceptions, [record |-> k, instruction |-> records[k].instruction,
                                           type |-> "missing_confirmation", resolved |-> FALSE])
      /\ UNCHANGED <<instructions, requestIndex, instructionIndex, calls>>
  BY DEF CheckUnmatched, createException
<1> HIDE DEF r
<1> QED
  BY <1>2, <1>3, DifferenceRaised DEF BooksInv, BooksTyped

\* Somebody resolves an exception: its own record is matched for that reason.
LEMMA ResolveExceptionKeeps ==
  ASSUME BooksInv, NEW x \in DOMAIN exceptions, ResolveException(x)
  PROVE  BooksInv'
<1> DEFINE k == exceptions[x].record
           e == [exceptions[x] EXCEPT !.resolved = TRUE]
           r == [records[k] EXCEPT !.status = "matched"]
<1>1. exceptions[x] \in ExceptionRow /\ k \in DOMAIN records
  BY ElementOfSeq, LenProperties DEF BooksInv, BooksTyped, BooksLinked
<1>2. records[k] \in Record
  BY <1>1, ElementOfSeq, LenProperties DEF BooksInv, BooksTyped
<1>3. e \in ExceptionRow /\ e.record = k /\ e.resolved
  BY <1>1 DEF ExceptionRow
<1>4. r \in Record /\ r.status = "matched" /\ r.instruction = records[k].instruction
  BY <1>2 DEF Record, RecordStatus
<1>5. /\ exceptions' = [exceptions EXCEPT ![x] = e] /\ records' = [records EXCEPT ![k] = r]
      /\ UNCHANGED <<instructions, requestIndex, instructionIndex, calls>>
  BY DEF ResolveException
<1> HIDE DEF e, r
<1>6. /\ exceptions' \in Seq(ExceptionRow) /\ DOMAIN exceptions' = DOMAIN exceptions
      /\ exceptions'[x] = e
      /\ \A y \in DOMAIN exceptions : y # x => exceptions'[y] = exceptions[y]
  BY <1>3, <1>5, ChangedAt DEF BooksInv, BooksTyped
<1>7. /\ records' \in Seq(Record) /\ DOMAIN records' = DOMAIN records /\ records'[k] = r
      /\ \A j \in DOMAIN records : j # k => records'[j] = records[j]
  BY <1>1, <1>4, <1>5, ChangedAt DEF BooksInv, BooksTyped
<1>8. BooksTyped'
  BY <1>5, <1>6, <1>7 DEF BooksInv, BooksTyped
<1> HIDE DEF k
<1>9. BooksLinked'
  BY <1>1, <1>3, <1>4, <1>5, <1>6, <1>7 DEF BooksInv, BooksLinked
<1>10. ConfirmedWithAmount'
  BY <1>5 DEF BooksInv, ConfirmedWithAmount
<1>11. DifferenceBlocks'
  <2> SUFFICES ASSUME NEW j \in DOMAIN records,
                      records'[j].status \in {"variance_detected", "exception", "unmatched"}
               PROVE  \E y \in DOMAIN exceptions :
                        exceptions'[y].record = j /\ ~exceptions'[y].resolved
    BY <1>6, <1>7 DEF DifferenceBlocks
  <2>1. j # k
    BY <1>4, <1>7
  <2>2. records[j].status \in {"variance_detected", "exception", "unmatched"}
    BY <1>7, <2>1
  <2>3. PICK y \in DOMAIN exceptions : exceptions[y].record = j /\ ~exceptions[y].resolved
    BY <2>2 DEF BooksInv, DifferenceBlocks
  <2>4. y # x
    BY <2>1, <2>3 DEF k
  <2> QED
    BY <1>6, <2>3, <2>4
<1>12. JudgedByTheLast'
  <2> SUFFICES ASSUME NEW j \in DOMAIN instructions, instructionIndex[j] # 0,
                      instructions[j].status = "confirmed", Differs(j)',
                      records'[instructionIndex[j]].status = "matched",
                      \A d \in Call : calls[d].op = "reconcile" => calls[d].instruction # j
               PROVE  \E y \in DOMAIN exceptions :
                        exceptions'[y].record = instructionIndex[j] /\ exceptions'[y].resolved
    BY <1>5, <1>6 DEF JudgedByTheLast
  <2>1. CASE instructionIndex[j] = k
    BY <1>3, <1>6, <2>1
  <2>2. CASE instructionIndex[j] # k
    <3>1. Differs(j) /\ records[instructionIndex[j]].status = "matched"
      BY <1>5, <1>7, <2>2 DEF Differs, BooksInv, BooksLinked
    <3>2. PICK y \in DOMAIN exceptions :
            exceptions[y].record = instructionIndex[j] /\ exceptions[y].resolved
      BY <3>1 DEF BooksInv, JudgedByTheLast
    <3>3. y # x
      BY <2>2, <3>2 DEF k
    <3> QED
      BY <1>6, <3>2, <3>3
  <2> QED
    BY <2>1, <2>2
<1> QED
  BY <1>8, <1>9, <1>10, <1>11, <1>12 DEF BooksInv

\* Every step of every handler keeps the books.
LEMMA BooksStep == BooksInv /\ [SettlementNext]_settlementVars => BooksInv'
<1> SUFFICES ASSUME BooksInv, [SettlementNext]_settlementVars PROVE BooksInv'
  OBVIOUS
<1>1. ASSUME NEW c \in Call, NEW r \in Request,
             \/ ReturnExisting(c, r)
             \/ \E a \in Amount, bank \in BankValidation : CreateInstruction(c, r, a, bank)
      PROVE  BooksInv'
  BY <1>1, ReturnExistingKeeps, CreateInstructionKeeps
<1>2. ASSUME NEW c \in Call,
             \/ LogSent(c) \/ CreateReconciliation(c) \/ ReconcileMissing(c) \/ Reconcile(c)
      PROVE  BooksInv'
  BY <1>2, LogSentKeeps, CreateReconciliationKeeps, ReconcileMissingKeeps, ReconcileKeeps
<1>3. ASSUME NEW c \in Call, NEW i \in DOMAIN instructions,
             (\E a \in Amount : RecordConfirmation(c, i, a)) \/ RecordException(c, i)
      PROVE  BooksInv'
  BY <1>3, RecordConfirmationKeeps, RecordExceptionKeeps
<1>4. CASE \E k \in DOMAIN records : CheckUnmatched(k)
  BY <1>4, CheckUnmatchedKeeps
<1>5. CASE \E x \in DOMAIN exceptions : ResolveException(x)
  BY <1>5, ResolveExceptionKeeps
<1>6. CASE \E d \in Aggregate, key \in Key : DrawEvent(d, key)
  BY <1>6, BooksUnchanged DEF DrawEvent, books
<1>7. CASE UNCHANGED settlementVars
  BY <1>7, BooksUnchanged DEF settlementVars, books
<1> QED
  BY <1>1, <1>2, <1>3, <1>4, <1>5, <1>6, <1>7 DEF SettlementNext

-----------------------------------------------------------------------------
(* The event store: what append writes, and what reading an aggregate back *)
(* therefore finds.                                                        *)

EventInput == [type : {"SETTLEMENT_INSTRUCTION_SENT", "SETTLEMENT_CONFIRMED",
                       "SETTLEMENT_EXCEPTION", "DRAW"},
               about : Nat, aggregate : Aggregate \cup {NoAggregate}, key : Key \cup {NoKey}]

Event == [type : {"SETTLEMENT_INSTRUCTION_SENT", "SETTLEMENT_CONFIRMED",
                  "SETTLEMENT_EXCEPTION", "DRAW"},
          about : Nat, aggregate : Aggregate \cup {"DRAW_REQUEST:"}, key : Key \cup {NoKey},
          chain : Aggregate \cup {"TENANT"}, previous : Nat, hash : Nat]

chainOf(aggregate) == IF aggregate = "DRAW_REQUEST:" THEN "TENANT" ELSE aggregate

\* Event i of a list is chained to the last one before it of its aggregate.
LinkedAt(list, i) ==
  /\ list[i].hash = i
  /\ list[i].chain = chainOf(list[i].aggregate)
  /\ \A j \in 1..(i - 1) :
       list[j].aggregate = list[i].aggregate => list[j].hash <= list[i].previous
  /\ list[i].previous # 0 =>
       \E j \in 1..(i - 1) :
         list[j].aggregate = list[i].aggregate /\ list[j].hash = list[i].previous

EventsLinked(list) == list \in Seq(Event) /\ \A i \in DOMAIN list : LinkedAt(list, i)

EventsInv == EventsLinked(events)

\* Two events are of one chain if and only if they are of one aggregate.
LEMMA ChainsAreAggregates ==
  ASSUME NEW a \in Aggregate \cup {"DRAW_REQUEST:"}, NEW b \in Aggregate \cup {"DRAW_REQUEST:"}
  PROVE  chainOf(a) = chainOf(b) <=> a = b
BY AggregatesAreNamed DEF chainOf

\* append keeps the list linked, whether or not the key was used.
LEMMA AppendLinks ==
  ASSUME NEW list, EventsLinked(list), NEW input \in EventInput
  PROVE  EventsLinked(append(list, input))
<1>1. CASE isDuplicate(list, input)
  BY <1>1 DEF append
<1>2. CASE ~isDuplicate(list, input)
  <2> DEFINE chain == chainLookup(input)
             n == Len(list) + 1
             p == lastHashByChain(list, chain)
             e == [type |-> input.type, about |-> input.about, aggregate |-> stored(input),
                   key |-> input.key, chain |-> chain, previous |-> p, hash |-> n]
             S == {0} \cup {i \in DOMAIN list : list[i].chain = chain}
  <2>1. append(list, input) = Append(list, e)
    BY <1>2 DEF append
  <2>2. list \in Seq(Event) /\ Len(list) \in Nat /\ DOMAIN list = 1..Len(list)
    BY LenProperties DEF EventsLinked
  <2>3. S \subseteq 0..Len(list) /\ 0 \in S
    BY <2>2
  <2>4. p = Max(S)
    BY DEF lastHashByChain
  <2>5. p \in S /\ \A y \in S : p >= y
    <3> HIDE DEF S, p
    <3> QED
      BY <2>2, <2>3, <2>4, MaxIsGreatest
  <2>6. p \in Nat /\ n \in Nat /\ n - 1 = Len(list)
    BY <2>2, <2>3, <2>5
  <2>7. /\ stored(input) \in Aggregate \cup {"DRAW_REQUEST:"}
        /\ chain = chainOf(stored(input)) /\ chain \in Aggregate \cup {"TENANT"}
    BY AggregatesAreNamed DEF EventInput, stored, chainLookup, chainOf
  <2>8. p \in DOMAIN list => list[p].chain = chain
    BY <2>2, <2>5
  <2>9. \A j \in DOMAIN list : list[j].chain = chain => j <= p
    BY <2>2, <2>5
  <2>10. p # 0 => p \in DOMAIN list
    BY <2>5
  <2> HIDE DEF p, n, S, chain
  <2>11. e \in Event
    BY <2>6, <2>7 DEF EventInput, Event
  <2>12. /\ e.hash = n /\ e.chain = chainOf(e.aggregate) /\ e.aggregate = stored(input)
         /\ e.chain = chain /\ e.previous = p
    BY <2>7
  <2> DEFINE t == Append(list, e)
  <2> HIDE DEF e
  <2>13. /\ t \in Seq(Event) /\ DOMAIN t = DOMAIN list \cup {n} /\ t[n] = e
         /\ \A i \in DOMAIN list : t[i] = list[i]
    BY <2>2, <2>11, AppendedAt DEF n
  <2> HIDE DEF t
  <2>14. \A j \in DOMAIN list : list[j] \in Event /\ list[j].hash = j
                                /\ list[j].chain = chainOf(list[j].aggregate)
    BY <2>2, ElementOfSeq DEF EventsLinked, LinkedAt
  <2>15. \A j \in DOMAIN list : list[j].aggregate = e.aggregate <=> list[j].chain = chain
    BY <2>7, <2>12, <2>14, ChainsAreAggregates DEF Event
  <2>16. LinkedAt(t, n)
    <3>1. \A j \in 1..(n - 1) : j \in DOMAIN list /\ t[j] = list[j]
      BY <2>2, <2>6, <2>13
    <3>2. ASSUME NEW j \in 1..(n - 1), t[j].aggregate = t[n].aggregate
          PROVE  t[j].hash <= t[n].previous
      BY <3>1, <3>2, <2>9, <2>12, <2>13, <2>14, <2>15
    <3>3. ASSUME t[n].previous # 0
          PROVE  \E j \in 1..(n - 1) : t[j].aggregate = t[n].aggregate /\ t[j].hash = t[n].previous
      <4>1. p \in DOMAIN list /\ p \in 1..(n - 1)
        BY <3>3, <2>2, <2>6, <2>10, <2>12, <2>13
      <4>2. t[p].aggregate = t[n].aggregate /\ t[p].hash = t[n].previous
        BY <4>1, <2>8, <2>12, <2>13, <2>14, <2>15
      <4> QED
        BY <4>1, <4>2
    <3> QED
      BY <3>2, <3>3, <2>12, <2>13 DEF LinkedAt
  <2>17. ASSUME NEW i \in DOMAIN list PROVE LinkedAt(t, i)
    <3>1. \A j \in 1..(i - 1) : j \in DOMAIN list
      BY <2>2
    <3>2. LinkedAt(list, i) /\ t[i] = list[i] /\ \A j \in 1..(i - 1) : t[j] = list[j]
      BY <3>1, <2>13 DEF EventsLinked
    <3> QED
      BY <3>2 DEF LinkedAt
  <2> QED
    BY <2>1, <2>13, <2>16, <2>17 DEF EventsLinked, t
<1> QED
  BY <1>1, <1>2

\* Only append changes the list, and what it is given is what a caller sends.
LEMMA EventsStep == BooksInv /\ EventsInv /\ [SettlementNext]_settlementVars => EventsInv'
<1> SUFFICES ASSUME BooksInv, EventsInv, [SettlementNext]_settlementVars PROVE EventsInv'
  OBVIOUS
<1>1. ASSUME NEW input \in EventInput, events' = append(events, input)
      PROVE  EventsInv'
  BY <1>1, AppendLinks DEF EventsInv
<1>2. ASSUME events' = events PROVE EventsInv'
  BY <1>2 DEF EventsInv
<1>3. ASSUME NEW type \in {"SETTLEMENT_INSTRUCTION_SENT", "SETTLEMENT_CONFIRMED",
                           "SETTLEMENT_EXCEPTION"}, NEW i \in Nat
      PROVE  Plain(type, i) \in EventInput
  BY DEF Plain, EventInput
<1>4. ASSUME NEW c \in Call, LogSent(c) PROVE EventsInv'
  <2>1. calls[c].instruction \in Nat
    BY DEF BooksInv, BooksTyped, CallState
  <2> QED
    BY <1>1, <1>3, <1>4, <2>1 DEF LogSent
<1>5. ASSUME NEW c \in Call, NEW i \in DOMAIN instructions,
             (\E a \in Amount : RecordConfirmation(c, i, a)) \/ RecordException(c, i)
      PROVE  EventsInv'
  <2>1. i \in Nat
    BY LenProperties DEF BooksInv, BooksTyped
  <2> QED
    BY <1>1, <1>3, <1>5, <2>1 DEF RecordConfirmation, RecordException
<1>6. ASSUME NEW d \in Aggregate, NEW key \in Key, DrawEvent(d, key) PROVE EventsInv'
  <2>1. [type |-> "DRAW", about |-> 0, aggregate |-> d, key |-> key] \in EventInput
    BY DEF EventInput
  <2> QED
    BY <1>1, <1>6, <2>1 DEF DrawEvent
<1>7. ASSUME NEW c \in Call, CreateReconciliation(c) \/ ReconcileMissing(c) \/ Reconcile(c)
      PROVE  EventsInv'
  BY <1>2, <1>7 DEF CreateReconciliation, ReconcileMissing, Reconcile
<1>8. ASSUME NEW c \in Call, NEW r \in Request,
             \/ ReturnExisting(c, r)
             \/ \E a \in Amount, bank \in BankValidation : CreateInstruction(c, r, a, bank)
      PROVE  EventsInv'
  BY <1>2, <1>8 DEF ReturnExisting, CreateInstruction, Enter
<1>9. CASE \E k \in DOMAIN records : CheckUnmatched(k)
  BY <1>2, <1>9 DEF CheckUnmatched
<1>10. CASE \E x \in DOMAIN exceptions : ResolveException(x)
  BY <1>2, <1>10 DEF ResolveException
<1>11. CASE UNCHANGED settlementVars
  BY <1>2, <1>11 DEF settlementVars
<1> QED
  BY <1>4, <1>5, <1>6, <1>7, <1>8, <1>9, <1>10, <1>11 DEF SettlementNext

\* Reading an aggregate back from a linked list gives a chain that verifies:
\* each event's predecessor is the one read before it.
LEMMA TrailVerifies ==
  ASSUME NEW list, EventsLinked(list), NEW a
  PROVE  verifyChain(getByAggregate(list, a))
<1> DEFINE P == {i \in DOMAIN list : list[i].aggregate = a}
           view == getByAggregate(list, a)
           n == Len(view)
<1>1. list \in Seq(Event) /\ Len(list) \in Nat /\ DOMAIN list = 1..Len(list)
  BY LenProperties DEF EventsLinked
<1>2. view = filter(list, P)
  BY DEF getByAggregate
<1>3. view \in Seq(Event) /\ KeptTo(view, list, P, Len(list))
  <2> HIDE DEF P, view
  <2> QED
    BY <1>1, <1>2, FilterKeeps
<1>4. n \in Nat /\ DOMAIN view = 1..n
  <2> HIDE DEF view
  <2> QED
    BY <1>3, LenProperties
<1>5. PICK place \in [1..n -> {p \in P : p \in 1..Len(list)}] :
        /\ \A k \in 1..n : view[k] = list[place[k]]
        /\ \A j, k \in 1..n : j < k => place[j] < place[k]
        /\ \A p \in P : p \in 1..Len(list) => \E k \in 1..n : place[k] = p
  BY <1>3 DEF KeptTo
<1>6. \A p \in P : /\ p \in 1..Len(list) /\ p \in Nat /\ LinkedAt(list, p)
                   /\ list[p].aggregate = a /\ list[p].hash = p /\ list[p].previous \in Nat
  <2>1. \A p \in P : list[p] \in Event
    BY <1>1, ElementOfSeq
  <2> QED
    BY <1>1, <2>1 DEF EventsLinked, LinkedAt, Event
<1>7. \A p \in 1..Len(list) : list[p].hash = p /\ (list[p].aggregate = a => p \in P)
  BY <1>1 DEF EventsLinked, LinkedAt
<1> HIDE DEF P, view, n
<1>8. \A k \in 1..n : /\ place[k] \in P /\ place[k] \in 1..Len(list)
                      /\ view[k].hash = place[k]
                      /\ view[k].previous = list[place[k]].previous
  BY <1>5, <1>6
<1> SUFFICES ASSUME NEW i \in 1..n
             PROVE  view[i].previous = IF i = 1 THEN 0 ELSE view[i - 1].hash
  BY <1>4 DEF verifyChain, view
<1> DEFINE q == place[i]
           prev == list[q].previous
<1>9. q \in P /\ q \in Nat /\ prev \in Nat /\ q \in 1..Len(list)
  BY <1>6, <1>8
<1>10. \A p \in P : p < q => p <= prev
  <2> SUFFICES ASSUME NEW p \in P, p < q PROVE p <= prev
    OBVIOUS
  <2>1. p \in 1..(q - 1) /\ list[p].aggregate = list[q].aggregate /\ list[p].hash = p
    BY <1>6, <1>9
  <2> QED
    BY <1>6, <1>9, <2>1 DEF LinkedAt
<1>11. prev # 0 => prev \in P /\ prev < q
  <2> SUFFICES ASSUME prev # 0 PROVE prev \in P /\ prev < q
    OBVIOUS
  <2>1. PICK j \in 1..(q - 1) : list[j].aggregate = list[q].aggregate /\ list[j].hash = prev
    BY <1>6, <1>9 DEF LinkedAt
  <2>2. j \in 1..Len(list) /\ j < q
    BY <1>1, <1>9
  <2> QED
    BY <1>6, <1>7, <1>9, <2>1, <2>2
<1>12. CASE i = 1
  <2>1. ASSUME prev # 0 PROVE FALSE
    <3>1. PICK k \in 1..n : place[k] = prev
      BY <1>5, <1>6, <1>11, <2>1
    <3>2. k = 1 \/ 1 < k
      BY <1>4
    <3>3. 1 < k => q < prev
      BY <1>5, <1>12, <3>1
    <3> QED
      BY <1>9, <1>11, <1>12, <2>1, <3>1, <3>2, <3>3
  <2> QED
    BY <1>8, <1>12, <2>1
<1>13. CASE i # 1
  <2> DEFINE b == i - 1
             r == place[b]
  <2>1. b \in 1..n /\ b < i /\ \A k \in 1..n : k < i => k = b \/ k < b
    BY <1>4, <1>13
  <2>2. r \in P /\ r < q /\ r \in Nat
    BY <1>5, <1>6, <1>8, <2>1
  <2>3. r <= prev /\ prev # 0
    BY <1>6, <1>9, <1>10, <2>2
  <2>4. PICK k \in 1..n : place[k] = prev
    BY <1>5, <1>6, <1>11, <2>3
  <2>5. k < i
    <3>1. k = i \/ i < k \/ k < i
      BY <1>4
    <3>2. i < k => q < prev
      BY <1>5, <2>4
    <3> QED
      BY <1>9, <1>11, <2>3, <2>4, <3>1, <3>2
  <2>6. k = b \/ prev < r
    BY <1>5, <2>1, <2>4, <2>5
  <2>7. prev = r
    BY <1>9, <2>2, <2>3, <2>4, <2>6
  <2> QED
    BY <1>8, <1>13, <2>1, <2>7
<1> QED
  BY <1>12, <1>13

-----------------------------------------------------------------------------
\* The books of the settlement service satisfy their inductive invariant in
\* every state, however its handlers interleave.
THEOREM BooksInvariant == SettlementSpec => []BooksInv
BY BooksInit, BooksStep, PTL DEF SettlementSpec

\* Releases stay blocked by an unresolved exception of every record that shows
\* a difference (reconcile, checkUnmatched, resolveException).
THEOREM DifferencesBlock == SettlementSpec => []DifferenceBlocks
<1>1. BooksInv => DifferenceBlocks
  BY DEF BooksInv
<1> QED
  BY <1>1, BooksInvariant, PTL

\* Reports of the partner that overlap and overtake each other never leave a
\* difference matched unless somebody resolved an exception of the record.
THEOREM NoDifferenceHidden == SettlementSpec => []NoSilentMatch
<1>1. BooksInv => NoSilentMatch
  BY DEF BooksInv, JudgedByTheLast, NoSilentMatch, Quiet
<1> QED
  BY <1>1, BooksInvariant, PTL
\* Whatever is written between the events of a draw, its own events, read
\* back, are linked from the genesis hash on (append, getByAggregate,
\* verifyChain).
THEOREM TrailsVerify == SettlementSpec => []AggregateTrailsVerify
<1>1. SettlementInit => EventsInv
  BY LenProperties DEF SettlementInit, EventsInv, EventsLinked
<1>2. EventsInv => AggregateTrailsVerify
  BY TrailVerifies DEF EventsInv, AggregateTrailsVerify
<1> QED
  BY <1>1, <1>2, EventsStep, BooksInvariant, PTL DEF SettlementSpec
=============================================================================
