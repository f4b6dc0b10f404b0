------------------------- MODULE PartnerSettlement --------------------------
(***************************************************************************)
(* The settlement service and the reconciliation engine of                 *)
(* backend/settlement, as their routes use them: instructions to a         *)
(* partner, its confirmations and failures, the reconciliation records     *)
(* and the exceptions that block releases.  Everything is in memory, of    *)
(* one tenant.                                                             *)
(*                                                                         *)
(* A handler runs to its next await; calls[c] is what handler c does when  *)
(* it is resumed.  The partner call behind transmitToPartner and the       *)
(* services' own promises are such awaits.                                 *)
(***************************************************************************)
EXTENDS Integers, EventStore

CONSTANTS Request, Amount, Tolerance, Call,
          NoAmount,
          Key,           \* idempotency keys of the draw machine
          MaxRecords, MaxExceptions, MaxEvents

ASSUME FiguresAreNumbers == Amount \subseteq Int /\ Tolerance \in Nat

VARIABLES instructions,     \* the instructions sent, in order
          requestIndex,     \* request -> position of its instruction, 0 without
          records,          \* the reconciliation records, in order
          instructionIndex, \* instruction -> position of its record, 0 without
          exceptions,       \* the reconciliation exceptions, in order
          calls,            \* handlers waiting at an await
          events            \* the event store

settlementVars == <<instructions, requestIndex, records, instructionIndex, exceptions, calls, events>>

Idle == [op |-> "idle", instruction |-> 0]
Await(op, i) == [op |-> op, instruction |-> i]

Diff(a, b) == IF a < b THEN b - a ELSE a - b
Differs(i) == Diff(instructions[i].confirmed, instructions[i].amount) > Tolerance

BankValidation == [accountVerified : BOOLEAN, accountName : BOOLEAN, accountType : BOOLEAN]
validateBankAccount(b) == b.accountVerified /\ b.accountName /\ b.accountType

SettlementInit ==
  /\ instructions = <<>> /\ records = <<>> /\ exceptions = <<>> /\ events = <<>>
  /\ requestIndex = [r \in Request |-> 0]
  /\ instructionIndex = <<>>
  /\ calls = [c \in Call |-> Idle]

-----------------------------------------------------------------------------
(* POST /instruction                                                       *)

\* A request that has its instruction gets that one back; its other figures
\* are not looked at.
ReturnExisting(c, r) ==
  /\ calls[c] = Idle /\ requestIndex[r] # 0
  /\ calls' = [calls EXCEPT ![c] = Await("book", requestIndex[r])]
  /\ UNCHANGED <<instructions, requestIndex, records, instructionIndex, exceptions, events>>

Enter(c, r, a, status) ==
  /\ instructions' = Append(instructions,
       [request |-> r, amount |-> a, status |-> status, confirmed |-> NoAmount])
  /\ instructionIndex' = Append(instructionIndex, 0)
  /\ calls' = [calls EXCEPT ![c] = Await("log", Len(instructions) + 1)]
  /\ UNCHANGED <<records, exceptions, events>>

\* A new instruction is entered and handed to the partner before the await.
CreateInstruction(c, r, a, bank) ==
  /\ calls[c] = Idle /\ requestIndex[r] = 0
  /\ validateBankAccount(bank)
  /\ Enter(c, r, a, "sent")
  /\ requestIndex' = [requestIndex EXCEPT ![r] = Len(instructions) + 1]

\* The partner has the instruction: the event is written.
LogSent(c) ==
  LET i == calls[c].instruction
  IN  /\ calls[c].op = "log" /\ Len(events) < MaxEvents
      /\ events' = append(events, Plain("SETTLEMENT_INSTRUCTION_SENT", i))
      /\ calls' = [calls EXCEPT ![c] = Await("book", i)]
      /\ UNCHANGED <<instructions, requestIndex, records, instructionIndex, exceptions>>

\* The route books a record, also for an instruction that has one.
CreateReconciliation(c) ==
  LET i == calls[c].instruction
  IN  /\ calls[c].op = "book" /\ Len(records) < MaxRecords
      /\ records' = Append(records,
           [instruction |-> i, expected |-> instructions[i].amount,
            confirmed |-> NoAmount, status |-> "pending"])
      /\ instructionIndex' = [instructionIndex EXCEPT ![i] = Len(records) + 1]
      /\ calls' = [calls EXCEPT ![c] = Idle]
      /\ UNCHANGED <<instructions, requestIndex, exceptions, events>>

-----------------------------------------------------------------------------
(* POST /confirm, and failures reported by the partner                     *)

\* A confirmation is recorded whatever the instruction's status.
RecordConfirmation(c, i, a) ==
  /\ calls[c] = Idle /\ Len(events) < MaxEvents
  /\ instructions' = [instructions EXCEPT ![i].status = "confirmed", ![i].confirmed = a]
  /\ events' = append(events, Plain("SETTLEMENT_CONFIRMED", i))
  /\ calls' = [calls EXCEPT ![c] = Await("reconcile", i)]
  /\ UNCHANGED <<requestIndex, records, instructionIndex, exceptions>>

\* So is a failure; its caller reconciles next.
RecordException(c, i) ==
  /\ calls[c] = Idle /\ Len(events) < MaxEvents
  /\ instructions' = [instructions EXCEPT ![i].status = "exception"]
  /\ events' = append(events, Plain("SETTLEMENT_EXCEPTION", i))
  /\ calls' = [calls EXCEPT ![c] = Await("reconcile", i)]
  /\ UNCHANGED <<requestIndex, records, instructionIndex, exceptions>>

createException(k, type) ==
  Append(exceptions, [record |-> k, instruction |-> records[k].instruction,
                      type |-> type, resolved |-> FALSE])

\* Reconciling an instruction that has no record yet throws.
ReconcileMissing(c) ==
  /\ calls[c].op = "reconcile" /\ instructionIndex[calls[c].instruction] = 0
  /\ calls' = [calls EXCEPT ![c] = Idle]
  /\ UNCHANGED <<instructions, requestIndex, records, instructionIndex, exceptions, events>>

\* (a bug) Only a shortfall is a variance.
Judgements_Shortfall(i) ==
  {IF instructions[i].amount - instructions[i].confirmed <= Tolerance
   THEN "matched" ELSE "variance_detected"}

\* The amounts are floating-point numbers: a difference of exactly the
\* tolerance may come out on either side of it.
Judgements(i) ==
  LET d == Diff(instructions[i].confirmed, instructions[i].amount)
  IN  (IF d <= Tolerance THEN {"matched"} ELSE {})
      \cup (IF d >= Tolerance THEN {"variance_detected"} ELSE {})

\* Reconciling reads the instruction as it is now, after the await.
Reconcile(c) ==
  LET i == calls[c].instruction
      k == instructionIndex[i]
      confirmed == instructions[i].status = "confirmed"
      type == IF confirmed THEN "amount_mismatch" ELSE "failed_settlement"
  IN  /\ calls[c].op = "reconcile" /\ k # 0 /\ Len(exceptions) < MaxExceptions
      /\ \E o \in IF confirmed THEN Judgements(i) ELSE {"exception"} :
           /\ records' = [records EXCEPT
                ![k].status = o,
                ![k].confirmed = IF confirmed THEN instructions[i].confirmed ELSE @]
           /\ exceptions' = IF o = "matched" THEN exceptions ELSE createException(k, type)
      /\ calls' = [calls EXCEPT ![c] = Idle]
      /\ UNCHANGED <<instructions, requestIndex, instructionIndex, events>>

-----------------------------------------------------------------------------
(* The scheduled job and the desk                                          *)

\* One turn of checkUnmatched's loop: a record still pending is old enough
\* or not, so any pending record may be taken.
CheckUnmatched(k) ==
  /\ records[k].status = "pending" /\ Len(exceptions) < MaxExceptions
  /\ records' = [records EXCEPT ![k].status = "unmatched"]
  /\ exceptions' = createException(k, "missing_confirmation")
  /\ UNCHANGED <<instructions, requestIndex, instructionIndex, calls, events>>

\* (a bug) The record resolved is the instruction's present one.
ResolveException_Current(x) ==
  /\ exceptions' = [exceptions EXCEPT ![x].resolved = TRUE]
  /\ records' = [records EXCEPT ![instructionIndex[exceptions[x].instruction]].status = "matched"]
  /\ UNCHANGED <<instructions, requestIndex, instructionIndex, calls, events>>

\* Resolving an exception, again too, makes its record matched.
ResolveException(x) ==
  /\ exceptions' = [exceptions EXCEPT ![x].resolved = TRUE]
  /\ records' = [records EXCEPT ![exceptions[x].record].status = "matched"]
  /\ UNCHANGED <<instructions, requestIndex, instructionIndex, calls, events>>

\* The draw machine writes to the same store, naming its draw and a key.
DrawEvent(d, key) ==
  /\ Len(events) < MaxEvents
  /\ events' = append(events, [type |-> "DRAW", about |-> 0, aggregate |-> d, key |-> key])
  /\ UNCHANGED <<instructions, requestIndex, records, instructionIndex, exceptions, calls>>

SettlementNext ==
  \/ \E c \in Call :
       \/ \E r \in Request :
            \/ ReturnExisting(c, r)
            \/ \E a \in Amount, bank \in BankValidation : CreateInstruction(c, r, a, bank)
       \/ LogSent(c) \/ CreateReconciliation(c) \/ ReconcileMissing(c) \/ Reconcile(c)
       \/ \E i \in DOMAIN instructions :
            \/ \E a \in Amount : RecordConfirmation(c, i, a)
            \/ RecordException(c, i)
  \/ \E k \in DOMAIN records : CheckUnmatched(k)
  \/ \E x \in DOMAIN exceptions : ResolveException(x)
  \/ \E d \in Aggregate, key \in Key : DrawEvent(d, key)

SettlementSpec == SettlementInit /\ [][SettlementNext]_settlementVars

-----------------------------------------------------------------------------
(* Properties                                                              *)

Quiet(i) == \A c \in Call : calls[c].instruction # i

\* As long as a record shows a difference, a failure or a missing
\* confirmation, an exception of that very record is unresolved, so releases
\* stay blocked (reconcile, checkUnmatched, resolveException), also when the
\* instruction was booked again or judged again since.
DifferenceBlocks ==
  \A k \in DOMAIN records :
    records[k].status \in {"variance_detected", "exception", "unmatched"} =>
      \E x \in DOMAIN exceptions : exceptions[x].record = k /\ ~exceptions[x].resolved

\* When no handler is at work on an instruction that was confirmed with
\* another amount, its record is not matched unless somebody resolved an
\* exception of it: confirmations and failures that overlap, and are judged
\* after later ones were recorded, never hide a difference (recordConfirmation,
\* then reconcile).
NoSilentMatch ==
  \A i \in DOMAIN instructions :
    LET k == instructionIndex[i]
    IN  (k # 0 /\ Quiet(i) /\ instructions[i].status = "confirmed" /\ Differs(i)
         /\ records[k].status = "matched")
        => \E x \in DOMAIN exceptions : exceptions[x].record = k /\ exceptions[x].resolved

\* The events of one aggregate, read back, verify, while others interleave
\* with them and are chained elsewhere (append, getByAggregate, verifyChain).
AggregateTrailsVerify ==
  \A a \in Aggregate \cup {"DRAW_REQUEST:"} : verifyChain(getByAggregate(events, a))
=============================================================================
