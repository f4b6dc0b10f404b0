------------------------- MODULE DrawTransactions -------------------------
(***************************************************************************)
(* The transactions of DrawService on one draw, statement by statement, on *)
(* top of AuditLedger: what a transaction reads, which locks it waits for, *)
(* which events it appends and when its rows become visible.  Requests are *)
(* retried by clients that got no answer, with the same idempotency key,   *)
(* also while the first attempt is still running.                          *)
(*                                                                         *)
(* The data are reduced to what the order of the statements decides: the   *)
(* status, which documents are frozen, and which requests left which rows. *)
(* DrawWorkflow has the other conditions; they only make a call fail, and  *)
(* a call may fail here at any moment.  verifyEvidence does not touch the  *)
(* draw row and is left out.                                               *)
(***************************************************************************)
EXTENDS AuditLedger, Sequences

CONSTANTS
  Request,       \* client requests: an operation and its idempotency key
  NoRequest,
  Sendings       \* bound: how often each request is sent

Operation == {"create", "upload", "submit", "evaluate", "approve", "instruct", "import"}

DrawState ==
  {"NONE", "DRAFT", "SUBMITTED", "UNDER_REVIEW", "APPROVED", "SETTLEMENT_INSTRUCTED",
   "SETTLEMENT_CONFIRMED", "RECONCILED"}

DrawEventType ==
  {"DRAW_CREATED", "EVIDENCE_UPLOADED", "EVIDENCE_SUPERSEDED", "DRAW_SUBMITTED",
   "DRAW_POLICY_EVALUATED", "DRAW_APPROVED", "DRAW_SETTLEMENT_INSTRUCTED",
   "CSV_BATCH_IMPORTED", "DRAW_RECONCILIATION_BREAK", "DRAW_SETTLEMENT_CONFIRMED",
   "DRAW_RECONCILED"}

\* The state before and after, NONE where the event does not move the draw.
DrawBody == [before : DrawState, after : DrawState]

ASSUME TransactionConstants ==
  /\ DrawEventType \subseteq EventType /\ DrawBody \subseteq Body
  /\ \A r \in Request : r.op \in Operation /\ r.key \in Key
  /\ \A r, q \in Request : r.key = q.key => r = q
  /\ NoRequest \notin Request
  /\ Sendings \in [Request -> Nat]

VARIABLES
  db,        \* the committed rows of the draw
  rowLock,   \* the transaction holding the draw row FOR UPDATE
  call,      \* the request a transaction serves
  stage,     \* how far the service method has come
  seen,      \* the rows a transaction read when it got the draw row
  plan,      \* the events it still has to append
  attempts   \* how often a request was sent

txVars == <<db, rowLock, call, stage, seen, plan, attempts>>
allVars == <<vars, txVars>>

\* docs and the tables of decisions, instructions and confirmations say which
\* request inserted a row.
NoRows == [status |-> "NONE", docs |-> {}, manifest |-> {}, evaluations |-> {},
           decisions |-> {}, instructions |-> {}, confirmations |-> {}]

TransactionsInit ==
  /\ Init
  /\ db = NoRows
  /\ rowLock = NoTx
  /\ call = [t \in Tx |-> NoRequest]
  /\ stage = [t \in Tx |-> "idle"]
  /\ seen = [t \in Tx |-> NoRows]
  /\ plan = [t \in Tx |-> <<>>]
  /\ attempts = [r \in Request |-> 0]

-----------------------------------------------------------------------------
\* Mutant: the connection is returned to the pool with its transaction open.
Forget_KeepsRow(t) ==
  /\ call' = [call EXCEPT ![t] = NoRequest]
  /\ stage' = [stage EXCEPT ![t] = "idle"]
  /\ seen' = [seen EXCEPT ![t] = NoRows]
  /\ plan' = [plan EXCEPT ![t] = <<>>]
  /\ UNCHANGED <<rowLock, attempts>>

\* Every way a transaction ends gives its locks back.
Forget(t) ==
  /\ call' = [call EXCEPT ![t] = NoRequest]
  /\ stage' = [stage EXCEPT ![t] = "idle"]
  /\ seen' = [seen EXCEPT ![t] = NoRows]
  /\ plan' = [plan EXCEPT ![t] = <<>>]
  /\ rowLock' = IF rowLock = t THEN NoTx ELSE rowLock
  /\ UNCHANGED attempts

\* A request arrives, for the first time or again, and BEGINs.
Receive(t, r) ==
  /\ stage[t] = "idle" /\ attempts[r] < Sendings[r]
  /\ Begin(t)
  /\ call' = [call EXCEPT ![t] = r]
  /\ stage' = [stage EXCEPT ![t] = "begun"]
  /\ attempts' = [attempts EXCEPT ![r] = @ + 1]
  /\ UNCHANGED <<db, rowLock, seen, plan>>

\* isReplay, and createDraft's lookup of its own key: any event with this key.
IsReplay(t) == \E e \in rows : e.key = call[t].key

\* Mutant: loadDraw without FOR UPDATE.
RowFree_NoForUpdate(t) == TRUE

\* The draw row is free, or already in the transaction's own hands.
RowFree(t) == rowLock \in {NoTx, t}

\* The answer to a replay is read, by loadDraw where the answer is the draw, and
\* the transaction ends (the import throws BATCH_ALREADY_IMPORTED instead, to
\* the same effect).
AnswerReplay(t) ==
  /\ stage[t] = "begun" /\ IsReplay(t)
  /\ call[t].op \in {"create", "upload", "import"} \/ RowFree(t)
  /\ Commit(t) /\ Forget(t)
  /\ UNCHANGED db

Event(r, type, before, after) ==
  [key |-> r.key, type |-> type, body |-> [before |-> before, after |-> after]]

\* createDraft and the import append an event before they lock a draw row; the
\* other operations go for the row.
NotReplay(t) ==
  /\ stage[t] = "begun" /\ ~IsReplay(t)
  /\ stage' = [stage EXCEPT ![t] = CASE call[t].op = "create" -> "appending"
                                     [] call[t].op = "import" -> "batch"
                                     [] OTHER -> "lookup"]
  /\ plan' = [plan EXCEPT ![t] =
       CASE call[t].op = "create" -> <<Event(call[t], "DRAW_CREATED", "NONE", "DRAFT")>>
         [] call[t].op = "import" -> <<Event(call[t], "CSV_BATCH_IMPORTED", "NONE", "NONE")>>
         [] OTHER -> <<>>]
  /\ UNCHANGED <<vars, db, rowLock, call, seen, attempts>>

\* The state an operation moves the draw to.
Target(op) ==
  CASE op = "submit" -> "SUBMITTED" [] op = "evaluate" -> "UNDER_REVIEW"
    [] op = "approve" -> "APPROVED" [] op = "instruct" -> "SETTLEMENT_INSTRUCTED"

\* Mutant: evaluate appends its event whatever the status is.
Accepts_EvaluateAlways(op, s) ==
  CASE op = "upload" -> s.status = "DRAFT"
    [] op = "submit" -> s.status = "DRAFT" /\ s.docs # {}
    [] op = "approve" -> s.status = "UNDER_REVIEW"
    [] op = "instruct" -> s.status = "APPROVED"
    [] OTHER -> TRUE

\* The states from which an operation proceeds: its own check, or
\* transitionDraw's, both before the event is appended.
Accepts(op, s) ==
  CASE op = "upload" -> s.status = "DRAFT"
    [] op = "submit" -> s.status = "DRAFT" /\ s.docs # {}
    [] op = "evaluate" -> s.status \in {"SUBMITTED", "APPROVED"}
    [] op = "approve" -> s.status = "UNDER_REVIEW"
    [] op = "instruct" -> s.status = "APPROVED"
    [] OTHER -> TRUE

EventFor(op) ==
  CASE op = "submit" -> "DRAW_SUBMITTED" [] op = "evaluate" -> "DRAW_POLICY_EVALUATED"
    [] op = "approve" -> "DRAW_APPROVED" [] op = "instruct" -> "DRAW_SETTLEMENT_INSTRUCTED"

\* The events of an operation that has read s.
Events(r, s) ==
  CASE r.op = "upload" ->
         <<Event(r, IF s.docs = {} THEN "EVIDENCE_UPLOADED" ELSE "EVIDENCE_SUPERSEDED",
                 "NONE", "NONE")>>
    [] r.op = "import" ->
         IF s.confirmations = {} /\ s.status = "SETTLEMENT_INSTRUCTED"
         THEN <<Event(r, "DRAW_SETTLEMENT_CONFIRMED", s.status, "SETTLEMENT_CONFIRMED"),
                Event(r, "DRAW_RECONCILED", "SETTLEMENT_CONFIRMED", "RECONCILED")>>
         ELSE <<Event(r, "DRAW_RECONCILIATION_BREAK", "NONE", "NONE")>>
    [] OTHER -> <<Event(r, EventFor(r.op), s.status, Target(r.op))>>

\* loadDraw: SELECT ... FOR UPDATE waits for the row and returns what is then
\* committed.
LoadDraw(t) ==
  /\ RowFree(t)
  /\ rowLock' = t
  /\ seen' = [seen EXCEPT ![t] = db]

LockRow(t) ==
  /\ stage[t] = "lookup"
  /\ db.status # "NONE"
  /\ LoadDraw(t)
  /\ Accepts(call[t].op, db)
  /\ plan' = [plan EXCEPT ![t] = Events(call[t], db)]
  /\ stage' = [stage EXCEPT ![t] = "appending"]
  /\ UNCHANGED <<vars, db, call, attempts>>

\* The import after its first event: no instruction with this reference is
\* visible, so the row is about a settlement that was never instructed.
NoInstruction(t) ==
  /\ stage[t] = "batch" /\ plan[t] = <<>> /\ pc[t] = "ready"
  /\ db.instructions = {}
  /\ seen' = [seen EXCEPT ![t] = db]
  /\ plan' = [plan EXCEPT ![t] = <<Event(call[t], "DRAW_RECONCILIATION_BREAK", "NONE", "NONE")>>]
  /\ stage' = [stage EXCEPT ![t] = "appending"]
  /\ UNCHANGED <<vars, db, rowLock, call, attempts>>

\* There is one: the import needs the draw row, with FOR UPDATE or, for a
\* duplicate, for the foreign key of the reconciliation record.
LockInstructed(t) ==
  /\ stage[t] = "batch" /\ plan[t] = <<>> /\ pc[t] = "ready"
  /\ db.instructions # {}
  /\ LoadDraw(t)
  /\ plan' = [plan EXCEPT ![t] = Events(call[t], db)]
  /\ stage' = [stage EXCEPT ![t] = "appending"]
  /\ UNCHANGED <<vars, db, call, attempts>>

\* Append the next event of the plan: it is there already, or the chain head
\* is wanted.
AppendNext(t) ==
  /\ stage[t] \in {"batch", "appending"} /\ plan[t] # <<>>
  /\ \/ AppendFound(t, Head(plan[t])) /\ plan' = [plan EXCEPT ![t] = Tail(@)]
     \/ AppendMissing(t, Head(plan[t])) /\ UNCHANGED plan
  /\ UNCHANGED <<db, rowLock, call, stage, seen, attempts>>

TakeHead(t) == LockHead(t) /\ UNCHANGED txVars

WriteEvent(t) ==
  /\ InsertEvent(t)
  /\ plan' = [plan EXCEPT ![t] = Tail(@)]
  /\ UNCHANGED <<db, rowLock, call, stage, seen, attempts>>

EventRefused(t) == InsertRefused(t) /\ Forget(t) /\ UNCHANGED db

\* The rows after the operation, from the rows it read.
RowsAfter(r, s) ==
  CASE r.op = "create" -> [db EXCEPT !.status = "DRAFT"]
    [] r.op = "upload" ->
         [db EXCEPT !.docs = @ \cup {[by |-> r.key, version |-> Cardinality(s.docs) + 1]}]
    [] r.op = "submit" -> [db EXCEPT !.status = "SUBMITTED", !.manifest = s.docs]
    [] r.op = "evaluate" -> [db EXCEPT !.status = "UNDER_REVIEW", !.evaluations = @ \cup {r.key}]
    [] r.op = "approve" -> [db EXCEPT !.status = "APPROVED", !.decisions = @ \cup {r.key}]
    [] r.op = "instruct" ->
         [db EXCEPT !.status = "SETTLEMENT_INSTRUCTED", !.instructions = @ \cup {r.key}]
    [] r.op = "import" ->
         IF s.confirmations # {} THEN db
         ELSE IF s.status = "SETTLEMENT_INSTRUCTED"
              THEN [db EXCEPT !.status = "RECONCILED", !.confirmations = @ \cup {r.key}]
              ELSE IF s.instructions = {} THEN [db EXCEPT !.confirmations = @ \cup {r.key}]
                   ELSE db

\* saveDraw's WHERE status = before, and the unique indexes on the draw's key,
\* the manifest, the decision's key, and the live instruction.
WriteAccepted(r, s) ==
  CASE r.op = "create" -> db.status = "NONE"
    [] r.op = "upload" -> TRUE
    [] r.op = "submit" -> db.status = s.status /\ db.manifest = {}
    [] r.op = "approve" -> db.status = s.status /\ r.key \notin db.decisions
    [] r.op = "instruct" -> db.status = s.status /\ db.instructions = {}
    [] r.op = "import" -> s.status = "SETTLEMENT_INSTRUCTED" => db.status = s.status
    [] OTHER -> db.status = s.status

\* The statements after the events and COMMIT: nobody sees the one without the
\* other.
WriteRows(t) ==
  /\ stage[t] = "appending" /\ plan[t] = <<>>
  /\ WriteAccepted(call[t], seen[t])
  /\ db' = RowsAfter(call[t], seen[t])
  /\ Commit(t) /\ Forget(t)

\* Mutant: the rows are written outside the transaction.
Fail_RowsStay(t) ==
  /\ stage[t] # "idle"
  /\ Rollback(t) /\ Forget(t)
  /\ db' = IF stage[t] = "appending" /\ plan[t] = <<>> THEN RowsAfter(call[t], seen[t])
           ELSE db

\* Anything may fail before COMMIT: a check throws, a constraint or a trigger
\* refuses a row, the connection or the process is lost.
Fail(t) ==
  /\ stage[t] # "idle"
  /\ Rollback(t) /\ Forget(t)
  /\ UNCHANGED db

Step(t) ==
  \/ AnswerReplay(t)
  \/ NotReplay(t)
  \/ LockRow(t)
  \/ NoInstruction(t)
  \/ LockInstructed(t)
  \/ AppendNext(t)
  \/ TakeHead(t)
  \/ WriteEvent(t)
  \/ EventRefused(t)
  \/ WriteRows(t)

TransactionsNext ==
  \E t \in Tx : (\E r \in Request : Receive(t, r)) \/ Step(t) \/ Fail(t)

TransactionsSpec == TransactionsInit /\ [][TransactionsNext]_allVars

\* A call whose check or write is refused.
Refused(t) ==
  \/ stage[t] = "lookup" /\ RowFree(t) /\ (db.status = "NONE" \/ ~Accepts(call[t].op, db))
  \/ stage[t] = "appending" /\ plan[t] = <<>> /\ ~WriteAccepted(call[t], seen[t])

\* Steps that wait for a row.
Acquire(t) ==
  AnswerReplay(t) \/ LockRow(t) \/ LockInstructed(t) \/ TakeHead(t) \/ (Refused(t) /\ Fail(t))

\* Steps the service takes as soon as it is there.
Proceed(t) ==
  \/ NotReplay(t) \/ NoInstruction(t) \/ AppendNext(t)
  \/ WriteEvent(t) \/ EventRefused(t) \/ WriteRows(t)

\* The service awaits every statement it sends, and Postgres serves the waiters
\* of a row in turn: strong fairness for what waits.  A client need not send,
\* and nothing need fail.
TransactionsFairness == \A t \in Tx : SF_allVars(Acquire(t)) /\ WF_allVars(Proceed(t))

FairTransactions == TransactionsSpec /\ TransactionsFairness

-----------------------------------------------------------------------------
(***************************************************************************)
(* Properties.                                                             *)
(***************************************************************************)

WaitsForHead(t) == pc[t] = "miss" /\ lock \notin {NoTx, t}

WaitsForRow(t) ==
  /\ rowLock \notin {NoTx, t}
  /\ \/ stage[t] = "lookup"
     \/ stage[t] = "batch" /\ plan[t] = <<>> /\ pc[t] = "ready" /\ db.instructions # {}

\* The import takes the chain head and then the draw row, every other operation
\* the draw row and then the head, and yet they never wait for each other:
\* once an instruction exists, the status check throws out every operation
\* that holds the row before it asks for the head.  It holds where an import is
\* not sent again while it may be running: a second attempt that finds its batch
\* event goes on without the head, and may then want it with the row in hand.
NoWaitCycle ==
  ~ \E t, u \in Tx :
      WaitsForHead(t) /\ lock = u /\ WaitsForRow(u) /\ rowLock = t

\* The manifest frozen at submit holds every document of the draw: an upload
\* that runs at the same time is in it or is refused.
FrozenManifestComplete == db.status \notin {"NONE", "DRAFT"} => db.manifest = db.docs

\* Keys of the committed events of one type.
KeysOf(types) == {e.key : e \in {x \in rows : x.type \in types}}

\* Rows and audit events come in pairs, through failures and retries at any
\* point: no row without its event, no event whose rows were lost.
RowsMatchEvents ==
  /\ {x.by : x \in db.docs} = KeysOf({"EVIDENCE_UPLOADED", "EVIDENCE_SUPERSEDED"})
  /\ db.evaluations = KeysOf({"DRAW_POLICY_EVALUATED"})
  /\ db.decisions = KeysOf({"DRAW_APPROVED"})
  /\ db.instructions = KeysOf({"DRAW_SETTLEMENT_INSTRUCTED"})
  /\ db.manifest # {} <=> KeysOf({"DRAW_SUBMITTED"}) # {}
  /\ db.status = "RECONCILED" <=> KeysOf({"DRAW_RECONCILED"}) # {}

\* The committed events that moved the draw.
Moves == {e \in rows : e.body.after # "NONE"}

LastState ==
  IF Moves = {} THEN "NONE"
  ELSE (CHOOSE e \in Moves : \A f \in Moves : f.seq <= e.seq).body.after

\* The auditor's replay of the architecture document: each state_after is the
\* next state_before and the row's status is the last state_after.
StatusMatchesTrail ==
  /\ db.status = LastState
  /\ \A e, f \in Moves :
       (e.seq < f.seq /\ ~ \E g \in Moves : e.seq < g.seq /\ g.seq < f.seq) =>
         e.body.after = f.body.before

\* Every call is answered: nothing it waits for is held for ever.
CallAnswered == \A t \in Tx : stage[t] # "idle" ~> stage[t] = "idle"
=============================================================================
