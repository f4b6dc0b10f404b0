# A verification of the DIBS Trust Capital Network

TLA+ modules for the parts of the repository that keep money and evidence
straight, TLC runs on small instances of them, and TLAPS proofs for instances of
any size: of the audit ledger, the draw workflow, the confirmation import, the
partner settlement and its event store, evidence gating, exceptions and waivers,
holds, covenants, the policy loan and the vaults. Paths are relative to the
repository root; `PROJECT.json` maps every definition to the lines it models.

## 1. The system

DIBS is a control plane: it records, decides and reconciles, and never moves
money itself. A *draw* is a borrower's request for part of a loan. It collects
evidence, is evaluated against a policy pack, approved by people who did not ask
for it, instructed to a settlement partner by somebody else again, and
reconciled against what the partner later says. Every step leaves an event in a
hash-chained ledger.

| part | state | operations | talks to |
|---|---|---|---|
| draw workflow: `backend/workflow/draw-service.ts`, `draw-request.ts`, `policy.ts`, `migrations/0001` | `draw_request`, evidence, manifest, evaluations, decisions, instructions | createDraft, uploadEvidence, verifyEvidence, submit, evaluate, approve, instruct | ledger, in the same transaction |
| confirmation import: `draw-service.ts`, `migrations/0004` | staged batch, confirmations, reconciliation records | stageCsvFirstEntry, confirmCsvSecondEntry, importCsvConfirmations | draw rows, ledger |
| audit ledger: `backend/audit/pg-event-store.ts`, `migrations/0002` | `audit_event`, `audit_chain_head` | append, listPage, verifyChain | called by everything above |
| tenant transactions: `backend/api/db.ts` | the connection pool | withTenantTx, requireRole | Postgres, READ COMMITTED |
| vaults: `contracts/vault/*` | shares, reserve, preservation mode, queue, timelock | deposit, withdraw, seed, trigger, lift, recapitalise | each other on chain |
| partner settlement: `backend/settlement/*` | instructions, reconciliation records, exceptions, in maps | createInstruction, recordConfirmation, recordException, reconcile, checkUnmatched, resolveException | in-memory event store |
| in-memory event store: `backend/audit/event-store.ts` | a list of events, chained per aggregate | append, getByAggregate, verifyChain | called by the in-memory services |
| evidence: `backend/evidence/*`, `shared/validation` | the documents of each project | submitEvidence, validateEvidence, evaluateEvidenceGating | event store |
| exceptions and waivers: `backend/workflow/exception-waiver.ts` | exceptions, waivers | create, escalate, request, approve, deny, follow-up conditions | event store |
| collateral holds: `backend/covenant/collateral-hold.ts` | holds | createHold, evaluateAndCreateHolds, release, escalate, convert, isDrawBlocked | event store |
| covenants: `backend/covenant/covenant-engine.ts` | the evaluations of `POST /evaluate` | evaluateCovenant | |
| policy loan: `backend/adapters/policy-loan-service.ts` | a record per policy, alerts | recordDraw, accrueInterest, recordRepayment, premiums, adjustDividend, importCarrierData | its router writes to the event store |
| policy loan contracts: `contracts/policy-loan/*` | loans, deployments | recordDraw, repay, freeze, lapse | risk engine |
| routing adapters, restricted token, risk engine | positions, allow lists, limits | allocate, transfer, assess | external protocols |
| QUBO laboratory, reporting, API wiring, frontend, shared formulas | none of their own that others rely on | | |

What is hard in it:

- **Concurrency.** Each request is one Postgres transaction at READ COMMITTED.
  What a statement read may be out of date at the next one. Two locks matter:
  the draw row and the tenant's chain head. The import takes them in the
  opposite order from everybody else.
- **Retries.** Clients repeat requests with the same idempotency key, also while
  the first attempt is still running. The key is looked up *before* the wait for
  the lock.
- **Failure.** A transaction may die between its event and its rows.
- **Handlers that overlap.** The in-memory services run in one JavaScript thread,
  but their methods are `async`: a handler runs to its next `await` and another
  may run before it resumes. What it read before is then out of date.
- **Long sequences.** An approved draw can be taken back into review and
  approved again, for another amount, by others, under changed roles and holds.
- **Partners.** Confirmations come twice, early, late, wrong.
- **Vaults.** Two vaults and a manager change one another's state, each call
  succeeds or reverts as a whole, prices are integer divisions, and anybody can
  trigger, donate or queue in between.

What makes each part correct is stated as the properties of section 4; the
`hazards` of `PROJECT.json` list where it could go wrong, line by line.

## 2. Plan

1. *Done.* Audit ledger: `AuditLedger`, its abstract specification
   `AppendOnlyLog`, its readers `AuditReaders`, proofs.
2. *Done.* Draw workflow as atomic operations (`DrawWorkflow`), the confirmation
   import on top of it (`SettlementImport`, abstract `PaymentOnce`), and the same
   operations statement by statement over the ledger (`DrawTransactions`).
3. *Done.* Proofs about `DrawWorkflow`: types, segregation of duties, approvals
   bound to what they approved, frozen evidence, instructions.
4. *Done but for the timelock.* Vaults and preservation manager
   (`CapitalPreservation`), with proofs of the accounting. Left: the timelock of
   the setters and what it delays, rewiring.
5. *Done.* The in-memory services: `PartnerSettlement` over `EventStore`,
   `EvidenceGate`, `ExceptionWaivers`, `CollateralHolds`, `Covenants`.
6. *Done.* The policy loan of the service, `PolicyLoan`. Left: `PolicyLoanVault.sol`,
   whose loan is another record of the same policy that nothing reconciles with it.
7. *Done.* Proofs about the import, with its refinement of `PaymentOnce`
   (`SettlementImportProofs`), about the partner settlement and its store
   (`PartnerSettlementProofs`), the evidence (`EvidenceGateProofs`), the vaults
   (`CapitalPreservationProofs`) and the controls around a draw (`ControlsProofs`).
8. *Done.* Proofs about the ledger's readers and about the draw service's
   transactions on the ledger, in `AuditLedgerProofs`.

## 3. The modules

**`AuditLedger`** is `PgEventStore.append` inside `withTenantTx`. `rows` and
`head` are the committed tables; `mine[t]` and `view[t]` are what transaction `t`
has inserted and the head it would write; `lock` is the row lock that
`SELECT ... FOR UPDATE` takes. One action per statement that another transaction
can observe or block: `Begin`, `AppendFound` and `AppendMissing` (the lookup by
key), `LockHead`, `InsertEvent`, `InsertRefused` (a unique index), `Commit`,
`Rollback`. A hash is a value no other row has, since the hashed envelope holds a
random id. One tenant is modelled: row level security separates the others.
That events are never updated or deleted is the triggers' doing and, here, the
absence of such an action.

**`AuditReaders`** adds `verifyChain`, whose two SELECTs are two actions, and a
client that pages through `GET /events`. `ORDER BY chain_seq` is `InChainOrder`: the
row in place *n* is the one that *n* rows do not follow.

**`DrawWorkflow`** has one action per service operation, with the CHECKs and
triggers of `migrations/0001` (`RowChecks`, `LocksKept`, `InsertDecision`,
`InsertInstruction`). An operation that throws changes nothing, so a condition
that makes it throw is a guard. `approve` is two actions, one for each outcome
(`RecordApproval`, `Approve`). What administrators maintain (roles, holds, payee
verification, screening, the deal's policy version, the date) is `world`, which
the external action `Administer` changes between operations. Roles are
tenant-wide. The binding hash is the record it hashes. The budget, retainage and
covenant figures that the approver types in are left out: they only make a call
fail.

**`SettlementImport`** extends it with staging and the import. The import works
on a copy of the tables, a row per step, and publishes it at `ImportCommit`;
`ImportAbort` is a refused row or a lost connection. It holds the chain head from
its first event, and every other operation needs the head before it commits, so
nothing else commits meanwhile. A row for a draw that is no longer waiting and a
row for a confirmed reference are one case, `Duplicate`: the code records the
same exception.

**`DrawTransactions`** takes the operations apart on one draw: look for the key,
wait for the row, append events through `AuditLedger`'s actions, write the rows
and commit, with failure possible at every point and each request sent as often
as `Sendings` says. Data conditions are dropped (a call may fail at any time
anyway); what is kept is the status, the documents, and which request wrote which
row. `TransactionConstants` ties it to the ledger: the event types and states of a
draw are among those the ledger takes, and a key belongs to one request.
`verifyEvidence`, which touches neither the draw row nor its status, and the
recording of an approval that is not the last are left out. The import is of one
exactly matching row, and its events share the batch key.

**`CapitalPreservation`** is the two vaults and the manager, wired as
`docs/DEPLOYMENT.md` wires them; an action is an external call, and a call that
reverts is no step. `assets` is the token balance of a vault (its `totalAssets`),
of which `reserve` is only a figure; `shares` and `supply` are its ERC-20. Prices
are the ERC-4626 divisions with the virtual offset, rounded as OpenZeppelin
rounds them; that base and the asset token, a standard one that reverts on
failure, are external. The manager's calls are single actions made of what the
vaults do: `CheckAndTrigger` has the guards of all three calls it makes, and
`LiftPreservation` processes the whole queue. The loop of `processQueue` is
`ProcessBatch`, over the first pending requests at once: requests only take, so
they pass one after the other iff they pass together. Callers choose the assets
and the shares of a queued request independently, as the code lets them. Calls of
`triggerPreservationMode` and `liftPreservationMode` that do not come from the
manager are `TriggerDirectly` and `LiftDirectly`; their ratio is an argument.
Counters that nothing reads, the redemption window that nothing applies, and the
timelock, whose setters can be called directly, are left out.

**`EventStore`** is the in-memory store as operators on the list of its events.
`append` has no `await`, so it is part of its caller's step. The chain an event is
hashed into and the aggregate written on it are different fields (`chainLookup`,
`stored`): an event without an aggregate joins the tenant's chain and is stored
under the draw request with no id.

**`PartnerSettlement`** is `SettlementService` and `ReconciliationEngine` as their
routes chain them. `calls[c]` is what handler `c` does at its next resumption: log
the instruction, book its record, reconcile. `RecordConfirmation` accepts any
status, as the code does, and `Reconcile` reads the instruction as it is after the
await. Amounts are floating point: a difference of exactly the tolerance may fall
on either side (`Judgements`). `CheckUnmatched` is one turn of its loop, for any
pending record (whether 72 hours have passed is a choice). `DrawEvent` stands for
the other users of the same store.

**`EvidenceGate`** has the submission as three actions (`SubmitRead`, `SubmitStore`,
`SubmitLog`) and the re-validation as three (`ValidateFind`, `ValidateRead`,
`ValidateStore`), cut at their awaits; `calls[c]` holds the snapshots. The pipeline and
the gate are operators. Field checks that look at the document alone are the set
`defects` of those that fail; two members are enough, since only whether the set is
empty counts. `told` is the last event about each document.

**`Lists`** has the `filter` of both: a recursive function of a list and a set of
positions, since `SelectSeq` takes an operator, which leaves the provers nothing to
reason with. For the same reason `CapitalPreservation` sums shares with
`SumFunctionOnSet` and not `MapThenSumSet`.

**`ExceptionWaivers`**, **`CollateralHolds`**, **`Covenants`** and **`PolicyLoan`** are
one component each. An operation that finishes before its first await is one
action. Only holds are placed in several steps: `createHold` waits at each event,
and an evaluation creates what the holds it saw at the beginning lack
(`placing[c]`). A follow-up condition of a waiver is at most one. Covenant values and
loan figures are whole numbers (percent, units); interest is the rate for one tick
of the clock. `unseen` in `PolicyLoan` is a history variable: the figures came from
outside and the lapse condition was not evaluated since.

**`AppendOnlyLog`** and **`PaymentOnce`** are the abstract specifications.

## 4. What the runs check

| run | instance | shows |
|---|---|---|
| `ledger` | 3 connections, 2 appends each, one key and the empty key, one event type; a verifier and a paging client, pages of 2 | `ChainIntact`, `KeySpentOnce`, `OnlyDuplicatesRefused`; the ledger implements `AppendOnlyLog`; paging skips and repeats nothing, and a bad verdict of `verifyChain` means only that the head moved between its two statements (`VerdictExplained`) |
| `workflow` | 1 draw, 5 people and a service account, 2 policy packs, 4 administrative worlds | segregation of duties, approvals backed by enough people for exactly this binding, evidence frozen, instructions as approved |
| `settlement` | 1 draw, 2 references, 2 batches, 10 files of up to 2 rows, 2 days | one confirmation per reference and draw, reconciled iff exact, files imported whole; implements `PaymentOnce` |
| `transactions` | 3 connections, 9 requests sent once | no lock cycle; the row's status is the last event's |
| `retries` | 2 connections, 7 requests, most of them sent twice | events and rows come in pairs; the manifest misses no upload |
| `answered` | 2 connections, fair | every call ends |
| `preservation` | the administrator and one holder, both vaults, 2 queued requests, 2 points in time | the seed stays locked; nothing leaves a preserved vault; requests are served in order and settled by the manager's lift, after which the junior ratio still holds; no deposit or withdrawal lowers the share price |
| `partner` | 1 payment, 2 handlers, confirmations right, a cent off and wrong, 2 records, 2 exceptions, 4 events | a difference, failure or missing confirmation blocks releases until somebody resolves that record's exception (`DifferenceBlocks`), and overlapping confirmations never end in a match of a wrong amount (`NoSilentMatch`); one aggregate's events verify though chains interleave |
| `evidence` | 5 kinds of document, 3 stored, 1 submitter, 2 re-validations, 2 days | what a passing gate implies though it never looks for it: a live waiver behind every invoice, no duplicate invoices; it never re-opens over a dead document; flags and expiry survive re-validation, and the last event tells the status |
| `controls` | per behaviour one of: 2 exceptions and 2 waivers; 3 holds and 2 callers; 2 evaluations at values around every boundary; 1 policy | the latest decision on an exception stands and was authorised; every finding of an evaluation is held, and only a release unblocks a draw; covenant grades are in order; draws stay within every limit, lapses are noticed and stay |

Two runs show that a statement of the docs does not hold of the code (`findings`):
`retry_status` (a delayed retry of `evaluate` re-opens an approved draw and no event
says so) and `preservation_shortfall` (the manager lifts preservation mode although
the reserve shortfall it recorded was never filled).

Other places where code and text disagree, met while modelling. The models do what
the code does, and no property states the text:

- A key that is committed while its retry waits for the head is refused by the
  unique index, not answered with the original event (`docs/adr/0003` line 22,
  `pg-event-store.ts:85`); an overlapping retry of `uploadEvidence` stores the
  document twice (`draw-service.ts:292`).
- A confirmation that arrives before the instruction uses up its reference, and the
  genuine one is a duplicate (`draw-service.ts:720`).
- A repeated `POST /instruction` books a second record for the payment, and
  `checkUnmatched` can report the first as unconfirmed (`settlement.routes.ts:38`,
  `reconciliation-engine.ts:156`). The `duplicate_settlement` exception that
  `BUILD-STEPS.md:366` lists is never raised.
- Denying a waiver, requesting one, escalating a hold and converting it change a
  status without an event ("No status change without an event", `docs/adr/0003`).
- Denying a waiver denies an exception that another approved waiver had resolved.
  The approve route makes up the signed hash that the service demands
  (`api/index.ts:199`).
- The check against duplicate holds sees neither converted holds nor the other
  flags of its own evaluation, so three kinds of lien make three holds
  (`collateral-hold.ts:389`).
- An accrual to an earlier date takes that date over, so the next one charges the
  interval again; a refused draw keeps the accrual it made.

**Bounds.** Three connections are enough for a holder, a waiter and one that
commits in between; the proofs cover any number. Two appends per transaction give
an append under a lock already held. Sequence lengths are bounded by `MaxAppends`
and `MaxEvents`, in the guards of `AppendFound` and `AppendMissing`; there
are more hashes than a run can use. One draw suffices because operations touch one
draw and share only the ledger, which has its own model; amounts 0 to 2 give an
invalid amount and two valid ones, so that an approval can be replaced by another
at a different amount. Two files of two rows give duplicates within and across
files. In the vaults, 2 virtual shares instead of 10^6 make divisions with a
remainder occur at balances of 0 to 2; `MaxAssets`, `MaxTime`, `MaxQueue` and
`MaxAdmin` (two administrative calls per behaviour, besides seeding and lifting)
bound the rest. `CHECK_DEADLOCK FALSE` appears only where the bounds end a
behaviour: in the `DrawTransactions` configurations, where all the requests that
`Sendings` allows have been answered, in those of `CapitalPreservation`, and in
`partner`, `evidence` and `controls`, where lists are full and no handler is left.

In `partner`, two handlers are one that waits and one that changes what it will
read; a second record needs a repeated instruction, and two exceptions let one be
resolved while the other stands. In `evidence`, three documents are a waiver, an
invoice and one that spoils either; the document kinds cover a waiver that expires,
two invoices of one number, a waiver of another milestone, and a repeated hash.
`MaxDay` 1 is enough to pass an expiry and an age limit of 0. There is one submitter:
`NoDuplicateInvoicePasses` is about submissions one after the other and says so;
two that overlap do not see each other. In `controls`, two waivers on one exception
can be decided both ways in both orders; three holds fill one evaluation and leave
another caller room; thresholds and tolerances put each boundary strictly between
two measured values or on one; loan figures up to 20 reach the soft threshold, the
ceiling and the cash value by draws and by interest, and three missed premiums are
what freezes. `MCControls` runs one part per behaviour because the parts share no
variable.

**Fairness.** In `DrawTransactions` every step that waits for a row is strongly
fair: Postgres queues the waiters of a row lock. The other steps of a
transaction are weakly fair, since the service awaits each statement and
`withTenantTx` always ends the transaction. No client is assumed to send
anything, and nothing is assumed to fail.

## 5. What is proved

`AuditLedgerProofs`, for any set of connections, keys, event types, bodies and
hashes, from `LedgerConstants` (the special values are not members of the sets,
the bounds are positive):

- `LedgerTyped`, `ChainAlwaysIntact`, `KeyAlwaysSpentOnce`,
  `HeadSerialisesAppends`: the invariants of run `ledger`;
- `LedgerRefinesLog`: the concurrent transactions implement the append-only log.

`ChainIntact` speaks of committed rows and is not inductive, because `Commit`
publishes what was prepared earlier. `LedgerInv` adds: only the holder of the head
has uncommitted rows (`PendingUnderLock`), the holder is an active transaction
(`LockedHolds`, `HolderActive`), what it would commit is a chain that ends at the
head it would write (`ViewChained`), and hashes and keys are distinct among the
rows anyone sees. The crux is `InsertEvent`: the new row extends the holder's
chain (`ChainGrows`), and the slot it takes is free (`NextSlotFree`), so an insert
is only ever refused for its key.

The same module continues with what reads and writes the ledger:

- `PagingIsComplete` and `VerdictsExplained`, for any page size; `ReadersAreLedger`:
  reading changes nothing, so the ledger's theorems hold beside it.
- `TransactionsAreLedger`, from `TransactionConstants`: whatever `DrawService` does,
  the ledger takes its own steps only, so those theorems hold there too;
  `TransactionsRefineLog` is the refinement among them.
- `RowsAlwaysMatchEvents` and `ManifestStaysComplete`, the properties of run `retries`,
  for any requests, connections and numbers of retries, overlapping ones too.
- `NobodyWaitsInACircle` and `TrailLeadsToStatus`, the properties of run
  `transactions`, from `[]InTurn("import")` and `[]InTurn("evaluate")`: no two attempts
  of one import, or of one evaluation, are under way together. Everything else may
  be retried at any time.

Commits become visible in the order of their numbers, so what a client or
`verifyChain` holds is the beginning of what is committed (`ReadersInv`).

`DrawInv` answers what a transaction may publish when it commits, long after it read
what it acts on. `Controlled` ties a service method's place to its locks.
`Progress` follows its plan: each event dealt with is visible, inserted by the
transaction itself or found, and whatever it inserted is on the plan. `Held`: as long
as it holds the draw row, what it read of it is still there, because writers of
those rows hold it too. `MatchInv` has the pairs of rows and event keys, and
one event only of the types a draw can have once; a write adds a row and its event
together. The steps go by who may change what: a step of one transaction leaves the
others all but the rows they can see (`OtherKept`), and `StepKinds` sorts the steps
into those that end a transaction and those that publish nothing.

`ImportsInv` and `TrailInv` add that the key of an operation past its `isReplay`
is still new (`StillNew`), which is what being sent in turn buys. An import past its
batch event then holds the head (`HoldsHead`), and whoever waits for the head with
the row in hand found no instruction yet, so no import can be waiting for that row.
For the trail, `Linked` says that every move leads on from the one before. Neither
hypothesis can be dropped. The retry of an evaluation can re-open an approved draw
(run `retry_status`). A retried import that finds the batch event of its first
attempt goes on without the head, and may wait for it with the instruction in hand
while another import waits the other way round; Postgres would abort one of the two.
Requests sent once are sent in turn (`SentOnceIsInTurn`), so the run is an instance.

`DrawWorkflowProofs`, for any draws, people, accounts, document types, packs and
administrative states, from `WorkflowConstants` (service accounts are subjects,
the special values are not members of the sets, packs and worlds are typed, a
payee account and a counterparty exist):

- `DutiesSegregated`, `ApprovalsBacked`, `EvidenceFrozen`, `InstructionsApproved`: the
  invariants of run `workflow`; and `WorkflowTyped`, its types.

The properties are inductive only together, in `WorkflowInv`. That nobody who
instructed a draw approves it later needs `InstructionIsApproved` (an instructed
draw is never under review again); that an instruction carries what was approved
needs `ApprovedIsBacked`; and that its evidence is complete and verified needs
`DecidedIsEvidenced`, which holds because uploads stop at submission and checks
are never taken back. `DecisionsOnDraws` keeps `createDraft` away from draws
somebody decided on. The edges of the transition table enter through one lemma,
`Edges`. There is one lemma per operation, with a step per conjunct.

`SettlementImportProofs`, for any files, batches and people besides, from
`ImportConstants`:

- `ReferencesConfirmedOnce`, `DrawsReconciledExactly`, `FilesAccounted`: the
  invariants of run `settlement`; `ImportsKeepWorkflow`: those of the workflow hold
  with imports going on;
- `SettlementRefinesPaymentOnce`: draws, instructions and confirmations together
  behave as `PaymentOnce`.

`ReconciledExactly` speaks of committed tables, which one step replaces by copies
made over many. So what has to hold of the tables is an operator of tables
(`PaymentsKept`) that is shown to hold of the copies after every row (`JobSound`):
no reference or draw is instructed or confirmed twice, and the status of a draw
follows from its confirmation (`PaymentsJudged`). `Progress` says that the copies
differ from the tables only by payments judged; it needs that nothing else commits
while an import runs, and is what makes `ImportCommit` a step of the workflow's
invariant and of `PaymentOnce`. Each row's argument goes by the branches of
`importRows` (no instruction, duplicate, exact, different).

`PartnerSettlementProofs`, for any requests, handlers, records and events, from
`FiguresAreNumbers` and `AggregatesAreNamed`:

- `DifferencesBlock`, `NoDifferenceHidden`, `TrailsVerify`: the invariants of run
  `partner`.

`NoSilentMatch` excuses an instruction somebody works on and is not inductive. The
invariant behind it is `JudgedByTheLast`: a record matched against another amount
has a handler that has still to reconcile it, or a resolved exception. It is kept
because a handler judges the instruction as it is when it resumes, not as it was.
The other conjuncts say that maps, records and handlers point at each other. For
`AggregateTrailsVerify` the lemmas about `filter` say that the events of an
aggregate, in their order, are those `verifyChain` walks, also when an aggregate's
chain continues the tenant's.

`EvidenceGateProofs`, for any documents, callers, days and age limits, from
`DocumentsTyped`, `PolicyTyped` and `CallersFinite`:

- `InvoicesHaveWaivers`, `NoDuplicatePasses`, `StatusesTold`: the invariants of run
  `evidence`; `FlagsAreFinal` and `GateStaysClosed`: its action properties.

What a caller has read is out of date when it acts. `EvidenceInv` says what stays
true of it: a document keeps the fields it was submitted with (`Same`) and the list
only grows, a copy that is expired is past its date, and a document that its
submission flagged is validated neither in the list nor in any copy
(`NeverValid`), so no re-validation brings it back. `NoDuplicateInvoicePasses` needs
`InTurnInv` as well, which holds for a single submitter only: what it read is
everything there is (`AllSeen`). The run and the theorem both state the property
for that case.

`ControlsProofs`:

- `LatestDecisionAlwaysStands` (waivers; any numbers of exceptions and waivers).
  Decisions are numbered, and `DecidedInOrder` makes a new one the latest.
- `FindingsAreHeld` and `ReleaseAloneUnblocks` (holds; any draws, callers and
  flags), from `HoldsInvariant`: of what an evaluation found, all but what it has
  still to place has a hold (`HeldFor`), whatever others place and release in
  between; and a release is told of released holds only (`ReleasesTold`).
- `EvaluationsGraded` and `GradesAlwaysInOrder` (covenants; any natural thresholds
  and tolerances, any integer values). A tolerance takes the boundary down
  (`BoundaryWithin`), also beyond 100 percent, where it is negative.
- `LapseAlwaysNoticed`, `DrawsWithinLimit`, `StandingAlwaysKept` (policy loan; any
  terms, carrier figures, negative ones too, amounts and dates). `PolicyInv` adds the
  types to `LapseNoticed`, because accruals are harmless only if interest is never
  negative (`InterestIsNat`, for a date before the last accrual too). For a draw:
  `recordDraw` tests lapse and freeze before it accrues; if the accrual lapses the
  policy or reaches its ceiling, the drawn amount puts the debt strictly above the
  ceiling and the draw is refused (`CeilingKept`, which needs every phase's limit to
  be below 100 percent).

`CapitalPreservationProofs`, for any finite set of holders, amounts, ratios, queues
and times, from `VaultConstants`:

- `QueueServedInOrder`: the invariant of run `preservation`; `SeedAlwaysStays`,
  `PreservationKeepsAssets`, `LiftingSettles`, `SharePriceKept`: its action
  properties.

`VaultsInv` types the figures as natural numbers, and that is what needs
`SharesMakeSupply`: a burn leaves the supply natural because no balance exceeds the
sum of all. `SharePriceKept` is integer arithmetic: `Division` and `RoundedUp` turn
each conversion into an inequality between products, and the lemmas on deposits and
withdrawals cross-multiply them. `LiftSettles` needs that the payments out of the
Sentinel leave the junior ratio no lower (`RatioRises`).

`ListLemmas` is what these share: lists after `Append` and after a change in one
place, the greatest position of a set, what `filter` returns, and sums over finite
sets. The provers cannot instantiate the library's induction theorems; the lemmas
use its well-foundedness of the natural numbers instead, as "a set of numbers has a
least one" (`LeastNat`).

Only model-checked: liveness under fairness (`CallAnswered` of run `answered`), which
the prover does not do.

## 6. What is not modelled

See `components` in `PROJECT.json`. Planned: the vaults' timelock and
`PolicyLoanVault.sol` (section 2). Left out:

- The QUBO experiments: floating point search on matrices that no draw depends on.
- Routing adapters: their behaviour is that of protocols outside the repository.
- The restricted token and the risk engine: each answer is a conjunction of flags
  or a score of the inputs, without a sequence of calls to get wrong.
- `transitionCovenantState` and its copy in `shared/validation`: pure tables that no
  code calls.
- `evaluateArbitrage` and `updatePolicy` of the policy loan service: a pure
  computation, and a setter of any field.
- Two facts about the manager that need no model: `checkAndTrigger` makes three
  calls that may each revert, undoing all of it, and `depositToReserve` pays the
  Sentinel and then has it collect the amount a second time, so it always reverts.
- Token verification and HTTP parsing, reporting and analytics (read-only), the
  marketplace's lists, schemas, frontend and infrastructure.
