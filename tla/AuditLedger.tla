---------------------------- MODULE AuditLedger ----------------------------
(***************************************************************************)
(* PgEventStore.append (backend/audit/pg-event-store.ts) as the concurrent *)
(* Postgres transactions of one tenant execute it, one action per          *)
(* statement another transaction can observe or be blocked by.  Row level  *)
(* security hides every other tenant's rows, so one tenant is the whole    *)
(* ledger.                                                                 *)
(*                                                                         *)
(* The isolation level is Postgres' default, READ COMMITTED: a statement   *)
(* sees what was committed when it started, and its own transaction's      *)
(* writes.  Rows a transaction has inserted live in mine[t] until COMMIT.  *)
(*                                                                         *)
(* A hash is a value that no other row has: the envelope it is computed    *)
(* over contains a random event id.                                        *)
(***************************************************************************)
EXTENDS Integers, FiniteSets

CONSTANTS
  Tx,          \* pooled connections; each runs one transaction at a time
  NoTx,        \* nobody holds the lock
  Key,         \* idempotency keys
  NoKey,       \* the empty idempotency key
  EventType,   \* event types
  Body,        \* what else an event says (aggregate, states, payload)
  Hash,        \* event hashes
  Genesis,     \* previous_event_hash of the first event
  MaxAppends,  \* bound: appends of one transaction
  MaxEvents    \* bound: no transaction asks for a new event beyond this many

ASSUME LedgerConstants ==
  /\ NoTx \notin Tx
  /\ NoKey \notin Key
  /\ Genesis \notin Hash
  /\ EventType # {} /\ Body # {}
  /\ MaxAppends \in Nat \ {0}
  /\ MaxEvents \in Nat \ {0}

VARIABLES
  rows,      \* committed audit_event rows
  head,      \* committed audit_chain_head row; seq 0 stands for no row yet
  lock,      \* the transaction holding the row lock on the head
  pc,        \* where each transaction is inside append, or how it ended
  req,       \* the event a transaction is appending
  mine,      \* audit_event rows a transaction inserted and has not committed
  view,      \* the head as the lock holder sees it, its own update included
  asked      \* number of appends a transaction has called

vars == <<rows, head, lock, pc, req, mine, view, asked>>

AppendInput == [key : Key \cup {NoKey}, type : EventType, body : Body]

Row == [seq : Nat \ {0}, hash : Hash, prev : Hash \cup {Genesis},
        key : Key \cup {NoKey}, type : EventType, body : Body]

HeadRow == [seq : Nat, hash : Hash \cup {Genesis}]

Active  == {"ready", "miss", "locked"}
Ended   == {"committed", "rolled_back", "duplicate_key", "chain_conflict"}

NoInput ==
  [key |-> NoKey, type |-> CHOOSE y \in EventType : TRUE, body |-> CHOOSE b \in Body : TRUE]

NoHead == [seq |-> 0, hash |-> Genesis]

TypeOK ==
  /\ rows \subseteq Row
  /\ head \in HeadRow
  /\ lock \in Tx \cup {NoTx}
  /\ pc \in [Tx -> Active \cup Ended]
  /\ req \in [Tx -> AppendInput]
  /\ mine \in [Tx -> SUBSET Row]
  /\ view \in [Tx -> HeadRow]
  /\ asked \in [Tx -> Nat]

Init ==
  /\ rows = {}
  /\ head = NoHead
  /\ lock = NoTx
  /\ pc = [t \in Tx |-> "rolled_back"]
  /\ req = [t \in Tx |-> NoInput]
  /\ mine = [t \in Tx |-> {}]
  /\ view = [t \in Tx |-> NoHead]
  /\ asked = [t \in Tx |-> 0]

-----------------------------------------------------------------------------
\* withTenantTx takes a connection from the pool and begins.
Begin(t) ==
  /\ pc[t] \in Ended
  /\ pc' = [pc EXCEPT ![t] = "ready"]
  /\ UNCHANGED <<rows, head, lock, req, mine, view, asked>>

\* Rows a SELECT of transaction t returns.
Visible(t) == rows \cup mine[t]

SameKey(e, r) == r.key # NoKey /\ e.key = r.key /\ e.type = r.type

\* append, first statement: the event of this key and type, if the statement
\* sees one, is returned as it is and nothing is written.
AppendFound(t, r) ==
  /\ pc[t] = "ready" /\ asked[t] < MaxAppends
  /\ \E e \in Visible(t) : SameKey(e, r)
  /\ asked' = [asked EXCEPT ![t] = @ + 1]
  /\ UNCHANGED <<rows, head, lock, pc, req, mine, view>>

AppendMissing(t, r) ==
  /\ pc[t] = "ready" /\ asked[t] < MaxAppends
  /\ Cardinality(Visible(t)) < MaxEvents
  /\ ~ \E e \in Visible(t) : SameKey(e, r)
  /\ req' = [req EXCEPT ![t] = r]
  /\ asked' = [asked EXCEPT ![t] = @ + 1]
  /\ pc' = [pc EXCEPT ![t] = "miss"]
  /\ UNCHANGED <<rows, head, lock, mine, view>>

\* Mutant: the head is read without FOR UPDATE.
LockHead_NoForUpdate(t) ==
  /\ pc[t] = "miss"
  /\ lock' = t
  /\ view' = IF lock = t THEN view ELSE [view EXCEPT ![t] = head]
  /\ pc' = [pc EXCEPT ![t] = "locked"]
  /\ UNCHANGED <<rows, head, req, mine, asked>>

\* INSERT ... ON CONFLICT DO NOTHING, then SELECT ... FOR UPDATE.  Both wait
\* for a transaction that holds the head row (or has inserted it) to end.
\* The lock is kept to the end of the transaction, so a second append of the
\* same transaction finds it in its own hands and sees its own update.
LockHead(t) ==
  /\ pc[t] = "miss"
  /\ lock \in {NoTx, t}
  /\ lock' = t
  /\ view' = IF lock = t THEN view ELSE [view EXCEPT ![t] = head]
  /\ pc' = [pc EXCEPT ![t] = "locked"]
  /\ UNCHANGED <<rows, head, req, mine, asked>>

UsedHash == {e.hash : e \in rows \cup UNION {mine[t] : t \in Tx}}

\* The row append builds from the head it read.
NewRow(t) ==
  [seq |-> view[t].seq + 1, hash |-> CHOOSE h \in Hash : h \notin UsedHash,
   prev |-> view[t].hash,
   key |-> req[t].key, type |-> req[t].type, body |-> req[t].body]

\* PRIMARY KEY (tenant_id, chain_seq) and UNIQUE (tenant_id, previous_event_hash).
ChainConflict(e, n) == e.seq = n.seq \/ e.prev = n.prev

\* Mutant: no such index; append relies on its own lookup.
KeyConflict_NoIndex(e, n) == FALSE

\* audit_event_idempotency_uq, a partial index.
KeyConflict(e, n) == SameKey(e, n)

Collides(s, n) == \E e \in s : ChainConflict(e, n) \/ KeyConflict(e, n)

\* An insert waits for an uncommitted row that it would collide with.
Blocked(t) == \E u \in Tx \ {t} : Collides(mine[u], NewRow(t))

\* INSERT INTO audit_event, then UPDATE audit_chain_head.  Nobody sees either
\* before COMMIT.
InsertEvent(t) ==
  /\ pc[t] = "locked"
  /\ \E h \in Hash : h \notin UsedHash
  /\ ~Blocked(t)
  /\ ~Collides(Visible(t), NewRow(t))
  /\ mine' = [mine EXCEPT ![t] = @ \cup {NewRow(t)}]
  /\ view' = [view EXCEPT ![t] = [seq |-> NewRow(t).seq, hash |-> NewRow(t).hash]]
  /\ req' = [req EXCEPT ![t] = NoInput]
  /\ pc' = [pc EXCEPT ![t] = "ready"]
  /\ UNCHANGED <<rows, head, lock, asked>>

\* The connection goes back to the pool with nothing of the transaction left.
Release(t, how) ==
  /\ pc' = [pc EXCEPT ![t] = how]
  /\ lock' = IF lock = t THEN NoTx ELSE lock
  /\ mine' = [mine EXCEPT ![t] = {}]
  /\ req' = [req EXCEPT ![t] = NoInput]
  /\ view' = [view EXCEPT ![t] = NoHead]
  /\ asked' = [asked EXCEPT ![t] = 0]

\* Mutant: the head is advanced outside the transaction and stays advanced.
Abandon_HeadStays(t, why) ==
  /\ Release(t, why)
  /\ head' = IF lock = t THEN view[t] ELSE head
  /\ UNCHANGED rows

\* Mutant: the rollback is compensated by counting the head back.
Abandon_CountsBack(t, why) ==
  /\ Release(t, why)
  /\ head' = [head EXCEPT !.seq = @ - 1]
  /\ UNCHANGED rows

\* Mutant: events are appended on a connection of their own.
Abandon_EventsStay(t, why) ==
  /\ Release(t, why)
  /\ rows' = rows \cup mine[t]
  /\ head' = IF lock = t THEN view[t] ELSE head

\* withTenantTx: ROLLBACK drops what the transaction wrote and its lock.
Abandon(t, why) == Release(t, why) /\ UNCHANGED <<rows, head>>

\* A unique index refuses the insert and withTenantTx rolls back.
InsertRefused(t) ==
  /\ pc[t] = "locked"
  /\ ~Blocked(t)
  /\ Collides(Visible(t), NewRow(t))
  /\ Abandon(t, IF \E e \in Visible(t) : ChainConflict(e, NewRow(t))
                THEN "chain_conflict" ELSE "duplicate_key")

\* Whatever the caller does between appends may fail: a domain error, a
\* trigger, a lost connection.
Rollback(t) ==
  /\ pc[t] \in Active
  /\ Abandon(t, "rolled_back")

\* Mutant: every commit writes its copy of the head.
Commit_AlwaysHead(t) ==
  /\ pc[t] = "ready"
  /\ rows' = rows \cup mine[t]
  /\ head' = view[t]
  /\ Release(t, "committed")

Commit(t) ==
  /\ pc[t] = "ready"
  /\ rows' = rows \cup mine[t]
  /\ head' = IF lock = t THEN view[t] ELSE head
  /\ Release(t, "committed")

AppendStart(t) == \E r \in AppendInput : AppendFound(t, r) \/ AppendMissing(t, r)

Next ==
  \E t \in Tx :
    \/ Begin(t)
    \/ AppendStart(t)
    \/ LockHead(t)
    \/ InsertEvent(t)
    \/ InsertRefused(t)
    \/ Rollback(t)
    \/ Commit(t)

Spec == Init /\ [][Next]_vars

-----------------------------------------------------------------------------
(***************************************************************************)
(* Properties.                                                             *)
(***************************************************************************)

\* The rows of s are numbered lo+1 .. hi without gap or fork, each names its
\* predecessor's hash, the first one names from, and the last one is to.
Chained(s, lo, from, hi, to) ==
  /\ \A e \in s : e.seq \in (lo + 1)..hi
  /\ \A n \in (lo + 1)..hi : \E e \in s : e.seq = n
  /\ \A e, f \in s : e.seq = f.seq => e = f
  /\ \A e \in s : e.seq = lo + 1 => e.prev = from
  /\ \A e, f \in s : f.seq = e.seq + 1 => f.prev = e.hash
  /\ \A e \in s : e.seq = hi => e.hash = to
  /\ lo <= hi
  /\ hi = lo => to = from

\* The committed ledger is, at every moment, a gapless chain from genesis to
\* the head, whatever transactions were rolled back between two appends:
\* everything verifyChain re-checks (pg-event-store.ts:169).
ChainIntact == Chained(rows, 0, Genesis, head.seq, head.hash)

\* An idempotency key is spent at most once per event type, although append
\* looks for it before it waits for the head and may have missed a commit.
KeySpentOnce == \A e, f \in rows : SameKey(e, f) => e = f

\* Serialising on the chain head means that two appends never compete for a
\* sequence number or a predecessor: a refused insert is always a repeated key.
OnlyDuplicatesRefused == \A t \in Tx : pc[t] # "chain_conflict"

\* The committed rows in chain order, as readers of the ledger list them.
CommittedLog == [n \in 1..head.seq |-> CHOOSE e \in rows : e.seq = n]

Abstract == INSTANCE AppendOnlyLog WITH log <- CommittedLog

\* The ledger implements the append-only log: a commit appends its whole batch
\* at the end and nothing else ever changes what was committed.
RefinesAppendOnlyLog == Abstract!Spec
=============================================================================
