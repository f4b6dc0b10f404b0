--------------------------- MODULE AppendOnlyLog ---------------------------
(***************************************************************************)
(* What the audit ledger promises (migrations/0002_audit_event.sql, header *)
(* comment): one log per tenant that only ever grows at its end, in which  *)
(* an idempotency key is spent at most once per event type.  A step        *)
(* appends the whole batch of one database transaction.                    *)
(***************************************************************************)
EXTENDS Naturals, Sequences

CONSTANT NoKey          \* the empty idempotency key

VARIABLE log            \* a sequence of records with fields key and type

SpentOnce(l) ==
  \A i, j \in 1..Len(l) :
    (l[i].key # NoKey /\ l[i].key = l[j].key /\ l[i].type = l[j].type) => i = j

Extends(longer, shorter) ==
  /\ Len(shorter) <= Len(longer)
  /\ \A i \in 1..Len(shorter) : longer[i] = shorter[i]

Init == log = <<>>

AppendBatch == Extends(log', log) /\ SpentOnce(log')

Spec == Init /\ [][AppendBatch]_log
=============================================================================
