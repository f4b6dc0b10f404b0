--------------------------- MODULE AuditReaders ---------------------------
(***************************************************************************)
(* The ledger together with the two things that read it while              *)
(* transactions append: PgEventStore.verifyChain, two statements of one    *)
(* READ COMMITTED transaction, and PgEventStore.listPage, which a client   *)
(* of GET /events calls again and again with the last sequence number it   *)
(* has seen.                                                               *)
(***************************************************************************)
EXTENDS AuditLedger, Sequences

CONSTANT PageSize      \* the limit a client asks for

ASSUME PageSizeAssumption == PageSize \in Nat \ {0}

VARIABLES
  vrows,     \* what verifyChain's first SELECT returned
  verdict,   \* its answer; "reading" between its two statements
  delivered  \* hashes the paging client has received, in order

readerVars == <<vrows, verdict, delivered>>
readingVars == <<vars, readerVars>>

ReadersInit ==
  /\ Init
  /\ vrows = <<>>
  /\ verdict = "none"
  /\ delivered = <<>>

\* Mutant: newest first.
InChainOrder_Newest(s) ==
  [n \in 1..Cardinality(s) |-> CHOOSE e \in s : Cardinality({f \in s : f.seq >= e.seq}) = n]

\* SELECT * FROM audit_event ORDER BY chain_seq.
InChainOrder(s) ==
  [n \in 1..Cardinality(s) |-> CHOOSE e \in s : Cardinality({f \in s : f.seq <= e.seq}) = n]

\* verifyChain's loop: the first row that is out of sequence or does not name
\* its predecessor's hash decides.
WalkRows(o) ==
  LET prev(i) == IF i = 1 THEN Genesis ELSE o[i - 1].hash
      broken == {i \in DOMAIN o : o[i].seq # i \/ o[i].prev # prev(i)}
  IN IF broken = {} THEN "reading"
     ELSE LET i == CHOOSE n \in broken : \A m \in broken : n <= m
          IN IF o[i].seq # i THEN "SEQUENCE_GAP" ELSE "LINK_BROKEN"

VerifyRows ==
  /\ verdict # "reading"
  /\ vrows' = InChainOrder(rows)
  /\ verdict' = WalkRows(vrows')
  /\ UNCHANGED <<vars, delivered>>

\* Mutant: the head is compared with the number of the next event.
HeadAgrees_NextSeq(o) ==
  \/ o = <<>>
  \/ head = [seq |-> Len(o) + 1, hash |-> o[Len(o)].hash]

\* The head the second statement reads must be the last row of the first.
HeadAgrees(o) ==
  \/ o = <<>>
  \/ head = [seq |-> Len(o), hash |-> o[Len(o)].hash]

VerifyHead ==
  /\ verdict = "reading"
  /\ verdict' = IF HeadAgrees(vrows) THEN "ok" ELSE "HEAD_MISMATCH"
  /\ UNCHANGED <<vars, vrows, delivered>>

\* listPage(afterSeq, limit); the client's cursor is the number of events it
\* was given, as their sequence numbers start at 1 and have no gap.
Page(after) ==
  LET later == InChainOrder({e \in rows : e.seq > after})
  IN SubSeq(later, 1, IF Len(later) < PageSize THEN Len(later) ELSE PageSize)

ReadPage ==
  LET page == Page(Len(delivered))
  IN /\ page # <<>>
     /\ delivered' = delivered \o [i \in DOMAIN page |-> page[i].hash]
     /\ UNCHANGED <<vars, vrows, verdict>>

ReadersNext ==
  \/ Next /\ UNCHANGED readerVars
  \/ VerifyRows
  \/ VerifyHead
  \/ ReadPage

ReadersSpec == ReadersInit /\ [][ReadersNext]_readingVars

-----------------------------------------------------------------------------
\* A client that pages through the ledger while others append is given every
\* committed event exactly once and in chain order: commits become visible in
\* the order of their sequence numbers, so none appears behind the cursor.
PagingSkipsNothing ==
  /\ Len(delivered) <= head.seq
  /\ \A i \in DOMAIN delivered : delivered[i] = CommittedLog[i].hash

\* verifyChain never reports a break inside the rows, and when it reports a
\* head mismatch the head has moved on since its first statement.
VerdictExplained ==
  /\ verdict \notin {"SEQUENCE_GAP", "LINK_BROKEN"}
  /\ verdict = "HEAD_MISMATCH" => head.seq > Len(vrows)
=============================================================================
