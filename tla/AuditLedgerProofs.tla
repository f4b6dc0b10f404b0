------------------------ MODULE AuditLedgerProofs -------------------------
(***************************************************************************)
(* The audit ledger, its readers, and the draw service's transactions on   *)
(* it, for any number of connections, requests, keys and hashes.           *)
(*                                                                         *)
(* ChainIntact speaks of committed rows only and is not inductive: COMMIT  *)
(* publishes rows and a head that the transaction prepared earlier.        *)
(* LedgerInv says what the lock holder has prepared (ViewChained) and that *)
(* nobody else has prepared anything (PendingUnderLock).                   *)
(*                                                                         *)
(* ReadersInv: what verifyChain and a paging client hold is a prefix of    *)
(* the committed rows, which only grow.                                    *)
(*                                                                         *)
(* DrawInv: at COMMIT a transaction publishes the events of its plan and   *)
(* the rows of its operation.  Progress says which events are done, found  *)
(* or inserted; Held that the holder of the draw row has read what is      *)
(* still there; MatchInv that rows and committed events are in pairs, of   *)
(* which a write then makes one more.  ImportsInv and TrailInv need that   *)
(* imports, and evaluations, are sent again only after they have ended.    *)
(***************************************************************************)
EXTENDS AuditReaders, DrawTransactions, ListLemmas, TLAPS

\* Only the transaction that holds the head has uncommitted events.
PendingUnderLock == \A t \in Tx : lock # t => mine[t] = {}

\* A transaction between FOR UPDATE and INSERT holds the head.
LockedHolds == \A t \in Tx : pc[t] = "locked" => lock = t

\* Whoever holds the head is still running.
HolderActive == \A t \in Tx : lock = t => pc[t] \in Active

\* What the holder would commit is one chain ending at the head it would write.
ViewChained ==
  \A t \in Tx : lock = t => Chained(Visible(t), 0, Genesis, view[t].seq, view[t].hash)

\* No two rows a transaction sees share a hash.
DistinctHashes == \A t \in Tx : \A e, f \in Visible(t) : e.hash = f.hash => e = f

\* No two rows a transaction sees spend the same key for the same type.
DistinctKeys == \A t \in Tx : \A e, f \in Visible(t) : SameKey(e, f) => e = f

LedgerInv ==
  /\ TypeOK
  /\ ChainIntact
  /\ PendingUnderLock
  /\ LockedHolds
  /\ HolderActive
  /\ ViewChained
  /\ DistinctHashes
  /\ DistinctKeys
  /\ KeySpentOnce
  /\ OnlyDuplicatesRefused

-----------------------------------------------------------------------------
\* A chain grows by a row that is numbered next and names the last hash.
LEMMA ChainGrows ==
  ASSUME NEW s, NEW n \in Row, NEW hi \in Nat, NEW from, NEW to,
         s \subseteq Row,
         Chained(s, 0, from, hi, to),
         n.seq = hi + 1, n.prev = to
  PROVE  Chained(s \cup {n}, 0, from, hi + 1, n.hash)
<1> DEFINE c == s \cup {n}
<1>1. \A e \in c : e.seq \in 1..(hi + 1)
  BY DEF Chained, Row
<1>2. \A m \in 1..(hi + 1) : \E e \in c : e.seq = m
  BY DEF Chained, Row
<1>3. \A e, f \in c : e.seq = f.seq => e = f
  BY DEF Chained, Row
<1>4. \A e \in c : e.seq = 1 => e.prev = from
  BY DEF Chained, Row
<1>5. \A e, f \in c : f.seq = e.seq + 1 => f.prev = e.hash
  BY DEF Chained, Row
<1>6. \A e \in c : e.seq = hi + 1 => e.hash = n.hash
  BY DEF Chained, Row
<1> QED
  BY <1>1, <1>2, <1>3, <1>4, <1>5, <1>6 DEF Chained

\* The number and the predecessor a chain offers next are taken by no row.
LEMMA NextSlotFree ==
  ASSUME NEW s, NEW hi \in Nat, NEW to,
         s \subseteq Row,
         Chained(s, 0, Genesis, hi, to),
         \A e, f \in s : e.hash = f.hash => e = f
  PROVE  \A e \in s : e.seq # hi + 1 /\ e.prev # to
<1> SUFFICES ASSUME NEW e \in s
             PROVE  e.seq # hi + 1 /\ e.prev # to
  OBVIOUS
<1>1. e.seq \in 1..hi /\ e.seq \in Nat /\ hi \in 1..hi
  BY DEF Chained, Row
<1>2. PICK l \in s : l.seq = hi
  BY <1>1 DEF Chained
<1>3. l.hash = to /\ to \in Hash
  BY <1>2 DEF Chained, Row
<1>4. CASE e.seq = 1
  BY <1>1, <1>3, <1>4, LedgerConstants DEF Chained
<1>5. CASE e.seq # 1
  <2>1. e.seq - 1 \in 1..hi
    BY <1>1, <1>5
  <2>2. PICK p \in s : p.seq = e.seq - 1
    BY <2>1 DEF Chained
  <2>3. e.prev = p.hash
    BY <1>1, <2>2 DEF Chained
  <2> QED
    BY <1>1, <1>2, <1>3, <2>2, <2>3
<1> QED
  BY <1>4, <1>5

\* What a transaction that ended leaves behind is typed.
LEMMA NothingTyped == NoInput \in AppendInput /\ NoHead \in HeadRow
BY LedgerConstants DEF NoInput, AppendInput, NoHead, HeadRow

\* The row append builds is a row, and its hash is new.
LEMMA NewRowTyped ==
  ASSUME TypeOK, NEW t \in Tx, \E h \in Hash : h \notin UsedHash
  PROVE  /\ NewRow(t) \in Row
         /\ NewRow(t).hash \notin UsedHash
         /\ NewRow(t).seq = view[t].seq + 1
         /\ NewRow(t).prev = view[t].hash
<1> DEFINE h == CHOOSE x \in Hash : x \notin UsedHash
<1>1. h \in Hash /\ h \notin UsedHash
  OBVIOUS
<1>2. view[t] \in HeadRow /\ req[t] \in AppendInput
  BY DEF TypeOK
<1> QED
  BY <1>1, <1>2 DEF NewRow, Row, HeadRow, AppendInput

-----------------------------------------------------------------------------
\* An empty ledger is intact.
LEMMA LedgerInit == Init => LedgerInv
<1> SUFFICES ASSUME Init PROVE LedgerInv
  OBVIOUS
<1>1. TypeOK
  BY LedgerConstants
     DEF Init, TypeOK, NoHead, HeadRow, NoInput, AppendInput, Ended, Active
<1>2. ChainIntact
  BY DEF Init, ChainIntact, Chained, NoHead
<1>3. PendingUnderLock /\ LockedHolds /\ HolderActive /\ ViewChained
  BY LedgerConstants
     DEF Init, PendingUnderLock, LockedHolds, HolderActive, ViewChained
<1>4. DistinctHashes /\ DistinctKeys /\ KeySpentOnce /\ OnlyDuplicatesRefused
  BY DEF Init, DistinctHashes, DistinctKeys, KeySpentOnce, OnlyDuplicatesRefused, Visible
<1> QED
  BY <1>1, <1>2, <1>3, <1>4 DEF LedgerInv

\* Only the lock holder's commit and insertion change what is chained.
LEMMA BeginPreserves ==
  ASSUME LedgerInv, NEW t \in Tx, Begin(t)
  PROVE  LedgerInv'
<1> USE DEF LedgerInv
<1>1. lock # t
  BY DEF Begin, HolderActive, Active, Ended
<1>2. TypeOK'
  BY LedgerConstants
     DEF TypeOK, Begin, Active, Ended
<1>3. ChainIntact' /\ KeySpentOnce'
  BY DEF ChainIntact, KeySpentOnce, Begin
<1>4. /\ PendingUnderLock' /\ LockedHolds' /\ HolderActive'
      /\ OnlyDuplicatesRefused'
  BY <1>1 DEF PendingUnderLock, LockedHolds, HolderActive, OnlyDuplicatesRefused,
              Begin, TypeOK, Active
<1>5. \A u \in Tx : Visible(u)' = Visible(u)
  BY DEF Visible, Begin
<1>6. ViewChained'
  BY <1>1, <1>5 DEF ViewChained, Begin, TypeOK
<1>7. DistinctHashes' /\ DistinctKeys'
  BY <1>5 DEF DistinctHashes, DistinctKeys
<1> QED
  BY <1>2, <1>3, <1>4, <1>6, <1>7

\* Looking for the key changes nothing that is chained.
LEMMA AppendStartPreserves ==
  ASSUME LedgerInv, NEW t \in Tx, AppendStart(t)
  PROVE  LedgerInv'
<1> USE DEF LedgerInv
<1>1. PICK r \in AppendInput : AppendFound(t, r) \/ AppendMissing(t, r)
  BY DEF AppendStart
<1>2. /\ UNCHANGED <<rows, head, lock, mine, view>>
      /\ pc[t] = "ready"
      /\ pc' = pc \/ pc' = [pc EXCEPT ![t] = "miss"]
      /\ req' = req \/ req' = [req EXCEPT ![t] = r]
      /\ asked' = [asked EXCEPT ![t] = @ + 1]
  BY <1>1 DEF AppendFound, AppendMissing
<1>3. TypeOK'
  BY <1>2 DEF TypeOK, Active
<1>4. ChainIntact' /\ KeySpentOnce'
  BY <1>2 DEF ChainIntact, KeySpentOnce
<1>5. /\ PendingUnderLock' /\ LockedHolds' /\ HolderActive'
      /\ OnlyDuplicatesRefused'
  BY <1>2 DEF PendingUnderLock, LockedHolds, HolderActive, OnlyDuplicatesRefused,
              TypeOK, Active
<1>6. \A u \in Tx : Visible(u)' = Visible(u)
  BY <1>2 DEF Visible
<1>7. ViewChained' /\ DistinctHashes' /\ DistinctKeys'
  BY <1>2, <1>6 DEF ViewChained, DistinctHashes, DistinctKeys
<1> QED
  BY <1>3, <1>4, <1>5, <1>7

\* A transaction that takes a free head has prepared nothing, so its view of
\* the chain is the committed chain.
LEMMA LockHeadPreserves ==
  ASSUME LedgerInv, NEW t \in Tx, LockHead(t)
  PROVE  LedgerInv'
<1> USE DEF LedgerInv
<1>1. TypeOK'
  BY DEF TypeOK, LockHead, Active
<1>2. ChainIntact' /\ KeySpentOnce'
  BY DEF ChainIntact, KeySpentOnce, LockHead
<1>3. /\ PendingUnderLock' /\ LockedHolds' /\ HolderActive'
      /\ OnlyDuplicatesRefused'
  BY LedgerConstants
     DEF PendingUnderLock, LockedHolds, HolderActive, OnlyDuplicatesRefused,
         LockHead, TypeOK, Active
<1>4. \A u \in Tx : Visible(u)' = Visible(u)
  BY DEF Visible, LockHead
<1>5. ViewChained'
  <2>1. CASE lock = t
    BY <1>4, <2>1 DEF ViewChained, LockHead
  <2>2. CASE lock # t
    <3>1. mine[t] = {} /\ Visible(t) = rows
      BY <2>2 DEF PendingUnderLock, Visible
    <3>2. view'[t] = head /\ lock' = t
      BY <2>2 DEF LockHead, TypeOK
    <3> QED
      BY <1>4, <3>1, <3>2 DEF ViewChained, ChainIntact
  <2> QED
    BY <2>1, <2>2
<1>6. DistinctHashes' /\ DistinctKeys'
  BY <1>4 DEF DistinctHashes, DistinctKeys
<1> QED
  BY <1>1, <1>2, <1>3, <1>5, <1>6

\* The holder's chain grows by one event; nobody else sees it.
LEMMA InsertEventPreserves ==
  ASSUME LedgerInv, NEW t \in Tx, InsertEvent(t)
  PROVE  LedgerInv'
<1> USE DEF LedgerInv
<1> DEFINE n == NewRow(t)
<1>1. lock = t
  BY DEF InsertEvent, LockedHolds
<1>2. /\ n \in Row /\ n.hash \notin UsedHash
      /\ n.seq = view[t].seq + 1 /\ n.prev = view[t].hash
  BY NewRowTyped DEF InsertEvent
<1>3. \A e \in Visible(t) : e.hash # n.hash /\ ~SameKey(e, n)
  BY <1>2 DEF InsertEvent, UsedHash, Visible, Collides, KeyConflict
<1> HIDE DEF n
<1>4. /\ mine' = [mine EXCEPT ![t] = @ \cup {n}]
      /\ view' = [view EXCEPT ![t] = [seq |-> n.seq, hash |-> n.hash]]
      /\ req' = [req EXCEPT ![t] = NoInput]
      /\ pc' = [pc EXCEPT ![t] = "ready"]
      /\ UNCHANGED <<rows, head, lock, asked>>
  BY DEF InsertEvent, n
<1>5. TypeOK'
  <2>1. [seq |-> n.seq, hash |-> n.hash] \in HeadRow
    BY <1>2 DEF Row, HeadRow
  <2> QED
    BY <1>2, <1>4, <2>1, NothingTyped DEF TypeOK, Active
<1>6. ChainIntact' /\ KeySpentOnce'
  BY <1>4 DEF ChainIntact, KeySpentOnce
<1>7. /\ PendingUnderLock' /\ LockedHolds' /\ HolderActive'
      /\ OnlyDuplicatesRefused'
  BY <1>1, <1>4
     DEF PendingUnderLock, LockedHolds, HolderActive, OnlyDuplicatesRefused,
         TypeOK, Active
<1>8. /\ Visible(t)' = Visible(t) \cup {n}
      /\ \A u \in Tx \ {t} : Visible(u)' = Visible(u)
  BY <1>4 DEF Visible, TypeOK
<1>9. ViewChained'
  <2>1. Visible(t) \subseteq Row /\ view[t].seq \in Nat
    BY DEF TypeOK, Visible, HeadRow
  <2>2. Chained(Visible(t), 0, Genesis, view[t].seq, view[t].hash)
    BY <1>1 DEF ViewChained
  <2>3. Chained(Visible(t) \cup {n}, 0, Genesis, view[t].seq + 1, n.hash)
    BY <1>2, <2>1, <2>2, ChainGrows
  <2>4. view'[t].seq = view[t].seq + 1 /\ view'[t].hash = n.hash
    BY <1>2, <1>4 DEF TypeOK
  <2>5. Chained(Visible(t)', 0, Genesis, view'[t].seq, view'[t].hash)
    BY <1>8, <2>3, <2>4
  <2> QED
    BY <1>1, <1>4, <2>5 DEF ViewChained
<1>10. DistinctHashes'
  BY <1>3, <1>8 DEF DistinctHashes
<1>11. DistinctKeys'
  <2>1. \A e \in Visible(t) : ~SameKey(n, e)
    BY <1>3 DEF SameKey
  <2> QED
    BY <1>3, <1>8, <2>1 DEF DistinctKeys
<1> QED
  BY <1>5, <1>6, <1>7, <1>9, <1>10, <1>11

\* A rollback leaves the committed chain and what others see of it alone.
LEMMA AbandonPreserves ==
  ASSUME LedgerInv, NEW t \in Tx, NEW why \in Ended \ {"chain_conflict"},
         Abandon(t, why)
  PROVE  LedgerInv'
<1> USE DEF LedgerInv
<1>1. TypeOK'
  BY NothingTyped DEF TypeOK, Abandon, Release
<1>2. ChainIntact' /\ KeySpentOnce'
  BY DEF ChainIntact, KeySpentOnce, Abandon
<1>3. /\ PendingUnderLock' /\ LockedHolds' /\ HolderActive'
      /\ OnlyDuplicatesRefused'
  BY LedgerConstants
     DEF PendingUnderLock, LockedHolds, HolderActive, OnlyDuplicatesRefused,
         Abandon, Release, TypeOK, Active, Ended
<1>4. \A u \in Tx : Visible(u)' \subseteq Visible(u)
  BY DEF Visible, Abandon, Release, TypeOK
<1>5. \A u \in Tx \ {t} : Visible(u)' = Visible(u)
  BY DEF Visible, Abandon, Release, TypeOK
<1>6. lock' # t /\ \A u \in Tx \ {t} : lock' = u => lock = u
  BY LedgerConstants DEF Abandon, Release
<1>7. ViewChained'
  BY <1>5, <1>6 DEF ViewChained, Abandon, Release, TypeOK
<1>8. DistinctHashes' /\ DistinctKeys'
  BY <1>4 DEF DistinctHashes, DistinctKeys
<1> QED
  BY <1>1, <1>2, <1>3, <1>7, <1>8

\* The insert of the lock holder finds the next slot of the chain free, so a
\* unique index can only refuse it for a repeated key.
LEMMA InsertRefusedPreserves ==
  ASSUME LedgerInv, NEW t \in Tx, InsertRefused(t)
  PROVE  LedgerInv'
<1> USE DEF LedgerInv
<1>1. lock = t
  BY DEF InsertRefused, LockedHolds
<1>2. Visible(t) \subseteq Row /\ view[t].seq \in Nat
  BY DEF TypeOK, Visible, HeadRow
<1>3. \A e \in Visible(t) : e.seq # view[t].seq + 1 /\ e.prev # view[t].hash
  <2>1. Chained(Visible(t), 0, Genesis, view[t].seq, view[t].hash)
    BY <1>1 DEF ViewChained
  <2>2. \A e, f \in Visible(t) : e.hash = f.hash => e = f
    BY DEF DistinctHashes
  <2> QED
    BY <1>2, <2>1, <2>2, NextSlotFree
<1>4. ~ \E e \in Visible(t) : ChainConflict(e, NewRow(t))
  BY <1>3 DEF ChainConflict, NewRow
<1>5. Abandon(t, "duplicate_key")
  BY <1>4 DEF InsertRefused
<1> QED
  BY <1>5, AbandonPreserves DEF Ended

\* COMMIT publishes the holder's view; everybody else has prepared nothing and
\* sees exactly the committed rows.
LEMMA CommitPreserves ==
  ASSUME LedgerInv, NEW t \in Tx, Commit(t)
  PROVE  LedgerInv'
<1> USE DEF LedgerInv
<1>1. TypeOK'
  BY NothingTyped DEF TypeOK, Commit, Release, Ended
<1>2. CASE lock = t
  <2>1. rows' = Visible(t) /\ head' = view[t] /\ lock' = NoTx
    BY <1>2 DEF Commit, Release, Visible
  <2>2. ChainIntact'
    BY <1>2, <2>1 DEF ChainIntact, ViewChained
  <2>3. \A u \in Tx : mine'[u] = {}
    BY <1>2 DEF Commit, Release, PendingUnderLock, TypeOK
  <2>4. \A u \in Tx : Visible(u)' = Visible(t)
    BY <2>1, <2>3 DEF Visible
  <2>5. /\ PendingUnderLock' /\ LockedHolds' /\ HolderActive'
        /\ OnlyDuplicatesRefused' /\ ViewChained'
    BY <1>2, <2>1, <2>3, LedgerConstants
       DEF PendingUnderLock, LockedHolds, HolderActive, OnlyDuplicatesRefused,
           ViewChained, Commit, Release, TypeOK
  <2>6. DistinctHashes' /\ DistinctKeys'
    BY <2>4 DEF DistinctHashes, DistinctKeys
  <2>7. KeySpentOnce'
    BY <2>1 DEF KeySpentOnce, DistinctKeys
  <2> QED
    BY <1>1, <2>2, <2>5, <2>6, <2>7
<1>3. CASE lock # t
  <2>1. /\ rows' = rows /\ head' = head /\ lock' = lock /\ mine' = mine
        /\ \A u \in Tx \ {t} : view'[u] = view[u]
    BY <1>3 DEF Commit, Release, PendingUnderLock, TypeOK
  <2>2. ChainIntact' /\ KeySpentOnce'
    BY <2>1 DEF ChainIntact, KeySpentOnce
  <2>3. /\ PendingUnderLock' /\ LockedHolds' /\ HolderActive'
        /\ OnlyDuplicatesRefused'
    BY <1>3, <2>1
       DEF PendingUnderLock, LockedHolds, HolderActive, OnlyDuplicatesRefused,
           Commit, Release, TypeOK
  <2>4. \A u \in Tx : Visible(u)' = Visible(u)
    BY <2>1 DEF Visible
  <2>5. ViewChained' /\ DistinctHashes' /\ DistinctKeys'
    BY <1>3, <2>1, <2>4 DEF ViewChained, DistinctHashes, DistinctKeys
  <2> QED
    BY <1>1, <2>2, <2>3, <2>5
<1> QED
  BY <1>2, <1>3

\* Every statement of every transaction keeps the invariant.
LEMMA LedgerStep == LedgerInv /\ [Next]_vars => LedgerInv'
<1> SUFFICES ASSUME LedgerInv, [Next]_vars PROVE LedgerInv'
  OBVIOUS
<1>1. CASE UNCHANGED vars
  BY <1>1 DEF LedgerInv, vars, TypeOK, ChainIntact, PendingUnderLock, LockedHolds,
              HolderActive, ViewChained, DistinctHashes, DistinctKeys, KeySpentOnce,
              OnlyDuplicatesRefused, Visible
<1>2. ASSUME NEW t \in Tx, Begin(t) PROVE LedgerInv'
  BY <1>2, BeginPreserves
<1>3. ASSUME NEW t \in Tx, AppendStart(t) PROVE LedgerInv'
  BY <1>3, AppendStartPreserves
<1>4. ASSUME NEW t \in Tx, LockHead(t) PROVE LedgerInv'
  BY <1>4, LockHeadPreserves
<1>5. ASSUME NEW t \in Tx, InsertEvent(t) PROVE LedgerInv'
  BY <1>5, InsertEventPreserves
<1>6. ASSUME NEW t \in Tx, InsertRefused(t) PROVE LedgerInv'
  BY <1>6, InsertRefusedPreserves
<1>7. ASSUME NEW t \in Tx, Rollback(t) PROVE LedgerInv'
  BY <1>7, AbandonPreserves DEF Rollback, Ended
<1>8. ASSUME NEW t \in Tx, Commit(t) PROVE LedgerInv'
  BY <1>8, CommitPreserves
<1> QED
  BY <1>1, <1>2, <1>3, <1>4, <1>5, <1>6, <1>7, <1>8 DEF Next

-----------------------------------------------------------------------------
\* The inductive invariant holds in every reachable state of the ledger.
THEOREM LedgerInvariant == Spec => []LedgerInv
BY LedgerInit, LedgerStep, PTL DEF Spec

\* Every table and every transaction's state keeps its type, whatever is
\* appended, refused, rolled back or committed (pg-event-store.ts, append).
THEOREM LedgerTyped == Spec => []TypeOK
<1>1. LedgerInv => TypeOK
  BY DEF LedgerInv
<1> QED
  BY <1>1, LedgerInvariant, PTL

\* The committed ledger is at every moment one gapless chain from genesis to
\* the head (pg-event-store.ts:70-148, rollbacks included).
THEOREM ChainAlwaysIntact == Spec => []ChainIntact
<1>1. LedgerInv => ChainIntact
  BY DEF LedgerInv
<1> QED
  BY <1>1, LedgerInvariant, PTL

\* No key is spent twice for one event type, however retries interleave.
THEOREM KeyAlwaysSpentOnce == Spec => []KeySpentOnce
<1>1. LedgerInv => KeySpentOnce
  BY DEF LedgerInv
<1> QED
  BY <1>1, LedgerInvariant, PTL

\* Appends never compete for a sequence number or a predecessor.
THEOREM HeadSerialisesAppends == Spec => []OnlyDuplicatesRefused
<1>1. LedgerInv => OnlyDuplicatesRefused
  BY DEF LedgerInv
<1> QED
  BY <1>1, LedgerInvariant, PTL

-----------------------------------------------------------------------------
\* No committed row is ever lost.
LEMMA RowsStay == [Next]_vars => rows \subseteq rows'
BY DEF Next, vars, Begin, AppendStart, AppendFound, AppendMissing, LockHead,
       InsertEvent, InsertRefused, Rollback, Abandon, Commit

\* The head never falls back behind a committed row.
LEMMA HeadGrows ==
  ASSUME LedgerInv, LedgerInv', rows \subseteq rows'
  PROVE  head.seq \in Nat /\ head'.seq \in Nat /\ head.seq <= head'.seq
<1>1. head.seq \in Nat /\ head'.seq \in Nat
  BY DEF LedgerInv, TypeOK, HeadRow
<1>2. CASE head.seq = 0
  BY <1>1, <1>2
<1>3. CASE head.seq # 0
  <2>1. PICK e \in rows : e.seq = head.seq
    BY <1>1, <1>3 DEF LedgerInv, ChainIntact, Chained
  <2>2. e.seq \in 1..head'.seq
    BY <2>1 DEF LedgerInv, ChainIntact, Chained
  <2> QED
    BY <1>1, <2>1, <2>2
<1> QED
  BY <1>2, <1>3

\* Read in chain order, an intact ledger is a sequence of its own rows.
LEMMA LogIsRows ==
  ASSUME LedgerInv
  PROVE  /\ Len(CommittedLog) = head.seq
         /\ \A n \in 1..head.seq : CommittedLog[n] \in rows /\ CommittedLog[n].seq = n
<1>1. head.seq \in Nat
  BY DEF LedgerInv, TypeOK, HeadRow
<1>2. \A n \in 1..head.seq : \E e \in rows : e.seq = n
  BY DEF LedgerInv, ChainIntact, Chained
<1>3. Len(CommittedLog) = head.seq
  BY <1>1 DEF CommittedLog
<1> QED
  BY <1>2, <1>3 DEF CommittedLog

\* A step that keeps every committed row and leaves the ledger intact extends
\* the log, and spends no key twice.
LEMMA GrowthIsAppendBatch ==
  ASSUME LedgerInv, LedgerInv', rows \subseteq rows'
  PROVE  Abstract!AppendBatch
<1>1. /\ head.seq \in Nat /\ head'.seq \in Nat
      /\ \A n \in 1..head.seq : CommittedLog[n] \in rows /\ CommittedLog[n].seq = n
      /\ Len(CommittedLog) = head.seq
  BY LogIsRows DEF LedgerInv, TypeOK, HeadRow
<1>2. /\ \A n \in 1..head'.seq : CommittedLog'[n] \in rows' /\ CommittedLog'[n].seq = n
      /\ Len(CommittedLog') = head'.seq
  <2>1. \A n \in 1..head'.seq : \E e \in rows' : e.seq = n
    BY DEF LedgerInv, ChainIntact, Chained
  <2> QED
    BY <1>1, <2>1 DEF CommittedLog
<1>3. /\ \A e, f \in rows' : e.seq = f.seq => e = f
      /\ \A e \in rows' : e.seq \in 1..head'.seq
  BY DEF LedgerInv, ChainIntact, Chained
<1>4. head.seq <= head'.seq
  BY HeadGrows
<1>5. \A n \in 1..head.seq : CommittedLog'[n] = CommittedLog[n]
  <2> SUFFICES ASSUME NEW n \in 1..head.seq
               PROVE  CommittedLog'[n] = CommittedLog[n]
    OBVIOUS
  <2>1. n \in 1..head'.seq
    BY <1>1, <1>4
  <2> QED
    BY <1>1, <1>2, <1>3, <2>1
<1>6. \A e, f \in rows' : SameKey(e, f) => e = f
  BY DEF LedgerInv, KeySpentOnce
<1>7. Abstract!SpentOnce(CommittedLog')
  BY <1>2, <1>6 DEF Abstract!SpentOnce, SameKey
<1>8. Abstract!Extends(CommittedLog', CommittedLog)
  BY <1>1, <1>2, <1>4, <1>5 DEF Abstract!Extends
<1> QED
  BY <1>7, <1>8 DEF Abstract!AppendBatch

\* PgEventStore.append under concurrent transactions implements the
\* append-only log: a COMMIT appends its batch, nothing rewrites the past.
THEOREM LedgerRefinesLog == Spec => RefinesAppendOnlyLog
<1>1. Init => Abstract!Init
  BY DEF Init, Abstract!Init, CommittedLog, NoHead
<1>2. LedgerInv /\ LedgerInv' /\ [Next]_vars => [Abstract!AppendBatch]_CommittedLog
  <2> SUFFICES ASSUME LedgerInv, LedgerInv', [Next]_vars
               PROVE  [Abstract!AppendBatch]_CommittedLog
    OBVIOUS
  <2> QED
    BY RowsStay, GrowthIsAppendBatch
<1> QED
  BY <1>1, <1>2, LedgerInvariant, PTL DEF Spec, RefinesAppendOnlyLog, Abstract!Spec

-----------------------------------------------------------------------------
(* The readers of the ledger *)

\* The members of s carry the numbers lo + 1 .. hi, each once.
Numbered(s, lo, hi) ==
  /\ \A e \in s : e.seq \in (lo + 1)..hi
  /\ \A n \in (lo + 1)..hi : \E e \in s : e.seq = n
  /\ \A e, f \in s : e.seq = f.seq => e = f

\* There are as many of them as there are numbers.
LEMMA NumberedCount ==
  ASSUME NEW s, NEW lo \in Nat, NEW hi \in Nat, lo <= hi, Numbered(s, lo, hi)
  PROVE  Cardinality(s) = hi - lo
<1> DEFINE I == (lo + 1)..hi
           g == [n \in I |-> CHOOSE e \in s : e.seq = n]
<1>1. \A n \in I : g[n] \in s /\ g[n].seq = n
  BY DEF Numbered
<1>2. g \in [I -> s]
  BY <1>1
<1>3. \A m, n \in I : g[m] = g[n] => m = n
  BY <1>1
<1>4. \A e \in s : \E n \in I : g[n] = e
  BY <1>1 DEF Numbered
<1>5. IsFiniteSet(I) /\ Cardinality(I) = hi - lo
  <2>1. lo + 1 \in Int /\ hi \in Int
    OBVIOUS
  <2>2. /\ IsFiniteSet((lo + 1)..hi)
        /\ Cardinality((lo + 1)..hi) = IF lo + 1 > hi THEN 0 ELSE hi - (lo + 1) + 1
    BY <2>1, FS_Interval, Zenon
  <2> QED
    BY <2>2
<1> HIDE DEF g, I
<1>6. g \in Bijection(I, s)
  BY <1>2, <1>3, <1>4 DEF Bijection, Injection, Surjection, IsInjective
<1>7. ExistsBijection(I, s)
  BY <1>6 DEF ExistsBijection
<1> QED
  BY <1>5, <1>7, FS_Bijection

\* ORDER BY chain_seq puts the row numbered lo + n in place n.
LEMMA OrderedRows ==
  ASSUME NEW s, s \subseteq Row, NEW lo \in Nat, NEW hi \in Nat, lo <= hi, Numbered(s, lo, hi)
  PROVE  LET o == InChainOrder(s)
         IN  /\ o \in Seq(Row) /\ Len(o) = hi - lo
             /\ \A n \in 1..(hi - lo) : o[n] \in s /\ o[n].seq = lo + n
<1> DEFINE before(e) == {f \in s : f.seq <= e.seq}
           o == InChainOrder(s)
<1>1. Cardinality(s) = hi - lo
  BY NumberedCount
<1>2. ASSUME NEW e \in s PROVE Cardinality(before(e)) = e.seq - lo
  <2>1. e.seq \in (lo + 1)..hi /\ e.seq \in Nat /\ lo <= e.seq
    BY DEF Numbered
  <2>2. \A f \in before(e) : f.seq \in (lo + 1)..e.seq
    BY <2>1 DEF Numbered
  <2>3. \A n \in (lo + 1)..e.seq : \E f \in before(e) : f.seq = n
    <3> SUFFICES ASSUME NEW n \in (lo + 1)..e.seq PROVE \E f \in before(e) : f.seq = n
      OBVIOUS
    <3>1. n \in (lo + 1)..hi /\ n <= e.seq
      BY <2>1
    <3>2. PICK f \in s : f.seq = n
      BY <3>1 DEF Numbered
    <3> QED
      BY <3>1, <3>2
  <2>4. Numbered(before(e), lo, e.seq)
    BY <2>2, <2>3 DEF Numbered
  <2> HIDE DEF before
  <2> QED
    BY <2>1, <2>4, NumberedCount
<1>3. \A n \in 1..(hi - lo) : \E e \in s : Cardinality(before(e)) = n
  <2> SUFFICES ASSUME NEW n \in 1..(hi - lo) PROVE \E e \in s : Cardinality(before(e)) = n
    OBVIOUS
  <2>1. PICK e \in s : e.seq = lo + n
    BY DEF Numbered
  <2>2. Cardinality(before(e)) = e.seq - lo
    BY <1>2
  <2> QED
    BY <2>1, <2>2
<1>4. o = [n \in 1..(hi - lo) |-> CHOOSE e \in s : Cardinality(before(e)) = n]
  BY <1>1 DEF InChainOrder
<1> HIDE DEF before, o
<1>5. \A n \in 1..(hi - lo) : o[n] \in s /\ Cardinality(before(o[n])) = n
  BY <1>3, <1>4
<1>6. \A n \in 1..(hi - lo) : o[n] \in s /\ o[n].seq = lo + n
  <2> SUFFICES ASSUME NEW n \in 1..(hi - lo) PROVE o[n] \in s /\ o[n].seq = lo + n
    OBVIOUS
  <2>1. o[n] \in s /\ Cardinality(before(o[n])) = n
    BY <1>5
  <2>2. Cardinality(before(o[n])) = o[n].seq - lo
    BY <1>2, <2>1
  <2>3. o[n].seq \in Nat
    BY <2>1 DEF Row
  <2> QED
    BY <2>1, <2>2, <2>3
<1>7. o \in [1..(hi - lo) -> Row]
  BY <1>4, <1>5
<1>8. o \in Seq(Row) /\ Len(o) = hi - lo
  <2>1. hi - lo \in Nat
    OBVIOUS
  <2> QED
    BY <1>7, <2>1
<1> QED
  BY <1>6, <1>8 DEF o

\* The rows of an intact ledger, from the first one to the head.
LEMMA AllNumbered == LedgerInv => Numbered(rows, 0, head.seq)
BY DEF LedgerInv, ChainIntact, Chained, Numbered

\* The committed rows after a cursor that is not beyond the head.
LEMMA RowsNumbered ==
  ASSUME LedgerInv, NEW lo \in Nat, lo <= head.seq
  PROVE  Numbered({e \in rows : e.seq > lo}, lo, head.seq)
<1>1. head.seq \in Nat /\ \A e \in rows : e.seq \in Nat
  BY DEF LedgerInv, TypeOK, HeadRow, Row
<1>2. Numbered(rows, 0, head.seq)
  BY AllNumbered
<1> QED
  BY <1>1, <1>2 DEF Numbered

\* What verifyChain and the paging client hold are rows of the ledger, from the
\* first one on and in chain order; a head mismatch means that the head moved.
ReadersInv ==
  /\ verdict \in {"none", "reading", "ok", "HEAD_MISMATCH"}
  /\ vrows \in Seq(Row)
  /\ Len(vrows) <= head.seq
  /\ \A i \in 1..Len(vrows) : vrows[i] \in rows /\ vrows[i].seq = i
  /\ verdict = "HEAD_MISMATCH" => head.seq > Len(vrows)
  /\ delivered \in Seq(Hash)
  /\ Len(delivered) <= head.seq
  /\ \A i \in 1..Len(delivered) : \E e \in rows : e.seq = i /\ e.hash = delivered[i]

\* The loop of verifyChain finds nothing wrong with an intact ledger.
LEMMA IntactWalk ==
  ASSUME LedgerInv, NEW o \in Seq(Row), Len(o) = head.seq,
         \A n \in 1..head.seq : o[n] \in rows /\ o[n].seq = n
  PROVE  WalkRows(o) = "reading"
<1> DEFINE prev(i) == IF i = 1 THEN Genesis ELSE o[i - 1].hash
<1>1. head.seq \in Nat /\ DOMAIN o = 1..head.seq
  BY LenProperties DEF LedgerInv, TypeOK, HeadRow
<1>2. ASSUME NEW i \in DOMAIN o PROVE o[i].seq = i /\ o[i].prev = prev(i)
  <2>1. o[i] \in rows /\ o[i].seq = i
    BY <1>1
  <2>2. CASE i = 1
    BY <2>1, <2>2 DEF LedgerInv, ChainIntact, Chained
  <2>3. CASE i # 1
    <3>1. i - 1 \in 1..head.seq /\ i = (i - 1) + 1
      BY <1>1, <2>3
    <3>2. o[i - 1] \in rows /\ o[i - 1].seq = i - 1
      BY <3>1
    <3>3. o[i].prev = o[i - 1].hash
      BY <2>1, <3>1, <3>2 DEF LedgerInv, ChainIntact, Chained
    <3> QED
      BY <2>1, <2>3, <3>3
  <2> QED
    BY <2>2, <2>3
<1>3. {i \in DOMAIN o : o[i].seq # i \/ o[i].prev # prev(i)} = {}
  BY <1>2
<1> QED
  BY <1>3 DEF WalkRows

\* Nothing has been read of an empty ledger.
LEMMA ReadersStart == ReadersInit => LedgerInv /\ ReadersInv
<1> SUFFICES ASSUME ReadersInit PROVE LedgerInv /\ ReadersInv
  OBVIOUS
<1>1. LedgerInv
  BY LedgerInit DEF ReadersInit
<1>2. ReadersInv
  BY DEF ReadersInit, ReadersInv, Init, NoHead
<1> QED
  BY <1>1, <1>2

\* Commits put rows behind what was read, never before it.
LEMMA AppendingKeepsReaders ==
  ASSUME LedgerInv, LedgerInv', ReadersInv, rows \subseteq rows', UNCHANGED readerVars
  PROVE  ReadersInv'
<1>1. head.seq \in Nat /\ head'.seq \in Nat /\ head.seq <= head'.seq
  BY HeadGrows
<1>2. vrows' = vrows /\ verdict' = verdict /\ delivered' = delivered
  BY DEF readerVars
<1>3. Len(vrows) \in Nat /\ Len(delivered) \in Nat
  BY LenProperties DEF ReadersInv
<1> QED
  BY <1>1, <1>2, <1>3 DEF ReadersInv

\* The first statement of verifyChain.
LEMMA VerifyRowsKeeps ==
  ASSUME LedgerInv, ReadersInv, VerifyRows
  PROVE  ReadersInv'
<1>1. head.seq \in Nat /\ rows \subseteq Row /\ Numbered(rows, 0, head.seq)
  BY AllNumbered DEF LedgerInv, TypeOK, HeadRow
<1>2. /\ vrows' \in Seq(Row) /\ Len(vrows') = head.seq
      /\ \A n \in 1..head.seq : vrows'[n] \in rows /\ vrows'[n].seq = n
  <2> DEFINE o == InChainOrder(rows)
  <2>1. /\ o \in Seq(Row) /\ Len(o) = head.seq - 0
        /\ \A n \in 1..(head.seq - 0) : o[n] \in rows /\ o[n].seq = 0 + n
    BY <1>1, OrderedRows
  <2>2. vrows' = o
    BY DEF VerifyRows
  <2> HIDE DEF o
  <2> QED
    BY <1>1, <2>1, <2>2
<1>3. verdict' = "reading"
  BY <1>2, IntactWalk DEF VerifyRows
<1>4. UNCHANGED <<rows, head, delivered>>
  BY DEF VerifyRows, vars
<1> QED
  BY <1>1, <1>2, <1>3, <1>4 DEF ReadersInv

\* The second statement of verifyChain: when the head it reads is not the last
\* row, the head has moved.
LEMMA VerifyHeadKeeps ==
  ASSUME LedgerInv, ReadersInv, VerifyHead
  PROVE  ReadersInv'
<1>1. UNCHANGED <<rows, head, delivered, vrows>>
  BY DEF VerifyHead, vars
<1>2. head.seq \in Nat /\ head \in HeadRow /\ Len(vrows) \in Nat /\ Len(vrows) <= head.seq
  BY LenProperties DEF LedgerInv, TypeOK, HeadRow, ReadersInv
<1>3. ~HeadAgrees(vrows) => head.seq > Len(vrows)
  <2> SUFFICES ASSUME ~HeadAgrees(vrows), head.seq = Len(vrows) PROVE FALSE
    BY <1>2
  <2>1. vrows # <<>> /\ head # [seq |-> Len(vrows), hash |-> vrows[Len(vrows)].hash]
    BY DEF HeadAgrees
  <2>2. Len(vrows) # 0
    BY <2>1, EmptySeq DEF ReadersInv
  <2>3. vrows[Len(vrows)] \in rows /\ vrows[Len(vrows)].seq = head.seq
    BY <1>2, <2>2 DEF ReadersInv
  <2>4. vrows[Len(vrows)].hash = head.hash
    BY <2>3 DEF LedgerInv, ChainIntact, Chained
  <2>5. head = [seq |-> head.seq, hash |-> head.hash]
    BY <1>2 DEF HeadRow
  <2> QED
    BY <2>1, <2>4, <2>5
<1>4. verdict' = "ok" \/ (verdict' = "HEAD_MISMATCH" /\ head.seq > Len(vrows))
  BY <1>3 DEF VerifyHead
<1> QED
  BY <1>1, <1>4 DEF ReadersInv

\* A page holds the rows right behind the cursor.
LEMMA ReadPageKeeps ==
  ASSUME LedgerInv, ReadersInv, ReadPage
  PROVE  ReadersInv'
<1> DEFINE lo == Len(delivered)
           later == InChainOrder({e \in rows : e.seq > lo})
           k == IF Len(later) < PageSize THEN Len(later) ELSE PageSize
           page == Page(lo)
           hashes == [i \in DOMAIN page |-> page[i].hash]
<1>1. head.seq \in Nat /\ lo \in Nat /\ lo <= head.seq /\ rows \subseteq Row
  BY LenProperties DEF LedgerInv, TypeOK, HeadRow, ReadersInv
<1>2. /\ later \in Seq(Row) /\ Len(later) = head.seq - lo
      /\ \A n \in 1..(head.seq - lo) : later[n] \in rows /\ later[n].seq = lo + n
  <2> DEFINE s == {e \in rows : e.seq > lo}
  <2>1. Numbered(s, lo, head.seq) /\ s \subseteq Row
    BY <1>1, RowsNumbered
  <2>2. later = InChainOrder(s)
    OBVIOUS
  <2>3. \A e \in s : e \in rows
    OBVIOUS
  <2> HIDE DEF s, lo, later
  <2> DEFINE o == InChainOrder(s)
             hi == head.seq
  <2>4. hi \in Nat /\ lo \in Nat /\ lo <= hi /\ s \subseteq Row /\ Numbered(s, lo, hi)
    BY <1>1, <2>1
  <2>5. /\ o \in Seq(Row) /\ Len(o) = hi - lo
        /\ \A n \in 1..(hi - lo) : o[n] \in s /\ o[n].seq = lo + n
    <3> HIDE DEF hi
    <3> QED
      BY <2>4, OrderedRows
  <2> QED
    BY <2>2, <2>3, <2>5
<1>3. k \in Nat /\ k <= head.seq - lo /\ k <= Len(later)
  BY <1>1, <1>2, PageSizeAssumption
<1>4. page = SubSeq(later, 1, k)
  BY DEF Page
<1>5. /\ UNCHANGED <<rows, head, vrows, verdict>>
      /\ delivered' = delivered \o hashes
  BY DEF ReadPage, vars
<1> HIDE DEF lo, later, k, page
<1>6. page \in Seq(Row) /\ Len(page) = k /\ \A i \in 1..k : page[i] = later[i]
  BY <1>2, <1>3, <1>4, SubSeqProperties
<1>7. DOMAIN page = 1..k
  BY <1>6, LenProperties
<1>8. hashes \in Seq(Hash) /\ Len(hashes) = k /\ \A i \in 1..k : hashes[i] = later[i].hash
  <2>1. \A i \in 1..k : page[i] \in Row
    BY <1>6, <1>7, ElementOfSeq
  <2>2. hashes \in [1..k -> Hash]
    BY <1>7, <2>1 DEF Row
  <2>3. hashes \in Seq(Hash) /\ Len(hashes) = k
    BY <1>3, <2>2
  <2>4. \A i \in 1..k : hashes[i] = later[i].hash
    BY <1>6, <1>7
  <2> QED
    BY <2>3, <2>4
<1> HIDE DEF hashes
<1>9. /\ delivered' \in Seq(Hash) /\ Len(delivered') = lo + k
      /\ \A i \in 1..(lo + k) : delivered'[i] = IF i <= lo THEN delivered[i] ELSE hashes[i - lo]
  <2>1. delivered \in Seq(Hash)
    BY DEF ReadersInv
  <2> QED
    BY <1>5, <1>8, <2>1, ConcatProperties DEF lo
<1>10. ASSUME NEW i \in 1..(lo + k) PROVE \E e \in rows : e.seq = i /\ e.hash = delivered'[i]
  <2>1. CASE i <= lo
    <3>1. i \in 1..lo /\ delivered'[i] = delivered[i]
      BY <1>1, <1>9, <2>1
    <3> QED
      BY <3>1 DEF ReadersInv, lo
  <2>2. CASE ~(i <= lo)
    <3>1. i - lo \in 1..k /\ i - lo \in 1..(head.seq - lo) /\ delivered'[i] = hashes[i - lo]
      BY <1>1, <1>3, <1>9, <2>2
    <3>2. later[i - lo] \in rows /\ later[i - lo].seq = lo + (i - lo)
      BY <1>2, <3>1
    <3>3. later[i - lo].hash = delivered'[i]
      BY <1>8, <3>1
    <3>4. lo + (i - lo) = i
      BY <1>1, <1>3
    <3> QED
      BY <3>2, <3>3, <3>4
  <2> QED
    BY <2>1, <2>2
<1>11. lo + k <= head.seq
  BY <1>1, <1>3
<1> QED
  BY <1>5, <1>9, <1>10, <1>11 DEF ReadersInv

\* Every statement of a reader or an appender keeps what the readers hold.
LEMMA ReadersStep ==
  LedgerInv /\ ReadersInv /\ [ReadersNext]_readingVars => LedgerInv' /\ ReadersInv'
<1> SUFFICES ASSUME LedgerInv, ReadersInv, [ReadersNext]_readingVars
             PROVE  LedgerInv' /\ ReadersInv'
  OBVIOUS
<1>1. ASSUME [Next]_vars, UNCHANGED readerVars PROVE LedgerInv' /\ ReadersInv'
  BY <1>1, LedgerStep, RowsStay, AppendingKeepsReaders
<1>2. ASSUME UNCHANGED vars PROVE LedgerInv'
  BY <1>2, LedgerStep
<1>3. CASE UNCHANGED readingVars
  BY <1>1, <1>3 DEF readingVars
<1>4. CASE VerifyRows
  BY <1>2, <1>4, VerifyRowsKeeps DEF VerifyRows
<1>5. CASE VerifyHead
  BY <1>2, <1>5, VerifyHeadKeeps DEF VerifyHead
<1>6. CASE ReadPage
  BY <1>2, <1>6, ReadPageKeeps DEF ReadPage
<1> QED
  BY <1>1, <1>3, <1>4, <1>5, <1>6 DEF ReadersNext

\* What verifyChain and the paging client hold, in every reachable state.
LEMMA ReadersInvariant == ReadersSpec => [](LedgerInv /\ ReadersInv)
BY ReadersStart, ReadersStep, PTL DEF ReadersSpec

\* Reading changes nothing: the ledger with its readers is still the ledger.
THEOREM ReadersAreLedger == ReadersSpec => Spec
<1>1. ReadersInit => Init
  BY DEF ReadersInit
<1>2. [ReadersNext]_readingVars => [Next]_vars
  BY DEF ReadersNext, readingVars, VerifyRows, VerifyHead, ReadPage
<1> QED
  BY <1>1, <1>2, PTL DEF ReadersSpec, Spec

\* A client that pages through GET /events while others append is given every
\* committed event once, in chain order (pg-event-store.ts:155, listPage).
THEOREM PagingIsComplete == ReadersSpec => []PagingSkipsNothing
<1>1. LedgerInv /\ ReadersInv => PagingSkipsNothing
  <2> SUFFICES ASSUME LedgerInv, ReadersInv PROVE PagingSkipsNothing
    OBVIOUS
  <2>1. Len(delivered) \in Nat /\ DOMAIN delivered = 1..Len(delivered) /\ head.seq \in Nat
    BY LenProperties DEF LedgerInv, TypeOK, HeadRow, ReadersInv
  <2>2. ASSUME NEW i \in DOMAIN delivered PROVE delivered[i] = CommittedLog[i].hash
    <3>1. i \in 1..head.seq
      BY <2>1 DEF ReadersInv
    <3>2. PICK e \in rows : e.seq = i /\ e.hash = delivered[i]
      BY <2>1 DEF ReadersInv
    <3>3. CommittedLog[i] \in rows /\ CommittedLog[i].seq = i
      BY <3>1, LogIsRows
    <3>4. CommittedLog[i] = e
      BY <3>2, <3>3 DEF LedgerInv, ChainIntact, Chained
    <3> QED
      BY <3>2, <3>4
  <2> QED
    BY <2>2 DEF PagingSkipsNothing, ReadersInv
<1> QED
  BY <1>1, ReadersInvariant, PTL

\* verifyChain reports no break inside the rows, and a head mismatch only when
\* an append was committed between its statements (pg-event-store.ts:169).
THEOREM VerdictsExplained == ReadersSpec => []VerdictExplained
<1>1. ReadersInv => VerdictExplained
  BY DEF ReadersInv, VerdictExplained
<1> QED
  BY <1>1, ReadersInvariant, PTL

-----------------------------------------------------------------------------
(* The transactions of the draw service: what each step is made of *)

\* The committed rows of a draw, and what a transaction read of them.
IsRows(d) ==
  /\ d = [status |-> d.status, docs |-> d.docs, manifest |-> d.manifest,
          evaluations |-> d.evaluations, decisions |-> d.decisions,
          instructions |-> d.instructions, confirmations |-> d.confirmations]
  /\ d.status \in DrawState

\* An instruction exists exactly from the settlement on.
Shape(d) ==
  /\ d.status = "SETTLEMENT_INSTRUCTED" => d.instructions # {}
  /\ d.instructions # {} => d.status \in {"SETTLEMENT_INSTRUCTED", "RECONCILED"}

Stage == {"idle", "begun", "lookup", "batch", "appending"}

DrawTyped ==
  /\ IsRows(db)
  /\ rowLock \in Tx \cup {NoTx}
  /\ call \in [Tx -> Request \cup {NoRequest}]
  /\ stage \in [Tx -> Stage]
  /\ seen = [t \in Tx |-> seen[t]]
  /\ \A t \in Tx : IsRows(seen[t])
  /\ plan \in [Tx -> Seq(AppendInput)]
  /\ attempts \in [Request -> Nat]

\* How the stage of a service method, its place inside append, its plan and its
\* locks go together.
Controlled(t) ==
  /\ stage[t] = "idle" => call[t] = NoRequest /\ pc[t] \in Ended
  /\ stage[t] # "idle" => call[t] \in Request /\ pc[t] \in Active
  /\ stage[t] \in {"idle", "begun", "lookup"} =>
       plan[t] = <<>> /\ mine[t] = {} /\ lock # t /\ pc[t] \notin {"miss", "locked"}
  /\ stage[t] = "lookup" => call[t].op \notin {"create", "import"}
  /\ stage[t] = "batch" => call[t].op = "import"
  /\ pc[t] \in {"miss", "locked"} => plan[t] # <<>> /\ req[t] = Head(plan[t])
  /\ rowLock = t => stage[t] = "appending" /\ call[t].op # "create"
  /\ (stage[t] = "appending" /\ call[t].op \notin {"create", "import"}) =>
       rowLock = t /\ Accepts(call[t].op, seen[t])
  /\ (/\ stage[t] = "appending" /\ call[t].op = "import"
      /\ seen[t].status = "SETTLEMENT_INSTRUCTED") => rowLock = t

CoreInv ==
  /\ LedgerInv
  /\ DrawTyped
  /\ Shape(db)
  /\ \A t \in Tx : Controlled(t)

StepOf(t) == (\E r \in Request : Receive(t, r)) \/ Step(t) \/ Fail(t)

\* The four ways a transaction ends.
Ends(t) == Forget(t) /\ (Commit(t) \/ InsertRefused(t) \/ Rollback(t))

\* The rows are written by a transaction that has appended all its events.
Writing(t) ==
  /\ stage[t] = "appending" /\ plan[t] = <<>> /\ pc[t] = "ready"
  /\ WriteAccepted(call[t], seen[t])
  /\ db' = RowsAfter(call[t], seen[t])
  /\ rows' = rows \cup mine[t]

\* An event of a request is something append takes.
LEMMA EventTyped ==
  ASSUME NEW r \in Request, NEW type \in DrawEventType, NEW b \in DrawState, NEW a \in DrawState
  PROVE  /\ Event(r, type, b, a) \in AppendInput
         /\ Event(r, type, b, a).key = r.key
         /\ Event(r, type, b, a).type = type
         /\ Event(r, type, b, a).body = [before |-> b, after |-> a]
<1>1. r.key \in Key /\ type \in EventType
  BY TransactionConstants
<1>2. [before |-> b, after |-> a] \in Body
  <2>1. [before |-> b, after |-> a] \in DrawBody
    BY DEF DrawBody
  <2> QED
    BY <2>1, TransactionConstants
<1> QED
  BY <1>1, <1>2 DEF Event, AppendInput

\* The plan of an operation that has read the draw: one event, or the two of a
\* confirmed settlement.
LEMMA EventsAre ==
  ASSUME NEW r \in Request, NEW s, IsRows(s), r.op # "create"
  PROVE  /\ r.op = "upload" =>
              \E ty \in {"EVIDENCE_UPLOADED", "EVIDENCE_SUPERSEDED"} :
                Events(r, s) = <<Event(r, ty, "NONE", "NONE")>>
         /\ r.op = "submit" => Events(r, s) = <<Event(r, "DRAW_SUBMITTED", s.status, "SUBMITTED")>>
         /\ r.op = "evaluate" =>
              Events(r, s) = <<Event(r, "DRAW_POLICY_EVALUATED", s.status, "UNDER_REVIEW")>>
         /\ r.op = "approve" => Events(r, s) = <<Event(r, "DRAW_APPROVED", s.status, "APPROVED")>>
         /\ r.op = "instruct" =>
              Events(r, s) =
                <<Event(r, "DRAW_SETTLEMENT_INSTRUCTED", s.status, "SETTLEMENT_INSTRUCTED")>>
         /\ (r.op = "import" /\ s.confirmations = {} /\ s.status = "SETTLEMENT_INSTRUCTED") =>
              Events(r, s) =
                <<Event(r, "DRAW_SETTLEMENT_CONFIRMED",
                        "SETTLEMENT_INSTRUCTED", "SETTLEMENT_CONFIRMED"),
                  Event(r, "DRAW_RECONCILED", "SETTLEMENT_CONFIRMED", "RECONCILED")>>
         /\ (/\ r.op = "import"
             /\ ~(s.confirmations = {} /\ s.status = "SETTLEMENT_INSTRUCTED")) =>
              Events(r, s) = <<Event(r, "DRAW_RECONCILIATION_BREAK", "NONE", "NONE")>>
<1>1. r.op = "upload" =>
        Events(r, s) =
          <<Event(r, IF s.docs = {} THEN "EVIDENCE_UPLOADED" ELSE "EVIDENCE_SUPERSEDED",
                  "NONE", "NONE")>>
  BY DEF Events
<1>2. r.op = "import" => Events(r, s) =
         IF s.confirmations = {} /\ s.status = "SETTLEMENT_INSTRUCTED"
         THEN <<Event(r, "DRAW_SETTLEMENT_CONFIRMED", s.status, "SETTLEMENT_CONFIRMED"),
                Event(r, "DRAW_RECONCILED", "SETTLEMENT_CONFIRMED", "RECONCILED")>>
         ELSE <<Event(r, "DRAW_RECONCILIATION_BREAK", "NONE", "NONE")>>
  BY DEF Events
<1>3. r.op \in {"submit", "evaluate", "approve", "instruct"} =>
        Events(r, s) = <<Event(r, EventFor(r.op), s.status, Target(r.op))>>
  BY DEF Events
<1>5. r.op = "submit" => EventFor(r.op) = "DRAW_SUBMITTED" /\ Target(r.op) = "SUBMITTED"
  BY DEF EventFor, Target
<1>6. r.op = "evaluate" => EventFor(r.op) = "DRAW_POLICY_EVALUATED" /\ Target(r.op) = "UNDER_REVIEW"
  BY DEF EventFor, Target
<1>7. r.op = "approve" => EventFor(r.op) = "DRAW_APPROVED" /\ Target(r.op) = "APPROVED"
  BY DEF EventFor, Target
<1>8. r.op = "instruct" =>
        EventFor(r.op) = "DRAW_SETTLEMENT_INSTRUCTED" /\ Target(r.op) = "SETTLEMENT_INSTRUCTED"
  BY DEF EventFor, Target
<1> QED
  BY <1>1, <1>2, <1>3, <1>5, <1>6, <1>7, <1>8

\* A list of one or two events.
IsScript(p) ==
  \/ \E x \in AppendInput : p = <<x>>
  \/ \E x, y \in AppendInput : p = <<x, y>>

\* What an operation plans is such a list.
LEMMA EventsTyped ==
  ASSUME NEW r \in Request, NEW s, IsRows(s), r.op # "create"
  PROVE  IsScript(Events(r, s)) /\ Events(r, s) \in Seq(AppendInput)
<1> DEFINE ok(p) == IsScript(p) /\ p \in Seq(AppendInput)
<1>1. r.op \in Operation \ {"create"} /\ s.status \in DrawState
  BY TransactionConstants DEF IsRows
<1>2. ASSUME NEW ty \in DrawEventType, NEW b \in DrawState, NEW a \in DrawState
      PROVE  ok(<<Event(r, ty, b, a)>>)
  <2> DEFINE x == Event(r, ty, b, a)
  <2>1. x \in AppendInput
    BY EventTyped
  <2> HIDE DEF x
  <2>2. ok(<<x>>)
    BY <2>1 DEF IsScript
  <2> QED
    BY <2>2 DEF x
<1>3. ok(<<Event(r, "DRAW_SETTLEMENT_CONFIRMED",
                 "SETTLEMENT_INSTRUCTED", "SETTLEMENT_CONFIRMED"),
           Event(r, "DRAW_RECONCILED", "SETTLEMENT_CONFIRMED", "RECONCILED")>>)
  <2> DEFINE x == Event(r, "DRAW_SETTLEMENT_CONFIRMED",
                        "SETTLEMENT_INSTRUCTED", "SETTLEMENT_CONFIRMED")
             y == Event(r, "DRAW_RECONCILED", "SETTLEMENT_CONFIRMED", "RECONCILED")
  <2>1. /\ {"DRAW_SETTLEMENT_CONFIRMED", "DRAW_RECONCILED"} \subseteq DrawEventType
        /\ {"SETTLEMENT_INSTRUCTED", "SETTLEMENT_CONFIRMED", "RECONCILED"} \subseteq DrawState
    BY DEF DrawEventType, DrawState
  <2>2. x \in AppendInput /\ y \in AppendInput
    BY <2>1, EventTyped
  <2> HIDE DEF x, y
  <2>3. ok(<<x, y>>)
    BY <2>2 DEF IsScript
  <2> QED
    BY <2>3 DEF x, y
<1>4. /\ {"NONE", "SUBMITTED", "UNDER_REVIEW", "APPROVED",
          "SETTLEMENT_INSTRUCTED"} \subseteq DrawState
      /\ {"EVIDENCE_UPLOADED", "EVIDENCE_SUPERSEDED", "DRAW_SUBMITTED", "DRAW_POLICY_EVALUATED",
          "DRAW_APPROVED", "DRAW_SETTLEMENT_INSTRUCTED",
          "DRAW_RECONCILIATION_BREAK"} \subseteq DrawEventType
  BY DEF DrawState, DrawEventType
<1> HIDE DEF ok
<1>5. CASE r.op = "upload"
  <2>1. PICK ty \in {"EVIDENCE_UPLOADED", "EVIDENCE_SUPERSEDED"} :
          Events(r, s) = <<Event(r, ty, "NONE", "NONE")>>
    BY <1>5, EventsAre
  <2> QED
    BY <1>2, <1>4, <2>1 DEF ok
<1>6. CASE r.op = "submit"
  BY <1>1, <1>2, <1>4, <1>6, EventsAre DEF ok
<1>7. CASE r.op = "evaluate"
  BY <1>1, <1>2, <1>4, <1>7, EventsAre DEF ok
<1>8. CASE r.op = "approve"
  BY <1>1, <1>2, <1>4, <1>8, EventsAre DEF ok
<1>9. CASE r.op = "instruct"
  BY <1>1, <1>2, <1>4, <1>9, EventsAre DEF ok
<1>10. CASE r.op = "import"
  BY <1>2, <1>3, <1>4, <1>10, EventsAre DEF ok
<1> QED
  BY <1>1, <1>5, <1>6, <1>7, <1>8, <1>9, <1>10 DEF Operation

\* The rows each operation leaves.
LEMMA RowsAfterAre ==
  ASSUME IsRows(db), NEW r \in Request, NEW s
  PROVE  LET d == RowsAfter(r, s)
             but(f) == \A g \in {"status", "docs", "manifest", "evaluations", "decisions",
                                 "instructions", "confirmations"} \ f : d[g] = db[g]
         IN  /\ IsRows(d)
             /\ r.op = "create" => d.status = "DRAFT" /\ but({"status"})
             /\ r.op = "upload" =>
                  /\ d.docs = db.docs \cup {[by |-> r.key, version |-> Cardinality(s.docs) + 1]}
                  /\ but({"docs"})
             /\ r.op = "submit" =>
                  d.status = "SUBMITTED" /\ d.manifest = s.docs /\ but({"status", "manifest"})
             /\ r.op = "evaluate" =>
                  /\ d.status = "UNDER_REVIEW" /\ d.evaluations = db.evaluations \cup {r.key}
                  /\ but({"status", "evaluations"})
             /\ r.op = "approve" =>
                  /\ d.status = "APPROVED" /\ d.decisions = db.decisions \cup {r.key}
                  /\ but({"status", "decisions"})
             /\ r.op = "instruct" =>
                  /\ d.status = "SETTLEMENT_INSTRUCTED"
                  /\ d.instructions = db.instructions \cup {r.key}
                  /\ but({"status", "instructions"})
             /\ (r.op = "import" /\ s.confirmations = {} /\ s.status = "SETTLEMENT_INSTRUCTED") =>
                  d.status = "RECONCILED" /\ but({"status", "confirmations"})
             /\ (/\ r.op = "import"
                 /\ ~(s.confirmations = {} /\ s.status = "SETTLEMENT_INSTRUCTED")) =>
                  but({"confirmations"})
<1> DEFINE d == RowsAfter(r, s)
<1>1. r.op \in Operation
  BY TransactionConstants
<1> QED
  BY <1>1 DEF IsRows, RowsAfter, Operation, DrawState

\* What a step of t leaves to another transaction: everything but the rows it
\* can see, which only grow.
OtherKept(u) ==
  /\ call'[u] = call[u] /\ stage'[u] = stage[u] /\ seen'[u] = seen[u] /\ plan'[u] = plan[u]
  /\ pc'[u] = pc[u] /\ req'[u] = req[u] /\ mine'[u] = mine[u] /\ view'[u] = view[u]
  /\ (lock' = u) <=> (lock = u)
  /\ (rowLock' = u) <=> (rowLock = u)

\* A transaction ends like this, however it ends.
LEMMA EndsLeaves ==
  ASSUME TypeOK, DrawTyped, NEW t \in Tx, Ends(t)
  PROVE  /\ call'[t] = NoRequest /\ stage'[t] = "idle" /\ plan'[t] = <<>> /\ seen'[t] = NoRows
         /\ pc'[t] \in Ended /\ mine'[t] = {} /\ rowLock' # t /\ lock' # t
         /\ attempts' = attempts
         /\ \A u \in Tx \ {t} : OtherKept(u)
<1> NoTx \notin Tx
  BY LedgerConstants
<1>1. /\ call' = [call EXCEPT ![t] = NoRequest] /\ stage' = [stage EXCEPT ![t] = "idle"]
      /\ seen' = [seen EXCEPT ![t] = NoRows] /\ plan' = [plan EXCEPT ![t] = <<>>]
      /\ rowLock' = IF rowLock = t THEN NoTx ELSE rowLock
      /\ attempts' = attempts
  BY DEF Ends, Forget
<1>2. /\ \E how \in Ended : pc' = [pc EXCEPT ![t] = how]
      /\ lock' = IF lock = t THEN NoTx ELSE lock
      /\ mine' = [mine EXCEPT ![t] = {}]
      /\ req' = [req EXCEPT ![t] = NoInput]
      /\ view' = [view EXCEPT ![t] = NoHead]
  <2>1. CASE Commit(t)
    BY <2>1 DEF Commit, Release, Ended
  <2>2. CASE InsertRefused(t)
    BY <2>2 DEF InsertRefused, Abandon, Release, Ended
  <2>3. CASE Rollback(t)
    BY <2>3 DEF Rollback, Abandon, Release, Ended
  <2> QED
    BY <2>1, <2>2, <2>3 DEF Ends
<1>3. DOMAIN seen = Tx
  BY DEF DrawTyped
<1> QED
  BY <1>1, <1>2, <1>3 DEF OtherKept, TypeOK, DrawTyped

\* Every step of a transaction is one of these.
LEMMA StepKinds ==
  ASSUME NEW t \in Tx, StepOf(t)
  PROVE  \/ \E r \in Request : Receive(t, r)
         \/ NotReplay(t) \/ LockRow(t) \/ NoInstruction(t) \/ LockInstructed(t)
         \/ AppendNext(t) \/ TakeHead(t) \/ WriteEvent(t)
         \/ /\ Ends(t) /\ db' = db
            /\ rows' = rows \/ (stage[t] = "begun" /\ rows' = rows \cup mine[t])
         \/ Ends(t) /\ Writing(t)
<1>1. AnswerReplay(t) => Ends(t) /\ db' = db /\ stage[t] = "begun" /\ rows' = rows \cup mine[t]
  BY DEF AnswerReplay, Ends, Commit
<1>2. EventRefused(t) => Ends(t) /\ db' = db /\ rows' = rows
  BY DEF EventRefused, Ends, InsertRefused, Abandon
<1>3. Fail(t) => Ends(t) /\ db' = db /\ rows' = rows
  BY DEF Fail, Ends, Rollback, Abandon
<1>4. WriteRows(t) => Ends(t) /\ Writing(t)
  BY DEF WriteRows, Ends, Writing, Commit
<1> QED
  BY <1>1, <1>2, <1>3, <1>4 DEF StepOf, Step

\* The steps that do not end a transaction.
LEMMA OthersKept ==
  ASSUME TypeOK, DrawTyped, NEW t \in Tx, StepOf(t), NEW u \in Tx, u # t
  PROVE  OtherKept(u)
<1> DOMAIN seen = Tx
  BY DEF DrawTyped
<1> NoTx \notin Tx
  BY LedgerConstants
<1> USE DEF OtherKept, TypeOK, DrawTyped
<1>1. CASE \E r \in Request : Receive(t, r)
  BY <1>1 DEF Receive, Begin
<1>2. CASE NotReplay(t)
  BY <1>2 DEF NotReplay, vars
<1>3. CASE LockRow(t)
  BY <1>3 DEF LockRow, LoadDraw, RowFree, vars
<1>4. CASE NoInstruction(t)
  BY <1>4 DEF NoInstruction, vars
<1>5. CASE LockInstructed(t)
  BY <1>5 DEF LockInstructed, LoadDraw, RowFree, vars
<1>6. CASE AppendNext(t)
  BY <1>6 DEF AppendNext, AppendFound, AppendMissing
<1>7. CASE TakeHead(t)
  BY <1>7 DEF TakeHead, LockHead, txVars
<1>8. CASE WriteEvent(t)
  BY <1>8 DEF WriteEvent, InsertEvent
<1>9. CASE Ends(t)
  BY <1>9, EndsLeaves
<1> QED
  BY <1>1, <1>2, <1>3, <1>4, <1>5, <1>6, <1>7, <1>8, <1>9, StepKinds

\* So another transaction's control state stays in order.
LEMMA OthersControlled ==
  ASSUME CoreInv, NEW t \in Tx, StepOf(t), NEW u \in Tx, u # t
  PROVE  Controlled(u)'
<1>1. OtherKept(u)
  BY OthersKept DEF CoreInv, LedgerInv
<1>2. Controlled(u)
  BY DEF CoreInv
<1> QED
  BY <1>1, <1>2 DEF OtherKept, Controlled

\* What is left of a plan is typed when its first event is done.
LEMMA RestTyped ==
  ASSUME NEW p \in Seq(AppendInput), p # <<>>
  PROVE  Head(p) \in AppendInput /\ Tail(p) \in Seq(AppendInput)
BY HeadTailProperties

\* Every step of a transaction is a step of the ledger or leaves it alone.
LEMMA StepIsLedgerStep ==
  ASSUME CoreInv, NEW t \in Tx, StepOf(t)
  PROVE  [Next]_vars
<1>1. CASE \E r \in Request : Receive(t, r)
  BY <1>1 DEF Receive, Next
<1>2. CASE NotReplay(t) \/ LockRow(t) \/ NoInstruction(t) \/ LockInstructed(t)
  BY <1>2 DEF NotReplay, LockRow, NoInstruction, LockInstructed
<1>3. CASE AppendNext(t)
  <2>1. Head(plan[t]) \in AppendInput
    BY <1>3, RestTyped DEF AppendNext, CoreInv, DrawTyped
  <2>2. AppendStart(t)
    BY <1>3, <2>1 DEF AppendNext, AppendStart
  <2> QED
    BY <2>2 DEF Next
<1>4. CASE TakeHead(t) \/ WriteEvent(t)
  BY <1>4 DEF TakeHead, WriteEvent, Next
<1>5. CASE Ends(t)
  BY <1>5 DEF Ends, Next
<1> QED
  BY <1>1, <1>2, <1>3, <1>4, <1>5, StepKinds

-----------------------------------------------------------------------------
(* The core invariant, one lemma per kind of step *)

\* A request begins with nothing planned.
LEMMA ReceiveCore ==
  ASSUME CoreInv, NEW t \in Tx, NEW r \in Request, Receive(t, r)
  PROVE  DrawTyped' /\ Shape(db)' /\ Controlled(t)'
<1> USE DEF CoreInv
<1>1. /\ db' = db /\ rowLock' = rowLock /\ seen' = seen /\ plan' = plan
      /\ call' = [call EXCEPT ![t] = r] /\ stage' = [stage EXCEPT ![t] = "begun"]
      /\ attempts' = [attempts EXCEPT ![r] = @ + 1] /\ stage[t] = "idle"
      /\ pc' = [pc EXCEPT ![t] = "ready"] /\ mine' = mine /\ lock' = lock
  BY DEF Receive, Begin
<1>2. DrawTyped'
  BY <1>1 DEF DrawTyped, Stage
<1>3. Shape(db)'
  BY <1>1
<1>4. Controlled(t)'
  BY <1>1 DEF Controlled, DrawTyped, LedgerInv, TypeOK, Active
<1> QED
  BY <1>2, <1>3, <1>4

\* The first lookup decides what comes next.
LEMMA NotReplayCore ==
  ASSUME CoreInv, NEW t \in Tx, NotReplay(t)
  PROVE  DrawTyped' /\ Shape(db)' /\ Controlled(t)'
<1> USE DEF CoreInv
<1> DEFINE to == CASE call[t].op = "create" -> "appending"
                   [] call[t].op = "import" -> "batch"
                   [] OTHER -> "lookup"
           first == CASE call[t].op = "create" ->
                           <<Event(call[t], "DRAW_CREATED", "NONE", "DRAFT")>>
                      [] call[t].op = "import" ->
                           <<Event(call[t], "CSV_BATCH_IMPORTED", "NONE", "NONE")>>
                      [] OTHER -> <<>>
<1>1. /\ UNCHANGED <<vars, db, rowLock, call, seen, attempts>> /\ stage[t] = "begun"
      /\ stage' = [stage EXCEPT ![t] = to] /\ plan' = [plan EXCEPT ![t] = first]
  BY DEF NotReplay
<1>2. /\ call[t] \in Request /\ pc[t] = "ready" /\ plan[t] = <<>>
      /\ rowLock # t /\ mine[t] = {} /\ lock # t
  BY <1>1 DEF Controlled, Active
<1>3. first \in Seq(AppendInput)
  <2>1. /\ {"DRAW_CREATED", "CSV_BATCH_IMPORTED"} \subseteq DrawEventType
        /\ {"NONE", "DRAFT"} \subseteq DrawState
    BY DEF DrawEventType, DrawState
  <2> DEFINE c == Event(call[t], "DRAW_CREATED", "NONE", "DRAFT")
             b == Event(call[t], "CSV_BATCH_IMPORTED", "NONE", "NONE")
  <2>2. c \in AppendInput /\ b \in AppendInput
    BY <1>2, <2>1, EventTyped
  <2>3. first = CASE call[t].op = "create" -> <<c>>
                  [] call[t].op = "import" -> <<b>>
                  [] OTHER -> <<>>
    OBVIOUS
  <2> HIDE DEF c, b, first
  <2> QED
    BY <2>2, <2>3
<1>4. to \in Stage /\ to \in {"appending", "batch", "lookup"}
      /\ (to = "appending" => call[t].op = "create")
      /\ (to = "batch" => call[t].op = "import")
      /\ (to = "lookup" => call[t].op \notin {"create", "import"} /\ first = <<>>)
  BY DEF Stage
<1> HIDE DEF to, first
<1>5. DrawTyped'
  BY <1>1, <1>3, <1>4 DEF DrawTyped
<1>6. Shape(db)'
  BY <1>1
<1>7. stage'[t] = to /\ plan'[t] = first
  BY <1>1 DEF DrawTyped
<1>8. Controlled(t)'
  BY <1>1, <1>2, <1>4, <1>7 DEF Controlled, Active, vars
<1> QED
  BY <1>5, <1>6, <1>8

\* Locking the draw row: the operation may proceed from what it read.
LEMMA LockRowCore ==
  ASSUME CoreInv, NEW t \in Tx, LockRow(t)
  PROVE  DrawTyped' /\ Shape(db)' /\ Controlled(t)'
<1> USE DEF CoreInv
<1>1. /\ UNCHANGED <<vars, db, call, attempts>> /\ stage[t] = "lookup" /\ Accepts(call[t].op, db)
      /\ rowLock' = t /\ seen' = [seen EXCEPT ![t] = db]
      /\ plan' = [plan EXCEPT ![t] = Events(call[t], db)]
      /\ stage' = [stage EXCEPT ![t] = "appending"]
  BY DEF LockRow, LoadDraw
<1>2. call[t] \in Request /\ pc[t] = "ready" /\ call[t].op \notin {"create", "import"}
  BY <1>1 DEF Controlled, Active
<1>3. Events(call[t], db) \in Seq(AppendInput)
  BY <1>2, EventsTyped DEF DrawTyped
<1>4. DrawTyped'
  BY <1>1, <1>3 DEF DrawTyped, Stage
<1>5. Shape(db)'
  BY <1>1
<1>6. stage'[t] = "appending" /\ seen'[t] = db /\ call' = call /\ pc' = pc /\ rowLock' = t
  BY <1>1 DEF DrawTyped, vars
<1>7. Controlled(t)'
  BY <1>1, <1>2, <1>6 DEF Controlled, Active
<1> QED
  BY <1>4, <1>5, <1>7

\* The import that finds no instruction plans a break and locks nothing.
LEMMA NoInstructionCore ==
  ASSUME CoreInv, NEW t \in Tx, NoInstruction(t)
  PROVE  DrawTyped' /\ Shape(db)' /\ Controlled(t)'
<1> USE DEF CoreInv
<1> DEFINE x == Event(call[t], "DRAW_RECONCILIATION_BREAK", "NONE", "NONE")
<1>1. /\ UNCHANGED <<vars, db, rowLock, call, attempts>> /\ stage[t] = "batch" /\ pc[t] = "ready"
      /\ db.instructions = {} /\ seen' = [seen EXCEPT ![t] = db]
      /\ plan' = [plan EXCEPT ![t] = <<x>>] /\ stage' = [stage EXCEPT ![t] = "appending"]
  BY DEF NoInstruction
<1>2. /\ call[t] \in Request /\ call[t].op = "import" /\ rowLock # t
      /\ db.status # "SETTLEMENT_INSTRUCTED"
  BY <1>1 DEF Controlled, Shape
<1>3. x \in AppendInput
  <2>1. "DRAW_RECONCILIATION_BREAK" \in DrawEventType /\ "NONE" \in DrawState
    BY DEF DrawEventType, DrawState
  <2> QED
    BY <1>2, <2>1, EventTyped
<1> HIDE DEF x
<1>4. <<x>> \in Seq(AppendInput)
  BY <1>3
<1>5. DrawTyped'
  BY <1>1, <1>4 DEF DrawTyped, Stage
<1>6. Shape(db)'
  BY <1>1
<1>7. stage'[t] = "appending" /\ seen'[t] = db /\ call' = call /\ pc' = pc /\ rowLock' = rowLock
  BY <1>1 DEF DrawTyped, vars
<1>8. Controlled(t)'
  BY <1>1, <1>2, <1>7 DEF Controlled, Active
<1> QED
  BY <1>5, <1>6, <1>8

\* The import that finds one locks the draw row.
LEMMA LockInstructedCore ==
  ASSUME CoreInv, NEW t \in Tx, LockInstructed(t)
  PROVE  DrawTyped' /\ Shape(db)' /\ Controlled(t)'
<1> USE DEF CoreInv
<1>1. /\ UNCHANGED <<vars, db, call, attempts>> /\ stage[t] = "batch" /\ pc[t] = "ready"
      /\ rowLock' = t /\ seen' = [seen EXCEPT ![t] = db]
      /\ plan' = [plan EXCEPT ![t] = Events(call[t], db)]
      /\ stage' = [stage EXCEPT ![t] = "appending"]
  BY DEF LockInstructed, LoadDraw
<1>2. call[t] \in Request /\ call[t].op = "import"
  BY <1>1 DEF Controlled
<1>3. Events(call[t], db) \in Seq(AppendInput)
  BY <1>2, EventsTyped DEF DrawTyped
<1>4. DrawTyped'
  BY <1>1, <1>3 DEF DrawTyped, Stage
<1>5. Shape(db)'
  BY <1>1
<1>6. stage'[t] = "appending" /\ call' = call /\ pc' = pc /\ rowLock' = t
  BY <1>1 DEF DrawTyped, vars
<1>7. Controlled(t)'
  BY <1>1, <1>2, <1>6 DEF Controlled, Active
<1> QED
  BY <1>4, <1>5, <1>7

\* Looking for the next event of the plan.
LEMMA AppendNextCore ==
  ASSUME CoreInv, NEW t \in Tx, AppendNext(t)
  PROVE  DrawTyped' /\ Shape(db)' /\ Controlled(t)'
<1> USE DEF CoreInv
<1>1. /\ UNCHANGED <<db, rowLock, call, stage, seen, attempts>>
      /\ stage[t] \in {"batch", "appending"} /\ plan[t] # <<>> /\ pc[t] = "ready"
      /\ mine' = mine /\ lock' = lock
      /\ \/ plan' = [plan EXCEPT ![t] = Tail(@)] /\ pc' = pc /\ req' = req
         \/ /\ plan' = plan /\ pc' = [pc EXCEPT ![t] = "miss"]
            /\ req' = [req EXCEPT ![t] = Head(plan[t])]
  BY DEF AppendNext, AppendFound, AppendMissing
<1>2. Tail(plan[t]) \in Seq(AppendInput)
  BY <1>1, RestTyped DEF DrawTyped
<1>3. DrawTyped'
  BY <1>1, <1>2 DEF DrawTyped
<1>4. Shape(db)'
  BY <1>1
<1>5. Controlled(t)
  OBVIOUS
<1>6. Controlled(t)'
  <2>1. CASE pc' = pc
    BY <1>1, <1>5, <2>1 DEF Controlled
  <2>2. CASE /\ plan' = plan /\ pc' = [pc EXCEPT ![t] = "miss"]
             /\ req' = [req EXCEPT ![t] = Head(plan[t])]
    BY <1>1, <1>5, <2>2 DEF Controlled, LedgerInv, TypeOK, Active
  <2> QED
    BY <1>1, <2>1, <2>2
<1> QED
  BY <1>3, <1>4, <1>6

\* Taking the chain head.
LEMMA TakeHeadCore ==
  ASSUME CoreInv, NEW t \in Tx, TakeHead(t)
  PROVE  DrawTyped' /\ Shape(db)' /\ Controlled(t)'
<1> USE DEF CoreInv
<1>1. /\ UNCHANGED <<db, rowLock, call, stage, seen, plan, attempts>>
      /\ pc[t] = "miss" /\ pc' = [pc EXCEPT ![t] = "locked"] /\ req' = req /\ mine' = mine
  BY DEF TakeHead, LockHead, txVars
<1>2. DrawTyped' /\ Shape(db)'
  BY <1>1 DEF DrawTyped
<1>3. Controlled(t)
  OBVIOUS
<1>4. stage[t] \in {"batch", "appending"}
  BY <1>1, <1>3 DEF Controlled, DrawTyped, Stage
<1>5. Controlled(t)'
  BY <1>1, <1>3, <1>4 DEF Controlled, LedgerInv, TypeOK, Active
<1> QED
  BY <1>2, <1>5

\* Writing the event.
LEMMA WriteEventCore ==
  ASSUME CoreInv, NEW t \in Tx, WriteEvent(t)
  PROVE  DrawTyped' /\ Shape(db)' /\ Controlled(t)'
<1> USE DEF CoreInv
<1>1. /\ UNCHANGED <<db, rowLock, call, stage, seen, attempts>>
      /\ plan' = [plan EXCEPT ![t] = Tail(@)]
      /\ pc[t] = "locked" /\ pc' = [pc EXCEPT ![t] = "ready"]
  BY DEF WriteEvent, InsertEvent
<1>2. Controlled(t)
  OBVIOUS
<1>3. plan[t] # <<>> /\ stage[t] \in {"batch", "appending"}
  BY <1>1, <1>2 DEF Controlled, DrawTyped, Stage
<1>4. Tail(plan[t]) \in Seq(AppendInput)
  BY <1>3, RestTyped DEF DrawTyped
<1>5. DrawTyped' /\ Shape(db)'
  BY <1>1, <1>4 DEF DrawTyped
<1>6. Controlled(t)'
  BY <1>1, <1>2, <1>3 DEF Controlled, LedgerInv, TypeOK, Active
<1> QED
  BY <1>5, <1>6

\* A transaction that ends without writing the draw's rows.
LEMMA EndsCore ==
  ASSUME CoreInv, NEW t \in Tx, Ends(t), IsRows(db'), Shape(db)'
  PROVE  DrawTyped' /\ Controlled(t)'
<1>1. DrawTyped /\ TypeOK
  BY DEF CoreInv, LedgerInv
<1>2. /\ call'[t] = NoRequest /\ stage'[t] = "idle" /\ plan'[t] = <<>> /\ seen'[t] = NoRows
      /\ pc'[t] \in Ended /\ mine'[t] = {} /\ rowLock' # t /\ lock' # t
  BY <1>1, EndsLeaves
<1>3. IsRows(NoRows)
  BY DEF IsRows, NoRows, DrawState
<1>4. DrawTyped'
  BY <1>1, <1>3 DEF DrawTyped, Ends, Forget, Stage
<1>5. Controlled(t)'
  BY <1>2 DEF Controlled, Ended
<1> QED
  BY <1>4, <1>5

\* A transaction that writes the draw's rows moves the draw along its states.
LEMMA WritingShape ==
  ASSUME CoreInv, NEW t \in Tx, Writing(t)
  PROVE  IsRows(db') /\ Shape(db)'
<1> USE DEF CoreInv
<1> DEFINE r == call[t]
           s == seen[t]
<1>1. /\ r \in Request /\ r.op \in Operation /\ IsRows(db)
      /\ r.op \notin {"create", "import"} => Accepts(r.op, s)
  BY TransactionConstants DEF Writing, Controlled, DrawTyped
<1>2. db' = RowsAfter(r, s) /\ WriteAccepted(r, s)
  BY DEF Writing
<1> HIDE DEF r, s
<1>3. IsRows(db')
  BY <1>1, <1>2, RowsAfterAre
<1>4. CASE r.op = "create"
  BY <1>1, <1>2, <1>3, <1>4, RowsAfterAre DEF Shape, WriteAccepted
<1>5. CASE r.op = "upload"
  BY <1>1, <1>2, <1>3, <1>5, RowsAfterAre DEF Shape
<1>6. CASE r.op \in {"submit", "evaluate", "approve"}
  BY <1>1, <1>2, <1>3, <1>6, RowsAfterAre DEF Shape, WriteAccepted, Accepts
<1>7. CASE r.op = "instruct"
  BY <1>1, <1>2, <1>3, <1>7, RowsAfterAre DEF Shape, WriteAccepted, Accepts
<1>8. CASE r.op = "import"
  BY <1>1, <1>2, <1>3, <1>8, RowsAfterAre DEF Shape, WriteAccepted
<1> QED
  BY <1>1, <1>3, <1>4, <1>5, <1>6, <1>7, <1>8 DEF Operation

\* The core invariant holds at the start and every step keeps it.
LEMMA CoreInit == TransactionsInit => CoreInv
<1> SUFFICES ASSUME TransactionsInit PROVE CoreInv
  OBVIOUS
<1>1. LedgerInv
  BY LedgerInit DEF TransactionsInit
<1>2. IsRows(NoRows) /\ Shape(NoRows)
  BY DEF IsRows, NoRows, DrawState, Shape
<1>3. DrawTyped
  BY <1>2 DEF TransactionsInit, DrawTyped, Stage
<1>4. \A t \in Tx : Controlled(t)
  BY LedgerConstants DEF TransactionsInit, Init, Controlled, Ended
<1> QED
  BY <1>1, <1>2, <1>3, <1>4 DEF CoreInv, TransactionsInit

\* Every step of a transaction keeps the core invariant.
LEMMA CoreStep ==
  ASSUME CoreInv, NEW t \in Tx, StepOf(t)
  PROVE  CoreInv'
<1>1. LedgerInv'
  BY StepIsLedgerStep, LedgerStep DEF CoreInv
<1>2. DrawTyped' /\ Shape(db)' /\ Controlled(t)'
  <2>1. CASE \E r \in Request : Receive(t, r)
    BY <2>1, ReceiveCore
  <2>2. CASE NotReplay(t)
    BY <2>2, NotReplayCore
  <2>3. CASE LockRow(t)
    BY <2>3, LockRowCore
  <2>4. CASE NoInstruction(t)
    BY <2>4, NoInstructionCore
  <2>5. CASE LockInstructed(t)
    BY <2>5, LockInstructedCore
  <2>6. CASE AppendNext(t)
    BY <2>6, AppendNextCore
  <2>7. CASE TakeHead(t)
    BY <2>7, TakeHeadCore
  <2>8. CASE WriteEvent(t)
    BY <2>8, WriteEventCore
  <2>9. CASE Ends(t) /\ db' = db
    <3>1. IsRows(db') /\ Shape(db)'
      BY <2>9 DEF CoreInv, DrawTyped
    <3> QED
      BY <2>9, <3>1, EndsCore
  <2>10. CASE Ends(t) /\ Writing(t)
    BY <2>10, WritingShape, EndsCore
  <2> QED
    BY <2>1, <2>2, <2>3, <2>4, <2>5, <2>6, <2>7, <2>8, <2>9, <2>10, StepKinds
<1>3. \A u \in Tx : u # t => Controlled(u)'
  BY OthersControlled
<1> QED
  BY <1>1, <1>2, <1>3 DEF CoreInv

-----------------------------------------------------------------------------
(* What a transaction has appended of what it set out to append *)

Batch(r) == Event(r, "CSV_BATCH_IMPORTED", "NONE", "NONE")

\* The events of the present stage, from the first one on.
Script(t) ==
  CASE stage[t] = "batch" -> <<Batch(call[t])>>
    [] stage[t] # "batch" /\ call[t].op = "create" ->
         <<Event(call[t], "DRAW_CREATED", "NONE", "DRAFT")>>
    [] OTHER -> Events(call[t], seen[t])

\* p is what is left of the list s; DoneOf are the events in front of it.
Rest(s, p) == p = s \/ p = <<>> \/ (Len(s) = 2 /\ p = <<s[2]>>)

DoneOf(s, p) == IF p = s THEN {} ELSE IF p = <<>> THEN {s[i] : i \in DOMAIN s} ELSE {s[1]}

Writes(e, x) == e.key = x.key /\ e.type = x.type /\ e.body = x.body

\* Every event that is done is there to see; whatever the transaction has
\* inserted is one of them, or the batch event of an import; and a settlement is
\* confirmed before it is reconciled.
OnScript(t) ==
  stage[t] \in {"batch", "appending"} =>
    /\ Rest(Script(t), plan[t])
    /\ \A x \in DoneOf(Script(t), plan[t]) : \E e \in Visible(t) : SameKey(e, x)
    /\ \A e \in mine[t] :
         \/ \E x \in DoneOf(Script(t), plan[t]) : Writes(e, x)
         \/ stage[t] = "appending" /\ call[t].op = "import" /\ Writes(e, Batch(call[t]))
    /\ \A e, f \in mine[t] :
         e.type = "DRAW_SETTLEMENT_CONFIRMED" /\ f.type = "DRAW_RECONCILED" => e.seq < f.seq

Progress == \A t \in Tx : OnScript(t)

\* A list of one or two events loses its first one, which is then done.
LEMMA RestAdvances ==
  ASSUME NEW s, IsScript(s), NEW p, Rest(s, p), p # <<>>
  PROVE  /\ Rest(s, Tail(p))
         /\ DoneOf(s, Tail(p)) = DoneOf(s, p) \cup {Head(p)}
<1>1. CASE \E x \in AppendInput : s = <<x>>
  <2>1. PICK x \in AppendInput : s = <<x>>
    BY <1>1
  <2>2. DOMAIN s = {1} /\ s[1] = x /\ Len(s) = 1
    BY <2>1
  <2>3. p = s
    BY <2>2 DEF Rest
  <2>4. Head(p) = x /\ Tail(p) = <<>>
    BY <2>1, <2>3
  <2>5. Tail(p) # s /\ p # <<>>
    BY <2>1, <2>3, <2>4
  <2>6. {s[i] : i \in DOMAIN s} = {x}
    BY <2>2
  <2>7. DoneOf(s, p) = {} /\ DoneOf(s, Tail(p)) = {x}
    BY <2>3, <2>4, <2>5, <2>6 DEF DoneOf
  <2> QED
    BY <2>4, <2>7 DEF Rest
<1>2. CASE \E x, y \in AppendInput : s = <<x, y>>
  <2>1. PICK x, y \in AppendInput : s = <<x, y>>
    BY <1>2
  <2>2. DOMAIN s = {1, 2} /\ s[1] = x /\ s[2] = y /\ Len(s) = 2 /\ Len(<<y>>) = 1
    BY <2>1
  <2>3. CASE p = s
    <3>1. Head(p) = x /\ Tail(p) = <<y>>
      BY <2>1, <2>3
    <3>2. <<y>> # s /\ <<y>> # <<>>
      BY <2>2
    <3>3. DoneOf(s, p) = {} /\ DoneOf(s, Tail(p)) = {x}
      BY <2>2, <2>3, <3>1, <3>2 DEF DoneOf
    <3> QED
      BY <2>2, <3>1, <3>3 DEF Rest
  <2>4. CASE p = <<y>>
    <3>1. Head(p) = y /\ Tail(p) = <<>>
      BY <2>4
    <3>2. p # s /\ p # <<>> /\ <<>> # s
      BY <2>2, <2>4
    <3>3. DoneOf(s, p) = {x}
      <4>1. DoneOf(s, p) = {s[1]}
        BY <3>2 DEF DoneOf
      <4> QED
        BY <2>2, <4>1
    <3>4. {s[i] : i \in DOMAIN s} = {x, y}
      BY <2>2
    <3>5. DoneOf(s, Tail(p)) = {x, y}
      BY <3>1, <3>2, <3>4 DEF DoneOf
    <3> QED
      BY <3>1, <3>3, <3>5 DEF Rest
  <2> QED
    BY <2>2, <2>3, <2>4 DEF Rest
<1> QED
  BY <1>1, <1>2 DEF IsScript

\* A list nothing of which is done, and one all of which is.
LEMMA RestEnds ==
  ASSUME NEW s, IsScript(s)
  PROVE  /\ Rest(s, s) /\ DoneOf(s, s) = {}
         /\ DoneOf(s, <<>>) = {s[i] : i \in DOMAIN s}
<1>1. s # <<>>
  BY DEF IsScript
<1> QED
  BY <1>1 DEF Rest, DoneOf

\* The events of a list of one or two.
LEMMA ScriptMembers ==
  ASSUME NEW x \in AppendInput, NEW y \in AppendInput
  PROVE  /\ DoneOf(<<x>>, <<>>) = {x}
         /\ DoneOf(<<x, y>>, <<>>) = {x, y}
         /\ IsScript(<<x>>) /\ IsScript(<<x, y>>)
<1>1. IsScript(<<x>>) /\ IsScript(<<x, y>>)
  BY DEF IsScript
<1>2. {<<x>>[i] : i \in DOMAIN <<x>>} = {x}
  OBVIOUS
<1>3. {<<x, y>>[i] : i \in DOMAIN <<x, y>>} = {x, y}
  <2>1. DOMAIN <<x, y>> = {1, 2} /\ <<x, y>>[1] = x /\ <<x, y>>[2] = y
    OBVIOUS
  <2> QED
    BY <2>1
<1>4. DoneOf(<<x>>, <<>>) = {x}
  BY <1>1, <1>2, RestEnds
<1>5. DoneOf(<<x, y>>, <<>>) = {x, y}
  BY <1>1, <1>3, RestEnds
<1> QED
  BY <1>1, <1>4, <1>5

\* The members of a list of events, and the events that are done, are events.
LEMMA DoneTyped ==
  ASSUME NEW s, IsScript(s), NEW p, Rest(s, p)
  PROVE  /\ \A x \in DoneOf(s, p) : x \in {s[i] : i \in DOMAIN s}
         /\ p # <<>> => Head(p) \in {s[i] : i \in DOMAIN s}
<1>1. CASE \E x \in AppendInput : s = <<x>>
  <2>1. PICK x \in AppendInput : s = <<x>>
    BY <1>1
  <2>2. DOMAIN s = {1} /\ s[1] = x /\ Len(s) = 1
    BY <2>1
  <2>3. p # <<>> => Head(p) = x
    BY <2>1, <2>2 DEF Rest
  <2> QED
    BY <2>2, <2>3 DEF DoneOf
<1>2. CASE \E x, y \in AppendInput : s = <<x, y>>
  <2>1. PICK x, y \in AppendInput : s = <<x, y>>
    BY <1>2
  <2>2. DOMAIN s = {1, 2} /\ s[1] = x /\ s[2] = y
    BY <2>1
  <2>3. p # <<>> => Head(p) = x \/ Head(p) = y
    BY <2>1, <2>2 DEF Rest
  <2> QED
    BY <2>2, <2>3 DEF DoneOf
<1> QED
  BY <1>1, <1>2 DEF IsScript

\* The events of an operation carry its key and are of the types of the service;
\* a confirmation comes first.
ScriptOf(s, r) ==
  /\ IsScript(s)
  /\ \A i \in DOMAIN s : s[i].key = r.key /\ r.key # NoKey
  /\ \A i \in DOMAIN s : s[i].type = "DRAW_SETTLEMENT_CONFIRMED" => i = 1

\* One event under the key of the request is such a list.
LEMMA OneEventScript ==
  ASSUME NEW r \in Request, NEW x \in AppendInput, x.key = r.key
  PROVE  ScriptOf(<<x>>, r)
<1>1. r.key # NoKey
  BY TransactionConstants, LedgerConstants
<1>2. IsScript(<<x>>)
  BY DEF IsScript
<1> QED
  BY <1>1, <1>2 DEF ScriptOf

\* So is whatever an operation plans.
LEMMA EventsScript ==
  ASSUME NEW r \in Request, NEW s, IsRows(s), r.op # "create"
  PROVE  ScriptOf(Events(r, s), r)
<1>1. r.op \in Operation \ {"create"} /\ s.status \in DrawState /\ r.key # NoKey
  BY TransactionConstants, LedgerConstants DEF IsRows
<1>2. ASSUME NEW ty \in DrawEventType, NEW b \in DrawState, NEW a \in DrawState
      PROVE  ScriptOf(<<Event(r, ty, b, a)>>, r)
  <2> DEFINE x == Event(r, ty, b, a)
  <2>1. x \in AppendInput /\ x.key = r.key
    <3>1. x \in AppendInput
      BY EventTyped
    <3>2. x.key = r.key
      BY DEF Event
    <3> QED
      BY <3>1, <3>2
  <2> HIDE DEF x
  <2>2. ScriptOf(<<x>>, r)
    BY <2>1, OneEventScript
  <2> QED
    BY <2>2 DEF x
<1> DEFINE c == Event(r, "DRAW_SETTLEMENT_CONFIRMED",
                      "SETTLEMENT_INSTRUCTED", "SETTLEMENT_CONFIRMED")
           d == Event(r, "DRAW_RECONCILED", "SETTLEMENT_CONFIRMED", "RECONCILED")
<1>3. /\ {"NONE", "SUBMITTED", "UNDER_REVIEW", "APPROVED", "SETTLEMENT_INSTRUCTED",
          "SETTLEMENT_CONFIRMED", "RECONCILED"} \subseteq DrawState
      /\ {"EVIDENCE_UPLOADED", "EVIDENCE_SUPERSEDED", "DRAW_SUBMITTED", "DRAW_POLICY_EVALUATED",
          "DRAW_APPROVED", "DRAW_SETTLEMENT_INSTRUCTED", "DRAW_RECONCILIATION_BREAK",
          "DRAW_SETTLEMENT_CONFIRMED", "DRAW_RECONCILED"} \subseteq DrawEventType
  BY DEF DrawState, DrawEventType
<1>4. ScriptOf(<<c, d>>, r)
  <2>1. /\ c \in AppendInput /\ d \in AppendInput /\ c.key = r.key /\ d.key = r.key
        /\ d.type = "DRAW_RECONCILED"
    <3>1. c \in AppendInput /\ d \in AppendInput
      BY <1>3, EventTyped
    <3>2. c.key = r.key /\ d.key = r.key /\ d.type = "DRAW_RECONCILED"
      BY DEF Event
    <3> QED
      BY <3>1, <3>2
  <2> HIDE DEF c, d
  <2>2. IsScript(<<c, d>>)
    BY <2>1 DEF IsScript
  <2> DEFINE p == <<c, d>>
  <2>3. DOMAIN p = {1, 2} /\ p[1] = c /\ p[2] = d
    OBVIOUS
  <2> HIDE DEF p
  <2>4. ScriptOf(p, r)
    BY <1>1, <2>1, <2>2, <2>3 DEF ScriptOf, p
  <2> QED
    BY <2>4 DEF p, c, d
<1> DEFINE ok(p) == ScriptOf(p, r)
<1> HIDE DEF ok
<1>5. CASE r.op = "upload"
  <2>1. PICK ty \in {"EVIDENCE_UPLOADED", "EVIDENCE_SUPERSEDED"} :
          Events(r, s) = <<Event(r, ty, "NONE", "NONE")>>
    BY <1>5, EventsAre
  <2> QED
    BY <1>2, <1>3, <2>1
<1>6. CASE r.op \in {"submit", "evaluate", "approve", "instruct"}
  <2>1. \E ty \in DrawEventType, a \in DrawState : Events(r, s) = <<Event(r, ty, s.status, a)>>
    <3>1. CASE r.op = "submit"
      BY <1>3, <3>1, EventsAre
    <3>2. CASE r.op = "evaluate"
      BY <1>3, <3>2, EventsAre
    <3>3. CASE r.op = "approve"
      BY <1>3, <3>3, EventsAre
    <3>4. CASE r.op = "instruct"
      BY <1>3, <3>4, EventsAre
    <3> QED
      BY <1>6, <3>1, <3>2, <3>3, <3>4
  <2> QED
    BY <1>1, <1>2, <2>1
<1>7. CASE r.op = "import"
  BY <1>2, <1>3, <1>4, <1>7, EventsAre
<1> QED
  BY <1>1, <1>5, <1>6, <1>7 DEF Operation

\* So is the list of every stage that appends, which is:
LEMMA ScriptIs ==
  ASSUME CoreInv, NEW t \in Tx, stage[t] \in {"batch", "appending"}
  PROVE  /\ ScriptOf(Script(t), call[t]) /\ call[t] \in Request
         /\ stage[t] = "batch" => Script(t) = <<Batch(call[t])>> /\ call[t].op = "import"
         /\ (stage[t] = "appending" /\ call[t].op = "create") =>
              Script(t) = <<Event(call[t], "DRAW_CREATED", "NONE", "DRAFT")>>
         /\ (stage[t] = "appending" /\ call[t].op # "create") =>
              Script(t) = Events(call[t], seen[t])
         /\ Batch(call[t]) \in AppendInput
<1>1. call[t] \in Request /\ IsRows(seen[t]) /\ (stage[t] = "batch" => call[t].op = "import")
  BY DEF CoreInv, DrawTyped, Controlled
<1>2. /\ {"DRAW_CREATED", "CSV_BATCH_IMPORTED"} \subseteq DrawEventType
      /\ {"NONE", "DRAFT"} \subseteq DrawState
  BY DEF DrawEventType, DrawState
<1>3. ScriptOf(<<Batch(call[t])>>, call[t]) /\ Batch(call[t]) \in AppendInput
  <2> DEFINE x == Batch(call[t])
  <2>1. x \in AppendInput /\ x.key = call[t].key
    <3>1. x \in AppendInput
      BY <1>1, <1>2, EventTyped DEF Batch
    <3>2. x.key = call[t].key
      BY DEF Batch, Event
    <3> QED
      BY <3>1, <3>2
  <2> HIDE DEF x
  <2>2. ScriptOf(<<x>>, call[t])
    BY <1>1, <2>1, OneEventScript
  <2> QED
    BY <2>1, <2>2 DEF x
<1>4. ScriptOf(<<Event(call[t], "DRAW_CREATED", "NONE", "DRAFT")>>, call[t])
  <2> DEFINE x == Event(call[t], "DRAW_CREATED", "NONE", "DRAFT")
  <2>1. x \in AppendInput /\ x.key = call[t].key
    <3>1. x \in AppendInput
      BY <1>1, <1>2, EventTyped
    <3>2. x.key = call[t].key
      BY DEF Event
    <3> QED
      BY <3>1, <3>2
  <2> HIDE DEF x
  <2>2. ScriptOf(<<x>>, call[t])
    BY <1>1, <2>1, OneEventScript
  <2> QED
    BY <2>2 DEF x
<1>5. call[t].op # "create" => ScriptOf(Events(call[t], seen[t]), call[t])
  BY <1>1, EventsScript
<1> QED
  BY <1>1, <1>3, <1>4, <1>5 DEF Script

-----------------------------------------------------------------------------
\* Rows that another transaction sees do not go away.
LEMMA VisibleGrows ==
  ASSUME CoreInv, NEW t \in Tx, StepOf(t), NEW u \in Tx, u # t
  PROVE  Visible(u) \subseteq Visible(u)' /\ rows \subseteq rows' /\ mine'[u] = mine[u]
<1>1. rows \subseteq rows'
  BY StepIsLedgerStep, RowsStay
<1>2. mine'[u] = mine[u]
  BY OthersKept DEF CoreInv, LedgerInv, OtherKept
<1> QED
  BY <1>1, <1>2 DEF Visible

\* Seeing more does not undo what is done.
LEMMA ProgressKept ==
  ASSUME NEW u \in Tx, OnScript(u), stage'[u] = stage[u], call'[u] = call[u], seen'[u] = seen[u],
         plan'[u] = plan[u], mine'[u] = mine[u], Visible(u) \subseteq Visible(u)'
  PROVE  OnScript(u)'
<1> DEFINE s == Script(u)
           vis == Visible(u)
           vis2 == Visible(u)'
<1>1. Script(u)' = s
  BY DEF Script
<1>2. stage[u] \in {"batch", "appending"} =>
        \A x \in DoneOf(s, plan[u]) : \E e \in vis2 : SameKey(e, x)
  BY DEF OnScript
<1>3. Visible(u)' = vis2 /\ Script(u) = s
  OBVIOUS
<1> HIDE DEF s, vis, vis2
<1> QED
  BY <1>1, <1>2, <1>3 DEF OnScript

\* A step of one transaction leaves the progress of the others.
LEMMA OthersProgress ==
  ASSUME CoreInv, Progress, NEW t \in Tx, StepOf(t), NEW u \in Tx, u # t
  PROVE  OnScript(u)'
<1>1. OtherKept(u)
  BY OthersKept DEF CoreInv, LedgerInv
<1>2. Visible(u) \subseteq Visible(u)'
  BY VisibleGrows
<1>3. OnScript(u)
  BY DEF Progress
<1> QED
  BY <1>1, <1>2, <1>3, ProgressKept DEF OtherKept

\* A new script, with nothing of it done.
LEMMA FreshScript ==
  ASSUME NEW t \in Tx, NEW s, IsScript(s), Script(t)' = s, plan'[t] = s,
         \A e \in mine'[t] : /\ stage'[t] = "appending" /\ call'[t].op = "import"
                             /\ Writes(e, Batch(call'[t])) /\ e.type = "CSV_BATCH_IMPORTED"
  PROVE  OnScript(t)'
<1>1. Rest(s, s) /\ DoneOf(s, s) = {}
  BY RestEnds
<1>2. Batch(call[t])' = Batch(call'[t])
  BY DEF Batch, Event
<1> QED
  BY <1>1, <1>2 DEF OnScript

\* What an import has inserted when it goes for the rows: at most its batch event.
LEMMA BatchMine ==
  ASSUME CoreInv, Progress, NEW t \in Tx, stage[t] = "batch"
  PROVE  \A e \in mine[t] : Writes(e, Batch(call[t])) /\ e.type = "CSV_BATCH_IMPORTED"
<1>1. Script(t) = <<Batch(call[t])>> /\ Batch(call[t]) \in AppendInput /\ IsScript(Script(t))
  BY ScriptIs DEF ScriptOf
<1>2. OnScript(t)
  BY DEF Progress
<1>3. \A e \in mine[t] : \E x \in DoneOf(Script(t), plan[t]) : Writes(e, x)
  BY <1>2 DEF OnScript
<1>4. \A x \in DoneOf(Script(t), plan[t]) : x = Batch(call[t])
  <2> DEFINE b == Batch(call[t])
  <2>1. Script(t) = <<b>> /\ IsScript(Script(t)) /\ Rest(Script(t), plan[t])
    BY <1>1, <1>2 DEF OnScript
  <2> HIDE DEF b
  <2>2. \A x \in DoneOf(<<b>>, plan[t]) : x \in {<<b>>[i] : i \in DOMAIN <<b>>}
    BY <2>1, DoneTyped
  <2>3. {<<b>>[i] : i \in DOMAIN <<b>>} = {b}
    OBVIOUS
  <2>4. \A x \in DoneOf(Script(t), plan[t]) : x = b
    BY <2>1, <2>2, <2>3
  <2> QED
    BY <2>4 DEF b
<1>5. Batch(call[t]).type = "CSV_BATCH_IMPORTED"
  BY DEF Batch, Event
<1> QED
  BY <1>3, <1>4, <1>5 DEF Writes

\* An appended or found event moves the plan on.
LEMMA ScriptAdvances ==
  ASSUME CoreInv, CoreInv', Progress,
         NEW t \in Tx, stage[t] \in {"batch", "appending"}, plan[t] # <<>>,
         stage'[t] = stage[t], call'[t] = call[t], seen'[t] = seen[t], plan'[t] = Tail(plan[t]),
         Visible(t) \subseteq Visible(t)', mine[t] \subseteq mine'[t],
         \E e \in Visible(t)' : SameKey(e, Head(plan[t])),
         \A e \in mine'[t] \ mine[t] : Writes(e, Head(plan[t])) /\ \A f \in mine[t] : f.seq < e.seq,
         \A e, f \in mine'[t] \ mine[t] : e = f
  PROVE  OnScript(t)'
<1> DEFINE s == Script(t)
           h == Head(plan[t])
           old == DoneOf(s, plan[t])
           new == DoneOf(s, Tail(plan[t]))
<1>1. Script(t)' = s
  BY DEF Script
<1>2. OnScript(t) /\ ScriptOf(s, call[t])
  BY ScriptIs DEF Progress
<1>3. IsScript(s) /\ Rest(s, plan[t])
  BY <1>2 DEF OnScript, ScriptOf
<1>4. Rest(s, Tail(plan[t])) /\ new = old \cup {h}
  BY <1>3, RestAdvances
<1>5. /\ \A x \in old : \E e \in Visible(t) : SameKey(e, x)
      /\ \A e \in mine[t] : \/ \E x \in old : Writes(e, x)
                            \/ /\ stage[t] = "appending" /\ call[t].op = "import"
                               /\ Writes(e, Batch(call[t]))
      /\ \A e, f \in mine[t] :
           e.type = "DRAW_SETTLEMENT_CONFIRMED" /\ f.type = "DRAW_RECONCILED" => e.seq < f.seq
  BY <1>2 DEF OnScript
<1>6. h.type = "DRAW_SETTLEMENT_CONFIRMED" => old = {}
  <2>1. CASE plan[t] = s
    BY <1>3, <2>1, RestEnds
  <2>2. CASE plan[t] # s
    <3>1. Len(s) = 2 /\ plan[t] = <<s[2]>>
      BY <1>3, <2>2 DEF Rest
    <3>2. Head(plan[t]) = s[2]
      BY <3>1
    <3>3. 2 \in DOMAIN s
      <4>1. \E x, y \in AppendInput : s = <<x, y>>
        <5>1. \A x \in AppendInput : s # <<x>>
          BY <3>1
        <5> QED
          BY <1>3, <5>1 DEF IsScript
      <4> HIDE DEF s
      <4> QED
        BY <4>1
    <3>4. s[2].type # "DRAW_SETTLEMENT_CONFIRMED"
      BY <1>2, <3>3 DEF ScriptOf
    <3> QED
      BY <3>2, <3>4
  <2> QED
    BY <2>1, <2>2
<1>7. \A e \in Visible(t) : e \in Visible(t)'
  OBVIOUS
<1> DEFINE vis2 == Visible(t)'
           b == Batch(call[t])
<1>8. /\ \A x \in new : \E e \in vis2 : SameKey(e, x)
  BY <1>4, <1>5, <1>7
<1>9. \A e \in mine'[t] : \/ \E x \in new : Writes(e, x)
                          \/ stage[t] = "appending" /\ call[t].op = "import" /\ Writes(e, b)
  BY <1>4, <1>5
<1>10. b.type = "CSV_BATCH_IMPORTED"
  BY DEF Batch, Event
<1>11. ASSUME NEW e \in mine'[t], NEW f \in mine'[t],
              e.type = "DRAW_SETTLEMENT_CONFIRMED", f.type = "DRAW_RECONCILED"
       PROVE  e.seq < f.seq
  <2> HIDE DEF b, old, h, vis2
  <2>1. e # f
    BY <1>11
  <2>2. CASE f \in mine[t] /\ e \in mine[t]
    BY <1>5, <1>11, <2>2
  <2>3. CASE f \notin mine[t]
    BY <2>1, <2>3
  <2>4. CASE f \in mine[t] /\ e \notin mine[t]
    <3>1. h.type = "DRAW_SETTLEMENT_CONFIRMED"
      BY <1>11, <2>4 DEF Writes, h
    <3>2. old = {}
      BY <1>6, <3>1
    <3>3. Writes(f, b)
      BY <1>5, <2>4, <3>2 DEF b
    <3> QED
      BY <1>10, <1>11, <3>3 DEF Writes
  <2> QED
    BY <2>2, <2>3, <2>4
<1>12. Batch(call[t])' = b /\ Visible(t)' = vis2 /\ DoneOf(Script(t), plan[t])' = new
       /\ Rest(Script(t), plan[t])'
  <2>1. Batch(call[t])' = b
    BY DEF Batch, Event
  <2>2. DoneOf(Script(t), plan[t])' = new
    BY <1>1 DEF DoneOf
  <2>3. Rest(Script(t), plan[t])'
    BY <1>1, <1>4 DEF Rest
  <2> QED
    BY <2>1, <2>2, <2>3
<1> HIDE DEF b, new, vis2
<1>13. OnScript(t)' =
         (stage'[t] \in {"batch", "appending"} =>
            /\ Rest(Script(t), plan[t])'
            /\ \A x \in new : \E e \in vis2 : SameKey(e, x)
            /\ \A e \in mine'[t] :
                 \/ \E x \in new : Writes(e, x)
                 \/ stage'[t] = "appending" /\ call'[t].op = "import" /\ Writes(e, b)
            /\ \A e, f \in mine'[t] :
                 e.type = "DRAW_SETTLEMENT_CONFIRMED" /\ f.type = "DRAW_RECONCILED" =>
                   e.seq < f.seq)
  BY <1>12 DEF OnScript
<1> QED
  BY <1>8, <1>9, <1>11, <1>12, <1>13

\* Nothing is visible twice: what a transaction inserted is not committed yet.
MineUncommitted == \A t \in Tx : mine[t] \cap rows = {}

\* Every step of the ledger keeps it so: a new row has a new hash.
LEMMA UncommittedStep == LedgerInv /\ MineUncommitted /\ [Next]_vars => MineUncommitted'
<1> SUFFICES ASSUME LedgerInv, MineUncommitted, [Next]_vars PROVE MineUncommitted'
  OBVIOUS
<1> USE DEF MineUncommitted
<1>1. CASE UNCHANGED vars
  BY <1>1 DEF vars
<1>2. ASSUME NEW t \in Tx, Begin(t) \/ AppendStart(t) \/ LockHead(t) PROVE MineUncommitted'
  BY <1>2 DEF Begin, AppendStart, AppendFound, AppendMissing, LockHead
<1>3. ASSUME NEW t \in Tx, InsertEvent(t) PROVE MineUncommitted'
  <2>1. NewRow(t).hash \notin UsedHash
    BY <1>3, NewRowTyped DEF InsertEvent, LedgerInv
  <2>2. NewRow(t) \notin rows
    BY <2>1 DEF UsedHash
  <2>3. rows' = rows /\ mine' = [mine EXCEPT ![t] = @ \cup {NewRow(t)}]
    BY <1>3 DEF InsertEvent
  <2> QED
    BY <2>2, <2>3 DEF LedgerInv, TypeOK
<1>4. ASSUME NEW t \in Tx, InsertRefused(t) \/ Rollback(t) PROVE MineUncommitted'
  BY <1>4 DEF InsertRefused, Rollback, Abandon, Release, LedgerInv, TypeOK
<1>5. ASSUME NEW t \in Tx, Commit(t) PROVE MineUncommitted'
  <2>1. rows' = rows \cup mine[t] /\ mine' = [mine EXCEPT ![t] = {}]
    BY <1>5 DEF Commit, Release
  <2>2. ASSUME NEW u \in Tx PROVE mine'[u] \cap rows' = {}
    <3>1. CASE u = t
      BY <2>1, <3>1 DEF LedgerInv, TypeOK
    <3>2. CASE u # t
      <4>1. mine'[u] = mine[u] /\ (mine[u] = {} \/ mine[t] = {})
        BY <2>1, <3>2 DEF LedgerInv, TypeOK, PendingUnderLock
      <4> QED
        BY <2>1, <4>1
    <3> QED
      BY <3>1, <3>2
  <2> QED
    BY <2>2
<1> QED
  BY <1>1, <1>2, <1>3, <1>4, <1>5 DEF Next

\* What a transaction has inserted lies beyond the committed head.
LEMMA MineBeyondHead ==
  ASSUME LedgerInv, MineUncommitted, NEW t \in Tx, NEW e \in mine[t], NEW f \in rows
  PROVE  f.seq < e.seq /\ f.seq \in Nat /\ e.seq \in Nat
<1>1. lock = t
  BY DEF LedgerInv, PendingUnderLock
<1>2. /\ Chained(Visible(t), 0, Genesis, view[t].seq, view[t].hash)
      /\ Chained(rows, 0, Genesis, head.seq, head.hash)
  BY <1>1 DEF LedgerInv, ViewChained, ChainIntact
<1>3. e \in Row /\ f \in Row /\ e \in Visible(t) /\ rows \subseteq Visible(t) /\ e \notin rows
  BY DEF LedgerInv, TypeOK, Visible, MineUncommitted
<1>4. e.seq \in Nat \ {0} /\ f.seq \in 1..head.seq /\ head.seq \in Nat
  BY <1>2, <1>3 DEF Row, Chained, LedgerInv, TypeOK, HeadRow
<1>5. ~(e.seq <= head.seq)
  <2> SUFFICES ASSUME e.seq <= head.seq PROVE FALSE
    OBVIOUS
  <2>1. e.seq \in 1..head.seq
    BY <1>4
  <2>2. PICK g \in rows : g.seq = e.seq
    BY <1>2, <2>1 DEF Chained
  <2> QED
    BY <1>2, <1>3, <2>2 DEF Chained
<1> QED
  BY <1>4, <1>5

-----------------------------------------------------------------------------
\* Every step of a transaction keeps its own progress.
LEMMA NotReplayProgress ==
  ASSUME CoreInv, NEW t \in Tx, NotReplay(t)
  PROVE  OnScript(t)'
<1> DEFINE c == Event(call[t], "DRAW_CREATED", "NONE", "DRAFT")
           b == Event(call[t], "CSV_BATCH_IMPORTED", "NONE", "NONE")
<1>1. /\ call' = call /\ mine' = mine /\ call[t] \in Request
      /\ stage'[t] = CASE call[t].op = "create" -> "appending"
                       [] call[t].op = "import" -> "batch"
                       [] OTHER -> "lookup"
      /\ plan'[t] = CASE call[t].op = "create" -> <<c>>
                      [] call[t].op = "import" -> <<b>>
                      [] OTHER -> <<>>
      /\ mine[t] = {}
  BY DEF NotReplay, vars, CoreInv, DrawTyped, Controlled
<1>2. IsScript(<<c>>) /\ IsScript(<<b>>)
  <2>1. /\ {"DRAW_CREATED", "CSV_BATCH_IMPORTED"} \subseteq DrawEventType
        /\ {"NONE", "DRAFT"} \subseteq DrawState
    BY DEF DrawEventType, DrawState
  <2>2. c \in AppendInput /\ b \in AppendInput
    BY <1>1, <2>1, EventTyped
  <2> HIDE DEF c, b
  <2> QED
    BY <2>2 DEF IsScript
<1>3. CASE call[t].op = "create"
  <2>1. stage'[t] = "appending" /\ plan'[t] = <<c>>
    BY <1>1, <1>3
  <2>2. Script(t)' = <<c>>
    BY <1>1, <1>3, <2>1 DEF Script, Event
  <2> HIDE DEF c
  <2> QED
    BY <1>1, <1>2, <2>1, <2>2, FreshScript
<1>4. CASE call[t].op = "import"
  <2>1. stage'[t] = "batch" /\ plan'[t] = <<b>>
    BY <1>1, <1>4
  <2>2. Script(t)' = <<b>>
    BY <1>1, <2>1 DEF Script, Batch, Event
  <2> HIDE DEF b
  <2> QED
    BY <1>1, <1>2, <2>1, <2>2, FreshScript
<1>5. CASE call[t].op \notin {"create", "import"}
  <2>1. stage'[t] = "lookup"
    BY <1>1, <1>5
  <2> QED
    BY <2>1 DEF OnScript
<1> QED
  BY <1>3, <1>4, <1>5

\* Locking the draw row begins the list of the events to append.
LEMMA LockProgress ==
  ASSUME CoreInv, Progress, NEW t \in Tx, LockRow(t) \/ LockInstructed(t) \/ NoInstruction(t)
  PROVE  OnScript(t)'
<1> DEFINE s == Events(call[t], db)
<1>1. /\ call' = call /\ mine' = mine /\ call[t] \in Request
      /\ stage'[t] = "appending" /\ seen'[t] = db
      /\ call[t].op # "create" /\ IsRows(db)
  BY DEF LockRow, LockInstructed, NoInstruction, LoadDraw, vars, CoreInv, DrawTyped, Controlled
<1>2. plan'[t] = s
  <2>1. CASE LockRow(t) \/ LockInstructed(t)
    BY <2>1 DEF LockRow, LockInstructed, CoreInv, DrawTyped
  <2>2. CASE NoInstruction(t)
    <3>1. /\ db.instructions = {} /\ stage[t] = "batch"
          /\ plan'[t] = <<Event(call[t], "DRAW_RECONCILIATION_BREAK", "NONE", "NONE")>>
      BY <2>2 DEF NoInstruction, CoreInv, DrawTyped
    <3>2. db.status # "SETTLEMENT_INSTRUCTED" /\ call[t].op = "import"
      BY <3>1 DEF CoreInv, Shape, Controlled
    <3> QED
      BY <1>1, <3>1, <3>2, EventsAre
  <2> QED
    BY <2>1, <2>2
<1>3. IsScript(s)
  BY <1>1, EventsTyped
<1>4. Script(t)' = s
  <2>1. Script(t)' = Events(call'[t], seen'[t])
    BY <1>1 DEF Script
  <2> QED
    BY <1>1, <2>1
<1>5. \A e \in mine'[t] : /\ stage'[t] = "appending" /\ call'[t].op = "import"
                          /\ Writes(e, Batch(call'[t])) /\ e.type = "CSV_BATCH_IMPORTED"
  <2>1. CASE LockRow(t)
    <3>1. mine[t] = {}
      BY <2>1 DEF LockRow, CoreInv, Controlled
    <3> QED
      BY <1>1, <3>1
  <2>2. CASE LockInstructed(t) \/ NoInstruction(t)
    <3>1. stage[t] = "batch" /\ call[t].op = "import"
      BY <2>2 DEF LockInstructed, NoInstruction, CoreInv, Controlled
    <3>2. \A e \in mine[t] : Writes(e, Batch(call[t])) /\ e.type = "CSV_BATCH_IMPORTED"
      BY <3>1, BatchMine
    <3> QED
      BY <1>1, <3>1, <3>2
  <2> QED
    BY <2>1, <2>2
<1> HIDE DEF s
<1> QED
  BY <1>2, <1>3, <1>4, <1>5, FreshScript

\* An event found instead of appended is done as well.
LEMMA AppendProgress ==
  ASSUME CoreInv, CoreInv', Progress, NEW t \in Tx, AppendNext(t)
  PROVE  OnScript(t)'
<1>1. /\ stage' = stage /\ call' = call /\ seen' = seen /\ mine' = mine /\ rows' = rows
      /\ stage[t] \in {"batch", "appending"} /\ plan[t] # <<>>
  BY DEF AppendNext, AppendFound, AppendMissing
<1>2. Visible(t)' = Visible(t)
  BY <1>1 DEF Visible
<1>3. CASE plan' = plan
  BY <1>1, <1>2, <1>3, ProgressKept DEF Progress
<1>4. CASE AppendFound(t, Head(plan[t])) /\ plan' = [plan EXCEPT ![t] = Tail(@)]
  <2>1. plan'[t] = Tail(plan[t]) /\ \E e \in Visible(t) : SameKey(e, Head(plan[t]))
    BY <1>4 DEF AppendFound, CoreInv, DrawTyped
  <2> QED
    BY <1>1, <1>2, <2>1, ScriptAdvances
<1> QED
  BY <1>3, <1>4 DEF AppendNext

\* An event that is written is done, and comes after those before it.
LEMMA WriteProgress ==
  ASSUME CoreInv, CoreInv', Progress, NEW t \in Tx, WriteEvent(t)
  PROVE  OnScript(t)'
<1> DEFINE n == NewRow(t)
<1>1. /\ stage' = stage /\ call' = call /\ seen' = seen /\ rows' = rows
      /\ plan'[t] = Tail(plan[t]) /\ pc[t] = "locked" /\ mine'[t] = mine[t] \cup {n}
      /\ \E h \in Hash : h \notin UsedHash
  BY DEF WriteEvent, InsertEvent, CoreInv, DrawTyped, LedgerInv, TypeOK
<1>2. /\ stage[t] \in {"batch", "appending"} /\ plan[t] # <<>> /\ req[t] = Head(plan[t]) /\ lock = t
  BY <1>1 DEF CoreInv, Controlled, DrawTyped, Stage, LedgerInv, LockedHolds
<1>3. n.seq = view[t].seq + 1 /\ n.key = req[t].key /\ n.type = req[t].type /\ n.body = req[t].body
  BY DEF NewRow
<1>4. \A f \in mine[t] : f.seq < n.seq
  <2>1. Chained(Visible(t), 0, Genesis, view[t].seq, view[t].hash) /\ view[t].seq \in Nat
    BY <1>2 DEF CoreInv, LedgerInv, ViewChained, TypeOK, HeadRow
  <2>2. \A f \in mine[t] : f.seq \in 1..view[t].seq
    BY <2>1 DEF Chained, Visible
  <2> QED
    BY <1>3, <2>1, <2>2
<1>5. Head(plan[t]).key # NoKey
  <2>1. ScriptOf(Script(t), call[t]) /\ Rest(Script(t), plan[t])
    BY <1>2, ScriptIs DEF Progress, OnScript
  <2>2. Head(plan[t]) \in {Script(t)[i] : i \in DOMAIN Script(t)}
    BY <1>2, <2>1, DoneTyped DEF ScriptOf
  <2> QED
    BY <2>1, <2>2 DEF ScriptOf
<1> HIDE DEF n
<1>6. SameKey(n, Head(plan[t])) /\ Writes(n, Head(plan[t]))
  BY <1>2, <1>3, <1>5 DEF SameKey, Writes
<1>7. Visible(t)' = Visible(t) \cup {n}
  BY <1>1 DEF Visible
<1> QED
  BY <1>1, <1>2, <1>4, <1>6, <1>7, ScriptAdvances

\* Every step of a transaction keeps the progress of all.
LEMMA ProgressStep ==
  ASSUME CoreInv, CoreInv', Progress, NEW t \in Tx, StepOf(t)
  PROVE  Progress'
<1>1. \A u \in Tx : u # t => OnScript(u)'
  BY OthersProgress
<1>2. OnScript(t)'
  <2>1. CASE \E r \in Request : Receive(t, r)
    <3>1. stage'[t] = "begun"
      BY <2>1 DEF Receive, CoreInv, DrawTyped
    <3> QED
      BY <3>1 DEF OnScript
  <2>2. CASE NotReplay(t)
    BY <2>2, NotReplayProgress
  <2>3. CASE LockRow(t) \/ LockInstructed(t) \/ NoInstruction(t)
    BY <2>3, LockProgress
  <2>4. CASE AppendNext(t)
    BY <2>4, AppendProgress
  <2>5. CASE TakeHead(t)
    <3>1. /\ stage' = stage /\ call' = call /\ seen' = seen /\ plan' = plan
          /\ mine' = mine /\ rows' = rows
      BY <2>5 DEF TakeHead, LockHead, txVars
    <3>2. Visible(t)' = Visible(t)
      BY <3>1 DEF Visible
    <3> QED
      BY <3>1, <3>2, ProgressKept DEF Progress
  <2>6. CASE WriteEvent(t)
    BY <2>6, WriteProgress
  <2>7. CASE Ends(t)
    <3>1. stage'[t] = "idle"
      BY <2>7, EndsLeaves DEF CoreInv, LedgerInv
    <3> QED
      BY <3>1 DEF OnScript
  <2> QED
    BY <2>1, <2>2, <2>3, <2>4, <2>5, <2>6, <2>7, StepKinds
<1> QED
  BY <1>1, <1>2 DEF Progress

-----------------------------------------------------------------------------
(* The rows of the draw and its committed events *)

\* The types of the events of a transaction that has appended all of them.
TypesOf(t) == {x.type : x \in DoneOf(Script(t), <<>>)}

\* Which they are.
LEMMA TypesWritten ==
  ASSUME CoreInv, NEW t \in Tx, stage[t] = "appending"
  PROVE  LET r == call[t]
             s == seen[t]
         IN  /\ r.op = "create" => TypesOf(t) = {"DRAW_CREATED"}
             /\ r.op = "upload" =>
                  TypesOf(t) = {"EVIDENCE_UPLOADED"} \/ TypesOf(t) = {"EVIDENCE_SUPERSEDED"}
             /\ r.op = "submit" => TypesOf(t) = {"DRAW_SUBMITTED"}
             /\ r.op = "evaluate" => TypesOf(t) = {"DRAW_POLICY_EVALUATED"}
             /\ r.op = "approve" => TypesOf(t) = {"DRAW_APPROVED"}
             /\ r.op = "instruct" => TypesOf(t) = {"DRAW_SETTLEMENT_INSTRUCTED"}
             /\ (r.op = "import" /\ s.confirmations = {} /\ s.status = "SETTLEMENT_INSTRUCTED") =>
                  TypesOf(t) = {"DRAW_SETTLEMENT_CONFIRMED", "DRAW_RECONCILED"}
             /\ (/\ r.op = "import"
                 /\ ~(s.confirmations = {} /\ s.status = "SETTLEMENT_INSTRUCTED")) =>
                  TypesOf(t) = {"DRAW_RECONCILIATION_BREAK"}
<1> DEFINE r == call[t]
           s == seen[t]
           c == Event(r, "DRAW_SETTLEMENT_CONFIRMED",
                      "SETTLEMENT_INSTRUCTED", "SETTLEMENT_CONFIRMED")
           d == Event(r, "DRAW_RECONCILED", "SETTLEMENT_CONFIRMED", "RECONCILED")
<1>1. r \in Request /\ IsRows(s) /\ s.status \in DrawState
  BY ScriptIs DEF CoreInv, DrawTyped, IsRows
<1>2. /\ r.op = "create" => Script(t) = <<Event(r, "DRAW_CREATED", "NONE", "DRAFT")>>
      /\ r.op # "create" => Script(t) = Events(r, s)
  BY ScriptIs
<1>3. /\ {"NONE", "DRAFT", "SUBMITTED", "UNDER_REVIEW", "APPROVED", "SETTLEMENT_INSTRUCTED",
          "SETTLEMENT_CONFIRMED", "RECONCILED"} \subseteq DrawState
      /\ {"DRAW_CREATED", "EVIDENCE_UPLOADED", "EVIDENCE_SUPERSEDED", "DRAW_SUBMITTED",
          "DRAW_POLICY_EVALUATED", "DRAW_APPROVED", "DRAW_SETTLEMENT_INSTRUCTED",
          "DRAW_RECONCILIATION_BREAK", "DRAW_SETTLEMENT_CONFIRMED", "DRAW_RECONCILED"}
           \subseteq DrawEventType
  BY DEF DrawState, DrawEventType
<1>4. ASSUME NEW ty \in DrawEventType, NEW b \in DrawState, NEW a \in DrawState,
             Script(t) = <<Event(r, ty, b, a)>>
      PROVE  TypesOf(t) = {ty}
  <2> DEFINE x == Event(r, ty, b, a)
  <2>1. x \in AppendInput
    BY <1>1, EventTyped
  <2>2. x.type = ty
    BY DEF Event
  <2>3. Script(t) = <<x>>
    BY <1>4
  <2> HIDE DEF x, r
  <2>4. DoneOf(Script(t), <<>>) = {x}
    BY <2>1, <2>3, ScriptMembers
  <2> QED
    BY <2>2, <2>4 DEF TypesOf
<1>5. Script(t) = <<c, d>> => TypesOf(t) = {"DRAW_SETTLEMENT_CONFIRMED", "DRAW_RECONCILED"}
  <2> SUFFICES ASSUME Script(t) = <<c, d>>
               PROVE  TypesOf(t) = {"DRAW_SETTLEMENT_CONFIRMED", "DRAW_RECONCILED"}
    OBVIOUS
  <2>1. c \in AppendInput /\ d \in AppendInput
    BY <1>1, <1>3, EventTyped
  <2>2. c.type = "DRAW_SETTLEMENT_CONFIRMED" /\ d.type = "DRAW_RECONCILED"
    BY DEF Event
  <2> HIDE DEF c, d
  <2>3. DoneOf(Script(t), <<>>) = {c, d}
    BY <2>1, ScriptMembers
  <2> QED
    BY <2>2, <2>3 DEF TypesOf
<1> HIDE DEF r, s, c, d
<1>6. r.op = "create" => TypesOf(t) = {"DRAW_CREATED"}
  BY <1>2, <1>3, <1>4
<1>7. r.op = "upload" => TypesOf(t) = {"EVIDENCE_UPLOADED"} \/ TypesOf(t) = {"EVIDENCE_SUPERSEDED"}
  <2> SUFFICES ASSUME r.op = "upload"
               PROVE  TypesOf(t) = {"EVIDENCE_UPLOADED"} \/ TypesOf(t) = {"EVIDENCE_SUPERSEDED"}
    OBVIOUS
  <2>1. PICK ty \in {"EVIDENCE_UPLOADED", "EVIDENCE_SUPERSEDED"} :
          Events(r, s) = <<Event(r, ty, "NONE", "NONE")>>
    BY <1>1, EventsAre
  <2>2. ty \in DrawEventType
    BY <1>3
  <2>3. TypesOf(t) = {ty}
    BY <1>2, <1>3, <1>4, <2>1, <2>2
  <2> QED
    BY <2>3
<1>8. r.op = "submit" => TypesOf(t) = {"DRAW_SUBMITTED"}
  BY <1>1, <1>2, <1>3, <1>4, EventsAre
<1>9. r.op = "evaluate" => TypesOf(t) = {"DRAW_POLICY_EVALUATED"}
  BY <1>1, <1>2, <1>3, <1>4, EventsAre
<1>10. r.op = "approve" => TypesOf(t) = {"DRAW_APPROVED"}
  BY <1>1, <1>2, <1>3, <1>4, EventsAre
<1>11. r.op = "instruct" => TypesOf(t) = {"DRAW_SETTLEMENT_INSTRUCTED"}
  BY <1>1, <1>2, <1>3, <1>4, EventsAre
<1>12. (r.op = "import" /\ s.confirmations = {} /\ s.status = "SETTLEMENT_INSTRUCTED") =>
         TypesOf(t) = {"DRAW_SETTLEMENT_CONFIRMED", "DRAW_RECONCILED"}
  BY <1>1, <1>2, <1>5, EventsAre DEF c, d
<1>13. (r.op = "import" /\ ~(s.confirmations = {} /\ s.status = "SETTLEMENT_INSTRUCTED")) =>
         TypesOf(t) = {"DRAW_RECONCILIATION_BREAK"}
  BY <1>1, <1>2, <1>3, <1>4, EventsAre
<1> QED
  BY <1>6, <1>7, <1>8, <1>9, <1>10, <1>11, <1>12, <1>13 DEF r, s

\* COMMIT spends the transaction's key for the types of its events and for no
\* others, however many of them it had found instead of inserting.
LEMMA WrittenKeys ==
  ASSUME CoreInv, Progress, NEW t \in Tx, Writing(t), NEW types, "CSV_BATCH_IMPORTED" \notin types
  PROVE  KeysOf(types)' = KeysOf(types) \cup {k \in {call[t].key} : TypesOf(t) \cap types # {}}
<1> DEFINE D == DoneOf(Script(t), <<>>)
<1>1. stage[t] = "appending" /\ plan[t] = <<>> /\ rows' = rows \cup mine[t]
  BY DEF Writing
<1>2. /\ \A x \in D : \E e \in Visible(t) : SameKey(e, x)
      /\ \A e \in mine[t] : (\E x \in D : Writes(e, x)) \/ Writes(e, Batch(call[t]))
  BY <1>1 DEF Progress, OnScript
<1>3. \A x \in D : x.key = call[t].key
  <2>1. ScriptOf(Script(t), call[t])
    BY <1>1, ScriptIs
  <2>2. D = {Script(t)[i] : i \in DOMAIN Script(t)}
    BY <2>1, RestEnds DEF ScriptOf
  <2> QED
    BY <2>1, <2>2 DEF ScriptOf
<1>4. Batch(call[t]).type = "CSV_BATCH_IMPORTED"
  BY DEF Batch, Event
<1>5. TypesOf(t) = {x.type : x \in D}
  BY DEF TypesOf
<1> HIDE DEF D
<1>6. ASSUME NEW k \in KeysOf(types)'
      PROVE  k \in KeysOf(types) \/ (k = call[t].key /\ TypesOf(t) \cap types # {})
  <2>1. PICK e \in rows' : e.type \in types /\ k = e.key
    BY <1>6 DEF KeysOf
  <2>2. CASE e \in rows
    BY <2>1, <2>2 DEF KeysOf
  <2>3. CASE e \in mine[t]
    <3>1. PICK x \in D : Writes(e, x)
      BY <1>2, <1>4, <2>1, <2>3 DEF Writes
    <3> QED
      BY <1>3, <1>5, <2>1, <3>1 DEF Writes
  <2> QED
    BY <1>1, <2>1, <2>2, <2>3
<1>7. ASSUME NEW k \in KeysOf(types) PROVE k \in KeysOf(types)'
  BY <1>1, <1>7 DEF KeysOf
<1>8. ASSUME TypesOf(t) \cap types # {} PROVE call[t].key \in KeysOf(types)'
  <2>1. PICK x \in D : x.type \in types
    BY <1>5, <1>8
  <2>2. PICK e \in Visible(t) : SameKey(e, x)
    BY <1>2
  <2>3. e \in rows' /\ e.type \in types /\ e.key = call[t].key
    BY <1>1, <1>3, <2>1, <2>2 DEF SameKey, Visible
  <2> QED
    BY <2>3 DEF KeysOf
<1> QED
  BY <1>6, <1>7, <1>8

\* RowsMatchEvents with what its proof needs beside it: a draw exists once its
\* creation is an event, and a confirmation is never committed without the
\* reconciliation.
MatchInv ==
  /\ RowsMatchEvents
  /\ (KeysOf({"DRAW_CREATED"}) # {}) <=> (db.status # "NONE")
  /\ KeysOf({"DRAW_SETTLEMENT_CONFIRMED"}) # {} => db.status = "RECONCILED"

\* The seven questions the rows are asked.
KeyFacts(up, ev, ap, ins, sub, rec, cre, con, d) ==
  /\ {x.by : x \in d.docs} = up
  /\ d.evaluations = ev
  /\ d.decisions = ap
  /\ d.instructions = ins
  /\ (d.manifest # {}) <=> (sub # {})
  /\ (d.status = "RECONCILED") <=> (rec # {})
  /\ (cre # {}) <=> (d.status # "NONE")
  /\ con # {} => d.status = "RECONCILED"

Uploaded == {"EVIDENCE_UPLOADED", "EVIDENCE_SUPERSEDED"}

\* They are what MatchInv says of the present state.
LEMMA MatchIs ==
  MatchInv <=> KeyFacts(KeysOf(Uploaded), KeysOf({"DRAW_POLICY_EVALUATED"}),
                        KeysOf({"DRAW_APPROVED"}), KeysOf({"DRAW_SETTLEMENT_INSTRUCTED"}),
                        KeysOf({"DRAW_SUBMITTED"}), KeysOf({"DRAW_RECONCILED"}),
                        KeysOf({"DRAW_CREATED"}), KeysOf({"DRAW_SETTLEMENT_CONFIRMED"}), db)
BY DEF MatchInv, RowsMatchEvents, KeyFacts, Uploaded

\* Writing the rows keeps them and the events in pairs.
LEMMA WritingMatches ==
  ASSUME CoreInv, Progress, MatchInv, NEW t \in Tx, Writing(t)
  PROVE  MatchInv'
<1> DEFINE r == call[t]
           s == seen[t]
           up == KeysOf(Uploaded)  ev == KeysOf({"DRAW_POLICY_EVALUATED"})
           ap == KeysOf({"DRAW_APPROVED"})  ins == KeysOf({"DRAW_SETTLEMENT_INSTRUCTED"})
           sub == KeysOf({"DRAW_SUBMITTED"})  rec == KeysOf({"DRAW_RECONCILED"})
           cre == KeysOf({"DRAW_CREATED"})  con == KeysOf({"DRAW_SETTLEMENT_CONFIRMED"})
           new(types) == {k \in {r.key} : TypesOf(t) \cap types # {}}
<1>1. /\ up' = up \cup new(Uploaded) /\ ev' = ev \cup new({"DRAW_POLICY_EVALUATED"})
      /\ ap' = ap \cup new({"DRAW_APPROVED"}) /\ ins' = ins \cup new({"DRAW_SETTLEMENT_INSTRUCTED"})
      /\ sub' = sub \cup new({"DRAW_SUBMITTED"}) /\ rec' = rec \cup new({"DRAW_RECONCILED"})
      /\ cre' = cre \cup new({"DRAW_CREATED"}) /\ con' = con \cup new({"DRAW_SETTLEMENT_CONFIRMED"})
  BY WrittenKeys DEF Uploaded
<1>2. KeyFacts(up, ev, ap, ins, sub, rec, cre, con, db)
  BY MatchIs
<1>3. /\ r \in Request /\ r.op \in Operation /\ IsRows(db) /\ stage[t] = "appending"
      /\ r.op \notin {"create", "import"} => Accepts(r.op, s)
      /\ WriteAccepted(r, s) /\ db' = RowsAfter(r, s)
  BY TransactionConstants DEF Writing, CoreInv, Controlled, DrawTyped
<1>4. KeyFacts(up', ev', ap', ins', sub', rec', cre', con', db') => MatchInv'
  BY DEF MatchInv, RowsMatchEvents, KeyFacts, Uploaded
<1> HIDE DEF r, s, up, ev, ap, ins, sub, rec, cre, con
<1>5. CASE r.op = "create"
  <2>1. TypesOf(t) = {"DRAW_CREATED"}
    BY <1>3, <1>5, TypesWritten DEF r
  <2>2. /\ up' = up /\ ev' = ev /\ ap' = ap /\ ins' = ins /\ sub' = sub /\ rec' = rec
        /\ cre' = cre \cup {r.key} /\ con' = con
    BY <1>1, <2>1 DEF Uploaded
  <2>3. db.status = "NONE"
    BY <1>3, <1>5 DEF WriteAccepted
  <2>4. /\ db'.status = "DRAFT" /\ db'.docs = db.docs /\ db'.manifest = db.manifest
         /\ db'.evaluations = db.evaluations /\ db'.decisions = db.decisions
         /\ db'.instructions = db.instructions
    BY <1>3, <1>5, RowsAfterAre
  <2>5. KeyFacts(up', ev', ap', ins', sub', rec', cre', con', db')
    BY <1>2, <2>2, <2>3, <2>4 DEF KeyFacts
  <2> QED
    BY <1>4, <2>5
<1>6. CASE r.op = "upload"
  <2>1. TypesOf(t) = {"EVIDENCE_UPLOADED"} \/ TypesOf(t) = {"EVIDENCE_SUPERSEDED"}
    BY <1>3, <1>6, TypesWritten DEF r
  <2>2. /\ up' = up \cup {r.key} /\ ev' = ev /\ ap' = ap /\ ins' = ins /\ sub' = sub /\ rec' = rec
        /\ cre' = cre /\ con' = con
    BY <1>1, <2>1 DEF Uploaded
  <2>3. \E v : db'.docs = db.docs \cup {[by |-> r.key, version |-> v]}
    BY <1>3, <1>6, RowsAfterAre
  <2>4. {x.by : x \in db'.docs} = {x.by : x \in db.docs} \cup {r.key}
    <3>1. PICK v : db'.docs = db.docs \cup {[by |-> r.key, version |-> v]}
      BY <2>3
    <3> DEFINE n == [by |-> r.key, version |-> v]
    <3>2. n.by = r.key
      OBVIOUS
    <3> HIDE DEF n
    <3>3. db'.docs = db.docs \cup {n}
      BY <3>1 DEF n
    <3> QED
      BY <3>2, <3>3
  <2>5. /\ db'.status = db.status /\ db'.manifest = db.manifest /\ db'.evaluations = db.evaluations
         /\ db'.decisions = db.decisions /\ db'.instructions = db.instructions
    BY <1>3, <1>6, RowsAfterAre
  <2>6. KeyFacts(up', ev', ap', ins', sub', rec', cre', con', db')
    BY <1>2, <2>2, <2>4, <2>5 DEF KeyFacts
  <2> QED
    BY <1>4, <2>6
<1>7. CASE r.op = "submit"
  <2>1. TypesOf(t) = {"DRAW_SUBMITTED"}
    BY <1>3, <1>7, TypesWritten DEF r
  <2>2. /\ up' = up /\ ev' = ev /\ ap' = ap /\ ins' = ins /\ sub' = sub \cup {r.key} /\ rec' = rec
        /\ cre' = cre /\ con' = con
    BY <1>1, <2>1 DEF Uploaded
  <2>3. db.status = "DRAFT" /\ s.docs # {}
    BY <1>3, <1>7 DEF WriteAccepted, Accepts
  <2>4. /\ db'.status = "SUBMITTED" /\ db'.docs = db.docs /\ db'.manifest = s.docs
         /\ db'.evaluations = db.evaluations /\ db'.decisions = db.decisions
         /\ db'.instructions = db.instructions
    BY <1>3, <1>7, RowsAfterAre
  <2>5. KeyFacts(up', ev', ap', ins', sub', rec', cre', con', db')
    BY <1>2, <2>2, <2>3, <2>4 DEF KeyFacts
  <2> QED
    BY <1>4, <2>5
<1>8. CASE r.op = "evaluate"
  <2>1. TypesOf(t) = {"DRAW_POLICY_EVALUATED"}
    BY <1>3, <1>8, TypesWritten DEF r
  <2>2. /\ up' = up /\ ev' = ev \cup {r.key} /\ ap' = ap /\ ins' = ins /\ sub' = sub /\ rec' = rec
        /\ cre' = cre /\ con' = con
    BY <1>1, <2>1 DEF Uploaded
  <2>3. db.status \in {"SUBMITTED", "APPROVED"}
    BY <1>3, <1>8 DEF WriteAccepted, Accepts
  <2>4. /\ db'.status = "UNDER_REVIEW" /\ db'.docs = db.docs /\ db'.manifest = db.manifest
         /\ db'.evaluations = db.evaluations \cup {r.key} /\ db'.decisions = db.decisions
         /\ db'.instructions = db.instructions
    BY <1>3, <1>8, RowsAfterAre
  <2>5. KeyFacts(up', ev', ap', ins', sub', rec', cre', con', db')
    BY <1>2, <2>2, <2>3, <2>4 DEF KeyFacts
  <2> QED
    BY <1>4, <2>5
<1>9. CASE r.op = "approve"
  <2>1. TypesOf(t) = {"DRAW_APPROVED"}
    BY <1>3, <1>9, TypesWritten DEF r
  <2>2. /\ up' = up /\ ev' = ev /\ ap' = ap \cup {r.key} /\ ins' = ins /\ sub' = sub /\ rec' = rec
        /\ cre' = cre /\ con' = con
    BY <1>1, <2>1 DEF Uploaded
  <2>3. db.status = "UNDER_REVIEW"
    BY <1>3, <1>9 DEF WriteAccepted, Accepts
  <2>4. /\ db'.status = "APPROVED" /\ db'.docs = db.docs /\ db'.manifest = db.manifest
         /\ db'.evaluations = db.evaluations /\ db'.decisions = db.decisions \cup {r.key}
         /\ db'.instructions = db.instructions
    BY <1>3, <1>9, RowsAfterAre
  <2>5. KeyFacts(up', ev', ap', ins', sub', rec', cre', con', db')
    BY <1>2, <2>2, <2>3, <2>4 DEF KeyFacts
  <2> QED
    BY <1>4, <2>5
<1>10. CASE r.op = "instruct"
  <2>1. TypesOf(t) = {"DRAW_SETTLEMENT_INSTRUCTED"}
    BY <1>3, <1>10, TypesWritten DEF r
  <2>2. /\ up' = up /\ ev' = ev /\ ap' = ap /\ ins' = ins \cup {r.key} /\ sub' = sub /\ rec' = rec
        /\ cre' = cre /\ con' = con
    BY <1>1, <2>1 DEF Uploaded
  <2>3. db.status = "APPROVED"
    BY <1>3, <1>10 DEF WriteAccepted, Accepts
  <2>4. /\ db'.status = "SETTLEMENT_INSTRUCTED" /\ db'.docs = db.docs /\ db'.manifest = db.manifest
         /\ db'.evaluations = db.evaluations /\ db'.decisions = db.decisions
         /\ db'.instructions = db.instructions \cup {r.key}
    BY <1>3, <1>10, RowsAfterAre
  <2>5. KeyFacts(up', ev', ap', ins', sub', rec', cre', con', db')
    BY <1>2, <2>2, <2>3, <2>4 DEF KeyFacts
  <2> QED
    BY <1>4, <2>5
<1>11. CASE r.op = "import" /\ s.confirmations = {} /\ s.status = "SETTLEMENT_INSTRUCTED"
  <2>1. TypesOf(t) = {"DRAW_SETTLEMENT_CONFIRMED", "DRAW_RECONCILED"}
    BY <1>3, <1>11, TypesWritten DEF r, s
  <2>2. /\ up' = up /\ ev' = ev /\ ap' = ap /\ ins' = ins /\ sub' = sub /\ rec' = rec \cup {r.key}
        /\ cre' = cre /\ con' = con \cup {r.key}
    BY <1>1, <2>1 DEF Uploaded
  <2>3. db.status = "SETTLEMENT_INSTRUCTED"
    BY <1>3, <1>11 DEF WriteAccepted
  <2>4. /\ db'.status = "RECONCILED" /\ db'.docs = db.docs /\ db'.manifest = db.manifest
         /\ db'.evaluations = db.evaluations /\ db'.decisions = db.decisions
         /\ db'.instructions = db.instructions
    BY <1>3, <1>11, RowsAfterAre
  <2>5. KeyFacts(up', ev', ap', ins', sub', rec', cre', con', db')
    BY <1>2, <2>2, <2>3, <2>4 DEF KeyFacts
  <2> QED
    BY <1>4, <2>5
<1>12. CASE r.op = "import" /\ ~(s.confirmations = {} /\ s.status = "SETTLEMENT_INSTRUCTED")
  <2>1. TypesOf(t) = {"DRAW_RECONCILIATION_BREAK"}
    BY <1>3, <1>12, TypesWritten DEF r, s
  <2>2. /\ up' = up /\ ev' = ev /\ ap' = ap /\ ins' = ins /\ sub' = sub /\ rec' = rec
        /\ cre' = cre /\ con' = con
    BY <1>1, <2>1 DEF Uploaded
  <2>3. /\ db'.status = db.status /\ db'.docs = db.docs /\ db'.manifest = db.manifest
         /\ db'.evaluations = db.evaluations /\ db'.decisions = db.decisions
         /\ db'.instructions = db.instructions
    BY <1>3, <1>12, RowsAfterAre
  <2>4. KeyFacts(up', ev', ap', ins', sub', rec', cre', con', db')
    BY <1>2, <2>2, <2>3 DEF KeyFacts
  <2> QED
    BY <1>4, <2>4
<1> QED
  BY <1>3, <1>5, <1>6, <1>7, <1>8, <1>9, <1>10, <1>11, <1>12 DEF Operation

\* A step writes the draw's rows or leaves the rows and the ledger alone.
LEMMA QuietStep ==
  ASSUME CoreInv, NEW t \in Tx, StepOf(t)
  PROVE  (db' = db /\ rows' = rows) \/ (Ends(t) /\ Writing(t))
<1>1. CASE \E r \in Request : Receive(t, r)
  BY <1>1 DEF Receive, Begin
<1>2. CASE NotReplay(t) \/ LockRow(t) \/ NoInstruction(t) \/ LockInstructed(t)
  BY <1>2 DEF NotReplay, LockRow, NoInstruction, LockInstructed, vars
<1>3. CASE AppendNext(t)
  BY <1>3 DEF AppendNext, AppendFound, AppendMissing
<1>4. CASE TakeHead(t) \/ WriteEvent(t)
  BY <1>4 DEF TakeHead, LockHead, txVars, WriteEvent, InsertEvent
<1>5. CASE /\ Ends(t) /\ db' = db
           /\ rows' = rows \/ (stage[t] = "begun" /\ rows' = rows \cup mine[t])
  BY <1>5 DEF CoreInv, Controlled
<1> QED
  BY <1>1, <1>2, <1>3, <1>4, <1>5, StepKinds

\* Rows and events stay in pairs, whatever a transaction does.
LEMMA MatchStep ==
  ASSUME CoreInv, Progress, MatchInv, NEW t \in Tx, StepOf(t)
  PROVE  MatchInv'
<1>1. CASE db' = db /\ rows' = rows
  BY <1>1 DEF MatchInv, RowsMatchEvents, KeysOf
<1> QED
  BY <1>1, QuietStep, WritingMatches

-----------------------------------------------------------------------------
(* The draw row and its lock *)

\* Whoever holds the draw row has read what is still there, and a draw is there.
Held(t) ==
  rowLock = t => /\ seen[t].status = db.status /\ seen[t].docs = db.docs
                 /\ db.status # "NONE"

\* Without the row, a transaction writes neither status nor documents.
LEMMA WithoutRow ==
  ASSUME CoreInv, NEW t \in Tx, Writing(t), rowLock # t, db.status # "NONE"
  PROVE  db'.status = db.status /\ db'.docs = db.docs
<1> DEFINE r == call[t]
           s == seen[t]
<1>1. /\ r \in Request /\ IsRows(db) /\ stage[t] = "appending"
      /\ WriteAccepted(r, s) /\ db' = RowsAfter(r, s) /\ Controlled(t)
  BY DEF Writing, CoreInv, Controlled, DrawTyped
<1>2. r.op \in {"create", "import"} /\ (r.op = "import" => s.status # "SETTLEMENT_INSTRUCTED")
  BY <1>1 DEF Controlled
<1> HIDE DEF r, s
<1>3. r.op # "create"
  BY <1>1 DEF WriteAccepted
<1> QED
  BY <1>1, <1>2, <1>3, RowsAfterAre

\* Every step keeps what the holder of the row has read.
LEMMA HeldStep ==
  ASSUME CoreInv, \A u \in Tx : Held(u), NEW t \in Tx, StepOf(t)
  PROVE  \A u \in Tx : Held(u)'
<1>1. ASSUME NEW u \in Tx, u # t PROVE Held(u)'
  <2>1. OtherKept(u) /\ Held(u)
    BY <1>1, OthersKept DEF CoreInv, LedgerInv
  <2>2. CASE db' = db
    BY <2>1, <2>2 DEF Held, OtherKept
  <2>3. CASE Writing(t)
    <3> SUFFICES ASSUME rowLock' = u
                 PROVE  /\ seen'[u].status = db'.status /\ seen'[u].docs = db'.docs
                        /\ db'.status # "NONE"
      BY DEF Held
    <3>1. rowLock = u /\ seen'[u] = seen[u]
      BY <2>1 DEF OtherKept
    <3>2. rowLock # t /\ db.status # "NONE" /\ seen[u].status = db.status /\ seen[u].docs = db.docs
      BY <1>1, <2>1, <3>1 DEF Held
    <3>3. db'.status = db.status /\ db'.docs = db.docs
      BY <2>3, <3>2, WithoutRow
    <3> QED
      BY <3>1, <3>2, <3>3
  <2> QED
    BY <2>2, <2>3, QuietStep
<1>2. Held(t)'
  <2>1. Held(t) /\ Controlled(t)
    BY DEF CoreInv
  <2>2. CASE \E r \in Request : Receive(t, r)
    BY <2>1, <2>2 DEF Receive, Begin, Held
  <2>3. CASE NotReplay(t)
    BY <2>1, <2>3 DEF NotReplay, Held
  <2>4. CASE LockRow(t)
    <3>1. seen'[t] = db /\ db' = db /\ db.status # "NONE"
      BY <2>4 DEF LockRow, LoadDraw, CoreInv, DrawTyped
    <3> QED
      BY <3>1 DEF Held
  <2>5. CASE NoInstruction(t)
    <3>1. rowLock' # t
      BY <2>1, <2>5 DEF NoInstruction, Controlled
    <3> QED
      BY <3>1 DEF Held
  <2>6. CASE LockInstructed(t)
    <3>1. seen'[t] = db /\ db' = db /\ db.instructions # {}
      BY <2>6 DEF LockInstructed, LoadDraw, CoreInv, DrawTyped
    <3>2. db.status # "NONE"
      BY <3>1 DEF CoreInv, Shape
    <3> QED
      BY <3>1, <3>2 DEF Held
  <2>7. CASE AppendNext(t)
    BY <2>1, <2>7 DEF AppendNext, Held
  <2>8. CASE TakeHead(t)
    BY <2>1, <2>8 DEF TakeHead, txVars, Held
  <2>9. CASE WriteEvent(t)
    BY <2>1, <2>9 DEF WriteEvent, Held
  <2>10. CASE Ends(t)
    <3>1. rowLock' # t
      BY <2>10, EndsLeaves DEF CoreInv, LedgerInv
    <3> QED
      BY <3>1 DEF Held
  <2> QED
    BY <2>2, <2>3, <2>4, <2>5, <2>6, <2>7, <2>8, <2>9, <2>10, StepKinds
<1> QED
  BY <1>1, <1>2

\* What an operation that holds the row may still find: the state it accepted.
LEMMA HolderAccepts ==
  ASSUME CoreInv, NEW t \in Tx, Held(t),
         stage[t] = "appending", call[t].op \notin {"create", "import"}
  PROVE  /\ rowLock = t /\ seen[t].status = db.status /\ seen[t].docs = db.docs
         /\ Accepts(call[t].op, seen[t]) /\ call[t].op \in Operation
         /\ db.status \in {"DRAFT", "SUBMITTED", "UNDER_REVIEW", "APPROVED"}
         /\ call[t].op = "upload" => db.status = "DRAFT"
<1>1. rowLock = t /\ Accepts(call[t].op, seen[t]) /\ call[t] \in Request
  BY DEF CoreInv, Controlled
<1>2. call[t].op \in Operation \ {"create", "import"}
  BY <1>1, TransactionConstants
<1>3. seen[t].status = db.status /\ seen[t].docs = db.docs
  BY <1>1 DEF Held
<1> QED
  BY <1>1, <1>2, <1>3 DEF Accepts, Operation

\* So the manifest that submit froze stays the documents of the draw.
LEMMA FrozenStep ==
  ASSUME CoreInv, \A u \in Tx : Held(u), FrozenManifestComplete, NEW t \in Tx, StepOf(t)
  PROVE  FrozenManifestComplete'
<1>1. CASE db' = db
  BY <1>1 DEF FrozenManifestComplete
<1>2. CASE Writing(t)
  <2> DEFINE r == call[t]
             s == seen[t]
  <2>1. /\ r \in Request /\ r.op \in Operation /\ IsRows(db) /\ stage[t] = "appending"
        /\ WriteAccepted(r, s) /\ db' = RowsAfter(r, s)
    BY <1>2, TransactionConstants DEF Writing, CoreInv, Controlled, DrawTyped
  <2>2. r.op \notin {"create", "import"} =>
          /\ s.docs = db.docs /\ db.status \in {"DRAFT", "SUBMITTED", "UNDER_REVIEW", "APPROVED"}
          /\ Accepts(r.op, s) /\ s.status = db.status
    BY <2>1, HolderAccepts
  <2> HIDE DEF r, s
  <2>3. CASE r.op = "create"
    <3>1. db'.status = "DRAFT"
      BY <2>1, <2>3, RowsAfterAre
    <3> QED
      BY <3>1 DEF FrozenManifestComplete
  <2>4. CASE r.op = "upload"
    <3>1. db'.status = db.status
      BY <2>1, <2>4, RowsAfterAre
    <3>2. db.status = "DRAFT"
      BY <2>2, <2>4 DEF Accepts
    <3> QED
      BY <3>1, <3>2 DEF FrozenManifestComplete
  <2>5. CASE r.op = "submit"
    <3>1. db'.manifest = s.docs /\ db'.docs = db.docs
      BY <2>1, <2>5, RowsAfterAre
    <3> QED
      BY <2>2, <2>5, <3>1 DEF FrozenManifestComplete
  <2>6. CASE r.op \in {"evaluate", "approve", "instruct"}
    <3>1. db.status \notin {"NONE", "DRAFT"}
      BY <2>2, <2>6 DEF Accepts
    <3>2. db'.manifest = db.manifest /\ db'.docs = db.docs
      BY <2>1, <2>6, RowsAfterAre
    <3> QED
      BY <3>1, <3>2 DEF FrozenManifestComplete
  <2>7. CASE r.op = "import"
    <3>1. db'.manifest = db.manifest /\ db'.docs = db.docs
      BY <2>1, <2>7, RowsAfterAre
    <3>2. db'.status = db.status \/ db.status = "SETTLEMENT_INSTRUCTED"
      BY <2>1, <2>7, RowsAfterAre DEF WriteAccepted
    <3> QED
      BY <3>1, <3>2 DEF FrozenManifestComplete
  <2> QED
    BY <2>1, <2>3, <2>4, <2>5, <2>6, <2>7 DEF Operation
<1> QED
  BY <1>1, <1>2, QuietStep

-----------------------------------------------------------------------------
(* Requests that are sent in turn *)

\* No two attempts of one request of this operation are under way together: who
\* sends it again has waited for the end of the attempt before.
InTurn(op) ==
  \A t, u \in Tx :
    call[t] # NoRequest /\ call[t].op = op /\ call[u] = call[t] => t = u

\* What was no replay when isReplay looked for the key is none now.
StillNew(op) ==
  \A t \in Tx :
    stage[t] \notin {"idle", "begun"} /\ call[t].op = op =>
      \A e \in rows : e.key # call[t].key

\* Whatever a transaction inserts carries the key of its request.
LEMMA MineKey ==
  ASSUME CoreInv, Progress, NEW t \in Tx, NEW e \in mine[t]
  PROVE  e.key = call[t].key /\ call[t] \in Request
<1>1. stage[t] \in {"batch", "appending"}
  BY DEF CoreInv, Controlled, DrawTyped, Stage
<1>2. ScriptOf(Script(t), call[t]) /\ call[t] \in Request
  BY <1>1, ScriptIs
<1>3. OnScript(t)
  BY DEF Progress
<1>4. (\E x \in DoneOf(Script(t), plan[t]) : Writes(e, x)) \/ Writes(e, Batch(call[t]))
  BY <1>1, <1>3 DEF OnScript
<1>5. \A x \in DoneOf(Script(t), plan[t]) : x.key = call[t].key
  <2>1. IsScript(Script(t)) /\ Rest(Script(t), plan[t])
    BY <1>1, <1>2, <1>3 DEF OnScript, ScriptOf
  <2>2. \A x \in DoneOf(Script(t), plan[t]) : x \in {Script(t)[i] : i \in DOMAIN Script(t)}
    BY <2>1, DoneTyped
  <2> QED
    BY <1>2, <2>2 DEF ScriptOf
<1>6. Batch(call[t]).key = call[t].key
  BY DEF Batch, Event
<1> QED
  BY <1>2, <1>4, <1>5, <1>6 DEF Writes

\* A key is committed by attempts of its own request only, so it stays new as
\* long as they come in turn.
LEMMA StillNewStep ==
  ASSUME CoreInv, Progress, NEW op, InTurn(op), StillNew(op), NEW t \in Tx, StepOf(t)
  PROVE  StillNew(op)'
<1> SUFFICES ASSUME NEW u \in Tx, stage'[u] \notin {"idle", "begun"}, call'[u].op = op,
                    NEW e \in rows'
             PROVE  e.key # call'[u].key
  BY DEF StillNew
<1>1. Controlled(t) /\ DrawTyped /\ TypeOK
  BY DEF CoreInv, LedgerInv
<1>2. CASE Ends(t)
  <2>1. u # t /\ OtherKept(u)
    BY <1>1, <1>2, EndsLeaves
  <2>2. call'[u] = call[u] /\ stage'[u] = stage[u] /\ rows' \subseteq rows \cup mine[t]
    BY <1>2, <2>1 DEF OtherKept, Ends, Commit, InsertRefused, Rollback, Abandon
  <2>3. CASE e \in rows
    BY <2>2, <2>3 DEF StillNew
  <2>4. CASE e \in mine[t]
    <3>1. e.key = call[t].key /\ call[t] \in Request
      BY <2>4, MineKey
    <3>2. call[u] \in Request
      BY <2>2 DEF CoreInv, Controlled, DrawTyped
    <3>3. call[u] # call[t]
      BY <2>1, <2>2, <3>2, TransactionConstants DEF InTurn
    <3> QED
      BY <2>2, <3>1, <3>2, <3>3, TransactionConstants
  <2> QED
    BY <2>2, <2>3, <2>4
<1>3. CASE ~Ends(t) /\ u # t
  <2>1. OtherKept(u)
    BY <1>1, <1>3, OthersKept
  <2>2. rows' = rows
    BY <1>3, StepKinds DEF Receive, Begin, NotReplay, LockRow, NoInstruction, LockInstructed,
                AppendNext, AppendFound, AppendMissing, TakeHead, LockHead, WriteEvent,
                InsertEvent, vars
  <2> QED
    BY <2>1, <2>2 DEF OtherKept, StillNew
<1>4. CASE u = t /\ \E r \in Request : Receive(t, r)
  BY <1>1, <1>4 DEF Receive, DrawTyped
<1>5. CASE u = t /\ NotReplay(t)
  BY <1>5 DEF NotReplay, IsReplay, vars
<1>6. CASE u = t /\ (\/ LockRow(t) \/ NoInstruction(t) \/ LockInstructed(t) \/ AppendNext(t)
                     \/ TakeHead(t) \/ WriteEvent(t))
  <2>1. /\ call' = call /\ rows' = rows
        /\ stage[t] \in {"lookup", "batch"} \/ stage' = stage
    BY <1>6 DEF LockRow, NoInstruction, LockInstructed, AppendNext, AppendFound, AppendMissing,
                TakeHead, LockHead, txVars, WriteEvent, InsertEvent, vars
  <2> QED
    BY <1>6, <2>1 DEF StillNew
<1> QED
  BY <1>2, <1>3, <1>4, <1>5, <1>6, StepKinds

-----------------------------------------------------------------------------
(* No wait cycle, when imports are sent in turn *)

\* An import that is past its batch event holds the chain head.
HoldsHead(t) ==
  (\/ stage[t] = "appending" /\ call[t].op = "import"
   \/ stage[t] = "batch" /\ plan[t] = <<>>) => lock = t

\* Its batch event is then one it inserted, under the chain head, and not one it found.
LEMMA HoldsHeadStep ==
  ASSUME CoreInv, Progress, StillNew("import"), \A u \in Tx : HoldsHead(u),
         NEW t \in Tx, StepOf(t)
  PROVE  \A u \in Tx : HoldsHead(u)'
<1>1. ASSUME NEW u \in Tx, u # t PROVE HoldsHead(u)'
  <2>1. OtherKept(u) /\ HoldsHead(u)
    BY <1>1, OthersKept DEF CoreInv, LedgerInv
  <2> QED
    BY <2>1 DEF OtherKept, HoldsHead
<1>2. HoldsHead(t)'
  <2>1. HoldsHead(t) /\ Controlled(t) /\ DrawTyped /\ LedgerInv
    BY DEF CoreInv
  <2>2. CASE \E r \in Request : Receive(t, r)
    <3>1. stage'[t] = "begun"
      BY <2>1, <2>2 DEF Receive, DrawTyped
    <3> QED
      BY <3>1 DEF HoldsHead
  <2>3. CASE NotReplay(t)
    <3>1. /\ call' = call /\ stage'[t] \in {"appending", "batch", "lookup"}
          /\ stage'[t] = "appending" => call[t].op = "create"
          /\ stage'[t] = "batch" =>
               plan'[t] = <<Event(call[t], "CSV_BATCH_IMPORTED", "NONE", "NONE")>>
      BY <2>1, <2>3 DEF NotReplay, DrawTyped
    <3>2. <<Event(call[t], "CSV_BATCH_IMPORTED", "NONE", "NONE")>> # <<>>
      OBVIOUS
    <3> QED
      BY <3>1, <3>2 DEF HoldsHead
  <2>4. CASE LockRow(t)
    <3>1. call' = call /\ stage'[t] = "appending" /\ call[t].op # "import"
      BY <2>1, <2>4 DEF LockRow, DrawTyped, Controlled
    <3> QED
      BY <3>1 DEF HoldsHead
  <2>5. CASE NoInstruction(t) \/ LockInstructed(t)
    <3>1. stage[t] = "batch" /\ plan[t] = <<>> /\ lock' = lock
      BY <2>5 DEF NoInstruction, LockInstructed, vars
    <3> QED
      BY <2>1, <3>1 DEF HoldsHead
  <2>6. CASE AppendNext(t)
    <3>1. /\ stage' = stage /\ call' = call /\ lock' = lock /\ stage[t] \in {"batch", "appending"}
          /\ plan[t] # <<>>
      BY <2>6 DEF AppendNext, AppendFound, AppendMissing
    <3>2. CASE stage[t] = "appending"
      BY <2>1, <3>1, <3>2 DEF HoldsHead
    <3>3. CASE plan' = plan
      BY <2>1, <3>1, <3>3 DEF HoldsHead
    <3>4. CASE stage[t] = "batch" /\ AppendFound(t, Head(plan[t]))
      <4>1. call[t] \in Request /\ call[t].op = "import"
        BY <2>1, <3>4 DEF Controlled
      <4>2. \A e \in rows : e.key # call[t].key
        BY <3>4, <4>1 DEF StillNew
      <4>3. Head(plan[t]).key = call[t].key
        <5>1. ScriptOf(Script(t), call[t]) /\ Rest(Script(t), plan[t])
          BY <3>1, ScriptIs DEF Progress, OnScript
        <5>2. Head(plan[t]) \in {Script(t)[i] : i \in DOMAIN Script(t)}
          BY <3>1, <5>1, DoneTyped DEF ScriptOf
        <5> QED
          BY <5>1, <5>2 DEF ScriptOf
      <4>4. PICK e \in Visible(t) : SameKey(e, Head(plan[t]))
        BY <3>4 DEF AppendFound
      <4>5. e \in mine[t]
        BY <4>2, <4>3, <4>4 DEF SameKey, Visible
      <4>6. lock = t
        BY <2>1, <4>5 DEF LedgerInv, PendingUnderLock
      <4> QED
        BY <3>1, <4>6 DEF HoldsHead
    <3> QED
      BY <2>6, <3>1, <3>2, <3>3, <3>4 DEF AppendNext
  <2>7. CASE TakeHead(t)
    BY <2>7 DEF TakeHead, LockHead, HoldsHead
  <2>8. CASE WriteEvent(t)
    <3>1. lock' = lock /\ lock = t
      BY <2>1, <2>8 DEF WriteEvent, InsertEvent, LedgerInv, LockedHolds
    <3> QED
      BY <3>1 DEF HoldsHead
  <2>9. CASE Ends(t)
    <3>1. stage'[t] = "idle"
      BY <2>9, EndsLeaves DEF CoreInv, LedgerInv
    <3> QED
      BY <3>1 DEF HoldsHead
  <2> QED
    BY <2>2, <2>3, <2>4, <2>5, <2>6, <2>7, <2>8, <2>9, StepKinds
<1> QED
  BY <1>1, <1>2

\* Whoever waits for the head with the row in hand found no instruction yet, and
\* then nobody who holds the head waits for the row.
LEMMA HeadAndRow ==
  ASSUME CoreInv, \A t \in Tx : Held(t), \A t \in Tx : HoldsHead(t)
  PROVE  NoWaitCycle
<1> SUFFICES ASSUME NEW t \in Tx, NEW u \in Tx,
                    WaitsForHead(t), lock = u, WaitsForRow(u), rowLock = t
             PROVE  FALSE
  BY DEF NoWaitCycle
<1>1. pc[t] = "miss" /\ lock # t
  BY DEF WaitsForHead
<1>2. stage[t] = "appending" /\ call[t].op # "create"
  BY DEF CoreInv, Controlled
<1>3. call[t].op # "import"
  BY <1>1, <1>2 DEF HoldsHead
<1>4. db.status \in {"DRAFT", "SUBMITTED", "UNDER_REVIEW", "APPROVED"}
  BY <1>2, <1>3, HolderAccepts
<1>5. stage[u] # "lookup"
  BY DEF CoreInv, Controlled
<1>6. db.instructions # {}
  BY <1>5 DEF WaitsForRow
<1> QED
  BY <1>4, <1>6 DEF CoreInv, Shape

-----------------------------------------------------------------------------
(* The auditor's replay, when evaluations are sent in turn *)

\* The moves m lead from one state to the next in chain order, and at last to s.
Linked(m, s) ==
  /\ m = {} => s = "NONE"
  /\ \A e \in m : (\A f \in m : f.seq <= e.seq) => e.body.after = s
  /\ \A e, f \in m :
       (e.seq < f.seq /\ ~ \E g \in m : e.seq < g.seq /\ g.seq < f.seq) =>
         e.body.after = f.body.before

\* A later move from the last state prolongs them.
LEMMA LinkedGrows ==
  ASSUME NEW m, NEW e, Linked(m, e.body.before), e.seq \in Nat,
         \A f \in m : f.seq \in Nat /\ f.seq < e.seq
  PROVE  Linked(m \cup {e}, e.body.after)
<1> DEFINE all == m \cup {e}
<1>1. \A f \in all : (\A g \in all : g.seq <= f.seq) => f = e
  OBVIOUS
<1>2. ASSUME NEW f \in all, NEW g \in all, f.seq < g.seq,
             ~ \E h \in all : f.seq < h.seq /\ h.seq < g.seq
      PROVE  f.body.after = g.body.before
  <2>1. f \in m
    BY <1>2
  <2>2. CASE g \in m
    BY <1>2, <2>1, <2>2 DEF Linked
  <2>3. CASE g = e
    <3>1. \A h \in m : h.seq <= f.seq
      BY <1>2, <2>1, <2>3
    <3> QED
      BY <2>1, <2>3, <3>1 DEF Linked
  <2> QED
    BY <2>2, <2>3
<1>3. \A f \in all : (\A g \in all : g.seq <= f.seq) => f.body.after = e.body.after
  BY <1>1
<1> QED
  BY <1>2, <1>3 DEF Linked

\* Linked moves that end in the draw's status are what the auditor expects.
LEMMA LinkedMatches ==
  ASSUME CoreInv, Linked(Moves, db.status)
  PROVE  StatusMatchesTrail
<1>1. CASE Moves = {}
  BY <1>1 DEF Linked, StatusMatchesTrail, LastState
<1>2. CASE Moves # {}
  <2> DEFINE S == {e.seq : e \in Moves}
  <2>1. head.seq \in Nat /\ \A e \in rows : e.seq \in 1..head.seq
    BY DEF CoreInv, LedgerInv, ChainIntact, Chained, TypeOK, HeadRow
  <2>2. S # {} /\ S \subseteq 0..head.seq
    BY <1>2, <2>1 DEF Moves
  <2>3. Max(S) \in S /\ \A n \in S : Max(S) >= n
    <3> HIDE DEF S
    <3> QED
      BY <2>1, <2>2, MaxIsGreatest
  <2>4. \E e \in Moves : \A f \in Moves : f.seq <= e.seq
    <3>1. PICK e \in Moves : e.seq = Max(S)
      BY <2>3
    <3>2. \A f \in Moves : f.seq \in S
      OBVIOUS
    <3>3. \A n \in S : n \in Nat
      BY <2>2
    <3> HIDE DEF S
    <3> QED
      BY <2>3, <3>1, <3>2, <3>3
  <2> DEFINE top == CHOOSE e \in Moves : \A f \in Moves : f.seq <= e.seq
  <2>5. top \in Moves /\ \A f \in Moves : f.seq <= top.seq
    BY <2>4
  <2>6. LastState = top.body.after
    BY <1>2 DEF LastState
  <2> HIDE DEF top
  <2>7. top.body.after = db.status
    BY <2>5 DEF Linked
  <2> QED
    BY <2>6, <2>7 DEF Linked, StatusMatchesTrail
<1> QED
  BY <1>1, <1>2

\* An operation of one event that was not committed before commits just that.
LEMMA OneMove ==
  ASSUME CoreInv, Progress, NEW t \in Tx, Writing(t), call[t].op # "import",
         NEW x \in AppendInput, Script(t) = <<x>>,
         \A e \in rows : ~SameKey(e, x)
  PROVE  \E e : mine[t] = {e} /\ Writes(e, x)
<1>1. stage[t] = "appending" /\ plan[t] = <<>>
  BY DEF Writing
<1>2. DoneOf(Script(t), plan[t]) = {x}
  BY <1>1, ScriptMembers
<1>3. /\ \E e \in Visible(t) : SameKey(e, x)
      /\ \A e \in mine[t] : Writes(e, x)
  BY <1>1, <1>2 DEF Progress, OnScript
<1>4. PICK e \in mine[t] : SameKey(e, x)
  BY <1>3 DEF Visible
<1>5. \A f \in mine[t] : f = e
  <2>1. \A f \in mine[t] : SameKey(f, e)
    BY <1>3, <1>4 DEF Writes, SameKey
  <2> QED
    BY <1>4, <2>1 DEF Visible, CoreInv, LedgerInv, DistinctKeys
<1> QED
  BY <1>3, <1>4, <1>5

\* So does the trail: it ends in the state the event names.
LEMMA OneMoveLinked ==
  ASSUME CoreInv, Progress, MineUncommitted, Linked(Moves, db.status),
         NEW t \in Tx, Writing(t), call[t].op # "import",
         NEW ty \in DrawEventType, NEW a \in DrawState, a # "NONE",
         Script(t) = <<Event(call[t], ty, db.status, a)>>, call[t] \in Request,
         \A e \in rows : ~(e.key = call[t].key /\ e.type = ty)
  PROVE  Linked(Moves', a)
<1> DEFINE x == Event(call[t], ty, db.status, a)
<1>1. x \in AppendInput
  BY EventTyped DEF CoreInv, DrawTyped, IsRows
<1>2. x.key = call[t].key /\ x.type = ty /\ x.body.before = db.status /\ x.body.after = a
  BY DEF Event
<1>3. Script(t) = <<x>>
  OBVIOUS
<1> HIDE DEF x
<1>4. \A e \in rows : ~SameKey(e, x)
  BY <1>2 DEF SameKey
<1>5. PICK e : mine[t] = {e} /\ Writes(e, x)
  BY <1>1, <1>3, <1>4, OneMove
<1>6. Moves' = Moves \cup {e}
  <2>1. rows' = rows \cup {e}
    BY <1>5 DEF Writing
  <2>2. e.body.after # "NONE"
    BY <1>2, <1>5 DEF Writes
  <2> QED
    BY <2>1, <2>2 DEF Moves
<1>7. e.seq \in Nat /\ \A f \in Moves : f.seq \in Nat /\ f.seq < e.seq
  <2>1. e \in Row
    BY <1>5 DEF CoreInv, LedgerInv, TypeOK
  <2>2. \A f \in rows : f.seq \in Nat /\ f.seq < e.seq
    BY <1>5, MineBeyondHead DEF CoreInv
  <2> QED
    BY <2>1, <2>2 DEF Moves, Row
<1>8. e.body.before = db.status /\ e.body.after = a
  BY <1>2, <1>5 DEF Writes
<1> QED
  BY <1>6, <1>7, <1>8, LinkedGrows

\* A transaction that commits no move leaves the trail.
LEMMA NoMove ==
  ASSUME CoreInv, Progress, NEW t \in Tx, Writing(t), NEW ty \in DrawEventType,
         call[t] \in Request, Script(t) = <<Event(call[t], ty, "NONE", "NONE")>>
  PROVE  Moves' = Moves
<1> DEFINE x == Event(call[t], ty, "NONE", "NONE")
           b == Batch(call[t])
<1>1. x \in AppendInput
  BY EventTyped DEF DrawState
<1>2. x.body.after = "NONE" /\ b.body.after = "NONE"
  BY DEF Batch, Event
<1>3. Script(t) = <<x>>
  OBVIOUS
<1> HIDE DEF x
<1>4. stage[t] = "appending" /\ plan[t] = <<>> /\ rows' = rows \cup mine[t]
  BY DEF Writing
<1>5. DoneOf(Script(t), plan[t]) = {x}
  BY <1>1, <1>3, <1>4, ScriptMembers
<1>6. \A e \in mine[t] : Writes(e, x) \/ Writes(e, b)
  BY <1>4, <1>5 DEF Progress, OnScript
<1>7. \A e \in mine[t] : e.body.after = "NONE"
  BY <1>2, <1>6 DEF Writes
<1> QED
  BY <1>4, <1>7 DEF Moves

\* A settlement that is confirmed and reconciled makes two moves.
LEMMA TwoMovesLinked ==
  ASSUME CoreInv, Progress, MineUncommitted, Linked(Moves, "SETTLEMENT_INSTRUCTED"),
         NEW t \in Tx, Writing(t), call[t] \in Request,
         Script(t) =
           <<Event(call[t], "DRAW_SETTLEMENT_CONFIRMED",
                   "SETTLEMENT_INSTRUCTED", "SETTLEMENT_CONFIRMED"),
             Event(call[t], "DRAW_RECONCILED", "SETTLEMENT_CONFIRMED", "RECONCILED")>>,
         \A e \in rows : e.type \notin {"DRAW_SETTLEMENT_CONFIRMED", "DRAW_RECONCILED"}
  PROVE  Linked(Moves', "RECONCILED")
<1> DEFINE c == Event(call[t], "DRAW_SETTLEMENT_CONFIRMED",
                      "SETTLEMENT_INSTRUCTED", "SETTLEMENT_CONFIRMED")
           d == Event(call[t], "DRAW_RECONCILED", "SETTLEMENT_CONFIRMED", "RECONCILED")
           b == Batch(call[t])
<1>1. c \in AppendInput /\ d \in AppendInput
  <2>1. /\ {"DRAW_SETTLEMENT_CONFIRMED", "DRAW_RECONCILED"} \subseteq DrawEventType
        /\ {"SETTLEMENT_INSTRUCTED", "SETTLEMENT_CONFIRMED", "RECONCILED"} \subseteq DrawState
    BY DEF DrawEventType, DrawState
  <2> QED
    BY <2>1, EventTyped
<1>2. /\ c.type = "DRAW_SETTLEMENT_CONFIRMED" /\ c.body.before = "SETTLEMENT_INSTRUCTED"
      /\ c.body.after = "SETTLEMENT_CONFIRMED"
      /\ d.type = "DRAW_RECONCILED" /\ d.body.before = "SETTLEMENT_CONFIRMED"
      /\ d.body.after = "RECONCILED" /\ b.body.after = "NONE"
  BY DEF Batch, Event
<1>3. Script(t) = <<c, d>>
  OBVIOUS
<1> HIDE DEF c, d, b
<1>4. stage[t] = "appending" /\ plan[t] = <<>> /\ rows' = rows \cup mine[t]
  BY DEF Writing
<1>5. DoneOf(Script(t), plan[t]) = {c, d}
  BY <1>1, <1>3, <1>4, ScriptMembers
<1>6. /\ \A x \in {c, d} : \E e \in Visible(t) : SameKey(e, x)
      /\ \A e \in mine[t] : Writes(e, c) \/ Writes(e, d) \/ Writes(e, b)
      /\ \A e, f \in mine[t] :
           e.type = "DRAW_SETTLEMENT_CONFIRMED" /\ f.type = "DRAW_RECONCILED" => e.seq < f.seq
  BY <1>4, <1>5 DEF Progress, OnScript, b
<1>7. b.type = "CSV_BATCH_IMPORTED"
  BY DEF b, Batch, Event
<1>8. PICK e \in mine[t] : SameKey(e, c) /\ Writes(e, c)
  BY <1>2, <1>6, <1>7 DEF Visible, SameKey, Writes
<1>9. PICK f \in mine[t] : SameKey(f, d) /\ Writes(f, d)
  BY <1>2, <1>6, <1>7 DEF Visible, SameKey, Writes
<1>10. \A g \in mine[t] : g = e \/ g = f \/ g.body.after = "NONE"
  <2>1. \A g \in mine[t] : SameKey(g, e) \/ SameKey(g, f) \/ Writes(g, b)
    BY <1>6, <1>8, <1>9 DEF Writes, SameKey
  <2>2. \A g, h \in mine[t] : SameKey(g, h) => g = h
    BY DEF Visible, CoreInv, LedgerInv, DistinctKeys
  <2> QED
    BY <1>2, <2>1, <2>2 DEF Writes
<1>11. /\ e.body.before = "SETTLEMENT_INSTRUCTED" /\ e.body.after = "SETTLEMENT_CONFIRMED"
       /\ f.body.before = "SETTLEMENT_CONFIRMED" /\ f.body.after = "RECONCILED"
       /\ e.seq < f.seq
  BY <1>2, <1>6, <1>8, <1>9 DEF Writes
<1>12. Moves' = (Moves \cup {e}) \cup {f}
  BY <1>4, <1>8, <1>9, <1>10, <1>11 DEF Moves
<1>13. /\ e.seq \in Nat /\ f.seq \in Nat
       /\ \A g \in Moves : g.seq \in Nat /\ g.seq < e.seq /\ g.seq < f.seq
  <2>1. e \in Row /\ f \in Row
    BY <1>8, <1>9 DEF CoreInv, LedgerInv, TypeOK
  <2>2. \A g \in rows : g.seq \in Nat /\ g.seq < e.seq /\ g.seq < f.seq
    BY <1>8, <1>9, MineBeyondHead DEF CoreInv
  <2> QED
    BY <2>1, <2>2 DEF Moves, Row
<1>14. Linked(Moves \cup {e}, e.body.after)
  BY <1>11, <1>13, LinkedGrows
<1>15. Linked((Moves \cup {e}) \cup {f}, f.body.after)
  <2> DEFINE m == Moves \cup {e}
  <2>1. Linked(m, f.body.before) /\ \A g \in m : g.seq \in Nat /\ g.seq < f.seq
    BY <1>11, <1>13, <1>14
  <2> HIDE DEF m
  <2>2. Linked(m \cup {f}, f.body.after)
    BY <1>13, <2>1, LinkedGrows
  <2> QED
    BY <2>2 DEF m
<1> QED
  BY <1>11, <1>12, <1>15

\* The trail stays linked, unless an evaluation overlaps with its retry: that one
\* may find its event under an earlier state than the one it has read.
LEMMA TrailStep ==
  ASSUME CoreInv, Progress, MineUncommitted, MatchInv, \A u \in Tx : Held(u),
         StillNew("evaluate"), Linked(Moves, db.status), NEW t \in Tx, StepOf(t)
  PROVE  Linked(Moves', db'.status)
<1>1. CASE db' = db /\ rows' = rows
  BY <1>1 DEF Moves
<1>2. CASE Writing(t)
  <2> DEFINE r == call[t]
             s == seen[t]
  <2>1. /\ r \in Request /\ r.op \in Operation /\ IsRows(db) /\ IsRows(s) /\ stage[t] = "appending"
        /\ WriteAccepted(r, s) /\ db' = RowsAfter(r, s)
    BY <1>2, TransactionConstants DEF Writing, CoreInv, Controlled, DrawTyped
  <2>2. /\ r.op = "create" => Script(t) = <<Event(r, "DRAW_CREATED", "NONE", "DRAFT")>>
        /\ r.op # "create" => Script(t) = Events(r, s)
    BY <2>1, ScriptIs
  <2>3. /\ {"NONE", "DRAFT", "SUBMITTED", "UNDER_REVIEW", "APPROVED", "SETTLEMENT_INSTRUCTED",
            "SETTLEMENT_CONFIRMED", "RECONCILED"} \subseteq DrawState
        /\ {"DRAW_CREATED", "EVIDENCE_UPLOADED", "EVIDENCE_SUPERSEDED", "DRAW_SUBMITTED",
            "DRAW_POLICY_EVALUATED", "DRAW_APPROVED", "DRAW_SETTLEMENT_INSTRUCTED",
            "DRAW_RECONCILIATION_BREAK"} \subseteq DrawEventType
    BY DEF DrawState, DrawEventType
  <2>4. ASSUME NEW ty, NEW e \in rows, e.type = ty PROVE e.key \in KeysOf({ty})
    BY <2>4 DEF KeysOf
  <2>5. ASSUME NEW ty \in DrawEventType, NEW a \in DrawState, a # "NONE", r.op # "import",
               Script(t) = <<Event(r, ty, db.status, a)>>,
               \A e \in rows : ~(e.key = r.key /\ e.type = ty)
        PROVE  Linked(Moves', a)
    BY <1>2, <2>1, <2>5, OneMoveLinked
  <2>6. ASSUME NEW ty \in DrawEventType, Script(t) = <<Event(r, ty, "NONE", "NONE")>>
        PROVE  Moves' = Moves
    BY <1>2, <2>1, <2>6, NoMove
  <2>7. CASE r.op = "create"
    <3>1. db.status = "NONE" /\ KeysOf({"DRAW_CREATED"}) = {}
      BY <2>1, <2>7 DEF WriteAccepted, MatchInv
    <3>2. \A e \in rows : ~(e.key = r.key /\ e.type = "DRAW_CREATED")
      BY <2>4, <3>1
    <3>3. Script(t) = <<Event(r, "DRAW_CREATED", db.status, "DRAFT")>>
      BY <2>2, <2>7, <3>1
    <3>4. Linked(Moves', "DRAFT")
      <4> HIDE DEF r, s
      <4> QED
        BY <2>3, <2>5, <2>7, <3>2, <3>3
    <3>5. db'.status = "DRAFT"
      <4> HIDE DEF r, s
      <4> QED
        BY <2>1, <2>7, RowsAfterAre
    <3> QED
      BY <3>4, <3>5
  <2> HIDE DEF r, s
  <2>8. CASE r.op = "upload"
    <3>1. PICK ty \in {"EVIDENCE_UPLOADED", "EVIDENCE_SUPERSEDED"} :
            Events(r, s) = <<Event(r, ty, "NONE", "NONE")>>
      BY <2>1, <2>8, EventsAre
    <3>2. Moves' = Moves
      BY <2>2, <2>3, <2>6, <2>8, <3>1
    <3>3. db'.status = db.status
      BY <2>1, <2>8, RowsAfterAre
    <3> QED
      BY <3>2, <3>3
  <2>9. CASE r.op = "submit"
    <3>1. db.status = s.status /\ KeysOf({"DRAW_SUBMITTED"}) = {}
      BY <2>1, <2>9 DEF WriteAccepted, MatchInv, RowsMatchEvents
    <3>2. \A e \in rows : ~(e.key = r.key /\ e.type = "DRAW_SUBMITTED")
      BY <2>4, <3>1
    <3>3. Script(t) = <<Event(r, "DRAW_SUBMITTED", db.status, "SUBMITTED")>>
      BY <2>1, <2>2, <2>9, <3>1, EventsAre
    <3>4. Linked(Moves', "SUBMITTED")
      BY <2>3, <2>5, <2>9, <3>2, <3>3
    <3>5. db'.status = "SUBMITTED"
      BY <2>1, <2>9, RowsAfterAre
    <3> QED
      BY <3>4, <3>5
  <2>10. CASE r.op = "evaluate"
    <3>1. db.status = s.status
      BY <2>1, <2>10 DEF WriteAccepted
    <3>2. \A e \in rows : ~(e.key = r.key /\ e.type = "DRAW_POLICY_EVALUATED")
      BY <1>2, <2>10 DEF StillNew, Writing, r
    <3>3. Script(t) = <<Event(r, "DRAW_POLICY_EVALUATED", db.status, "UNDER_REVIEW")>>
      BY <2>1, <2>2, <2>10, <3>1, EventsAre
    <3>4. Linked(Moves', "UNDER_REVIEW")
      BY <2>3, <2>5, <2>10, <3>2, <3>3
    <3>5. db'.status = "UNDER_REVIEW"
      BY <2>1, <2>10, RowsAfterAre
    <3> QED
      BY <3>4, <3>5
  <2>11. CASE r.op = "approve"
    <3>1. db.status = s.status /\ r.key \notin KeysOf({"DRAW_APPROVED"})
      BY <2>1, <2>11 DEF WriteAccepted, MatchInv, RowsMatchEvents
    <3>2. \A e \in rows : ~(e.key = r.key /\ e.type = "DRAW_APPROVED")
      BY <2>4, <3>1
    <3>3. Script(t) = <<Event(r, "DRAW_APPROVED", db.status, "APPROVED")>>
      BY <2>1, <2>2, <2>11, <3>1, EventsAre
    <3>4. Linked(Moves', "APPROVED")
      BY <2>3, <2>5, <2>11, <3>2, <3>3
    <3>5. db'.status = "APPROVED"
      BY <2>1, <2>11, RowsAfterAre
    <3> QED
      BY <3>4, <3>5
  <2>12. CASE r.op = "instruct"
    <3>1. db.status = s.status /\ KeysOf({"DRAW_SETTLEMENT_INSTRUCTED"}) = {}
      BY <2>1, <2>12 DEF WriteAccepted, MatchInv, RowsMatchEvents
    <3>2. \A e \in rows : ~(e.key = r.key /\ e.type = "DRAW_SETTLEMENT_INSTRUCTED")
      BY <2>4, <3>1
    <3>3. Script(t) = <<Event(r, "DRAW_SETTLEMENT_INSTRUCTED", db.status, "SETTLEMENT_INSTRUCTED")>>
      BY <2>1, <2>2, <2>12, <3>1, EventsAre
    <3>4. Linked(Moves', "SETTLEMENT_INSTRUCTED")
      BY <2>3, <2>5, <2>12, <3>2, <3>3
    <3>5. db'.status = "SETTLEMENT_INSTRUCTED"
      BY <2>1, <2>12, RowsAfterAre
    <3> QED
      BY <3>4, <3>5
  <2>13. CASE r.op = "import" /\ s.confirmations = {} /\ s.status = "SETTLEMENT_INSTRUCTED"
    <3>1. /\ db.status = "SETTLEMENT_INSTRUCTED"
          /\ KeysOf({"DRAW_SETTLEMENT_CONFIRMED"}) = {} /\ KeysOf({"DRAW_RECONCILED"}) = {}
      BY <2>1, <2>13 DEF WriteAccepted, MatchInv, RowsMatchEvents
    <3>2. \A e \in rows : e.type \notin {"DRAW_SETTLEMENT_CONFIRMED", "DRAW_RECONCILED"}
      BY <2>4, <3>1
    <3>3. Script(t) =
            <<Event(r, "DRAW_SETTLEMENT_CONFIRMED",
                    "SETTLEMENT_INSTRUCTED", "SETTLEMENT_CONFIRMED"),
              Event(r, "DRAW_RECONCILED", "SETTLEMENT_CONFIRMED", "RECONCILED")>>
      BY <2>1, <2>2, <2>13, EventsAre
    <3>4. Linked(Moves', "RECONCILED")
      BY <1>2, <2>1, <3>1, <3>2, <3>3, TwoMovesLinked DEF r
    <3>5. db'.status = "RECONCILED"
      BY <2>1, <2>13, RowsAfterAre
    <3> QED
      BY <3>4, <3>5
  <2>14. CASE r.op = "import" /\ ~(s.confirmations = {} /\ s.status = "SETTLEMENT_INSTRUCTED")
    <3>1. Events(r, s) = <<Event(r, "DRAW_RECONCILIATION_BREAK", "NONE", "NONE")>>
      BY <2>1, <2>14, EventsAre
    <3>2. Moves' = Moves
      BY <2>2, <2>3, <2>6, <2>14, <3>1
    <3>3. db'.status = db.status
      BY <2>1, <2>14, RowsAfterAre
    <3> QED
      BY <3>2, <3>3
  <2> QED
    BY <2>1, <2>7, <2>8, <2>9, <2>10, <2>11, <2>12, <2>13, <2>14 DEF Operation
<1> QED
  BY <1>1, <1>2, QuietStep

-----------------------------------------------------------------------------
(* The inductive invariant of the transactions *)

\* What is true of the transactions in every reachable state.
DrawInv ==
  /\ CoreInv
  /\ Progress
  /\ MineUncommitted
  /\ MatchInv
  /\ \A t \in Tx : Held(t)
  /\ FrozenManifestComplete

\* What is true besides while imports, or evaluations, are sent in turn.
ImportsInv == StillNew("import") /\ \A t \in Tx : HoldsHead(t)
TrailInv == StillNew("evaluate") /\ Linked(Moves, db.status)

\* At the start there is nothing.
LEMMA DrawInit == TransactionsInit => DrawInv /\ ImportsInv /\ TrailInv
<1> SUFFICES ASSUME TransactionsInit PROVE DrawInv /\ ImportsInv /\ TrailInv
  OBVIOUS
<1>1. CoreInv
  BY CoreInit
<1>2. /\ rows = {} /\ mine = [t \in Tx |-> {}] /\ rowLock = NoTx /\ stage = [t \in Tx |-> "idle"]
      /\ call = [t \in Tx |-> NoRequest] /\ attempts = [r \in Request |-> 0]
      /\ db.status = "NONE" /\ db.docs = {} /\ db.manifest = {} /\ db.evaluations = {}
      /\ db.decisions = {} /\ db.instructions = {}
  BY DEF TransactionsInit, Init, NoRows
<1>3. Progress /\ MineUncommitted
  BY <1>2 DEF Progress, OnScript, MineUncommitted
<1>4. MatchInv
  BY <1>2 DEF MatchInv, RowsMatchEvents, KeysOf
<1>5. (\A t \in Tx : Held(t)) /\ FrozenManifestComplete
  BY <1>2, LedgerConstants DEF Held, FrozenManifestComplete
<1>6. StillNew("import") /\ StillNew("evaluate")
  BY <1>2 DEF StillNew
<1>7. \A t \in Tx : HoldsHead(t)
  BY <1>2 DEF HoldsHead
<1>8. Linked(Moves, db.status)
  BY <1>2 DEF Linked, Moves
<1> QED
  BY <1>1, <1>3, <1>4, <1>5, <1>6, <1>7, <1>8 DEF DrawInv, ImportsInv, TrailInv

\* Every step of a transaction keeps it.
LEMMA DrawStep ==
  ASSUME DrawInv, NEW t \in Tx, StepOf(t)
  PROVE  DrawInv'
<1> USE DEF DrawInv
<1>1. CoreInv'
  BY CoreStep
<1>2. Progress'
  BY <1>1, ProgressStep
<1>3. MineUncommitted'
  BY StepIsLedgerStep, UncommittedStep DEF CoreInv
<1>4. MatchInv'
  BY MatchStep
<1>5. \A u \in Tx : Held(u)'
  BY HeldStep
<1>6. FrozenManifestComplete'
  BY FrozenStep
<1> QED
  BY <1>1, <1>2, <1>3, <1>4, <1>5, <1>6

\* And what is true while imports are sent in turn.
LEMMA ImportsStep ==
  ASSUME DrawInv, ImportsInv, InTurn("import"), NEW t \in Tx, StepOf(t)
  PROVE  ImportsInv'
<1>1. StillNew("import")'
  BY StillNewStep DEF DrawInv, ImportsInv
<1>2. \A u \in Tx : HoldsHead(u)'
  BY HoldsHeadStep DEF DrawInv, ImportsInv
<1> QED
  BY <1>1, <1>2 DEF ImportsInv

\* And what is true while evaluations are.
LEMMA EvaluationsStep ==
  ASSUME DrawInv, TrailInv, InTurn("evaluate"), NEW t \in Tx, StepOf(t)
  PROVE  TrailInv'
<1>1. StillNew("evaluate")'
  BY StillNewStep DEF DrawInv, TrailInv
<1>2. Linked(Moves', db'.status)
  BY TrailStep DEF DrawInv, TrailInv
<1> QED
  BY <1>1, <1>2 DEF TrailInv

\* Nothing it speaks of changes when nobody takes a step.
LEMMA DrawStutters ==
  ASSUME DrawInv, UNCHANGED allVars
  PROVE  DrawInv' /\ (ImportsInv => ImportsInv') /\ (TrailInv => TrailInv')
<1>1. /\ rows' = rows /\ head' = head /\ lock' = lock /\ pc' = pc /\ req' = req /\ mine' = mine
      /\ view' = view /\ asked' = asked /\ db' = db /\ rowLock' = rowLock /\ call' = call
      /\ stage' = stage /\ seen' = seen /\ plan' = plan /\ attempts' = attempts
  BY DEF allVars, vars, txVars
<1>2. CoreInv'
  <2>1. LedgerInv'
    BY <1>1, LedgerStep DEF DrawInv, CoreInv, vars
  <2>2. DrawTyped' /\ Shape(db)' /\ \A t \in Tx : Controlled(t)'
    BY <1>1 DEF DrawInv, CoreInv, DrawTyped, Controlled
  <2> QED
    BY <2>1, <2>2 DEF CoreInv
<1>3. Progress'
  <2>1. ASSUME NEW u \in Tx PROVE OnScript(u)'
    <3>1. OnScript(u) /\ Visible(u)' = Visible(u)
      BY <1>1 DEF DrawInv, Progress, Visible
    <3> QED
      BY <1>1, <3>1, ProgressKept
  <2> QED
    BY <2>1 DEF Progress
<1>4. MineUncommitted' /\ MatchInv' /\ FrozenManifestComplete'
  BY <1>1 DEF DrawInv, MineUncommitted, MatchInv, RowsMatchEvents, KeysOf, FrozenManifestComplete
<1>5. (\A t \in Tx : Held(t))'
  BY <1>1 DEF DrawInv, Held
<1>6. ImportsInv => ImportsInv'
  BY <1>1 DEF ImportsInv, StillNew, HoldsHead
<1>7. TrailInv => TrailInv'
  <2>1. Moves' = Moves
    BY <1>1 DEF Moves
  <2> QED
    BY <1>1, <2>1 DEF TrailInv, StillNew
<1> QED
  BY <1>2, <1>3, <1>4, <1>5, <1>6, <1>7 DEF DrawInv

\* A step of the transactions is a step of one of them.
LEMMA SomeoneSteps == TransactionsNext => \E t \in Tx : StepOf(t)
BY DEF TransactionsNext, StepOf

\* The transactions keep their inductive invariant.
LEMMA DrawInvariant == TransactionsSpec => []DrawInv
<1>1. DrawInv /\ [TransactionsNext]_allVars => DrawInv'
  BY DrawStep, DrawStutters, SomeoneSteps
<1> QED
  BY DrawInit, <1>1, PTL DEF TransactionsSpec

\* DrawService touches the ledger through PgEventStore only: with its calls, the
\* ledger takes no steps but its own (draw-service.ts, events.append).
THEOREM TransactionsAreLedger == TransactionsSpec => Spec
<1>1. TransactionsInit => Init
  BY DEF TransactionsInit
<1>2. DrawInv /\ [TransactionsNext]_allVars => [Next]_vars
  <2>1. UNCHANGED allVars => UNCHANGED vars
    BY DEF allVars
  <2> QED
    BY <2>1, StepIsLedgerStep, SomeoneSteps DEF DrawInv
<1> QED
  BY <1>1, <1>2, DrawInvariant, PTL DEF TransactionsSpec, Spec

\* So the events of the draw service make an append-only log as well: a COMMIT
\* publishes all events of a call at once, at the end (withTenantTx, db.ts:44).
THEOREM TransactionsRefineLog == TransactionsSpec => RefinesAppendOnlyLog
BY TransactionsAreLedger, LedgerRefinesLog, PTL

\* No row of a draw without its audit event and no event whose rows were lost,
\* through failures, concurrent calls and retries, of imports too
\* (draw-service.ts:701, "event first, then the rows it describes").
THEOREM RowsAlwaysMatchEvents == TransactionsSpec => []RowsMatchEvents
<1>1. DrawInv => RowsMatchEvents
  BY DEF DrawInv, MatchInv
<1> QED
  BY <1>1, DrawInvariant, PTL

\* An upload that runs at the same time as submit is in the frozen manifest or is
\* refused (draw-service.ts:285-398).
THEOREM ManifestStaysComplete == TransactionsSpec => []FrozenManifestComplete
<1>1. DrawInv => FrozenManifestComplete
  BY DEF DrawInv
<1> QED
  BY <1>1, DrawInvariant, PTL

\* No two calls wait for each other over the chain head and a draw row, although
\* they take them in both orders, unless an import is sent again before the first
\* attempt has ended (draw-service.ts:685, 747).  Such a retry may find the batch
\* event of the first, go on without the head and want it with the row in hand.
THEOREM NobodyWaitsInACircle == TransactionsSpec /\ []InTurn("import") => []NoWaitCycle
<1>1. DrawInv /\ ImportsInv /\ InTurn("import") /\ [TransactionsNext]_allVars => ImportsInv'
  BY ImportsStep, DrawStutters, SomeoneSteps
<1>2. DrawInv /\ ImportsInv => NoWaitCycle
  BY HeadAndRow DEF DrawInv, ImportsInv
<1> QED
  BY DrawInit, DrawInvariant, <1>1, <1>2, PTL DEF TransactionsSpec

\* The auditor's replay of a draw's events ends in the status of its row, with no
\* step missing, unless an evaluation is sent again before the first attempt has
\* ended (draw-service.ts:403: isReplay is read before the wait for the row).
THEOREM TrailLeadsToStatus == TransactionsSpec /\ []InTurn("evaluate") => []StatusMatchesTrail
<1>1. DrawInv /\ TrailInv /\ InTurn("evaluate") /\ [TransactionsNext]_allVars => TrailInv'
  BY EvaluationsStep, DrawStutters, SomeoneSteps
<1>2. DrawInv /\ TrailInv => StatusMatchesTrail
  BY LinkedMatches DEF DrawInv, TrailInv
<1> QED
  BY DrawInit, DrawInvariant, <1>1, <1>2, PTL DEF TransactionsSpec

-----------------------------------------------------------------------------
(* Requests that are sent once are sent in turn *)

\* A request that was never sent is served by nobody, one that was sent once by
\* one transaction at most.
Accounted ==
  \A r \in Request :
    /\ attempts[r] <= Sendings[r]
    /\ attempts[r] = 0 => \A t \in Tx : call[t] # r
    /\ attempts[r] = 1 => \A t, u \in Tx : call[t] = r /\ call[u] = r => t = u

\* Every step keeps this account.
LEMMA AccountedStep ==
  ASSUME CoreInv, Accounted, NEW t \in Tx, StepOf(t)
  PROVE  Accounted'
<1>1. DrawTyped /\ TypeOK /\ Controlled(t)
  BY DEF CoreInv, LedgerInv
<1>2. CASE \E r \in Request : Receive(t, r)
  <2>1. PICK r \in Request : Receive(t, r)
    BY <1>2
  <2>2. /\ call' = [call EXCEPT ![t] = r] /\ attempts' = [attempts EXCEPT ![r] = @ + 1]
        /\ call[t] = NoRequest /\ attempts[r] < Sendings[r]
    BY <1>1, <2>1 DEF Receive, Begin, Controlled
  <2>3. \A q \in Request : attempts[q] \in Nat /\ Sendings[q] \in Nat
    BY <1>1, TransactionConstants DEF DrawTyped
  <2>4. ASSUME NEW q \in Request, q # r
        PROVE  attempts'[q] = attempts[q] /\ \A u \in Tx : (call'[u] = q) <=> (call[u] = q)
    BY <1>1, <2>2, <2>4, TransactionConstants DEF DrawTyped
  <2>5. attempts'[r] = attempts[r] + 1 /\ attempts'[r] <= Sendings[r]
    BY <1>1, <2>2, <2>3 DEF DrawTyped
  <2>6. attempts'[r] = 1 => \A u, v \in Tx : call'[u] = r /\ call'[v] = r => u = v
    <3> SUFFICES ASSUME attempts[r] = 0
                 PROVE  \A u \in Tx : call'[u] = r => u = t
      BY <2>3, <2>5
    <3>1. \A u \in Tx : call[u] # r
      BY DEF Accounted
    <3> QED
      BY <1>1, <2>2, <3>1 DEF DrawTyped
  <2>7. attempts'[r] # 0
    BY <2>3, <2>5
  <2>8. ASSUME NEW q \in Request
        PROVE  /\ attempts'[q] <= Sendings[q]
               /\ attempts'[q] = 0 => \A u \in Tx : call'[u] # q
               /\ attempts'[q] = 1 => \A u, v \in Tx : call'[u] = q /\ call'[v] = q => u = v
    <3>1. CASE q = r
      BY <2>5, <2>6, <2>7, <3>1
    <3>2. CASE q # r
      BY <2>4, <3>2 DEF Accounted
    <3> QED
      BY <3>1, <3>2
  <2> QED
    BY <2>8 DEF Accounted
<1>3. CASE Ends(t)
  <2>1. attempts' = attempts /\ \A q \in Request, u \in Tx : call'[u] = q => call[u] = q
    BY <1>1, <1>3, EndsLeaves, TransactionConstants DEF OtherKept
  <2> QED
    BY <2>1 DEF Accounted
<1>4. CASE NotReplay(t) \/ LockRow(t) \/ NoInstruction(t) \/ LockInstructed(t) \/ AppendNext(t)
           \/ TakeHead(t) \/ WriteEvent(t)
  <2>1. call' = call /\ attempts' = attempts
    BY <1>4 DEF NotReplay, LockRow, NoInstruction, LockInstructed, AppendNext, AppendFound,
                AppendMissing, TakeHead, LockHead, txVars, WriteEvent, InsertEvent, vars
  <2> QED
    BY <2>1 DEF Accounted
<1> QED
  BY <1>2, <1>3, <1>4, StepKinds

\* Requests of an operation that are sent once, as in the run `transactions`, are
\* sent in turn.
LEMMA SentOnceIsInTurn ==
  ASSUME NEW op, \A r \in Request : r.op = op => Sendings[r] <= 1
  PROVE  TransactionsSpec => []InTurn(op)
<1>1. TransactionsInit => Accounted
  BY TransactionConstants DEF TransactionsInit, Accounted
<1>2. DrawInv /\ Accounted /\ [TransactionsNext]_allVars => Accounted'
  <2>1. ASSUME Accounted, UNCHANGED allVars PROVE Accounted'
    BY <2>1 DEF Accounted, allVars, txVars
  <2> QED
    BY <2>1, AccountedStep, SomeoneSteps DEF DrawInv
<1>3. DrawInv /\ Accounted => InTurn(op)
  <2> SUFFICES ASSUME DrawInv, Accounted, NEW t \in Tx, NEW u \in Tx,
                      call[t] # NoRequest, call[t].op = op, call[u] = call[t]
               PROVE  t = u
    BY DEF InTurn
  <2>1. call[t] \in Request /\ attempts[call[t]] \in Nat /\ Sendings[call[t]] \in Nat
    BY TransactionConstants DEF DrawInv, CoreInv, DrawTyped
  <2>2. attempts[call[t]] <= Sendings[call[t]] /\ Sendings[call[t]] <= 1 /\ attempts[call[t]] # 0
    BY <2>1 DEF Accounted
  <2>3. attempts[call[t]] = 1
    BY <2>1, <2>2
  <2> QED
    BY <2>1, <2>3 DEF Accounted
<1> QED
  BY DrawInvariant, <1>1, <1>2, <1>3, PTL DEF TransactionsSpec
=============================================================================
