-------------------------- MODULE EvidenceGateProofs ---------------------------
(***************************************************************************)
(* Proofs about EvidenceGate.  What callers have read is out of date when  *)
(* they act on it; the invariant says what is still true of it: documents  *)
(* keep the fields they were submitted with and their order, an expired    *)
(* document is past its date, and a document whose pipeline found a        *)
(* conflict when it was submitted is never read as validated.              *)
(***************************************************************************)
EXTENDS EvidenceGate, ListLemmas

Statuses == {"validated", "flagged", "expired"}
Events == {"EVIDENCE_SUBMITTED", "EVIDENCE_VALIDATED", "EVIDENCE_FLAGGED", "EVIDENCE_EXPIRED"}

\* A document the pipeline may judge, and one that it has judged.
Judgeable ==
  [class : Class, hash : Hash \cup {None}, number : Number \cup {None},
   destination : Destination \cup {None}, verified : Destination \cup {None},
   milestone : Milestone, expires : Nat \cup {None}, defects : SUBSET {"approval", "category"},
   submitted : Nat, status : Statuses \cup {"pending"}, flags : BOOLEAN]

Item == {e \in Judgeable : e.status \in Statuses}

StoreCall == [op : {"store"}, document : Document, submitted : Nat, seen : Seq(Item)]
LogCall == [op : {"log"}, status : {"flagged", "expired"}, id : Nat]
ReadCall == [op : {"read"}, id : Nat, item : Item, maxAge : MaxAgeOption]
JudgeCall == [op : {"judge"}, id : Nat, item : Item, maxAge : MaxAgeOption, seen : Seq(Item)]

Call == {Idle} \cup StoreCall \cup LogCall \cup ReadCall \cup JudgeCall

\* The type of the state: every document has an event.
EvidenceTyped ==
  /\ evidence \in Seq(Item) /\ told \in Seq(Events) /\ Len(told) = Len(evidence)
  /\ today \in Nat
  /\ calls \in [Caller -> Call]
  /\ \A c \in Caller : calls[c].op \in {"store", "log"} => c \in Submitter
  /\ \A c \in Caller : calls[c].op \in {"read", "judge"} => c \in Validator

\* One document at two times: the fields it was submitted with.
Same(e, f) ==
  /\ e.class = f.class /\ e.hash = f.hash /\ e.number = f.number
  /\ e.milestone = f.milestone /\ e.expires = f.expires /\ e.submitted = f.submitted

\* Every document of seen is one of list, perhaps as it was earlier.
AllKnown(seen, list) == \A k \in DOMAIN seen : \E j \in DOMAIN list : Same(seen[k], list[j])

\* seen is list as it was earlier, and nothing was submitted since.
AllSeen(seen, list) ==
  DOMAIN seen = DOMAIN list /\ \A k \in DOMAIN list : Same(seen[k], list[k])

PastOn(e, day) == e.expires # None /\ e.expires < day

\* What holds of a document on a day.
DocumentInv(e, list, day) ==
  /\ e.submitted <= day
  /\ e.status = "expired" => PastOn(e, day)
  /\ e.class = "invoice" /\ e.status = "validated" =>
       \E j \in DOMAIN list : list[j].class = "lien_waiver" /\ list[j].milestone = e.milestone

\* What is still true of what a caller has read.
CallInv(call, list, day) ==
  /\ call.op = "store" => call.submitted <= day /\ AllKnown(call.seen, list)
  /\ call.op \in {"read", "judge"} =>
       /\ call.id \in DOMAIN list /\ Same(call.item, list[call.id])
       /\ call.item.status = "expired" => PastOn(call.item, day)
  /\ call.op = "judge" => AllKnown(call.seen, list)

\* Neither the document nor a copy that a re-validation will judge is
\* validated.
NeverValid(i, list, cs) ==
  /\ list[i].status # "validated"
  /\ \A c \in Caller :
       cs[c].op \in {"read", "judge"} /\ cs[c].id = i => cs[c].item.status # "validated"

\* A logged status is that of a document that was never valid.
LogInv(call, list, cs) ==
  call.op = "log" =>
    /\ call.id \in DOMAIN list /\ NeverValid(call.id, list, cs)
    /\ call.status = "expired" => list[call.id].status = "expired"

\* The last event of a document against its status.
Tells(event, status) ==
  \/ event = StatusEvent(status)
  \/ event = "EVIDENCE_SUBMITTED" /\ status = "validated"
  \/ event = "EVIDENCE_FLAGGED" /\ status = "expired"

\* Two documents of which the second repeats the first.
Repeats(e, f) ==
  \/ e.hash = f.hash
  \/ e.class = "invoice" /\ f.class = "invoice" /\ e.number # None /\ e.number = f.number

DocumentsKept == \A i \in DOMAIN evidence : DocumentInv(evidence[i], evidence, today)
CallsKept == \A c \in Caller : CallInv(calls[c], evidence, today)
LogsKept == \A c \in Caller : LogInv(calls[c], evidence, calls)

\* Every document is told, or a submitter is about to tell of it.
Telling ==
  \A i \in DOMAIN evidence :
    \/ Tells(told[i], evidence[i].status)
    \/ \E c \in Submitter : calls[c].op = "log" /\ calls[c].id = i

EvidenceInv == EvidenceTyped /\ DocumentsKept /\ CallsKept /\ LogsKept /\ Telling

\* The part that holds when one submitter's requests follow one another.
InTurnInv ==
  /\ \A c \in Submitter : calls[c].op = "store" => AllSeen(calls[c].seen, evidence)
  /\ \A i, j \in DOMAIN evidence :
       i < j /\ Repeats(evidence[i], evidence[j]) => NeverValid(j, evidence, calls)

-----------------------------------------------------------------------------
(* The pipeline                                                            *)

\* What a call is follows from its op.
LEMMA CallOp ==
  ASSUME NEW call \in Call
  PROVE  /\ call.op = "store" => call \in StoreCall
         /\ call.op = "log" => call \in LogCall
         /\ call.op = "read" => call \in ReadCall
         /\ call.op = "judge" => call \in JudgeCall
BY DEF Call, Idle, StoreCall, LogCall, ReadCall, JudgeCall

\* What the pipeline makes of a document.
LEMMA Pipeline ==
  ASSUME NEW e \in Judgeable, NEW seen, NEW maxAge
  PROVE  LET r == validateEvidencePipeline(e, seen, maxAge)
         IN  /\ r \in Item /\ Same(r, e)
             /\ r.status = "expired" <=> ~Unexpired(e)
             /\ r.status = "validated" => detectEvidenceConflicts(e, seen) = {}
<1> DEFINE flags == e.defects
               \cup (IF Fresh(e, maxAge) THEN {} ELSE {"EVIDENCE_STALE"})
               \cup (IF Unexpired(e) THEN {} ELSE {"EVIDENCE_EXPIRED"})
               \cup detectEvidenceConflicts(e, seen)
           b == flags # {}
           status == IF ~Unexpired(e) THEN "expired" ELSE IF b THEN "flagged" ELSE "validated"
           r == [e EXCEPT !.flags = b, !.status = status]
<1>1. validateEvidencePipeline(e, seen, maxAge) = r
  BY DEF validateEvidencePipeline
<1>2. b \in BOOLEAN
  OBVIOUS
<1>3. ~b => detectEvidenceConflicts(e, seen) = {}
  OBVIOUS
<1> HIDE DEF flags, b
<1>4. /\ status \in Statuses
      /\ status = "expired" <=> ~Unexpired(e)
      /\ status = "validated" => ~b
  BY DEF Statuses
<1> HIDE DEF status
<1>5. r \in Judgeable /\ r.status = status /\ Same(r, e)
  BY <1>2, <1>4 DEF Judgeable, Statuses, Same
<1>6. r \in Item
  BY <1>4, <1>5 DEF Item
<1> HIDE DEF r
<1> QED
  BY <1>1, <1>3, <1>4, <1>5, <1>6

\* What it means that the pipeline found no conflict.
LEMMA NoConflict ==
  ASSUME NEW e \in Judgeable, NEW seen \in Seq(Item), detectEvidenceConflicts(e, seen) = {}
  PROVE  /\ e.status # "flagged" /\ ~DuplicateInvoice(e, seen) /\ ~MissingLienWaiver(e, seen)
         /\ \A k \in DOMAIN seen : seen[k].hash # e.hash
<1> DEFINE t == Append(seen, e)
           n == Len(seen) + 1
<1>1. flagEvidenceConflicts(t) = {} /\ ~DuplicateInvoice(e, seen) /\ ~MissingLienWaiver(e, seen)
  BY DEF detectEvidenceConflicts
<1>2. /\ n \in DOMAIN t /\ n \notin DOMAIN seen /\ t[n] = e
      /\ \A k \in DOMAIN seen : k \in DOMAIN t /\ t[k] = seen[k]
  <2>1. seen \in Seq(Judgeable)
    BY LenProperties DEF Item
  <2> QED
    BY <2>1, AppendedAt
<1> HIDE DEF t, n
<1>3. ~(\E i \in DOMAIN t : t[i].status = "flagged") /\ ~DuplicateHash(t)
  <2>1. "DUPLICATE_DOCUMENT_HASH" \notin flagEvidenceConflicts(t)
    BY <1>1
  <2>2. "EVIDENCE_FLAGGED" \notin flagEvidenceConflicts(t)
    BY <1>1
  <2>3. ~DuplicateHash(t)
    BY <2>1 DEF flagEvidenceConflicts
  <2>4. ~ \E i \in DOMAIN t : t[i].status = "flagged"
    BY <2>2, Zenon DEF flagEvidenceConflicts
  <2> QED
    BY <2>3, <2>4
<1> QED
  BY <1>1, <1>2, <1>3 DEF DuplicateHash

\* The documents other than one are documents.
LEMMA OthersKnown ==
  ASSUME NEW S, NEW s \in Seq(S), NEW id \in DOMAIN s
  PROVE  LET t == SubSeq(s, 1, id - 1) \o SubSeq(s, id + 1, Len(s))
         IN  t \in Seq(S) /\ \A k \in DOMAIN t : \E j \in DOMAIN s : t[k] = s[j]
<1> DEFINE n == Len(s)
           u == SubSeq(s, 1, id - 1)
           v == SubSeq(s, id + 1, n)
           t == u \o v
<1>1. n \in Nat /\ DOMAIN s = 1..n /\ id \in 1..n /\ \A i \in 1..n : s[i] \in S
  BY LenProperties, ElementOfSeq
<1>2. u \in Seq(S) /\ Len(u) = id - 1 /\ \A i \in 1..(id - 1) : u[i] = s[i]
  <2>1. /\ 1 \in Int /\ id - 1 \in Int /\ \A i \in 1..(id - 1) : s[i] \in S
        /\ \A i \in 1..(id - 1) : 1 + i - 1 = i /\ i \in 1..((id - 1) - 1 + 1)
        /\ (IF 1 <= id - 1 THEN (id - 1) - 1 + 1 ELSE 0) = id - 1
    BY <1>1
  <2>2. /\ u \in Seq(S) /\ Len(u) = IF 1 <= id - 1 THEN (id - 1) - 1 + 1 ELSE 0
        /\ \A i \in 1..((id - 1) - 1 + 1) : u[i] = s[1 + i - 1]
    BY <2>1, SubSeqProperties
  <2> HIDE DEF u
  <2> QED
    BY <2>1, <2>2
<1>3. v \in Seq(S) /\ Len(v) = n - id /\ \A i \in 1..(n - id) : v[i] = s[id + i]
  <2>1. /\ id + 1 \in Int /\ n \in Int /\ \A i \in (id + 1)..n : s[i] \in S
        /\ \A i \in 1..(n - id) : id + 1 + i - 1 = id + i /\ i \in 1..(n - (id + 1) + 1)
        /\ (IF id + 1 <= n THEN n - (id + 1) + 1 ELSE 0) = n - id
    BY <1>1
  <2>2. /\ v \in Seq(S) /\ Len(v) = IF id + 1 <= n THEN n - (id + 1) + 1 ELSE 0
        /\ \A i \in 1..(n - (id + 1) + 1) : v[i] = s[id + 1 + i - 1]
    BY <2>1, SubSeqProperties
  <2> HIDE DEF v, n
  <2> QED
    BY <2>1, <2>2
<1> HIDE DEF u, v
<1>4. /\ t \in Seq(S) /\ Len(t) = Len(u) + Len(v)
      /\ \A i \in 1..(Len(u) + Len(v)) : t[i] = IF i <= Len(u) THEN u[i] ELSE v[i - Len(u)]
  BY <1>2, <1>3, ConcatProperties
<1>5. DOMAIN t = 1..Len(t)
  BY <1>4, LenProperties
<1> HIDE DEF t, n
<1>6. ASSUME NEW k \in DOMAIN t PROVE \E j \in DOMAIN s : t[k] = s[j]
  <2>1. k \in 1..(n - 1)
    BY <1>1, <1>2, <1>3, <1>4, <1>5
  <2>2. CASE k <= id - 1
    <3>1. t[k] = s[k] /\ k \in 1..n
      BY <1>1, <1>2, <1>3, <1>4, <1>5, <2>1, <2>2
    <3> QED
      BY <1>1, <3>1
  <2>3. CASE ~(k <= id - 1)
    <3>1. t[k] = v[k - (id - 1)] /\ k - (id - 1) \in 1..(n - id)
      BY <1>1, <1>2, <1>3, <1>4, <1>5, <2>1, <2>3
    <3>2. t[k] = s[id + (k - (id - 1))] /\ id + (k - (id - 1)) \in 1..n
      BY <1>1, <1>3, <3>1
    <3> QED
      BY <1>1, <3>2
  <2> QED
    BY <2>2, <2>3
<1> QED
  BY <1>4, <1>6 DEF t, u, v, n
-----------------------------------------------------------------------------
(* What stays true as documents are added and judged                       *)

\* list holds the documents of before, with the fields they had.
Grown(before, list) ==
  DOMAIN before \subseteq DOMAIN list /\ \A i \in DOMAIN before : Same(before[i], list[i])

\* Same fields, seen from either side.
LEMMA SameFields ==
  ASSUME NEW e, NEW f
  PROVE  /\ Same(e, e) /\ Same(e, f) => Same(f, e)
         /\ \A g : Same(e, f) /\ Same(f, g) => Same(e, g)
BY DEF Same

\* What a caller has read stays as true.
LEMMA CallStays ==
  ASSUME NEW call \in Call, NEW before, NEW list, NEW day \in Nat, NEW later \in Nat,
         CallInv(call, before, day), Grown(before, list), day <= later
  PROVE  CallInv(call, list, later)
<1>1. ASSUME NEW seen, AllKnown(seen, before) PROVE AllKnown(seen, list)
  <2> SUFFICES ASSUME NEW k \in DOMAIN seen PROVE \E j \in DOMAIN list : Same(seen[k], list[j])
    BY DEF AllKnown
  <2>1. PICK j \in DOMAIN before : Same(seen[k], before[j])
    BY <1>1 DEF AllKnown
  <2>2. j \in DOMAIN list /\ Same(before[j], list[j])
    BY DEF Grown
  <2> QED
    BY <2>1, <2>2, SameFields
<1>2. ASSUME call.op = "store"
      PROVE  call.submitted <= later /\ AllKnown(call.seen, list)
  <2>1. call.submitted \in Nat
    BY <1>2, CallOp DEF StoreCall
  <2>2. call.submitted <= day /\ AllKnown(call.seen, before)
    BY <1>2 DEF CallInv
  <2> QED
    BY <1>1, <2>1, <2>2
<1>3. ASSUME call.op \in {"read", "judge"}
      PROVE  /\ call.id \in DOMAIN list /\ Same(call.item, list[call.id])
             /\ call.item.status = "expired" => PastOn(call.item, later)
  <2>1. call.item \in Item
    BY <1>3, CallOp DEF ReadCall, JudgeCall
  <2>2. call.item.expires \in Nat \cup {None}
    BY <2>1 DEF Item, Judgeable
  <2>3. /\ call.id \in DOMAIN before /\ Same(call.item, before[call.id])
        /\ call.item.status = "expired" => PastOn(call.item, day)
    BY <1>3 DEF CallInv
  <2>4. PastOn(call.item, day) => PastOn(call.item, later)
    BY <2>2 DEF PastOn
  <2>5. call.id \in DOMAIN list /\ Same(call.item, list[call.id])
    BY <2>3 DEF Grown, Same
  <2> QED
    BY <2>3, <2>4, <2>5
<1>4. call.op = "judge" => AllKnown(call.seen, list)
  BY <1>1 DEF CallInv
<1> QED
  BY <1>2, <1>3, <1>4 DEF CallInv

\* A document that keeps its status, too.
LEMMA DocumentStays ==
  ASSUME NEW e \in Item, NEW before, NEW list, NEW day \in Nat, NEW later \in Nat,
         DocumentInv(e, before, day), Grown(before, list), day <= later
  PROVE  DocumentInv(e, list, later)
<1>1. e.submitted \in Nat /\ e.expires \in Nat \cup {None}
  BY DEF Item, Judgeable
<1>2. e.submitted <= later
  BY <1>1 DEF DocumentInv
<1>3. e.status = "expired" => PastOn(e, later)
  BY <1>1 DEF DocumentInv, PastOn
<1>4. e.class = "invoice" /\ e.status = "validated" =>
        \E j \in DOMAIN list : list[j].class = "lien_waiver" /\ list[j].milestone = e.milestone
  BY Zenon DEF DocumentInv, Grown, Same
<1> QED
  BY <1>2, <1>3, <1>4 DEF DocumentInv

\* A document that was never valid is not judged valid later: what is judged
\* was read when it was not, and judging keeps a flag and an expiry.
LEMMA NeverValidStays ==
  ASSUME NEW i \in DOMAIN evidence, NEW list, NEW cs, NeverValid(i, evidence, calls),
         \/ list[i].status = evidence[i].status
         \/ \E c \in Caller :
              /\ calls[c].op = "judge" /\ calls[c].id = i
              /\ calls[c].item.status # "validated" => list[i].status # "validated",
         \A b \in Caller : cs[b].op \in {"read", "judge"} =>
           \/ cs[b].item = evidence[cs[b].id]
           \/ /\ calls[b].op \in {"read", "judge"}
              /\ calls[b].id = cs[b].id /\ calls[b].item = cs[b].item
  PROVE  NeverValid(i, list, cs)
<1>1. list[i].status # "validated"
  BY DEF NeverValid
<1>2. ASSUME NEW b \in Caller, cs[b].op \in {"read", "judge"}, cs[b].id = i
      PROVE  cs[b].item.status # "validated"
  BY <1>2 DEF NeverValid
<1> QED
  BY <1>1, <1>2 DEF NeverValid

\* So is the status a submission is about to tell.
LEMMA LogStays ==
  ASSUME NEW call, NEW list, NEW cs, LogInv(call, evidence, calls),
         DOMAIN evidence \subseteq DOMAIN list,
         \A i \in DOMAIN evidence : NeverValid(i, evidence, calls) => NeverValid(i, list, cs),
         \A i \in DOMAIN evidence : evidence[i].status = "expired" => list[i].status = "expired"
  PROVE  LogInv(call, list, cs)
BY DEF LogInv

\* What every step keeps: the invariant, the documents, that a document was
\* never valid, and that it has expired.
Kept ==
  /\ EvidenceInv' /\ Grown(evidence, evidence')
  /\ \A i \in DOMAIN evidence :
       /\ NeverValid(i, evidence, calls) => NeverValid(i, evidence', calls')
       /\ evidence[i].status = "expired" => evidence'[i].status = "expired"

\* A step that moves one caller, and leaves the documents, keeps the invariant.
LEMMA OneCallerMoves ==
  ASSUME EvidenceInv, UNCHANGED <<evidence, told, today>>,
         NEW c \in Caller, NEW x \in Call, calls' = [calls EXCEPT ![c] = x],
         x.op = "store" => c \in Submitter, x.op \in {"read", "judge"} => c \in Validator,
         x.op # "log", calls[c].op # "log", CallInv(x, evidence, today),
         x.op \in {"read", "judge"} =>
           \/ x.item = evidence[x.id]
           \/ calls[c].op \in {"read", "judge"} /\ calls[c].id = x.id /\ calls[c].item = x.item
  PROVE  Kept
<1>1. /\ calls \in [Caller -> Call] /\ calls' \in [Caller -> Call] /\ calls'[c] = x
      /\ \A b \in Caller \ {c} : calls'[b] = calls[b]
  BY DEF EvidenceInv, EvidenceTyped
<1>2. EvidenceTyped'
  BY <1>1 DEF EvidenceInv, EvidenceTyped
<1>3. ASSUME NEW i \in DOMAIN evidence, NeverValid(i, evidence, calls)
      PROVE  NeverValid(i, evidence', calls')
  <2>1. \A b \in Caller : calls'[b].op \in {"read", "judge"} =>
           \/ calls'[b].item = evidence[calls'[b].id]
           \/ /\ calls[b].op \in {"read", "judge"}
              /\ calls[b].id = calls'[b].id /\ calls[b].item = calls'[b].item
    BY <1>1
  <2>2. evidence'[i].status # "validated"
    BY <1>3 DEF NeverValid
  <2>3. ASSUME NEW b \in Caller, calls'[b].op \in {"read", "judge"}, calls'[b].id = i
        PROVE  calls'[b].item.status # "validated"
    <3>1. CASE calls'[b].item = evidence[i]
      BY <1>3, <3>1 DEF NeverValid
    <3>2. CASE calls[b].op \in {"read", "judge"} /\ calls[b].id = i /\ calls[b].item = calls'[b].item
      BY <1>3, <3>2 DEF NeverValid
    <3> QED
      BY <2>1, <2>3, <3>1, <3>2
  <2> QED
    BY <2>2, <2>3 DEF NeverValid
<1>4. LogsKept'
  <2> SUFFICES ASSUME NEW b \in Caller PROVE LogInv(calls'[b], evidence', calls')
    BY DEF LogsKept
  <2>1. CASE b = c
    BY <1>1, <2>1 DEF LogInv
  <2>2. CASE b # c
    <3>1. calls'[b] = calls[b] /\ LogInv(calls[b], evidence, calls)
      BY <1>1, <2>2 DEF EvidenceInv, LogsKept
    <3>2. LogInv(calls[b], evidence', calls')
      BY <1>3, <3>1, LogStays
    <3> QED
      BY <3>1, <3>2
  <2> QED
    BY <2>1, <2>2
<1>5. DocumentsKept'
  BY DEF EvidenceInv, DocumentsKept
<1>6. CallsKept'
  BY <1>1 DEF EvidenceInv, CallsKept
<1>7. Telling'
  BY <1>1 DEF EvidenceInv, Telling, EvidenceTyped, Caller
<1>8. Grown(evidence, evidence')
  BY DEF Grown, Same
<1>9. EvidenceInv'
  BY <1>2, <1>4, <1>5, <1>6, <1>7 DEF EvidenceInv
<1> QED
  BY <1>3, <1>8, <1>9 DEF Kept

-----------------------------------------------------------------------------
(* One lemma per action                                                    *)

\* No document is submitted yet.
LEMMA EvidenceStart == EvidenceInit => EvidenceInv /\ InTurnInv
<1> SUFFICES ASSUME EvidenceInit PROVE EvidenceInv /\ InTurnInv
  OBVIOUS
<1>1. /\ evidence = <<>> /\ told = <<>> /\ today = 0 /\ calls = [c \in Caller |-> Idle]
      /\ DOMAIN <<>> = {} /\ Len(<<>>) = 0
  BY DEF EvidenceInit
<1>2. \A c \in Caller : calls[c] = Idle /\ calls[c].op = "idle"
  BY <1>1 DEF Idle
<1>3. EvidenceTyped
  BY <1>1, <1>2 DEF EvidenceTyped, Call
<1>4. DocumentsKept /\ CallsKept /\ LogsKept /\ Telling
  BY <1>1, <1>2 DEF DocumentsKept, CallsKept, LogsKept, Telling, CallInv, LogInv
<1>5. InTurnInv
  BY <1>1, <1>2 DEF InTurnInv, Caller
<1> QED
  BY <1>3, <1>4, <1>5 DEF EvidenceInv

\* What a submission reads is all there is.
LEMMA SubmitReadKeeps ==
  ASSUME EvidenceInv, NEW c \in Submitter, NEW d \in Document, SubmitRead(c, d)
  PROVE  Kept
<1> DEFINE x == [op |-> "store", document |-> d, submitted |-> today, seen |-> evidence]
<1>1. /\ calls[c] = Idle /\ calls' = [calls EXCEPT ![c] = x]
      /\ UNCHANGED <<evidence, told, today>>
  BY DEF SubmitRead
<1>2. evidence \in Seq(Item) /\ today \in Nat /\ c \in Caller
  BY DEF EvidenceInv, EvidenceTyped, Caller
<1>3. /\ x \in Call /\ x.op = "store" /\ x.submitted = today /\ x.seen = evidence
  BY <1>2 DEF Call, StoreCall
<1> HIDE DEF x
<1>4. CallInv(x, evidence, today)
  <2>1. \A k \in DOMAIN evidence : Same(evidence[k], evidence[k])
    BY DEF Same
  <2>2. AllKnown(evidence, evidence)
    BY <2>1 DEF AllKnown
  <2> QED
    BY <1>2, <1>3, <2>2 DEF CallInv
<1>5. calls[c].op = "idle"
  BY <1>1 DEF Idle
<1> QED
  BY <1>1, <1>2, <1>3, <1>4, <1>5, OneCallerMoves

\* A re-validation takes the document as it is.
LEMMA ValidateFindKeeps ==
  ASSUME EvidenceInv, NEW c \in Validator, NEW id \in DOMAIN evidence,
         NEW maxAge \in MaxAgeOption, ValidateFind(c, id, maxAge)
  PROVE  Kept
<1> DEFINE x == [op |-> "read", id |-> id, item |-> evidence[id], maxAge |-> maxAge]
<1>1. /\ calls[c] = Idle /\ calls' = [calls EXCEPT ![c] = x]
      /\ UNCHANGED <<evidence, told, today>>
  BY DEF ValidateFind
<1>2. evidence \in Seq(Item) /\ c \in Caller
  BY DEF EvidenceInv, EvidenceTyped, Caller
<1>3. id \in Nat /\ evidence[id] \in Item
  BY <1>2, LenProperties, ElementOfSeq
<1>4. /\ x \in Call /\ x.op = "read" /\ x.id = id /\ x.item = evidence[id]
  BY <1>3 DEF Call, ReadCall
<1> HIDE DEF x
<1>5. evidence[id].status = "expired" => PastOn(evidence[id], today)
  BY DEF EvidenceInv, DocumentsKept, DocumentInv
<1>6. CallInv(x, evidence, today)
  BY <1>4, <1>5 DEF CallInv, Same
<1>7. calls[c].op = "idle"
  BY <1>1 DEF Idle
<1> QED
  BY <1>1, <1>2, <1>4, <1>6, <1>7, OneCallerMoves

\* Then it takes the others, which may be newer than the document it has.
LEMMA ValidateReadKeeps ==
  ASSUME EvidenceInv, NEW c \in Validator, ValidateRead(c)
  PROVE  Kept
<1> DEFINE id == calls[c].id
           seen == SubSeq(evidence, 1, id - 1) \o SubSeq(evidence, id + 1, Len(evidence))
           x == [op |-> "judge", id |-> id, item |-> calls[c].item, maxAge |-> calls[c].maxAge,
                 seen |-> seen]
<1>1. /\ calls[c].op = "read" /\ calls' = [calls EXCEPT ![c] = x]
      /\ UNCHANGED <<evidence, told, today>>
  BY DEF ValidateRead
<1>2. evidence \in Seq(Item) /\ c \in Caller /\ calls[c] \in Call
  BY DEF EvidenceInv, EvidenceTyped, Caller
<1>3. /\ id \in DOMAIN evidence /\ Same(calls[c].item, evidence[id])
      /\ calls[c].item.status = "expired" => PastOn(calls[c].item, today)
  BY <1>1, <1>2 DEF EvidenceInv, CallsKept, CallInv
<1>4. id \in Nat /\ calls[c].item \in Item /\ calls[c].maxAge \in MaxAgeOption
  BY <1>1, <1>2, CallOp DEF ReadCall
<1>5. seen \in Seq(Item) /\ \A k \in DOMAIN seen : \E j \in DOMAIN evidence : seen[k] = evidence[j]
  <2> HIDE DEF id
  <2> QED
    BY <1>2, <1>3, OthersKnown
<1> HIDE DEF id, seen
<1>6. /\ x \in Call /\ x.op = "judge" /\ x.id = id /\ x.item = calls[c].item /\ x.seen = seen
  BY <1>4, <1>5 DEF Call, JudgeCall
<1> HIDE DEF x
<1>7. AllKnown(seen, evidence)
  <2> SUFFICES ASSUME NEW k \in DOMAIN seen PROVE \E j \in DOMAIN evidence : Same(seen[k], evidence[j])
    BY DEF AllKnown
  <2>1. PICK j \in DOMAIN evidence : seen[k] = evidence[j]
    BY <1>5
  <2>2. Same(seen[k], evidence[j])
    BY <2>1 DEF Same
  <2> QED
    BY <2>2
<1>8. CallInv(x, evidence, today)
  BY <1>3, <1>6, <1>7 DEF CallInv
<1>9. /\ x.op \notin {"store", "log"} /\ calls[c].op # "log"
      /\ calls[c].op \in {"read", "judge"} /\ calls[c].id = x.id /\ calls[c].item = x.item
  BY <1>1, <1>6 DEF id
<1> QED
  BY <1>1, <1>2, <1>6, <1>8, <1>9, OneCallerMoves

\* A document as a submission stores it, against what the submission had read.
LEMMA StoredDocument ==
  ASSUME EvidenceTyped, NEW call \in StoreCall
  PROVE  LET e == Stored(call)
         IN  /\ e \in Item /\ e.submitted = call.submitted
             /\ e.status = "expired" => PastOn(e, today)
             /\ e.status = "validated" =>
                  /\ e.class = "invoice" =>
                       \E k \in DOMAIN call.seen :
                         call.seen[k].class = "lien_waiver" /\ call.seen[k].milestone = e.milestone
                  /\ \A k \in DOMAIN call.seen : ~Repeats(call.seen[k], e)
<1> DEFINE d == call.document
           n == [class |-> d.class, hash |-> d.hash, number |-> d.number,
                 destination |-> d.destination, verified |-> d.verified,
                 milestone |-> d.milestone, expires |-> d.expires, defects |-> d.defects,
                 submitted |-> call.submitted, status |-> "pending", flags |-> FALSE]
           e == validateEvidencePipeline(n, call.seen, DefaultMaxAge)
<1>1. d \in DocumentFields /\ call.submitted \in Nat /\ call.seen \in Seq(Item)
  BY DocumentsTyped DEF StoreCall
<1>2. n \in Judgeable /\ n.status = "pending" /\ n.submitted = call.submitted
  BY <1>1 DEF DocumentFields, Judgeable
<1> HIDE DEF d, n
<1>3. /\ e \in Item /\ Same(e, n)
      /\ e.status = "expired" <=> ~Unexpired(n)
      /\ e.status = "validated" => detectEvidenceConflicts(n, call.seen) = {}
  BY <1>2, Pipeline
<1> HIDE DEF e
<1>4. e.status = "expired" => PastOn(e, today)
  BY <1>2, <1>3 DEF Unexpired, PastExpiry, PastOn, Same
<1>5. ASSUME e.status = "validated"
      PROVE  /\ e.class = "invoice" =>
                  \E k \in DOMAIN call.seen :
                    call.seen[k].class = "lien_waiver" /\ call.seen[k].milestone = e.milestone
             /\ \A k \in DOMAIN call.seen : ~Repeats(call.seen[k], e)
  <2>1. /\ ~DuplicateInvoice(n, call.seen) /\ ~MissingLienWaiver(n, call.seen)
        /\ \A k \in DOMAIN call.seen : call.seen[k].hash # n.hash
    BY <1>1, <1>2, <1>3, <1>5, NoConflict
  <2>2. e.class = n.class /\ e.milestone = n.milestone /\ e.hash = n.hash /\ e.number = n.number
    BY <1>3 DEF Same
  <2>3. e.class = "invoice" =>
          \E k \in DOMAIN call.seen :
            call.seen[k].class = "lien_waiver" /\ call.seen[k].milestone = e.milestone
    BY <2>1, <2>2 DEF MissingLienWaiver
  <2>4. \A k \in DOMAIN call.seen : ~Repeats(call.seen[k], e)
    BY <2>1, <2>2 DEF DuplicateInvoice, Repeats
  <2> QED
    BY <2>3, <2>4
<1>6. e.submitted = call.submitted
  BY <1>2, <1>3 DEF Same
<1>7. Stored(call) = e
  BY DEF Stored, e, n, d
<1> QED
  BY <1>3, <1>4, <1>5, <1>6, <1>7

\* A document as a re-validation writes it back, against what it had read.
LEMMA JudgedDocument ==
  ASSUME EvidenceTyped, NEW call \in JudgeCall
  PROVE  LET e == validateEvidencePipeline(call.item, call.seen, call.maxAge)
         IN  /\ e \in Item /\ Same(e, call.item)
             /\ e.status = "expired" <=> call.item.status = "expired" \/ PastOn(call.item, today)
             /\ e.status = "validated" =>
                  /\ call.item.status = "validated"
                  /\ e.class = "invoice" =>
                       \E k \in DOMAIN call.seen :
                         call.seen[k].class = "lien_waiver" /\ call.seen[k].milestone = e.milestone
<1> DEFINE n == call.item
           e == validateEvidencePipeline(n, call.seen, call.maxAge)
<1>1. n \in Item /\ n \in Judgeable /\ call.seen \in Seq(Item)
  BY DEF JudgeCall, Item
<1>2. n.status \in Statuses
  BY <1>1 DEF Item
<1> HIDE DEF n
<1>3. /\ e \in Item /\ Same(e, n)
      /\ e.status = "expired" <=> ~Unexpired(n)
      /\ e.status = "validated" => detectEvidenceConflicts(n, call.seen) = {}
  BY <1>1, Pipeline
<1> HIDE DEF e
<1>4. e.status = "expired" <=> n.status = "expired" \/ PastOn(n, today)
  BY <1>3 DEF Unexpired, PastExpiry, PastOn
<1>5. ASSUME e.status = "validated"
      PROVE  /\ n.status = "validated"
             /\ e.class = "invoice" =>
                  \E k \in DOMAIN call.seen :
                    call.seen[k].class = "lien_waiver" /\ call.seen[k].milestone = e.milestone
  <2>1. n.status # "flagged" /\ ~MissingLienWaiver(n, call.seen)
    BY <1>1, <1>3, <1>5, NoConflict
  <2>2. e.class = n.class /\ e.milestone = n.milestone
    BY <1>3 DEF Same
  <2>3. e.class = "invoice" =>
          \E k \in DOMAIN call.seen :
            call.seen[k].class = "lien_waiver" /\ call.seen[k].milestone = e.milestone
    BY <2>1, <2>2 DEF MissingLienWaiver
  <2>4. n.status = "validated"
    BY <1>2, <1>4, <1>5, <2>1 DEF Statuses
  <2> QED
    BY <2>3, <2>4
<1> QED
  BY <1>3, <1>4, <1>5 DEF n, e

\* The event of a status, and that it tells the status.
LEMMA EventTells ==
  ASSUME NEW status \in Statuses
  PROVE  /\ StatusEvent(status) \in Events /\ Tells(StatusEvent(status), status)
         /\ Tells("EVIDENCE_FLAGGED", "expired") /\ Tells("EVIDENCE_SUBMITTED", "validated")
BY DEF Statuses, StatusEvent, Events, Tells

\* A new document is judged against what its submission had read: an invoice
\* that passes had its waiver, and one that does not is logged.
LEMMA SubmitStoreKeeps ==
  ASSUME EvidenceInv, NEW c \in Submitter, SubmitStore(c)
  PROVE  Kept
<1> DEFINE call == calls[c]
           e == Stored(call)
           n == Len(evidence) + 1
           x == IF e.status = "validated" THEN Idle ELSE [op |-> "log", status |-> e.status, id |-> n]
<1>1. /\ call.op = "store" /\ evidence' = Append(evidence, e)
      /\ told' = Append(told, "EVIDENCE_SUBMITTED")
      /\ calls' = [calls EXCEPT ![c] = x] /\ today' = today
  BY DEF SubmitStore
<1>2. /\ evidence \in Seq(Item) /\ told \in Seq(Events) /\ Len(told) = Len(evidence)
      /\ today \in Nat /\ calls \in [Caller -> Call] /\ c \in Caller /\ call \in Call
  BY DEF EvidenceInv, EvidenceTyped, Caller
<1>3. call \in StoreCall
  BY <1>1, <1>2, CallOp
<1>4. call.submitted <= today /\ AllKnown(call.seen, evidence)
  BY <1>1, <1>2 DEF EvidenceInv, CallsKept, CallInv
<1> HIDE DEF call
<1>5. /\ e \in Item /\ e.submitted = call.submitted
      /\ e.status = "expired" => PastOn(e, today)
      /\ e.status = "validated" /\ e.class = "invoice" =>
           \E k \in DOMAIN call.seen :
             call.seen[k].class = "lien_waiver" /\ call.seen[k].milestone = e.milestone
  BY <1>3, StoredDocument DEF EvidenceInv
<1> HIDE DEF e
<1>6. /\ evidence' \in Seq(Item) /\ Len(evidence') = Len(evidence) + 1 /\ Len(evidence) \in Nat
      /\ DOMAIN evidence' = DOMAIN evidence \cup {n} /\ n \notin DOMAIN evidence
      /\ evidence'[n] = e /\ \A i \in DOMAIN evidence : evidence'[i] = evidence[i]
  BY <1>1, <1>2, <1>5, AppendedAt
<1>7. /\ told' \in Seq(Events) /\ Len(told') = Len(told) + 1 /\ told'[n] = "EVIDENCE_SUBMITTED"
      /\ \A i \in DOMAIN evidence : told'[i] = told[i]
  <2>1. "EVIDENCE_SUBMITTED" \in Events
    BY DEF Events
  <2>2. DOMAIN told = DOMAIN evidence
    BY <1>2, LenProperties
  <2> QED
    BY <1>1, <1>2, <2>1, <2>2, AppendedAt
<1>8. n \in Nat
  BY <1>6
<1> HIDE DEF n
<1>9. /\ x \in Call /\ x.op \in {"idle", "log"}
      /\ x.op = "log" => e.status # "validated" /\ x.id = n /\ x.status = e.status
      /\ e.status # "validated" => x.op = "log" /\ x.id = n
  <2>1. CASE e.status = "validated"
    BY <2>1 DEF Call, Idle
  <2>2. CASE e.status # "validated"
    <3>1. e.status \in {"flagged", "expired"}
      BY <1>5, <2>2 DEF Item, Statuses
    <3> QED
      BY <1>8, <2>2, <3>1 DEF Call, LogCall
  <2> QED
    BY <2>1, <2>2
<1> HIDE DEF x
<1>10. /\ calls' \in [Caller -> Call] /\ calls'[c] = x
       /\ \A b \in Caller \ {c} : calls'[b] = calls[b]
  BY <1>1, <1>2, <1>9
<1>11. EvidenceTyped'
  BY <1>1, <1>2, <1>6, <1>7, <1>9, <1>10 DEF EvidenceInv, EvidenceTyped
<1>12. Grown(evidence, evidence')
  BY <1>6 DEF Grown, Same
<1>13. ASSUME NEW i \in DOMAIN evidence, NeverValid(i, evidence, calls)
       PROVE  NeverValid(i, evidence', calls')
  <2>1. evidence'[i].status = evidence[i].status
    BY <1>6
  <2>2. \A b \in Caller : calls'[b].op \in {"read", "judge"} =>
           /\ calls[b].op \in {"read", "judge"}
           /\ calls[b].id = calls'[b].id /\ calls[b].item = calls'[b].item
    BY <1>9, <1>10
  <2> QED
    BY <1>13, <2>1, <2>2, NeverValidStays
<1>14. e.status # "validated" => NeverValid(n, evidence', calls')
  <2> SUFFICES ASSUME e.status # "validated", NEW b \in Caller,
                      calls'[b].op \in {"read", "judge"}, calls'[b].id = n
               PROVE  FALSE
    BY <1>6 DEF NeverValid
  <2>1. b # c /\ calls'[b] = calls[b]
    BY <1>9, <1>10
  <2>2. calls[b].id \in DOMAIN evidence
    BY <2>1 DEF EvidenceInv, CallsKept, CallInv
  <2> QED
    BY <1>6, <2>1, <2>2
<1>15. DocumentsKept'
  <2> SUFFICES ASSUME NEW i \in DOMAIN evidence' PROVE DocumentInv(evidence'[i], evidence', today')
    BY DEF DocumentsKept
  <2>1. CASE i \in DOMAIN evidence
    <3>1. evidence[i] \in Item /\ DocumentInv(evidence[i], evidence, today) /\ today <= today
      BY <1>2, <2>1, ElementOfSeq DEF EvidenceInv, DocumentsKept
    <3>2. DocumentInv(evidence[i], evidence', today)
      BY <1>2, <1>12, <3>1, DocumentStays
    <3> QED
      BY <1>1, <1>6, <2>1, <3>2
  <2>2. CASE i = n
    <3>1. DocumentInv(e, evidence, today)
      <4>1. e.class = "invoice" /\ e.status = "validated" =>
              \E j \in DOMAIN evidence :
                evidence[j].class = "lien_waiver" /\ evidence[j].milestone = e.milestone
        BY <1>4, <1>5 DEF AllKnown, Same
      <4> QED
        BY <1>4, <1>5, <4>1 DEF DocumentInv
    <3>2. today <= today
      BY <1>2
    <3>3. DocumentInv(e, evidence', today)
      BY <1>2, <1>5, <1>12, <3>1, <3>2, DocumentStays
    <3> QED
      BY <1>1, <1>6, <2>2, <3>3
  <2> QED
    BY <1>6, <2>1, <2>2
<1>16. CallsKept'
  <2> SUFFICES ASSUME NEW b \in Caller PROVE CallInv(calls'[b], evidence', today')
    BY DEF CallsKept
  <2>1. CASE b = c
    BY <1>9, <1>10, <2>1 DEF CallInv
  <2>2. CASE b # c
    <3>1. /\ calls'[b] = calls[b] /\ calls[b] \in Call /\ CallInv(calls[b], evidence, today)
          /\ today <= today
      BY <1>2, <1>10, <2>2 DEF EvidenceInv, CallsKept
    <3>2. CallInv(calls[b], evidence', today)
      BY <1>2, <1>12, <3>1, CallStays
    <3> QED
      BY <1>1, <3>1, <3>2
  <2> QED
    BY <2>1, <2>2
<1>17. LogsKept'
  <2> SUFFICES ASSUME NEW b \in Caller PROVE LogInv(calls'[b], evidence', calls')
    BY DEF LogsKept
  <2>1. CASE b = c
    <3>1. calls'[b] = x
      BY <1>10, <2>1
    <3>2. x.op = "log" => /\ x.id \in DOMAIN evidence' /\ NeverValid(x.id, evidence', calls')
                          /\ x.status = "expired" => evidence'[x.id].status = "expired"
      BY <1>6, <1>9, <1>14
    <3> QED
      BY <3>1, <3>2 DEF LogInv
  <2>2. CASE b # c
    <3>1. calls'[b] = calls[b] /\ LogInv(calls[b], evidence, calls)
      BY <1>10, <2>2 DEF EvidenceInv, LogsKept
    <3>2. /\ DOMAIN evidence \subseteq DOMAIN evidence'
          /\ \A i \in DOMAIN evidence : evidence[i].status = "expired" => evidence'[i].status = "expired"
      BY <1>6
    <3>3. LogInv(calls[b], evidence', calls')
      BY <1>13, <3>1, <3>2, LogStays
    <3> QED
      BY <3>1, <3>3
  <2> QED
    BY <2>1, <2>2
<1>18. Telling'
  <2> SUFFICES ASSUME NEW i \in DOMAIN evidence'
               PROVE  \/ Tells(told'[i], evidence'[i].status)
                      \/ \E b \in Submitter : calls'[b].op = "log" /\ calls'[b].id = i
    BY DEF Telling
  <2>1. CASE i \in DOMAIN evidence
    <3>1. ASSUME NEW b \in Submitter, calls[b].op = "log" PROVE calls'[b] = calls[b]
      BY <1>1, <1>10, <3>1 DEF Caller, call
    <3> QED
      BY <1>6, <1>7, <2>1, <3>1 DEF EvidenceInv, Telling
  <2>2. CASE i = n
    BY <1>6, <1>7, <1>9, <1>10, <2>2 DEF Tells
  <2> QED
    BY <1>6, <2>1, <2>2
<1>19. \A i \in DOMAIN evidence : evidence[i].status = "expired" => evidence'[i].status = "expired"
  BY <1>6
<1>20. EvidenceInv'
  BY <1>11, <1>15, <1>16, <1>17, <1>18 DEF EvidenceInv
<1> QED
  BY <1>12, <1>13, <1>19, <1>20 DEF Kept

\* The event a submission sends last tells the status it had judged; if the
\* document has another by now, it has expired.
LEMMA SubmitLogKeeps ==
  ASSUME EvidenceInv, NEW c \in Submitter, SubmitLog(c)
  PROVE  Kept
<1> DEFINE id == calls[c].id
           status == calls[c].status
<1>1. /\ calls[c].op = "log" /\ told' = [told EXCEPT ![id] = StatusEvent(status)]
      /\ calls' = [calls EXCEPT ![c] = Idle] /\ UNCHANGED <<evidence, today>>
  BY DEF SubmitLog
<1>2. /\ evidence \in Seq(Item) /\ told \in Seq(Events) /\ Len(told) = Len(evidence)
      /\ today \in Nat /\ calls \in [Caller -> Call] /\ c \in Caller /\ calls[c] \in Call
      /\ DOMAIN told = DOMAIN evidence
  BY LenProperties DEF EvidenceInv, EvidenceTyped, Caller
<1>3. status \in {"flagged", "expired"}
  BY <1>1, <1>2, CallOp DEF LogCall
<1>4. /\ id \in DOMAIN evidence /\ NeverValid(id, evidence, calls)
      /\ status = "expired" => evidence[id].status = "expired"
  BY <1>1, <1>2 DEF EvidenceInv, LogsKept, LogInv
<1>5. Idle \in Call /\ Idle.op = "idle"
  BY DEF Call, Idle
<1>6. /\ calls' \in [Caller -> Call] /\ calls'[c] = Idle
      /\ \A b \in Caller \ {c} : calls'[b] = calls[b]
  BY <1>1, <1>2, <1>5
<1>7. StatusEvent(status) \in Events
  BY <1>3, EventTells DEF Statuses
<1>8. /\ told' \in Seq(Events) /\ Len(told') = Len(told) /\ told'[id] = StatusEvent(status)
      /\ \A i \in DOMAIN told : i # id => told'[i] = told[i]
  BY <1>1, <1>2, <1>4, <1>7, ChangedAt
<1>9. Tells(StatusEvent(status), evidence[id].status)
  <2>1. evidence[id].status \in {"flagged", "expired"}
    BY <1>2, <1>4, ElementOfSeq DEF Item, Statuses, NeverValid
  <2> HIDE DEF id, status
  <2> QED
    BY <1>3, <1>4, <2>1 DEF StatusEvent, Tells
<1> HIDE DEF id, status
<1>10. EvidenceTyped'
  BY <1>1, <1>2, <1>5, <1>6, <1>8 DEF EvidenceInv, EvidenceTyped
<1>11. Grown(evidence, evidence')
  BY <1>1 DEF Grown, Same
<1>12. ASSUME NEW i \in DOMAIN evidence, NeverValid(i, evidence, calls)
       PROVE  NeverValid(i, evidence', calls')
  <2>1. \A b \in Caller : calls'[b].op \in {"read", "judge"} =>
           /\ calls[b].op \in {"read", "judge"}
           /\ calls[b].id = calls'[b].id /\ calls[b].item = calls'[b].item
    BY <1>5, <1>6
  <2>2. evidence'[i].status = evidence[i].status
    BY <1>1
  <2> QED
    BY <1>12, <2>1, <2>2, NeverValidStays
<1>13. DocumentsKept'
  BY <1>1 DEF EvidenceInv, DocumentsKept
<1>14. CallsKept'
  BY <1>1, <1>5, <1>6 DEF EvidenceInv, CallsKept, CallInv
<1>15. LogsKept'
  <2> SUFFICES ASSUME NEW b \in Caller PROVE LogInv(calls'[b], evidence', calls')
    BY DEF LogsKept
  <2>1. CASE b = c
    BY <1>5, <1>6, <2>1 DEF LogInv
  <2>2. CASE b # c
    <3>1. calls'[b] = calls[b] /\ LogInv(calls[b], evidence, calls)
      BY <1>6, <2>2 DEF EvidenceInv, LogsKept
    <3>2. LogInv(calls[b], evidence', calls')
      BY <1>1, <1>12, <3>1, LogStays
    <3> QED
      BY <3>1, <3>2
  <2> QED
    BY <2>1, <2>2
<1>16. Telling'
  <2> SUFFICES ASSUME NEW i \in DOMAIN evidence
               PROVE  \/ Tells(told'[i], evidence[i].status)
                      \/ \E b \in Submitter : calls'[b].op = "log" /\ calls'[b].id = i
    BY <1>1 DEF Telling
  <2>1. CASE i = id
    BY <1>8, <1>9, <2>1
  <2>2. CASE i # id
    <3>1. told'[i] = told[i]
      BY <1>2, <1>8, <2>2
    <3>2. ASSUME NEW b \in Submitter, calls[b].op = "log", calls[b].id = i
          PROVE  calls'[b] = calls[b]
      BY <1>6, <2>2, <3>2 DEF Caller, id
    <3> QED
      BY <3>1, <3>2 DEF EvidenceInv, Telling
  <2> QED
    BY <2>1, <2>2
<1>17. EvidenceInv'
  BY <1>10, <1>13, <1>14, <1>15, <1>16 DEF EvidenceInv
<1> QED
  BY <1>1, <1>11, <1>12, <1>17 DEF Kept

\* A re-validation writes back a document it read earlier: what it had read as
\* valid it may find valid, and nothing else.
LEMMA ValidateStoreKeeps ==
  ASSUME EvidenceInv, NEW c \in Validator, ValidateStore(c)
  PROVE  Kept
<1> DEFINE call == calls[c]
           id == call.id
           e == validateEvidencePipeline(call.item, call.seen, call.maxAge)
<1>1. /\ call.op = "judge" /\ evidence' = [evidence EXCEPT ![id] = e]
      /\ told' = [told EXCEPT ![id] = StatusEvent(e.status)]
      /\ calls' = [calls EXCEPT ![c] = Idle] /\ today' = today
  BY DEF ValidateStore
<1>2. /\ evidence \in Seq(Item) /\ told \in Seq(Events) /\ Len(told) = Len(evidence)
      /\ today \in Nat /\ calls \in [Caller -> Call] /\ c \in Caller /\ call \in Call
      /\ DOMAIN told = DOMAIN evidence
  BY LenProperties DEF EvidenceInv, EvidenceTyped, Caller
<1>3. call \in JudgeCall
  BY <1>1, <1>2, CallOp
<1>4. /\ id \in DOMAIN evidence /\ Same(call.item, evidence[id])
      /\ call.item.status = "expired" => PastOn(call.item, today)
      /\ AllKnown(call.seen, evidence)
  BY <1>1, <1>2 DEF EvidenceInv, CallsKept, CallInv
<1>5. /\ e \in Item /\ Same(e, call.item)
      /\ e.status = "expired" <=> call.item.status = "expired" \/ PastOn(call.item, today)
      /\ e.status = "validated" =>
           /\ call.item.status = "validated"
           /\ e.class = "invoice" =>
                \E k \in DOMAIN call.seen :
                  call.seen[k].class = "lien_waiver" /\ call.seen[k].milestone = e.milestone
  BY <1>3, JudgedDocument DEF EvidenceInv
<1> HIDE DEF e
<1>6. Idle \in Call /\ Idle.op = "idle"
  BY DEF Call, Idle
<1>7. /\ calls' \in [Caller -> Call] /\ calls'[c] = Idle
      /\ \A b \in Caller \ {c} : calls'[b] = calls[b]
  BY <1>1, <1>2, <1>6
<1> HIDE DEF id
<1>8. /\ evidence' \in Seq(Item) /\ Len(evidence') = Len(evidence)
      /\ DOMAIN evidence' = DOMAIN evidence
      /\ evidence'[id] = e /\ \A i \in DOMAIN evidence : i # id => evidence'[i] = evidence[i]
  BY <1>1, <1>2, <1>4, <1>5, ChangedAt
<1>9. e.status \in Statuses
  BY <1>5 DEF Item
<1>10. /\ told' \in Seq(Events) /\ Len(told') = Len(told) /\ told'[id] = StatusEvent(e.status)
       /\ \A i \in DOMAIN told : i # id => told'[i] = told[i]
  BY <1>1, <1>2, <1>4, <1>9, EventTells, ChangedAt
<1>11. EvidenceTyped'
  BY <1>1, <1>2, <1>6, <1>7, <1>8, <1>10 DEF EvidenceInv, EvidenceTyped
<1>12. Same(evidence[id], e)
  BY <1>4, <1>5 DEF Same
<1>13. Grown(evidence, evidence')
  <2>1. \A i \in DOMAIN evidence : i # id => Same(evidence[i], evidence'[i])
    BY <1>8 DEF Same
  <2> QED
    BY <1>8, <1>12, <2>1 DEF Grown
<1>14. ASSUME NEW i \in DOMAIN evidence, NeverValid(i, evidence, calls)
       PROVE  NeverValid(i, evidence', calls')
  <2>1. \A b \in Caller : calls'[b].op \in {"read", "judge"} =>
           /\ calls[b].op \in {"read", "judge"}
           /\ calls[b].id = calls'[b].id /\ calls[b].item = calls'[b].item
    BY <1>6, <1>7
  <2>2. CASE i = id
    <3>1. /\ calls[c].op = "judge" /\ calls[c].id = i
          /\ calls[c].item.status # "validated" => evidence'[i].status # "validated"
      BY <1>1, <1>5, <1>8, <2>2 DEF id
    <3> QED
      BY <1>2, <1>14, <2>1, <3>1, NeverValidStays
  <2>3. CASE i # id
    <3>1. evidence'[i].status = evidence[i].status
      BY <1>8, <2>3
    <3> QED
      BY <1>14, <2>1, <3>1, NeverValidStays
  <2> QED
    BY <2>2, <2>3
<1>15. ASSUME NEW i \in DOMAIN evidence, evidence[i].status = "expired"
       PROVE  evidence'[i].status = "expired"
  <2>1. CASE i = id
    <3>1. PastOn(evidence[i], today)
      BY <1>15 DEF EvidenceInv, DocumentsKept, DocumentInv
    <3>2. PastOn(call.item, today)
      BY <1>4, <2>1, <3>1 DEF Same, PastOn
    <3> QED
      BY <1>5, <1>8, <2>1, <3>2
  <2>2. CASE i # id
    BY <1>8, <1>15, <2>2
  <2> QED
    BY <2>1, <2>2
<1>16. DocumentsKept'
  <2> SUFFICES ASSUME NEW i \in DOMAIN evidence PROVE DocumentInv(evidence'[i], evidence', today)
    BY <1>1, <1>8 DEF DocumentsKept
  <2>1. today <= today
    BY <1>2
  <2>2. CASE i # id
    <3>1. /\ evidence[i] \in Item /\ DocumentInv(evidence[i], evidence, today)
      BY <1>2, ElementOfSeq DEF EvidenceInv, DocumentsKept
    <3>2. DocumentInv(evidence[i], evidence', today)
      BY <1>2, <1>13, <2>1, <3>1, DocumentStays
    <3> QED
      BY <1>8, <2>2, <3>2
  <2>3. CASE i = id
    <3>1. e.submitted <= today
      BY <1>4, <1>12 DEF EvidenceInv, DocumentsKept, DocumentInv, Same
    <3>2. e.status = "expired" => PastOn(e, today)
      BY <1>4, <1>5 DEF PastOn, Same
    <3>3. e.class = "invoice" /\ e.status = "validated" =>
            \E j \in DOMAIN evidence :
              evidence[j].class = "lien_waiver" /\ evidence[j].milestone = e.milestone
      BY <1>4, <1>5 DEF AllKnown, Same
    <3>4. DocumentInv(e, evidence, today)
      BY <3>1, <3>2, <3>3 DEF DocumentInv
    <3>5. DocumentInv(e, evidence', today)
      BY <1>2, <1>5, <1>13, <2>1, <3>4, DocumentStays
    <3> QED
      BY <1>8, <2>3, <3>5
  <2> QED
    BY <2>2, <2>3
<1>17. CallsKept'
  <2> SUFFICES ASSUME NEW b \in Caller PROVE CallInv(calls'[b], evidence', today')
    BY DEF CallsKept
  <2>1. CASE b = c
    BY <1>6, <1>7, <2>1 DEF CallInv
  <2>2. CASE b # c
    <3>1. /\ calls'[b] = calls[b] /\ calls[b] \in Call /\ CallInv(calls[b], evidence, today)
          /\ today <= today
      BY <1>2, <1>7, <2>2 DEF EvidenceInv, CallsKept
    <3>2. CallInv(calls[b], evidence', today)
      BY <1>2, <1>13, <3>1, CallStays
    <3> QED
      BY <1>1, <3>1, <3>2
  <2> QED
    BY <2>1, <2>2
<1>18. LogsKept'
  <2> SUFFICES ASSUME NEW b \in Caller PROVE LogInv(calls'[b], evidence', calls')
    BY DEF LogsKept
  <2>1. CASE b = c
    BY <1>6, <1>7, <2>1 DEF LogInv
  <2>2. CASE b # c
    <3>1. calls'[b] = calls[b] /\ LogInv(calls[b], evidence, calls)
      BY <1>7, <2>2 DEF EvidenceInv, LogsKept
    <3>2. LogInv(calls[b], evidence', calls')
      BY <1>8, <1>14, <1>15, <3>1, LogStays
    <3> QED
      BY <3>1, <3>2
  <2> QED
    BY <2>1, <2>2
<1>19. Telling'
  <2> SUFFICES ASSUME NEW i \in DOMAIN evidence
               PROVE  \/ Tells(told'[i], evidence'[i].status)
                      \/ \E b \in Submitter : calls'[b].op = "log" /\ calls'[b].id = i
    BY <1>8 DEF Telling
  <2>1. CASE i = id
    BY <1>8, <1>9, <1>10, <2>1, EventTells
  <2>2. CASE i # id
    <3>1. told'[i] = told[i] /\ evidence'[i] = evidence[i]
      BY <1>2, <1>8, <1>10, <2>2
    <3>2. ASSUME NEW b \in Submitter, calls[b].op = "log", calls[b].id = i
          PROVE  calls'[b] = calls[b]
      BY <1>1, <1>7, <3>2 DEF Caller
    <3> QED
      BY <3>1, <3>2 DEF EvidenceInv, Telling
  <2> QED
    BY <2>1, <2>2
<1>20. EvidenceInv'
  BY <1>11, <1>16, <1>17, <1>18, <1>19 DEF EvidenceInv
<1> QED
  BY <1>13, <1>14, <1>15, <1>20 DEF Kept

\* A day later what was expired is, and what was read stays read.
LEMMA NextDayKeeps ==
  ASSUME EvidenceInv, NextDay
  PROVE  Kept
<1>1. today' = today + 1 /\ UNCHANGED <<evidence, calls, told>>
  BY DEF NextDay
<1>2. /\ evidence \in Seq(Item) /\ today \in Nat /\ calls \in [Caller -> Call]
  BY DEF EvidenceInv, EvidenceTyped
<1>3. Grown(evidence, evidence)
  BY DEF Grown, Same
<1>4. today' \in Nat /\ today <= today'
  BY <1>1, <1>2
<1>5. EvidenceTyped'
  BY <1>1, <1>4 DEF EvidenceInv, EvidenceTyped
<1>6. DocumentsKept'
  <2> SUFFICES ASSUME NEW i \in DOMAIN evidence PROVE DocumentInv(evidence[i], evidence, today')
    BY <1>1 DEF DocumentsKept
  <2>1. evidence[i] \in Item /\ DocumentInv(evidence[i], evidence, today)
    BY <1>2, ElementOfSeq DEF EvidenceInv, DocumentsKept
  <2> QED
    BY <1>2, <1>3, <1>4, <2>1, DocumentStays
<1>7. CallsKept'
  <2> SUFFICES ASSUME NEW c \in Caller PROVE CallInv(calls[c], evidence, today')
    BY <1>1 DEF CallsKept
  <2>1. calls[c] \in Call /\ CallInv(calls[c], evidence, today)
    BY <1>2 DEF EvidenceInv, CallsKept
  <2> QED
    BY <1>2, <1>3, <1>4, <2>1, CallStays
<1>8. LogsKept' /\ Telling'
  BY <1>1 DEF EvidenceInv, LogsKept, LogInv, NeverValid, Telling
<1>9. EvidenceInv'
  BY <1>5, <1>6, <1>7, <1>8 DEF EvidenceInv
<1> QED
  BY <1>1, <1>3, <1>9 DEF Kept

\* Every step, and none, keeps what Kept says, and time does not go back.
LEMMA EvidenceStep ==
  ASSUME EvidenceInv, [EvidenceNext]_evidenceVars
  PROVE  Kept /\ today \in Nat /\ today' \in Nat /\ today <= today'
<1>1. CASE UNCHANGED evidenceVars
  <2>1. UNCHANGED <<evidence, calls, told, today>>
    BY <1>1 DEF evidenceVars
  <2>2. EvidenceInv'
    BY <2>1 DEF EvidenceInv, EvidenceTyped, DocumentsKept, CallsKept, LogsKept, LogInv, NeverValid,
                Telling
  <2>3. Kept
    BY <2>1, <2>2 DEF Kept, Grown, Same, NeverValid
  <2> QED
    BY <2>1, <2>3 DEF EvidenceInv, EvidenceTyped
<1>2. CASE NextDay
  <2>1. Kept /\ today' = today + 1
    BY <1>2, NextDayKeeps DEF NextDay
  <2> QED
    BY <2>1 DEF EvidenceInv, EvidenceTyped
<1>3. ASSUME NEW c \in Submitter,
             (\E d \in Document : SubmitRead(c, d)) \/ SubmitStore(c) \/ SubmitLog(c)
      PROVE  Kept /\ UNCHANGED today
  <2>1. Kept
    BY <1>3, SubmitReadKeeps, SubmitStoreKeeps, SubmitLogKeeps
  <2> QED
    BY <1>3, <2>1 DEF SubmitRead, SubmitStore, SubmitLog
<1>4. ASSUME NEW c \in Validator,
             \/ \E id \in DOMAIN evidence, maxAge \in MaxAgeOption : ValidateFind(c, id, maxAge)
             \/ ValidateRead(c) \/ ValidateStore(c)
      PROVE  Kept /\ UNCHANGED today
  <2>1. Kept
    BY <1>4, ValidateFindKeeps, ValidateReadKeeps, ValidateStoreKeeps
  <2> QED
    BY <1>4, <2>1 DEF ValidateFind, ValidateRead, ValidateStore
<1>5. today \in Nat
  BY DEF EvidenceInv, EvidenceTyped
<1> QED
  BY <1>1, <1>2, <1>3, <1>4, <1>5 DEF EvidenceNext

-----------------------------------------------------------------------------
(* One submitter                                                           *)

\* A step that submits nothing keeps the order of what was.
LEMMA NothingSubmitted ==
  ASSUME InTurnInv, Kept, DOMAIN evidence' = DOMAIN evidence,
         \A b \in Submitter : calls'[b].op = "store" => calls'[b] = calls[b] \/ calls'[b].seen = evidence
  PROVE  InTurnInv'
<1>1. \A i \in DOMAIN evidence : Same(evidence[i], evidence'[i])
  BY DEF Kept, Grown
<1>2. ASSUME NEW b \in Submitter, calls'[b].op = "store" PROVE AllSeen(calls'[b].seen, evidence')
  <2>1. AllSeen(evidence, evidence')
    BY <1>1 DEF AllSeen
  <2>2. ASSUME calls'[b] = calls[b] PROVE AllSeen(calls[b].seen, evidence')
    <3>1. AllSeen(calls[b].seen, evidence)
      BY <1>2, <2>2 DEF InTurnInv
    <3> QED
      BY <1>1, <3>1, SameFields DEF AllSeen
  <2> QED
    BY <1>2, <2>1, <2>2
<1>3. ASSUME NEW i \in DOMAIN evidence, NEW j \in DOMAIN evidence,
             i < j, Repeats(evidence'[i], evidence'[j])
      PROVE  NeverValid(j, evidence', calls')
  <2>1. Repeats(evidence[i], evidence[j])
    BY <1>1, <1>3 DEF Repeats, Same
  <2>2. NeverValid(j, evidence, calls)
    BY <1>3, <2>1 DEF InTurnInv
  <2> QED
    BY <2>2 DEF Kept
<1> QED
  BY <1>2, <1>3 DEF InTurnInv

\* The only submitter's new document is compared with all there are.
LEMMA SubmittedInTurn ==
  ASSUME EvidenceInv, InTurnInv, NEW c, Submitter = {c}, SubmitStore(c)
  PROVE  InTurnInv'
<1> DEFINE call == calls[c]
           e == Stored(call)
           n == Len(evidence) + 1
<1>1. /\ call.op = "store" /\ evidence' = Append(evidence, e)
      /\ calls' = [calls EXCEPT ![c] =
           IF e.status = "validated" THEN Idle ELSE [op |-> "log", status |-> e.status, id |-> n]]
  BY DEF SubmitStore
<1>2. /\ evidence \in Seq(Item) /\ calls \in [Caller -> Call] /\ c \in Caller /\ call \in Call
  BY DEF EvidenceInv, EvidenceTyped, Caller
<1>3. AllSeen(call.seen, evidence)
  BY <1>1 DEF InTurnInv
<1>4. /\ e \in Item
      /\ e.status = "validated" => \A k \in DOMAIN call.seen : ~Repeats(call.seen[k], e)
  BY <1>1, <1>2, CallOp, StoredDocument DEF EvidenceInv
<1>5. /\ calls'[c].op # "store"
      /\ e.status # "validated" => calls'[c].op = "log" /\ calls'[c].id = n
  BY <1>1, <1>2 DEF Idle
<1> HIDE DEF e, call
<1>6. /\ DOMAIN evidence' = DOMAIN evidence \cup {n} /\ n \notin DOMAIN evidence
      /\ evidence'[n] = e /\ \A i \in DOMAIN evidence : evidence'[i] = evidence[i]
      /\ Len(evidence) \in Nat /\ DOMAIN evidence = 1..Len(evidence)
  BY <1>1, <1>2, <1>4, AppendedAt, LenProperties
<1>7. Kept
  BY SubmitStoreKeeps
<1>8. ASSUME NEW i \in DOMAIN evidence', NEW j \in DOMAIN evidence',
             i < j, Repeats(evidence'[i], evidence'[j])
      PROVE  NeverValid(j, evidence', calls')
  <2>1. CASE j \in DOMAIN evidence
    <3>1. i \in DOMAIN evidence
      BY <1>6, <1>8, <2>1
    <3>2. Repeats(evidence[i], evidence[j])
      BY <1>6, <1>8, <2>1, <3>1
    <3> QED
      BY <1>7, <1>8, <2>1, <3>1, <3>2 DEF InTurnInv, Kept
  <2>2. CASE j = n
    <3>1. i \in DOMAIN evidence /\ Repeats(evidence[i], e)
      BY <1>6, <1>8, <2>2
    <3>2. Repeats(call.seen[i], e) /\ i \in DOMAIN call.seen
      BY <1>3, <3>1 DEF AllSeen, Same, Repeats
    <3>3. calls'[c].op = "log" /\ calls'[c].id = n
      BY <1>4, <1>5, <3>2
    <3>4. LogInv(calls'[c], evidence', calls')
      BY <1>2, <1>7 DEF Kept, EvidenceInv, LogsKept
    <3> QED
      BY <2>2, <3>3, <3>4 DEF LogInv
  <2> QED
    BY <1>6, <2>1, <2>2
<1> QED
  BY <1>5, <1>8 DEF InTurnInv

\* One submitter's requests follow one another.
LEMMA InTurnStep ==
  ASSUME EvidenceInv, InTurnInv, NEW s, Submitter = {s}, [EvidenceNext]_evidenceVars
  PROVE  InTurnInv'
<1>1. Kept /\ calls \in [Caller -> Call] /\ s \in Caller /\ evidence \in Seq(Item)
  BY EvidenceStep DEF EvidenceInv, EvidenceTyped, Caller
<1>2. Idle.op = "idle"
  BY DEF Idle
<1>3. CASE UNCHANGED evidenceVars
  BY <1>1, <1>3, NothingSubmitted DEF evidenceVars
<1>4. CASE NextDay
  BY <1>1, <1>4, NothingSubmitted DEF NextDay
<1>5. ASSUME NEW d \in Document, SubmitRead(s, d) PROVE InTurnInv'
  <2>1. UNCHANGED evidence /\ calls'[s].seen = evidence
    BY <1>1, <1>5 DEF SubmitRead
  <2> QED
    BY <1>1, <2>1, NothingSubmitted
<1>6. CASE SubmitStore(s)
  BY <1>6, SubmittedInTurn
<1>7. CASE SubmitLog(s)
  <2>1. UNCHANGED evidence /\ calls'[s].op = "idle"
    BY <1>1, <1>2, <1>7 DEF SubmitLog
  <2> QED
    BY <1>1, <2>1, NothingSubmitted
<1>8. ASSUME NEW c \in Validator,
             \/ \E id \in DOMAIN evidence, maxAge \in MaxAgeOption : ValidateFind(c, id, maxAge)
             \/ ValidateRead(c) \/ ValidateStore(c)
      PROVE  InTurnInv'
  <2>1. DOMAIN evidence' = DOMAIN evidence
    BY <1>8 DEF ValidateFind, ValidateRead, ValidateStore
  <2>2. calls'[s].op = "store" => calls'[s] = calls[s]
    <3> SUFFICES ASSUME calls'[s] # calls[s] PROVE calls'[s].op # "store"
      OBVIOUS
    <3>1. c = s
      BY <1>1, <1>8 DEF ValidateFind, ValidateRead, ValidateStore
    <3>2. ASSUME NEW id, NEW maxAge, ValidateFind(s, id, maxAge) PROVE calls'[s].op = "read"
      BY <1>1, <3>2 DEF ValidateFind
    <3>3. ValidateRead(s) => calls'[s].op = "judge"
      BY <1>1 DEF ValidateRead
    <3>4. ValidateStore(s) => calls'[s].op = "idle"
      BY <1>1, <1>2 DEF ValidateStore
    <3> QED
      BY <1>8, <3>1, <3>2, <3>3, <3>4
  <2> QED
    BY <1>1, <2>1, <2>2, NothingSubmitted
<1> QED
  BY <1>3, <1>4, <1>5, <1>6, <1>7, <1>8 DEF EvidenceNext

-----------------------------------------------------------------------------
(* Theorems                                                                *)

OneSubmitter == Cardinality(Submitter) = 1

\* What callers have read, however old, is known to the project's documents,
\* and no document that was refused when it was submitted is read as valid.
THEOREM EvidenceInvariant == EvidenceSpec => [](EvidenceInv /\ (OneSubmitter => InTurnInv))
<1>1. EvidenceInit => EvidenceInv /\ (OneSubmitter => InTurnInv)
  BY EvidenceStart
<1>2. ASSUME EvidenceInv, OneSubmitter => InTurnInv, [EvidenceNext]_evidenceVars
      PROVE  EvidenceInv' /\ (OneSubmitter => InTurnInv')
  <2>1. EvidenceInv'
    BY <1>2, EvidenceStep DEF Kept
  <2>2. ASSUME OneSubmitter PROVE InTurnInv'
    <3>1. PICK s : Submitter = {s}
      BY <2>2, CallersFinite, FS_Singleton DEF OneSubmitter
    <3> QED
      BY <1>2, <2>2, <3>1, InTurnStep
  <2> QED
    BY <2>1, <2>2
<1>3. EvidenceInv /\ (OneSubmitter => InTurnInv) /\ [EvidenceNext]_evidenceVars
        => (EvidenceInv /\ (OneSubmitter => InTurnInv))'
  BY <1>2 DEF OneSubmitter
<1> QED
  BY <1>1, <1>3, PTL DEF EvidenceSpec

\* A gate that passes finds every document validated.
LEMMA GatePassesValid ==
  ASSUME EvidenceInv, gatePassed(FALSE), NEW i \in DOMAIN evidence
  PROVE  evidence[i].status = "validated" /\ ~PastExpiry(evidence[i])
<1>1. evidence[i] \in Item
  BY ElementOfSeq DEF EvidenceInv, EvidenceTyped
<1> QED
  BY <1>1 DEF gatePassed, allValid, Unexpired, Item, Statuses

\* A gate that passes has a valid waiver for the milestone of every invoice,
\* however many submissions and re-validations overlapped: a waiver that is
\* gone is a document that shuts the gate (evaluateEvidenceGating).
THEOREM InvoicesHaveWaivers == EvidenceSpec => []InvoiceHasWaiver
<1>1. EvidenceInv => InvoiceHasWaiver
  <2> SUFFICES ASSUME EvidenceInv, gatePassed(FALSE), NEW i \in DOMAIN evidence,
                      evidence[i].class = "invoice"
               PROVE  \E j \in DOMAIN evidence :
                        /\ evidence[j].class = "lien_waiver"
                        /\ evidence[j].milestone = evidence[i].milestone
                        /\ evidence[j].status = "validated" /\ ~PastExpiry(evidence[j])
    BY DEF InvoiceHasWaiver
  <2>1. evidence[i].status = "validated"
    BY GatePassesValid
  <2>2. PICK j \in DOMAIN evidence :
          evidence[j].class = "lien_waiver" /\ evidence[j].milestone = evidence[i].milestone
    BY <2>1 DEF EvidenceInv, DocumentsKept, DocumentInv
  <2> QED
    BY <2>2, GatePassesValid
<1> QED
  BY <1>1, EvidenceInvariant, PTL

\* As long as one submitter's requests follow one another, a gate that passes
\* has no two invoices of one number or one hash, whatever re-validations
\* overlap with them (detectEvidenceConflicts, validateEvidence).
THEOREM NoDuplicatePasses == EvidenceSpec => []NoDuplicateInvoicePasses
<1>1. EvidenceInv /\ (OneSubmitter => InTurnInv) => NoDuplicateInvoicePasses
  <2> SUFFICES ASSUME EvidenceInv, InTurnInv, gatePassed(FALSE),
                      NEW i \in DOMAIN evidence, NEW j \in DOMAIN evidence, i # j,
                      evidence[i].class = "invoice", evidence[j].class = "invoice"
               PROVE  ~Repeats(evidence[i], evidence[j])
    BY DEF NoDuplicateInvoicePasses, OneSubmitter, Repeats
  <2>1. \A k, l \in DOMAIN evidence : k < l => ~Repeats(evidence[k], evidence[l])
    BY GatePassesValid DEF InTurnInv, NeverValid
  <2>2. i < j \/ j < i
    BY LenProperties DEF EvidenceInv, EvidenceTyped
  <2>3. Repeats(evidence[i], evidence[j]) => Repeats(evidence[j], evidence[i])
    BY DEF Repeats
  <2> QED
    BY <2>1, <2>2, <2>3
<1> QED
  BY <1>1, EvidenceInvariant, PTL

\* Once no submission is about to log, the last event tells the status, or an
\* earlier flag of a document that has expired (submitEvidence).
THEOREM StatusesTold == EvidenceSpec => []StatusTold
<1>1. EvidenceInv => StatusTold
  BY DEF EvidenceInv, Telling, StatusTold, Tells
<1> QED
  BY <1>1, EvidenceInvariant, PTL

\* Every step keeps an expired document expired, and clears a flag only by
\* writing back a copy read before the document was flagged (validateEvidence).
THEOREM FlagsAreFinal == EvidenceSpec => FlagIsFinal
<1> DEFINE Judging(i) == \E c \in Validator :
             calls[c].op = "judge" /\ calls[c].id = i /\ calls[c].item.status = "validated"
           Final == \A i \in DOMAIN evidence :
             /\ evidence[i].status = "expired" => evidence'[i].status = "expired"
             /\ (evidence[i].status = "flagged" /\ evidence'[i].status = "validated") => Judging(i)
<1>1. ASSUME EvidenceInv, [EvidenceNext]_evidenceVars PROVE Final
  <2>1. \A i \in DOMAIN evidence : evidence[i].status = "expired" => evidence'[i].status = "expired"
    BY <1>1, EvidenceStep DEF Kept
  <2>2. ASSUME NEW i \in DOMAIN evidence, evidence[i].status = "flagged",
               evidence'[i].status = "validated"
        PROVE  Judging(i)
    <3>1. evidence \in Seq(Item) /\ calls \in [Caller -> Call] /\ evidence'[i] # evidence[i]
      BY <1>1, <2>2 DEF EvidenceInv, EvidenceTyped
    <3>2. ASSUME NEW c \in Submitter, SubmitStore(c) PROVE FALSE
      <4>1. evidence' = Append(evidence, Stored(calls[c])) /\ calls[c] \in StoreCall
        BY <3>1, <3>2, CallOp DEF SubmitStore, Caller
      <4>2. Stored(calls[c]) \in Item
        BY <1>1, <4>1, StoredDocument DEF EvidenceInv
      <4>3. evidence'[i] = evidence[i]
        BY <3>1, <4>1, <4>2, AppendedAt
      <4> QED
        BY <3>1, <4>3
    <3>3. ASSUME NEW c \in Validator, ValidateStore(c) PROVE Judging(i)
      <4>1. calls[c].op = "judge" /\ calls[c] \in JudgeCall
        BY <3>1, <3>3, CallOp DEF ValidateStore, Caller
      <4>2. calls[c].id = i /\ evidence'[i] =
              validateEvidencePipeline(calls[c].item, calls[c].seen, calls[c].maxAge)
        BY <3>1, <3>3 DEF ValidateStore
      <4>3. calls[c].item.status = "validated"
        BY <1>1, <2>2, <4>1, <4>2, JudgedDocument DEF EvidenceInv
      <4> QED
        BY <4>1, <4>2, <4>3
    <3>4. PICK c : \/ c \in Submitter /\ SubmitStore(c)
                   \/ c \in Validator /\ ValidateStore(c)
      <4> HIDE DEF Judging
      <4> QED
        BY <1>1, <3>1 DEF EvidenceNext, evidenceVars, NextDay, SubmitRead, SubmitLog,
                          ValidateFind, ValidateRead
    <3> HIDE DEF Judging
    <3> QED
      BY <3>2, <3>3, <3>4
  <2> QED
    BY <2>1, <2>2
<1>2. EvidenceInv /\ [EvidenceNext]_evidenceVars => [Final]_evidenceVars
  BY <1>1
<1> QED
  BY <1>2, EvidenceInvariant, PTL DEF EvidenceSpec, FlagIsFinal

\* A gate shut by age, by expiry or by two documents of one hash stays shut
\* (evaluateEvidenceGating).
THEOREM GateStaysClosed == EvidenceSpec => GateStaysShut
<1> DEFINE TooLate(i) == LET e == evidence[i]
             IN  e.status = "expired" \/ PastExpiry(e) \/ today - e.submitted > MaxAge[e.class]
           Shut == (DuplicateHash(evidence) \/ \E i \in DOMAIN evidence : TooLate(i))
                     => ~gatePassed(TRUE)'
<1>1. ASSUME EvidenceInv, [EvidenceNext]_evidenceVars PROVE Shut
  <2>1. /\ Kept /\ today \in Nat /\ today' \in Nat /\ today <= today'
        /\ DOMAIN evidence \subseteq DOMAIN evidence'
        /\ \A i \in DOMAIN evidence : Same(evidence[i], evidence'[i])
    BY <1>1, EvidenceStep DEF Kept, Grown
  <2>2. ASSUME DuplicateHash(evidence) PROVE ~gatePassed(TRUE)'
    <3>1. DuplicateHash(evidence')
      BY <2>1, <2>2 DEF DuplicateHash, Same
    <3>2. "DUPLICATE_DOCUMENT_HASH" \in flagEvidenceConflicts(evidence')
      BY <3>1 DEF flagEvidenceConflicts
    <3> QED
      BY <3>2 DEF gatePassed, noFlags
  <2>3. ASSUME NEW i \in DOMAIN evidence, TooLate(i) PROVE ~gatePassed(TRUE)'
    <3>1. evidence[i] \in Item /\ i \in DOMAIN evidence' /\ Same(evidence[i], evidence'[i])
      BY <1>1, <2>1, ElementOfSeq DEF EvidenceInv, EvidenceTyped
    <3>2. /\ evidence[i].submitted \in Nat /\ evidence[i].expires \in Nat \cup {None}
          /\ evidence[i].class \in Class
      BY <3>1 DEF Item, Judgeable
    <3>3. CASE evidence[i].status = "expired"
      <4>1. evidence'[i].status = "expired"
        BY <2>1, <3>3 DEF Kept
      <4> QED
        BY <3>1, <4>1 DEF gatePassed, allValid, Unexpired
    <3>4. CASE PastExpiry(evidence[i])
      <4>1. evidence'[i].expires # None /\ evidence'[i].expires < today'
        BY <2>1, <3>1, <3>2, <3>4 DEF PastExpiry, Same
      <4> QED
        BY <3>1, <4>1 DEF gatePassed, allValid, Unexpired, PastExpiry
    <3>5. CASE today - evidence[i].submitted > MaxAge[evidence[i].class]
      <4>1. MaxAge[evidence[i].class] \in Nat
        BY <3>2, PolicyTyped
      <4>2. ~(today' - evidence'[i].submitted <= MaxAge[evidence'[i].class])
        BY <2>1, <3>1, <3>2, <3>5, <4>1 DEF Same
      <4> QED
        BY <3>1, <4>2 DEF gatePassed, allFresh, Fresh
    <3> QED
      BY <2>3, <3>3, <3>4, <3>5
  <2> HIDE DEF TooLate
  <2> QED
    BY <2>2, <2>3
<1>2. EvidenceInv /\ [EvidenceNext]_evidenceVars => [Shut]_evidenceVars
  BY <1>1
<1> QED
  BY <1>2, EvidenceInvariant, PTL DEF EvidenceSpec, GateStaysShut
=============================================================================
