---------------------- MODULE CapitalPreservationProofs -----------------------
(***************************************************************************)
(* Proofs about CapitalPreservation.  The inductive invariant VaultsInv    *)
(* types the state, says that the shares of the holders make up the supply *)
(* of each vault (which keeps a burn from making the supply negative) and  *)
(* contains QueueInOrder.                                                  *)
(***************************************************************************)
EXTENDS CapitalPreservation, ListLemmas

-----------------------------------------------------------------------------
(* Arithmetic                                                              *)

\* Division rounds down to the greatest multiple.
LEMMA Division ==
  ASSUME NEW n \in Nat, NEW d \in Nat \ {0}
  PROVE  n \div d \in Nat /\ (n \div d) * d <= n /\ n < (n \div d) * d + d
BY SMT

\* Products keep the order.
LEMMA Products ==
  ASSUME NEW a \in Nat, NEW b \in Nat, a <= b, NEW c \in Nat
  PROVE  a * c \in Nat /\ b * c \in Nat /\ a * c <= b * c
BY SMT

\* Rounded up, the figure times the divisor reaches the dividend.
LEMMA RoundedUp ==
  ASSUME NEW n \in Nat, NEW d \in Nat \ {0}
  PROVE  Up(n, d) \in Nat /\ Up(n, d) * d >= n
<1>1. n + d - 1 \in Nat
  OBVIOUS
<1> DEFINE q == (n + d - 1) \div d
<1>2. q \in Nat /\ n + d - 1 < q * d + d
  BY <1>1, Division
<1> HIDE DEF q
<1>3. q * d \in Nat
  BY <1>2, Products
<1>4. q * d >= n
  BY <1>2, <1>3
<1> QED
  BY <1>2, <1>4 DEF q, Up

\* The least divisor of a ratio that reaches r is no greater than another.
LEMMA SmallerDivisor ==
  ASSUME NEW n \in Nat, NEW d \in Nat \ {0}, NEW e \in Nat \ {0}, e <= d,
         NEW r \in Nat, n \div d >= r
  PROVE  n \div e >= r
<1> DEFINE p == n \div d
           q == n \div e
<1>1. p \in Nat /\ p * d <= n /\ q \in Nat /\ n < q * e + e /\ p >= r
  BY Division
<1> HIDE DEF p, q
<1>2. SUFFICES ASSUME q < r PROVE FALSE
  BY <1>1 DEF q
<1>3. q + 1 \in Nat /\ q + 1 <= p /\ (q + 1) * e = q * e + e /\ q * e \in Nat
  BY <1>1, <1>2, Products
<1>4. (q + 1) * e <= p * e /\ (q + 1) * e \in Nat /\ p * e \in Nat
  BY <1>1, <1>3, Products
<1>5. e * p <= d * p /\ d * p \in Nat
  BY <1>1, Products
<1>6. e * p = p * e /\ d * p = p * d
  BY <1>1
<1> QED
  BY <1>1, <1>3, <1>4, <1>5, <1>6

-----------------------------------------------------------------------------
(* The invariant                                                           *)

Call == [user : Holder, assets : Nat, shares : Nat, processed : BOOLEAN]

MoneyTyped ==
  /\ assets \in [Vault -> Nat] /\ reserve \in [Vault -> Nat]
  /\ shares \in [Vault -> [Holder -> Nat]] /\ supply \in [Vault -> Nat]

SeedingTyped ==
  minSeed \in [Vault -> Nat] /\ seed \in [Vault -> Nat] /\ expiry \in [Vault -> Nat]

ConfigTyped ==
  /\ cap \in [Vault -> Nat] /\ minRatio \in [Vault -> BasisPoints]
  /\ paused \in [Vault -> BOOLEAN] /\ tests \in [Vault -> BOOLEAN]

JuniorTyped == suspended \in BOOLEAN /\ toReserve \in BOOLEAN /\ recap \in BOOLEAN

ManagerTyped == shortfall \in Nat /\ target \in Nat /\ auto \in BOOLEAN

SettingsTyped ==
  /\ SeedingTyped /\ ConfigTyped /\ JuniorTyped /\ ManagerTyped
  /\ active \in [Vault -> BOOLEAN] /\ now \in Nat /\ calls \in Nat

QueueTyped == queue \in Seq(Call) /\ queued \in Nat

SharesMakeSupply == \A v \in Vault : supply[v] = SumFunctionOnSet(shares[v], Holder)

VaultsInv == MoneyTyped /\ SettingsTyped /\ QueueTyped /\ SharesMakeSupply /\ QueueInOrder

-----------------------------------------------------------------------------
(* Shares and prices                                                       *)

\* Sums over the holders are sums over a finite set.
LEMMA HoldersFinite == IsFiniteSet(Holder)
BY VaultConstants, FS_AddElement DEF Holder

\* Nobody holds more than the supply.
LEMMA BalanceInSupply ==
  ASSUME MoneyTyped, SharesMakeSupply, NEW v \in Vault, NEW h \in Holder
  PROVE  shares[v][h] <= supply[v]
<1> DEFINE f == shares[v]
<1>1. \A g \in Holder : f[g] \in Nat
  BY DEF MoneyTyped
<1>2. supply[v] = SumFunctionOnSet(f, Holder)
  BY DEF SharesMakeSupply
<1> HIDE DEF f
<1>3. f[h] <= SumFunctionOnSet(f, Holder)
  BY <1>1, HoldersFinite, SumChangedAt
<1> QED
  BY <1>2, <1>3 DEF f

\* The lock is a part of the balance.
LEMMA LockedInBalance ==
  ASSUME MoneyTyped, SettingsTyped, NEW v \in Vault, NEW h \in Holder
  PROVE  /\ LockedShares(v, h) \in Nat /\ LockedShares(v, h) <= shares[v][h]
         /\ FreeShares(v, h) \in Nat /\ FreeShares(v, h) + LockedShares(v, h) = shares[v][h]
<1>1. shares[v][h] \in Nat /\ seed[v] \in Nat
  BY DEF MoneyTyped, SettingsTyped, SeedingTyped
<1> QED
  BY <1>1 DEF LockedShares, FreeShares

\* What the vault charges and pays, against the exact price.
LEMMA Prices ==
  ASSUME MoneyTyped, NEW v \in Vault, NEW n \in Nat
  PROVE  LET A == assets[v] + 1
             S == supply[v] + VirtualShares
         IN  /\ A \in Nat \ {0} /\ S \in Nat \ {0} /\ n * A \in Nat /\ n * S \in Nat
             /\ ToShares(v, n) \in Nat /\ ToShares(v, n) * A <= n * S
             /\ ToAssets(v, n) \in Nat /\ ToAssets(v, n) * S <= n * A
             /\ ToSharesUp(v, n) \in Nat /\ ToSharesUp(v, n) * A >= n * S
             /\ ToAssetsUp(v, n) \in Nat /\ ToAssetsUp(v, n) * S >= n * A
<1> DEFINE A == assets[v] + 1
           S == supply[v] + VirtualShares
<1>1. A \in Nat \ {0} /\ S \in Nat \ {0}
  <2>1. assets[v] \in Nat /\ supply[v] \in Nat
    BY DEF MoneyTyped
  <2>2. VirtualShares \in Nat \ {0}
    BY VaultConstants
  <2> QED
    BY <2>1, <2>2
<1>2. /\ ToShares(v, n) = (n * S) \div A /\ ToAssets(v, n) = (n * A) \div S
      /\ ToSharesUp(v, n) = Up(n * S, A) /\ ToAssetsUp(v, n) = Up(n * A, S)
  BY DEF ToShares, ToAssets, ToSharesUp, ToAssetsUp
<1> HIDE DEF A, S
<1>3. n * A \in Nat /\ n * S \in Nat
  BY <1>1
<1>4. /\ (n * S) \div A \in Nat /\ ((n * S) \div A) * A <= n * S
      /\ (n * A) \div S \in Nat /\ ((n * A) \div S) * S <= n * A
  BY <1>1, <1>3, Division
<1>5. /\ Up(n * S, A) \in Nat /\ Up(n * S, A) * A >= n * S
      /\ Up(n * A, S) \in Nat /\ Up(n * A, S) * S >= n * A
  BY <1>1, <1>3, RoundedUp
<1> QED
  BY <1>1, <1>2, <1>3, <1>4, <1>5 DEF A, S

\* The price of the seed, which counts the seed in.
LEMMA SeedPrice ==
  ASSUME MoneyTyped, NEW v \in Vault, NEW n \in Nat
  PROVE  LET minted == (n * (supply[v] + VirtualShares)) \div (assets[v] + n + 1)
         IN  minted \in Nat /\ minted * (assets[v] + 1) <= n * (supply[v] + VirtualShares)
<1> DEFINE A == assets[v] + 1
           S == supply[v] + VirtualShares
           m == (n * S) \div (A + n)
<1>1. A \in Nat \ {0} /\ S \in Nat \ {0} /\ n * S \in Nat
  BY Prices
<1>2. assets[v] + n + 1 = A + n
  BY DEF MoneyTyped
<1> HIDE DEF A, S
<1>3. m \in Nat /\ m * (A + n) <= n * S
  <2> DEFINE d == A + n
             k == n * S
  <2>1. d \in Nat \ {0} /\ k \in Nat
    BY <1>1
  <2> HIDE DEF d, k
  <2>2. k \div d \in Nat /\ (k \div d) * d <= k
    BY <2>1, Division
  <2> QED
    BY <2>2 DEF d, k
<1> HIDE DEF m
<1>4. A * m <= (A + n) * m /\ A * m = m * A /\ (A + n) * m = m * (A + n)
  BY <1>1, <1>3, Products
<1>5. m * A <= n * S
  BY <1>1, <1>3, <1>4
<1> QED
  BY <1>2, <1>3, <1>5 DEF A, S, m

-----------------------------------------------------------------------------
(* What the calls do with balances                                         *)

\* One vault's balances are replaced, and its supply by their sum.
LEMMA BalancesReplaced ==
  ASSUME MoneyTyped, SharesMakeSupply, NEW v \in Vault, NEW f \in [Holder -> Nat],
         shares' = [shares EXCEPT ![v] = f],
         supply' = [supply EXCEPT ![v] = SumFunctionOnSet(f, Holder)]
  PROVE  /\ shares' \in [Vault -> [Holder -> Nat]] /\ supply' \in [Vault -> Nat]
         /\ SharesMakeSupply'
<1> DEFINE n == SumFunctionOnSet(f, Holder)
<1>1. n \in Nat
  BY HoldersFinite, SumTakesOut
<1>2. \A w \in Vault : shares'[w] = IF w = v THEN f ELSE shares[w]
  BY DEF MoneyTyped
<1>3. \A w \in Vault : supply'[w] = IF w = v THEN n ELSE supply[w]
  BY DEF MoneyTyped
<1>4. shares' \in [Vault -> [Holder -> Nat]]
  BY DEF MoneyTyped
<1>5. supply' \in [Vault -> Nat]
  <2>1. supply' = [supply EXCEPT ![v] = n]
    OBVIOUS
  <2> HIDE DEF n
  <2> QED
    BY <1>1, <2>1 DEF MoneyTyped
<1>6. ASSUME NEW w \in Vault PROVE supply'[w] = SumFunctionOnSet(shares'[w], Holder)
  <2>1. CASE w = v
    BY <1>2, <1>3, <2>1
  <2>2. CASE w # v
    BY <1>2, <1>3, <2>2 DEF SharesMakeSupply
  <2> QED
    BY <2>1, <2>2
<1>7. SharesMakeSupply'
  BY <1>6 DEF SharesMakeSupply
<1> QED
  BY <1>4, <1>5, <1>7

\* The balance of one holder becomes n.
LEMMA BalanceReplaced ==
  ASSUME MoneyTyped, SharesMakeSupply, NEW v \in Vault, NEW h \in Holder, NEW n \in Nat
  PROVE  LET f == [shares[v] EXCEPT ![h] = n]
         IN  /\ f \in [Holder -> Nat] /\ f[h] = n /\ \A g \in Holder : g # h => f[g] = shares[v][g]
             /\ SumFunctionOnSet(f, Holder) = supply[v] - shares[v][h] + n
<1> DEFINE e == shares[v]
           f == [e EXCEPT ![h] = n]
<1>1. e \in [Holder -> Nat] /\ supply[v] = SumFunctionOnSet(e, Holder)
  BY DEF MoneyTyped, SharesMakeSupply
<1> HIDE DEF e
<1>2. f \in [Holder -> Nat] /\ f[h] = n /\ \A g \in Holder : g # h => f[g] = e[g]
  BY <1>1
<1>3. e[h] \in Nat /\ f[h] \in Nat /\ \A g \in Holder \ {h} : f[g] = e[g] /\ e[g] \in Nat
  BY <1>1, <1>2
<1> HIDE DEF f
<1>4. SumFunctionOnSet(f, Holder) = SumFunctionOnSet(e, Holder) - e[h] + f[h]
  BY <1>3, HoldersFinite, SumChangedAt
<1> QED
  BY <1>1, <1>2, <1>4 DEF e, f

\* Minting adds to a balance and to the supply.
LEMMA MintKeeps ==
  ASSUME MoneyTyped, SharesMakeSupply, NEW v \in Vault, NEW h \in Holder, NEW n \in Nat,
         Mint(v, h, n)
  PROVE  /\ shares' \in [Vault -> [Holder -> Nat]] /\ supply' \in [Vault -> Nat]
         /\ SharesMakeSupply'
<1> DEFINE m == shares[v][h] + n
           f == [shares[v] EXCEPT ![h] = m]
<1>1. m \in Nat /\ shares[v][h] \in Nat /\ supply[v] \in Nat
  BY DEF MoneyTyped
<1>2. shares' = [shares EXCEPT ![v] = f]
  BY DEF MoneyTyped, Mint
<1>3. f \in [Holder -> Nat] /\ SumFunctionOnSet(f, Holder) = supply[v] - shares[v][h] + m
  <2> HIDE DEF m
  <2> QED
    BY <1>1, BalanceReplaced
<1> HIDE DEF f
<1>4. SumFunctionOnSet(f, Holder) = supply[v] + n
  BY <1>1, <1>3
<1>5. supply' = [supply EXCEPT ![v] = SumFunctionOnSet(f, Holder)]
  BY <1>4 DEF Mint
<1> QED
  BY <1>2, <1>3, <1>5, BalancesReplaced

\* A burn takes from a balance and from the supply.
LEMMA BurnKeeps ==
  ASSUME MoneyTyped, SharesMakeSupply, NEW v \in Vault, NEW h \in Holder, NEW n \in Nat,
         n <= shares[v][h],
         shares' = [shares EXCEPT ![v][h] = @ - n], supply' = [supply EXCEPT ![v] = @ - n]
  PROVE  /\ shares' \in [Vault -> [Holder -> Nat]] /\ supply' \in [Vault -> Nat]
         /\ SharesMakeSupply'
<1> DEFINE m == shares[v][h] - n
           f == [shares[v] EXCEPT ![h] = m]
<1>1. m \in Nat /\ shares[v][h] \in Nat /\ supply[v] \in Nat
  BY DEF MoneyTyped
<1>2. shares' = [shares EXCEPT ![v] = f]
  BY DEF MoneyTyped
<1>3. f \in [Holder -> Nat] /\ SumFunctionOnSet(f, Holder) = supply[v] - shares[v][h] + m
  <2> HIDE DEF m
  <2> QED
    BY <1>1, BalanceReplaced
<1> HIDE DEF f
<1>4. SumFunctionOnSet(f, Holder) = supply[v] - n
  BY <1>1, <1>3
<1>5. supply' = [supply EXCEPT ![v] = SumFunctionOnSet(f, Holder)]
  BY <1>4
<1> QED
  BY <1>2, <1>3, <1>5, BalancesReplaced

\* A transfer leaves the supply as it is.
LEMMA TransferKeeps ==
  ASSUME MoneyTyped, SettingsTyped, SharesMakeSupply, NEW v \in Vault, NEW h \in Holder,
         NEW g \in Holder, NEW n \in Nat, Transfer(v, h, g, n)
  PROVE  MoneyTyped' /\ SharesMakeSupply'
<1> DEFINE e == shares[v]
           d == [e EXCEPT ![h] = @ - n]
           f == [d EXCEPT ![g] = @ + n]
<1>1. h # g /\ n <= e[h]
  <2>1. n <= FreeShares(v, h) /\ h # g
    BY DEF Transfer
  <2>2. FreeShares(v, h) <= e[h] /\ FreeShares(v, h) \in Nat /\ e[h] \in Nat
    BY LockedInBalance DEF MoneyTyped
  <2> QED
    BY <2>1, <2>2
<1>2. shares' = [shares EXCEPT ![v] = f]
  <2> DEFINE x == [e EXCEPT ![h] = @ - n, ![g] = @ + n]
  <2>1. shares' = [shares EXCEPT ![v] = x]
    BY DEF Transfer, MoneyTyped
  <2>2. e \in [Holder -> Nat]
    BY DEF MoneyTyped
  <2> HIDE DEF e
  <2>3. \A k \in Holder : x[k] = f[k]
    BY <1>1, <2>2
  <2>4. x = f
    BY <2>2, <2>3
  <2> QED
    BY <2>1, <2>4
<1>3. e \in [Holder -> Nat] /\ supply[v] = SumFunctionOnSet(e, Holder)
  BY DEF MoneyTyped, SharesMakeSupply
<1> HIDE DEF e
<1>4. e[h] \in Nat /\ d[h] = e[h] - n /\ d[h] \in Nat
  BY <1>1, <1>3
<1>5. \A k \in Holder \ {h} : d[k] = e[k] /\ e[k] \in Nat
  BY <1>3
<1>6. e[g] \in Nat /\ d[g] = e[g] /\ f[g] = e[g] + n
  BY <1>1, <1>3
<1>7. \A k \in Holder \ {g} : f[k] = d[k] /\ d[k] \in Nat
  BY <1>1, <1>3, <1>4
<1>8. f \in [Holder -> Nat]
  BY <1>1, <1>3, <1>4, <1>6
<1> HIDE DEF d, f
<1>9. SumFunctionOnSet(d, Holder) = SumFunctionOnSet(e, Holder) - e[h] + d[h]
  <2>1. e[h] \in Nat /\ d[h] \in Nat
    BY <1>4
  <2> QED
    BY <1>5, <2>1, HoldersFinite, SumChangedAt
<1>10. d[g] \in Nat /\ f[g] \in Nat
  BY <1>6
<1>11. SumFunctionOnSet(f, Holder) = SumFunctionOnSet(d, Holder) - d[g] + f[g]
  BY <1>7, <1>10, HoldersFinite, SumChangedAt
<1>12. SumFunctionOnSet(f, Holder) = supply[v]
  <2>1. supply[v] \in Nat
    BY DEF MoneyTyped
  <2> QED
    BY <1>3, <1>4, <1>6, <1>9, <1>11, <2>1
<1>13. supply' = [supply EXCEPT ![v] = SumFunctionOnSet(f, Holder)]
  BY <1>12 DEF Transfer, MoneyTyped
<1>14. /\ shares' \in [Vault -> [Holder -> Nat]] /\ supply' \in [Vault -> Nat]
       /\ SharesMakeSupply'
  BY <1>2, <1>8, <1>13, BalancesReplaced
<1> QED
  BY <1>14 DEF Transfer, MoneyTyped

-----------------------------------------------------------------------------
(* The queue                                                               *)

\* Batches that take the oldest pending requests.
InOrder(B) == B \in SUBSET Pending /\ \A i \in Pending, j \in B : i < j => i \in B

\* The queue's positions are finitely many.
LEMMA QueueFinite ==
  ASSUME QueueTyped
  PROVE  /\ DOMAIN queue \in SUBSET Nat /\ IsFiniteSet(DOMAIN queue)
         /\ \A B \in SUBSET DOMAIN queue : IsFiniteSet(B)
         /\ Pending \in SUBSET DOMAIN queue
         /\ \A i \in DOMAIN queue : queue[i] \in Call
<1>1. DOMAIN queue = 1..Len(queue) /\ Len(queue) \in Nat
  BY LenProperties DEF QueueTyped
<1>2. IsFiniteSet(DOMAIN queue)
  BY <1>1, FS_Interval
<1>3. \A i \in DOMAIN queue : queue[i] \in Call
  BY <1>1, ElementOfSeq DEF QueueTyped
<1>4. DOMAIN queue \in SUBSET Nat
  BY <1>1
<1> QED
  BY <1>2, <1>3, <1>4, FS_Subset DEF Pending

\* What processQueue and liftPreservation take.
LEMMA BatchesInOrder ==
  ASSUME QueueTyped
  PROVE  InOrder(Pending) /\ \A count \in Nat : InOrder(Batch(count))
<1>1. InOrder(Pending)
  BY DEF InOrder
<1>2. ASSUME NEW count \in Nat, NEW i \in Pending, NEW j \in Batch(count), i < j
      PROVE  i \in Batch(count)
  <2> DEFINE K == {k \in Pending : k <= i}
             L == {k \in Pending : k <= j}
  <2>1. IsFiniteSet(L) /\ Pending \in SUBSET Nat
    BY QueueFinite, FS_Subset
  <2>2. K \subseteq L /\ Cardinality(L) <= count
    <3>1. j \in Pending /\ Cardinality(L) <= count
      BY DEF Batch
    <3>2. i \in Nat /\ j \in Nat /\ \A k \in Pending : k \in Nat
      BY <2>1, <3>1
    <3>3. ASSUME NEW k \in Pending, k <= i PROVE k <= j
      BY <1>2, <3>2, <3>3
    <3>4. K \subseteq L
      BY <3>3
    <3> QED
      BY <3>1, <3>4
  <2>3. Cardinality(K) <= Cardinality(L) /\ Cardinality(K) \in Nat /\ Cardinality(L) \in Nat
    BY <2>1, <2>2, FS_Subset, FS_CardinalityType
  <2>4. Cardinality(K) <= count
    BY <2>2, <2>3
  <2> QED
    BY <2>4 DEF Batch
<1>3. \A count \in Nat : Batch(count) \in SUBSET Pending
  BY DEF Batch
<1> QED
  BY <1>1, <1>2, <1>3 DEF InOrder

\* Sums over requests are numbers.
LEMMA RequestSums ==
  ASSUME QueueTyped, NEW B \in SUBSET DOMAIN queue
  PROVE  /\ AssetsIn(B) \in Nat
         /\ SumFunctionOnSet([i \in DOMAIN queue |-> queue[i].shares], B) \in Nat
         /\ \A h \in Holder : SharesIn(B, h) \in Nat
<1>1. IsFiniteSet(B) /\ \A i \in DOMAIN queue : queue[i] \in Call
  BY QueueFinite
<1>2. \A i \in B : [j \in DOMAIN queue |-> queue[j].assets][i] \in Nat
  BY <1>1 DEF Call
<1>3. \A i \in B : [j \in DOMAIN queue |-> queue[j].shares][i] \in Nat
  BY <1>1 DEF Call
<1>4. ASSUME NEW h \in Holder
      PROVE  \A i \in B :
               [j \in DOMAIN queue |-> IF queue[j].user = h THEN queue[j].shares ELSE 0][i] \in Nat
  BY <1>1 DEF Call
<1>5. AssetsIn(B) \in Nat
  BY <1>1, <1>2, SumTakesOut DEF AssetsIn
<1>6. SumFunctionOnSet([i \in DOMAIN queue |-> queue[i].shares], B) \in Nat
  BY <1>1, <1>3, SumTakesOut
<1>7. \A h \in Holder : SharesIn(B, h) \in Nat
  BY <1>1, <1>4, SumTakesOut DEF SharesIn
<1> QED
  BY <1>5, <1>6, <1>7

\* The shares of a batch, holder by holder, make up all of its shares.
LEMMA SharesByHolder ==
  ASSUME QueueTyped, NEW B \in SUBSET DOMAIN queue
  PROVE  SumFunctionOnSet([h \in Holder |-> SharesIn(B, h)], Holder)
           = SumFunctionOnSet([i \in DOMAIN queue |-> queue[i].shares], B)
<1> DEFINE D == DOMAIN queue
           key == [i \in D |-> queue[i].user]
           a == [i \in D |-> queue[i].shares]
<1>1. IsFiniteSet(B) /\ \A i \in D : queue[i] \in Call
  BY QueueFinite
<1>2. key \in [D -> Holder] /\ a \in [D -> Nat]
  BY <1>1 DEF Call
<1>3. ASSUME NEW h \in Holder
      PROVE  SharesIn(B, h) = SumFunctionOnSet([i \in D |-> IF key[i] = h THEN a[i] ELSE 0], B)
  <2>1. [i \in D |-> IF queue[i].user = h THEN queue[i].shares ELSE 0]
          = [i \in D |-> IF key[i] = h THEN a[i] ELSE 0]
    OBVIOUS
  <2> QED
    BY <2>1 DEF SharesIn
<1>4. [h \in Holder |-> SharesIn(B, h)]
        = [h \in Holder |-> SumFunctionOnSet([i \in D |-> IF key[i] = h THEN a[i] ELSE 0], B)]
  <2> HIDE DEF D, key, a
  <2> QED
    BY <1>3
<1>5. B \in SUBSET D
  OBVIOUS
<1> HIDE DEF D, key, a
<1>6. SumFunctionOnSet([h \in Holder |->
        SumFunctionOnSet([i \in D |-> IF key[i] = h THEN a[i] ELSE 0], B)], Holder)
          = SumFunctionOnSet(a, B)
  BY <1>1, <1>2, <1>5, HoldersFinite, SumByKey
<1>7. SumFunctionOnSet([h \in Holder |-> SharesIn(B, h)], Holder) = SumFunctionOnSet(a, B)
  BY <1>4, <1>6
<1> QED
  BY <1>7 DEF a, D

\* A batch that is processed leaves the rest of the queue, in order and with
\* its total.
LEMMA BatchServed ==
  ASSUME QueueTyped, QueueInOrder, NEW B, InOrder(B), ProcessBatch(B)
  PROVE  QueueTyped' /\ QueueInOrder' /\ Pending' = Pending \ B
<1> DEFINE D == DOMAIN queue
           f == [i \in D |-> queue[i].assets]
<1>1. /\ D \in SUBSET Nat /\ \A i \in D : queue[i] \in Call
      /\ Pending \in SUBSET D /\ B \in SUBSET D /\ B \in SUBSET Pending
      /\ IsFiniteSet(Pending) /\ IsFiniteSet(B) /\ IsFiniteSet(Pending \ B)
  BY QueueFinite, FS_Subset DEF InOrder
<1>2. queue' = [i \in D |-> [queue[i] EXCEPT !.processed = @ \/ i \in B]]
  BY DEF ProcessBatch
<1>3. DOMAIN queue' = D
  BY <1>2
<1>4. ASSUME NEW i \in D
      PROVE  /\ queue'[i] \in Call /\ queue'[i].assets = queue[i].assets
             /\ queue'[i].processed <=> queue[i].processed \/ i \in B
  <2>1. queue'[i] = [queue[i] EXCEPT !.processed = @ \/ i \in B] /\ queue[i] \in Call
    BY <1>1, <1>2
  <2> QED
    BY <2>1 DEF Call
<1>5. queue' \in Seq(Call)
  <2>1. D = 1..Len(queue) /\ Len(queue) \in Nat
    BY LenProperties DEF QueueTyped
  <2>2. queue' \in [1..Len(queue) -> Call]
    BY <1>2, <1>4, <2>1
  <2> QED
    BY <2>1, <2>2, IsASeq
<1>6. Pending' = Pending \ B
  BY <1>3, <1>4 DEF Pending
<1>7. ASSUME NEW i \in D, NEW j \in D, i < j, queue'[j].processed
      PROVE  queue'[i].processed
  <2>1. CASE queue[j].processed
    BY <1>4, <1>7, <2>1 DEF QueueInOrder
  <2>2. CASE j \in B
    BY <1>4, <1>7, <2>2 DEF InOrder, Pending
  <2> QED
    BY <1>4, <1>7, <2>1, <2>2
<1>8. [i \in DOMAIN queue' |-> queue'[i].assets] = f
  BY <1>3, <1>4
<1>9. AssetsIn(Pending)' = SumFunctionOnSet(f, Pending \ B)
  BY <1>6, <1>8 DEF AssetsIn
<1>10. /\ queued = SumFunctionOnSet(f, Pending)
       /\ queued' = queued - SumFunctionOnSet(f, B)
  BY DEF QueueInOrder, ProcessBatch, AssetsIn
<1>11. \A i \in Pending : f[i] \in Nat
  BY <1>1 DEF Call
<1> HIDE DEF f
<1>12. SumFunctionOnSet(f, Pending)
         = SumFunctionOnSet(f, B) + SumFunctionOnSet(f, Pending \ B)
  BY <1>1, <1>11, SumSplits
<1>13. SumFunctionOnSet(f, B) \in Nat
  BY <1>1, <1>11, SumTakesOut
<1>14. SumFunctionOnSet(f, Pending \ B) \in Nat
  BY <1>1, <1>11, SumTakesOut
<1>15. queued' = AssetsIn(Pending)' /\ queued' \in Nat
  BY <1>9, <1>10, <1>12, <1>13, <1>14
<1> QED
  BY <1>3, <1>5, <1>6, <1>7, <1>15 DEF QueueTyped, QueueInOrder

\* The holders of a batch are paid: their shares burn and its assets leave.
LEMMA BatchPaid ==
  ASSUME MoneyTyped, SettingsTyped, QueueTyped, SharesMakeSupply,
         NEW B \in SUBSET DOMAIN queue, ProcessBatch(B)
  PROVE  /\ shares' \in [Vault -> [Holder -> Nat]] /\ supply' \in [Vault -> Nat]
         /\ assets' \in [Vault -> Nat] /\ SharesMakeSupply'
<1> DEFINE e == shares["Sentinel"]
           taken == [h \in Holder |-> SharesIn(B, h)]
           f == [h \in Holder |-> e[h] - SharesIn(B, h)]
           n == SumFunctionOnSet([i \in DOMAIN queue |-> queue[i].shares], B)
<1>1. "Sentinel" \in Vault /\ "Catalyst" \in Vault
  BY DEF Vault
<1>2. e \in [Holder -> Nat] /\ supply["Sentinel"] = SumFunctionOnSet(e, Holder)
  BY <1>1 DEF MoneyTyped, SharesMakeSupply
<1>3. \A h \in Holder : SharesIn(B, h) \in Nat /\ SharesIn(B, h) <= e[h]
  <2> SUFFICES ASSUME NEW h \in Holder PROVE SharesIn(B, h) \in Nat /\ SharesIn(B, h) <= e[h]
    OBVIOUS
  <2>1. SharesIn(B, h) \in Nat /\ SharesIn(B, h) <= FreeShares("Sentinel", h)
    BY RequestSums DEF ProcessBatch
  <2>2. /\ FreeShares("Sentinel", h) \in Nat /\ LockedShares("Sentinel", h) \in Nat
        /\ FreeShares("Sentinel", h) + LockedShares("Sentinel", h) = e[h]
    BY <1>1, LockedInBalance
  <2> QED
    BY <2>1, <2>2
<1>4. n \in Nat /\ n = SumFunctionOnSet(taken, Holder)
  BY RequestSums, SharesByHolder
<1>5. supply' = [supply EXCEPT !["Sentinel"] = @ - n]
  BY DEF ProcessBatch
<1>6. shares' = [shares EXCEPT !["Sentinel"] = f]
  BY DEF ProcessBatch
<1> HIDE DEF e, n
<1>7. f \in [Holder -> Nat]
  BY <1>2, <1>3
<1>8. \A h \in Holder : f[h] \in Nat /\ taken[h] \in Nat /\ e[h] = f[h] + taken[h]
  BY <1>2, <1>3
<1> HIDE DEF f, taken
<1>9. SumFunctionOnSet(e, Holder) = SumFunctionOnSet(f, Holder) + SumFunctionOnSet(taken, Holder)
  BY <1>8, HoldersFinite, SumAdds
<1>10. SumFunctionOnSet(f, Holder) \in Nat
  BY <1>8, HoldersFinite, SumTakesOut
<1>11. supply["Sentinel"] - n = SumFunctionOnSet(f, Holder)
  BY <1>2, <1>4, <1>9, <1>10
<1>12. supply' = [supply EXCEPT !["Sentinel"] = SumFunctionOnSet(f, Holder)]
  BY <1>5, <1>11
<1>13. /\ shares' \in [Vault -> [Holder -> Nat]] /\ supply' \in [Vault -> Nat]
       /\ SharesMakeSupply'
  BY <1>1, <1>6, <1>7, <1>12, BalancesReplaced
<1>14. assets' \in [Vault -> Nat]
  <2> DEFINE m == AssetsIn(B)
  <2>1. m \in Nat /\ m <= assets["Sentinel"] /\ assets["Sentinel"] \in Nat
    BY <1>1, RequestSums DEF ProcessBatch, MoneyTyped
  <2>2. assets' = [assets EXCEPT !["Sentinel"] = @ - m]
    BY DEF ProcessBatch
  <2> HIDE DEF m
  <2>3. assets["Sentinel"] - m \in Nat
    BY <2>1
  <2> QED
    BY <2>2, <2>3 DEF MoneyTyped
<1> QED
  BY <1>13, <1>14

\* A request goes to the end of the queue.
LEMMA RequestQueued ==
  ASSUME QueueTyped, QueueInOrder, NEW h \in Holder, NEW n \in Nat, NEW s \in Nat,
         QueueWithdrawal(h, n, s)
  PROVE  QueueTyped' /\ QueueInOrder'
<1> DEFINE r == [user |-> h, assets |-> n, shares |-> s, processed |-> FALSE]
           D == DOMAIN queue
           k == Len(queue) + 1
           f == [i \in D |-> queue[i].assets]
           g == [i \in DOMAIN queue' |-> queue'[i].assets]
<1>1. r \in Call /\ queue' = Append(queue, r) /\ queued' = queued + n
  BY DEF Call, QueueWithdrawal
<1>2. r.assets = n /\ ~r.processed
  OBVIOUS
<1> HIDE DEF r
<1>3. /\ queue' \in Seq(Call) /\ DOMAIN queue' = D \cup {k} /\ k \notin D
      /\ queue'[k] = r /\ \A i \in D : queue'[i] = queue[i]
  BY <1>1, AppendedAt DEF QueueTyped
<1>4. /\ D = 1..Len(queue) /\ Len(queue) \in Nat
      /\ Pending \in SUBSET D /\ IsFiniteSet(Pending) /\ \A i \in D : queue[i] \in Call
  BY QueueFinite, LenProperties DEF QueueTyped
<1>5. Pending' = Pending \cup {k} /\ k \notin Pending
  BY <1>2, <1>3, <1>4 DEF Pending
<1>6. ASSUME NEW i \in DOMAIN queue', NEW j \in DOMAIN queue', i < j, queue'[j].processed
      PROVE  queue'[i].processed
  <2>1. j \in D /\ queue[j].processed
    BY <1>2, <1>3, <1>6
  <2>2. i \in D
    BY <1>3, <1>4, <1>6, <2>1
  <2> QED
    BY <1>3, <1>6, <2>1, <2>2 DEF QueueInOrder
<1>7. g[k] = n /\ \A i \in Pending : f[i] = g[i] /\ f[i] \in Nat
  BY <1>2, <1>3, <1>4 DEF Call
<1>8. /\ AssetsIn(Pending)' = SumFunctionOnSet(g, Pending \cup {k})
      /\ queued = SumFunctionOnSet(f, Pending)
  BY <1>5 DEF AssetsIn, QueueInOrder
<1> HIDE DEF f, g, k
<1> DEFINE P == Pending \cup {k}
<1>9. IsFiniteSet(P) /\ k \in P /\ P \ {k} = Pending /\ \A i \in P : g[i] \in Nat
  BY <1>4, <1>5, <1>7, FS_AddElement
<1> HIDE DEF P
<1>10. SumFunctionOnSet(g, P) = g[k] + SumFunctionOnSet(g, P \ {k})
  BY <1>9, SumTakesOut
<1>11. SumFunctionOnSet(f, Pending) = SumFunctionOnSet(g, Pending)
  BY <1>4, <1>7, SumCongruent
<1>12. queued \in Nat
  BY DEF QueueTyped
<1>13. SumFunctionOnSet(g, P) = n + queued
  BY <1>7, <1>8, <1>9, <1>10, <1>11
<1>14. AssetsIn(Pending)' = n + queued
  BY <1>8, <1>13 DEF P
<1>15. queued' = AssetsIn(Pending)' /\ queued' \in Nat
  BY <1>1, <1>12, <1>14
<1> QED
  BY <1>3, <1>6, <1>15 DEF QueueTyped, QueueInOrder

-----------------------------------------------------------------------------
(* The steps                                                               *)

\* What VaultConstants says of the values that calls may name.
LEMMA CallValues ==
  /\ \A n \in Amount : n \in Nat /\ n # 0
  /\ \A s \in ShareAmount : s \in Nat
  /\ \A e \in Expiry : e \in Nat
  /\ \A c \in Cap : c \in Nat
  /\ \A n \in Target : n \in Nat
  /\ \A r \in Ratio : r \in BasisPoints
<1>1. \A n \in Amount : n \in Nat /\ n # 0
  BY VaultConstants
<1>2. \A s \in ShareAmount : s \in Nat
  BY VaultConstants
<1>3. \A e \in Expiry : e \in Nat
  BY VaultConstants
<1>4. \A c \in Cap : c \in Nat
  BY VaultConstants
<1>5. \A n \in Target : n \in Nat
  BY VaultConstants
<1>6. \A r \in Ratio : r \in BasisPoints
  BY VaultConstants
<1> QED
  BY <1>1, <1>2, <1>3, <1>4, <1>5, <1>6

\* A minimum ratio is a positive number.
LEMMA RatiosPositive == \A r \in BasisPoints : r \in Nat \ {0}
BY DEF BasisPoints

\* Settings that a step leaves alone stay typed; the administrator's counter
\* does when it is advanced as well.
LEMMA SettingsKept ==
  ASSUME SettingsTyped
  PROVE  /\ seeding' = seeding => SeedingTyped'
         /\ config' = config => ConfigTyped'
         /\ junior' = junior => JuniorTyped'
         /\ manager' = manager => ManagerTyped'
         /\ Administers => calls' \in Nat
<1>1. seeding' = seeding => SeedingTyped'
  BY DEF SettingsTyped, SeedingTyped, seeding
<1>2. config' = config => ConfigTyped'
  BY DEF SettingsTyped, ConfigTyped, config
<1>3. junior' = junior => JuniorTyped'
  BY DEF SettingsTyped, JuniorTyped, junior
<1>4. manager' = manager => ManagerTyped'
  BY DEF SettingsTyped, ManagerTyped, manager
<1>5. Administers => calls' \in Nat
  BY DEF SettingsTyped, Administers
<1> QED
  BY <1>1, <1>2, <1>3, <1>4, <1>5

\* Settings change to settings: the calls of holders leave them alone.
LEMMA HolderSettings ==
  ASSUME SettingsTyped, HolderStep \/ QueueStep \/ Tick
  PROVE  SettingsTyped'
<1>1. CASE HolderStep
  <2>1. ASSUME NEW v \in Vault, NEW h \in Holder, NEW n, NEW s, DepositPair(v, h, n, s)
        PROVE  SettingsTyped'
    BY <2>1, SettingsKept DEF DepositPair, SettingsTyped
  <2>2. ASSUME NEW v \in Vault, NEW h \in Holder, NEW n, NEW s, WithdrawPair(v, h, n, s)
        PROVE  SettingsTyped'
    BY <2>2, SettingsKept DEF WithdrawPair, SettingsTyped
  <2>3. ASSUME NEW v \in Vault, NEW h \in Holder, NEW g \in Holder, NEW s, Transfer(v, h, g, s)
        PROVE  SettingsTyped'
    BY <2>3, SettingsKept DEF Transfer, SettingsTyped
  <2> QED
    BY <1>1, <2>1, <2>2, <2>3 DEF HolderStep, Deposit, MintShares, Withdraw, Redeem
<1>2. CASE QueueStep
  BY <1>2, SettingsKept DEF QueueStep, QueueWithdrawal, SettingsTyped
<1>3. CASE Tick
  BY <1>3, SettingsKept DEF Tick, SettingsTyped
<1> QED
  BY <1>1, <1>2, <1>3

\* Those of the administrator and the owner of a vault set values of their type.
LEMMA VaultSettings ==
  ASSUME MoneyTyped, SettingsTyped, VaultStep
  PROVE  SettingsTyped'
<1> PICK v \in Vault :
      \/ \E n \in Amount : SetMinimumSeedDeposit(v, n) \/ Donate(v, n)
      \/ \E n \in Amount, e \in Expiry : SeedVault(v, n, e)
      \/ \E e \in Expiry : ExtendSeedLock(v, e)
      \/ \E n \in Amount : DepositToReserve(v, n) \/ ReleaseReserve(v, n)
      \/ TriggerDirectly(v) \/ LiftDirectly(v)
      \/ \E r \in Ratio : SetMinJuniorRatio(v, r)
      \/ \E c \in Cap : SetDepositCap(v, c)
      \/ \E b \in BOOLEAN : SetPaused(v, b)
  BY DEF VaultStep
<1>1. ASSUME NEW n \in Amount, SetMinimumSeedDeposit(v, n) PROVE SettingsTyped'
  <2>1. n \in Nat
    BY CallValues
  <2>2. SeedingTyped'
    BY <1>1, <2>1 DEF SetMinimumSeedDeposit, SettingsTyped, SeedingTyped
  <2> QED
    BY <1>1, <2>2, SettingsKept DEF SetMinimumSeedDeposit, SettingsTyped
<1>2. ASSUME NEW n \in Amount, Donate(v, n) PROVE SettingsTyped'
  BY <1>2, SettingsKept DEF Donate, SettingsTyped
<1>3. ASSUME NEW n \in Amount, NEW e \in Expiry, SeedVault(v, n, e) PROVE SettingsTyped'
  <2> DEFINE minted == (n * (supply[v] + VirtualShares)) \div (assets[v] + n + 1)
  <2>1. seed' = [seed EXCEPT ![v] = minted] /\ expiry' = [expiry EXCEPT ![v] = e]
        /\ UNCHANGED minSeed
    BY <1>3 DEF SeedVault
  <2>2. minted \in Nat /\ e \in Nat
    BY CallValues, SeedPrice
  <2> HIDE DEF minted
  <2>3. SeedingTyped'
    BY <2>1, <2>2 DEF SettingsTyped, SeedingTyped
  <2> QED
    BY <1>3, <2>3, SettingsKept DEF SeedVault, SettingsTyped
<1>4. ASSUME NEW e \in Expiry, ExtendSeedLock(v, e) PROVE SettingsTyped'
  <2>1. e \in Nat
    BY CallValues
  <2>2. SeedingTyped'
    BY <1>4, <2>1 DEF ExtendSeedLock, SettingsTyped, SeedingTyped
  <2> QED
    BY <1>4, <2>2, SettingsKept DEF ExtendSeedLock, SettingsTyped
<1>5. ASSUME NEW n \in Amount, DepositToReserve(v, n) \/ ReleaseReserve(v, n)
      PROVE  SettingsTyped'
  BY <1>5, SettingsKept DEF DepositToReserve, ReleaseReserve, SettingsTyped
<1>6. ASSUME TriggerDirectly(v) \/ LiftDirectly(v) PROVE SettingsTyped'
  BY <1>6, SettingsKept DEF TriggerDirectly, LiftDirectly, SettingsTyped
<1>7. ASSUME NEW r \in Ratio, SetMinJuniorRatio(v, r) PROVE SettingsTyped'
  <2>1. r \in BasisPoints
    BY CallValues
  <2>2. ConfigTyped'
    BY <1>7, <2>1 DEF SetMinJuniorRatio, SettingsTyped, ConfigTyped
  <2> QED
    BY <1>7, <2>2, SettingsKept DEF SetMinJuniorRatio, SettingsTyped
<1>8. ASSUME NEW c \in Cap, SetDepositCap(v, c) PROVE SettingsTyped'
  <2>1. c \in Nat
    BY CallValues
  <2>2. ConfigTyped'
    BY <1>8, <2>1 DEF SetDepositCap, SettingsTyped, ConfigTyped
  <2> QED
    BY <1>8, <2>2, SettingsKept DEF SetDepositCap, SettingsTyped
<1>9. ASSUME NEW b \in BOOLEAN, SetPaused(v, b) PROVE SettingsTyped'
  <2>1. ConfigTyped'
    BY <1>9 DEF SetPaused, SettingsTyped, ConfigTyped
  <2> QED
    BY <1>9, <2>1, SettingsKept DEF SetPaused, SettingsTyped
<1> QED
  BY <1>1, <1>2, <1>3, <1>4, <1>5, <1>6, <1>7, <1>8, <1>9

\* And so do those of the Catalyst and of the manager.
LEMMA ManagerSettings ==
  ASSUME MoneyTyped, SettingsTyped, JuniorStep \/ ManagerStep
  PROVE  SettingsTyped'
<1>1. CASE SuspendDistributions \/ ResumeDistributions
  <2>1. JuniorTyped'
    BY <1>1 DEF SuspendDistributions, ResumeDistributions, SettingsTyped, JuniorTyped
  <2> QED
    BY <1>1, <2>1, SettingsKept DEF SuspendDistributions, ResumeDistributions, SettingsTyped
<1>2. CASE EnableRecapitalization
  <2>1. JuniorTyped'
    BY <1>2 DEF EnableRecapitalization, SettingsTyped, JuniorTyped
  <2> QED
    BY <1>2, <2>1, SettingsKept DEF EnableRecapitalization, SettingsTyped
<1>3. ASSUME NEW n \in Amount, RouteYield(n) PROVE SettingsTyped'
  BY <1>3, SettingsKept DEF RouteYield, SettingsTyped
<1>4. ASSUME NEW b \in BOOLEAN, SetYieldDestination(b) PROVE SettingsTyped'
  <2>1. JuniorTyped'
    BY <1>4 DEF SetYieldDestination, SettingsTyped, JuniorTyped
  <2> QED
    BY <1>4, <2>1, SettingsKept DEF SetYieldDestination, SettingsTyped
<1>5. ASSUME NEW s \in ShareAmount, ExecuteRecapitalization(s) PROVE SettingsTyped'
  BY <1>5, SettingsKept DEF ExecuteRecapitalization, SettingsTyped
<1>6. CASE CheckAndTrigger
  <2>1. JuniorTyped'
    BY <1>6 DEF CheckAndTrigger, SettingsTyped, JuniorTyped
  <2>2. ManagerTyped'
    <3>1. reserve["Sentinel"] \in Nat
      BY DEF MoneyTyped, Vault
    <3> QED
      BY <1>6, <3>1 DEF CheckAndTrigger, SettingsTyped, ManagerTyped
  <2>3. active' \in [Vault -> BOOLEAN]
    BY <1>6 DEF CheckAndTrigger
  <2> QED
    BY <1>6, <2>1, <2>2, <2>3, SettingsKept DEF CheckAndTrigger, SettingsTyped
<1>7. CASE LiftPreservation
  <2>1. JuniorTyped'
    BY <1>7 DEF LiftPreservation, SettingsTyped, JuniorTyped
  <2>2. active' \in [Vault -> BOOLEAN]
    BY <1>7 DEF LiftPreservation
  <2> QED
    BY <1>7, <2>1, <2>2, SettingsKept DEF LiftPreservation, SettingsTyped
<1>8. ASSUME NEW V, NEW b \in BOOLEAN, SetLiquidityTestResult(V, b) PROVE SettingsTyped'
  <2>1. ConfigTyped'
    BY <1>8 DEF SetLiquidityTestResult, SettingsTyped, ConfigTyped
  <2> QED
    BY <1>8, <2>1, SettingsKept DEF SetLiquidityTestResult, SettingsTyped
<1>9. ASSUME NEW s \in Nat, NEW n \in Nat, NEW b \in BOOLEAN, ConfigureManager(s, n, b)
      PROVE  SettingsTyped'
  <2>1. ManagerTyped'
    BY <1>9 DEF ConfigureManager, SettingsTyped, ManagerTyped
  <2> QED
    BY <1>9, <2>1, SettingsKept DEF ConfigureManager, SettingsTyped
<1>10. ASSUME NEW count, ProcessQueue(count) PROVE SettingsTyped'
  BY <1>10, SettingsKept DEF ProcessQueue, SettingsTyped
<1>11. shortfall \in Nat /\ target \in Nat /\ auto \in BOOLEAN /\ \A n \in Target : n \in Nat
  BY CallValues DEF SettingsTyped, ManagerTyped
<1> QED
  BY <1>1, <1>2, <1>3, <1>4, <1>5, <1>6, <1>7, <1>8, <1>9, <1>10, <1>11
  DEF JuniorStep, ManagerStep

\* SettingsTyped is kept by every step.
LEMMA SettingsStep ==
  ASSUME MoneyTyped, SettingsTyped, Next
  PROVE  SettingsTyped'
BY HolderSettings, VaultSettings, ManagerSettings DEF Next

\* Balances that a step leaves alone still make up the supply.
LEMMA MoneyKept ==
  ASSUME MoneyTyped, SharesMakeSupply
  PROVE  /\ money' = money /\ reserve' = reserve => MoneyTyped' /\ SharesMakeSupply'
         /\ shares' = shares /\ supply' = supply => SharesMakeSupply'
BY DEF MoneyTyped, SharesMakeSupply, money

\* Only these steps touch the reserve.
LEMMA ReserveTouched ==
  ASSUME Next
  PROVE  \/ reserve' = reserve
         \/ \E v \in Vault, n \in Amount : DepositToReserve(v, n) \/ ReleaseReserve(v, n)
         \/ \E n \in Amount : RouteYield(n)
<1>1. CASE HolderStep
  <2>1. PICK v \in Vault, h \in Holder :
          \/ \E n, s : DepositPair(v, h, n, s) \/ WithdrawPair(v, h, n, s)
          \/ \E g, s : Transfer(v, h, g, s)
    BY <1>1 DEF HolderStep, Deposit, MintShares, Withdraw, Redeem
  <2> QED
    BY <2>1 DEF DepositPair, WithdrawPair, Transfer
<1>2. CASE QueueStep
  BY <1>2 DEF QueueStep, QueueWithdrawal
<1>3. CASE VaultStep
  BY <1>3
  DEF VaultStep, SetMinimumSeedDeposit, Donate, SeedVault, ExtendSeedLock, TriggerDirectly,
      LiftDirectly, SetMinJuniorRatio, SetDepositCap, SetPaused
<1>4. CASE JuniorStep
  BY <1>4
  DEF JuniorStep, SuspendDistributions, ResumeDistributions, EnableRecapitalization,
      SetYieldDestination, ExecuteRecapitalization
<1>5. CASE ManagerStep
  BY <1>5
  DEF ManagerStep, CheckAndTrigger, LiftPreservation, SetLiquidityTestResult, ConfigureManager,
      ProcessQueue
<1>6. CASE Tick
  BY <1>6 DEF Tick
<1> QED
  BY <1>1, <1>2, <1>3, <1>4, <1>5, <1>6 DEF Next

\* Assets come in for shares at the price before, or at a worse one.
Sold(v, h, n, s) ==
  /\ assets' = Credit(v, n) /\ Mint(v, h, s)
  /\ s * (assets[v] + 1) <= n * (supply[v] + VirtualShares)

\* Assets go out for shares at the price before, or at a worse one.
Bought(v, h, n, s) ==
  /\ WithdrawPair(v, h, n, s)
  /\ s * (assets[v] + 1) >= n * (supply[v] + VirtualShares)

\* The ways in which a step moves assets and shares: not at all, assets alone,
\* shares for assets, shares alone, assets for shares, between holders, out of
\* the reserve, or for a batch of requests.
LEMMA MoneyTouched ==
  ASSUME MoneyTyped, Next
  PROVE  \/ money' = money
         \/ \E v \in Vault, n \in Nat :
              assets' = Credit(v, n) /\ shares' = shares /\ supply' = supply
         \/ \E v \in Vault, h \in Holder, n \in Nat, s \in Nat : Sold(v, h, n, s)
         \/ \E s \in Nat : assets' = assets /\ Mint("Catalyst", Admin, s) /\ recap
         \/ \E v \in Vault, h \in Holder, n \in Nat, s \in Nat : Bought(v, h, n, s)
         \/ \E v \in Vault, h \in Holder, g \in Holder, s \in Nat : Transfer(v, h, g, s)
         \/ \E v \in Vault, n \in Amount : ReleaseReserve(v, n)
         \/ \E count \in 0..MaxQueue : ProcessQueue(count)
         \/ LiftPreservation
<1> DEFINE Goal ==
         \/ money' = money
         \/ \E v \in Vault, n \in Nat :
              assets' = Credit(v, n) /\ shares' = shares /\ supply' = supply
         \/ \E v \in Vault, h \in Holder, n \in Nat, s \in Nat : Sold(v, h, n, s)
         \/ \E s \in Nat : assets' = assets /\ Mint("Catalyst", Admin, s) /\ recap
         \/ \E v \in Vault, h \in Holder, n \in Nat, s \in Nat : Bought(v, h, n, s)
         \/ \E v \in Vault, h \in Holder, g \in Holder, s \in Nat : Transfer(v, h, g, s)
         \/ \E v \in Vault, n \in Amount : ReleaseReserve(v, n)
         \/ \E count \in 0..MaxQueue : ProcessQueue(count)
         \/ LiftPreservation
<1> SUFFICES Goal
  OBVIOUS
<1>1. CASE HolderStep
  <2>1. ASSUME NEW v \in Vault, NEW h \in Holder, NEW n \in Amount,
               Deposit(v, h, n) \/ Withdraw(v, h, n)
        PROVE  Goal
    <3> DEFINE s == ToShares(v, n)
               t == ToSharesUp(v, n)
    <3>1. n \in Nat
      BY CallValues
    <3>2. /\ s \in Nat /\ s * (assets[v] + 1) <= n * (supply[v] + VirtualShares)
          /\ t \in Nat /\ t * (assets[v] + 1) >= n * (supply[v] + VirtualShares)
      BY <3>1, Prices
    <3>3. Deposit(v, h, n) => Sold(v, h, n, s)
      BY <3>2 DEF Deposit, DepositPair, Sold
    <3>4. Withdraw(v, h, n) => Bought(v, h, n, t)
      BY <3>2 DEF Withdraw, Bought
    <3> HIDE DEF s, t
    <3> QED
      BY <2>1, <3>1, <3>2, <3>3, <3>4
  <2>2. ASSUME NEW v \in Vault, NEW h \in Holder, NEW s \in ShareAmount,
               MintShares(v, h, s) \/ Redeem(v, h, s)
        PROVE  Goal
    <3> DEFINE n == ToAssetsUp(v, s)
               m == ToAssets(v, s)
    <3>1. s \in Nat
      BY CallValues
    <3>2. /\ n \in Nat /\ s * (assets[v] + 1) <= n * (supply[v] + VirtualShares)
          /\ m \in Nat /\ s * (assets[v] + 1) >= m * (supply[v] + VirtualShares)
      BY <3>1, Prices
    <3>3. MintShares(v, h, s) => Sold(v, h, n, s)
      BY <3>2 DEF MintShares, DepositPair, Sold
    <3>4. Redeem(v, h, s) => Bought(v, h, m, s)
      BY <3>2 DEF Redeem, Bought
    <3> HIDE DEF n, m
    <3> QED
      BY <2>2, <3>1, <3>2, <3>3, <3>4
  <2>3. ASSUME NEW v \in Vault, NEW h \in Holder, NEW g \in Holder, NEW s \in ShareAmount,
               Transfer(v, h, g, s)
        PROVE  Goal
    BY <2>3, CallValues
  <2> HIDE DEF Goal
  <2> QED
    BY <1>1, <2>1, <2>2, <2>3 DEF HolderStep
<1>2. CASE QueueStep
  BY <1>2 DEF QueueStep, QueueWithdrawal
<1>3. CASE VaultStep
  <2> PICK v \in Vault :
        \/ \E n \in Amount : SetMinimumSeedDeposit(v, n) \/ Donate(v, n)
        \/ \E n \in Amount, e \in Expiry : SeedVault(v, n, e)
        \/ \E e \in Expiry : ExtendSeedLock(v, e)
        \/ \E n \in Amount : DepositToReserve(v, n) \/ ReleaseReserve(v, n)
        \/ TriggerDirectly(v) \/ LiftDirectly(v)
        \/ \E r \in Ratio : SetMinJuniorRatio(v, r)
        \/ \E c \in Cap : SetDepositCap(v, c)
        \/ \E b \in BOOLEAN : SetPaused(v, b)
    BY <1>3 DEF VaultStep
  <2>1. ASSUME NEW n \in Amount, SetMinimumSeedDeposit(v, n) PROVE Goal
    BY <2>1 DEF SetMinimumSeedDeposit
  <2>2. ASSUME NEW n \in Amount, Donate(v, n) \/ DepositToReserve(v, n) PROVE Goal
    <3>1. n \in Nat
      BY CallValues
    <3>2. assets' = Credit(v, n) /\ shares' = shares /\ supply' = supply
      BY <2>2 DEF Donate, DepositToReserve
    <3> QED
      BY <3>1, <3>2
  <2>3. ASSUME NEW n \in Amount, NEW e, SeedVault(v, n, e) PROVE Goal
    <3> DEFINE minted == (n * (supply[v] + VirtualShares)) \div (assets[v] + n + 1)
    <3>1. n \in Nat /\ Admin \in Holder
      BY CallValues DEF Holder
    <3>2. minted \in Nat /\ minted * (assets[v] + 1) <= n * (supply[v] + VirtualShares)
      BY <3>1, SeedPrice
    <3>3. assets' = Credit(v, n) /\ Mint(v, Admin, minted)
      BY <2>3 DEF SeedVault
    <3> HIDE DEF minted
    <3>4. Sold(v, Admin, n, minted)
      BY <3>2, <3>3 DEF Sold
    <3> QED
      BY <3>1, <3>2, <3>4
  <2>4. ASSUME NEW e, ExtendSeedLock(v, e) PROVE Goal
    BY <2>4 DEF ExtendSeedLock
  <2>5. ASSUME NEW n \in Amount, ReleaseReserve(v, n) PROVE Goal
    BY <2>5
  <2>6. ASSUME TriggerDirectly(v) \/ LiftDirectly(v) PROVE Goal
    BY <2>6 DEF TriggerDirectly, LiftDirectly
  <2>7. ASSUME NEW x, SetMinJuniorRatio(v, x) \/ SetDepositCap(v, x) \/ SetPaused(v, x) PROVE Goal
    BY <2>7 DEF SetMinJuniorRatio, SetDepositCap, SetPaused
  <2> HIDE DEF Goal
  <2> QED
    BY <2>1, <2>2, <2>3, <2>4, <2>5, <2>6, <2>7
<1>4. CASE JuniorStep
  <2>1. CASE SuspendDistributions \/ ResumeDistributions \/ EnableRecapitalization
    BY <2>1 DEF SuspendDistributions, ResumeDistributions, EnableRecapitalization
  <2>2. ASSUME NEW x, RouteYield(x) \/ SetYieldDestination(x) PROVE Goal
    BY <2>2 DEF RouteYield, SetYieldDestination
  <2>3. ASSUME NEW s \in ShareAmount, ExecuteRecapitalization(s) PROVE Goal
    BY <2>3, CallValues DEF ExecuteRecapitalization
  <2> HIDE DEF Goal
  <2> QED
    BY <1>4, <2>1, <2>2, <2>3 DEF JuniorStep
<1>5. CASE ManagerStep
  <2>1. CASE CheckAndTrigger
    BY <2>1 DEF CheckAndTrigger
  <2>2. ASSUME NEW V, NEW b, SetLiquidityTestResult(V, b) PROVE Goal
    BY <2>2 DEF SetLiquidityTestResult
  <2>3. ASSUME NEW s, NEW n, NEW b, ConfigureManager(s, n, b) PROVE Goal
    BY <2>3 DEF ConfigureManager
  <2>4. ASSUME \/ LiftPreservation
               \/ \E count \in 0..MaxQueue : ProcessQueue(count)
        PROVE  Goal
    BY <2>4
  <2> HIDE DEF Goal
  <2> QED
    BY <1>5, <2>1, <2>2, <2>3, <2>4 DEF ManagerStep
<1>6. CASE Tick
  BY <1>6 DEF Tick
<1> HIDE DEF Goal
<1> QED
  BY <1>1, <1>2, <1>3, <1>4, <1>5, <1>6 DEF Next

\* The reserves stay numbers.
LEMMA ReserveStep ==
  ASSUME MoneyTyped, Next
  PROVE  reserve' \in [Vault -> Nat]
<1>1. CASE reserve' = reserve
  BY <1>1 DEF MoneyTyped
<1>2. ASSUME NEW v \in Vault, NEW n \in Amount, DepositToReserve(v, n)
      PROVE  reserve' \in [Vault -> Nat]
  BY <1>2, CallValues DEF DepositToReserve, MoneyTyped
<1>3. ASSUME NEW v \in Vault, NEW n \in Amount, ReleaseReserve(v, n)
      PROVE  reserve' \in [Vault -> Nat]
  <2>1. n \in Nat /\ n <= reserve[v]
    BY <1>3, CallValues DEF ReleaseReserve
  <2>2. reserve[v] - n \in Nat
    BY <2>1 DEF MoneyTyped
  <2> QED
    BY <1>3, <2>2 DEF ReleaseReserve, MoneyTyped
<1>4. ASSUME NEW n \in Amount, RouteYield(n) PROVE reserve' \in [Vault -> Nat]
  BY <1>4, CallValues DEF RouteYield, MoneyTyped, Vault
<1> QED
  BY <1>1, <1>2, <1>3, <1>4, ReserveTouched

\* The money of both vaults stays typed, and the shares make up the supply.
LEMMA MoneyStep ==
  ASSUME MoneyTyped, SettingsTyped, QueueTyped, SharesMakeSupply, Next
  PROVE  MoneyTyped' /\ SharesMakeSupply'
<1> DEFINE Kept == /\ shares' \in [Vault -> [Holder -> Nat]] /\ supply' \in [Vault -> Nat]
                   /\ assets' \in [Vault -> Nat] /\ SharesMakeSupply'
<1>1. ASSUME money' = money PROVE Kept
  BY <1>1 DEF MoneyTyped, SharesMakeSupply, money
<1>2. ASSUME NEW v \in Vault, NEW n \in Nat, assets' = Credit(v, n), shares' = shares,
             supply' = supply
      PROVE  Kept
  BY <1>2 DEF MoneyTyped, SharesMakeSupply, Credit
<1>3. ASSUME NEW v \in Vault, NEW h \in Holder, NEW n \in Nat, NEW s \in Nat, Sold(v, h, n, s)
      PROVE  Kept
  <2>1. assets' \in [Vault -> Nat]
    BY <1>3 DEF Sold, Credit, MoneyTyped
  <2> QED
    BY <1>3, <2>1, MintKeeps DEF Sold
<1>4. ASSUME NEW s \in Nat, assets' = assets, Mint("Catalyst", Admin, s) PROVE Kept
  <2>1. "Catalyst" \in Vault /\ Admin \in Holder
    BY DEF Vault, Holder
  <2> QED
    BY <1>4, <2>1, MintKeeps DEF MoneyTyped
<1>5. ASSUME NEW v \in Vault, NEW h \in Holder, NEW n \in Nat, NEW s \in Nat, Bought(v, h, n, s)
      PROVE  Kept
  <2>1. s <= shares[v][h]
    <3>1. s <= FreeShares(v, h)
      BY <1>5 DEF Bought, WithdrawPair
    <3>2. /\ FreeShares(v, h) \in Nat /\ LockedShares(v, h) \in Nat
          /\ FreeShares(v, h) + LockedShares(v, h) = shares[v][h]
      BY LockedInBalance
    <3> QED
      BY <3>1, <3>2
  <2>2. /\ shares' \in [Vault -> [Holder -> Nat]] /\ supply' \in [Vault -> Nat]
        /\ SharesMakeSupply'
    BY <1>5, <2>1, BurnKeeps DEF Bought, WithdrawPair
  <2>3. assets[v] - n \in Nat
    BY <1>5 DEF Bought, WithdrawPair, MoneyTyped
  <2>4. assets' \in [Vault -> Nat]
    BY <1>5, <2>3 DEF Bought, WithdrawPair, MoneyTyped
  <2> QED
    BY <2>2, <2>4
<1>6. ASSUME NEW v \in Vault, NEW h \in Holder, NEW g \in Holder, NEW s \in Nat,
             Transfer(v, h, g, s)
      PROVE  Kept
  BY <1>6, TransferKeeps DEF MoneyTyped
<1>7. ASSUME NEW v \in Vault, NEW n \in Amount, ReleaseReserve(v, n) PROVE Kept
  <2>1. n \in Nat /\ n <= assets[v]
    BY <1>7, CallValues DEF ReleaseReserve
  <2>2. assets[v] - n \in Nat
    BY <2>1 DEF MoneyTyped
  <2> QED
    BY <1>7, <2>2 DEF ReleaseReserve, MoneyTyped, SharesMakeSupply
<1>8. ASSUME NEW B \in SUBSET DOMAIN queue, ProcessBatch(B) PROVE Kept
  BY <1>8, BatchPaid
<1>9. Pending \in SUBSET DOMAIN queue /\ \A count : Batch(count) \in SUBSET DOMAIN queue
  BY DEF Pending, Batch
<1>10. ASSUME LiftPreservation PROVE Kept
  BY <1>8, <1>9, <1>10 DEF LiftPreservation
<1>11. ASSUME NEW count, ProcessQueue(count) PROVE Kept
  BY <1>8, <1>9, <1>11 DEF ProcessQueue
<1>12. Kept
  <2> HIDE DEF Kept
  <2> QED
    BY <1>1, <1>2, <1>3, <1>4, <1>5, <1>6, <1>7, <1>10, <1>11, MoneyTouched
<1> QED
  BY <1>12, ReserveStep DEF MoneyTyped

\* A queue that a step leaves alone stays as it was.
LEMMA QueueKept ==
  ASSUME QueueTyped, QueueInOrder, waiting' = waiting
  PROVE  QueueTyped' /\ QueueInOrder'
<1>1. queue' = queue /\ queued' = queued
  BY DEF waiting
<1>2. QueueTyped'
  BY <1>1 DEF QueueTyped
<1>3. QueueInOrder'
  BY <1>1 DEF QueueInOrder, AssetsIn, Pending
<1> QED
  BY <1>2, <1>3

\* Only requests, processQueue and liftPreservation touch the queue.
LEMMA QueueTouched ==
  ASSUME Next
  PROVE  \/ waiting' = waiting
         \/ QueueStep
         \/ \E count \in 0..MaxQueue : ProcessQueue(count)
         \/ LiftPreservation
<1>1. CASE HolderStep
  <2>1. PICK v \in Vault, h \in Holder :
          \/ \E n, s : DepositPair(v, h, n, s) \/ WithdrawPair(v, h, n, s)
          \/ \E g, s : Transfer(v, h, g, s)
    BY <1>1 DEF HolderStep, Deposit, MintShares, Withdraw, Redeem
  <2> QED
    BY <2>1 DEF DepositPair, WithdrawPair, Transfer
<1>2. CASE VaultStep
  BY <1>2
  DEF VaultStep, SetMinimumSeedDeposit, Donate, SeedVault, ExtendSeedLock, DepositToReserve,
      ReleaseReserve, TriggerDirectly, LiftDirectly, SetMinJuniorRatio, SetDepositCap, SetPaused
<1>3. CASE JuniorStep
  BY <1>3
  DEF JuniorStep, SuspendDistributions, ResumeDistributions, EnableRecapitalization, RouteYield,
      SetYieldDestination, ExecuteRecapitalization
<1>4. CASE ManagerStep
  BY <1>4 DEF ManagerStep, CheckAndTrigger, SetLiquidityTestResult, ConfigureManager
<1>5. CASE Tick
  BY <1>5 DEF Tick
<1> QED
  BY <1>1, <1>2, <1>3, <1>4, <1>5 DEF Next

\* The queue stays in order with its total.
LEMMA QueueStepKeeps ==
  ASSUME QueueTyped, QueueInOrder, Next
  PROVE  QueueTyped' /\ QueueInOrder'
<1>1. CASE QueueStep
  BY <1>1, CallValues, RequestQueued DEF QueueStep
<1>2. ASSUME NEW count \in 0..MaxQueue, ProcessQueue(count) PROVE QueueTyped' /\ QueueInOrder'
  <2>1. count \in Nat
    BY VaultConstants
  <2>2. InOrder(Batch(count)) /\ ProcessBatch(Batch(count))
    BY <1>2, <2>1, BatchesInOrder DEF ProcessQueue
  <2> QED
    BY <2>2, BatchServed
<1>3. CASE LiftPreservation
  BY <1>3, BatchesInOrder, BatchServed DEF LiftPreservation
<1> QED
  BY <1>1, <1>2, <1>3, QueueKept, QueueTouched

-----------------------------------------------------------------------------
(* The theorems                                                            *)

\* The vaults are deployed empty.
LEMMA VaultsStart ==
  ASSUME Init
  PROVE  VaultsInv
<1>1. MoneyTyped
  BY DEF Init, MoneyTyped
<1>2. SeedingTyped
  BY CallValues DEF Init, SeedingTyped
<1>3. ConfigTyped
  <2>1. InitialRatio \in BasisPoints
    BY VaultConstants
  <2> QED
    BY <2>1 DEF Init, ConfigTyped
<1>4. JuniorTyped /\ active \in [Vault -> BOOLEAN] /\ now \in Nat /\ calls \in Nat
  BY DEF Init, JuniorTyped
<1>5. ManagerTyped
  BY CallValues DEF Init, ManagerTyped
<1>6. ASSUME NEW v \in Vault PROVE supply[v] = SumFunctionOnSet(shares[v], Holder)
  <2> DEFINE z == shares[v]
             n == SumFunctionOnSet(z, Holder)
  <2>1. supply[v] = 0 /\ \A h \in Holder : z[h] = 0
    BY DEF Init
  <2> HIDE DEF z
  <2>2. n \in Nat
    BY <2>1, HoldersFinite, SumTakesOut
  <2>3. n = n + n
    BY <2>1, HoldersFinite, SumAdds
  <2>4. n = 0
    <3> HIDE DEF n
    <3> QED
      BY <2>2, <2>3
  <2> QED
    BY <2>1, <2>4 DEF n, z
<1>7. QueueTyped
  BY EmptySeq DEF Init, QueueTyped
<1>8. QueueInOrder
  <2>1. queue = <<>> /\ queued = 0 /\ DOMAIN queue = {}
    BY EmptySeq DEF Init
  <2>2. Pending = {}
    BY <2>1 DEF Pending
  <2>3. SumFunctionOnSet([i \in DOMAIN queue |-> queue[i].assets], {}) = 0
    BY FS_EmptySet, SumOfSome
  <2> QED
    BY <2>1, <2>2, <2>3 DEF QueueInOrder, AssetsIn
<1> QED
  BY <1>1, <1>2, <1>3, <1>4, <1>5, <1>6, <1>7, <1>8 DEF VaultsInv, SettingsTyped, SharesMakeSupply

\* A step, or none, keeps the invariant.
LEMMA VaultsStep ==
  ASSUME VaultsInv, [Next]_vars
  PROVE  VaultsInv'
<1>1. CASE Next
  BY <1>1, MoneyStep, SettingsStep, QueueStepKeeps DEF VaultsInv
<1>2. CASE UNCHANGED vars
  <2>1. /\ money' = money /\ reserve' = reserve /\ waiting' = waiting
        /\ UNCHANGED <<seeding, config, junior, manager, active, now, calls>>
    BY <1>2 DEF vars
  <2>2. SettingsTyped'
    BY <2>1, SettingsKept DEF VaultsInv, SettingsTyped
  <2> QED
    BY <2>1, <2>2, MoneyKept, QueueKept DEF VaultsInv
<1> QED
  BY <1>1, <1>2

\* Every reachable state is typed, its shares make up the supply, and its
\* queue is in order.
THEOREM VaultsInvariant == Spec => []VaultsInv
<1>1. Init => VaultsInv
  BY VaultsStart
<1>2. VaultsInv /\ [Next]_vars => VaultsInv'
  BY VaultsStep
<1> QED
  BY <1>1, <1>2, PTL DEF Spec

\* QueueInOrder: processed requests come before pending ones, and the queued
\* total is what the pending ones ask for, through requests, partial batches
\* and the batch that lifting preservation mode processes.
THEOREM QueueServedInOrder == Spec => []QueueInOrder
<1>1. VaultsInv => QueueInOrder
  BY DEF VaultsInv
<1> QED
  BY <1>1, VaultsInvariant, PTL

\* Minting takes shares from nobody.
LEMMA MintRaises ==
  ASSUME MoneyTyped, NEW v \in Vault, NEW h \in Holder, NEW n \in Nat, Mint(v, h, n)
  PROVE  \A w \in Vault, g \in Holder : shares'[w][g] >= shares[w][g]
<1> SUFFICES ASSUME NEW w \in Vault, NEW g \in Holder PROVE shares'[w][g] >= shares[w][g]
  OBVIOUS
<1>1. shares[w][g] \in Nat /\ shares[w] \in [Holder -> Nat]
  BY DEF MoneyTyped
<1>2. shares'[w][g] = IF w = v /\ g = h THEN shares[w][g] + n ELSE shares[w][g]
  BY DEF Mint, MoneyTyped
<1> QED
  BY <1>1, <1>2

\* What a step leaves of the administrator's locked seed.
LEMMA SeedStaysStep ==
  ASSUME VaultsInv, Next, NEW v \in Vault
  PROVE  shares'[v][Admin] >= LockedShares(v, Admin)
<1> DEFINE b == shares[v][Admin]
           c == shares'[v][Admin]
           l == LockedShares(v, Admin)
           Stays == c >= l
<1>1. MoneyTyped /\ SettingsTyped /\ QueueTyped /\ Admin \in Holder
  BY DEF VaultsInv, Holder
<1>2. b \in Nat /\ l \in Nat /\ l <= b /\ FreeShares(v, Admin) + l = b /\ FreeShares(v, Admin) \in Nat
  BY <1>1, LockedInBalance DEF MoneyTyped
<1>3. ASSUME shares' = shares PROVE Stays
  BY <1>2, <1>3
<1>4. ASSUME NEW w \in Vault, NEW h \in Holder, NEW n \in Nat, Mint(w, h, n) PROVE Stays
  <2>1. c >= b /\ c \in Nat
    BY <1>1, <1>4, MintRaises, MintKeeps DEF VaultsInv
  <2> HIDE DEF b, c, l
  <2> QED
    BY <1>2, <2>1
<1>5. ASSUME NEW w \in Vault, NEW h \in Holder, NEW n \in Nat, NEW s \in Nat,
             WithdrawPair(w, h, n, s)
      PROVE  Stays
  <2>1. c = IF w = v /\ h = Admin THEN b - s ELSE b
    BY <1>1, <1>5 DEF WithdrawPair, MoneyTyped
  <2>2. w = v /\ h = Admin => s <= FreeShares(v, Admin)
    BY <1>5 DEF WithdrawPair
  <2> HIDE DEF b, c, l
  <2> QED
    BY <1>2, <2>1, <2>2
<1>6. ASSUME NEW w \in Vault, NEW h \in Holder, NEW g \in Holder, NEW s \in Nat,
             Transfer(w, h, g, s)
      PROVE  Stays
  <2>1. h # g /\ shares' = [shares EXCEPT ![w][h] = @ - s, ![w][g] = @ + s]
    BY <1>6 DEF Transfer
  <2>2. c = IF w = v /\ h = Admin THEN b - s ELSE IF w = v /\ g = Admin THEN b + s ELSE b
    BY <1>1, <2>1 DEF MoneyTyped
  <2>3. w = v /\ h = Admin => s <= FreeShares(v, Admin)
    BY <1>6 DEF Transfer
  <2> HIDE DEF b, c, l
  <2> QED
    BY <1>2, <2>2, <2>3
<1>7. ASSUME NEW B \in SUBSET DOMAIN queue, ProcessBatch(B) PROVE Stays
  <2>1. c = IF v = "Sentinel" THEN b - SharesIn(B, Admin) ELSE b
    BY <1>1, <1>7 DEF ProcessBatch, MoneyTyped
  <2>2. v = "Sentinel" => SharesIn(B, Admin) <= FreeShares(v, Admin)
    BY <1>1, <1>7 DEF ProcessBatch
  <2>3. SharesIn(B, Admin) \in Nat
    BY <1>1, RequestSums
  <2> HIDE DEF b, c, l
  <2> QED
    BY <1>2, <2>1, <2>2, <2>3
<1>8. Pending \in SUBSET DOMAIN queue /\ \A count : Batch(count) \in SUBSET DOMAIN queue
  BY DEF Pending, Batch
<1>9. /\ money' = money => shares' = shares
      /\ \A w, h, n, s : Sold(w, h, n, s) => Mint(w, h, s)
      /\ \A w, h, n, s : Bought(w, h, n, s) => WithdrawPair(w, h, n, s)
      /\ \A w, n : ReleaseReserve(w, n) => shares' = shares
      /\ \A count : ProcessQueue(count) => ProcessBatch(Batch(count))
      /\ LiftPreservation => ProcessBatch(Pending)
  BY DEF money, Sold, Bought, ReleaseReserve, ProcessQueue, LiftPreservation
<1>10. "Catalyst" \in Vault
  BY DEF Vault
<1>11. Stays
  <2> HIDE DEF Stays
  <2> QED
    BY <1>1, <1>3, <1>4, <1>5, <1>6, <1>7, <1>8, <1>9, <1>10, MoneyTouched
<1> QED
  BY <1>11

\* SeedStays: no step takes locked seed shares from the administrator.
THEOREM SeedAlwaysStays == Spec => SeedStays
<1>1. VaultsInv /\ [Next]_vars => [\A v \in Vault : shares'[v][Admin] >= LockedShares(v, Admin)]_vars
  BY SeedStaysStep
<1> QED
  BY <1>1, VaultsInvariant, PTL DEF Spec, SeedStays

\* What the assets of a vault in preservation mode become.
LEMMA PreservedStep ==
  ASSUME VaultsInv, Next, NEW v \in Vault, active[v], active'[v]
  PROVE  assets'[v] >= assets[v]
<1> DEFINE Kept == assets'[v] >= assets[v]
<1>1. MoneyTyped /\ assets[v] \in Nat
  BY DEF VaultsInv, MoneyTyped
<1>2. ASSUME assets' = assets PROVE Kept
  BY <1>1, <1>2
<1>3. ASSUME NEW w \in Vault, NEW n \in Nat, assets' = Credit(w, n) PROVE Kept
  <2>1. assets'[v] = IF v = w THEN assets[v] + n ELSE assets[v]
    BY <1>1, <1>3 DEF Credit, MoneyTyped
  <2> QED
    BY <1>1, <2>1
<1>4. ASSUME NEW w \in Vault, NEW n, NEW x, ~active[w], assets' = [assets EXCEPT ![w] = x]
      PROVE  Kept
  <2>1. v # w /\ assets'[v] = assets[v]
    BY <1>1, <1>4 DEF MoneyTyped
  <2> QED
    BY <1>1, <2>1
<1>5. /\ money' = money => assets' = assets
      /\ \A w, h, n, s : Sold(w, h, n, s) => assets' = Credit(w, n)
      /\ \A w, h, g, s : Transfer(w, h, g, s) => assets' = assets
  BY DEF money, Sold, Transfer
<1>6. ASSUME NEW w \in Vault, NEW h, NEW n, NEW s, Bought(w, h, n, s) PROVE Kept
  BY <1>4, <1>6 DEF Bought, WithdrawPair
<1>7. ASSUME NEW w \in Vault, NEW n, ReleaseReserve(w, n) PROVE Kept
  BY <1>4, <1>7 DEF ReleaseReserve
<1>8. ASSUME NEW count, ProcessQueue(count) PROVE Kept
  BY <1>4, <1>8 DEF ProcessQueue, ProcessBatch, Vault
<1>9. ~LiftPreservation
  BY DEF LiftPreservation
<1>10. Kept
  <2> HIDE DEF Kept
  <2> QED
    BY <1>1, <1>2, <1>3, <1>5, <1>6, <1>7, <1>8, <1>9, MoneyTouched
<1> QED
  BY <1>10

\* PreservedKeepsAssets: nothing leaves a vault that is and stays in
\* preservation mode.
THEOREM PreservationKeepsAssets == Spec => PreservedKeepsAssets
<1>1. VaultsInv /\ [Next]_vars =>
        [\A v \in Vault : active[v] /\ active'[v] => assets'[v] >= assets[v]]_vars
  BY PreservedStep
<1> QED
  BY <1>1, VaultsInvariant, PTL DEF Spec, PreservedKeepsAssets

\* The mode of both vaults is left at once by liftPreservation only.
LEMMA BothLifted ==
  ASSUME VaultsInv, Next, \A v \in Vault : active[v] /\ ~active'[v]
  PROVE  LiftPreservation
<1>1. active \in [Vault -> BOOLEAN] /\ "Sentinel" \in Vault /\ "Catalyst" \in Vault
  BY DEF VaultsInv, SettingsTyped, Vault
<1>2. active' # active
  BY <1>1
<1>3. ASSUME NEW v \in Vault PROVE ~TriggerDirectly(v) /\ ~LiftDirectly(v)
  <2>1. PICK w \in Vault : w # v
    BY <1>1
  <2>2. LiftDirectly(v) => active'[w] = active[w]
    BY <1>1, <2>1 DEF LiftDirectly
  <2> QED
    BY <2>1, <2>2 DEF TriggerDirectly
<1>4. ~HolderStep
  <2>1. ~\E v, h, n, s : DepositPair(v, h, n, s) \/ WithdrawPair(v, h, n, s)
    BY <1>2 DEF DepositPair, WithdrawPair
  <2>2. ~\E v, h, g, s : Transfer(v, h, g, s)
    BY <1>2 DEF Transfer
  <2> QED
    BY <2>1, <2>2 DEF HolderStep, Deposit, MintShares, Withdraw, Redeem
<1>5. ~QueueStep
  BY <1>2 DEF QueueStep, QueueWithdrawal
<1>6. ~VaultStep
  BY <1>2, <1>3
  DEF VaultStep, SetMinimumSeedDeposit, Donate, SeedVault, ExtendSeedLock, DepositToReserve,
      ReleaseReserve, SetMinJuniorRatio, SetDepositCap, SetPaused
<1>7. ~JuniorStep
  BY <1>2
  DEF JuniorStep, SuspendDistributions, ResumeDistributions, EnableRecapitalization, RouteYield,
      SetYieldDestination, ExecuteRecapitalization
<1>8. ManagerStep => LiftPreservation
  BY <1>1, <1>2
  DEF ManagerStep, CheckAndTrigger, SetLiquidityTestResult, ConfigureManager, ProcessQueue
<1>9. ~Tick
  BY <1>2 DEF Tick
<1> QED
  BY <1>4, <1>5, <1>6, <1>7, <1>8, <1>9 DEF Next

\* Assets that leave the Sentinel raise the junior ratio.
LEMMA RatioRises ==
  ASSUME NEW s \in Nat, NEW c \in Nat, NEW x \in Nat, x <= s, NEW r \in Nat \ {0},
         RatioOf(s, c) >= r
  PROVE  RatioOf(s - x, c) >= r
<1> DEFINE n == c * 10000
           d == s + c
           e == (s - x) + c
<1>1. s - x \in Nat /\ n \in Nat /\ d \in Nat /\ e \in Nat /\ e <= d
  OBVIOUS
<1>2. d # 0 /\ n \div d >= r
  BY DEF RatioOf
<1>3. c # 0
  <2> SUFFICES ASSUME c = 0 PROVE FALSE
    OBVIOUS
  <2> DEFINE q == n \div d
  <2>1. q \in Nat /\ q * d <= n /\ q >= r
    BY <1>1, <1>2, Division
  <2>2. n = 0
    OBVIOUS
  <2> HIDE DEF q, n, d
  <2>3. d <= q * d
    BY <1>1, <1>2, <2>1
  <2> QED
    BY <1>1, <1>2, <2>1, <2>2, <2>3
<1>4. e # 0 /\ d \in Nat \ {0} /\ e \in Nat \ {0}
  BY <1>1, <1>2, <1>3
<1>5. n \div e >= r
  <2> HIDE DEF n, d, e
  <2> QED
    BY <1>1, <1>2, <1>4, SmallerDivisor
<1> QED
  BY <1>4, <1>5 DEF RatioOf

\* What liftPreservation leaves.
LEMMA LiftStep ==
  ASSUME VaultsInv, LiftPreservation
  PROVE  /\ Pending' = {} /\ ~suspended'
         /\ \A v \in Vault : JuniorRatio' >= minRatio[v]
<1>1. Pending' = {}
  <2>1. Pending' = Pending \ Pending
    BY BatchesInOrder, BatchServed DEF LiftPreservation, VaultsInv
  <2> QED
    BY <2>1
<1>2. ~suspended'
  BY DEF LiftPreservation
<1> DEFINE s == assets["Sentinel"]
           c == assets["Catalyst"]
           x == AssetsIn(Pending)
<1>3. s \in Nat /\ c \in Nat
  BY DEF VaultsInv, MoneyTyped, Vault
<1>4. x \in Nat
  <2>1. Pending \in SUBSET DOMAIN queue
    BY DEF Pending
  <2> QED
    BY <2>1, RequestSums DEF VaultsInv
<1>5. x <= s /\ assets' = [assets EXCEPT !["Sentinel"] = @ - x]
  BY DEF LiftPreservation, ProcessBatch
<1>6. assets'["Sentinel"] = s - x /\ assets'["Catalyst"] = c
  BY <1>5 DEF VaultsInv, MoneyTyped, Vault
<1>7. JuniorRatio = RatioOf(s, c) /\ JuniorRatio' = RatioOf(s - x, c)
  BY <1>6 DEF JuniorRatio
<1> HIDE DEF s, c, x
<1>8. ASSUME NEW v \in Vault PROVE JuniorRatio' >= minRatio[v]
  <2> DEFINE r == minRatio[v]
  <2>1. r \in BasisPoints
    <3>1. minRatio \in [Vault -> BasisPoints]
      BY DEF VaultsInv, SettingsTyped, ConfigTyped
    <3> QED
      BY <3>1
  <2>2. JuniorRatio >= r
    BY DEF LiftPreservation
  <2> HIDE DEF r
  <2>3. r \in Nat \ {0}
    BY <2>1, RatiosPositive
  <2>4. RatioOf(s - x, c) >= r
    BY <1>3, <1>4, <1>5, <1>7, <2>2, <2>3, RatioRises
  <2> QED
    BY <1>7, <2>4 DEF r
<1> QED
  BY <1>1, <1>2, <1>8

\* LiftSettles: when both vaults leave preservation mode together, no request
\* is left, distributions are on and the junior ratio holds after the payments.
THEOREM LiftingSettles == Spec => LiftSettles
<1>1. VaultsInv /\ [Next]_vars =>
        [(\A v \in Vault : active[v] /\ ~active'[v]) =>
           /\ Pending' = {}
           /\ ~suspended'
           /\ \A v \in Vault : JuniorRatio' >= minRatio[v]]_vars
  BY BothLifted, LiftStep
<1> QED
  BY <1>1, VaultsInvariant, PTL DEF Spec, LiftSettles

\* Shares sold at the old price or above, and bought at it or below, raise it.
LEMMA FairTrades ==
  ASSUME NEW a \in Nat, NEW m \in Nat, NEW n \in Nat, NEW s \in Nat
  PROVE  /\ s * a <= n * m => (a + n) * m >= a * (m + s)
         /\ s * a >= n * m /\ n <= a /\ s <= m => (a - n) * m >= a * (m - s)
<1>1. /\ (a + n) * m = a * m + n * m /\ a * (m + s) = a * m + s * a
      /\ (a - n) * m = a * m - n * m /\ a * (m - s) = a * m - s * a
  BY SMT
<1>2. a * m \in Nat /\ n * m \in Nat /\ s * a \in Nat
  BY Products
<1> QED
  BY <1>1, <1>2

\* A batch of requests shows in the queue, or is empty and moves nothing.
LEMMA BatchShows ==
  ASSUME MoneyTyped, QueueTyped, NEW B \in SUBSET Pending, ProcessBatch(B)
  PROVE  waiting' # waiting \/ (assets' = assets /\ supply' = supply)
<1>1. CASE B = {}
  <2>1. AssetsIn(B) = 0 /\ SumFunctionOnSet([i \in DOMAIN queue |-> queue[i].shares], B) = 0
    BY <1>1, FS_EmptySet, SumOfSome DEF AssetsIn
  <2>2. assets' = [assets EXCEPT !["Sentinel"] = @ - 0]
        /\ supply' = [supply EXCEPT !["Sentinel"] = @ - 0]
    BY <2>1 DEF ProcessBatch
  <2>3. assets' = assets /\ supply' = supply
    BY <2>2 DEF MoneyTyped, Vault
  <2> QED
    BY <2>3
<1>2. CASE B # {}
  <2>1. PICK i \in B : TRUE
    BY <1>2
  <2>2. i \in DOMAIN queue /\ ~queue[i].processed /\ queue[i] \in Call
    BY <2>1, QueueFinite DEF Pending
  <2>3. queue'[i] = [queue[i] EXCEPT !.processed = @ \/ i \in B]
    BY <2>2 DEF ProcessBatch
  <2>4. queue'[i].processed
    BY <2>1, <2>2, <2>3 DEF Call
  <2>5. queue' # queue
    BY <2>2, <2>4
  <2> QED
    BY <2>5 DEF waiting
<1> QED
  BY <1>1, <1>2

\* What the price of a share becomes.
LEMMA PriceStep ==
  ASSUME VaultsInv, Next, NEW v \in Vault
  PROVE  \/ waiting' # waiting \/ reserve' # reserve
         \/ assets' = assets /\ recap
         \/ (assets'[v] + 1) * (supply[v] + VirtualShares)
              >= (assets[v] + 1) * (supply'[v] + VirtualShares)
<1> DEFINE a == assets[v] + 1
           m == supply[v] + VirtualShares
           b == assets'[v] + 1
           k == supply'[v] + VirtualShares
           Kept == b * m >= a * k
           Goal == \/ waiting' # waiting \/ reserve' # reserve
                   \/ assets' = assets /\ recap
                   \/ Kept
<1> SUFFICES Goal
  OBVIOUS
<1>1. MoneyTyped /\ SettingsTyped /\ SharesMakeSupply /\ QueueTyped
  BY DEF VaultsInv
<1>2. assets[v] \in Nat /\ supply[v] \in Nat /\ VirtualShares \in Nat
  <2>1. VirtualShares \in Nat
    BY VaultConstants
  <2> QED
    BY <1>1, <2>1 DEF MoneyTyped
<1>3. a \in Nat /\ m \in Nat
  BY <1>2
<1>4. ASSUME assets'[v] = assets[v], supply'[v] = supply[v] PROVE Kept
  <2>1. b = a /\ k = m
    BY <1>4
  <2> HIDE DEF a, m, b, k
  <2>2. a * m \in Nat
    BY <1>3, Products
  <2> QED
    BY <2>1, <2>2
<1>5. ASSUME NEW w \in Vault, NEW n \in Nat, assets' = Credit(w, n), supply' = supply PROVE Kept
  <2>1. k = m /\ b \in Nat /\ a <= b
    BY <1>1, <1>2, <1>5 DEF Credit, MoneyTyped
  <2> HIDE DEF a, m, b, k
  <2> QED
    BY <1>3, <2>1, Products
<1>6. ASSUME NEW w \in Vault, NEW h \in Holder, NEW n \in Nat, NEW s \in Nat, Sold(w, h, n, s)
      PROVE  Kept
  <2>1. CASE w = v
    <3>1. assets' = Credit(v, n) /\ supply' = [supply EXCEPT ![v] = @ + s] /\ s * a <= n * m
      BY <1>6, <2>1 DEF Sold, Mint
    <3>2. b = a + n /\ k = m + s
      <4>1. assets'[v] = assets[v] + n
        BY <1>1, <3>1 DEF Credit, MoneyTyped
      <4>2. supply'[v] = supply[v] + s
        BY <1>1, <3>1 DEF MoneyTyped
      <4> QED
        BY <1>2, <4>1, <4>2
    <3> HIDE DEF a, m, b, k
    <3> QED
      BY <1>3, <3>1, <3>2, FairTrades
  <2>2. CASE w # v
    BY <1>1, <1>4, <1>6, <2>2 DEF Sold, Mint, Credit, MoneyTyped
  <2> QED
    BY <2>1, <2>2
<1>7. ASSUME NEW w \in Vault, NEW h \in Holder, NEW n \in Nat, NEW s \in Nat, Bought(w, h, n, s)
      PROVE  Kept
  <2>1. CASE w = v
    <3>1. /\ assets' = [assets EXCEPT ![v] = @ - n] /\ supply' = [supply EXCEPT ![v] = @ - s]
          /\ n <= assets[v] /\ s <= FreeShares(v, h) /\ s * a >= n * m
      BY <1>7, <2>1 DEF Bought, WithdrawPair
    <3>2. s <= supply[v]
      <4>1. /\ FreeShares(v, h) \in Nat /\ LockedShares(v, h) \in Nat
            /\ FreeShares(v, h) + LockedShares(v, h) = shares[v][h]
        BY <1>1, LockedInBalance
      <4>2. shares[v][h] <= supply[v]
        BY <1>1, BalanceInSupply
      <4> QED
        BY <1>2, <3>1, <4>1, <4>2
    <3>3. b = a - n /\ k = m - s /\ n <= a /\ s <= m
      BY <1>1, <1>2, <3>1, <3>2 DEF MoneyTyped
    <3> HIDE DEF a, m, b, k
    <3> QED
      BY <1>3, <3>1, <3>3, FairTrades
  <2>2. CASE w # v
    BY <1>1, <1>4, <1>7, <2>2 DEF Bought, WithdrawPair, MoneyTyped
  <2> QED
    BY <2>1, <2>2
<1>8. ASSUME NEW w \in Vault, NEW n \in Amount, ReleaseReserve(w, n) PROVE reserve' # reserve
  <2>1. n \in Nat /\ n # 0 /\ reserve[w] \in Nat
    BY <1>1, CallValues DEF MoneyTyped
  <2>2. reserve'[w] = reserve[w] - n
    BY <1>1, <1>8 DEF ReleaseReserve, MoneyTyped
  <2> QED
    BY <2>1, <2>2
<1>9. ASSUME NEW B \in SUBSET Pending, ProcessBatch(B) PROVE Goal
  <2>1. assets' = assets /\ supply' = supply => Kept
    BY <1>4
  <2> HIDE DEF Kept
  <2> QED
    BY <1>1, <1>9, <2>1, BatchShows
<1>10. /\ money' = money => Kept
       /\ \A w, h, g, s : Transfer(w, h, g, s) => Kept
  <2>1. assets' = assets /\ supply' = supply => Kept
    BY <1>4
  <2> HIDE DEF Kept
  <2> QED
    BY <2>1 DEF money, Transfer
<1>11. ASSUME NEW count, ProcessQueue(count) PROVE Goal
  <2>1. Batch(count) \in SUBSET Pending /\ ProcessBatch(Batch(count))
    BY <1>11 DEF Batch, ProcessQueue
  <2> HIDE DEF Goal
  <2> QED
    BY <1>9, <2>1
<1>12. ASSUME LiftPreservation PROVE Goal
  <2>1. ProcessBatch(Pending)
    BY <1>12 DEF LiftPreservation
  <2> HIDE DEF Goal
  <2> QED
    BY <1>9, <2>1
<1>13. Kept => Goal
  OBVIOUS
<1>14. reserve' # reserve \/ (assets' = assets /\ recap) => Goal
  OBVIOUS
<1> HIDE DEF Kept, Goal
<1> QED
  BY <1>1, <1>5, <1>6, <1>7, <1>8, <1>10, <1>11, <1>12, <1>13, <1>14, MoneyTouched

\* PriceKept: apart from requests, reserve releases and recapitalisations,
\* whose callers set the price, no step lowers what a share is worth.
THEOREM SharePriceKept == Spec => PriceKept
<1>1. VaultsInv /\ [Next]_vars =>
        [\A v \in Vault :
           \/ waiting' # waiting \/ reserve' # reserve
           \/ assets' = assets /\ recap
           \/ (assets'[v] + 1) * (supply[v] + VirtualShares)
                >= (assets[v] + 1) * (supply'[v] + VirtualShares)]_vars
  BY PriceStep
<1> QED
  BY <1>1, VaultsInvariant, PTL DEF Spec, PriceKept
=============================================================================
