------------------------ MODULE CapitalPreservation ------------------------
(***************************************************************************)
(* The paired vaults (contracts/vault/DIBSVault.sol, SentinelVault.sol,    *)
(* CatalystVault.sol) and the manager that puts both into preservation     *)
(* mode and takes them out of it (CapitalPreservationManager.sol), wired   *)
(* as the first steps of docs/DEPLOYMENT.md wire them: each vault is the   *)
(* other's pair, the manager is the preservation manager of both, and the  *)
(* liquidity tests have passed.  A call is one action: a call that reverts *)
(* changes nothing.                                                        *)
(*                                                                         *)
(* The ERC-4626 base, the asset token and the share token's transfers are  *)
(* OpenZeppelin's and are modelled from how the vaults use them.  Counters *)
(* that no code reads (retained earnings, the recapitalisation balance and *)
(* history, durations, last-check values) are left out.  The timelock only *)
(* delays calls of the setters, which can also be called directly.         *)
(***************************************************************************)
EXTENDS Integers, Sequences, FiniteSets, FiniteSetsExt

CONSTANTS
  User,         \* holders other than the administrator
  Admin,        \* deployer and administrator of the vaults and the manager
  VirtualShares,\* 10 ^ _DECIMALS_OFFSET
  MinSharesOut, \* MIN_SHARES_OUT
  Amount,       \* bound: asset amounts a call may name
  ShareAmount,  \* bound: share amounts a call may name
  InitialRatio, \* minJuniorRatioBps as the deployment sets it
  Ratio,        \* bound: other values of minJuniorRatioBps
  Cap,          \* bound: values of depositCap; 0 is no cap
  Expiry,       \* bound: values of seedLockExpiry; 0 is for ever
  Target,       \* bound: values of reserveTarget and reserveShortfall
  MaxAssets,    \* bound: assets and reserve of a vault
  MaxQueue,     \* maxQueueSize, which also bounds the queue
  MaxTime,      \* bound: block.timestamp
  MaxAdmin      \* bound: other calls by the administrator in a behaviour

Vault == {"Sentinel", "Catalyst"}
Holder == User \cup {Admin}

\* The minimum junior ratios that the setter accepts.
BasisPoints == 1..10000

ASSUME VaultConstants ==
  /\ Admin \notin User /\ IsFiniteSet(User)
  /\ VirtualShares \in Nat \ {0} /\ MinSharesOut \in Nat
  /\ Amount \subseteq Nat \ {0} /\ ShareAmount \subseteq Nat \ {0}
  /\ InitialRatio \in BasisPoints /\ Ratio \subseteq BasisPoints
  /\ Cap \subseteq Nat /\ Expiry \subseteq Nat /\ Target \subseteq Nat
  /\ MaxAssets \in Nat /\ MaxQueue \in Nat /\ MaxTime \in Nat /\ MaxAdmin \in Nat

VARIABLES
  assets,      \* the asset token's balance of each vault
  shares,      \* balanceOf
  supply,      \* totalSupply
  minSeed,     \* minimumSeedDeposit
  seed,        \* seedShares; 0 before the vault is seeded
  expiry,      \* seedLockExpiry
  cap,         \* depositCap
  minRatio,    \* minJuniorRatioBps
  paused,
  active,      \* preservationModeActive
  tests,       \* liquidityTestsPassed
  reserve,     \* segregatedReserve
  queue,       \* the Sentinel's withdrawalQueue
  queued,      \* totalQueuedAssets
  suspended,   \* the Catalyst's distributionsSuspended
  toReserve,   \* its yieldDestination is the segregated reserve
  recap,       \* its recapitalizationEnabled
  shortfall, target, auto,  \* the manager's reserveShortfall, reserveTarget, autoTriggerEnabled
  now,         \* block.timestamp
  calls        \* the administrator's calls that MaxAdmin bounds

money == <<assets, shares, supply>>
seeding == <<minSeed, seed, expiry>>
config == <<cap, minRatio, paused, tests>>
waiting == <<queue, queued>>
junior == <<suspended, toReserve, recap>>
manager == <<shortfall, target, auto>>
vars == <<money, seeding, config, active, reserve, waiting, junior, manager, now, calls>>

Init ==
  /\ assets = [v \in Vault |-> 0] /\ reserve = [v \in Vault |-> 0]
  /\ shares = [v \in Vault |-> [h \in Holder |-> 0]] /\ supply = [v \in Vault |-> 0]
  /\ minSeed \in {[v \in Vault |-> n] : n \in Amount} /\ seed = [v \in Vault |-> 0]
  /\ expiry = [v \in Vault |-> 0]
  /\ cap = [v \in Vault |-> 0] /\ minRatio = [v \in Vault |-> InitialRatio]
  /\ paused = [v \in Vault |-> FALSE] /\ active = [v \in Vault |-> FALSE]
  /\ tests = [v \in Vault |-> TRUE]
  /\ queue = <<>> /\ queued = 0
  /\ suspended = FALSE /\ toReserve = FALSE /\ recap = FALSE
  /\ shortfall = 0 /\ target \in Target /\ auto = TRUE
  /\ now = 1 /\ calls = 0

-----------------------------------------------------------------------------
\* An administrator's call; the bound is the model's.
Administers == calls < MaxAdmin /\ calls' = calls + 1

\* Assets come into a vault; the bound is the model's.
Fits(v, n) == assets[v] + n <= MaxAssets

Credit(v, n) == [assets EXCEPT ![v] = @ + n]

\* _convertToShares and _convertToAssets over totalAssets and totalSupply,
\* rounded down; Up rounds up.
ToShares(v, n) == (n * (supply[v] + VirtualShares)) \div (assets[v] + 1)
ToAssets(v, n) == (n * (assets[v] + 1)) \div (supply[v] + VirtualShares)
Up(n, d) == (n + d - 1) \div d

\* Mutant: a withdrawal burns shares rounded down.
ToSharesUp_Down(v, n) == ToShares(v, n)

ToSharesUp(v, n) == Up(n * (supply[v] + VirtualShares), assets[v] + 1)
ToAssetsUp(v, n) == Up(n * (assets[v] + 1), supply[v] + VirtualShares)

\* computeJuniorRatioBps, the same figure seen from either vault.
RatioOf(sentinel, catalyst) ==
  IF sentinel + catalyst = 0 THEN 0 ELSE (catalyst * 10000) \div (sentinel + catalyst)

JuniorRatio == RatioOf(assets["Sentinel"], assets["Catalyst"])

\* lockedSharesOf the administrator: the seed is locked unless it has expired.
SeedLocked(v) == seed[v] > 0 /\ (expiry[v] = 0 \/ now < expiry[v])

LockedShares(v, h) ==
  IF h = Admin /\ SeedLocked(v)
  THEN IF shares[v][h] >= seed[v] THEN seed[v] ELSE shares[v][h]
  ELSE 0

\* Mutant: the lock looks at the balance only.
FreeShares_Balance(v, h) == shares[v][h]

FreeShares(v, h) == shares[v][h] - LockedShares(v, h)

Mint(v, h, n) ==
  /\ shares' = [shares EXCEPT ![v][h] = @ + n]
  /\ supply' = [supply EXCEPT ![v] = @ + n]

-----------------------------------------------------------------------------
SetMinimumSeedDeposit(v, n) ==
  /\ Administers
  /\ seed[v] = 0
  /\ minSeed' = [minSeed EXCEPT ![v] = n]
  /\ UNCHANGED <<money, seed, expiry, config, active, reserve, waiting, junior, manager, now>>

\* seedVault: the shares are computed after the assets have come in, so the
\* seed is counted in the price it pays.
SeedVault(v, n, e) ==
  LET minted == (n * (supply[v] + VirtualShares)) \div (assets[v] + n + 1)
  IN /\ seed[v] = 0
     /\ n >= minSeed[v]
     /\ e # 0 => e > now
     /\ minted > 0
     /\ Fits(v, n)
     /\ assets' = Credit(v, n)
     /\ Mint(v, Admin, minted)
     /\ seed' = [seed EXCEPT ![v] = minted]
     /\ expiry' = [expiry EXCEPT ![v] = e]
     /\ UNCHANGED <<minSeed, config, active, reserve, waiting, junior, manager, now, calls>>

\* extendSeedLock: a permanent lock may be given any expiry.
ExtendSeedLock(v, e) ==
  /\ Administers
  /\ seed[v] > 0
  /\ expiry[v] # 0 => e = 0 \/ e > expiry[v]
  /\ expiry' = [expiry EXCEPT ![v] = e]
  /\ UNCHANGED <<money, minSeed, seed, config, active, reserve, waiting, junior, manager, now>>

\* wouldDiluteJuniorRatio.
WouldDilute(n) ==
  LET s == assets["Sentinel"] + n
  IN s + assets["Catalyst"] > 0 /\ RatioOf(s, assets["Catalyst"]) < minRatio["Sentinel"]

\* _deposit, for deposit and mint.
DepositPair(v, h, n, s) ==
  /\ seed[v] > 0
  /\ s >= MinSharesOut
  /\ ~paused[v]
  /\ cap[v] > 0 => assets[v] + n <= cap[v]
  /\ active[v] /\ v = "Sentinel" => ~WouldDilute(n)
  /\ Fits(v, n)
  /\ assets' = Credit(v, n)
  /\ Mint(v, h, s)
  /\ UNCHANGED <<seeding, config, active, reserve, waiting, junior, manager, now, calls>>

Deposit(v, h, n) == DepositPair(v, h, n, ToShares(v, n))
MintShares(v, h, s) == DepositPair(v, h, ToAssetsUp(v, s), s)

\* _withdraw, for withdraw and redeem.
WithdrawPair(v, h, n, s) ==
  /\ ~paused[v]
  /\ s <= FreeShares(v, h)
  /\ ~active[v]
  /\ n <= assets[v]
  /\ assets' = [assets EXCEPT ![v] = @ - n]
  /\ shares' = [shares EXCEPT ![v][h] = @ - s]
  /\ supply' = [supply EXCEPT ![v] = @ - s]
  /\ UNCHANGED <<seeding, config, active, reserve, waiting, junior, manager, now, calls>>

\* withdraw and redeem are limited by maxWithdraw and maxRedeem.
Withdraw(v, h, n) ==
  /\ n <= ToAssets(v, shares[v][h])
  /\ WithdrawPair(v, h, n, ToSharesUp(v, n))

Redeem(v, h, s) ==
  /\ s <= shares[v][h]
  /\ WithdrawPair(v, h, ToAssets(v, s), s)

\* transfer of shares: the check of _update.
Transfer(v, h, g, s) ==
  /\ h # g
  /\ s <= FreeShares(v, h)
  /\ shares' = [shares EXCEPT ![v][h] = @ - s, ![v][g] = @ + s]
  /\ UNCHANGED <<assets, supply, seeding, config, active, reserve, waiting, junior, manager, now,
                 calls>>

\* Assets sent to a vault outside deposit, by anybody; for the state kept
\* here, depositToRecapitalization does the same.
Donate(v, n) ==
  /\ Fits(v, n)
  /\ assets' = Credit(v, n)
  /\ UNCHANGED <<shares, supply, seeding, config, active, reserve, waiting, junior, manager, now,
                 calls>>

-----------------------------------------------------------------------------
\* triggerPreservationMode and liftPreservationMode called by the administrator
\* or the emergency role: the ratio is the caller's word.
TriggerDirectly(v) ==
  /\ Administers
  /\ ~active[v]
  /\ active' = [active EXCEPT ![v] = TRUE]
  /\ UNCHANGED <<money, seeding, config, reserve, waiting, junior, manager, now>>

LiftDirectly(v) ==
  /\ Administers
  /\ active[v] /\ tests[v]
  /\ active' = [active EXCEPT ![v] = FALSE]
  /\ UNCHANGED <<money, seeding, config, reserve, waiting, junior, manager, now>>

\* checkAndTrigger, by anybody.  It reverts when one of the calls it makes
\* does: the Catalyst is in preservation mode already, has a lower minimum, or
\* has its distributions suspended.
CheckAndTrigger ==
  /\ auto /\ ~active["Sentinel"]
  /\ JuniorRatio < minRatio["Sentinel"]
  /\ ~active["Catalyst"] /\ JuniorRatio < minRatio["Catalyst"]
  /\ ~suspended
  /\ shortfall' = IF target > reserve["Sentinel"] THEN target - reserve["Sentinel"] ELSE 0
  /\ active' = [v \in Vault |-> TRUE]
  /\ suspended' = TRUE /\ toReserve' = TRUE
  /\ UNCHANGED <<money, seeding, config, reserve, waiting, recap, target, auto, now, calls>>

\* queueWithdrawal takes the assets and the shares the holder names.
QueueWithdrawal(h, n, s) ==
  /\ active["Sentinel"]
  /\ Len(queue) < MaxQueue
  /\ queue' = Append(queue, [user |-> h, assets |-> n, shares |-> s, processed |-> FALSE])
  /\ queued' = queued + n
  /\ UNCHANGED <<money, seeding, config, active, reserve, junior, manager, now, calls>>

Pending == {i \in DOMAIN queue : ~queue[i].processed}

\* Mutant: the newest requests first.
Batch_Newest(count) == {i \in Pending : Cardinality({j \in Pending : j >= i}) <= count}

\* The first requests that are pending, at most count of them.
Batch(count) == {i \in Pending : Cardinality({j \in Pending : j <= i}) <= count}

AssetsIn(B) == SumFunctionOnSet([i \in DOMAIN queue |-> queue[i].assets], B)
SharesIn(B, h) ==
  SumFunctionOnSet([i \in DOMAIN queue |-> IF queue[i].user = h THEN queue[i].shares ELSE 0], B)

\* The loop of processQueue: every request in turn must pass _withdraw, or
\* none is processed.  All requests only take, so each passes in its turn iff
\* they do together.
ProcessBatch(B) ==
  /\ B # {} => ~paused["Sentinel"]
  /\ \A h \in Holder : SharesIn(B, h) <= FreeShares("Sentinel", h)
  /\ AssetsIn(B) <= assets["Sentinel"]
  /\ queue' = [i \in DOMAIN queue |-> [queue[i] EXCEPT !.processed = @ \/ i \in B]]
  /\ queued' = queued - AssetsIn(B)
  /\ assets' = [assets EXCEPT !["Sentinel"] = @ - AssetsIn(B)]
  /\ shares' = [shares EXCEPT !["Sentinel"] = [h \in Holder |-> @[h] - SharesIn(B, h)]]
  /\ supply' = [supply EXCEPT !["Sentinel"] =
                  @ - SumFunctionOnSet([i \in DOMAIN queue |-> queue[i].shares], B)]

ProcessQueue(count) ==
  /\ ~active["Sentinel"]
  /\ ProcessBatch(Batch(count))
  /\ UNCHANGED <<seeding, config, active, reserve, junior, manager, now, calls>>

\* The manager's test of its reserve; its subtraction reverts below zero.
ShortfallTest ==
  shortfall = 0 \/ (shortfall <= target /\ reserve["Sentinel"] >= target - shortfall)

\* Mutant: the queue is left to a later call.
LiftPreservation_QueueLeft ==
  /\ \A v \in Vault : active[v] /\ JuniorRatio >= minRatio[v] /\ tests[v]
  /\ ShortfallTest
  /\ suspended
  /\ active' = [v \in Vault |-> FALSE]
  /\ suspended' = FALSE /\ toReserve' = FALSE
  /\ UNCHANGED <<money, waiting, seeding, config, reserve, recap, manager, now, calls>>

\* liftPreservation: both vaults leave preservation mode, distributions
\* resume and the whole queue is processed, or nothing happens.
LiftPreservation ==
  /\ \A v \in Vault : active[v] /\ JuniorRatio >= minRatio[v] /\ tests[v]
  /\ ShortfallTest
  /\ suspended
  /\ active' = [v \in Vault |-> FALSE]
  /\ suspended' = FALSE /\ toReserve' = FALSE
  /\ ProcessBatch(Pending)
  /\ UNCHANGED <<seeding, config, reserve, recap, manager, now, calls>>

-----------------------------------------------------------------------------
\* depositToReserve of a vault, whose assets the reserve stays a part of.
DepositToReserve(v, n) ==
  /\ Administers
  /\ Fits(v, n) /\ reserve[v] + n <= MaxAssets
  /\ assets' = Credit(v, n)
  /\ reserve' = [reserve EXCEPT ![v] = @ + n]
  /\ UNCHANGED <<shares, supply, seeding, config, active, waiting, junior, manager, now>>

\* Mutant: the release looks at the ratio only, not at the mode.
ReleaseReserve_Preserved(v, n) ==
  /\ Administers
  /\ JuniorRatio >= minRatio[v] /\ tests[v]
  /\ n <= reserve[v] /\ n <= assets[v]
  /\ reserve' = [reserve EXCEPT ![v] = @ - n]
  /\ assets' = [assets EXCEPT ![v] = @ - n]
  /\ UNCHANGED <<shares, supply, seeding, config, active, waiting, junior, manager, now>>

\* releaseReserve: the ratio is that before the release.
ReleaseReserve(v, n) ==
  /\ Administers
  /\ ~active[v] /\ JuniorRatio >= minRatio[v] /\ tests[v]
  /\ n <= reserve[v] /\ n <= assets[v]
  /\ reserve' = [reserve EXCEPT ![v] = @ - n]
  /\ assets' = [assets EXCEPT ![v] = @ - n]
  /\ UNCHANGED <<shares, supply, seeding, config, active, waiting, junior, manager, now>>

SuspendDistributions ==
  /\ Administers
  /\ ~suspended
  /\ suspended' = TRUE /\ toReserve' = TRUE
  /\ UNCHANGED <<money, seeding, config, active, reserve, waiting, recap, manager, now>>

ResumeDistributions ==
  /\ Administers
  /\ suspended
  /\ suspended' = FALSE /\ toReserve' = FALSE
  /\ UNCHANGED <<money, seeding, config, active, reserve, waiting, recap, manager, now>>

\* routeYield moves no tokens; only the reserve is kept here.
RouteYield(n) ==
  /\ Administers
  /\ toReserve
  /\ reserve["Catalyst"] + n <= MaxAssets
  /\ reserve' = [reserve EXCEPT !["Catalyst"] = @ + n]
  /\ UNCHANGED <<money, seeding, config, active, waiting, junior, manager, now>>

SetYieldDestination(b) ==
  /\ Administers
  /\ toReserve' = b
  /\ UNCHANGED <<money, seeding, config, active, reserve, waiting, suspended, recap, manager, now>>

EnableRecapitalization ==
  /\ Administers
  /\ recap' = TRUE
  /\ UNCHANGED <<money, seeding, config, active, reserve, waiting, suspended, toReserve, manager,
                 now>>

\* executeRecapitalization issues shares; it brings no assets in.
ExecuteRecapitalization(s) ==
  /\ Administers
  /\ recap
  /\ Mint("Catalyst", Admin, s)
  /\ UNCHANGED <<assets, seeding, config, active, reserve, waiting, junior, manager, now>>

SetMinJuniorRatio(v, r) ==
  /\ Administers
  /\ minRatio' = [minRatio EXCEPT ![v] = r]
  /\ UNCHANGED <<money, seeding, cap, paused, tests, active, reserve, waiting, junior, manager,
                 now>>

SetDepositCap(v, c) ==
  /\ Administers
  /\ cap' = [cap EXCEPT ![v] = c]
  /\ UNCHANGED <<money, seeding, minRatio, paused, tests, active, reserve, waiting, junior, manager,
                 now>>

\* emergencyPause and emergencyUnpause.
SetPaused(v, b) ==
  /\ Administers
  /\ paused' = [paused EXCEPT ![v] = b]
  /\ UNCHANGED <<money, seeding, cap, minRatio, tests, active, reserve, waiting, junior, manager,
                 now>>

\* setLiquidityTestResult of one vault, or of both through the manager.
SetLiquidityTestResult(V, b) ==
  /\ Administers
  /\ tests' = [v \in Vault |-> IF v \in V THEN b ELSE tests[v]]
  /\ UNCHANGED <<money, seeding, cap, minRatio, paused, active, reserve, waiting, junior, manager,
                 now>>

\* setReserveShortfall, setReserveTarget and setAutoTrigger of the manager.
ConfigureManager(s, n, b) ==
  /\ Administers
  /\ shortfall' = s /\ target' = n /\ auto' = b
  /\ UNCHANGED <<money, seeding, config, active, reserve, waiting, junior, now>>

Tick ==
  /\ now < MaxTime
  /\ now' = now + 1
  /\ UNCHANGED <<money, seeding, config, active, reserve, waiting, junior, manager, calls>>

HolderStep ==
  \E v \in Vault, h \in Holder :
    \/ \E n \in Amount : Deposit(v, h, n) \/ Withdraw(v, h, n)
    \/ \E s \in ShareAmount : MintShares(v, h, s) \/ Redeem(v, h, s)
    \/ \E g \in Holder, s \in ShareAmount : Transfer(v, h, g, s)

QueueStep == \E h \in Holder, n \in Amount, s \in ShareAmount : QueueWithdrawal(h, n, s)

VaultStep ==
  \E v \in Vault :
    \/ \E n \in Amount : SetMinimumSeedDeposit(v, n) \/ Donate(v, n)
    \/ \E n \in Amount, e \in Expiry : SeedVault(v, n, e)
    \/ \E e \in Expiry : ExtendSeedLock(v, e)
    \/ \E n \in Amount : DepositToReserve(v, n) \/ ReleaseReserve(v, n)
    \/ TriggerDirectly(v) \/ LiftDirectly(v)
    \/ \E r \in Ratio : SetMinJuniorRatio(v, r)
    \/ \E c \in Cap : SetDepositCap(v, c)
    \/ \E b \in BOOLEAN : SetPaused(v, b)

JuniorStep ==
  \/ SuspendDistributions \/ ResumeDistributions \/ EnableRecapitalization
  \/ \E n \in Amount : RouteYield(n)
  \/ \E b \in BOOLEAN : SetYieldDestination(b)
  \/ \E s \in ShareAmount : ExecuteRecapitalization(s)

ManagerStep ==
  \/ CheckAndTrigger \/ LiftPreservation
  \/ \E V \in (SUBSET Vault) \ {{}}, b \in BOOLEAN : SetLiquidityTestResult(V, b)
  \/ \E n \in Target : ConfigureManager(n, target, auto) \/ ConfigureManager(shortfall, n, auto)
  \/ \E b \in BOOLEAN : ConfigureManager(shortfall, target, b)
  \/ \E count \in 0..MaxQueue : ProcessQueue(count)

Next == HolderStep \/ QueueStep \/ VaultStep \/ JuniorStep \/ ManagerStep \/ Tick

Spec == Init /\ [][Next]_vars

-----------------------------------------------------------------------------
(***************************************************************************)
(* Properties.                                                             *)
(***************************************************************************)

\* While the seed of a vault is locked nothing takes it from the administrator:
\* no withdrawal, redemption, transfer or processed request brings the
\* administrator's shares below the seed (or further below it).
SeedStays ==
  [][\A v \in Vault : shares'[v][Admin] >= LockedShares(v, Admin)]_vars

\* Nothing leaves a vault that is and stays in preservation mode, neither to
\* holders nor out of the reserve.
PreservedKeepsAssets ==
  [][\A v \in Vault : active[v] /\ active'[v] => assets'[v] >= assets[v]]_vars

\* The queue is served in order and its total is what is still owed: a request
\* that cannot be served keeps those behind it waiting.
QueueInOrder ==
  /\ \A i \in DOMAIN queue, j \in DOMAIN queue :
       i < j /\ queue[j].processed => queue[i].processed
  /\ queued = AssetsIn(Pending)

\* When the manager takes both vaults out of preservation mode, no request is
\* left, distributions are on, and the junior ratio holds after the requests
\* were paid as well.
LiftSettles ==
  [][(\A v \in Vault : active[v] /\ ~active'[v]) =>
       /\ Pending' = {}
       /\ ~suspended'
       /\ \A v \in Vault : JuniorRatio' >= minRatio[v]]_vars

\* What one share is worth, virtual shares and asset included, never falls by
\* somebody else's deposit, withdrawal, seeding or transfer.  Requests, reserve
\* releases and recapitalisations are priced by their callers.
PriceKept ==
  [][\A v \in Vault :
       \/ waiting' # waiting \/ reserve' # reserve
       \/ assets' = assets /\ recap
       \/ (assets'[v] + 1) * (supply[v] + VirtualShares)
            >= (assets[v] + 1) * (supply'[v] + VirtualShares)]_vars

\* README.md: lifting preservation mode requires the reserve shortfall to be
\* addressed.
LiftFillsReserve ==
  [][(\A v \in Vault : active[v] /\ ~active'[v]) =>
       shortfall = 0 \/ reserve["Sentinel"] >= target]_vars
=============================================================================
