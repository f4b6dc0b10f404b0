----------------------------- MODULE EventStore -----------------------------
(***************************************************************************)
(* The in-memory event store of backend/audit/event-store.ts, behind the   *)
(* settlement, evidence, hold and waiver services.  append has no await    *)
(* in it, so it is one step of whoever calls it; it is modelled as an      *)
(* operator from the old list of events to the new one.  The list is that  *)
(* of one tenant: every lookup of the store is by tenant first.            *)
(*                                                                         *)
(* A hash identifies its event, so it is the event's position; 0 stands    *)
(* for GENESIS_HASH.  lastHashByChain is a function of the list (the last  *)
(* event whose chain it is) and is not kept twice.                         *)
(***************************************************************************)
EXTENDS Lists, FiniteSetsExt

CONSTANTS Aggregate,     \* aggregates named by callers (draw requests)
          NoAggregate,   \* the caller names none
          NoKey          \* the caller sends no idempotency key

ASSUME AggregatesAreNamed == Aggregate \cap {NoAggregate, "TENANT", "DRAW_REQUEST:"} = {}

\* (a bug) One chain for the whole tenant, whatever the aggregate.
chainLookup_Tenant(input) == "TENANT"

\* The chain an event is hashed into: without an aggregate, the tenant's own.
chainLookup(input) == IF input.aggregate = NoAggregate THEN "TENANT" ELSE input.aggregate

\* The aggregate written on the event: without one, a draw request with no id.
stored(input) == IF input.aggregate = NoAggregate THEN "DRAW_REQUEST:" ELSE input.aggregate

\* The predecessor of the next event of a chain.
lastHashByChain(events, chain) ==
  Max({0} \cup {i \in DOMAIN events : events[i].chain = chain})

\* A key that was used for this type of event returns the first event.
isDuplicate(events, input) ==
  /\ input.key # NoKey
  /\ \E i \in DOMAIN events : events[i].key = input.key /\ events[i].type = input.type

append(events, input) ==
  IF isDuplicate(events, input) THEN events
  ELSE LET chain == chainLookup(input)
       IN  Append(events, [type      |-> input.type,
                           about     |-> input.about,
                           aggregate |-> stored(input),
                           key       |-> input.key,
                           chain     |-> chain,
                           previous  |-> lastHashByChain(events, chain),
                           hash      |-> Len(events) + 1])

\* The events of an aggregate in their order.
getByAggregate(events, aggregate) ==
  filter(events, {i \in DOMAIN events : events[i].aggregate = aggregate})

\* The events of a view link up, from the genesis hash on.
verifyChain(view) ==
  \A i \in DOMAIN view : view[i].previous = IF i = 1 THEN 0 ELSE view[i - 1].hash

\* What the services send: no aggregate and no key.
Plain(type, about) ==
  [type |-> type, about |-> about, aggregate |-> NoAggregate, key |-> NoKey]
=============================================================================
