# Verification of the Abundance Protocol

TLA+ models of the parts of this repository that hold money, rights or goods
over several steps and several actors, the TLC runs that check them on small
instances, and TLAPS proofs of what matters most for every instance. Paths are
relative to `src/src/` unless they say otherwise.

## 1. Inventory

| Component | State | Operations | What is hard | What makes it correct |
|---|---|---|---|---|
| Manufacturing orders (`manufacturing/orders.ts`) | `orders` map: status, escrow id, tracking ids, completed milestones, passports | create, submit, approve, fund, startProduction, reportProgress, completeMilestone, reportShipping, confirmDelivery, raiseDispute, resolveDispute, cancel | async handlers that await the escrow, the tracking service and the mint between a test and the write that relies on it; later statements that throw after earlier ones have written | a milestone is paid once; no more passports than items; a marked milestone is a released one |
| Escrows (`manufacturing/escrows.ts`) | `pendingEscrows`: status, milestonesCompleted | createEscrow, releaseMilestone, raiseDispute, resolveDispute, refundBuyer | the release awaits its transaction between the test of the counter and its increment | counter and payments agree; refunded funds are not released |
| Tracking (`manufacturing/tracking.ts`) | record per product: stage, complete; verified actors | initializeTracking, recordCheckpoint, registerActor | identifiers that depend on the millisecond; stage 99 for disputes | a checkpoint moves its record forward, an order is complete only when it is paid |
| Passports (`manufacturing/passports.ts`) | minted tokens | mint, transfer, service record | one awaited transaction per item | as many passports as items |
| DAO (`dao/`) | rows of PostgreSQL: treasury, proposals, votes, members, movements | mint/remove member, propose, vote, deposit, execute, verifyConsistency | concurrent transactions, row locks, rollbacks, BIGINT values that arrive as text | balance = deposits − spends; a proposal is booked once; what is executed is carried by its votes |
| DAO organisations, teams, nodes (`dao/modules/{org,team,node}-crud.ts`) | rows of organisations, members, teams, nodes and their links to DAOs | create, addMember, removeMember, createTeam, register, joinDAO, updates | two inserts in one transaction; requests for one slug at once; upserts | an organisation comes with its owner and once, whatever answer is lost |
| DAO commit-reveal (`dao/commit-reveal.ts`) | files below the home directory | commitProposal, commitVote, verifyCommit | nothing but the hash | a file that was written is found under its hash |
| Governance engine (`governance/engine.ts`) | proposals with running tallies, delegations and their reverse index, balances, treasury | registerBalance, setDelegation, createProposal, startVoting, castVote, tallyVotes, executeProposal, recordDeposit, recordSpend | long legal sequences: delegate, vote, change, revoke, vote again; instants where two periods meet; a treasury spent from outside | tallies = votes; no circular delegation; no voter who also delegated; what passed was carried and is paid |
| Lightning (`payments/lightning/`, `lnd*.ts`, `lightning-v2.ts`) | active streams, hash-locked contracts; otherwise the Lightning node's | createInvoice, payInvoice, executePaymentSplit, streamPayment, stopStream, createHTLC, settle, cancel | sequential payments, any of which may fail; a consumer that stops asking | the parts of a split are all paid or reported; a stopped stream pays nothing more |
| HODL invoices (`payments/hodl/`) | in-memory store: preimage, status | create, route (with timeout), settle, cancel | subscription that outlives its timeout; settle against cancel; the store is lost in a crash | funds are settled only if held and never both settled and returned |
| Credits, Strike (`payments/credits.ts`, `strike.ts`) | none | HTTP calls | outside services | – |
| Tasks and daemon (`tasks/`, `daemon/`, `shared/event-bus.ts`) | active and completed tasks; event bus | post, bid, assign, start, complete, verify; subscriber that pays on completion | completion repeated, payment before verification, events | a task is paid once and after verification |
| Consensus (`consensus/`, `verification/`) | rounds: votes, status, quorum; mempool | createRound, receiveVote, proposeVerification, submitProof | repeated votes, votes after the timeout, an id known too late | a round is passed exactly with a quorum of approvals |
| Reputation (`reputation/`) | scores, metadata, IP table | initialize, task results, slash, decay, updateStake, addresses | recalculation over penalties and bans; a node initialised twice | a ban is for good (it is not: section 4); the table agrees with the addresses |
| Training (`training/coordinator.ts`) | jobs, workers, checkpoints | distribute, collect, aggregate, checkpoint, recover | interval, loop and recovery overlap at awaits; overloaded methods | a checkpoint is of the epoch it says |
| Sandboxes (`sandbox/`, `vm/`, `security/firecracker*`) | tables of machines, bound GPUs, host files, mounts and chains | createVM, execute, destroy, timeout, evict, harden, pinCPU, overlay | limits tested before an awaited launch; timers that act by id; command sequences cut off or interleaved | the limit is passed by overlap only; every machine leaves; measures are a prefix of their order; the host is as the calls left it |
| Lightning hardening (`security/lightningHardening.ts`) | hot wallet, paid hashes, pending multi-signature spends | sweep, markInvoicePaid, proposeSpend, addSignature, executeIfThresholdMet | balances read before an await; a broadcast awaited before its removal | balance never negative; a spend broadcast once |
| Network hardening (`security/networkHardening.ts`) | limiters, leader and vote history, pins | a check per message, peer, vote or list | windows and their restarts; equivocation over several batches; groups found by comparing few pairs | no window beyond its limit; a double vote is reported; a quorum that passes is spread |
| Mesh (`mesh/`, `db/peer-store.ts`) | node, handlers, listeners, tables of peers and experts | start, stop, subscribe, publish, announcements, cleanings | an await between the test for a handler and its registration; restarts, second starts; entries that age | a message is handled once; a route names peers heard of lately |
| Mesh inference (`mesh-llm/`) | GPU peers, jobs | announcements, selectPeers, executeWithConsensus, executeDirect, fallback | prices announced again while a job runs; node ids that peers share or leave out | a job costs no more than its budget |
| Agents (`agents/`) | status, timers, queue of splits, proposals | start, stop, pause, resume, cycles | a stop, a failure or a second start at any await of a cycle | one loop; a split credited once; nothing executed below quorum before its end |
| Code registry and deduplication (`code*/`) | blocks, counts | ingest, clear, setThreshold, register | the embedding is awaited between two look-ups, and a clear may come between | every call ends in a block or a duplicate |
| Identity, audit, optimizer, CLI, routes, services | tables, files, prompts | – | I/O, cryptography, heuristics | – |

How they interact. `services/core.ts` constructs the components; the daemon's
routes and the event bus connect them. `ManufacturingOrders` calls escrow,
tracking and passports directly and awaits each. The governance engine and the
DAO persistence are two separate implementations of voting; no call links them.
A completed task is published on the event bus, the daemon's subscriber pays it
through the Lightning service; consensus and verification publish on their own.

Everything hard to test is listed line by line under `hazards` in
`PROJECT.json`, with the properties that address it or the reason for none.

## 2. Plan

Done, in this order, because this is where money moves under concurrency:

1. `Escrow`, `Tracking`, `Manufacturing`: orders against escrows, tracking and
   mint.
2. `TreasuryLedger` (abstract), `DaoTreasury` (transactions and locks), and the
   proof that the second implements the first.
3. `Governance`: votes, delegation, timelock and treasury.
4. `HodlInvoice`: the invoices of this process against the node that holds the
   payments, with timeouts, lost answers and restarts.
5. `TaskPayments`: tasks and what the event bus pays for them; run together with
   `HodlInvoice` by `MCPayments`.

6. The protocols between nodes and the checks on them: `Consensus`,
   `Reputation`, `Training`, `LightningHardening`, `LightningStreams`,
   `RateLimits`, `VoteAudit`, `PeerDiversity`, `SafetyChecks`, `Agents`, run
   together by `MCProtocols`.
7. What runs on one machine: `Sandbox`, `Jailer`, `Firecracker`, `VmHardening`,
   `HostCalls`, `MeshInference`, `MeshNode`, `MeshTables`, `CodeDedup`, `DaoOrgs`,
   `DaoNodes`, run together by `MCMachines`.

8. The proofs: `DaoTreasuryProofs`, `GovernanceProofs`, `ManufacturingProofs`,
   `HodlInvoiceProofs`, `TaskPaymentsProofs`, `ProtocolsProofs`, `MachinesProofs`,
   with the lemmas about sums, folds and filters they share in `FoldLemmas`.

With them the plan is done: every invariant the runs check is a theorem. What is
left to TLC is said at the end of section 5.

## 3. Modules

Every variable and action is mapped to its lines in `PROJECT.json` (`map`).
Operators introduced by "A fault" are deliberately wrong variants of the
definition that follows them; no specification uses them. They serve to show
that each property notices the bug.

**`Escrow`, `Tracking`** hold the state and the operations of one service each,
without a next-state relation. An operation that awaits is cut in two: what it
tests before the await and what it writes after. `paid[e][i]` counts the release
transactions sent, so that the counter of the code can be compared with them.

**`Manufacturing`** composes them. `call[c]` is the continuation of one
invocation of an async handler: where it is suspended, on which order, escrow or
product. JavaScript runs one segment at a time, so a segment between two awaits
is one action, with every write it makes. An await on something that answers
later (a simulated contract call of 100 ms, a mint) may be overtaken by anything;
an await on an already finished promise only yields to the microtask queue, and
no timer is served before that queue is empty (`MicrotasksDrained`). A statement
that throws ends the call with what was already written. `FieldCheckpoint`,
`Register` and `Refund` are the public methods of the two services that others
than the order service may call.

**`DaoTreasury`** models PostgreSQL at READ COMMITTED: the step that takes a
`SELECT ... FOR UPDATE` lock reads the row, the COMMIT makes all writes of the
transaction visible and frees the locks, `Abort` is ROLLBACK for any reason
(failure, lost connection, crash of the process). `isMember` is a query before
the transaction and therefore a step of its own. `Authorise` is that query,
`Mint`, `Propose` and `CastVote` are the requests that start with it. Values of
BIGINT columns reach the code as text; `StringGreater` is what `amount >
treasury` does to them. `daos.quorum` is compared as the percentage it is,
`100 * votes >= members * quorum`: the code rounds the number of votes needed up,
which is the same except where floating-point division puts it above a whole
number. `factory.vote` tests the membership of the DAO it is told, which need not be
that of the proposal; there is one DAO here, and the vote of somebody who is not a
member is the one `CastVote` may make after `RemoveMember`.

**`TreasuryLedger`** is what the treasury promises: deposits add, each proposal
subtracts its amount at most once, the balance covers what is spent.

**`Governance`** is the engine in its full mode, which both service containers
construct. Its methods are synchronous: one action each. `now` counts instants.
`Reaches` states the outcome of the walk along the delegations as "every set
closed under delegation that contains the start contains v", which the proof can
use and TLC can evaluate. Voting power is the square root of a capped balance;
the constants only admit balances whose capped value is a square, so that powers
are whole numbers. `castVote`'s optional argument `totalVotingPower` is left out:
it can only lower the balance that the request states, which is already any
member of `Balances`. A proposal may be created without a recipient
(`addressed`): its execution then pays nothing and succeeds all the same. The
test that an executed proposal was started is implied
by its status.

**`HodlInvoice`** has two sides. `node` is the invoice at the Lightning node, an
external service of which only what `src/` relies on is modelled: an invoice is
opened, held when it is paid, confirmed when the preimage is revealed, or
cancelled. (The code asks for it with `createInvoice` and the hash as `id`, and not
with `createHodlInvoice`; the model takes the code at its word that a hold invoice
of that hash is what it gets.) Also, a subscription starts with the current state and gets every later
one, in order. `store` and `preimages` are the two maps of the process. An
awaited call is sent, served and answered in three steps; `CallFails` stands for
a refusal and for a request or an answer that was lost, between which the code
cannot tell. `wait[w]` is a `routePayment` promise: its timer, its subscription,
the updates on their way and its answer. `Crash` empties everything but the node.

**`TaskPayments`** has the two maps of the `TaskManager` and, in `job`, the
invocations of the daemon's subscriber to `task.completed`: one step per awaited
call of the Lightning service. The event bus is synchronous up to the first await
of a subscriber, so that `CompleteTask` includes it. Amounts are left out: they
are three fixed products of the budget. What is paid is counted in `shares`.

The modules that follow share no state with one another, as their code does not.

**`Consensus`.** A verification is two steps, the proposal and its evaluation
a tenth of a second later; between them votes and timers may come for any round whose
id is known. `verdicts` keeps what was answered.

**`Reputation`** scales scores to `0..Top`. Every recalculation may return any
level: the properties rest on what is written over what, not on the formula.
`strikes` and `inits` are history.

**`Training`** has the documented loop as one coroutine (`driver`), the interval
and an operator beside it. Of the workers only their number matters, since no
statement that runs ever makes one fail.

**`LightningHardening`**: invoices by their age class, the multi-signature spends
with `calls` in their broadcast, sweeps that test before the fee is awaited and
subtract after, penalty transactions with the watchtowers they reach.
**`LightningStreams`**: a stream is an asynchronous generator; `at` says where
it is suspended, and its consumer may leave it there for ever.

**`RateLimits`** keeps `admitted`, the times of all admitted calls, beside the
window of each limiter. **`VoteAudit`** and **`PeerDiversity`** call pure
functions on lists that grow one element a step. **`SafetyChecks`** has the
checks without state: one call on each input, `check`, `input`, `answer`.

**`Agents`** keeps what is in progress in `cycles`, by the steps between its
awaits; `timers` still pending after a stop are part of the state.

**`Sandbox`, `Jailer`, `Firecracker`**: a creation is a test, an await and a
registration. What a timer or a clean-up does later it does to whatever has the
id then. **`VmHardening`** and **`HostCalls`** are sequences of host commands:
one step each, any of which may fail and end its call.

**`Jailer`**: `bindVFIO` is public and may be called without a VM (`BindDirectly`).
**`HostCalls`** has one kind of calls a behaviour (`kind`), beside the
registrations and the ends of VMs, which all of them meet: an id may be
registered again, for a new process or the same, while a call for the entry
before is still in progress, and the record the call writes at its end is that of
the entry it began with. Every command may fail, the removal of a filter's file
included, which the code swallows.

**`MeshNode`** tells the nodes that were started, their subscriptions, their
listeners and the wrapper's handlers apart: they live for different times. A
second `start` without a stop replaces `present` and leaves the first node
running with its listeners; `stop` awaits and then forgets the node there is by
then. The assignment of a node and its own start are one step. **`MeshTables`**
counts ages in minutes; the timer of the minute (`due`) exists once `Attach`, the
`attach` or `start` of the code, has been called, and the tables are filled and
read without it. **`MeshInference`** announces, selects and charges; the peer of
a running job is the object that was selected, whatever the table holds by then.
A verifier is charged at the price of the first that has its node id
(`FirstNamed`), as `find` does, and node ids may be equal or absent.

**`CodeDedup`** takes the likeness of two embeddings from a table; `Likeness` in
`MCMachines` has the two cases that matter, equal code that rounding keeps below
one and code embedded before and after the model was loaded.

**`DaoOrgs`, `DaoNodes`**: one step per statement, a transaction from its first
insert to COMMIT or ROLLBACK. The COMMIT and its answer are two steps, since the
answer may be lost (`CommitAnswered`).

`MC*` modules give the constants values. `MCPayments`, `MCProtocols` and
`MCMachines` each hold parts that share no state: `focus` chooses the one that
moves, the others keep their initial state, so that a run checks each part by
itself; the constant `Parts` of the first two says which parts a run is about.
Their properties hold trivially in the other parts. Some join the properties of
several parts under one name: `AuditsReport` (the types of all parts,
`SpreadChecked`, `CollusionReported`, `SingleUse`), `NothingAfterTheEnd`
(`NoBroadcastAfterOne`, `NoTickAfterStop`), `ChargesBounded` (the types of all
parts and `WithinBudget`) and `GuestsAccounted` (`HardenedByPrefix`,
`TrackedUntilGone`). `HostAsLeft` joins what the four kinds of host commands leave.

**`Filters`** has the one operator that `Array.prototype.filter` is, `Kept`, a
fold instead of the library's `SelectSeq`, which the provers cannot open.

## 4. Runs

| Run | Instance | Shows |
|---|---|---|
| `manufacturing` | 1 order of 2 items, 2 concurrent calls, 2 escrows, 2 product ids | `PaidOnce`, `CounterMatchesPayments`, `PassportsMatchItems`, `CompletedIsPaid` |
| `manufacturing_refund` | same | finding: `NoReleaseAfterRefund` is violated |
| `manufacturing_marked` | same | finding: `MarkedIsReleased` is violated |
| `dao_treasury` | 2 keys, 2 proposals of 4 and 10, 2 clients, deposits of 5 up to 10 | `TreasuryBalanced`, `SpentOnce`, `ExecutedCarried`, refinement of `TreasuryLedger`, no deadlock |
| `dao_treasury_funds` | same | finding: `RejectedForLackOfFunds` is violated |
| `governance` | 3 voters, 1 spend of 2, balances 1 and 9 below a cap of 4, periods of 1 | `TallyMatchesVotes`, `DelegationSound`, `NoDelegatorVotes`, `PassedByThreshold`, `ExecutedIsPaid`, no deadlock |
| `governance_quorum` | same | finding: `QuorumReached` is violated |
| `payments` | 1 invoice, 2 calls, 2 waits, 1 restart; in turn 1 task, 3 completions, 2 workers, 2 invocations of the subscriber | `StatusHappened`, `PaidIsConfirmed`, `PreimageKept`, `RouteAnswered` (liveness), `PaidPerCompletion`, `CompletedStays`, no deadlock |
| `payments_escrow` | the task alone | finding: `PaidAfterVerified` is violated |
| `protocols` | ten parts, the sizes in `MCProtocols.cfg` | `PassedIffQuorum`, `RegistryAgrees`, `WindowsBounded`, `EquivocatorsCaught`, `ChecksKeepTheirWord`, `DoneOnce`, `AuditsReport`, `NothingAfterTheEnd` |
| `protocols_bans` | reputation alone, same sizes | finding: `BannedForGood` is violated |
| `machines` | eleven parts, the sizes in `MCMachines.cfg` | `LimitPassedByOverlap`, `BoundAsNamed`, `ChargesBounded`, `HandledOnce`, `RoutesAreFresh`, `HostAsLeft`, `GuestsAccounted`, `OwnedFromTheStart`, `IngestsCounted`, `EveryVmLeaves` (liveness) |

Bounds and why they are enough.

- Orders share no state except the actor table, so one order is the general
  case. Two calls at a time cover every race between two handlers; each can
  follow another, so that longer histories arise. Two concurrent `fundOrder`
  calls are what creates more than one escrow, so two escrows and two product
  identifiers are all that two slots can use. Two items make the mint loop
  resume. `FieldStages` holds the dispute stage: it is the one that changes what
  later checkpoints may do. The run does not look for deadlock: an order that
  is settled, cancelled or frozen has no next step.
- Two clients make every pair of transactions interleave; each of the two
  proposals can be executed by both. The amounts make the comparison of
  numerals right and wrong in both directions, and `MaxDeposited` is large
  enough to fund either proposal and too small to fund both.
- Three voters are what a chain of delegations needs (a circle of three is not
  a direct one), and what a delegatee needs to hold the power of two others.
  The balance of 9 lies above the cap, 1 below. `MaxTime` lets every period
  (each one instant long) elapse; deposits of 1 up to 2 make the treasury short,
  then sufficient. Operator spends (`RecordSpend`) compete for it.
- Keys, clients and voters are symmetric, and so are the nodes and addresses of
  `Reputation` in `protocols`: no operator tells them apart, and these runs check
  no liveness, so the reduction is sound.

- Invoices share no state, nor do tasks, so one of each is the general case. Two
  calls let a settlement meet a cancellation or another settlement; two waits
  listen to one payment, of which one may have timed out. Three completions and
  two invocations let the payments for one task overlap and follow each other.
- The parts of `protocols` and `machines` have two of what may collide (rounds,
  tasks, guests, callers, slots, creators) and three where two of them must
  meet a third (jails, which share one GPU; GPU peers, of which one is asked and
  two verify, under one node id or two). One VM name is enough for the host
  commands, whose paths are made of it, with two registrations; `MaxStarts` bounds
  the nodes that are made and the stops that overlap. Two routing
  strategies are run, `least-loaded` and `closest`; on the three announcements the
  other two order the peers as `closest` does. The fallback to the local model is
  run with one of them, since it is read only where no peer was found. One slash
  bans in `protocols`, two in `protocols_bans`. Four peers make a quorum of three
  with one faulty, three votes are enough to repeat one and still fail it. The
  clock of the rate limiters runs over two windows and a part of a third. Six
  minutes are one more than the longest lifetime of a table. Lists of the audits
  are as long as the first that a check refuses. `MaxMounts`, `MaxRules`,
  `MaxHandlers`, `MaxStarts`, `MaxIngests`, `MaxEarned`, `MaxBeats`, `MaxTimers`
  and their like cap counters that the code lets grow. Identical calls in
  progress are counted, not merged: `MaxAtOnce` lets two evictions, or an
  eviction and an unregistration, of one guest overlap; `MaxDestroys` is one.
  An answer of the model has as many tokens as asked for, or more, because
  Ollama is not told the limit. No deadlock is looked for:
  a broadcast treasury spend or a check that has answered is an end.
- `ChecksKeepTheirWord` is a bounded comparison: every input of the sets in
  `MCProtocols.cfg`, which hold the values on both sides of each limit.

Fairness. Only `payments` and `machines` assume any. `payments`: weak fairness of `RouteTimeout`, since
`setTimeout` fires whatever else happens. Nothing is assumed of the node, of the
answers or of the payer, so `RouteAnswered` rests on the timer alone, as in the
code. `machines`: `SandboxFairness`, that the timer a machine is registered with
fires, and that a clean-up ends, which waits for a timer of its own;
`EveryVmLeaves` rests on both. A launch may hang, and a command. Everywhere
else a handler is called from outside and nothing retries or schedules the next
call, so no eventuality follows from the code; a suspended call may hang for
ever (a transaction that is never confirmed).

Findings. Six runs show the code doing something other than what its own
documentation says; each is quoted in `PROJECT.json` (`findings`):

- An escrow that was refunded or is in dispute still releases milestones to the
  manufacturer: `releaseMilestone` looks at the milestone counter only.
- A milestone is marked before its release, which may throw: it then counts as
  done, is unpaid, and can never be completed again.
- The treasury and the amount are compared as text, so that a funded proposal
  is rejected "for lack of funds" (4 of 10) and an unfunded one goes on to fail
  on the CHECK constraint (10 of 5).
- The quorum of the governance engine is configured and never read.
- A node that was struck out is initialised again and is back: its metadata is
  written anew without the ban that three comments call permanent.
- Tasks are paid on completion: by ordinary invoices, whether or not the work is
  ever verified, and once more for each repeated completion.

## 5. Proofs

Checked by `tlapm`; they hold for all constants that satisfy the assumptions
named in the modules (`DaoAssumption`, `GovernanceAssumption`,
`ManufacturingAssumption` and so on): sets of any size, any amounts, periods and
bounds. The assumptions say that a value standing for "nothing" is not one of the
things it stands beside, that numbers are numbers, that sets whose elements are
counted are finite (members, slots of agents, sandboxes, ingests, processes of
Firecracker, GPU peers, voters), and that the scores of experts have a greatest
one. The bounds of the runs are constants like the others, natural numbers, so
that the theorems hold for every bound. Every assumption is evaluated by TLC on
the run that uses its module.

**`FoldLemmas`.** `MapThenSumSet` of the community modules is a fold defined by
CHOOSE over functions on the subsets of a set. The lemmas show that the function
exists and is unique (induction over finite sets is carried out on a least
counterexample, since the induction rules of the library take an operator), that
the sum does not depend on the order of elements, and how it changes when one
element changes, enters or leaves. The same for `FoldLeft` over sequences, for
`Kept` (which elements remain, how many, distinct ones stay distinct), and for
counting the places of a sequence. Further what the checks on statistics need:
the square of a sum is at most as many times the sum of the squares as there are
summands (`SumSquares`), a value is from the mean of n values at most the root of
n - 1 times their deviation (`FromMean`), two parts of a sum overlap in what they
exceed it by (`SumOverlap`), and a set whose values repeat no more than m times
has at least its size over m values (`FibresBound`).

**`DaoTreasuryProofs`.** The inductive invariant is `TypeOK` with `LockInv`,
`TreasuryBalanced`, `SpentOnce` and `ExecutedCarried`. None of the three
properties is inductive alone: a commit writes a balance that was computed from
one read earlier. `LockInv` says what the locks give in between: a client whose
request has read a row holds its lock, the row is still what was read, and a
decision to execute is backed by the votes, which cannot change while the
proposal is locked. Two clients cannot hold one lock, so a step of one client
leaves what `LockInv` says of the others alone. From it follow the theorems
`LocksHold`, `BalancedAlways`, `SpentOnceAlways`, `ExecutedCarriedAlways`,
`TypeCorrect` (with the treasury never negative) and `ImplementsLedger`: under
`balance <- treasury` and `spent <-` the executed proposals, every step is a
deposit, a spend or a stutter of the ledger.

**`GovernanceProofs`.** The inductive invariant `IInv` is `Shape` (domains of the
functions, sets in which delegations and amounts lie) with `DelegationSound`,
`NoDelegatorVotes`, `PassedByThreshold` and `ExecutedIsPaid`, which speaks of the
proposals that name a recipient. `NoNewCircle` is the
heart: if the walk from d does not come to v, pointing v at d closes no circle.
`Reaches` fails through some closed set that contains d and not v; intersecting
a would-be circle with it, or taking it away, gives a circle of the old
delegations. `NoDelegatorVotes` needs its own induction: `castVote` refuses
delegators and `setDelegation` refuses voters, but only of proposals in voting,
so that it rests on `VotesAreCast`, also a part of `IInv`: a proposal that is not
yet in voting has no votes.
`PassedByThreshold` is preserved since no ballot reaches the tallies of a
proposal that is no longer in voting.

The books are a second invariant, `BooksInv`: `TypeOK` with `TallyMatchesVotes`,
finite reverse indices and finite sides of a vote. Types and sums need each
other: a tally stays a natural number when a ballot is taken out of it only
because it is the sum of the ballots, and a power is a number only because it is
the root of finitely many capped balances. Theorems `TallyMatchesVotesAlways`
and `GovernanceTypeCorrect`.

**`ManufacturingProofs`.** The invariant says what a suspended invocation is
entitled to. `CallsSound`: its order, escrow and product exist. `ReleasesNext`
and `PaidIsMarked`: a suspended release owns its milestone, the order has it
marked, the escrow's counter is still on it and no other call is suspended on it;
`EscrowsOwned`, `CompletedByOne`: an escrow belongs to one order and a milestone
is completed by one call. From these `PaidOnce` and `CounterMatchesPayments`
although the counter is tested before an await and moved after it.
`DeliveredOnce` and `MintsCounted` do the same for the mint loop and
`PassportsMatchItems`. `CompletedIsPaid` is an action property: the step that
completes an order follows a release of the last milestone, and what a suspended
release has paid stays paid (`ReleasedPaid`), so that its escrow has released all
three; an order whose release throws keeps its status.

**`HodlInvoiceProofs`.** `HodlInv`: calls that were served and updates on their
way name only states the node has been in (`CallsServed`, `UpdatesHappened`), and
the node's states only move forward, so that what arrives late is still true.
With it `StatusHappened`, `PaidIsConfirmed` and, as an action property,
`PreimageKept`.

**`TaskPaymentsProofs`.** `PaidPerCompletion` adds the shares paid and the
invocations on their way to pay one. It is inductive with `JobsSound`: an
invocation is of a task, and those of one task are finitely many, since each of
them began with a completion. `CompletedStatus` (a task in the map of the completed
ones is completed or verified) carries `CompletedStays`, an action property.

**`ProtocolsProofs`**, a section for each part.

- Consensus: `PassedIffQuorum` is inductive with the shape of the rounds, since
  approvals never fall.
- Reputation: a node is banned exactly when the slashes on its record reach the
  threshold (`BansCounted`); the registry names known nodes only (`RegistryKnown`),
  and agrees with the addresses.
- Training: its types.
- Lightning hardening: an invoice was accepted as often as its hash is among the
  paid ones (`InvoicesCounted`); a spend of which a broadcast has ended is deleted
  (`SpendInv`), which `NoBroadcastAfterOne`, an action property, rests on.
  Streams: a stream that was stopped has no entry that lets its loop go on, one
  that was not has it as long as it is under way (`EntryOf`); with it
  `NoTickAfterStop`.
- Rate limiters: within the window that ends now no more calls were admitted than
  the limiter has on record (`RecordsSuffice`); of the relay, whose windows do not
  slide, the count bounds what was admitted since the restart, and a window begun
  before held at most one quota until then. Any length of window, any limit.
- Vote audit: the history holds the first vote of each round, and somebody was
  reported exactly if a vote that was seen differs from it (`Watched`); it is also
  the invariant of the loop over a batch, proved over the unfolded fold.
- Agents: `LoopInv`, as long as nobody started the agent across a run of before
  there is one timer or one cycle that will set one, never both, and an agent at
  rest has let go of its timers; a pause or failure is the only way to lose the
  loop. `WorkInv`: a split being worked on is at one drain; what a drain has yet
  to do is pending and at no other drain; a drain past its credit has credited.
  `NextSplit` is the step all its cases come down to. `PollsInv`: what has passed
  had its quorum or its end. Together `DoneOnce`.

- Vote audit, collusion: the history of votes is counted by the set of voters of
  each proposal (`PatternsKept`). A set of voters who pairwise vote together in
  more than 80 % is within the group of each of its pairs (`CliqueFound`). Two of
  a group who were never compared each share more than 80 % with one voter of the
  pair it grew from, and so more than 60 % with one another, by `SumOverlap`
  (`GroupsHold`). With it `CollusionReported`.
- Peer diversity: pruning is a fold; after its first k peers it has kept each
  subnet as often as it came, up to the cap. A quorum that passes has no region
  and no ASN above three tenths of its voters, hence more than three of each
  (`FibresBound`). With it `SpreadChecked`.
- Safety checks: they keep no state, so that the invariant `Asked` says what was
  called, on what, and what was answered, and `ChecksKeepTheirWord` is a fact for
  each operator that answers. One is about a variance: of fewer than eleven
  intervals of a clock none lies three deviations from the mean (`FromMean`). A
  reported history of payments has so few amounts that one comes four times
  (`FibresBound`).

The types of all parts are theorems too. Where a type bounds a count, the bound
needs an argument: the count of a relay passes its maximum by refusals only.

`PartsBehave` shows that a behaviour of `MCProtocols` is a behaviour of each of
the parts, so that what is proved of a part holds of the whole, and
`AuditsReportAlways` joins the audits with the types.

**`MachinesProofs`**, likewise.

- Sandbox: the launches in flight are finitely many and at most `overlap`; a
  creation found fewer vms registered than the limit (`OverlapBounds`).
- Jailer: `BoundAsNamed` is inductive beside the types: a VM keeps its GPU and
  stays stopped for ever. On hardware a GPU that is bound stays with vfio-pci,
  since a failed binding is tried only for GPUs that are not bound.
- Firecracker: what forgets an id late, the timer of an eviction or the end of an
  unregistration, was begun for a process of that id (`EvictedIsOf`,
  `ClosedWasDismissed`). `VmHardening`: a call that has come to a step has all
  steps before it in force, but for flushed rules (`CallsByPrefix`).
- Host commands: an invariant for each kind of calls. A filter's file is there
  while a call is at the steps that use it, unless a command failed (`FilterInv`);
  what is returned is sealed but while a remount is to come (`OverlayInv`); a call
  that appends a rule has set the default drop of its process's chain, and a flush
  leaves the policy (`PolicyInv`); the one call that pins an id is for the entry on
  record, or for an earlier one that then has nothing on record (`PinInv`).
- Mesh node: the listener of a topic comes with its entry, which is made once, so
  that no second node gets one (`OneListener`); on the first node what is wanted is
  subscribed unless it was dropped (`FirstNode`). Mesh tables: once the timer has
  run it runs in every minute, and an entry is at most a minute older than its
  table's lifetime while it is due, and else not older (`TableInv`). Inference: a job
  keeps the records of the peers it asked, whose estimate is within its budget
  (`EstimatesHold`); the charge is the estimate's sum if each verifier is the first
  of its node id.
- Deduplication: the calls in flight are in the total before they are among blocks
  or duplicates, but for those a clear forgot (`CallsCounted`). Organisations: the
  slug of a creation in flight is that creation's alone (`Alone`), and it has its
  row exactly after the COMMIT (`Fits`).

The types of these parts come from invariants of their own, beside the ones
above (`SandboxTyped`, `FirecrackerTyped`, `InferenceTyped` and so on): a task of
a sandbox has no more destructions in progress than were called for or timers
have fired, and a timer fires once; a signal to a Firecracker process turns an
eviction that has still to come into a timer, so that what is in progress for an
id stays within its bound, as a sum over all processes; no peer is in the table
of GPU peers twice, through announcements, replacements and the health check's
filter (`PeersApart`), so that the table is never longer than the peers are many.
`ChargesBoundedAlways` joins them with `WithinBudget`.

Only model-checked: the liveness properties `RouteAnswered` and `EveryVmLeaves`,
ENABLED and the absence of deadlock, which are out of the reach of the proof
system used here. The properties of the six findings are refuted, not proved.
The provable modules use no RECURSIVE operator.

## 6. Not modelled

Contents: prices, specifications, telemetry, hashes, signatures, log texts and
timestamps that no guard reads. Within the modelled components: read-only
queries; quality reports; passports after their mint (transfer and verification
answer from literals); `createDAO` (initial state) and the `verifyConsistency`
query; the simplified mode of the governance engine; the broadcast channel of
consensus, which nothing connects to the engine; the verification of images and
snapshots; the liquidity and routing limits of channels, whose balances no code
changes; parsing and maturity of code. Whole components: key derivation and the
hardened wallet (cryptography that nothing in `src/` uses), the reports of
`audit/`, the optimizer (random search over a function given from outside), the
HTTP clients of Credits and Strike, and the command line, routes and services,
which pass one call on. Each has its reason under `components` in `PROJECT.json`.

## 7. Observations

What the models showed of the code beside the findings. The models have the
behaviour, and the properties are stated so as to allow it, or say nothing of it:
none of them vouches for what follows.

Against what a document or a comment says:

- Consensus: a verification confirms a result by votes never, since its round's
  id leaves the engine with the answer; `consensus/engine.ts:89-92` says
  "Returns verified=true if quorum is reached", `verification/mesh.ts:3` that results
  are verified "via PBFT consensus".
- Training: after the first aggregation the status stays `aggregating`, so that the
  interval saves checkpoints of epoch 0 only; `training/coordinator.ts:428` and `819`
  promise checkpoints of the current state, taken automatically, to recover from.
- Relay limiter: its window restarts, so that twice the limit of
  `security/networkHardening.ts:593` ("Maximum requests per minute") passes within one
  minute. `WindowsBounded` states the double.
- Leaders: one who alone has led is never reported as a bias, which GAP 12
  ("Leader Monopoly Prevention", `networkHardening.ts:1031`, and `detectLeaderBias`,
  1107-1114) is to detect. `ChecksKeepTheirWord` says nothing of a lone leader.
- DHT entries: `networkHardening.ts:91`, `95` and `127` speak of Ed25519 signatures; the
  code signs and verifies with a SHA-256 digest, and for an Ed25519 key the signing
  throws (`SignDHTEntry` answers `NoSignature`). No property rests on it.
- DAO agent: `agents/dao-agent.ts:33` calls its callback "on quorum reached"; it is
  called also for a proposal past its end that fewer than the quorum voted for.
  `DoneOnce` states the quorum or the end. A passed proposal is executed again on
  every poll.
- Governance: a treasury spend without a recipient is executed and pays nothing
  (`governance/engine.ts:480`).
- Mesh inference: verifiers are looked up by a node id that peers choose, share or
  leave out (`mesh-llm/adapter.ts:209`), so that two of them are charged at the price
  of the first, and the job may cost more than its budget.

Where no document says what should be:

- Consensus: repeated votes of a node count each time; a vote after the timeout
  passes a failed round.
- Reputation: the penalty of a failed task is overwritten by the next
  recalculation; initialising a node again leaves its old address in the registry.
- Tracking: two starts of production in one millisecond put a record back to its
  first stage.
- Treasury: two calls may broadcast one spend as long as both are in progress.
- Streams: stopping a stream that has ended leaves an entry for ever;
  `cancelHTLC` cancels settled contracts as well.
- Sandboxes: launches in flight pass the limit, by as many as there are besides
  the first. Jails: stopping one VM frees a GPU another one uses. Evictions kill
  five seconds late and forget by id. `rollbackToKnownGood` and
  `configureMinimalDevices` throw at every call.
- Host commands: a VM registered again under an id has no cores on record while
  the cgroup, whose path is made of the id, keeps those of the one before; a failed
  removal of a filter's file is swallowed.
- Mesh: `MeshNetwork.start` throws in the discovery's `attach`, so that the timers
  that clean the tables of experts are never set there; a node's own announcements
  carry no models, so that its peers never find it capable; a topic that one user
  unsubscribes is silent for all, and after a second start nothing is heard.
- Agents: a failure or a pause ends the loop for good, and a start from there
  leaves a heartbeat behind; an agent started again before its first run has ended
  may credit a split twice.
- Deduplication: the total forgets the calls in flight at a `clear`; one code may be
  stored twice when its embedding changed meanwhile; a block of the registry
  replaces another one of the same millisecond.
- Organisations: a COMMIT whose answer is lost throws although the organisation is
  there; `addMember` may demote the owner and `removeMember` remove him; members of a
  team need not belong to its organisation; the revenue shares of a node need not
  add up to 100.
- DAO: a member removed between the test and the vote still votes.
- Governance: a delegation revoked after the delegatee has voted leaves the
  delegated power in the ballot, and the former delegator votes too.
