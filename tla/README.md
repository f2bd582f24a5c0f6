# Verification of the ALICA host

TLA+ models of the ALICA v2 kernel: the broker that runs plugin code in worker
processes, the in-process host that activates and tears down plugins, the trust
store, and the calls, streams, events and grants between plugins. Every definition that models
code names its source lines in `PROJECT.json` (`map`). Paths below are relative
to the repository (`src/`).

## 1. The system

| Component | Source | State | Operations | Talks to |
|---|---|---|---|---|
| Scheduler | `packages/kernel/src/g6/scheduler.ts` | contexts (parent, outcome, deadline), records, slots, queue, wire budget, offers | admit, start, offer, acknowledge, finish, fail, reaped, timers | one per session; ancestry crosses sessions |
| Physical session | `g6/session.ts` | child process, pidfd, endpoints, carrier, control stream | launch, open, pump, fail, dead | its scheduler, its worker |
| Worker transport | `g6/worker-transport.ts` | contexts, last id, control sequence | start, pump, fail, close | the session, over three kinds of socket |
| Control stream | `g6/session.ts`, `g6/worker-transport.ts`, `g6/wire.ts` | sequence fences, heartbeat nonce, misses | handshake, ping, pong | both ends of a session |
| Host lifecycle | `packages/kernel/src/index.ts` | instances, dependencies, effects, registrations, calls, scope tree | discover, activate, provide, effect, createScope, destroyScope, dispose, updateTrust, shutdown | trust store, plugin code |
| Trust store | `packages/kernel/src/trust.ts` | material, high-water mark in memory and in a file | constructor, fresh, update, persist | file system, clock |
| Contract calls | `packages/acap-contracts/src/runtime.ts`, `Host.bind` | pending tables, attempts, idempotency ledger | invoke, cancel, close, unary | provider handlers, host |
| Contract streams | `runtime.ts` (`BoundedChannel`, `ContractSession.stream`), `acap-contracts/src/stream.ts` | channel, credit window, pump, reader; sequence numbers of the records | next, return, push, finish, fail, grant, take, close, streamOutcomes, readStreamOutcomes | the attempts of contract calls, the provider's iterator |
| Grants and audit log | `packages/kernel/src/index.ts` | grants with their derivation, audit records | issueGrant, authorize, revokeGrant, secret, record, drainAudit | scopes, instances, clock |
| Events | `packages/kernel/src/index.ts` | subscriptions with queue and pump, sequence numbers | subscribe, emit, pump | grants, plugin handlers |
| Profiles | `packages/kernel/src/index.ts` | the plan, the ids of the profile | plan, startProfile | lifecycle |
| Packages | `packages/kernel/src/trust.ts` | none of its own | verifyPackage, accepted | trust store |
| Frame codec, resolver's preference, schemas | see section 7 | | | |

What is hard here. The host and the broker are single JavaScript threads, so
methods do not interrupt each other, but everything that awaits is a coroutine
that may be resumed in a changed world. One `finish()` cascades synchronously
through contexts on several sessions. A descriptor sent to a worker cannot be
called back. Workers stall, lie and die; writes fail, machines lose power, clocks
are set back; timers race with late answers. `PROJECT.json` lists the places where
this matters most, each with its line (`hazards`); section 5 describes further ones.

What makes each component right:

- Scheduler: capacity is neither lost nor given away twice; nothing stale starts;
  no slot idles; what a dead process may still hold is not reused; families end
  together and alone.
- Session: descriptors in flight stay charged, and nothing else of a call that is over;
  honest peers never trip the checks meant for forged ones; every `open()` settles;
  no child escapes the count, and failed ones are reaped.
- Lifecycle: nobody is ACTIVE on a provider that is gone; DISPOSED means clean;
  effects are cleaned in reverse order; closed scopes are empty; everything ends.
- Trust: nothing older than what was adopted is ever in force again, and no check
  passes before a time that was saved, over crashes and failed writes.
- Calls: tables are exact; cancellation that comes first wins; no nested call
  outlives its parent; a retry has no second effect.
- Streams: every item in order, none lost or twice, one outcome, "complete" only at the
  true end; nothing produced ahead of the reader; a reader that waits is always woken.
- Grants and events: authority is looked at where it is used and does not return once
  gone; nothing queued is dropped silently; a hung handler holds up nobody else.
- Profiles: `startProfile()` settles, and one that failed leaves nothing active.
- Packages: what is verified is, file by file, what an unrevoked key signed.

## 2. Modules

| Module | Models | Used by |
|---|---|---|
| `Scheduler` | all schedulers of a supervisor | `Session` (EXTENDS), `SchedulerProofs`, `MCScheduler` |
| `Session` | sessions and workers, composed with `Scheduler` | `SessionProofs`, `MCSession` |
| `Control` | the control stream of one session | `ControlProofs`, `MCControl` |
| `Lifecycle` | instances and scopes of the host | `Profiles` (EXTENDS), `LifecycleProofs`, `MCLifecycle` |
| `Profiles` | `plan()` and `startProfile()`, composed with `Lifecycle` | `LifecycleProofs`, `MCProfiles` |
| `Trust` | the trust store | `Packages` (EXTENDS), `TrustProofs` |
| `Packages` | package verification over the trust store | `TrustProofs`, `MCTrust` |
| `Calls` | unary contract calls | `Streams` (EXTENDS), `CallsProofs` |
| `Streams` | streamed calls beside the unary ones | `Outcomes` (EXTENDS) |
| `Outcomes` | a stream carried to a far reader as numbered records | `StreamsProofs`, `MCStreams` |
| `Channel` | abstract: what a stream promises its reader | `Streams`, `Outcomes` (INSTANCE) |
| `Grants` | grants, secrets and the audit log | `Events` (EXTENDS) |
| `Events` | event delivery over the grants | `EventsProofs`, `MCEvents` |

A definition named in a comment that starts with `Mutant:` is a faulty variant of
the definition after it. It is used by no specification; the project replaces
the original by it to make sure that the property would notice.

### Scheduler
One action is one method call with all it triggers synchronously. `Settle` is
the common tail: outcomes are set for a family, records are released (or kept for
an offer in flight, or in quarantine), slots and frames are given back and the queues
drained. A context is named by its admission number; `line` is its chain of
parents; `lapsed` says that its deadline or authority is gone although nobody has
noticed. `Expire` and `Revoke` are the outside world.

`Session` refers to the same variables, so a session step either is a scheduler
step or leaves the scheduler alone: `ImplementsScheduler == Spec` states it and
the run `session_liveness` checks it. The specification of `Scheduler` is thus
the abstract specification of what the broker promises, and the theorems about
it carry over.

### Session
The broker and each worker are processes of their own. A broker step is one
callback or one iteration of the loops in `pump()`; `open()` is a coroutine whose
position is `opening[c]`. context-ready moves it to `answered` (`PumpReady`); that it
returns is a later step (`OpenReturns`), before which the context may end. What ends a
context is its deadline timer (`DeadlineFires`) or an abort signal of the consumer
(`Cancelled`); `DeadlinePasses` and `AuthorityLost` are what the broker has yet to
notice. `carrier`, `acks` and `unread` are the sockets. The
worker is modelled as `WorkerTransport` is written, but may also exit or stay
silent. `midturn` holds a session whose catch block is about to call `fail()`:
no other broker step comes in between.

### Control
Frames in both directions with their sequence numbers and nonces. Frames are
neither lost nor reordered (a stream socket), but either side may be slow. The
worker may trail by `Lag` heartbeats or stall for good.

### Lifecycle
`act[r]` is the stack of `activateTree` frames under `activate(r)`, `disp[i]`
the disposal of `i`, `tear[t]` a `destroyScope`. Coroutines interleave in any
order at their awaits; `turn` holds those that run and have not come to an await
yet, so that the synchronous prefix of a callee belongs to the step of its caller.
The first-in-first-out order of microtasks is not modelled: every order
is allowed, which includes the real one. The provider a requirement selects is
a constant (`Requires`); whether that provider is eligible is modelled
(`Selects`). A full audit log is the fault `"audit"`. The state RESOLVED lasts no
longer than a step. Scopes are objects, pairs of id and generation, because the
code keeps references to scopes whose id is used again. `Visible`, which the code decides by
walking up the parents, is stated without recursion: no set of scopes that is closed
on that way misses the provider's scope. `Only` is `filter()`, by the places of the elements
it keeps.

### Trust
A document stands for its digest; only documents with valid signatures are
listed, the others are rejected before anything happens. `durable` is the set of
contents that the state file may have after a loss of power. The clock is read once
per operation. The time of the last check that passed (`passed`) and the latest time that
was saved (`saved`) are ghosts. The two are kept apart because the code keeps
only the weaker of two promises: no check passes before a time that was *saved*
(`SavedTimesHold`, proved). That none passes before a time at which one *passed* is what
the baseline asks for, and is not so (section 5).

### Calls
`invoke()` is two steps: everything up to its await, including the provider's
ledger and the start of the handler, and everything after it. `outcome` is what
the race settled with, later what was returned. A handler that still runs may call
again, with its own attempt as the parent (the async-local `parents` store). The
error codes are left out. `Deny` stands for whatever makes `binding.authorize`
throw.

### Streams, Outcomes, Channel
A stream is one more kind of attempt: `prepare()`, the tables, deadline, parent and
cancellation are those of `Calls`, and the unary calls go on beside it. `stream[a]`
holds channel, credit window, pump and reader. The methods of `BoundedChannel` and
`CreditWindow` are operators on that record; an action is one call from outside or
the pump from one await to the next. `Effect` applies the callbacks: `abandoned()`
cancels the attempt, `terminal()` commits it. `cancel()` does not touch the channel;
`FailureReaches` is the later step in which the rejected promise does.

`Outcomes` puts `streamOutcomes`, a transport and `readStreamOutcomes` on top for the
attempts in `Bridged`. The transport may lose a record or deliver it twice; the
generators pull, so at most one record is under way.

`Channel` is the abstract specification: items in order, then one outcome. Both the
near reader (`ChannelIsKept`) and the far one (`FarChannelIsKept`) implement it,
under the refinement mappings `Promise` and `FarPromise` (`INSTANCE Channel WITH`).
The payloads are the numbers 1, 2, ... in the order of production, so that loss,
repetition and reordering show; an item that does not fit the schema is not
counted as sent.

### Grants and Events
A grant is named by its place in the order of issue. `Valid` follows the chain of
derivation with the conditions of the code; the properties use `Unbroken`, a definition
of their own over `Chain`. Instances are ACTIVE until they stop, and lose their grants
in that step; scopes close with all below them, which revokes every grant in them, and
return with a new generation: how they do so is the subject of `Lifecycle`.
The clock may be set to any time (`SetClock`), and `valid()` compares with it as it is.
`mark` is the time at which `fresh()` last passed, which precedes every
`authorize()`: a look at an earlier time fails (`Looks`) and stops every instance.
`audit` is the length of the log; `Admit` is a record whose failure refuses the
operation and `Note` one that only raises `auditUnavailable`.

In `Events` a pump runs from one await to the next in one step: `PumpTurns` refuses
what fails the checks and takes the first event that passes, `HandlerStarts` is the
microtask that checks again and calls the handler, and `HandlerEnds`,
`HandlerTimesOut` and `Unsubscribe` end the race. A handler that was given up stays
in `running`. `admitted` and `settled` are ghosts.

### Profiles
`startProfile()` is one more coroutine over the variables of `Lifecycle`. It may be
overtaken at each of its awaits by operators, plugins and timers. `Order` is the
depth-first order of `plan()`; the lock document and the explanations are left out.
Scopes of a profile hang below the root.

### Packages
A file stands for its bytes and their digest, an index text for its bytes, its parsed
form for the canonical digest. `Signed` relates keys to the bundles they
signed. `verifyPackage()` compares numbers and looks artifacts up; that this covers
every file is what `VerifiedIsSigned` checks, over every bundle of two
artifacts, duplicates included.

## 3. Runs

| Run | Instance | Properties |
|---|---|---|
| `scheduler_safety` | 2 sessions (symmetric), 3 contexts, 1 slot of each kind, queue 2 | `SlotAccounting`, `WorkConserving`, `FamilyEndsTogether`, `StartsInOrder`, `QuarantineHolds`, `OnlyOneFamilyEnds` |
| `session_worker` | 2 sessions (symmetric), 3 contexts, 1 ordinary and 1 nested slot, worker limit 2 (the sum of the slots, as 9 is in the code) | `InFlightIsCharged`, `CarrierIsMonotone`, `EndpointsAreOpen` (with the types) |
| `session_liveness` | 2 sessions under a limit of 1 process, 2 contexts whose deadlines pass, the first may lose its authority | `ChildrenAreCounted`, `OnlyPacketsAreCharged`, `ImplementsScheduler`, `EveryOpenSettles` (with the release of every record), `FailedSessionsAreReaped` |
| `session_cascade` | 2 sessions, 3 contexts | `UnrelatedContextsSurvive` is violated |
| `control_slow` | 7 heartbeats, 2 worker requests, lag 2 | `NumberedInOrder` (with the types), `StallIsNoticed` |
| `lifecycle_instances` | consumer and provider, one scope they may own, 1 operator; work that hangs until `bounded()` ends it, links that fail, trust that is lost, cleanups that fail, a full audit log | `DependentsFollow`, `DisposedIsClean` (with the types) |
| `lifecycle_scopes` | 3 scope ids, one instance with 2 effects, 1 operator, failing cleanups, revocation | `CleanedInReverse`, `ClosedIsEmpty` |
| `lifecycle_liveness` | a profile of consumer and provider with one scope, an operator that activates, unloads and tears down, code that throws and a full audit log | `FailedProfilesLeaveNothing`, `StartsSettle` (activations, disposals, shutdown and `startProfile()` all come to an end) |
| `lifecycle_shared` | two consumers of one provider | `DependencyErrorsAreFinal` is violated |
| `trust` | 4 policies (two of the same version, one with another root), 3 lists, 1 rotation, times 0..2; 2 index texts, 2 versions of a file, all bundles of 2 artifacts, 2 keys | `NoRollback`, `RootsAreChained`, `SavedTimesHold`, `VerifiedIsSigned` |
| `streams` | 2 attempts of which one may be a stream (the second is read through records), 2 ids (symmetric), 1 key with 2 payloads and calls without key, 2 items, capacity 1, times 0..1, at most one loss | `TablesAreExact` (with types and limits), `AnswersAreOwn`, `NoOrphans`, `NoSecondEffect`, `ChannelIsKept`, `FarChannelIsKept`, `DemandDriven`, `NobodyIsForgotten` |
| `events` | 2 instances, root and one child scope with 2 generations, 4 possible grants (one begins late, one expires early) of which 3 are issued, log of 2, 3 events, queue 2, 1 secret read, times 0..1 in any order | `NothingIsLost` (with the types), `HandlersAreSerial`, `AuthorityNeverReturns`, `UsesAreAuthorized`, `QueuesDrain` |

Deadlock is not checked where the system may come to rest: contexts, calls and
instances are bounded and every call may be over. The trust store never stops, and
its run checks deadlock.

Bounds. The caps of the code (4 slots, 64 queued, 9 contexts, 256 calls) are
constants that the runs set to 1 or 2, so that the limits are reached. Three contexts
are enough for a parent, its child on another session and a queued bystander;
two attempts for a call and its nested call, its retry, or another one that takes over
the request id, and for a stream beside a call, inside a handler or with a call inside its source. Two times are enough for a deadline and a retention to pass. Two
items distinguish loss from repetition; capacity 1 puts every limit of channel and
credit window next to its first use. Three events fill a queue of two behind one
that is being handled. Two artifacts are enough for a bundle that names one
path twice and leaves the other out. Two generations are enough for a scope to come
back under its name. Two times are enough for a grant to expire or begin and for the clock to be
set back. A limit of one process for two sessions makes a session that leaves the
count too early visible at once.

Five things no run reaches, which rest on theorems. The failure of a session below whose contexts another one
works, as a step of the schedulers (`ImplementsScheduler`): `session_liveness` has one process at a
time; that the cascade is right is in `scheduler_safety`, and the interleavings of two sessions in `session_worker`. A replayed value belongs to the same *caller*
(`AnswersAreOwn`): `streams` has one session. A queued event of a source below the root, whose scope is
closed and created again while it waits (`UsesAreAuthorized`): in `events` the source
is at the root. (The subscriber's scope is then at or below that scope and closes with it, so
its authority is gone as well.) Three instances in one chain of dependencies, and scope ids
used again under owners (`DependentsFollow`, `DisposedIsClean`, `ClosedIsEmpty`).

## 4. Fairness

- `Session`: continuations of `open()` run, time passes until the deadline that every context
  has (`admit()` caps it at 30 s), the deadline and offer timers fire, a signal reaches a child
  whose pidfd is owned (TERM and, 500 ms later, KILL) and its exit is observed. Nothing is
  assumed of the worker, and nothing of the consumer: whether it ever aborts is open, so
  that `EveryOpenSettles` rests on the timers alone.
- `Control`: the interval timer of the broker runs and it reads its socket.
- `Lifecycle`: promises that can settle do. Each coroutine is weakly fair. In
  `lifecycle_liveness` plugin code throws and does not hang; work that hangs, which
  `bounded()` ends, is in `lifecycle_instances`, for safety.
- `Profiles`: the same, and `startProfile()` goes on when what it awaits has settled.
- `Events`: microtasks run (`PumpTurns`, `HandlerStarts`) and the timer of `bounded()`
  fires. Nothing is assumed of handlers.
- `Scheduler`, `Trust`, `Packages`, `Calls`, `Streams` and `Outcomes` are checked for safety
  only. `NobodyIsForgotten` is the safety half of the readers' liveness: whoever waits,
  a timer or a rejected promise is still due.

## 5. What the violations show

- `session_cascade` (`g6/session.ts:494`): session A fails while session B is opening
  a child of a context of A. The child ends as UNAVAILABLE, the catch block of
  `open()` takes that for a failure of its own session, and B fails with
  everything on it.
- `lifecycle_shared` (`index.ts:949`): two consumers of one provider are activated at
  the same time. The second finds the provider ACTIVATING, throws
  FAILED_PRECONDITION and is FAILED for good, while the provider becomes ACTIVE.

Other behaviour that the models contain and that differs from what the documents or
comments say; no run is kept for it:

- `index.ts:1501`: `dispose()` cancels the calls of an instance in the step in which it becomes
  QUIESCING, and `destroyScope()` (line 1562) those of a scope, without waiting for anything.
  `specs/ALICA-NORMATIVE-BASELINE-v1.md:25` says that outstanding calls are cancelled at
  the configured deadline, and `specs/ALICA-KERNEL-API-v1.md:21` that quiesce waits for the
  operator timeout first. No property demands either.
- `index.ts:309`: `fresh(i)`, reached from an activation that was suspended while the package of
  `i` was revoked (`updateTrust()` disposes `i`, and `activateTree()` goes on to line 1030),
  disposes every instance of the cell. The baseline (line 25) confines the loss to the
  dependents of what lost its trust. That losses are local is therefore no property here.
- `trust.ts:251`: when the write fails, `fresh()` throws but keeps the new time in memory, so that a
  second call in the same millisecond passes without having saved it. After a restart
  with the clock set back `fresh()` passes at an earlier time. The baseline (line 49) asks
  that high-water times are persisted and that a step back invalidates freshness.
- `g6/session.ts:493`: a call that lapses between admission and offer is finished as
  UNAVAILABLE, which fails its session; the comment at line 334 says that expiry
  does not reach unrelated sibling work.
- `g6/worker-transport.ts:198`: the worker checks its table limit before it looks for
  endpoints the broker has closed, so at full occupancy an honest offer fails the session.
- `g6/session.ts:412`: a pong for the ping before the last one fails the session at once;
  `docs/g6/IPC-PROFILE.md:60` allows three missed responses.
- `index.ts:1030`: code of an instance that was disposed during `link()` is started
  all the same.
- `index.ts:1499`: an instance that was not ACTIVE is FAILED before its cleanup
  (`specs/ALICA-KERNEL-API-v1.md:19` says after).
- `index.ts:457`: with a full audit log `discover()` throws and leaves a DISCOVERED
  instance behind.
- `index.ts:1578`: a second `destroyScope()` removes by id, also an open scope that
  has taken the id over.
- `g6/session.ts:491`: `open()` may return a context that has ended: context-ready resolves its
  promise (line 437), and in the rest of the pump's turn, before the await resumes, its parent may
  finish or a frame may find it stale. The caller sees it at its first use of the context. What
  the broker keeps for such a call is the subject of `OnlyPacketsAreCharged`.
- `index.ts:547`: `valid()` reads `Date.now` as it is, so that an expired grant is valid again when
  the clock is set back. `inspect()` (line 1636) reports it so; every *use* comes after
  `fresh()`, which fails then (`AuthorityNeverReturns`).
- `index.ts:908`: when `createScope()` fails for a scope id that is taken, the undoing in
  `startProfile()` destroys the scope that had it, with whatever is active in it.
- `index.ts:891`: `#profileIds` is not cleared when a profile fails to start; from then on no
  other profile and no other instance can be started.
- `runtime.ts:286`: a handler that never settles keeps its ledger record for ever, because
  retention starts when the handler ends; `NoSecondEffect` needs the record meanwhile.
- `index.ts:348`: instances, generations and grants are never removed from their tables, so a
  long-lived cell reaches their limits.

## 6. Proofs

Eight modules hold theorems that TLAPS checks for every value of the constants
that satisfies the named assumptions. TLC has checked each inductive invariant on the
instance of a run (with the event in `Prompt` taken from a finite range).

| Module | About | Assumptions | Theorems |
|---|---|---|---|
| `SchedulerProofs` | `Scheduler` | `BoundsAssumption`, `SentinelAssumption`, `FinishCodesAssumption` | `TypeCorrect`, `SlotsAreExact`, `BudgetIsExact`, `NoIdleSlot`, `FamiliesEndTogether`, `RecordsAreHeld`, `RootsStartInOrder`, `QuarantineIsKept`, `UnrelatedWorkIsSafe` |
| `SessionProofs` | `Session` | those, `SessionAssumption`, `TransportCodesAssumption` | `SessionsImplementSchedulers`, `DescriptorsAreCharged`, `IdsRise`, `EndpointsAreExact`, `LateOffersAreReleased`, `ProcessesAreBounded` |
| `ControlProofs` | `Control` | `ControlAssumption` | `FencesAgree` |
| `CallsProofs` | `Calls` | `CallsAssumption` | `CallsInvariance` |
| `StreamsProofs` | `Streams`, `Outcomes` | those, `StreamsAssumption`, `OutcomesAssumption` | `TablesStayExact`, `AnswersStayOwn`, `ChildrenEndFirst`, `KeysActOnce`, `StreamsAreDemandDriven`, `ReadersAreRemembered`, `StreamsImplementChannel`, `RecordsImplementChannel` |
| `EventsProofs` | `Grants`, `Events` | `GrantsAssumption`, `EventsAssumption` | `EventsAreKept`, `HandlersStaySerial`, `AuthorityStaysLost`, `AuthorityIsFresh` |
| `TrustProofs` | `Trust`, `Packages` | `TrustAssumption`, `NoneAssumption`, `PackagesAssumption`, `SubmissionsAssumption` | `TypeCorrect`, `NeverRolledBack`, `RootsComeByRotation`, `TimeIsKept`, `TimeIsMonotone`, `PackagesImplementTrust`, `OnlySignedPackages` |
| `LifecycleProofs` | `Lifecycle`, `Profiles` | `LifecycleAssumption`, `ProfilesAssumption` | `DisposedMeansClean`, `ProvidersOutliveDependents`, `CleanupIsReversed`, `ClosedScopesAreEmpty`, `FailedProfilesAreUndone`, `ProfilesKeepOrder` |

The assumptions say no more than the code does: the caps are natural numbers, at least
1 where the code has a positive constant; there is at least one context, one generation and
one place in a channel; the sets of instances and of subscriptions are finite; the codes with which the
transport ends contexts are codes that `finish()` takes; an inventory that reaches
`verifyPackage()` has been parsed into a finite list of paths and contents; the list of the
scopes of a profile names each once and not the root. Three theorems
about profiles have a hypothesis besides, see there.

### Scheduler
None of the accounts is inductive alone: that a slot
counter stays exact when a cascade releases records and drains queues needs to
know that the queue holds exactly the records without a slot, that records belong to
healthy sessions or are quarantined, and that lines of parents are closed and
older. `IndInv` is the conjunction of these, with `QueueHoldsTheUnslotted` and
`FailureIsFinal` among its parts. The argument goes through one notion,
a sound settlement: every action that ends contexts (finish, abort, deadline,
offer timeout, failure, reap, late acknowledgement) is shown to be one, and a
settlement is shown once to preserve `IndInv`, with a lemma for slots, budget,
queue, work conservation, types and structure. Admission and the steps that only move
offers are separate. The three action properties use the same cases: a settlement drains
a queue from its front, releases nothing of a quarantined session, and ends a family or what
a failing session dooms.

### Session
`SessionInv` adds to `IndInv` where each `open()` stands (`OpenShape`) and how the numbers
go together (`Numbering`): a session's ids count its offers, acknowledgements travel in the
order of the ids and below the worker's watermark, what is in the carrier lies above it.
That a descriptor under way stays charged needs both: a record is released when its
acknowledgement arrives, and the numbers say that only one can. `OnlyPacketsAreCharged` is the
converse and rests on `SentIsUnderWay`: an offer that was sent and not answered has its packet in the
carrier or its acknowledgement in the control stream. The count of processes is an invariant by itself. `Keeps(X)` states what a
scheduler step leaves to the sessions (ends are final, open work keeps its slot and its
acknowledged offer), so that the session steps are proved against it and not against the
cascade. `SessionsImplementSchedulers` is the refinement: the theorems about `Scheduler`
hold of the sessions.

### Control
What a side counted as sent is what the other has let through and what is under
way. Before the handshake both sums are 0, and the literal 0 of hello and
accepted is what lets the counters start at 1. The broker has sent nothing before it
is active, so that `accepted` is first.

### Calls, Streams, Outcomes
`CallsInv` has the tables (exact through reuse of request ids), the tree of attempts
(cancelled above means done below), and the ledger (a record names the attempt that
runs or ran for it). The cascade of `cancel()` is defined in the model as the solution of a
recursive equation over the tree of attempts; that there is one is proved by the
Knaster-Tarski argument (the intersection of the closed sets), and that what it reaches leaves no live child
below follows from the equation, whatever the depth.

For streams, `Steady` says how channel, credit window, pump and reader fit (the reader waits
exactly while the pump is past `take()`, nothing is buffered, the channel is done
exactly when the credits are shut), `Sound` adds the true end, and `Attached` ties a stream to its
attempt. Each operation of the channel and the window is a lemma of its own about one
stream; `Promised` is what a step means in the words of `Channel`. `Carried` relates the far
reader to the near one: the item that answers the pull under way is the only one
produced and not yet numbered. The two refinements then map every step to a step of `Channel` or
a stutter. All eight theorems are about `OutcomesSpec`, the composition that the run checks.

### Grants and Events
`Valid` and `Chain` are recursive functions along the derivation of grants. `GrantsInv`
has what makes them well-founded (a grant is derived from an earlier one) and what
keeps a scope that returns from reviving old grants (no grant is of a generation to come). It also
has `Begun`: no grant is from after the last look at the clock, since `issueGrant()` looks. Without
it a grant could hold at a later look and not at this one. That
the recursions have a solution is proved (the largest set of grants that are good and have
their parent in it; the intersection of the sets closed under parents), and facts about
whole chains go by the least grant that would break them: a valid grant is unbroken to the
root when the clock is not behind the mark, and when single grants only get worse at the time of the
mark, so does the chain. Every step is shown to make no grant better (`Fades`). Most are `Calm`:
they issue nothing, open no scope, at most revoke, and the mark only moves on; the clock, which
may go anywhere, is not part of that notion. What is left is `issueGrant()` and `createScope()`.

For subscriptions, `Tidy` says that what was settled, the current event and the queue make up
what was admitted, and that a pump with work is awake; `Prompt` that while the instance missed
no deadline the pump waits for the one handler that runs. Each method is a lemma about one
subscription; `emit()` is the only step that changes several.

### Trust and Packages
`NoRollback`
speaks of the material in force and says nothing about what a restart may bring up.
The invariant `Inv` says the same of every mark from which the cell may go on: the
one in memory, the one in the file and those that a loss of power may leave; with `ClockIsRemembered` for the saved time. It
needs that `Succeeds` (newer, or the same document) is transitive and that a
state file exists once something was adopted.

`verifyPackage()` never asks whether each file is covered. That it is follows by counting: a
list without duplicates has as many paths as entries, the paths of the artifacts are among those
of the files, and the two lists are equally long, so the sets of paths are equal. Verification
takes only steps of the trust store (`PackagesImplementTrust`), so the theorems about `Trust` hold with it, and
with them that the key is not in the latest list of revocations.

### Lifecycle and Profiles
An await may resume in a changed world, so that what a coroutine relies on has to be
in the invariant. `LifecycleInv` has these parts, the four properties themselves, and
`CallsAreLive` (both ends of a pending call are ACTIVE), which `DisposedIsClean` needs:

- `Stacks`: a frame of `activateTree` that is at its n-th requirement is bound to the providers before;
  the frame below waits for the instance of the frame above.
- `Phases`: state and disposal of an instance agree. `Starts`: an instance runs its code under one
  activation only, and none that is DISPOSED has tracked work.
- `Bindings`: from ACTIVATING on an instance is bound to all its providers, and a disposal
  leaves no ACTIVE dependent behind the place it has come to. A dependent that was still
  activating then cannot become ACTIVE any more: it publishes only when all its providers are.
- `Tree`: a registered id stands for one object, nothing OPEN lies below what is closing, and
  what is left to tear down is not OPEN. `OwnedLeft`: scopes an instance owns are on the list of its
  disposal or of the `destroyScope()` under way.
- `Cleanups`: a registration has its effect, and after the effects are done none is left; the host
  cleans because the instance or the scope ends. `TearLoop`: `destroyScope()` leaves
  nothing before the place it has come to, although instances and effects may still be added
  elsewhere.

The steps are first brought to what they do to each group of variables (`Moves`): an activation
turns, fails, launches, runs code or publishes; an instance moves on in one of a few ways; the tree
adds, closes or removes. Each part of the invariant is then shown against these moves
and not against the actions. `Only`, `Reverse` and `Tail` keep the elements that the
loops rely on: that is proved from their definitions (`OnlyKeeps`, by the rank of
each place).

`startProfile()` is one more coroutine over the same variables: its steps are shown to be
steps of the same kinds, so that `LifecycleInv` stays invariant, with `Planned` (the order holds all
plugins, providers first) and `Undone` (how far the catch block has come). These three theorems have
the hypothesis `PlanIsSound`, that `visit()` puts every plugin into the order once and after
its providers. It is a fact about the constants; as `visit()` is a recursion over data it cannot be
proved here, and TLC evaluates it for the profile of the run and for all ways in which two
instances can require each other and be listed (`PlansAreSound` in `MCProfiles`).

### Proved and not run
The types of `Scheduler` and `Trust`, the budget, the lifetime of records (`BudgetAccounting`,
`RecordLifetime`) and `ClockIsRemembered` are proved and appear in no run: a theorem for all
constants says more than a small instance, and time is spent on what only TLC can
show.

### Only model-checked
- Liveness (`EveryOpenSettles`, `FailedSessionsAreReaped`, `StallIsNoticed`, `StartsSettle`,
  `QueuesDrain`): the prover has no fairness and no ENABLED.
- `PlanIsSound`: induction over data.
- The two violations.

## 7. Not modelled

- Schema validation and the generated schema data: stateless predicates on documents.
- The arithmetic of signatures (a relation in `Trust` and `Packages`) and the decoding of
  module texts.
- Which of several eligible providers `resolve()` prefers, and the lock and explanation
  documents of `plan()`: `Requires` is the result of that choice.
- `FrameReader`'s assembly of partial reads and the write queue and rate of `NativeStream`
  (`g6/wire.ts`, `g6/stream.ts`); budget, fences and end of file are modelled.
- The native bridge, launcher and sandbox: system calls; `Session` models what the
  broker sees of them.
- SDK wrappers, test kit, command line tools, conformance drivers, examples.
- A handler that calls again after its own call has returned is left out of `Calls`.
- Events of one type only, and grants for one resource of each kind, are modelled; the
  code compares both for equality.
- Two defects of depth outside the models: an abort listener that reenters `dispose()`
  before `i.disposal` is set (`index.ts:1502`), and `visible()` walking parent ids that were
  used again (`index.ts:337`).

## 8. Plan

1. Done: scheduler, sessions and workers, control stream, lifecycle and profiles, trust store
   and packages, unary calls, streams and their records, grants, events; proofs of every
   safety property that a run checks and finds to hold.
2. Frame codec: `FrameReader` against a reference definition over all splits of a
   byte sequence; the write queue of `NativeStream`.
3. Runs of the lifecycle with used-again scope ids (`MaxGeneration` = 2; the theorems cover them), with
   the property that scopes leave the table closed.
