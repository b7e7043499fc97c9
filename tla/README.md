# Zeus Terminal in TLA+

Zeus Terminal is a trading terminal for Binance and Bybit futures. One Node.js
process holds the trading engine, a SQLite database keeps what must survive it,
and the exchange is the only authority on what is really held. This directory
models the parts of the engine where money is at stake and where the order of
steps decides what happens: the code is single-threaded, but every `await` lets
the other timers, callbacks and requests run, the exchange changes state on its
own, any answer can be lost, and the process can die between two steps.

The reference is the source. `PROJECT.json` names for every definition the lines
it translates; line numbers below are those of `src/server/services/` unless a
path says otherwise.

    cd tla
    tlc -workers 2 -config stop_safety.cfg ProtectiveStop    # a run
    tlapm ProtectiveStop_proofs.tla                          # the proofs of a module

## 1. The system

| component | state | operations | what is hard | what makes it correct |
|---|---|---|---|---|
| **Protective stop** (`serverAT.js`: `_updateLiveSL`, `_checkOrderHealth`, `_watchdogLiveNoSL`, `_handleLiveExit`; `orderSweeper.js`) | `pos.live.{slOrderId, staleSlOrderId, status}`, `pos.sl`, `_slQueuedSL`, the row of the position, the orders on the exchange | replace a stop, find a lost one, repair an unprotected position, cancel on exit, sweep | three unlocked writers of one field over several awaits; lost answers; cancels that do not cancel; restarts | an open position is never left without its stop by the server, and a lost stop is noticed and replaced |
| **Emergency close queue** (`emergencyCloseProcessor.js`, `serverAT._enqueueEmergencyClose`) | table `emergency_close_queue`, `_running` | enqueue, select a batch, close, dead-letter | position changes between question and order; lost answers; rows that can never succeed; removed accounts | a row done is really done, no row is handled after that, fresh rows are not starved, every row leaves |
| **Live entry** (`serverAT.processBrainDecision`, `_executeLiveEntry`; `binanceOps.placeEntry`) | `_positions`, `liveEntryLocks`, order lock, `pos.live` | decide, lock, set margin and leverage, send, verify the fill, place stop and target | fourteen failure statuses, each with its own clean-up; halt and close arriving in between | one entry per symbol; no entry of unknown outcome is forgotten; locks are released |
| **Position rows** (`database.js` `at_positions`, `at_closed`; `seqAllocator.js`; `positionStateMachine.js`; the stub rows of `binanceOps.js`) | the rows, the next seq | allocate, persist, archive, stub, restore | two writers of one key space, two rows of one position; late saves; restart | a seq names one position for ever; what is held stays tracked; what is closed stays closed |
| **Order lock** (`orderLock.js`) | leases by key | acquire, release | expiry while held | one order per key at a time |
| **Reconciliation** (`serverAT._runReconciliation`, `reconHelpers`, `reconDedup`, `ownership`) | phantom counts, dedup marks, positions | compare with the exchange, close phantoms, merge duplicates, adopt orphans | polls racing entries, closes and the user stream | what is held is tracked once, what is tracked is held |
| **User data stream** (`userDataStream.js`, `serverAT.onUserDataEvent`) | listen key, recent closes | order and account events | events ahead of or behind REST answers | one close per position |
| **Global halt, recovery boot** (`serverAT.setGlobalHalt`, `recoveryBoot.js`, `brainWatchdog.js`, `driftChecker.js`, `telegramBot.js`) | one flag, persisted | arm, lift, recover at boot | many writers with different reasons | no entry while somebody has a reason to halt |
| **DSL** (`serverDSL.js`) | level state by position | propose the next stop | arithmetic, thresholds | a stop only tightens |
| **Pending entries** (`serverPendingEntry.js`) | waiting entries | add, trigger, expire | expiry against fill | an entry fires at most once |
| **Kill switch, cooldowns** (`serverAT`, `riskGuard.js`, `serverDrawdownGuard.js`, `tradeRateLimiter.js`) | daily loss, streaks, deadlines | count, trip, reset | daily reset against a trip; restarts | a tripped user does not trade |
| **Request scheduling** (`binanceScheduler.js`, `binanceRateState.js`, circuit breakers) | lanes, used weight, ban deadlines, breaker states | admit, back off, probe | bans learnt late, half-open probes, queues at their limit | exits are not starved by polls; no request during a ban |
| Signing and routing (`binanceSigner.js`, `exchangeOps.js`, `credentialStore.js`) | credentials, time offset | sign, send | ten-second timeout (`binanceSigner.js` 238) | pure I/O: appears as lost and failed requests |
| Bybit path, decision engine, ARES, feeds, ML rings, HTTP server, clients | — | — | — | not modelled, see section 7 |

How they meet: a brain decision or a pending entry starts the **live entry**,
which leaves a position (`_positions`, a row) and a stop on the exchange. From
then on the **DSL** proposes levels on price ticks, and the maintainers of the
**protective stop** follow. The **user data stream** and **reconciliation** learn
that a position ended and call the **exit**, which cancels the stop and, if the
server wanted out, closes at market; an exit whose closes all fail hands over to
the **emergency queue**. All of them share `pos.live`, the rows and the exchange.

`PROJECT.json` lists the hazards of this code, each at its line, with the
properties aimed at it or the reason there is none yet.

## 2. Modules

| module | models | lines of code |
|---|---|---|
| `ProtectiveStop` | one live position, its stop orders, the three maintainers, the exit, the sweep, restarts | `serverAT.js` 490–516, 723–795, 1754–1803, 2287–2547, 2997–3147, 3611–3635, 5991–6007, 6098–6188, 6443–6527, 6910–6969; `orderSweeper.js`; `binanceOps.js` 241–268, 426–470 |
| `ProtectiveStop_proofs` | its theorems | |
| `EmergencyQueue` | the queue's table, its processor, the markets it acts on | `emergencyCloseProcessor.js`; `serverAT.js` 2556–2571; `database.js` 9934–9946 |
| `EmergencyQueue_proofs` | its theorems | |
| `PositionRows` | the numbers of positions, their rows in two tables, the entry and the close as far as they write them, restarts | `seqAllocator.js`; `positionStateMachine.js`; `binanceOps.js` 153–402, 472–615; `serverAT.js` 490–601, 723–829, 1580–1687, 1985–2276, 2287–2494, 2997–3029, 3104–3117; `database.js` 748–759, 10707–10711, 11198–11220, 12261–12273 |
| `PositionRows_proofs` | its theorems | |
| `OrderLock` | the leases on user and symbol: what the order lock promises and what it does not | `orderLock.js`; `serverAT.js` 2145–2163 |
| `OrderLock_proofs` | its theorem | |
| `Ledger` | what the engine promises of its records, whoever opens and closes them: the abstract specification of `LiveEntry` and `Reconciliation` | `serverAT.js` 748–795, 1155–1197, 1398–1411, 1645–1688, 1866–1882, 3020–3029; `seqAllocator.js` 10–13 |
| `Ledger_proofs` | its theorems | |
| `LiveEntry` | from the decision to the position and out of it: entry, close, exit, their locks, the halt, restarts | `serverAT.js` 112–122, 347–369, 748–795, 1403–1421, 1580–1745, 1866–2023, 2103–2276, 2298–2437, 2965–3029, 5225–5258; `binanceOps.js` 178–318, 472–581; `emergencyCloseProcessor.js` 78–174 |
| `LiveEntry_proofs`, `MCLiveEntry` | its theorems; the decisions of its run | |
| `Reconciliation` | the cycle that compares memory with the exchange, the account events of the user stream, what they race against | `serverAT.js` 5789–5799, 5919–6096, 6108–6438, 6640–6728, 6872–6882, and the entry and close as above; 4953–5182 (registration) |
| `Reconciliation_proofs`, `MCReconciliation` | its theorems; the rows of its run | |
| `GlobalHalt` | the one flag and its five writers | `brainWatchdog.js` 44–132; `recoveryBoot.js` 56–114; `driftChecker.js` 130–156; `serverAT.js` 350–369; `routes/admin.js` 25–39; `binanceOps.js` 304 |
| `GlobalHalt_proofs` | why its property fails: the theorem about a switch that looks | |

How the modules meet:

* `LiveEntry` implements `OrderLock`: it instantiates the module with `Symbol`
  for the keys and with the entries and exits as the operations, uses its actions
  in its own, and its property `LockUsed` is the lock's whole specification: no
  step of an entry, a close, an exit or a restart does anything with a lease that
  `OrderLock` does not provide for, above all no release by an operation that is
  not inside.
* `LiveEntry` and `Reconciliation` both implement `Ledger`, which knows only
  which records were made, what each is about, and which are open. They read it
  in two ways. In `LiveEntry` a record is a decision, about a symbol and a side,
  and two stand in each other's way when they are in one symbol or on opposite
  sides (the guards at 1398–1411). In `Reconciliation` it is about a leg, and two
  stand in each other's way when their legs are the same: `_syncExternalPosition`
  and the registration look for the same leg only (1190), so a mixed book is
  possible there, and is what the exchange may hold. `LedgerKept` is the
  refinement in both modules.
* The exit that gives up (`ExitFailed` in `ProtectiveStop`, the last
  `AttemptFailed` in `LiveEntry`) is the `Enqueue` of `EmergencyQueue`; for
  `ProtectiveStop` the processor's market close is one way to be
  `ClosedElsewhere`, for `LiveEntry` what becomes of the row is `QueueRowDone`:
  the position closed or not, as `EmergencyQueue` has it.
* `PositionRows` looks at the same close from the side of the tables: its
  `OpsCloseBegin`, `OpsCloseDone`, `OpsCloseFails` and `GiveUp` are
  `ProtectiveStop`'s `ExitClosed` and `ExitFailed` with the rows instead of the
  stops.
* `Reconciliation` has the entries and closes of `LiveEntry` in fewer steps: an
  order under way, its execution, its end. The closing of a phantom here is
  `NoticeFlat` in `ProtectiveStop`.
* `ArmHalt` and `LiftHalt` of `LiveEntry` are any two writes of `GlobalHalt`.

### Ledger

| variable | code |
|---|---|
| `legOf` | every record ever made, by its seq: what it is about |
| `open` | `_positions` |

A record is opened only where nothing open stands in its way (`Opens`), or it is
made, archived and forgotten in one tick (`Refuses`: an entry that finds the
symbol's lock taken); open records are closed (`Closes`: `_closePosition`, the
clean-up of failed entries). There is no action that opens a record again. In the
code nothing says so in one place: records are pushed by the decision (1645),
the registration (5054) and the adoption (5169) and restored in a fourth
place (782), each with its own guard, while the awaits of all of them interleave.

### ProtectiveStop

State and code:

| variable | code |
|---|---|
| `held`, `resting` | the exchange: the position, its open stop orders |
| `lastId` | the orders the exchange accepted so far; an order is its number |
| `tracked` | the position is in `_positions` |
| `liveStatus`, `slId`, `staleId`, `sl` | `pos.live.status`, `.slOrderId`, `.staleSlOrderId`, `pos.sl` |
| `queued` | `pos._slQueuedSL` |
| `task[t]` | the running call of a maintainer: where it awaits and its local variables (`pc = "idle"` is `_slModifying`, `_watchdogRunning`, `_reconRunning` being false) |
| `seen` | the open orders `_checkOrderHealth` has fetched |
| `exit` | the running `_handleLiveExit` |
| `row` | the row in `at_positions` |
| `removed`, `pulled`, `restarts` | history: orders that others removed, orders this process cancelled, restarts |

An action is a stretch of code between two awaits. A placement is two actions:
`PlaceLands` (the exchange accepts) and `…Placed` (the answer arrives) or
`…Failed` (it does not), so that everything else can happen between the order
and its answer, and an answer may be lost. `…Cancelled` is the cancel with what
follows it. `Cancel` may leave the order resting: `_cancelOrderSafe` (2496–2547)
takes the regular endpoint's "Unknown order" for success although the algo
endpoint failed. `Persist` is part of every action whose code ends in
`_persistPosition`, with `tracked` deciding the status: a maintainer that
returns after the close writes a row that is not `OPEN`.

Left out, with the place it would go: add-ons (5273–5673, a fourth
maintainer), the stops `recoveryBoot` places, the Bybit branch, adopted
(`EXTERNAL`) legs, take-profit orders, and what reconciliation does before it
decides that a position is gone (`NoticeFlat` is the decision). Several
positions are independent here except that their turn in a pass can be delayed:
`HealthBegin` and `WatchdogBegin` are separate from `HealthSeen` and
`WatchdogTurn` for that reason.

### EmergencyQueue

| variable | code |
|---|---|
| `qty[m]`, `opened[m]` | the exchange: signed `positionAmt`, positions opened so far |
| `creds` | the markets whose exchange account is connected |
| `row` | the table, in the order of `id`: market, the position it was queued for, `attempts`, `resolved_by` |
| `pc`, `due`, `cur`, `amount` | `_tick`: where it awaits, the rows still to do, the row in hand, `positionAmt` as reported |
| `unseen`, `horizon` | history: what the position of a row holds beyond the last answer; the last row when the tick selected |

`Invalid` markets are those whose requests fail with a permanent error
(125–150); `Unreachable` ones never answer. With `EmptyReply` the exchange may
answer the question for the position with an empty list though it is held, as
the comment at `serverAT.js` 5935–5943 says of the same request: the processor
takes that for flat at once (82–88), resolves the row as `already_flat`, and the
position stays open (`PositionRead`, `FoundFlat`). Left out: answers that are
stale in another way (a quantity of before), Telegram messages and
event rows, the fall-back to the user's active account (71, a listed hazard), and
the uniqueness of `decision_key`: it contains the seq, and a seq is closed once.

### PositionRows

Positions are numbered in the order they are decided; that number is not their
seq.

| variable | code |
|---|---|
| `issued` | `_seq` of `seqAllocator` |
| `seq[p]` | `entry.seq`, the canonical number |
| `table` | `at_positions`: by row number whose row it is, canonical or stub, status, `live.status` |
| `closed` | `at_closed`: by row number, when it was archived, counted in decisions |
| `mem` | the positions in `_positions` |
| `live[p]` | `pos.live.status`: `none` also stands for a refused entry, `failed` for the statuses the clean-up lists |
| `stub[p]` | the row `placeEntry` inserted, later `pos.live.opsSeq` |
| `pc[p]` | where the entry or the exit of `p` awaits |
| `held[p]` | the exchange |
| `late` | positions that were closed while `_updateLiveSL` waited, and will be saved again |

A position has two rows in one table. `serverAT` saves the canonical one with an
upsert under a number of `seqAllocator` (`Decide`, `Saved`); `placeEntry` inserts
the stub without a number, so that SQLite gives it the row id above the largest
(`StubInserted`), and then moves it through `positionStateMachine.transition`,
which throws when it does not find the status it expects (`EntryAnswered`,
`StopPlaced`, `StopExhausted`, `OpsCloseDone`). A thrown transition makes the
entry a failed one (`Fail`) wherever the order stands. `Taken` is the unique
index on open rows: because of it a stub never becomes `OPEN` while the
canonical row is. `Linked` and `StubOnly` are the deletion of the stub together
with its position, guarded by "has no price". Rejections come as exceptions of
`sendSignedRequest`, so the branches of `placeEntry` and `closePosition` that
look at a returned error code never run and are not in the model.

Left out: adopted positions and manual registration, forced disconnects
(`routes/exchange.js`, which delete rows without archiving them), errors of the
database, the pruning of `at_closed` (it keeps the newest 500), the unverified
fill, several users, two entries in one symbol at once, how often an exit tries
again, and that `closed_at` counts whole seconds.

### OrderLock

| variable | code |
|---|---|
| `lease[k]` | the entry of `_locks` for user and symbol: none, one younger than ten seconds, one older |
| `inside[k]` | the callers between their `acquire` and their `release` |
| `expiries[k]` | history: how many leases of the key ran out |

Nobody waits: a refused acquire is the caller's failure. `Release` deletes the
key whoever has it, as 27–29 do; a lease that ran out is overwritten by the next
acquire. Hence the promise is `Overlap`: one operation inside, and one more for
each lease that ran out. The header's "prevents concurrent entry/close orders"
is the case of no expiry.

### LiveEntry

One user, any number of decisions, one unit of quantity each.

| variable | code |
|---|---|
| `plan` | symbol and side of each decision |
| `tracked`, `live` | `_positions`; those with `live.status` `LIVE` or `LIVE_NO_SL` |
| `closed[p]` | how the position left `_positions` |
| `entry[p]`, `entryLock` | where `_executeLiveEntry` waits; `_liveEntryLocks` |
| `exit[p]`, `tries[p]` | where `_handleLiveExit` waits; its failed attempts |
| `lease`, `inside`, `expiries` | `OrderLock` |
| `held`, `queued` | the exchange; the positions with an unresolved row in `emergency_close_queue` |
| `abandoned` | history: the positions still held when the queue was done with their row |
| `halted`, `sent[s]` | the halt; history: entry orders sent while it lasts |

The decision tracks the position and starts the entry in one tick (`Decide`);
the order follows after the awaits of balance, margin type and leverage
(`PlaceSent`). Execution is the exchange's step, the answer a later one, so that
an executed order can count as failed (`EntryFails`). The `finally` (2234–2276)
is part of every action that ends an entry: it releases the lock and archives
what has one of the listed failed statuses; `CheckRefuses` stands for the
statuses that the list leaves out. A close archives and forgets the position in
the tick it is made and only a live leg sends an exit (`CloseBare`,
`CloseAtMarket`); a stop or target exit sends none (`CloseByStop`). The forced
close after an unverified fill is sent only when the position was closed in
between: its stub is still `OPENING` otherwise and `closePosition` throws
(`FillUnverified`, `ForceSent`). The last failed attempt at an exit leaves a row
for its position in the queue; `QueueRowDone` is all that can become of the row
there: the symbol is closed as the exchange reported it, which may be less than
it holds by then, or nothing is closed (an empty answer, a permanent error, the
attempts spent). A row without credentials (73) simply stays.

Left out: gates that only refuse a decision (breakers, cooldowns, rate and
drawdown limits, kill switch: any decision may be not made), a row of the queue
that cannot be written (2556–2571: an alarm is all that is left then), partial
fills, demo positions, add-ons, Bybit, the rows (`PositionRows` has them), stops and targets
(`ProtectiveStop`).

### Reconciliation

A record is a position as `_positions` has it; its number is its seq. A leg is a
symbol with a side.

| variable | code |
|---|---|
| `made` | every record ever made, in the order of seqs |
| `tracked`, `live` | `_positions`; those `_isReconcilablePosition` accepts |
| `sent`, `filled`, `posted`, `exits` | entries in flight; app orders before their registration; exits still to be sent |
| `held` | the exchange |
| `phase`, `snap`, `view`, `doomed`, `todo`, `asked` | `_runReconciliation`: where it awaits and its local variables (`userLivePositions`, `binanceHeld`) |
| `suspects` | `_phantomCandidates` |
| `pend[l]` | `_orphanPending`, as cycles since `firstSeen` |
| `streak`, `idle` | `_emptyHeldStreak`, `_reconIdleCycles` |
| `deferred` | records whose close `onUserDataEvent` has put off by 2.5 s |
| `flat`, `once`, `twice` | history: was the leg gone since the record is live; how often a poll left it out although it was held |

The cycle is `CycleBegins` (or `CycleSkipped` while one runs), the poll
(`PollReads`, `PollFails`), the empty-view guard (`Distrust`), the phantoms
(`Sift`, `PhantomClosed`), and leg by leg what the view holds: known
(`LegTracked`), an orphan seen first (`OrphanSeen`) or again (`OrphanConfirmed`),
which after a request for the symbol's open orders is adopted, sold or left
(`OrphanAdopted`, `OrphanSold`, `OrphanKept`).

Abstractions: quantities and sides flipped by one order; the stream tells of a
change at once or never; all candidates of a cycle are sifted together and
closed in any order, which has the code's order among them; `suspects` and
`deferred` forget records that are gone, whose entries have no effect in the
code; a close that the stream tells of is for a record of its own leg, where the
code looks for the symbol alone (6634–6640), so that in a mixed book it may take
the other side's record. Left out: several users and exchanges, the five seconds of the closing
guard and `_pendingLiveCloses` (each makes a close rarer), the COIN-M check, the
merge of two records of a leg (`OneRecordPerLeg` says that there are none), and
the health check and sweep in the same timer, which `ProtectiveStop` has. And one
way to make a record: the live branch of `registerManualPosition` (4864–4897)
sends an order of its own and pushes the record (4888) without a look at what is
tracked by then; `LedgerKept` would not hold with it. No caller of the repository
takes it: `routes/trading.js` (589) leaves the mode out on purpose, so that its
registrations go to `_registerManualPositionLegacy`, and the client posts to
`/api/at/register-manual` only demo positions.

### GlobalHalt

| variable | code |
|---|---|
| `halt` | the row `global:halt`: `active` and who wrote it last |
| `heartbeat`, `streak`, `muted` | `brainWatchdog`: age of the brain's newest row, `_healthyStreak`, the debounce |
| `fired` | `_haltFired` of `driftChecker` |
| `boot` | the users `recoveryBoot.run` has done, and how |
| `standing` | history: who armed the halt since it was last lifted |

A write of the row may fail, and each caller goes on (`Tries`). What the boot
recovery does to stops and rows is left out.

## 3. Runs

| run | question | result |
|---|---|---|
| `stop_safety` | can any interleaving make the record lie or strip the position? | `TypeOK`, `TrackedNotPulled`, `StatusTellsStop`, `RowKeepsApart`, `NeverStripped` hold, 5.4 million states |
| `stop_live` | is a vanished stop noticed, and an unprotected position repaired? | `MissingStopNoticed`, `UnprotectedRepaired` hold under `FairSpec` |
| `stop_sweep` | is a stop left on a flat symbol swept? | `FlatStopsSwept` is violated |
| `stop_leak` | does the record remember every stop? | `NoForgottenStop` is violated |
| `queue_safety` | is a row that is done really done, as far as the exchange told, and once? | `TypeOK`, `DoneAsReported`, `ResolvedFinal` hold, 9.2 million states |
| `queue_fair` | do fresh rows go first, and does every row leave? | `FreshRowFirst`, `RowLeaves` hold |
| `queue_starved` | does a fresh row get a turn when accounts are removed? | `FreshRowTurn` is violated |
| `rows_safety` | do numbers, tables and memory stay in step over entries, closes, late saves and restarts? | `TypeOK`, `SeqsUnique`, `StaysClosed`, `KeptUnlessShared`, `ZombiesExplained` hold, 118 000 states |
| `rows_mishap` | does the clean-up of failed entries spare what is held? | `ZombiesUnexposed` is violated |
| `entry_safety` | can entries, exits, closes, the halt, leases that run out and restarts get into each other's way? do entries and exits end? | `TypeOK`, `EntriesExclusive`, `OrdersApart`, `HaltBoundsEntries`, `HeldAccounted`, `LockUsed` and `LedgerKept` (the refinements), `OnlyOnward`, `EntryEnds`, `ExitCompletes` hold |
| `recon` | does reconciliation track each leg once, close and sell only what it may, and agree with the exchange in the end? | `TypeOK`, `OneRecordPerLeg`, `OrphanUntracked`, `ExitsPrecede`, `LedgerKept` (the refinement), `SettledStays`, `FalsePhantom`, `Converges` hold, 472 000 states |
| `halt_others` | does the dead man's switch leave the halts of others alone? | `OthersSurvive` is violated |

The five violations:

* **stop_sweep.** `ZEUS_PREFIX_REGEX` (`orderSweeper.js` 23) knows `sl_`, `tp_`,
  `resl_` and `AT_`, but `serverAT.js` names the stops it places `SAT_DSL_`,
  `SAT_RSL_` and `SAT_WD_` (3110, 6501, 6939). A DSL update that was waiting for
  the exchange while the position closed leaves a stop behind that no sweep takes
  for one of Zeus's own.
* **stop_leak.** The health check compares the stop recorded *now* with an order
  list fetched *before*. If a DSL update confirms a new stop in between, the new
  stop looks missing; the re-placement that follows may fail, and the failure
  path (6513–6518) then overwrites the record with the id of the verdict. The
  DSL's stop rests and nobody names it.
* **queue_starved.** A row without an account is passed over with `continue`
  (73) before an attempt is counted, so it stays least tried for ever and
  `LIMIT 10` gives it a place in every batch.
* **rows_mishap.** After decision 1 the allocator's next number is 2, and so is
  the row id of the stub that `placeEntry` inserts. Decision 2 is issued 2 and
  its upsert overwrites the stub. When the order of entry 1 fills, the transition
  of row 2 from `PENDING` throws, `_executeLiveEntry` takes that for a failed
  entry, and the clean-up "with no exchange exposure" (2255) archives and forgets
  a position that is held.
* **halt_others.** The operator arms the halt; the brain's heartbeat goes stale;
  the switch arms the halt again (`brainWatchdog.js` 128) and its reason replaces
  the operator's; six healthy checks later `_maybeRecover` (96) reads its own
  reason and lifts the halt. Lines 32–35 promise that an operator's halt and
  `EMERGENCY_CLOSE_CATASTROPHIC` survive.

What the passing runs say, and what they do not:

* `HaltBoundsEntries`: the comment before 1905 says that no exchange call goes
  out while the system is halted. The check is made at the decision; the entry
  that is in its four awaits then is still sent. One per symbol, and no more.
* `HeldAccounted` lists the ways in which a held position leaves the engine's
  sight: its entry counted as failed after it was executed, it was closed before
  its leg was live (1866 and 5225 do not wait for the entry), its stop was taken
  for executed, a restart cut off its exit, or the queue was done with its row
  and had not closed it. Reconciliation then finds an orphan. The last of these
  is the one the emergency queue exists to exclude, and does not: a row also
  leaves as `permanent_error`, as `gave_up_max_attempts`, or as `already_flat`
  after one empty answer.
* `DoneAsReported` says of `already_flat` and `closed` what they are worth: the
  row is right about what the exchange reported. A position that grew after the
  answer stays open by as much, and one that the exchange left out of its answer
  stays open as a whole. `serverAT` distrusts such an answer (5935–5962), the
  processor does not.
* `OnlyOnward` gives every entry and every exit a number of steps it has to go
  yet, and says that nothing but a decrease ever happens to it. So nothing sends
  an entry order twice: not an answer that comes late, not a lease that ran out,
  not a restart.
* `ExitsPrecede` is also a warning: the exit that is still on its way names a
  leg, not a record. The record tracked on the leg by then is a later one, and
  its position is what the exit will reduce.
* `SettledStays` is about a leg on which nothing is under way. The cycle may have
  waited for any number of requests, and may be in the middle of adopting and
  selling other legs: this one keeps its record and its position. The only thing
  in the cycle that ends it is a poll that leaves it out.
* `FalsePhantom`: the "2-tick confirmation" (6086) is two sightings, not two in a
  row: a poll that sees the leg does not clear the suspicion. And at the end of a
  streak of empty answers one false answer is enough.
* `OrphanUntracked` has its exception because `OrphanSold` does not look at the
  records again after its request: a record made meanwhile has its leg sold. A
  leftover `SAT_` order also makes the cycle sell a leg that was opened by hand.
* `MissingStopNoticed` is about a process that keeps running: `stop_live` has no
  restart, and what a restart restores is the matter of `RowKeepsApart`.
* `Converges` and `SettledStays` except legs with a bare record. Such a record is neither checked
  (its status is not reconcilable) nor does it let its leg be adopted, although
  2246–2248 say of an unverified fill that reconciliation "will verify exchange
  state on next cycle (60s)".

The shared numbers reach further than that run, which is why
`KeptUnlessShared` excuses them: an exit reads, closes, archives and deletes the
row under its stub's number, whoever has it by then. `SeqsUnique` excuses a
number that a stub has too, and must: with five positions, the second archive of
a stop exit can delete a canonical row that a third position's update turned
into its stub, before the number is archived, and a restart issues it again.

`ZombiesExplained` turns `rows_mishap` round: what does it take for the clean-up
to forget a held position? The answer of its order was lost, or a number of its
is another position's. Nothing else in the entry does.

`NoForgottenStop` and `NeverStripped` do not contradict each other: the position
keeps a stop on the exchange, but not one that the record knows.

### Bounds, and why they are enough

* `MaxId`: three stop orders in `stop_safety` are the entry's and two
  replacements in flight together, so that two maintainers can each hold an
  answer the other does not know of; four in `stop_leak`. Once spent, placements
  can only fail, which is a behaviour of the exchange too.
* `MaxLevel = 2`: one update and a queued one with another level.
* `DslAttempts = 2`: one retry (the code has `DSL_SL_RETRIES.length + 1`);
  `CloseAttempts = 1` where the exit's retry is not the question, 2 in
  `stop_live`.
* `MaxRemovals = 1`, `MaxRestarts = 1`: every property can fail after one.
* Queue: three rows, batch 2 (so the third row waits for a second tick), two
  attempts, two positions per market (the queued one and its successor),
  quantity up to 2 (an add-on), one restart. `queue_fair` has a batch of one and
  three kinds of market at once, and no false empty answers: one makes a row leave
  sooner, as a true one does, and takes nobody's turn (`FreshFirst` is proved with
  and without), but they multiply the states.
* Rows: two positions, both active at once, so that the stub of one meets the
  number of the other; two restarts, so that a number is issued after a restart
  and looked at after another. Three positions, two at a time, with one restart
  (9.4 million states) show the same, in a few minutes.

* Entries: two decisions with three plans — the same leg, the two sides of a
  symbol, two symbols — because a decision meets another only through its symbol
  or its side; two attempts at an exit, so that one can be refused and the next
  be the last; one lease that runs out per symbol; one restart.
* Reconciliation: two legs, so that one can be missing from a view that is
  trusted because it shows the other; one record restored; one decision, app
  order or close and one mishap on top. `MaxStreak` is 2 (15 in the code): the
  streak starts, is kept and ends. Two false polls need two mishaps, so the run
  has the second sighting only of legs that are really gone; for the other case
  `FalsePhantom` rests on its proof.
* Halt: two users, so that the boot recovery has one of each kind; the streak is
  the code's six.

The theorems of section 5 hold for all values of these bounds.

Deadlock checking is on in `recon`, whose timer never stops, and off in the
others: these models stop when the position is closed and the exits are done,
when every row is resolved, or when the decisions are used up, and so does the
code, until a new entry that they do not start.

## 4. Fairness

* `ProtectiveStop!Fairness`: reconciliation runs every 60 s and the watchdog
  every 30 s (6872–6892), each behind a flag that a `finally` resets, so
  `HealthBegin` and `WatchdogBegin` are not put off for ever; every await ends,
  because the signer gives a request up after ten seconds (`binanceSigner.js`
  238): weak fairness of the continuations. That a request which is sent
  again and again is *answered* some day is an assumption about the exchange,
  stated as strong fairness of `HealthSeen`, `PlaceLands("watchdog")` and
  `WatchdogPlaced`. No repair can work without it. Nothing is assumed of the
  DSL, which depends on the price, nor of the outside world.
* `EmergencyQueue!FairSpec`: weak fairness of the processor as a whole, that is,
  its timer (183–187) and the ten seconds. No request is assumed to succeed:
  `RowLeaves` holds because attempts are counted.
* `LiveEntry!FairSpec`: every await of an entry or an exit returns, by an answer
  or by the ten seconds. Nothing is assumed of the queue, whose rows may wait for
  ever, nor that orders execute: `EntryEnds` holds because the `finally` runs on
  every path, `ExitCompletes` because attempts are counted and the last one leaves
  a row in the queue. That the position is closed then is not claimed. It excepts
  exits that a restart cuts off, which nothing takes up again but reconciliation.
* `Reconciliation!FairSpec`: the 60 s timer (6872–6882), every await, and the
  2.5 s timers of deferred closes. `Converges` assumes nothing of the stream,
  and holds because mishaps are bounded: the exchange's answers are sound from
  some time on.
* `PositionRows`, `OrderLock` and `GlobalHalt` state no fairness: their
  properties are about what a step may not do.

`UnprotectedRepaired` gives up when `lastId = MaxId`: the bound on orders, not
the code, then forbids the repair.

## 5. What is proved

All of it for every value of the constants, from the named assumptions of the
modules alone (bounds are numbers, switches are Booleans). Proofs are checked by
TLAPS; no step is left out.

**ProtectiveStop_proofs**

* `TypeCorrect`: `Spec => []TypeOK`.
* `Invariance`: `Spec => []Inv`. `Inv` says that the row is `OPEN` exactly while
  the position is tracked (`RowMirrors`), and while it is:
  - `Consistent`: no exit runs; `LIVE` and a recorded stop go together in memory
    and in the row; the stale id is not the stop's;
  - `PendingApart`: the order of an answer on its way is known to nobody else —
    not recorded, not stale, no other maintainer's, not cancelled — and on the
    book unless somebody else removed it;
  - the recorded stop is not the next cancel of any maintainer and was never
    cancelled;
  - `Standing`: some stop that was not taken by the server is no maintainer's
    next cancel.
* `RecordedStopKept`, `StatusCorrect`, `RowCorrect`: the three invariants of
  `stop_safety`. None is inductive alone: a DSL cancel hits the captured stop, so
  one must know that the captured stop is not what another maintainer has
  recorded meanwhile, which rests on the freshness of the orders under way.
* `StopFirst`: `Spec => NeverStripped`. By `Standing`, a cancel always has a stop
  to leave behind. This is the reason why the maintainers need no lock for safety:
  each cancels only what it captured, and only after its own order is confirmed.

* `ForgottenOnlyByRaces`: if no answer and no cancel is lost and the process does
  not restart (`Reliable`), and if every writer of the record finds it as it
  captured it (`Unraced`), then `[]NoForgottenStop`. This is not the code's
  behaviour, and is not meant to be: `stop_leak` shows that `Unraced` can fail.
  It says where to look: in every leak without a loss one of five statements
  (3112, 6503, 6514, 6941, 6950, each with what follows it) writes over a record that
  changed since it was read. The invariant `Accounted` gives every resting stop
  an owner: the record, or a maintainer about to record it or to cancel it.

**EmergencyQueue_proofs**

* `TypeCorrect`, with `Busy`: the row in hand and the rows still due are
  unresolved.
* `ResolvedForGood`: `Spec => ResolvedFinal`, from `Busy`.
* `DoneIsAsReported`: `Spec => []DoneAsReported`. The strengthening `Tracked`
  follows one row through question, order and fill: as long as the row's position
  is the market's latest, it is on the side that was reported, or gone, or was
  reported empty; its quantity is at most what was reported plus what was not
  (`unseen`); and after the fill only what was not reported is left.
* `FreshFirst`: `[]FreshRowFirst` if accounts are not removed
  (`~MayDisconnect`). `Ordered` says that a row with no attempts that is not in
  this tick's batch leaves only rows without attempts in it; `BatchFresh` is the
  fact about the selection, for every batch size. `queue_starved` shows that the
  condition is needed for the promise behind it.

**PositionRows_proofs**

* `RowsTyped` and `RowsStayClosed`, from `RowsInvariant`. A position comes back
  only through a restart, which restores the open canonical rows. `InPlace` says
  that a row that is canonical and open is under its own position's number and
  its position is tracked, so nothing else can be restored; `Fresh` that
  positions not yet decided have left no trace; `Bounded` that the tables are
  finite, without which `MAX(seq)` need not exist (`TopIsTop`).
* `RowsNumbered`: `Spec => []SeqsUnique`. `Numbered` says of every number no stub
  has that it is not above the allocator's and is in one of the two tables, as a
  canonical row in the first: a restart, which numbers on above both tables,
  then stays above it.
* `RowsKept`: `Spec => KeptUnlessShared`. `Own` says of a tracked position whose
  numbers are its own that its canonical row is open and was never archived, so
  no restart drops it, and that its stub has the status its entry expects next,
  so no transition throws; `Tidy` that an exit runs only after its position is
  forgotten. So a position the engine knows to be held is lost to it, in any
  interleaving of entries, closes, late saves, lost answers and restarts, only
  where two positions share a number. (A fill whose answer is lost is not known:
  its entry is cleaned up as failed, which the model shows and no property
  excludes.)

* `ZombiesOfSharing`: `Spec => ZombiesExplained`, from the invariants of
  `RowsKept` and from `Unsent`: what was not sent is not held.

**Ledger_proofs**

* `BooksApart`: `LedgerSpec => []Apart`: of the open records no two stand in each
  other's way, whatever that means to the module that implements the ledger.
* `ClosedForGood`: `LedgerSpec => ForGood`: a record stays what it is about, and
  closed once it is closed.

**OrderLock_proofs**

* `LocksApart`: `LockSpec => [](LockTypeOK /\ Overlap)`. `LockInv` counts one
  better: the operations inside are at most the expiries, and one more only while
  a lease runs.

**LiveEntry_proofs**

* `LockUsedRight`: `Spec => LockUsed`, the refinement: every step is a step of
  `OrderLock` or leaves the lock alone.
* `OrdersKeptApart`: `Spec => []OrdersApart`, from the refinement and
  `LocksApart` alone, without another look at the entry.
* `EntryTypeCorrect`: `Spec => []TypeOK`.
* `EntriesAlone`: `Spec => []EntriesExclusive`. Every step leaves an entry where
  it is with its lock, starts it with a free lock, or ends it and frees the lock.
* `HaltBounds`: `Spec => []HaltBoundsEntries`, from the invariant that what was
  sent on a symbol during a halt is nothing while an entry on it is still at its
  checks.
* `HeldIsAccounted`: `Spec => []HeldAccounted`. The strengthening `BookInv`
  ties the book to the stages: a position not yet decided holds nothing, only an
  entry that is over has a live leg, only a live leg sends an exit, and an exit
  that is over leaves its unit held only with a row in the queue, or with one that
  the queue was done with while the unit was held.

* `EntriesGoOn`: `Spec => OnlyOnward`. The measure of an exit counts its attempts,
  so one needs to know that attempts are counted only while an exit is under way
  and that only a position closed at the market has one (`ExitInv`). It is the
  safety half of `EntryEnds` and `ExitCompletes`: what liveness adds is that a
  step is taken.
* `EntriesKeepLedger`: `Spec => LedgerKept`. `RecordsMove` is the lemma: a step
  makes no record and closes some, or makes one. That the one it makes stands in
  nobody's way is the guard (`AllowedFree`); that it is a new one, and that the
  tracked positions are among the decided, is `BookInv`.
* `TrackedOnOneSide`: all positions tracked by decisions are on one side and in
  different symbols (the records of others are in `Reconciliation`). It follows from `EntriesKeepLedger` and `BooksApart`, without another
  look at the entry.

**Reconciliation_proofs**

* `BookMoves` is the lemma the rest stands on: a step moves the records in one of
  five ways — not at all; one record of an untracked leg is made; some are
  closed; a fill is confirmed; suspects or deferred closes are marked.
* `TypeCorrect`: `Spec => []TypeOK`.
* `LegsTrackedOnce`: `Spec => []OneRecordPerLeg`, inductive over `BookMoves`: of
  the five ways only the second makes a record, and it asks for a leg without
  one.
* `RecordsKeepLedger`: `Spec => LedgerKept`, from `BookMoves`: the way that makes
  a record is `Opens`, the others are `Closes` or leave the ledger alone. With
  `ClosedForGood` no order of answers, cycles and restarts brings a record back.
* `ExitsOfThePast`: `Spec => []ExitsPrecede`, with `OneRecordPerLeg`: a close
  leaves its leg without a record, and what is made later has a higher seq.
* `SettledForGood`: `Spec => SettledStays`. Two lemmas for every step that does
  not disturb the leg: what it does to records, orders and positions it does to
  other legs (`Leaves`), and what the cycle has seen of the leg stays true
  (`Sees`). `Settled` says enough of the cycle's memory to be kept without any
  further invariant than the type. It is the safety half of `Converges`: once a
  leg agrees, only somebody who acts on it, or a false answer, ends that.
* `OrphansHaveNoRecord`: `Spec => []OrphanUntracked`: a record made after the
  question has a higher seq than all before.
* `PhantomsAreSeenTwice`: `Spec => FalsePhantom`. `ISnap` keeps what the cycle
  remembers of records among the live ones; `IPhantom` says of the records whose
  leg was never gone that a suspect was left out once, a doomed one twice, and
  that what a poll leaves out is counted before it is sifted.

**GlobalHalt_proofs**

* `OthersSurviveALook`: `Spec /\ [][Looks]_vars => OthersSurvive`. `Looks` is the
  line that `_maybeFireAlert` (121–132) does not have: leave a halt alone that
  somebody else has armed. With it a halt in the switch's name is nobody else's
  (`Named`), and `_maybeRecover` (95–97) keeps its word, over any number of
  users, checks, failed writes, boots and restarts. `halt_others` shows that
  without it the word is broken, so the missing look is all there is to that
  violation. The other writers overwrite a reason just as blindly, but not
  with the switch's name.

## 6. What is only model-checked

`MissingStopNoticed`, `UnprotectedRepaired`, `RowLeaves`, `EntryEnds`,
`ExitCompletes` and `Converges` are liveness properties under fairness, beyond
the prover's reach; TLC checks them within the bounds. The safety and action
properties of the passing runs are all proved, the two refinements of `Ledger`
and the one of `OrderLock` among them. For `EntryEnds` and `ExitCompletes` the
measure is proved (`EntriesGoOn`) and for `Converges` the stability
(`SettledForGood`); that steps are taken needs `ENABLED` and stays with TLC. The
five violated properties are refuted by TLC's counterexamples; for three of them
a theorem says what else would have to be true for them to hold
(`ForgottenOnlyByRaces`, `OthersSurviveALook`), or what is true instead
(`ZombiesOfSharing`). The hypotheses `Unraced` and `Looks` of the first two are
conditions on steps, which no run states; they are not claims about the code.

## 7. Not modelled

* Of the modelled parts: add-ons, Bybit and COIN-M, adopted stops, take-profit
  orders, forced disconnects, manual positions other than as a record, partial
  fills, order events of the user stream, what the boot recovery does to stops.
  Each is named in section 2 with the module it belongs to.
* Dynamic stop levels: numeric functions of one position and a price.
  `ProtectiveStop` takes any level that does not loosen the stop.
* Pending entries, kill switch, cooldowns and streaks: they start or refuse a
  decision, and `LiveEntry` lets any decision be made or not.
* Request scheduling and breakers, signing, credentials, routing: they delay and
  refuse requests, and any request of the models may be late or fail.
* Bybit execution: the counterpart of the Binance path, gated to dry runs.
* Decision engine (`serverBrain`, `serverReflection`), ARES, machine-learning
  rings: numeric scoring and statistics; their decisions are inputs here.
* Market feeds, HTTP and WebSocket server, web client, Android shell.

The modelled lines are a small part of the repository. Most of the rest is
indicators, charts and panels in two versions of the client, statistics that
learn from recorded trades, feeds, and schema: code whose state no other actor
changes between two of its steps, or that is numeric, so that a model checker
has nothing to interleave and little to enumerate.

## 8. Plan

Done: `ProtectiveStop`, `EmergencyQueue`, `PositionRows`, `OrderLock`,
`LiveEntry`, `Reconciliation`, `GlobalHalt`, and `Ledger` over two of them.
Next, in this order:

1. More to prove of what is there: the measure of a queued row (its attempts
   only grow, a row that was handled is nearer to its end), as the safety half of
   `RowLeaves`; the position of `PositionRows` as an implementation of `Ledger`
   too, with the premise that no number is shared; the measure of a
   reconciliation cycle.
2. The add-on as a fourth maintainer of `ProtectiveStop`: it cancels the stop
   before it places the larger one, so `NeverStripped` would have to say for how
   long that may last.
3. The forced disconnect and the unverified fill in `PositionRows`.
4. A second account per market in `EmergencyQueue`, for the fall-back (71).
5. `RateState` and `Scheduler`: lanes, bans, breakers. Properties: no request
   during a ban, exits not starved by polls.
6. `Dsl`: the level functions as recursive functions against a reference
   definition; lemma: a proposed stop never loosens.
7. Kill switch and daily reset, pending entries, the sync route.
8. Order events of the user stream and orders that flip the side of a position,
   in `Reconciliation`.
