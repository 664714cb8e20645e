# MarketRig daemon: TLA+ models, checks and proofs

MarketRig runs trading desks. A desk is a workspace in which at most one native agent session
(Codex or Claude Code) works, told what to do by prompts that triggers and evaluations produce,
and trading through a paper-trading node. One daemon, `marketrigd`, owns all of it: it is the only
writer of an SQLite database, starts and ends every child process, and serves the command line, the
MCP bridge and the desktop over HTTP and WebSockets. This directory models the parts of that daemon
whose correctness depends on the order in which things happen.

Paths below are relative to `src/crates/marketrigd/src/` unless they begin with `src/`.

## 1. Inventory

| Component | State | Operations | Talks to | What is hard |
|---|---|---|---|---|
| Prompt dispatcher `dispatch.rs` | `live`, `activating` (memory); `prompts` | pass, activate, deliver, deadlines, `ended`, `event`, `fail_queued` | adapters, terminals, session rows, producers | one loop against concurrent routes; crash between handover and outcome; stale evidence |
| Sessions `session.rs`, `api.rs` | `agent_processes`, `native_sessions`, `desks.selected_runtime` | open, ready, close, repoint, hooks; activate, exit, switch, interrupt | dispatcher, adapters | at most one agent per desk; the row, the child and the memory entry change at different times |
| Codex adapter `codex.rs` | thread maps, control plane, restart count | spawn, deliver, `thread/started`, status, loss, retry | app-server, terminals, dispatcher | a call whose answer never comes; loss of all desks at once |
| Claude adapter `claude.rs` | live bridge per desk | spawn, connect, disconnect, deliver | MCP bridge, dispatcher | readiness is a connection; the connection may be another session's |
| Terminals `terminal.rs` | one terminal per desk: ring, attachment, exit stream | spawn, attach, write, resize, shutdown | adapters, dispatcher, desktop | replay against live bytes; slow viewers; exit reports after the next spawn |
| Triggers `trigger.rs` | `triggers`, `code_snapshots`, `firings` | create, patch, delete, invoke, decide | scheduler, executor, policy | route reads the clock before its unit; two doors consume a one-off |
| Scheduler `schedule.rs` | `next_occurrence_ns` projection | `accept_or_miss`, advance | triggers, executor | late and missed occurrences; restarts; never twice, never dropped |
| Executor `exec.rs` | `executions`, running children | claim, attempt, complete, recovery | scheduler, dispatcher (result prompts), `daemon.rs` | crash at any point of a run; one running per desk; wakes |
| Daemon `daemon.rs`, `lib.rs` | lock, endpoint, `children.json` | start, recover, reap, shutdown | everything | what a dead daemon left; shutdown in five seconds |
| Policies `policy.rs` | `installation_settings`, approvals | put, stamp, decide | triggers, trade | a policy that changes between a check and its use |
| Trading actions `trade.rs` | `trading_actions`, order and fill history, `book_snapshots`, cycles | submit, cancel, decide, settle, capture, restore | node, CN, policy | replay by action id; crash between row, order and outcome; acceptances that are never published |
| Nodes `node.rs` | registry of running nodes | ensure, start, stop, reconcile | trade, CN, feed | stop against ensure; restoration before quotes |
| A-share execution `cn.rs` | busy/unready instruments, baselines, session gate | observe, execute, admit, size, confirm, restore, boundary | node, feed, trade | a temporary executable book between other orders; two queues to the sandbox that are not ordered |
| Feed `feed.rs`, `catalog.rs` | one observation per instrument | accept, degrade, read | nodes, CN | late replies, provider switch |
| HiThink `hithink.rs` | credential, calendar | put, patch, delete, refresh | feed, CN | a credential that changes during a poll |
| Event tail `events.rs` | cursor, subscribers | drain, push, subscribe | store, desktop | commits with older instants; slow consumers |
| OpenViking `openviking.rs` | `openviking_setup`, live child with its generation, desk keys, projections | setup, provision, start, stop, lose, retry, project skills | daemon, desks, sessions | stop while a spawn is in flight; watchers of a dead attempt; answers that come back after the lock |
| Desks `desk.rs` | `desks`, workspaces | create, finish, retry, delete | everything | interrupted creation; deletion of what is active |
| Store `store.rs` | the database | `call`, `unit` | everything | none left: one thread, one unit at a time |
| CLI, MCP bridge, desktop, harness | none the daemon depends on | | routes | |

What makes each component correct, in the order of importance this project gives them:

1. a prompt reaches an agent at most once, oldest first, and its recorded outcome is true;
2. a desk has at most one agent, and a session row that is open stands for one that runs;
3. a due occurrence becomes one firing or a recorded miss; a one-off fires once;
4. code runs only with its approval, at most once per firing, and always answers;
5. an order is placed at most once per action, only when cleared, and what its record answers is in
   its history;
6. the stored history can be replayed, and the book a restart reads is that history's;
7. an A-share order is filled by evidence younger than itself, and only by it;
8. one OpenViking child, none orphaned, and no report about an attempt that is over;
9. a subscriber sees every event once, across reconnects, a slow queue and a restart;
10. a viewer of a terminal sees its bytes in order, none twice and none left out unless the ring
    lost them, and the exit after the last of them;
11. a desk is READY with its whole workspace, a creation ends, and the agent's constitution is its own.

## 2. Modules

| Module | Models | Built on |
|---|---|---|
| `PromptDelivery` | what the daemon promises about prompts, without sessions | |
| `Dispatch`, `MCDispatch` | dispatcher, sessions, both adapters, terminals as far as children and exits go; its instance with a route | implements `PromptDelivery` |
| `DispatchProofs` | proofs about `Dispatch`: handover, outcomes, disclosure, agents, rows, the refinement | |
| `Firings`, `MCFirings` | triggers, scheduler, executor, children file, approvals of code, boot and death; its instances | |
| `FiringsProofs` | proofs about `Firings` | |
| `OrderPromise` | what a trading action promises, without threads or nodes | |
| `TradeAction`, `MCTrade` | the order, cancel and approval routes, the order policy, one desk's lazily started node | implements `OrderPromise` |
| `TradeProofs` | proofs about `TradeAction` | |
| `OrderLedger` | capture of order and position events, the snapshot, cycles, restoration | |
| `LedgerProofs` | proofs about `OrderLedger` | |
| `CnExecution`, `MCCn` | A-share execution of one instrument on one node; its prices | |
| `CnProofs` | proofs about `CnExecution` | |
| `Viking` | the OpenViking supervisor: row, child, watchers, keys, projections | |
| `VikingProofs` | proofs about `Viking` | |
| `EventTail` | units with older instants, publisher, sockets and clients of the event tail | |
| `TailProofs` | proofs about `EventTail` | |
| `Terminal`, `MCTerminal` | one desk's terminal: children, ring, attachment, sockets, desktop panes | |
| `DeskLife` | a desk's row and workspace, what acts for it, deletion, startup | |
| `DeskProofs` | proofs about `DeskLife` and `Terminal` | |

The models meet where the code does. A firing's result is a `QUEUED` prompt
(`insert_result_prompt`): `Firings` counts it (`results`), `Dispatch` takes it from `Enqueue`. An
evaluation is a prompt of the same kind. `TradeAction` takes the A-share admission as four outcomes
of one job and the capture as one step of the sandbox; `CnExecution` is the first in detail,
`OrderLedger` the second. A turn's end in `Viking` is the `Stop` hook of a session. `children.json`
is written by `Firings` and `Viking`; each models its own rows of it. `Dispatch` cuts `spawn`
where another spawn of the desk can fall in between (the old terminal's end, the new child, its
place in the map); `Terminal` is `spawn` and `shutdown` in detail. In `Dispatch` a child counts as
gone once its terminal is taken out of the map to be ended. `DeskLife` takes an
activation as three steps (look, child, row) and a node's start as one, which are `Dispatch` and
`TradeAction` without what they are for.

### Dispatch and the code

* A step is what runs between two awaits, cut further at every durable write that a crash, a child
  or another task can tell apart from the next one: `activate` is `Activate`, `Spawn`
  (`EndPrevious`, `StartChild`, `InsertTerminal`) or `SpawnFails`, `OpenProcess`/`OpenRefused`,
  `Install` and one `Drain` for each held event; a delivery is `Visit`, `MarkAttempted`, `HandOver`
  (four outcomes, on Codex behind `GateOpen`) or `Waiting`, `Resolve`.
* `SpawnFails` is before or after the old terminal was ended. `overlapped` remembers, as history, the
  desks of which two terminal spawns were in progress at once.
* `act[a]` is the call an actor is in: the dispatcher task or a route. `disp` is the position of the
  loop. The dispatcher's own `activate` suspends its loop; a route's runs beside it.
* `procs` holds a child and its `agent_processes` row in one record, since a row never outlives the
  entry. `alive` is the child, `row` the row.
* `events` and `exits` are the two channels the loop selects from. Either may be read first.
* A session is named by the child that minted it, so `SessionOf` tells which session a child runs.
  `handed` records, as history, each prompt a runtime received.
* Merged: the units of `ended` (close, repoint, fail) are one step, as are those of a loss.
  A crash ends the terminals' children (their terminal hangs up) and empties memory and channels.
  `Quit` may be taken at any point of the loop, because shutdown waits five seconds at most.
* The deadline and the delivery's outcome are choices: time is not modelled here.
* `DELIVERED` on Claude means that the channel of a connected bridge took the frame, as in the code.
* Of the reasons a row is closed for only `CONTROL_PLANE_LOST` is told apart from the others.
* Left out: the hook ingress, interrupt, desk deletion, attention rows, failing store units, an
  error of `spawn` after its child was started (its reader or writer cannot be had), the
  `retried` flag (a restarted session is always new, so it is never looked at with an effect), a
  second connection of the same bridge.

### Firings and the code

* A unit is one step. A route takes two: `Enter` reads the clock, and its unit runs later, so a unit
  may carry an older instant than one before it.
* A recurrence is the set of its candidates; `NextAfter` is the first one strictly after a
  reference, as in the code. `Late` is the 60-second bound.
* A run is a record with a stage; it is cut at the spawn, at the read and the write of each rewrite
  of `children.json`, at its end and its completion.
* `shots` counts, as history, the firings of a one-off since it was last enabled; `launched` every
  child ever started.
* `EndQuit` ends the children of dropped runs (kill on drop), `Crash` leaves them running; `Boot`
  is the reaper, the recovery unit and the executor's first claim.
* Recovery settles every `RUNNING` row: no row carries the new daemon's id yet.
* Left out: text fields and reads, body form checks, the desk's READY check, expansion of rules and
  time zones, failing store units, a failing `wait` on a child, identity of code beyond its
  fingerprint.
* `SetPolicy` is disabled when an instance has no code, where a policy has no effect.

### TradeAction and the code

* `req[r]` is one route call. A step is one store unit or read, one job on the node's thread
  (`Node::call`), or one `Registry::ensure`, which holds its mutex over a whole start.
* `row` is `trading_actions`: approval, outcome, and the order its request names. `book` is the
  node's cache. `MATCHED` is the cache's `ACCEPTED` of an order matched in full on arrival, whose fill is
  still queued: `settled_submit` waits for that fill. `PARTIAL` is a LIMIT matched in part on arrival:
  the sandbox has made it a resting maker again, so the request answers `ACCEPTED` at once. Neither
  acceptance is published; the first fill is the first event that is stored. `cut` remembers, as
  history, the `PARTIAL` orders whose node died with that fill still queued.
* `filed` is the set of kinds stored of an order, `resting` the open orders of the snapshot: both
  change with a published event, as `capture_order` does both in one unit.
* `Ensure` has three outcomes: the running node, a start with the snapshot's orders restored, a
  start that failed. `Crash` is a kill or a `Quit`: nothing the node does at its stop is captured.
* `PlaceShare` is `admit` followed by the handover in one job: unavailable, ineligible, placed, or
  only the sized book of a MARKET order published, which `SizedBookLost`/`SizedBookLanded` end.
* `placed` counts, as history, what the sandbox was handed.
* Left out: quantities (an order is matched in full, in part or not at all; a MARKET order's fills
  count as one), prices and cash; form checks before the row; reads; failing units. A
  refused cancel is an event that leaves the order open and is remembered in `refused`.

### OrderLedger and the code

* `chain` is the cached order's own events (`order.events()`), each with its identity; `stored` its
  rows, a bag (`stored[o][e]` rows of event `e`), read back in the order they occurred (`Before`).
  `CaptureOrder` is the unit of one published event: the whole chain less what is stored by
  event id and less a second submission or acceptance, with the snapshot.
* A fill is two events handled one after the other: the order's (`Fill`) and the position's
  (`CapturePosition`). `due` is the second one; the daemon may die in between, nothing else of the
  node's thread may run. Whether the cached position has moved when the first is handled is open.
* `Restore` reads the snapshot back and hands every order to the sandbox; `Reaccepted` is its
  answer, which is published once more only for a partly filled order.
* One instrument, so one netting position; lots instead of quantities. Other order kinds and cash
  are left out.

### CnExecution and the code

* The clock has four phases a day (`MORNING`, `LUNCH`, `AFTERNOON`, `CLOSED`) and may skip some. A
  tick makes the session alert due; `Boundary` handles it at any later moment.
* `wire` is the runner's queue of publications; submitted orders and cancels reach the sandbox by
  another one, so `Arrive` races `Deliver`. The sandbox itself is external: a gate that is not
  `Trading` matches nothing, a book fills what rests and takes what arrives.
* `inst` is `Inst`: the critical section (`busy`), readiness of a day, evidence (`prev`, `base`),
  last price. A quote carries who waits for it (`want`), which is the stamp `confirmed` compares.
* A start is two steps: `Restart` reads the clock and sends the cancels of what has expired (`boot`),
  `Armed`, once these are closed, publishes the gate for the instant that was read and arms the alert
  for the next boundary from now. `overslept` remembers, as history, that a boundary passed in
  between and none has fired since.
* `NoVolume` is the absence of an accepted observation; volume 0 is a volume.
* `Receive` takes a snapshot and `Observe` applies the rule to it after the bars were asked for, so
  admissions may happen in between. `Observe` first publishes one crossing book per side and waits,
  in `CrossingLanded` and `IdleLanded`.
* The two-second waits outlast the runner's queue (`TimedOut`); polls are ten seconds apart, so the
  queue is empty at the next one.
* History: `peak` is the largest volume accepted since evidence was last discarded, `early` the
  LIMITs filled by a book older than their admission, `torn` that an idle book was lost, `crowded`
  that the section was taken while a MARKET that had lost it was still on its way through it.
* One lot an order; a side of a book is sized or is not. The catalog's other instruments, the
  chart-fed markets' cycles and the calendar's fetch are left out.

### Viking and the code

* A step is one unit on the row or what is done under the `Live` lock. `caller[a]` is where a
  request, or the daemon's own start and quit (`"main"`), is in `setup`, `retry`, `provision`,
  `start` or `stop_child`.
* `live` is `Live`: state, generation, child, keys. `watching` are `supervise` tasks, `awaiting`
  `await_ready` tasks, `losing` calls of `lose` past the lock.
* `procs` are all children ever spawned; `children` the pids on record.
* `refresh[d]` is the coalescing map with the projection in flight; `skills[d]` counts the versions
  the agent wrote, those in the workspace, and whether the last projection failed.
* `history` remembers, for the properties, which attempts of this life were stopped and were
  reported lost, and which desks had a turn.
* Merged: the removal of a record with the lock step of `lose` and with the end of `stop_child`
  (a crash in between only reaps what the record still names); the read of the admin context with
  the readiness unit.
* Left out: the provider row, the seed skill and its upload, events, the test stand-in, desk
  deletion, projections started by an activation or by `put_skill`, a store error in
  `land_available`.

### EventTail and the code

* An event is its instant, the cursor's first part: instants are read one at a time, units commit in
  any order. `late` collects the events that commit behind what the publisher has pushed or read.
* A page, of the publisher or of a replay (`batch`), is the set of its rows, which are sent in their
  order; a queue holds frames, as `mpsc::Sender<Frame>` does.
* `ReadPage` and `Push` are `drain`; a page is pushed row by row under the lock (`pushing`), which
  `Subscribe` waits for. `Offered` is the bounded queue: full, it loses its sender and keeps what it
  holds.
* A socket's task is `hello`, `subscribe`, `replay`/`send`, `tail`, `live`. An `after` that names no
  row is dropped, and the client is then told to start at the tail (`base`).
* The recovery row is committed before the publisher exists, so the table is never empty for it.
* Left out: the credential in the first frame, the `4401` close, the listing route, ping frames.

### Terminal and the code

* A byte is its position in the child's output; ring, queue, wire and pane hold positions.
* `term[t]` is a terminal with its child and its sink (`gen`, `sender`); `thread` is one in `spawn` or
  `shutdown`, cut where the map's lock is let go. The reader and the exit wait are two threads
  (`Reads`, `Joined`); the exit frame follows the join.
* `sock` is the daemon's task on a connection with its attachment's queue; `pane` the composable
  `useTerminal`, its stream, offset and the bytes on its screen. A pane skips what a replay repeats
  (`Skip`), and starts over when the stream is another.
* `write` checks the generation and queues the bytes in one step.
* Left out: dimensions, the daemon's answers to cursor queries, the bounded input channel, the
  order of exit and last bytes on Windows.

### DeskLife and the code

* `files` is a workspace: per part, absent, the daemon's, the agent's, or (at the link) a plain
  thing, or `removed` when the agent took it away, which is absent to the daemon and excused by
  `ReadyComplete`. `bootstrap` is one step a part, and two for `AGENTS.md` and the link: a look, and the
  write or the replacement.
* `call` is a handler: create and retry (and startup's completion, actor `boot`) share `Begins` to
  `Finish`; activation, market routes and deletion are their looks and their acts.
* The table's CHECKs are part of the steps: a retry's unit on a READY row fails, and so does a READY
  finish of a FAILED row. A foreign key makes a unit on a deleted desk fail.
* A deletion that waits for its session may be cancelled there (the client hangs up).
* Left out: the grammar of names, the seeds' text and the plugins' files, the derived status, the
  removal of the OpenViking user.

## 3. Runs

| Run | Instance | Checks | Distinct states |
|---|---|---|---|
| `dispatch_codex` | one Codex desk, 2 children, 2 results, 1 death | `AtMostOnce` `OutcomeTruthful` `DisclosedOnce`, refinement `DeliveryPromise` | 370 thousand |
| `dispatch_routes` | one Claude desk, one route, 2 children, 1 result | `OneAgent` | 1.5 million |
| `dispatch_live` | one Codex desk, 2 children, 1 loss, fairness | `NoOrphanRow`, `Resolved` | 58 thousand |
| `firings` | one trigger: without code, 2 candidates, one-offs, 3 revisions; or with one code; 1 death, fairness | `OccurrenceOnce` `SingleShot` `NothingDueDropped`, `DueResolved` `Answered` | 200 thousand |
| `firings_code` | one trigger, two codes, both policies, 1 death | `ApprovedOnly` `RunOnce` `DeskServed` | 5.5 million |
| `trade_orders` | two action ids (an A-share MARKET and a LIMIT), two requests, both policies, 1 death, symmetric requests | `AnswerFiled` `RestingSurvives`, refinement `PromiseKept` | 1.8 million |
| `ledger_capture` | two buys, one sell, two lots each, 1 death, 1 failing unit | `HistoryReplays` `SnapshotMatchesHistory` `StoredOnce` | 137 thousand |
| `cn` | a LIMIT buy, a LIMIT sell, a MARKET sell, 3 prices, volumes 0 to 2 (0 and 1 in the morning of all three), one lot held; the buy from a morning to the next with a restart, or all three in one morning | `RestsAtSubmission` `NothingBoughtTodayIsSold` `SectionOwned` `DayEnds`, `CrossesOnGrowth` | 2.2 million |
| `viking` | one request, one desk, 2 turns, 1 death, fairness | `NoOrphan` `StoppedNotLost` `ReadyBacked` `TurnProjected`, `StartSettles` | 382 thousand |
| `event_tail` | one client, 6 instants, 2 units in flight, pages of 2, queue of 1, a deleted desk's event, 1 drop, 1 restart, fairness | `SeenOnce` `Gapless`, `Arrives` | 240 thousand |
| `terminal` | one pane, two sockets; a second child, or keys and a reload, or a third byte | `ExitLast` `Contiguous` `NeverLeftWaiting` | 2.9 million |
| `desk` | one desk, two callers, 2 faults, 2 edits, 2 deaths, fairness | `ReadyComplete` `AgentsKept`, `CreationEnds` | 526 thousand |

Every run finishes without an error and none is expected to end in a violation. A module's `TypeOK`
is in no run: where section 4 has a proof it is proved, elsewhere it documents the variables and was
checked on the instance above while the module was written.

**Scenes.** Some instances are a union of smaller ones, since their product is out of reach and the
parts meet in nothing new. `EitherSpec` of `MCFirings`, `MCCn` and `MCTerminal` holds an action back
only while another scene's has been taken; what is held back is an act of a user, of the clock or of
a crash, never an action that fairness is assumed of. `ClosesBeforeNext` of `MCDispatch` has a bridge close
only before the second child starts.

**Bounds.** Two children are the least at which one session's evidence can meet another session;
two results and an orientation give a queue whose order can be wrong; a disclosure appears once a
prompt has failed. One death is enough for every state a recovery can find, since recovery resets
everything but rows. In `Firings` the candidates 2 and 4 with time to 4 let one daemon serve an
occurrence in time, late, and before it started, and three revisions let a patch project one that
was accepted. (Three candidates with four revisions, without liveness, were checked as well.)
Instances with three children and with two desks were simulated (not exhausted) without a violation
of a passing property; desks share no variable of `Dispatch` except the loop and the control plane.
In `TradeAction` two requests are the least that race, over two actions so that a cancel can name
the other's order; one of them is the A-share MARKET order with the longest path. In
`OrderLedger` two lots give partial fills, and a second buy a
position that is closed and opened again. In `CnExecution` three prices have a limit at each end and
one between; the volumes 0 and 1 are a growth, an equality and a decrease, and a growth from zero. The clock and the restart meet
the buy alone: nothing of a crossing depends on the phase but that trading is on. In
`Viking` a request beside the daemon's own start, with a loss, is two attempts; two turns are one
that is coalesced. In `EventTail` a queue and a wire of one make every consumer slow, six instants
with pages of two are a replay of several pages that ends in a short one. In `Terminal` two children
are the least whose attachments can be confused, a ring of one loses bytes between two attachments,
and a third byte finds a send budget of one spent and drops a slow viewer.
In `DeskLife` two callers are two retries or creations, or one beside a deletion or an activation
(three, with one fault and without liveness, were checked as well); `MaxDesks = 1` keeps a name from
being used again, which is section 5's last case.

**Fairness.** `Dispatch`: the loop's awaits are bounded by the code's own timeouts, so the
dispatcher's task as a whole is weakly fair, and a route's call is; `tokio::select!`
draws its ready branch at random, so the receipt of an event and
of an exit are strongly fair; a Codex gate that closes and opens again is eventually found open
(strong fairness of the outcome, per desk) and an overdue activation is eventually listed; a dead
daemon is started again. One assumption is about Codex and not about the daemon (`GateOpens`): the
thread of a session that is recorded ready starts and goes idle. No deadline runs for such a session,
and a late `Ready` of an ended one can make it so (§5). Nothing is assumed of producers, users, or of
children before that.
`Firings`: the scheduler's sleep is at most a recheck, the executor is woken by a stored permit, each
run's stages are bounded by the code's timeouts (fairness per desk, since a desk runs one at a time),
a quit by five seconds. Nothing is assumed of the clock or the routes.
`Viking`: every task and every request under way is scheduled; its waits are bounded (2, 3, 10, 15
and 120 seconds). That a child ever answers, or exits, is not assumed.
`EventTail`: the publisher is woken by a commit and otherwise every five seconds, the sockets' tasks
run and a client reopens after its backoff. `DeskLife`: a handler that was started runs to its end,
and a daemon that died is started again. No user acts in any of them. The other modules assume
no fairness: what should happen there is stated of states (`DayEnds`, `NeverLeftWaiting`).

## 4. Proofs

`DispatchProofs.tla` proves for every set of desks and routes and every bound:

* `Typing`: `Spec => [](TypeOK /\ CallsOK /\ References)`. `TypeOK` alone is not inductive: that an
  event or a row is well formed depends on the call in progress naming an existing child
  (`CallsOK`) and on the delivery naming an existing prompt and row (`References`).
* `HandedAtMostOnce`: `Spec => []AtMostOnce`. The invariant `OneHandover` says why: a prompt that
  was handed over is settled, or is the one the dispatcher is about to settle, or the daemon is down
  and its row carries the attempt mark that `Recover` turns into `HANDOFF_UNKNOWN`. Every step
  outside a delivery keeps queued prompts as they are or settles them (`PromptsKept`), so only the
  four delivery steps, a death and the recovery need an argument of their own.

Its second part goes on from `TypeInv` and `OneHandover`. It first says once which steps
write the prompts table and how: a delivery's own steps, or a step outside it that adds rows, fails
waiting ones, or settles what recovery finds (`StepOutside`). For every set of desks and routes:

* `Disclosed`: `Spec => []DisclosedOnce`. Of the queued disclosures only the head is ever handed
  over, a prompt's instant is never ahead of its place (`Bounded`), and what the delivery in progress
  names is failed and not yet disclosed (`Disclosing`).
* `OneAgentADesk`: `Spec => []OneAgent`, from the inductive `Agents`: while no two spawns of a desk
  have overlapped, at most one is under way and the map is empty then, and a child that lives is the
  one on the terminal, or the one its spawn is about to insert (`Alone`).
* `AnswersTruthful`: of what a runtime answered, `DELIVERED` is on record only of a prompt that was
  received, `DELIVERY_REFUSED` and `CHANNEL_UNAVAILABLE` only of one that was not. It is the part of
  `OutcomeTruthful` that holds beside any number of routes.

and for `Routes = {}`, where the dispatcher alone starts sessions:

* `Truthful`: `Spec => []OutcomeTruthful`. While a prompt is being handed over the dispatcher runs no
  activation, and only an activation of its own fails queued prompts; a death leaves the attempt mark.
* `PromiseKept`: `Spec => DeliveryPromise`, the refinement: a handover maps to `Give`, what settles
  rows to `Settle`, new rows to `Add`, everything else to a stutter. The prompt handed over is still the
  oldest one waiting, although a new session's prompts go in ahead of it: none is started
  between the look at the head and the call (`HeadStays`).
* `NoOrphans`: `Spec => []NoOrphanRow`. `Orphans` says that a desk has one open row, that of its live
  entry or of the call about to write it, and that the exit of a child that is gone waits from before
  its row is there; `RecvExit` passes over an exit only when the open row is another child's.

The assumption cannot be dropped: with a route that activates a desk beside the dispatcher TLC refutes
all three (§5). Every Codex and Claude session the queue starts is covered by it, the ones a user
starts with the activate route are not.

`FiringsProofs.tla` proves for every set of triggers, desks, codes and instants and every bound:

* `Typing`: `Spec => []TypeOK`.
* `OnlyApproved`, `OneFiringAnOccurrence`, `OneShot`, `RunsOnce` and `DesksServed` from one inductive
  invariant `Inv`. `Defined` is about triggers: one that is projected has cleared code, although
  neither the scheduler nor the executor asks (`Gated`), and one that is enabled, or not there yet,
  has not fired as a one-off (`Armed`). Snapshots are only added and decided once (`Kept`), so what a
  firing was accepted with stays cleared. `Executed` ties rows, tasks and children: a task is of a
  `RUNNING` row and no two of the same, one that has not launched was never launched (`Working`), a
  launched child is of a claimed row (`Started`), a desk has one `RUNNING` row, with its task unless
  the daemon is down (`Served`).
* `EachOnce` is the lemma about the order of a pass: among the due triggers each has a place of its
  own by `(next_occurrence_ns, id)`, so the i-th is well defined and no trigger is accepted twice.

`TradeProofs.tla` proves for every set of actions, markets and requests and any number of deaths:

* `Typing`: `Spec => []TypeOK`, with `Calls`: a call under way names actions and at its end has an
  answer.
* `AnswersFiled` and `RestingKept`: `AnswerFiled` and `RestingSurvives` from one inductive
  invariant `IInv`. Its row part (`RowInv`) says that past its row an action is in the hands of one
  request (`OneCaller`), that a request ahead of the hand-over finds the order unplaced (`NotYet`),
  and that what is not cleared is neither placed nor answered (`Undecided`). Its node part
  (`NodeInv`) says that an order nobody placed is on no node and in no history (`Unplaced`), that
  the cache closes an order only with a stored event (`Recorded`), and that the snapshot holds what
  the history leaves resting even while the node is down (`Survives`). Its answer part
  (`AnswerInv`) says that a request which settles a submit has a node, and reads an acceptance
  there only once it is stored (`OnNode`): a restored order may be in the cache without that, which
  is why the bare statement about the cache is not inductive. A LIMIT matched in part on arrival is the
  exception: it answers before anything of it is stored, while the cache has it (`PARTIAL`) or, after
  a death, because it had (`cut`).
* `ImplementsPromise`: `Spec => PromiseKept`, the refinement. `BeginSubmit` and `BeginCancel` map
  to `Record`, `DecideRow` to `Approve` or `Deny`, the three hand-overs to `Place`, `Finish` to
  `Conclude`; every other step, a death included, is a stutter of the promise.

`LedgerProofs.tla` proves for every set of orders, number of lots, deaths and failed units:

* `Typing`: `Spec => []TypeOK`, and `HistoryRebuilt`, `BookMatches` and `EventsStoredOnce`:
  `HistoryReplays`, `SnapshotMatchesHistory` and `StoredOnce`, from one inductive invariant `Inv`.
  None of the three is inductive alone, because what a unit writes depends on a cached chain that
  may hold events nobody published. `Chains` says what such a chain is: announced, submitted and
  accepted in this order, then fills and repeated acceptances, with no event later than the present
  life of the node. `Whole` is about failed units: until the node dies an order's rows are the first
  events of its chain, so the next unit makes up for what is missing. `Behind` is about
  restorations: while no unit fails, an order's rows are its chain without the acceptances that are
  repeated, or lack the two events of an order that is marketable on arrival and has not been filled.
  A failed unit and a restoration together break both, and TLC refutes `AcceptedOnceStored` there (§5).

`VikingProofs.tla` proves for every set of desks and callers and every bound on attempts and deaths:

* `Typing`: `Spec => []TypeOK`.
* `NoChildOrphaned`, `StoppedIsNotLost` and `ReadyIsBacked` from one inductive invariant `Inv`.
  Attempts and pids only grow, and whoever acts for one names an old one (`Numbered`). A caller that
  spawns or records does so for the present attempt or has been overtaken (`Launch`): that is what
  the generation compared after the spawn is for. A child that somebody is about to end is not the
  held one (`Held`), a held one that is past its launch is on record (`Recorded`), and every child of
  this life that runs is held, being launched, being ended (`NoneLeft`). An attempt that was stopped
  is an earlier one or its state says so (`Over`), which is why no watcher of it can pass `lose`'s
  comparison; keys exist under `READY` only, and a daemon that is down holds nothing (`Down`).
* `TurnsProjected`: `Spec => []TurnProjected`. A projection that writes has fetched the last turn's
  skills or another one is queued behind it, and nothing is queued behind none (`Projecting`).

`DeskProofs.tla` proves for every set of names and callers, any number of desks and every bound:

* `Typing`: `Spec => []TypeOK`. Its invariant `Kinds` ties a handler in progress to a desk that was
  created (`CallsOK`); a row keeps its name and one that is gone stays gone (`RowsMoveOn`).
* `OwnedByAgents`: `Spec => AgentsKept`. Each of the actions that write a workspace makes it grow or
  removes it (`FilesStep`), and what grows keeps the agent's constitution (`Owned`), except for the write
  of a handler that had found the file missing.
* `Complete`: `Spec /\ []NamesOnce => ReadyComplete`. A handler knows how far it came (`HandlerOK`), and
  what it put in place stays there whatever others do, because only the removal of another desk's
  directory takes parts away (`NothingLost`). That is where the assumption is needed: a name that is
  used again gives two desks one directory, and TLC refutes the property with two desks of one name.

and for every set of panes, sockets and threads and every bound:

* `Unbroken`, `ExitComesLast` and `NobodyWaits`: `Contiguous`, `ExitLast` and `NeverLeftWaiting` from
  one inductive invariant `TerminalInv`, since what a pane shows next depends on what is under way to
  it. Terminals are spawned in order, and one that ended was read to its end (`TermsOK`); who sends to
  a socket is the terminal it is attached to, within its budget (`SocksOK`); a pane's stretch ends at
  its offset, which is never behind its stream nor ahead of what was read (`PaneOK`). `Attachments`
  follows the stream from the pane back to the sink: each frame on the wire goes on from the one before
  it, the first from what the pane received, and an exit comes only where the output is over
  (`Carried`); the queue goes on from the last frame (`Fed`, `Flow`); the queue of the attachment that
  is the sink's sender leaves out nothing that was read, nor the exit (`Current`); and a socket is one
  pane's. What was read is never taken back (`Later`), so a step of a terminal leaves all this true of
  every pane but its own, and its own queue grows by the next byte or the end.

`CnProofs.tla` proves for every set of orders, prices and times, any number of MARKETs and every
bound:

* `Typing`: `Spec => []TypeOK`. Its invariant `Shapes` also has it that `peak`, the history of what was
  accepted, is what the daemon remembers (`prev`); `Growth`, `Spec => CrossesOnGrowth`, follows.
* `DaysEnd`: `Spec => []DayEnds`: only a tick makes an order outlive its day. It makes the alert
  due or, while the node starts, is remembered (`overslept`); a start itself sends the cancels of what
  has expired when it reads the clock.
* `SectionKept` and `Rests`: `SectionOwned` and `RestsAtSubmission` from one inductive invariant `Sound`.
  `Owned` is about the section: the flag is somebody's, and until it is crowded the one in it that has
  not lost it is alone. `Waits` is about publications: each waits for one quote at most, which is on the
  wire or stands, never both. `Safe` is about books, and holds until the section is crowded: the last
  quote published is the one sized for the MARKET in the section (`SizedLast`); an executable book on
  the wire is waited for and knows every LIMIT (`HotWanted`); the one that stands knows every LIMIT, and
  is gone or known to be lost once nobody is in the section (`Standing`). A LIMIT is admitted only then,
  so no book it meets is older than it.
* `NeverOversold`: `Spec => []NothingBoughtTodayIsSold`. What was sold, the open sells and the MARKET
  sells in the section together never exceed the opening position (`Covered`): `sellable` does not count
  a MARKET that is about to be placed, but only one admission at a time can be in the section.

`TailProofs.tla` proves for every set of clients, any number of events and every bound:

* `Typing`: `Spec => []TypeOK`.
* `Once` and `WithoutGaps`: `SeenOnce` and `Gapless` from one inductive invariant `Inv`. What is on its
  way to a client is a chain (`Chain`): each frame goes on from the one before it and leaves out no
  event that is owed (`Follows`), the first from where the client is (`Wired`), the queue from the tail
  its subscription was given, and up to the cursor as long as the publisher holds its sender (`Queued`).
  A replay in between goes on from what was sent last, and the tail follows when nothing owed is left
  below it (`Tasked`). A page leaves out nothing up to its last row (`Paged`; `PageFacts` says so of
  any page), and no unit waits with an instant that was published or is about to be (`Instants`), so an
  event that commits behind either is one of `late`. What was handled is in order, ends where the
  client is, and has no gap (`UpTo`): that is why an event that comes is a new one.

Apart from the two conditions named above (`Routes = {}`, `NamesOnce`), all of them assume only the
named `ASSUME` of their module: sets of names are finite where the code
needs it, the constant that stands for none is none of them, bounds are natural numbers. TLC
evaluates these in every run of the module, and checked each inductive invariant as an invariant of
such an instance before it was proved.

Every safety property of the runs is stated by a theorem. Only model-checked: all liveness (fairness
and `ENABLED` are out of the prover's reach), and what `TerminalTypeOK` adds to the invariant: no two
attachments share a generation, and a queue's budget is the bytes in it.


## 5. Where the code and its documents disagree

The following are stated as properties in the modules and TLC refutes each in seconds to a minute.
They are not runs of the project: each line gives the instance that shows it, and the constants it
does not name are those of the module's run.

* `Viking!ProvisionEnds` (`viking`): a daemon that ends while it provisions leaves the row
  `PROVISIONING`; no later start looks at such a row, and the routes that could refuse it.
  `src/sdd/features/openviking-continuity/SPEC.md` 1.3.
* `EventTail!OnePerRow` (`MaxInstant = 4`, `InFlight = 2`, `Queue = 2`, no drop, no restart, no desk's
  event): an event whose instant was read before a later one was pushed commits behind the cursor
  and is never sent (`events.rs:183`). `src/sdd/features/r5-desktop-approval-controls/SPEC.md` 4.2
  has frames "one per row". What holds is `Gapless` and `Arrives` for the others.
* `Terminal!InputOwned` (`MaxTerms = 2`, `MaxBytes = 0`, `MaxKeys = 1`, `MaxReloads = 1`): generations
  start at 0 with each terminal, so a key sent to one session can be written to the next one's child
  (`terminal.rs:364`). `src/sdd/features/r3-runtime-delivery/SPEC.md:38` rejects stale generations.
* `Terminal!OneTerminal` (two threads, `MaxTerms = 2`, no bytes, no keys): two overlapping spawns of
  one desk leave a child under no entry (`terminal.rs:310`). `terminal.rs:145`: "one live terminal
  per desk".
* `Dispatch!OneLiveTerminal` (`dispatch_routes`): the same in the life of a session. A route and the
  dispatcher both look for an open row before either has one; the second's `shutdown` finds the map
  empty while the first is between its own and its insertion, and two children of the desk run: the
  table refuses one of the rows, which ends neither. `OneAgent` excepts `overlapped`.
* `DeskLife!RetryRewritesNothing` (`desk`): two completions of one workspace. One has found no
  `AGENTS.md` (`desk.rs:217`) when the other makes the desk READY and its agent writes the file; then
  the first writes the seed over it (`desk.rs:218`). `desk.rs:209`: "each only when absent, so a
  half-written workspace completes and a retry rewrites nothing". `AgentsKept` excepts that write.
* `DeskLife!DurableReady` (`desk`): two overlapping retries; one finds the link the other has
  just made, and turns the READY desk to FAILED (`desk.rs:373`). `src/sdd/SPEC.md` 5.2: "the durable
  desk stays READY".
* `DeskLife!StopsActing` (`desk`): a node or a child started after a deletion's stop runs on for
  a desk that is gone (`api.rs:690`). `api.rs:682`: "The desk stops acting before the row goes".
* `DeskLife!WorkspaceStays` (`desk` with `MaxDesks = 2`): a desk of the same name created between a
  deletion's unit and its removal of the directory loses its workspace (`api.rs:697`), and may
  become READY without it: `ReadyComplete` fails there too, so its theorem assumes `NamesOnce`.
* `Dispatch!LossEndsTerminals` (no routes, codex, `MaxProcs = 2`, `MaxEvents = 2`, `MaxResults = 1`,
  `MaxLosses = 1`): a late report of a lost control plane closes the row of the desk's *next*
  session as `CONTROL_PLANE_LOST` and does not shut its terminal down (`dispatch.rs:409`).
  `src/sdd/features/r3-runtime-delivery/SPEC.md:71`: "ends every Codex `agent_processes` row with
  `CONTROL_PLANE_LOST` (terminals shut down, pointers kept)".
* `Dispatch!NoOrphanRow` with a route (claude, `Routes = {r1}`, `MaxProcs = 1`): the exit of a child
  that has no row yet is dropped as stale evidence (`dispatch.rs:552`), its held readiness is applied
  later; the desk keeps an open, ready row for a process that is gone.
* `Dispatch!OutcomeTruthful` and `Dispatch!DeliveryPromise` with a route (codex, `Routes = {r1}`,
  `MaxProcs = 4`, `MaxResults = 2`, `MaxEvents = 2`, `MaxLosses = 2`; the counterexample is too deep
  for a breadth-first search and was found by prescribing its first steps): two losses of the control
  plane are held while the route's activation runs. The route drains the first, which closes its
  session; the dispatcher resumes the desk; the route drains the second, which ends that session too
  and starts a retry; the dispatcher starts one more session and hands it the head prompt. If the
  retry's spawn now fails, it marks every `QUEUED` prompt of the desk `ACTIVATION_FAILED`, the one
  just received among them (`dispatch.rs:458`), until the outcome overwrites it, or for good when
  the daemon dies first. `src/sdd/SPEC.md` 11.1 has a daemon lost in that window leave
  `HANDOFF_UNKNOWN`.
* `Dispatch!ReadyEarned` (claude, one route): the `Ready` of an ended session is applied to the next
  one. `api.rs:1025`: "The connection itself is the session's readiness".
* `Dispatch!SwitchLeavesNoSession` (both runtimes, one route, a result): a session the queue starts
  between a switch's wait and its update stays open under the other selection (`api.rs:957`).
  `src/sdd/features/r3-runtime-delivery/SPEC.md:176` has "no process" after a switch.
* `Firings!ChildrenKnown` (two triggers with code on two desks, `OwnDesk`): two rewrites of
  `children.json` overlap and lose a record (`daemon.rs:309`). `daemon.rs:306`: "so a crashed
  daemon's successor can reap it".
* `TradeAction!UnavailableLeavesPending` (one A-share MARKET order, one request, no crash): the
  approval is committed before the placement admits the order again, so an approved order can be
  left with no order and no outcome (`trade.rs:596`).
  `src/sdd/features/a-share-engine/SPEC.md:209`: "Temporary execution unavailability leaves the
  action pending under `MARKET_UNAVAILABLE`, without recording an approval decision".
* `TradeAction!AnsweredNeverLost` (`trade_orders`): a LIMIT matched in part on arrival answers
  `ACCEPTED` while its fill is still queued (`trade.rs:1173`), and its acceptance is not published; a
  death before that fill is captured leaves a recorded answer of an order no history or snapshot has.
  `src/sdd/features/r1-equity-paper-trading/SPEC.md:88`: "its fill is authoritative in the order's own
  state and its history a moment later, never lost". (That the answer may be `ACCEPTED` is documented
  there and in `src/crates/marketrig-acceptance/tests/gate.rs:1579`.) `AnswerFiled` excepts it.
* `OrderLedger!CloseRecorded` (one buy, one sell, one lot, 1 death): a death between the unit of the
  closing fill and that of its position stores the close without its cycle and evaluation, and no
  later event makes up for it (`trade.rs:1654`). `src/sdd/features/r1-equity-paper-trading/SPEC.md:170`
  has them together.
* `OrderLedger!AcceptedOnceStored` (`ledger_capture`): an order's first captures fail while the
  position's succeeds, and after a death the sandbox accepts the partly filled order again. Its next
  capture finds neither acceptance stored and stores both, since the rule looks at stored rows and
  not at what it is about to store (`trade.rs:1589`). `trade.rs:71`: "The event kinds an order
  carries exactly once in its life". `HistoryReplays` excepts a failed unit together with a death.
* `CnExecution!NoDayMissed` (`cn`): a boundary passes after a start has read the clock (`node.rs:571`)
  and before it arms the alert (`cn.rs:1373`), for instance while it waits for a cancel: an order that
  expires there is neither swept nor alerted, and stays until the next boundary, the next day's first
  after a close. `node.rs:562`: "terminate every restored CN order that has outlived its trading day";
  `node.rs:624`: the alert is armed "so 11:30, 13:00 and 14:57 act without a quote". `DayEnds`
  excepts it (`overslept`).
* `CnExecution!NeverFilledAtSubmission` (`cn`): `restore_idle` releases the section in one
  call and records the lost idle book in a later one, so a LIMIT admitted in between meets the sized
  book (`cn.rs:1003`). `src/sdd/features/a-share-engine/SPEC.md` 2.5: "Confirm both the crossing
  publication and the restored idle book before releasing admission".
* `CnExecution!OneInSection` (`cn`): a failed poll, or a `mark_failed` whose own section was over
  (`cn.rs:1026`), releases the section of a MARKET that has its sized book up and its order still to
  place (`fail_local`, `cn.rs:747`). Once a held snapshot, or the next poll, has made the instrument
  ready again, a crossing or an admission enters beside it, and `restore_idle` of the first clears the
  flag of the second. The same section: "Keep one per-node critical section around observation
  publication, confirmation, idle-book restoration, and every admission/approval"; `trade.rs:351`: "so
  an executable book can never stand between the check and the placement". With two MARKETs, TLC found
  a LIMIT filled at its submission and a sell of more than the opening position this way while the
  invariants were being strengthened for their proofs. `crowded` marks it: `RestsAtSubmission`,
  `NothingBoughtTodayIsSold` and the first half of `SectionOwned` are stated of everything else.
* `CnExecution!NotTriggeredByHeldSnapshot` (`cn`): a snapshot received before an admission,
  and applied after it, can release that order. The same section: "A snapshot already received before
  admission, including one still queued for delivery, cannot trigger this order".

Seen while reading, without a property since no document decides them:

* `dispatch.rs:389`: the deadline is that of a session that is not ready. A `Ready` of an ended session
  that is applied to the next one (`ReadyEarned` above) takes that deadline away, so if the Codex
  thread of the new one never goes idle its prompts wait as long as it runs; `Resolved` assumes it does.
* `openviking.rs`: `put_skill` answers the path although its projection may have failed (2281); two
  overlapping projections can leave the older tree; a provision in flight may store the key of a desk
  deleted meanwhile. None of the three is in `Viking`, whose `TurnProjected` is about the projection
  that a turn's end asks for.
* `openviking.rs`: two setups can both pass the look at the row (782) before either claims it (820);
  `lose` and `await_ready` write the row after they let the lock go, so `UNAVAILABLE` may stand over
  a ready child and `AVAILABLE` over a lost one; `lose` forgets the record of a child before it has
  ended it, and a new child may be spawned on the same data directory meanwhile; a start planned
  before a setup's claim spawns from the environment being replaced.
* `trade.rs:288` says that a start that fails "leaves no action behind"; with a policy opened between
  the two reads the node is started after the row.
* A rescheduled one-off that fired before can be invoked after its new instant has passed; the code
  says so explicitly, and `NothingDueDropped` allows the invocation to consume it.
* Every patch, of the brief alone too, projects from its own clock and so discards an occurrence
  that was due and not yet accepted; the trigger documentation states the recomputation, and
  `NothingDueDropped` excepts edits.
* Firings are claimed by `accepted_at_ns`; an invocation that read its clock earlier may commit after
  a later firing was claimed. No order is promised between the two.
* An occurrence can be both fired and recorded missed, when a stale patch projects it again and the
  next pass is late.
* A crash between a spawn and its record leaves an unknown process.
* Failing store units (disk full, busy) are modelled for captures only; elsewhere the code logs and
  goes on, or answers an error, and the models do not have them.

## 6. Not modelled

* `feed.rs`'s observations and `hithink.rs`: an HTTP client, parsers and a cache read by the catalog;
  what orders see of them is `CnExecution`'s quotes and bars.
* Of sessions, the hook ingress and interrupt; of nodes, the polling of the chart-fed markets and
  the calendar; of the OpenViking supervisor, the provider row, the deletion of a desk's
  user, and the projections other than a turn's (an activation, `put_skill`, the seeds).
* `store.rs` is one thread that runs one unit at a time, which every module takes as its atomic step.
* `memory.rs`, `plugin.rs`, `log.rs` write files with no protocol around them.
* The command line, the MCP bridge and the desktop's windows keep no state the daemon depends on;
  the one with a protocol, the terminal pane, is in `Terminal`.
* `feasibility.rs`, the acceptance harness and the test modules inside the source files are not the
  program. They are more than a third of the files' lines, and forms, parsers, message texts, schema
  strings and HTTP glue are most of the rest; that is why the map's share of the lines is small.

## 7. Plan

Done: the modules of section 2 and the proofs of section 4.

Next, in this order:

1. `Dispatch`: the hook ingress, interrupt, deletion of a desk; a composition with `Firings` through
   the prompt queue.
2. `Viking`: the deletion of a desk and `put_skill`; `DeskLife` with it.
3. `Feed`: observations and their health, read by the catalog.

Every safety property the runs check is stated by a theorem; each module added above brings its own.
