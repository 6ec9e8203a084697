# A TLA+ model of novbot

novbot is a fleet-operations system in Rust. A **center** (`crates/novbot-center`:
axum HTTP API, tonic gRPC server, MySQL) controls **node daemons**
(`crates/novbot-node`), each holding one bidirectional gRPC stream
`Control.Session` to the center. Operators dispatch runs and set configs, tags,
schedules and skills over HTTP; nodes execute runs, report results and reconcile
signed WASM skills that authors publish with `novbot-skill`. This directory models
the parts where that interplay is hard, checks them with TLC and proves the central
ones with TLAPS.

## The system

| component | source | state it keeps | operations | interacts with |
|---|---|---|---|---|
| Control.Session | center `grpc.rs` | bound node, `ReadyGate`, two mpsc channels per stream | one arm of `handle()` per client frame, rebind, ready timeout, `flush_pending`, session end | Hub, MySQL, the node |
| Hub | center `hub.rs` | node → live sender, session ABI, fetch tickets | register, unregister, evict, send, issue and redeem ticket | session tasks, HTTP handlers |
| Dispatch queue | center `db.rs`, migrations 002, 008 | `pending_dispatches` with `in_flight_at` | enqueue, claim, ack, requeue by id and by node | session tasks, HTTP |
| HTTP dispatch and config | center `http.rs` | `node_configs.config_generation` | dispatch, put config, put schedules | Hub, queue |
| Node daemon | node `main.rs` | session sender, applied config, `seen_dispatch_runs` | connect, boot order, receive, execute, report, heartbeat, reconnect | center, spool, SkillHost |
| Report spool | core `retry.rs` | `report_retry.jsonl` | enqueue, drain | session task, scheduler task, retry tick |
| Scheduler | core `schedule.rs`, node `main.rs` | `last_run`, the specs and schedules applied | tick, due, run | execution, spool |
| Skill desired state | center `skill_desired.rs` | desired sets, generations, operations, audit chain | install, rollback, uninstall, denial audit | delivery, targets |
| Skill delivery | center `skill_delivery.rs`, `artifact.rs` | actual skills | build and push the desired set, apply reports, chunked fetch | session, SkillHost |
| SkillHost | node `skills/` | `state.json`, store, downloads, active set | open, reconcile, install, quarantine, run | delivery, WASM runtime |
| Catalog, bundles | center `skill_catalog.rs`, `skill_bundles.rs` | versions, artifacts, bundle items | upload, delete, set a bundle | desired state |
| Targets, schedules | center `targets.rs` | resolutions, schedules and their state per node | preview, dispatch, create, switch, delete, resolve, refresh | tags, node configs |
| Tags | center `tags.rs`, core `tags.rs` | declared, center and system tags | register, set, clear, bulk, migrate | targets |
| Configuration | node `config.rs` | `node_id` in the data directory | resolve settings, check the center's address | node daemon |
| Specs and probes | core `probe.rs`, `spec.rs`, `skill.rs` | none | run a spec against the host | scheduler, dispatches |
| WASM runtime | `novbot-skill-runtime` | grants of one run, the engine's component and epoch | host calls checked against grants, time-outs | SkillHost |
| Authoring | `novbot-skill` | none | pack, publish | catalog |

What is hard here: session tasks, HTTP handlers and timers that share the Hub and
the tables with an await between any two accesses; streams that die at one end
first; database calls that fail alone; a center and a node that restart at any
time; bounded channels; a spool file three tasks use without a lock; MySQL
snapshots that are older than the lock taken after them; generations and rows read
one after the other; a store that is changed file by file; two guests on one WASM
engine; four parsers of one manifest. `PROJECT.json` lists each hazard at the line
where it bites, with the properties aimed at it.

What makes each component correct:

* session, Hub, queue: only ready sessions of a node are in the Hub; a queued row
  leaves the table only after a result is stored; a claimed row has somebody who
  will requeue it; dispatches do not overtake the config; a queued dispatch is
  answered in the end;
* node daemon: a run executes at most once per process and not before a config;
* spool: nothing is lost or repeated except in known ways, and it empties;
* scheduler: once per minute that is due, missed only for a cause;
* desired state: the generation identifies the set, the audit chain is linear, a
  denial is recorded once;
* delivery: node and center converge on the newest set and its outcome, and nothing
  stays pending;
* SkillHost: what runs and what is saved is in the store whatever write the process
  stops at; a failed install keeps the previous version; a reconcile ends;
* catalog: a registered version has its bytes and a desired one is registered;
* schedules: the row, the state per node and the entry in the node's list agree;
* tags and targets: production nodes are touched only as confirmed, selectors mean
  the same written in either form;
* packages and guests: what the center accepts runs, with the grants it recorded,
  as its own module, for its whole time.

## Modules

```
DispatchLedger      what the queue promises, abstractly
ControlSession      center: sessions, gate, Hub, queue, HTTP dispatch    -> refines DispatchLedger
  ControlInvariant      its inductive invariant
  DispatchDelivery      ControlSession + the node daemon + the streams between them
    ControlProofs           safety of both and the refinement, proved
Subsequences        operators: the parts of a sequence
  RetrySpool            node: the retry file and the tasks that share it
ScheduleRules       operators: cron fields, due times
SpecRules           operators: specs, params, probes, where a run goes
  NodeScheduler         node: the scheduler task over both
    NodeTasksProofs         safety of RetrySpool and NodeScheduler, proved
NodeConfig          operators: settings of a node, its id, the center's address
SkillDesired        center: transactions on desired and actual skills, audit chain
  SkillDesiredProofs    its invariant and properties, proved
SkillSync           a change of the desired set on its way to a node and back
  SkillSyncProofs       its invariant and safety property, proved
SkillSet            what a skill host promises, abstractly
SkillHost           node: reconcile write by write                        -> refines SkillSet
SkillCatalog        center: versions, bytes, bundles and installs of one skill
  SkillCatalogProofs    its invariant and properties, proved
SkillRules          operators: manifests, grants, scopes, paths, by each of four parsers
ObserveRules        operators: what the runtime reads of a node
  HostCalls             operators: what each host call answers
    SkillRun                a package from its author to its runs on a node
      NodeSkillsProofs        safety of SkillHost and SkillRun and the refinement, proved
SelectorRules       operators: selectors and targets
  NodeTags              center: tags, bulk edits, dispatches to targets
    NodeTagsProofs          its invariant and properties, proved
TargetSchedules     center: schedules over targets, with edits of nodes' lists
  TargetSchedulesProofs their invariant and properties, proved
```

The MC module of each gives its constants and, for the modules of operators, the
`ASSUME`s that compare them with expected answers.

### ControlSession

`pc[s]` is where the task of stream `s` stands: `loop` is the `select!` of
`session()`, and every await after a frame that touches shared state is a label
of its own (`requeue`, `ack`, `rebind`, `rebind_requeue`, `activate`, `claim`,
`send`, `reply`, `exit`, `exit_requeue`). `bound`, `ready` are `bound_node` and
the gate; `hint` is the node id `handle()` returned; `batch` the rows
`flush_pending` holds; `push` and `out` the channel the Hub sends into and the
response channel, both of capacity `ChanCap` (64 in the code). Each `Recv…`
action is one arm of `handle()`. `disp[r]` follows one HTTP dispatch through
`Hub.send` (sender cloned under the lock, message sent outside it) and
`enqueue_dispatch`. A row is absent, available, claimed, or `stale`: claimed
longer ago than `PENDING_DISPATCH_ACK_TIMEOUT`. A fault is a failed database call
(the code logs it and goes on) or a restart of the center; `MaxFaults` bounds them.

`cut` is what happened to the connection, `live` whether the center's transport
has noticed: between the two the session is half open.

In `ControlSession` alone a client may send any frame with any node id in any
order (`RecvAny`), except reports of runs nobody dispatched.

Left out: message bodies, the `license` fields, the result payload, the skill
messages' effect on the skill tables (`SkillDesired`, `SkillSync`), request validation.

### DispatchDelivery

Adds the node: `nsess` (`session_out`), the frames on their way up, `pulled`,
`cfg`, `seen` (`seen_dispatch_runs`), the dispatch being executed, the spool and
the reports each `flush_spool` has in hand. The node handles one message at a
time and executes a dispatch inside its receive loop. `Sever` cuts a stream (the
center may already have any prefix of what was sent up), `Crash` restarts the
node, `CenterRestart` the center. `forced` remembers sessions whose gate the
timer opened. `ran` counts executions of the process that is up and starts again with
it. `unnamed` is a run whose id is the empty string (`main.rs:836`): the node gives it a
fresh id each time it arrives, never looks it up and reports under that id, so that it
is executed as often as it is delivered and its row is never acknowledged; the
properties about runs are about the others. A Register may be rejected. Heartbeats come
whether the node waits or executes, once its earlier frames have been read, and one at
most is on its way in either direction: a shorter period than the answer takes would
only fill the channels (see the last section). The spool is a
queue here; its file-level behaviour is `RetrySpool`.

### RetrySpool

The file is a sequence of lines and newlines because `enqueue` appends them in
two writes; `drain` reads in one step and truncates in another. Each of these may
fail: a first write that fails loses the report and may leave a part of the line
(`Scrap`), without a newline the next line is spoilt, a file that cannot be read is not
drained, and a truncation that fails is ignored (`retry.rs:69`). Three tasks use the
file: the session task, the scheduler task and the retry tick. What is sent is in
`flight`, the channel and the stream, until the center gets it (`got`), and goes
nowhere when the stream dies. `perilled` holds the reports that met with something
which can lose them and `reread` those with something which can repeat them, each
recorded for the very report it happens to, so that the properties can say that
nothing else loses or repeats one.

### NodeScheduler, ScheduleRules, SpecRules, NodeConfig

`NodeScheduler` is the task of `main.rs` that ticks: `owed` counts the ticks an
interval makes up for after a long execution, `queue` holds what a tick selected
and marked in `last` but has not executed, `fired` and `idle` are history for the
properties. `Execute` and `Panic` decide with `SpecRules` what running the head of
the queue does; `Hang` is the guest of an installed skill that never comes back from the
host. A config replaces the old one; one that cannot be parsed leaves it. The period of
the ticks is any number of seconds; the run takes one that does not divide a minute.
Times are real seconds since 1970, so that `ScheduleRules` computes minutes, days
and weekdays as `cron_matches` does.

`SpecRules` has an operator per probe and built-in skill over a record of what the
host looks like, `NodeConfig` the precedence of command line, environment, file and
data directory and every refusal of a start.

### SkillDesired

A transaction takes its snapshot at its first plain `SELECT`, may wait for the
license row (`lock_chain`), and appears at commit. `view[o].at` is how much of the
audit chain its snapshot shows. Install, rollback and uninstall read before they
lock; `apply_report` and `store_reported_result` lock before they read; tags do not
lock the chain. `chain[i].prev` is the event whose hash event `i` carries.
MySQL's default isolation, REPEATABLE READ, is assumed: no file of the
repository sets another. The insert of an event and the commit are one step.

### SkillSync

One node and one skill. `log` is the desired set after each change, so that a set
on its way is the generation that was read and the position of the rows that were
read after it: `build_desired` reads them apart. A change is planned from the newest
set or from any older one, whose generation plus one it writes: the generation may
stay or be set back (`SkillDesired` shows how; `skill_desired.rs:1277`, `1431`).
`misled` records such a change, a report that could not be stored, one that overtook,
an error for an answer, and a restart that forgot a failure. Cuts drop what is on its
way in both directions. A download hangs (`Hang`) when its peer is gone without a word:
`GrpcArtifactSource::fetch` sets no timeout, and the reconcile keeps its lock.

### SkillHost and SkillSet

Every write of `reconcile` is an action: pick a skill, download, verify, seal with the
`.verified` marker, put it in its place, drop what `keep_previous_versions` no longer
allows, write `state.json`, switch. `Stop` may come between any two, and `Start` is
`open`: it takes what `state.json` says and quarantines what does not verify. A
package in the store is `good`, `altered`, `torn` (a marker, but no manifest or module),
`bare` (files without the marker) or `thin`: marker, manifest and module are there but
some other file is not, which neither `store_verified` nor `verify_active` sees.
`remove_tree` deletes in any order and ignores errors (`mod.rs:1383`), so what is left
of a package it was called on is any of `Rests`. A removal can be cut short by a stop or
an error; a thin package that is wanted again later is put to use as it is, which
`damaged` records. A fetch may hang for ever; attempts end by their number, or because
`max_elapsed` is over when one begins (`Late`).
`SkillSet` is the promise: versions change only when a whole set has been worked
through, to the wanted or the old one, and a restart returns to what was saved.
`saved` is mapped to `file`, `aim` to `job`.

### SkillCatalog

Versions, bytes, a desired version, what the node runs and a bundle's requirement for
one skill. An upload or delete is cut where the code releases control without the
skill's lock; an install reads the versions first and commits later. `met` records
which kinds of requests were open together with a delete.

### TargetSchedules

A schedule is in three places: its row, a state per node and an entry in that node's
list. Requests read, then write in a transaction; `lapses` records which kind acted on
what was no longer so, and the properties say that the places agree but for those. An
operator may write any list, with entries that name a schedule: one whose settings are
other than they were in the list that was read is recorded as `change`, one that was
not there as `foreign`. An entry is on or off, which stands for its other settings too.
A schedule may be created disabled.

### NodeTags and SelectorRules

`rows` holds, per node, the center's tags and the declared `env`, `labels` what the
node registered with before and after the migration. Bulk edits take one row lock
after the other, in the order of the ids, and plan on a snapshot. `SelectorRules` has
the grammar of selectors and targets in each form a request may use, with limits and
the canonical form.

### SkillRules, HostCalls, ObserveRules, SkillRun

A package is a record of the facts that `novbot-skill`, the catalog, the node's loader
and the runtime look at; each of the four has its operator, and `SkillRun` takes the
package from one to the next. On the node two tasks run guests on one engine: `permits`
is the semaphore that a reconcile replaces, `cache` the one compiled component, `left`
the epoch ticks until a guest is interrupted. A guest is in its own code or in a call of
the host (`WaitInHost`: the clocks it may sleep on are the host's own, and `fs.read`
opens pipes as well), where nothing interrupts it; a ticker may fail to start, which
goes unnoticed (`host.rs:175`); a component may fail to compile, link or instantiate.
The schema of a package may be JSON and no schema. Paths are sequences of segments over a
small tree with links; `Resolve` normalises, follows and checks them as `path.rs` does.

## What the runs check

| run | question | bounds |
|---|---|---|
| `control` | do Hub, gate, claims and queue stay consistent under any frames, cuts, rebinding, failures; does the table refine `DispatchLedger` | 1 session that may serve either of 2 nodes, 1 run, 2 generations, channels of 1, 2 faults |
| `delivery` | is a run executed at most once per process and never before a config, with half-open streams and a crash | 2 sessions, 1 run that has an id, 1 crash, 2 frames on the way up, no other failure |
| `live` | is a queued dispatch answered although a stream is cut, a database call fails, the center restarts, a config is bad or a run has no id | 2 sessions, 1 trouble of any kind, fair |
| `spool` | how can a report be lost or repeated, and does it reach the center otherwise | 2 reports, 2 failures of any kind: dead connections, crashes, file operations; fair |
| `scheduler` | once per minute, missed only for a cause, intervals kept up; plus cron, specs, dispatch and configuration answers | 2 specs, cron and interval, the 150 s around a New Year, ticks of 45 s, 1 trouble of any kind, 2 configs, fair |
| `desired` | where the audit chain forks, denials once, generations count | 2 nodes, 1 too old for the newest of 2 versions, 2 changes, 1 tag change, 2 session tasks, no report once 2 events are written |
| `sync` | does what is wanted reach the node and its outcome the center | 2 versions, 2 changes before the node first connects and 1 after, from any snapshot, 2 faults, a hung download among them, 2 messages of a kind on their way, fair |
| `host` | is what runs and what is saved in the store; is `SkillSet` refined; does a reconcile end | a skill of 3 versions and one that never installs, 3 sets, 1 previous version kept, room for 3, 2 attempts, 1 stop, 1 mishap (a write or a removal that fails, a corrupt or damaged package), any fetch may hang, fair |
| `catalog` | bytes of versions, orphans, deleted versions that are wanted | 3 packages in 2 versions and 2 payloads, 2 requests at once |
| `schedules` | do row, state and list agree | 1 node, 2 schedules, 2 requests at once, 6 in all, an edit touches the entries of 1 schedule |
| `tags` | are production nodes touched only as confirmed, do bulk edits go on | 2 nodes, 2 requests at once, 4 in all, a limit of 1 center tag, 4 targets |
| `package` | what the center accepts runs as recorded, as its own module, for its time, and ends; plus answers of grants, host calls and observations | 2 tasks, 3 versions, 2 ticks, packages and paths of `MCSkillRun` |

Two sessions are what a reconnect needs: one that dies and its successor. A fault
or cut may happen only while a session is left to reconnect with
(`SessionLeft`), so no run passes or fails because the sessions ran out. One run
suffices for the delivery properties, which speak of one run at a time; rows
interact only through the order of `SendClaimed`, which the proofs cover for any
number. Two requests at once are what each race of the center's tables takes, and
the bounds on requests leave room for one to set the scene and two to race. Two
versions and a third tell "the wanted", "the previous" and "the dropped" apart. The
safety properties of `control` are proved for all constants, so that run is there to
find out cheaply whether they hold and to give the mutants something to break; two
sessions at once are in the `delivery` run. Where one run's mutants need the other
half of a bound, the bound was chosen for them: with `MaxCenter` 1 a bulk edit can go
over the limit, with `Keep` 1 an unsaved set can drop what `state.json` names. The 2 changes that the node
of `sync` finds made are what a stale plan needs to set a generation back.

`CHECK_DEADLOCK FALSE` appears where the bounds end the system: all streams of
`control` used up, all transactions of `desired` done, all reports of `spool` made,
all requests of `schedules` and `tags` started, time at its horizon.

Properties that name causes (`LossHasCause`, `OrphanHasCause`, `StatesAgree` and the
like) are not excuses: the code has these ways to go wrong, and the property says that
it has no others. Each names kinds of events, recorded when they happen.

### Fairness

`DispatchDelivery`: weak fairness of the session task, HTTP handlers, the node's
loop, its ticks, reconnects (`run_session` is retried forever) and the passing of
the claim timeout; strong fairness of the ready timeout, because its deadline is
absolute and a stream of frames does not postpone it. The center notices a cut
eventually only when `HalfOpen` is FALSE: the server sets no keepalive of its own,
so nothing obliges it to otherwise. No fault, cut or crash is obliged to happen.
It is about runs whose execution ends: one that is held (below) holds the receive loop.
`RetrySpool`: each of the tasks runs, the tick ticks, a stream that stays up delivers and
the session is retried; no file operation fails for ever, because failures are bounded.
`SkillSync`: frames arrive while a session lasts, tasks of both sides go on, the node
reconnects and sends heartbeats by the clock. `SkillHost`: a reconcile goes on and its
attempts are counted. In both a download may hang, because nothing in the code ends it,
and nothing is claimed of a reconcile it holds: `ReconcileEnds`, `Converges`,
`CenterLearns` and `PendingEnds` name it.
`SkillRun`: weak fairness of the ticker, of loading, entering and joining; strong fairness
of the interruption, because a guest that comes back from the host again and again
passes the places in its code where the epoch is looked at. A guest need not return,
and is not obliged to come back from the host: `RunsEnd` excepts a run that stays there
(a sleep, a pipe) and one whose ticker did not start (`Held`). `NodeScheduler`: the
clock, the interval, and executions but for those that hang.

### What the modelling showed

Places where a comment or document promises more than the code keeps:

* `infra/aws/README.md:89` speaks of at-least-once dispatch. A dispatch handed to a
  live session has no row (`http.rs:910`); it is lost with the stream. `live` is
  therefore about queued dispatches.
* `grpc.rs:340` drops a half-open previous sender at Register; that session's ready
  timer can put it back (`grpc.rs:564`).
* node `main.rs:835`, "the run is never dropped". The report of a run is lost with its
  stream, the redelivery is answered `ok`/duplicate (`main.rs:847`), and the row is
  deleted: nothing says what became of the run.
* node `main.rs:411` flushes queued reports; `flush_spool` drops those behind a failed
  send (`main.rs:1001`).
* `skill_desired.rs:1413` serializes the chain on the license row; a change reads its
  snapshot before it waits for that row (`skill_desired.rs:1331`), and tags never lock it.

And behaviour a reader of the models should know the code has:

* Packages: guests that run side by side share the epoch, so each is interrupted
  early; the engine recognises a module by a fingerprint of every 64th byte; platform
  lists that are empty or spelled with a dash, limits that are no numbers and a `grant`
  key pass the center and fail at the node's install; braces, brackets, a `$` or a `**`
  within a longer name in a path, a schema that is JSON but no schema, and a component
  that does not link pass the install as well and fail every run; one unreadable
  directory below makes a whole `fs.list` fail.
* Held tasks: the epoch stops a guest in its own code only. One that sleeps on the host's
  clock or reads a pipe holds its run, and with it the session's receive loop or the
  scheduler, past its deadline; so does one whose ticker thread could not be started.
* Skill store: a download without a peer never ends and keeps the lock of `reconcile`; a
  removal that stops half way may leave a directory that passes for a whole package.
* Generations: a change planned from an old snapshot may set the generation back, after
  which a node that has a higher one takes what it is sent for old.
* Spool: a truncation that fails sends everything again, a write that fails loses the
  report or spoils its neighbour, and half a character in the file ends every drain.
* Schedules: an entry of a schedule that an operator changes in place stays `active`.
* Runs without an id are executed each time they are delivered, and their rows stay.
* Scheduler: a spec with two schedules due at once runs twice in a tick; a failed write
  of the spool ends the tick; a clock set back keeps intervals from being due; a
  restart forgets `last_run`; `1-10/2`, and `*` inside a list, never match.
* Config: the center never sends PushSchedule or PushConfig; a config that cannot be
  parsed leaves the one before.
* Probes: `truncate` panics in the middle of a character (output of a command, of
  timedatectl or chronyc, the list of packages that want a reboot), which ends the
  scheduler task silently and, in the session, the process; the walk for world-writable files counts
  links; `expect_absent` cuts a port to 16 bits; the last sshd directive wins, though
  sshd takes the first; without chronyc a failing timedatectl is believed.
* Observations: a word in the `cpu` line that is no number moves the later ones; mount
  points whose names are not ASCII are not reported; `disk_io` knows whole disks only.

## What is proved

`ControlProofs` proves `Spec => []IInv` for any nodes, sessions, runs,
channel capacity and number of faults, from `ControlAssumption` (the two "none"
values differ from the ids, `Runs` is finite, the bounds are numbers). The safety
properties alone are not inductive. `IInv` adds `TaskInv` (what each label knows:
`activate`, `claim` and `send` are reached only with an open gate; a session that
leaves a node is out of the Hub before it is unbound), `AckInv` (a row is
acknowledged only for a stored result, which `RowUntilResult` needs across the
await) and `DispInv` (rows belong to queued dispatches of known nodes). One lemma
per action shows that it keeps every part; `TypeCorrect`, `HubIsSound`,
`QueueKeepsRows`, `ClaimsAreCovered` and `FlushIsGated` are corollaries.

It also proves `Spec => Ledger!LSpec`: every step of the center is a
step of the ledger or leaves it alone, `IInv` supplying that acknowledged runs have
results and that an enqueued run had no row.

`SkillCatalogProofs` proves the three properties of the `catalog` run for any packages
and requests, from `CatalogAssumption` (`NoPackage` is not a package). `CInv` adds what the
properties need across an await: whatever is open together with a delete is in `met`
(`DeletesAreMet`), and what an install, a rollback or a repeated upload has read is
registered still unless its kind is in `met` (`ReadsHold`, `WantedHolds`).

`TargetSchedulesProofs` proves the three of the `schedules` run for any nodes, schedules
and requests and any lists of operators, from `SchedulesAssumption` (entries without an
origin are told from those with one; the bounds are numbers).
None is inductive: that a delete finds every entry needs that entries have rows
(`EntryHasRow`); that a resolve does not add an entry twice, that they are on nodes of
the resolution (`EntryIsResolved`); that a patch reaches them, that their rows are active
(`EntryIsActive`); and that an active row without an entry is about to be marked, that the
note on its way has not seen the entry (`ActiveHasEntry`). `UnusedIsNowhere` says that
nobody holds a list with an entry of a schedule yet to be created.

The same module proves the two properties of the `delivery` run for any sessions, runs,
channel capacities and failures, from `ControlAssumption` and `DeliveryAssumption`
(one node, whose outcomes are the three the code reports). `DInv` contains the center's
`IInv`, whose lemmas per action are used again: what was proved with any clients holds with
the node daemon at the other end. It adds that what the process that is up has executed of
the runs with an id is in `seen`, each once, and
`UnloadedIsQuiet`: while the node has no config no `NodeReady` is on its stream, the
stream's gate is shut, neither channel holds a dispatch and no HTTP handler holds its
sender. `Calm` is what a step of the center may do to such a stream.

`NodeSkillsProofs` proves the safety properties of the `host` run and `Spec =>
Promised!Spec`, for any skills, sets, stops and mishaps, from `HostAssumption` (`Keep` and
`MaxAttempts` are at least 1). `HInv` adds that a package is sealed only where none was
(`PackageFits`), that the copy `reconcile` works on holds the wanted or the running version
(`JobFits`, which the refinement needs), that what is put to use is whole or recorded as
damaged although removals may leave any of `Rests`, and `SavedIsRecent`: the version `state.json`
names is the one that runs or among the last `unsaved` it ran, so that trimming to `Keep`
cannot drop it before as many sets were applied unsaved. `Keep = 0` cannot occur: a policy
that says 0 gets the default (`nonzero_u32`, `skills/mod.rs:159`).

`SkillSyncProofs` proves `GenerationCoversRows` of the `sync` run from `SyncAssumption`.
`YInv` follows a set from the two reads of `build_desired` over its message to the node:
generations in the log get smaller only where a stale change lowered one
(`GenerationsGrow`), the generation that was read is that of some set no later than any
rows read later (`ReadsCovered`), and so are those of the sets on their way, of the one
being applied and of the host's (`SetsCovered`); the rows are then at least as new unless
a generation was lowered in between.

`NodeTagsProofs` proves the four properties of the `tags` run from `TagsAssumption` (the nodes
are finitely many numbers, the order in which bulk edits lock). `NInv` adds that requests are
served only after the backfill (`FilledFirst`), that a bulk request has locked the first of
its nodes in that order and its snapshot is what their rows are unless it was stale
(`BulksFit`), that no lock has two holders (`LocksApart`), and that a reason which held ever
since the first read of a dispatch's check is in its view or still to be read (`ChecksFit`).
`BulksGoOn` takes the holder of the greatest held lock: the lock it asks for is greater
still, hence free.
That `CenterWithinLimit` is kept rests on a lemma about `Plan` for every row and edit: a key
is added only where the keys that stay and those added before it leave room, hence the last
one added leaves at most `MaxCenter` (`PlanStaysWithin`).

`SkillDesiredProofs` proves the three properties of the `desired` run for any nodes, skills,
versions and transactions, from `DesiredAssumption` (kinds of transactions are apart, `Skills`
is finite). `DInv` adds that a session task holds the license row from before it reads until
it ends (`LockHeld`), so that only changes and tags, which read first, can have come between
its snapshot and its event (`ReadsLast`); and that a plan which no other change has overtaken
names what still differs and the next generation (`PlansFit`).

`NodeTasksProofs` proves the two safety properties of the `spool` run and the two of the
`scheduler` run. `SpoolInv` follows each report by itself: as long as none of the six things
that lose it has happened to it, one that is neither delivered nor on its way is in the file
or in the hands of a task that has truncated it, and what a task has read without truncating
keeps nothing (`NothingLost`); as long as it was neither read by two drains nor left by a truncation that
failed, it is in one place (`NothingRepeated`). `SchedInv` follows `last_run`: whatever is executed or
queued was noted at its minute or later (`NotedFirst`), which is why no minute is executed
twice even when the clock is set back; a note is executed or queued unless a report failed or
the task ended or is held (`NotesRun`); no note lies in the future unless the clock was set back
(`NotesPast`); and in a minute it has begun idle, the scheduler owes a tick or has looked
(`MinuteCovered`). Lemmas say that `SelectSeq` keeps the order (`SubsequencePicks`) and that
`cron_matches` depends on the minute alone (`CronReadsMinutes`). The assumptions are those of
the modules: schedules are cron expressions or intervals, the clock stands after 1970, a tick
is at least a second. With ticks more than a minute apart the minutes between two of them
are missed, and the property says so.

`NodeSkillsProofs` also proves the three invariants of the `package` run for any packages,
versions and timeouts, from `RunAssumption` (packages are records of the facts that
`SkillRules` names). Most of `AcceptedRuns` is a comparison of the readers of a package:
without the key `grant`, whatever the center accepts the node loads (`NodeLoadsAccepted`),
and what the runtime alone refuses in a path is what `valid_path_glob` is stricter about than
the center (`OnlyStricterFail`). `RunInv` adds
that what was accepted stays as it was until the node takes it (`AcceptedStays`), that no task
runs before (`RunsLater`), that an answer which every run gets has its fault in the package
(`FaultsFit`), and that of a guest which was always alone the time it had and the
time it has left make its timeout (`TimeFits`), because one ticker takes one tick.

`RetrySpool` and `SkillRun` name their specification `SpoolSpec` and `RunSpec`, because the
modules of proofs above extend them beside another.

### Only model-checked

Everything under fairness (`QueuedGetsResult`, `SpoolDrains`, `ReconcileEnds`, `Converges`,
`CenterLearns`, `PendingEnds`, `RunsEnd`, `IntervalRuns`): liveness is beyond TLAPS. And
`ReadsAreApproved` of `package`: that what a path leads to is canonical again, and that a
glob matches what some spelling of it leads to, is an induction over links and segments
(`Follow`, `SegmentsMatch`), which the provers cannot do. All other invariants and action
properties of the runs are proved.

## Not modelled

* The console, the Guest SDK and the generated protocol: they hold no state the rest
  depends on; the calls of the SDK are modelled where the host answers them.
* Authentication of operators, licences and their signatures, TLS.
* Read-only queries, listings, paging, the dry runs of uploads and installs, the
  resolutions table with the expiry of previews: they change nothing that others read,
  or only what they read back themselves.
* Several skills in one transaction of the desired state: each is planned alone, and the
  generation and the chain are per transaction, which `SkillDesired` has.
* wasmtime itself, and the memory, table and output limits it enforces: what the code
  does with its results is modelled, not how it reaches them.
* The service manager's units, scaffolding of new skills, local test runs, the
  infrastructure scripts: one-shot I/O.
* The channel backlog at which `flush_pending` and the node's reports wait for each
  other (`grpc.rs:543`): the runs keep below it, as the hazard notes. Heartbeats sent
  faster than they are answered reach it by themselves, which is why one at a time is on
  its way.
