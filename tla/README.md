# A TLA+ model of QxFx0

QxFx0 is a dialogue runtime: a Haskell engine that answers one turn at a time
for a session and keeps the state of the session in SQLite, and a Python
sidecar that serves sessions over HTTP, one worker process per session.  Most
of the repository is pure computation on text.  What is hard to test is the
rest: who may run a turn, what a turn leaves behind when something fails, and
what the client is told.  These modules model that part.  Beside it stand the offline tools that
make what the runtime is built from (the lexicons and grammars) and decide what
may be released (an evaluation campaign and an audit); they are programs of many
steps whose files feed one another, and the modules model those too.

## Inventory

| Part | State | Operations | What is hard | What makes it correct |
|---|---|---|---|---|
| Session lock (`Core/SessionLock.hs`) | registry of locks with pins and stamps, 64 shared overflow locks, the MVars | acquire (look up, insert, evict, overflow), run, release | eviction between look-up and use, a full registry, asynchronous exceptions | one critical section per session, no leaked pin or lock, every call ends |
| Turn persistence (`Bridge/StatePersistence.hs`) | revision, state blob, projection rows of a session | load, compare-and-swap save, repair save, rollback | several writers over one file, crashes, a damaged blob | no lost update, rows agree with the blob, rollback never undoes a newer turn |
| Commit and carry-over (`Finalize/Commit.hs`, `Runtime/Engine.hs`) | the `Session` value: state, revision, origin | commit, recovery, rollback; blocked turns; the next session value | failure after the durable save | an answered turn is durable, the revision was observed |
| Bootstrap (`Runtime/Session/Bootstrap.hs`) | | fresh, restored or recovered session | unreadable stores, strict and degraded mode | a recovered session can go on |
| HTTP sidecar (`scripts/http_runtime.py`) | session tokens in memory and in a file, registry of workers, one thread per request, readiness cache | claim, dispatch with one retry, idle eviction, worker start and shutdown; start, SIGTERM; readiness probe | threads, processes and timeouts together; crashes between memory, file and response; a probe beside workers | a turn runs at most once, an answer is the answer of its request, no worker or lock is lost, a told token keeps its session, a probe changes nothing |
| Worker (`app/CLI/Worker.hs`) | the session, standard input and output | handshake, turn, shutdown; preflight after a failed bootstrap | it may be slow, die or answer late | closes before it acknowledges |
| Database lock and pool (`Bridge/SQLite/Pool.hs`, `Runtime/ManagedWorker.hs`) | process-wide re-entrant lock, the slot with idle connections, threads that may be killed | `withDB`, `withPooledDB`, `closeDBPool`, stop | polling, kills, re-entrance | calls are serialized, no connection lost or returned dirty, calls end, a stop returns |
| SQLite schema (`Bridge/SQLite/Bootstrap.hs`) | schema version | migrations | interrupted migrations | a migrated file is complete |
| Learning jobs (`Learning/JobQueue.hs`, `CorroborationQueue.hs`) | job table with leases and tokens | enqueue, claim, answer, fail, dispatch, apply | expired leases, late workers, events delivered twice | an answer is applied once, a live lease belongs to one thread, attempts are bounded, every request is answered or fails, and ends if applying is in time |
| Learning loop (`Learning/Autonomous.hs`) | bounded queue in memory, threads | claim, ask, answer, dispatch, confirm, stop | limits, errors in the middle of a round | no request lost, threads stop |
| Network owner (`Runtime/Session/Autonomous.hs`) | semantic network, update queue, rows of learned edges | begin and commit a turn, apply a batch, restart | updates during a turn; failures between transaction and publication | memory and rows name the same learned edges, each answer counts once, no authority is lost |
| Promotion (`Learning/Promotion*.hs`, `Rollback.hs`) | overlays and manifests | review, promote, roll back | stages that fail half-way | only reviewed relations become visible |
| Turn pipeline, semantics, lexicon, rendering, self model, governance | values of one turn | pure functions | size | outside TLC's reach |
| Lexicon importers and exporter (`scripts/import_ru_opencorpora.py`, `import_brain_kb.py`, `export_lexicon.py`) | seeds, an automatic table with a manifest, ten generated artefacts | import, export, `--check` | homonyms of four tiers, name clashes, writes without a rename, deaths between files | a check that passes means artefacts of one state in which curated words come first; a finished export passes its check |
| Input lexicon (`scripts/build_input_lexicon.py`, `check_input_lexicon.py`) | five output files | build, check | votes of a corpus against the seed, a cap, a write that raises | a finished build passes its check and keeps the seed |
| Evaluation campaign (`scripts/wave2_soak.py`) | counters of a session, records, reports | sessions, passes, analysis | five streaks with different resets; incidents found again from records | streaks end sessions, the analysis says what happened |
| Release audit (`scripts/gf_release_audit.py`) | a worker with pipes, log and queue; the golden file | sessions, turns, summaries, verdict | evidence of one turn from three channels | a turn is paired with its own evidence, a pass is earned |
| Health, external bridges, other scripts | reports, external programs | | | reach the modelled parts as values only |

How the parts meet: a request thread of the sidecar writes one line to the
worker of its session and reads one line back; the worker runs the turn under
the session lock of its process, and the turn ends with one SQLite
transaction.  The session lock orders threads of one process; nothing orders
two processes (a worker and its replacement, or `--self-play`) but the
compare-and-swap in that transaction.  A readiness probe starts a third kind of
process over the same file.  The tools meet each other through files only: the
importers write what the exporter reads, the exporter writes what the runtime is
compiled from, and the audit drives the compiled worker over the same pipes as
the sidecar.

`PROJECT.json` lists the components with what is left out of each, and under
"hazards" the places that are hard to test with the properties that watch them.

## Modules

| Module | Models |
|---|---|
| `SessionLock` | `SessionLock.hs`: one action per STM transaction and MVar operation |
| `SessionLockProofs` | its theorems |
| `TurnCommit` | load, save, commit, rollback, blocked turns, self-play, damage, crashes of several processes over one session |
| `TurnLog` | its promise: a log of turns, each write advancing a revision |
| `TurnCommitProofs` | its theorems |
| `WorkerProcess` | the stdio worker as an automaton over two pipes |
| `Sidecar` | request threads, token store, worker registry; extends `WorkerProcess` |
| `SidecarProofs` | its theorems |
| `SidecarLife` | the sidecar as a process with a beginning and an end: the token file through crashes, restarts, SIGTERM and failed writes, and the readiness probe beside workers that open the database |
| `SidecarLifeProofs` | its theorems |
| `TurnDelivery` | the promise of `Sidecar`: a request is run at most once, before its answer, not when refused |
| `DbPool` | threads of a process with nested database calls, the lock around them, the pool, kills |
| `DbPoolProofs` | its theorems |
| `LearningJobs` | the job table with its leases, the worker threads that claim, ask and answer, the threads that apply answers |
| `LearningJobsProofs` | its theorems |
| `JobLife` | its promise: one unfinished request per topic, answered once, applied whole or not at all |
| `NetworkOwner` | the network of a session: turns on snapshots, remarks, rebase, batches and their rows, restarts |
| `NetworkOwnerProofs` | theorems about merge, rebase and batches; the invariants |
| `LexiconSources` | the importers as operators: tiers, selection, qualities, reviewed nouns |
| `LexiconExport` | the exporter as operators: tables, surface index, artefacts, gates |
| `LexiconBuild` | the files and the tools that write them, in any order, with edits and deaths; extends both |
| `InputLexicon` | the input lexicon: votes, cap, five files, the check |
| `Soak` | the evaluation campaign: sessions, streaks, incidents, analysis |
| `GfAudit` | the release audit over worker processes |
| `ToolProofs` | theorems about exporter, input lexicon, release audit and campaign |
| `MC*` | instances for TLC: constants, symmetry, and the end of a finished behaviour |

Definitions marked "Mutant" stand before the definition they deform.  They are
not part of the model: each is a plausible bug which one property is known to
catch.

### SessionLock

The map `slmLocks` is kept as one function per field of an entry.  A private
lock is named by the stamp of the call that made it, an overflow lock by its
shard.  `pc` follows `acquireSessionLock` line by line: `lookup`, `insert`,
`snapshot`, `choose`, `swap`, `retry`, `overflow`, then `waiting` for the MVar,
`critical`, `unpin`.  The eviction works on the candidates of a snapshot, as
the code does, and other threads change the map meanwhile.  `mask` leaves two
places where an exception reaches a call: the log line before the overflow
step and the wait for the MVar.  A turn that raises leaves like one that
returns.

### TurnCommit

A transaction is one action, since SQLite makes it one (`BEGIN IMMEDIATE`).  A
turn is named by the revision that committed it, so a history is a sequence of
revisions and the turn count its length.  `blob` tells apart what the loader
and the compare-and-swap tell apart; an "unbuildable" blob decodes, but its
derived views cannot be rebuilt.  `ahead` and `acked` are history variables:
revisions a session advanced to without a write, and turns that were answered.
`Advance` is the last step of `continueTurn`, which the code also takes for
turns that `runTurnWithVersion` answered without saving.

### Sidecar and WorkerProcess

A step of a request thread is what it does between two points where another
thread or a worker can change what it sees.  `regLock` is held across a worker
start only, so all other uses of `SessionRegistry._lock` are single steps with
the guard `RegistryIsFree`.  `cmd` is `command_lock`.  Time is left out: a
timeout may fire whenever there is nothing to read, which includes every late
answer, and any worker that was not used since the sweep began may count as
idle.  A process has the lines it has not read (`stdin`) and the lines nobody
has read (`stdout`), which survive its death.  A token is named by the request
that claimed it; clients present tokens that some response carried, or none.

Left out of `Sidecar`: what `SidecarLife` models, the rate limit, token
enforcement switched off, an answer that is not JSON (treated as a timeout by
the code, with the same steps), a process that survives SIGKILL, the sweep of
`GET /health` (the sweep that also precedes each turn).

### SidecarLife

Here a dispatch is one step (`Run`, or `RespondFailed`, or `Raise` for the
exception of a handshake) and what is kept apart is where a claim is: `mem`
(`_tokens`), the file (`file` says whether it is there and readable, `disk` what
is in it) and `told` (a response carried the token).  `_persist_locked` replaces
the file whole or raises; the memory is changed before, so the two may differ.
`server` is `down`, `up`, `closing` (after the signal, before `clear_store`) or
`cleared` (before the end of the process): the main thread accepts nothing more
in the last two, but threads under way go on, and all of them are daemons, so
`Ends` stops them at once, in a crash as in an exit.

The database file exists or not (`db`) and holds `turns`; a worker that has it
open (`handle`) goes on writing to it after its removal.  `existed` is
`db_existed_before`.  Two history variables name the cases in which the probe
does harm, so that the property can say what holds apart from them: `raced` (a
worker opened the database under a probe that saw none) and `deserted` (the
sidecar ended during a probe).

### Lexicon

A lemma, surface or Latin name is a value; a word is a stem with an ending, since
the exporter guesses a missing accusative or instrumental from the ending.  A
lemma group of the dictionary is a record of what the filters ask.  `Tier`,
`FirstOf` and `Less` are the sort keys of the code.  `Load` is `load_rows`: insert
or ignore in the order of the seeds, automatic forms, hydration, the curated rows
in the order of the query.  `Render` gives what each artefact holds (maps,
grammar, function names, Agda constructors, runtime module, quality report),
without its text.  `ProperCount` depends on whether `pymorphy3` is installed,
hence `Machines`: an export and a check agree on machines of one kind only.

In `LexiconBuild` a tool reads its sources when it starts and gets the list of
what it will write; `WriteFile` writes the next file, `Die` ends the tool between
two files or inside one.  A table that lost its tail still loads, and so does the
SQL of the reviewed seed when it was cut before its first statement (it is then
empty); SQL cut later and JSON that lost its tail do not.  `built` names the machine
of an export while no source has changed since, `verdict` is what the last tool said
while nothing has happened since.

### InputLexicon

`Votes` adds 1000 for each seed entry and the occurrences in the corpus;
`Winner` and `Kept` are the two sorts of `main`.  `Contents` is what the five
files get; `Unwritable` is the state in which `json.dump` meets a set.

### Soak

One action of a session is one turn with its outcome: a transport error, a text
that is no JSON, one that fails the validation, or deltas the sandbox judges with
the history.  `Count` is the counters after the turn, on the six paths of the
loop, `StopReason` the limit that was reached.  The analysis reads the records
alone (`Detected`).  Deltas are in tenths; the limits are constants.  An answer that
is JSON but no object, on which `validate_payload` raises, is left out.

### GfAudit

The worker is a process with an input pipe, two output pipes that two threads
drain into `queue` and `log`, and a count of turns; it boots, answers, refuses,
stops or dies at any moment.  `step` follows the audit: `witness`, `open`, `boot`,
`send`, `answer`, `phase`, `trace`, the ways out (`unwind`, `closing`, ...) and the
verdict.  A timeout may fire whenever what it waits for is not there.  What a turn
did is one of `Outcomes`; `done` remembers it, so that the evidence of the audit
can be compared with it.  The turn of the cold probe runs with GF too, but the code
does not audit it and the model lets the probe only fail: that no turn with GF
escaped is said of the sessions.  A worker that dies between `poll` and the write
of `close` makes the code raise there; the model has it die before or after.

### DbPool

A call of `withDB`, `withPooledDB` or `closeDBPool` is a frame on the stack of its
thread, because actions call the database again (the lock is re-entrant for them).
`lock` is the owner and depth that `databaseActionLock` holds; one successful poll
is one step, and the short time a thread spends inside the MVar matters only to a
release that is interrupted (`Contended`).  `slot` is `poolMVar`, full or taken,
with its idle connections.  An action may leave a transaction open (`dirty`); a
ROLLBACK, a replacement and a lost replacement are the ways a connection comes
back.  `Signal` is the request of `stopManagedWorker`, `Kill` the arrival of the
exception, which under `mask` happens only between calls, in an action, or where
the code blocks; a killed thread unwinds and calls nothing more.  Errors and
normal ends of an action are one step, since what the pool does afterwards is the
same.  A name of a replaced connection is used again.  Left out: a `close` that
fails, and several pools under one lock.

### LearningJobs

`job` is the table `learning_jobs`; a database transaction is one action, since
every function of `JobQueue.hs` that writes is one statement or one
`BEGIN IMMEDIATE`.  `pc` follows the loop of the worker thread: `loop` (the top,
outside any handler), `claimed`, `asking` (the provider), `answered`, and two
places for a dispatch under way, one inside a task (`handing`, whose errors are
caught) and one at the top of the loop (`dispatching`, whose errors end the
thread: `dead`).  `updates` is the `TQueue` between worker and appliers; an
applier takes a batch (`takeUpdateBatch`) and later applies it in one
transaction.  A lease is `live` or `expired`: which comes first, its end or the
thread that uses it, is open, as it is in the code, where the provider may take
as long as the lease lasts.  A token is told apart by `lease_generation`; the
time stamp in it adds nothing.  The events of an answer are its `Parts`;
dispatch rejects an answer with more events than a batch may take
(`maxDurableBroadEvents`), hence `PartsAssumption`.

Wider than the code: a worker may claim while answers are ready, and any
runnable job rather than the head of its in-memory queue.  Left out: sessions
(a row belongs to one), cooldowns, back-off and quota windows (they delay), the
topic cursor, superseded policies, rows without a payload, confirmations
(`CorroborationQueue.hs`).

### NetworkOwner

A network is a function from keys, the (from, to) of edges, to an edge or `None`;
of an edge are kept what the merge, the admission and the remarks look at:
provenance, relation, confidence in percent, co-occurrence, and whether a remark
left a rationale.  `stage` follows a turn through `continueTurn`: `thinking` on
the snapshot `base`, `saved` with `mine` finalized, `committing` with the batch
taken, `committed` (`updated` is the result where nobody owns the network).
`unattended` says whether there is an owner; only then does the background loop
(`BackgroundTakes`, `BackgroundCommits`) run.  The owner's MVar is held over a
batch, its transaction and the rebase, so these are one step.  `PlanEvent` is
`planEdge`; `Commit` is the transaction, with the insertion of rows, the counting
up and the evidence; it raises when a row to count up is missing
(`Persistable`).  A turn merges in the edges of its meaning graph, in both
directions, and at most one remark on one edge.  `forgotten` is a history
variable: edges whose rows a failure after the commit kept from a session
without an owner; the properties except them.

`Reopen` builds the network as the bootstrap does: seed, newest rows, the
confidences of the restored network (which is the one just built) and the tuned
weights.  Left out: the quarantine and the tasks of corroboration (they change
neither network nor rows), several edges per answer, local and global edges,
activation, and version numbers, which nothing compares.  Leases, tokens, limits
and authorization of batches are in `LearningJobs`; here a batch that fails is
dispatched again.

## Runs

| Run | Bounds | Shows |
|---|---|---|
| `session_lock` | 3 threads, 2 sessions on one overflow lock, cap 1, 3 calls | mutual exclusion, pins, cap; every call ends |
| `turn_commit_safety` | 2 processes, 5 revisions, 2 blocked turns, 1 damage | rows agree with the log, no lost update, rollback undoes only the last turn |
| `session_store` | turns: no blocked turns, 1 damage; network: see below | answered turns stay; refinement of `TurnLog`. Of the network: memory and rows agree, evidence counts once, authority is kept |
| `sidecar_safety` | 3 requests of one session, 2 worker processes | answers belong to their requests, one runner, no orphan, ownership, refinement of `TurnDelivery` |
| `sidecar_live` | 2 requests of two sessions, 2 worker processes, `max_sessions` 1 | every request ends |
| `db_pool` | 2 threads, a pool of 2 of 4 connections, nesting 2, 4 calls | serialized calls, connections accounted for and clean, who may abandon the lock; calls end, a stop returns |
| `learning_jobs_safety` | 2 processes with an applier each, 2 requests, 2 parts, limit 3, 2 attempts, 2 mishaps | applied exactly once, questions bounded, leases ended by their holders, refinement of `JobLife` |
| `learning_jobs_live` | 1 process, a turn and an apply loop on one queue, 2 requests of one topic, 3 mishaps | every accepted request is answered or fails, with no help of the appliers; it ends if applying is in time; a topic is free exactly when its request has ended |
| `parts` | see below | two parts that share no state. The sidecar's life: a told token keeps its session, cleared claims stay cleared, a probe leaves no trace. The tools: the campaign is accounted for, a published lexicon is sound, finished exports and builds are accepted, an audit is true |
| `turn_commit_overwrite`, `sidecar_claim`, `network_restart` | see below | expected violations |

Why the bounds are enough.  Two sessions over a registry of one entry force
evictions and overflow, and three threads allow two callers of one session
beside an evictor; for the safety of larger registries there are the proofs.
Two threads are a call and what can meet it: a second call, a close, or a thread
inside the lock's MVar when a kill arrives; two nested calls are what re-entrance
needs, and four connections are the pool and one more for each depth.
Two processes are what the compare-and-swap compares; five
revisions hold a turn, its rollback, a new turn and a stale save after it.
Three requests of a session are a claimer, a holder of its token and a third
that sweeps or drops the worker they use; two processes are a worker and its
replacement.  For liveness two sessions matter more than a third request: a
request sweeps the workers of all sessions and waits for the registry lock of
another session's start, while a second request of one session must wait for
the token of the first.  Two jobs of two parts and a limit of three
make the limit fall inside an answer; two attempts are a retry and the last
attempt; a mishap is a crash, a kill, an SQL error, a refused quota or an apply
lease that runs out under its user, and two of them make a late thread meet another
failure.  Other leases run out freely: unused ones, and those of late workers,
which the attempts bound.  In the liveness run the two appliers share one queue,
which is where a batch can be lost to a stale neighbour.
Worker processes that run out end a thread as a failed start
does.  `MaxStamp`, `MaxRev`, `MaxBlocked`, `MaxDamage`, `MaxCalls`, `MaxMishaps` bound counters; all other
sets are finite in the code's situation.  `MaxStarts`, `MaxFaults`, `MaxEdits`, `MaxTools`, `MaxDeaths`, `MaxBuilds` and `MaxAudits`
bound what may happen; symmetry is over processes, requests, workers and probes, and is not used with liveness.  Runs without the deadlock
check are those of a system that may stop: all requests are answered and the
workers wait, or a tool has ended.

`session_store` and `parts` are runs over parts that share no state (`MCSession`,
`MCParts`): a behaviour belongs to one part and leaves the variables of the others at
rest, so the states are the sum, not the product.

In the part of `SidecarLife` two requests of a session are an owner and an intruder, and the
third is what a restart or a probe meets in another session; two starts are a
restart, one fault is a failed write, a failed removal or a damaged file, each
tried at every point.

In the part of `NetworkOwner` an edge and its opposite are what a challenge touches.  The
events are a candidate, its repetition with the same text, a confirmation with a
new one, and a candidate for the opposite edge, where the seed has nothing, the
counter-edge of a remark or a curated edge.  One finished turn, with any number of
abandoned ones, meets every order of batches around it; two starts are a restart
in the same or the other mode.  A network of two edges counts as dense.

The tools are four groups, kept apart in the same way (`MCTools`).  Their bounds:

* lexicon: eleven words around two homonyms in two cases (*vino*, *vina*) and two
  lemmas with one Latin name (*mel*, *mel'*); three curated seeds, one with a
  clash of surfaces, two dictionaries, two slot tables, one of which is invalid;
  three tools, one edit, one death.  An import, an export and a check of the other
  machine, with the edit or the death at any place between, is what it takes to
  get artefacts of two states.
* input lexicon: five corpora: small, promoting a new form, at the limit of 999
  votes, above it, and over the cap of five forms; three builds, any of which may
  die.
* campaign: one model, four live turns, two sessions of one mock turn, limits of 2
  and 3, four pairs of deltas that reach the three sandbox reasons.
* audit: two prompts, two canary sessions of one turn, four outcomes of a turn, two
  audits, of which the second finds the golden file of the first.

### Where the code and its documents disagree

* `turn_commit_overwrite`: a blocked turn advances the session's revision
  (`Engine.hs:257`), although the comment there speaks of a committed turn.  So a
  session can reach a revision it never observed.  In the counterexample a
  process loads a turn that is then rolled back; another process commits and
  answers a different first turn; two blocked turns bring the first process to
  the stored revision, its turn count agrees, and its save replaces the answered
  turn.
* `sidecar_claim`: an exception of the worker handshake leaves `dispatch_turn`
  (the first start is outside its `try`; the handler of the second uses a name
  without a value).  The client gets no response and the session stays claimed
  with a token nobody knows.

* `network_restart`: what a user's remarks taught is lost at a restart, although
  comments in `Bootstrap.hs:920` and `Seed.hs:37` promise the contrary.  The stored
  state holds no network (`StatePersistence.hs:519`), and the restored state is given
  the network just built (`Bootstrap.hs:899`) before `overlayConfidence` compares the
  two.  In the counterexample an edge admitted with 60 percent is accepted by the
  user, stands at 70, and has 60 again after the restart.

Met on the way, and listed as hazards only: refilling the queue and dispatching
ready answers at the top of the learning worker's loop have no handler, so an
SQL error there ends the thread until the session is opened again.  The sidecar
takes any line for the acknowledgement of a shutdown, so the wait without a limit
can begin before the session is closed.  And the release of the database lock is
masked but can be interrupted while another thread is inside its MVar, which
leaves the lock with a thread that is gone; `CallsEnd` is stated for behaviours
where this does not happen, `StopReturns` for all.  A session recovered from a
corrupt blob starts at turn zero, and its first save meets the `turn_quality` row
of the old turn 1 (`StatePersistence.hs:389`), so the repair never succeeds once a
turn was stored.  A pooled call that finds no idle connection opens one outside
the `finally` that fills the slot again (`Pool.hs:181`); when that fails the slot
stays empty.

Without a network owner, an error while new work is enqueued (`Engine.hs:240`)
makes the session keep the network from before a batch that is committed; a later
answer on the same edge is then admitted as a second row.

In the sidecar: a probe that saw no database removes the one a worker created
meanwhile (`http_runtime.py:799`); claims made between `clear_store` and the end of
the process survive a graceful restart; `clear_store` also lifts the refusal of a
store that could not be read; a failed write of the token file leaves memory and
file different until the next write; the token bucket is used without a lock.

In the tools, as notes of the hazards and comments of the modules:

* `wave2_soak.py` resets the validator streak before the validation, so rejects of
  the validation alone never abort a session (its docstring, lines 10-11, promises
  a threshold); the breaker and the reject loop are tested after an accepted
  answer, where they cannot hold; a change of reason hides a sandbox streak from
  the analysis; the mock profiles of `glm` and `deepseek` are never looked up.
  Duplicates: the comment at line 777 wants live and simulated records kept apart
  and duplicates sought in each group, but the key it splits by is always set (line
  609), and both passes number their sessions alike, so every record they share is
  called a duplicate.  `DataQuality` models what the code does; no property calls
  that right.
* `import_ru_opencorpora.py` does not offer the lemmas that miss the first cut to
  the second tier, whatever the comment at line 681 says; nothing verifies the
  checksum of its manifest, and a table cut short still loads.
* `export_lexicon.py`: an automatic form beats a curated entry's own accusative and
  instrumental and so reaches grammar and proofs (`OneGrammar` therefore speaks of
  the other three cases); collisions of the morphology maps are never dangerous;
  the quality report, and with it `--check`, depends on an installed package; of
  two slots of one subject the text of the last one is rendered; a new lemma with
  the same Latin name renames the functions of others.
* `build_input_lexicon.py` puts a set into `json.dump` once the cap is reached;
  corpora with a thousand occurrences of a seed form outvote the seed; the check
  compares only the numbers of entries of the Haskell module, so a stale module of
  the same size passes.
* `gf_release_audit.py` never reports a missing golden file, writes the golden file
  from a run that fails, truncates it in latency mode, lets the control sessions
  decide nothing, and leaves a worker that did not boot in time to the end of its
  pipes.

## Fairness

`SessionLock`: threads are scheduled (weak fairness of the registry steps, of
leaving and of releasing; a turn ends), and MVars wake their waiters in order
(strong fairness of `Enter`).  `Sidecar`: a thread that can go on goes on (weak
fairness; Python locks are not fair, but the requests of a behaviour are
finitely many, so a lock is free for good in the end), and a worker that reads
a shutdown closes and exits, which is needed since `proc.wait()` at the end of a
shutdown has no timeout.  Booting and finishing a turn are not fair: the
timeouts of the sidecar end those waits.

`DbPool`: weak fairness of the steps of every thread (an action ends, a deadline
passes) and of the delivery of a kill.  Polling for the lock is not fair, but the
calls of a behaviour are finitely many, so the lock is free for good in the end.

`SidecarLife`, `NetworkOwner` and the tools state no liveness and assume no fairness: a sidecar may
stay down and a maintainer may stop typing.

`LearningJobs`: the worker thread runs, the provider answers or times out
(`boundedProviderQuery`) and a lease that nobody uses runs out.  That is all
`Fairness` says; mishaps, enqueueing and appliers are not fair.  What else a
liveness property needs is the left side of its implication:

* `Reopened`: a session that ended is opened again; without it the jobs of a closed
  session wait, which is no fault.  `EveryRequestIsAnswered` needs no more than this:
  claims, questions and answers take no turn.
* `AppliedInTime`: an apply loop takes what is queued, a batch in hand is applied, and
  from some time on no apply lease runs out under its user.  With a network owner the
  code has such a loop (`Bootstrap.hs:402`): it comes every 5 seconds or sooner and
  may take 100 events, against a lease of 120 seconds; that it is in time is then
  likely, but not certain, hence a condition.

`EveryJobEnds` needs both.  Without a network owner only the user's turns drain the
queue (`Session/Autonomous.hs:315`).  When they come more than 120 seconds apart
(`Autonomous.hs:821`) the lease of an answer may run out while it is queued; it is
passed on again with a new token, the next batch holds both copies and is discarded
whole (`Session/Autonomous.hs:384`), and so again.  Nothing in the code bounds that,
so such a job may never end.  That refused quotas are finitely many (`MaxMishaps`) is
an assumption of both properties: a quota that is refused for ever gives the attempt
back for ever.

## Proofs

The proofs hold for every value of the constants under the named assumptions of
the modules (`SessionLock`: finite sets of threads and sessions, a positive cap;
`Sidecar`: the names for "nobody" are no request, session or worker; `LearningJobs`:
an answer has between one event and `Limit`; `NetworkOwner`: see below; natural or
positive bounds).

*SessionLock.*  `MutualExclusion` is not inductive.  The invariant `IndInv` adds:
a pinning thread has the lock that is registered for its session; the pins of an
entry are the threads between acquire and release, so an evictable entry has
none; private locks are named by stamps of one call, so no two sessions and no
unused stamp share one; taken locks are those of the threads inside
(`PinsCountHolders`, `PinnedLockStays`, `NoLeakedLock`, `HoldersDistinct` and
`CapRespected` in `SessionLockProofs`).  From it
follow mutual exclusion, the pin count, the cap, and that no lock leaks.

*TurnCommit.*  The invariant relates the stored revision with the versions the
processes hold: a version observed with its state is never ahead of the store,
and equal revisions mean equal histories.  `NoLostUpdate`,
`OnlyTheLastTurnIsUndone` follow step by step.  `AckedTurnsSurvive` and the
refinement of `TurnLog` are proved for instances without blocked turns
(`MaxBlocked = 0`; crashes, rollbacks and damage allowed): with blocked turns
they fail, as `turn_commit_overwrite` shows.

*Sidecar.*  Five invariants, each resting on those before it.  `PlaceInv`: what the
place of a thread says of its own variables.  `TokenInv`: an owner is a request of
the session, and a token in use is the owner's or was told by the owner's response.
`WorkerInv`: a worker is in one hand (`HoldInv`), a process that was not born or
whose handle is gone does nothing (`BornInv`), and the two pipes of a worker hold
exactly what its holder is at (`PipeInv`: nothing while it rests, a greeting at most
while it boots, then the request, the turn or the answer of the one that waits).
`RegInv`: a worker that may run a turn of a session is its registered one, or is
doomed.  `SentInv`: what was sent and what ran.  From them follow that an answer
belongs to its request (`AnsweredByOwnTurn`), that two processes never run turns of
one session (`OneRunner`), that no process is left behind, and the refinement of
`TurnDelivery`, in which a turn is started at most once and never after a refusal.

*DbPool.*  Only the newest call of a thread is on its way, the older ones are acting
(`StackShape`), and a killed thread acquires nothing (`KilledIsLeaving`); so the
depth of the lock is the number of calls between its acquisition and release
(`LockCounts`), which gives `Serialized` and `OnlyKillsAbandon`.  For the pool the
invariant says that the slot is full, in one hand or lost (`SlotInv`), that every
connection is idle, in one call or gone (`ConnInv`), and that a transaction left
open belongs to a call (`DirtyInv`).  An interrupted release is part of all this.

*LearningJobs.*  `WorkInv` says what rows and workers may look like and that a
dispatcher has leased what it has not passed on; from it follow `TopicIsFreed` and
the action property `LiveLeaseIsHoldersOwn`, action by action.  `AskInv` counts the
claims that have not asked yet: questions asked and these together never exceed the
attempts, which is why a refused quota may give an attempt back
(`QuestionsArePaid`).  `QueueInv` says that the update queues hold whole answers,
each event once and the events of an answer side by side, and that what a
dispatcher has still to pass on is not among them; the tokens that guarantee it are
never newer than `lease_generation`.  `TakenCutsNoAnswer` is the heart: if answers
lie in one piece, `takeUpdateBatch` cuts through none, whatever the limit.  So an
authorized batch holds each part of its requests once (`CountOfWhole`), from which
`AppliedExactlyOnce` and the refinement of `JobLife` follow.

*SidecarLife.*  The safety of a token rests on the order of `claim`: memory, then
the file, then the response.  `StoreInv` states it as facts that survive a restart:
a claim that was told or is about to be told is in memory while the sidecar is up,
and on disk, readable or not (`HeldIsKept`); what memory or disk know was admitted
(`KnownIsAdmitted`); a cleared claim is in neither (`ClearedIsGone`).  A file that
cannot be read makes the store refuse every claim, so nobody takes a session from
its owner.  `ProbeInv` relates the database with the workers: while a probe runs,
`existed` says whether a worker had opened it, so the removal undoes only what the
backend of the probe created.  The assumptions are that `NoOne` is no request and
that the bounds are natural numbers.

*NetworkOwner.*  `NetworkInv` goes key by key (`MatchesAt`): without a row there is
no evidence, no learned edge, and a curated seed edge is still curated
(`NothingLearned`); otherwise there is one row, its edge is the learned one, all
evidence is about its relation, and its count is that of the answers (`RowLearned`).
The last two are what keeps the next batch right: a corroboration finds its row, and
an admission finds none.  A turn without an owner must begin from the network of the
session; with an owner, the network has at least what the snapshot had (`Survives`),
and the finished turn changed nothing learned (`Derived`), so the rebase cannot bring
back an older count or relation (`RebasedAt`).  What a batch does is proved by
induction over its events and over the rows it counts up: a recursive function is
unfolded by `PlanSteps` and `CountSteps`, and `Induction` is over a set of naturals,
which needs no operator as a parameter.  `PlanOK` and `CountsReach` say what is true
after each event: a key is left alone, confirmed, or admitted once and then
confirmed, and rows, counts and evidence grow by the same number (`PlanAnswers`).
From the invariant follow `NetworkMatchesRows`, `EvidenceCountedOnce` and, step by
step, `AuthorityIsKept`.  Assumed are finitely many events whose edges are keys, and
resources without learned edges: every seed source of the code is curated, ingested,
self-play or corpus.  `RebaseKeepsOwner` and `RebaseKeepsTurn` say of any three
networks that the rebase loses no edge and no authority of either side.

*Tools* (`ToolProofs`).  What an export renders depends on the sources, not on the
files it writes (`SameRender`), so while it runs its first files are what it would
render again and the rest is still to write (`Exported`); a death or an edit ends
that claim, and so `FinishedExportIsUpToDate` needs no assumption.

`PublishedLexiconIsSound` rests on `PublishInv`: the two tables the importers write
hold automatic and reviewed rows only, whole, torn or still to be written, and a
passed check speaks of the files that are there.  The rest is about what the exporter
makes of such tables.  `InOrder` lists a finite set by how many elements come before
each; that there is one for every place (`SomeoneInEveryPlace`) is the pigeonhole
principle, so the rows are the curated entries (`RowsAre`), each key once because the
tables ignore a second row of a key (`CuratedEntriesAre`).  A surface of a row offers
the row's lemma, and a second one only past the gate (`Outranks`); names count the
rows before them with the same letters, so no two are equal (`NamesDiffer`).
`LexiconAssumption` asks that a seed names a key once, as the two seeds of the
repository do, that the alphabet orders the lemmas, and that dictionaries are finite.

For the input lexicon `Delivered` says, as `Exported` does, what a build has written;
past the first file it had no more forms than the cap.  Then every form is kept, some
option is ahead of every other (`WinnerIs`, the pigeonhole principle again), a seed form
keeps a lemma of the seed while the corpus has it less than a thousand times
(`SeedWins`), and the check finds what it asks for (`CheckAccepts`).
`InputAssumption` says of the constants what the code's tables have: 153 seed forms
for the 150 of the check, every required form and, by a form without a second lemma,
every required lemma among them, a guessed meaning for every word.

`AuditInv` follows
a turn of the release audit through the pipes: the lines of a worker are numbered by
its turns (`LogInv`), at most one request or answer is under way and the mark in the
log says which (`PipeInv`), and the turn to audit is the last of its session
(`DoneInv`), so audits and turns lie side by side (`AuditedInv`).  Only a turn that
timed out breaks this, and then the audit is on its way to `raised`.  With it
`AuditIsTrue` reduces to what the counts of a summary say of each turn
(`SummaryFacts`).  Assumed is a corpus that is not empty, without which the script
ends before it starts.

`CampaignInv` carries `CampaignIsAccountedFor`.  The counters of the session under way
say how long the streaks are its records end with: the transport and the sandbox
counter exactly, the validator counter at least the texts that do not parse and at
most the answers that are no use (`AtMost`, `AtLeast`), since an answer that parses
resets it before it is validated.  Hence no streak outgrows its limit and the turn that
fills one is the session's last (`Within`), which the records of a filed session keep
(`FiledInv`); every incident is such a streak of the session under way or of a filed one
(`IncidentsInv`), so the stretches the analysis measures again are those streaks
(`FoundAgain`).  No pass has a session twice and a session numbers its turns
(`AgendaInv`), so no turn is recorded twice (`NoneTwice`).  The five statuses partition the records
(`StatusCounts`), which bounds every term of the score (`Scores`).  `SoakAssumption`:
finitely many models, a number of sessions, whole deltas, and limits of at least 1
(3, 5 and 3 in the code; with a limit of 0 the first turn would exceed it).  The
breaker limit, the loop limit, the numbers of turns and the bounds of the verdict may
be anything.

Type correctness of `SessionLock` and `TurnCommit` and `NoLeakedLock` are theorems
only; no run checks them.

Every safety property the passing runs check is stated by a theorem.  Model-checked
only: all liveness (outside the prover's reach).

## Not modelled

The turn pipeline, semantics, rendering and the self model are pure functions of
one turn over text, out of TLC's reach; they enter `TurnCommit` as a turn that
saves, is blocked or raises.  Parsing of dictionaries and CSV files enters as the
constants the tools are run on; latencies and texts of reports are left out.  The
remaining scripts (harvesting, checks of documents, shell wrappers) are single
passes over their input.  `eval/gf_slot_realizability.py` prints a report of the
slots a grammar can realize and changes nothing.

## Plan

1. A composition of `Sidecar` with `TurnCommit`: a worker's turn is a save, a
   blocked turn or an exception, to state what "result_unknown" promises about
   durability.
2. The corroboration queue on the pattern of `LearningJobs`.
3. The composition of `NetworkOwner` with `LearningJobs`, so that a batch fails for
   the reasons it fails there.
4. Sessions that share the database lock but not the pool.
5. `LearningLoop`: the confirmation of hypotheses.
6. Promotion and rollback; bootstrap and migrations.
