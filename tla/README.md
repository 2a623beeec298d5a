# snip-sync: TLA+ models of paste, commit replay, Git processes and tabs

snip-sync copies file contents and commits between Git working folders, by
clipboard text, locally or over ssh. A front end (the desktop application or
the CLI) shows a *preview* of what a paste would do; *Apply* then writes it. On
a remote folder the preview is made and kept by a worker process at the far end
of an ssh connection, and Apply must write exactly that preview, at most once,
and never leave the user with a false report of what happened.

Below all of it a runner keeps Git's processes within a budget; above it the
desktop's tabs start these jobs, cancel them, and must not quit under a write.

This directory holds TLA+ modules of the parts where these promises are decided,
TLC configurations that check them on small instances, and TLAPS proofs of the
safety properties for instances of any size. Paths below are relative to the
repository; line numbers are in `PROJECT.json` (`map`).

    tlc  -config MCRemotePaste.cfg MCRemotePaste.tla    # a run
    tlapm RemotePasteProofs.tla                         # the proofs of a module

Contents: 1 the system, 2 the modules, 3 the runs, 4 fairness, 5 the proofs,
6 what is abstracted, 7 three disagreements with the docs, 8 what is not modelled
and the plan.

## 1. The system

### Components, their state and how they interact

    desktop / CLI -> PasteTarget -> Client (pool, leases, limiter)
                                      | ssh: frames, one request at a time
                                    Worker (serve, Jobs, PreparedCache)
                                      |
                                    paste engine (transfer, restore, commits)
                                      | lock_heavy     | gitrun
                                    destination        git processes

| component | source | state | operations | what makes it correct |
|---|---|---|---|---|
| prepared paste leases | `crates/remote/src/client.rs` | `PreparedImportState`, permits in `PreparedImports.active`, the cleanup list, a pinned connection | reserve, prepare, apply, check, resend after TOKEN_GONE, drop, reap | a preview that can be applied again has written nothing; answers are true; permits neither leak nor return twice |
| connection pool and pump | `client.rs` | idle connections, Git calls in flight, handshakes under way, per connection the queue, the in-flight flag and the count of unasked frames | admit, take, connect, send, receive, put back, resend a read | an answer goes to the call that asked; only reads run twice; a good connection stays usable; every call returns |
| worker requests | `worker.rs`, `pasteserve.rs`, `gitserve.rs`, `copyserve.rs` | `State.stop`, per connection the chunks of a joined request | hello, read, dispatch, stop | a request is answered once, in order; stop ends everything |
| jobs | `jobs.rs` | `running`, `scans`, `waiting`, registered tokens, `stopped` | admit, run beside a heartbeat, deadline, release, cancel_all | limits hold, no slot leaks, no job outlives its request |
| payload cache | `prepared.rs` | entries, charges, next serial number | insert, take, restore, drop, prune | charges are exact and bounded, a token is used once and not past its expiry |
| paste engine | `crates/core/src/transfer.rs`, `restore.rs` | none of its own: the destination | plan, re-validate, lock, re-validate again, write | no write over a state the preview did not see |
| repository lock | `crates/core/src/workspace.rs` | the open file `snip-paste.lock` | lock_heavy, release on close | one heavy writer per repository, released when its process dies |
| commit copy and replay | `crates/core/src/commits.rs` | the repository | plan, check, replay commit by commit | stops at the first failure and says what is done |
| Git process runner | `crates/core/src/gitrun.rs` | permits, queue, leaked slots, live trees | run, wait, kill, confirm | the budget holds and no thread waits for itself |
| desktop tabs and quit | `crates/desktop-native/src/tabs.rs`, `lifecycle.rs` | tab phases, drain and quit intents | close, drain, vote, quit | no confirmed write is cut off |
| remote workspaces | `crates/desktop-native/src/remote.rs` | `Restoring` with its `open_seq`, retry timers, `scan_recovery`, two generations | reconnect, retry, open, scan, refresh | a late answer opens nothing that was closed or replaced; what a drain cut off comes back |
| views, widgets, parsing, settings, vendored code | the rest | display state | - | outside this project |

`PROJECT.json` (`components`) lists all of them with what is modelled of each.

A user's Apply passes through five actors: the client's call, the connection,
the worker's job, the destination's lock, and whoever else changes the
destination. Each can stop at any point: the user closes the preview, the
connection breaks, a deadline passes, the worker is killed, an editor saves.

### What is hard

* *Lost answers.* After the request left, a broken connection says nothing
  about the write: it may be done, running, about to start, or never start.
* *A late answer racing a deadline.* A read past its deadline is answered
  `Timeout`, which the client takes for "nothing written, try again". The same
  answer to a write would make the user paste twice.
* *Resending.* After TOKEN_GONE the whole text is sent once more.
* *Check, then act.* The preview's freshness is checked before and after the
  lock is taken; editors take no lock at all.
* *Crash.* A worker killed while it holds the lock must not block the
  repository, and its payloads are gone with it.
* *Counters kept by hand.* Permits, job slots, cache charges: each is given
  back on several paths, panics included.
* *Stop.* The stop flag and the cancellation of jobs are two steps; jobs that
  wait for a slot are in no registry.
* *No request ids.* A frame does not say whose answer it is; that each call gets
  its own rests on which connections the pool keeps and reuses.
* *A simulated disk.* The preview of a replay plans commit two on a layout that
  commit one is expected to leave, folders emptied and links replaced included.
* *Processes that do not die.* A kill or a reap may fail, and a pid that was
  reaped may already belong to another program.
* *Voting.* A quit waits for every tab, while tabs that are ready take up work
  again, close, open or give up.
* *Late answers of a cancelled open.* A reconnect that a drain cancelled may still
  succeed, after the tab closed, drained, or began another open; and what a
  stopped quit has cut off must be made again by whoever ends last.

`PROJECT.json` (`hazards`) lists each at its line, with the properties that
cover it or the reason that none does.

## 2. The modules

| module | models | proofs |
|---|---|---|
| `PasteOnce` | what a prepared paste promises, without any mechanism | - |
| `RemotePaste` | client lease, connection, worker job, token, lock and destination together | `RemotePasteProofs` |
| `PreparedCache` | `prepared.rs` in full | `PreparedCacheProofs` |
| `WorkerJobs` | `jobs.rs` with the connections of `worker.rs` around it | `WorkerJobsProofs` |
| `ClientPool` | the concurrent calls of one `Client`: limiter, pool, pump, resend | `ClientPoolProofs` |
| `CommitReplay` | pasting copied commits: preview and replay in `commits.rs`, `transfer.rs` | `CommitReplayProofs` |
| `GitBudget` | the Git process runner, `gitrun.rs` | `GitBudgetProofs` |
| `TabQuit` | the desktop's tabs, drains and quit: `tabs.rs`, `lifecycle.rs`, `main.rs` | `TabQuitProofs` |
| `RemoteTab` | one tab restored as a remote folder: reconnects, timers, late opens, scans: `remote.rs`, `main.rs` | `RemoteTabProofs` |
| `MC...` | values for the constants, symmetry | - |

**PasteOnce.** Two variables: which previews have been written, and what the
user was last told about each. *Retry*, *unwritten* and *result* are allowed
only when they are true; *unknown* always is. After *unknown*, *unwritten* or
*result* the preview is never asked for again.

**RemotePaste.** All variables are indexed by the lease, because a lease pins a
connection and a connection is a worker process.

| variables | code |
|---|---|
| `lease`, `mode`, `told` | `PreparedImportState` and the states around it; whether the call is an Apply or a check; what the caller got |
| `active`, `cleanup` | `PreparedImports.active`, the cleanup thread's list |
| `req`, `rep`, `hungUp`, `eof` | the request and the final frame on the wire, the reader gone, the pump's end-of-stream mark |
| `alive`, `phase`, `cancelled`, `token` | the worker process, its job's progress, the job's CancelToken, the lease's entry in the cache |
| `holds`, `otherHolds`, `dest`, `seen` | `snip-paste.lock`, the destination and the version a preview captured |
| `wrote` | history: how often a worker began to write for the lease |

`dest` counts edits (programs without the lock) and pastes (programs with it)
apart, since the lock promises something about the second only. The client's
actions are `reserve`, `prepare_*`, `begin_apply`, `finish_apply`, the drop of a
lease and the reaping; `finish_apply` is three actions: `FinishRetry`,
`FinishUsed` and, for a broken connection, `Lose`. The worker's
follow the order of the code: refuse before the token is looked at, take the
token, plan again, lock, re-validate, write, answer. `GiveBack` says which
answers put a payload back, `Answer` which answers a deadline may replace,
`Results` what `write_response` sends for a write.

**PreparedCache.** One action per critical section of the cache's mutex:
`Insert`, `Take`, `Restore`, `Drop`, their refusals, and `Tick` for the clock.
`insert` and `take` prune first, as in the code. A mismatch in `take` is a
`Take` followed by a `Drop`, because the code releases the mutex between.

**WorkerJobs.** `admit` is four actions for its first turn and its later ones,
in the order in which the code looks at things: in the first turn stopped,
cancelled, queue full, slot; in later turns the slot first. `run_job_with` is
`conn[c]`: *beating* (Pending frames), *late* (past the deadline), *draining*
(the master is gone, the job is not). `Send` is `write_response`, which may put
`TooLarge` in place of a result (`Framed`). `Worker::stop` is two actions, as the
code raises the flag before it cancels.

**ClientPool.** `pc[c]` is where a call is in `call_with`: limiter, pool, gate,
handshake, sending, waiting, and the way back through keep and the guards. A
connection is one record: its link, the worker's work on a request, the frames on
the wire, the pump with the frame it holds and the flag it has read, the queue and
the count of unasked frames. The pump reads the flag (`PumpReads`) and delivers
(`PumpNext`) in two steps, beside the caller that clears it, because that order
is what makes `unsolicited_frames` right. A link may die at any step,
and a request its worker had read may still run after that.

**CommitReplay.** The disk is a function from paths to absent, folder, link,
binary or text; HEAD and the index are functions from the paths they have to bytes.
`Node`, `Set`, `Live`, `Children`, `Applied` and `Pruned` are `PlannedLayout`: the disk it reads,
its overrides and its cuts. `Conflict` is `layout_conflicts`. `Layouts` simulates the
payload commit by commit for the preview. The replay is then one action per step
of `replay_commit`: `PlanNext`, `Recheck`, `Delete` and `Write` path by path,
`Remove` (rm --cached), `Add`, `Commit` (--only) and `Name` (rev-parse), each of which
may fail, with an editor that may change the worktree between any two. Git's part is
what a pathspec matches (`Matched`) and what becomes of the matched entries (`Updated`).

**GitBudget.** `used`, `waiting` and `leaked` are the `Budget` of a pool, `holding[t]`
is the thread-local `HOLDING`. `child[t]` is the `ManagedChild`: whether its
root lives, exited or was reaped, whether another process of the group lives,
whether the kill of the tree was confirmed. `KillTree`, `Reap` and `Finish` return
the set of their outcomes, failures included; the actions are the places where a
call waits: queued, spawning, pumping, finishing, joining its stdin writer,
dropping. A session (`cat-file --batch`) is a child that outlives one call.

**TabQuit.** One action per turn of the interface's event loop, with
the events it emits and the window's answer to them, since these run in the same
turn: `FinishQuit` tells the root, which counts the vote and decides or stops the
quit (`MaybeQuit`). Jobs and their Git children run beside it. `late[t]` is a read
a drain has outdated, `stale[t]` what it has cancelled and nobody has
fetched again. Deciding to quit (`quitSent`) and the exit are two turns, as in the
code, which queues the exit as a task.

**RemoteTab.** One tab in detail, the others being the environment
that ends or stops a quit (`quit`). `attempt` is the `open_seq` of `Restoring`,
`openSeq` that of the tab and `flight` the open under way with the sequence it was
started at; `timers` are the armed retry timers by the attempt they belong to, which is
how the code tells a stale one. `scan` is the scan of the current generations,
reading or waiting for its next try, `late` one they have outdated, and
`recovery` is `scan_recovery`. `Outdate` is what an accepted drain cancels,
`Resume` what is made again when it fails or its quit stops.

## 3. The runs

Violation runs are in section 7. `CHECK_DEADLOCK FALSE` is set where the system
may really stop: every preview spent, every master gone.

| run | module, instance | properties | states |
|---|---|---|---|
| `paste_writers` | RemotePaste: a file preview and a replay, two permits, under fairness | `ReadyIsUntouched` `AnswersAreTrue` `WriteSpendsToken` `OneWriterPerRepo` `PermitsAreCounted` `NoPasteOverUnseenPaste` `ImplementsPasteOnce` `LocksAreReleased` `UnknownSettles` | 687 k |
| `prepared_cache` | 4 bytes, 3 entries, payloads of 1 or 2, 5 tokens, 5 ticks | `BytesAreExact` `WithinLimits` `NothingServedLate` | 40 k |
| `worker_jobs` | three connections, two slots, one scan, one waiting | `CountersAreExact` `NoJobOutlivesItsRequest` `FramesAreTrue` | 4.7 M |
| `worker_jobs_live` | two connections, one of each limit, under fairness | `RequestsEnd` `StoppedDrains` | 128 k |
| `client_pool` | two calls, two connections, every limit 1, under fairness | `AnswersAreOwn` `WritesRunOnce` `PoolIsUsable` `CallsReturn` | 709 k |
| `commit_replay` | four paths, two-commit payloads on every small worktree, one edit | `PreviewIsWhatHappens` `RefusalTouchesNothing` `HistoryIsReported` `OthersAreKept` `CommitsAreExact` | 3.5 M |
| `git_budget` | two threads, both pools, one slot each, under fairness | `SlotsAreCounted` `TreesWithinBudget` `NoSignalAfterReap` `LeaksAreReported` `EveryCallReturns` | 221 k |
| `tab_quit` | two tabs and one more to open, under fairness | `WaitsForDrains` `CancelledReadsReturn` `QuitIsDecidedClear` `WritesKeepTheirTab` `QuitSettles` | 920 k |
| `remote_tab` | one tab, one folder too deep to walk, three attempts, four acts, under fairness | `ShowsItsFolder` `ScanResumes` `ClosedStaysClosed` `FailedIsRetried` | 297 k |

What they show:

* **paste_writers**: a preview the client offers for another Apply has
  written nothing and has nothing under way; a definite answer is true and no
  later write makes it false; a written payload is not in the cache. In a
  repository, nobody writes between a paste's last check and its last write; a
  paste never starts over another paste its preview did not see; and client,
  worker and wire together implement `PasteOnce`. Two permits put two
  workers at the destination, beside the other process. The permits are exactly those in use. A lock is released whatever became
  of the client, and after an unknown outcome the worker comes to rest, so what
  the user then finds in the folder is final.
* **prepared_cache**: the charges equal what is in memory under every
  interleaving of insert, take, restore, drop and prune; limits hold; no
  payload is served past its expiry. (That no step moves an expiry is proved,
  `ExpiryFixed`.)
* **worker_jobs**: the counters are exact, panics included; a connection
  never goes on past a running job; a final frame is the job's own response, but for
  the `Timeout` of a late read, which no write gets, and the `TooLarge` that stands
  for a result longer than a frame, a write's too. (The registry
  is exact and after the stop nothing new is admitted: `RegistryExact`,
  `StoppedAdmits`.)
* **worker_jobs_live**: every request ends and a stopped worker comes to rest.
* **client_pool**: although no frame names its request, no call is given the
  answer to another; a write runs at most once although a read is resent after a
  broken connection; a connection in the pool whose link lives is never mistaken
  for one out of step; and every call returns with the limiter and the
  gate empty.
* **commit_replay**: what the preview simulated is what each commit then finds
  on the disk, and exactly the commits the preview refuses are refused; a refusal
  comes before the first change; a commit is the one before it with the payload's
  bytes at the written paths, without the deleted ones, and with every other entry
  as it was (`CommitsAreExact`, one equation for all of HEAD's tree); the result names the commits that were made; what the user staged stays
  staged and is not committed.
* **git_budget**: slots and queue are exact through every failure; the
  process trees that may be alive never exceed the slots; no signal goes to a
  reaped pid; a slot lost for good is reported; every call ends. (No thread
  waits for a slot while it holds one: `HoldersDoNotWait`.)
* **tab_quit**: a quit waits for tabs that will report and no others, is decided
  only when nothing is written and no Git child is left, brings back every read it
  cancelled when it stops, and always comes to an end.
* **remote_tab**: whatever the user opens from a restored tab and however late
  answers land, it shows its own folder or none; a cancelled open that succeeds does not
  reopen a tab that is closing; at rest, a spinner or a pending retry has its
  scan; and a failed reconnect is made again although its timer fired during
  a drain or another open.

Bounds, and why they suffice:

* Two leases: one file preview, one replay. They differ in when
  the freshness is checked, when cancellation is polled and whether a check
  exists. Leases interact only through the permits and the
  destination, so a pair shows the interactions, and the proofs cover any
  number. Two permits, as many as previews, let both be applied at once; that no
  more than `MaxLeases` are handed out is proved for any number (`PermitsCounted`).
* `MaxEdits` 1 and `MaxOthers` 1: a preview compares versions for equality, so
  one change makes it stale. `MaxOthers` bounds all pastes counted when the
  other process starts one.
* The cache bounds make the byte limit (4 = 2 + 2) and the entry
  limit (3 = 1 + 1 + 1) bind separately; with a time to live of 2 in 5 ticks an
  entry can expire in the cache, in a job, and a second one after it. The last
  serial number is reached.
* Three connections with two slots, one scan slot and one place to
  wait reach all of: full, a scan refused while a slot is free, a full queue
  while a slot is free. They are interchangeable, hence the symmetry; the
  liveness run has none. Two connections suffice for it: one waits for the
  other.

* Two calls and two connections: a call is harmed by what one other left on a
  connection, and a resend needs a second. All limits are 1, so the pool
  overflows, and the limiter, the gate and the queue fill. The kinds (stat,
  read, write) are every pair that has a read or a write, up to renaming.
* Four paths: a folder, a file or folder in it, a file in that, and one beside
  them. This is the least depth at which emptying a folder empties its parent too
  and a file replaces a folder with a folder in it. The first commit has one
  or two entries of every kind (write, delete, rename), the second one; the third
  commit of a payload would again see only a layout two commits produce. Start
  states are every disk of these paths up to the kinds named in
  `MCCommitReplay`, with every text tracked, with a staged new file, or with the
  removal of a tracked file staged: so HEAD, index and worktree differ in each pair. One edit after the preview makes it stale; one during the
  replay reaches the recheck.
* Two threads with one slot per pool fill a pool and queue behind it, or run in
  both. One pool has a queue of one and the other of zero, so it is refused at
  once. A thread that holds a slot asks again in either pool.
* Three tabs, one of them not open at first: one that drained early, one that
  still drains, and one that appears while the quit waits. More tabs of either
  sort are treated alike, and the safety properties are proved for any number.
* Four acts (opens, closes, quits, refreshes, continued scans) and three attempts are
  a reconnect that is interrupted, made again and meets another open, with two acts
  left for the close and the quit. `MaxAttempts` also stops drains from failing, so that
  a tab is not drained and reconnected for ever. `MaxRetries` is the code's 3.

For each property a mutant (an operator beside the definition it replaces,
named in `PROJECT.json`) shows the property does speak about the code: a lost
state check, an early permit, a payload put back after a write, a Timeout for a
late write, a slot freed before its process is reaped, and so on.

## 4. Fairness and why the code justifies it

| assumption | in the code |
|---|---|
| `WF(JobStep(l))`: a worker's job goes on to its end | the job has a thread of its own; its Git calls have deadlines; the lock is tried, not waited for; files to write are finite |
| `WF(Lose(l))`: a call that stays open ends | the call has an absolute deadline and an idle limit |
| `WF(Reap(l))` | the cleanup thread kills the transport and polls until it exited |
| `WF(Admit(c))`, `WF(Poll(c))` | `admit` polls every 50 ms and gives up after `ADMIT_WAIT` |
| `WF(JobEnds(c))`: a job ends once cancelled, and a write ends anyway | reads poll their CancelToken; writes are finite |
| `WF(Deadline(c))`, `WF(Reply(c))` | `run_job_with` waits with a timeout, never without |
| ClientPool: `WF(CallStep(c))` | every wait of a call (limiter, gate, send, receive) has a deadline; nothing is assumed of pumps, workers and links |
| GitBudget: `WF(QueueGranted \/ QueueTimedOut)` | `acquire` waits on a condition with `queue_timeout` |
| GitBudget: `WF(Start)`, `WF(Deadline)` | a thread goes on; the pump ends at its timeout, kill and reap within `GRACE` |
| GitBudget: `WF(Session)` | the owner of a session uses it to its end or drops it |
| TabQuit: `WF(Poll(t))` | a draining tab is polled every 40 ms, and `DRAIN_DEADLINE` ends the drain |
| TabQuit: `WF(Exit)` | a queued task runs |
| RemoteTab: `WF(TimerFires)`, `WF(Landed)`, `WF(ScanSteps)` | a timer fires; an open and a scan have a deadline and end when cancelled, with whatever result |
| RemoteTab: `WF(Poll)`, `WF(QuitStops \/ Exits)` | the drain as above; the quit is decided or stops, which is `QuitSettles` of TabQuit |

No strong fairness is assumed. Nothing is assumed of users (closing, applying),
of crashes, of edits, of other processes (one may keep the lock for ever: our
pastes are then refused), of Git and its processes, of links, or of hanging up. A job that is never
cancelled need not end by itself: its deadline cancels it.

## 5. The proofs

Assumptions on the constants, all named in the modules: finitely many leases or
connections; limits and bounds are natural numbers; payload sizes are natural
numbers; the flags are Boolean. The limits of `ClientPool` are positive, as in the
code; no other limit has to be. The folders above a path are a chain, and a worktree
is rooted (`CommitReplay`). Each is evaluated by TLC in the runs of its module.

**RemotePasteProofs.** The invariants are not inductive alone: that a *Ready*
lease is unwritten depends on where the call's request, job and answer are. The
inductive invariant `IInv` has five parts:

* `LeaseInv(l)`, lease state by lease state: outside a call nothing is on the
  wire and no job runs; inside it (`CallInFlight`) the call is in exactly one
  place, request, job or answer, and whether it has written follows
  from the place. After *OutcomeUnknown* the abandoned call may still be in
  any of them, but no other call is.
* `ReaderInv(l)`: nobody hung up while the lease can still hear an answer.
* `TokenInv(l)`: a running job owns its payload or works on full text, so the
  cache never holds a payload whose job is running.
* `LockInv`: the lock's holders are the jobs between `Lock` and their end, at
  most one, never beside another process; and from the last check to
  the first write no paste has come in between.
* `PermitInv`: `active` is the number of leases that own a permit. Its proof is
  the only one that needs cardinalities.

The step lemmas are split by part and by actor (`ClientLocal`, `WorkerLock`,
`ClientPermits`, ...); `NextIInv` joins them. From `Invariance` follow
`TypeCorrect`, `ReadyUntouched`, `AnswersTrue`, `TokenSpent`, `OneWriter`,
`PermitsCounted`, the action property `NoUnseenPaste`, and `Refinement`: `Spec`
implements `PasteOnce`, each step being one abstract step or a stutter.
`AnswersTrue` and `Refinement` carry the hypothesis `ResultsFit`: without
it they are false (section 7).

**PreparedCacheProofs.** `IInv` is local to the proof module: types, both charges
equal those of the payloads in memory and are within their limits, stored and
owned payloads are apart, all tokens are different and below the next serial
number. The byte charge is a sum over a set, defined by recursion. `Units(S)` is the
set of pairs of a payload and a number up to its size; its cardinality satisfies
the equation of the recursion (`UnitsSum`), and by a minimal counterexample in the
strict subset order no other function does (`SumsUnique`). So `Charge` is a
cardinality (`ChargeIsUnits`), and disjoint sets add (`ChargeAdds`). Results:
`CountExact`, `BytesExact`, `LimitsHold`, `TokensUnique`, `EntriesBounded`,
`ExpiryFixed` and `ServedInTime`. The lemma `Pruned` does prune once for insert
and take.

**WorkerJobsProofs.** `IInv` adds `ServingInv` to the checked invariants: while
a request is served nothing final was sent and its job exists, a late
connection has a cancelled job, and only a job that returned has a response.
Without it `FramesAreTrue` is not preserved by the deadline. Counting lemmas
(`OccupyCounts`, `ReleaseCounts`, `KeptCounts`) state what a step
does to the three sets the counters stand for. Results: `TypeCorrect`,
`CountersExact`, `LimitsHold`, `RegistryExact`, `JobsEndFirst`, `FramesTrue`,
`StoppedAdmits`.

**ClientPoolProofs.** No frame says whose it is, so `IInv` follows a request through
the three parties that handle it:

* `HandsInv`: an opened connection is in one call's hand, once in the pool, or
  dropped.
* `StreamInv`: every connection is `Sound` (its counter counts its queue, an answer
  is the last thing said, only a cut link ends the stream), and whatever on it
  `Concerns` a request, work under way or a frame, is on the connection that the
  request's call holds, and the request was run. The one exception is a request
  read and not begun behind a cut link: it may still run, and then says nothing.
* `PoolInv`, `CallInv`: a connection in the pool, and one that a call is about to use
  or to keep, is `Quiet` (nothing left to say) and `Alive` (while the link is up its
  pump reads on). A call in an exchange has its flag `inFlight` set, which is why the
  pump takes nothing it hears for unasked.
* `RunsInv`: the runs of a request and the connections that still have to begin it
  (`Asked`) are together within a `Budget` that depends on where the call is, and
  which leaves a write 1 and a read 2.
* `LimitsInv`: the two counters are the numbers of calls that hold a slot.

The record operators (`Carried`, `Popped`, `Begun`, `Died`, ...) state what a step
makes of its one connection, each with a lemma `...Facts`; the step lemmas
(`ConnectionStep`, `EmptyHandedStep`, `InHandStep`, `LetGoStep`, `TakenStep`) treat
the actions by what they do to a call's hand. Results: `AnswersOwn`, `WritesOnce`,
`PoolUsable`, `LimitsHold`, `OwnedOnce`, `NothingBehind`.

**GitBudgetProofs.** `IInv` says of each thread which calls hold a slot: those
whose child is not confirmed dead, and one about to start its child (`Fits`), and
what is true of a child whatever failed (`Sound`: confirmed means no other
process of the group lives, clean means nothing lives). With it the step lemmas
need only the form of a step: what it does to its thread, to the slots (`SlotsKept`,
`SlotTaken`, `SlotLeft`) and to the queue (`QueueKept`, `QueueJoined`, `QueueLeft`),
and for each action `...IInv` shows that it has one of these forms. `FinishSound`
goes through every outcome of kill, fallback and reap. `LeaksReported` needs
one more invariant (`ReportInv`): the result of a call that is about to drop a child
it could not clean already says so.

**TabQuitProofs.** `IInv` adds three facts to the two checked invariants: a tab not
used yet is empty, a quit that waits for nobody is decided, and what is being
written can be seen. The lemmas `StopQuitKeeps`, `MaybeQuitKeeps`, `ResumeKeeps` and
`RemoveTabKeeps` are about the root's answer to an event, once for all the
actions that end in it.

**RemoteTabProofs.** `IInv` says that an open in flight is not newer than `openSeq`
and is outdated while the tab drains, that an open with the restore's number is
for the saved folder, and that a scan under way can be found in
`scan_recovery`. `ClosedStays` needs the second: the tab could only drain
into a folder by an open that is current. `RequestKeeps`, `ResumeKeeps` and
`LaunchKeeps` are about the three things many actions end in; the numbers of acts,
attempts and retries and the set of deep folders are arbitrary. Results: `TypeCorrect`,
`ShowsFolder`, `ScansResume`, `ClosedStays`.

**CommitReplayProofs.** `IInv` says how far the replay is (`ProgressInv`), that a
commit still checked is untouched (`UntouchedInv`), which paths its plan may name
(`PlanInv`), and what deletions and writes have done when nobody meddled
(`DiskInv`); `HistoryIsReported` is part of it through `ProgressInv`. The lemmas
`WithoutIs`, `WithIs`, `MatchedIs` and `UpdatedAt` state what the file and index
operators return. `CommitsExact` needs one invariant more, `ClearedInv`: below a path
that was deleted nothing stands but what was written since, as the worktree is
`Rooted`. With it the files a commit finds under its pathspecs are those the plan
wrote (`PresentIsWritten`), and `ExactStep` compares the two trees entry by entry.

`PreviewHappens` is that the simulation of the preview is right for every worktree
and payload, and deletions and writes in any order. The proof looks at a layout through
the `Kind` it gives each path: layouts of the same kinds are planned on alike and
conflict alike (`SamePlans`, `SameConflicts`). `SimInv` says that there is a sequence of
layouts the preview is about (`Foreseen`), and that the disk `Shows` what the layout
before commit `at` becomes by the deletions and writes done so far (`Showing`).
What it rests on:

* The layouts are a recursive function; that it exists for a payload of any
  length is `LayoutsExist`, by the smallest length for which it would not.
* What a layout puts somewhere is in folders (`Standing`): otherwise an override below a
  deleted or overwritten path would still be seen when the disk has lost it. Writes keep
  it (`WroteIs`) because replay fails on a target that is a folder.
* The order of deletions does not matter: the folders that the set of deleted
  paths leaves empty (`Hollow`) are those that the deletions empty one by one
  (`DeleteShows`). This takes that planned deletions are not under a symlink, and that two
  folders above a path are one above the other, which `AboveAssumption` says.
* The order of writes does not matter: `WroteAdds`, `WriteShows`.
* A worktree is `Rooted`: what is there is in folders or shows through a link to one.
  `StartsAssumption` says it of the worktrees pasted into, and every step keeps it.

The layouts are no variable, so no run of the project checks `SimInv`. TLC checked it
on the instance of `commit_replay` with a history variable that holds the layouts of the
preview at `Apply`, before it was proved.

**Only model-checked.** Liveness (`LocksAreReleased`, `UnknownSettles`, `RequestsEnd`,
`StoppedDrains`, `CallsReturn`, `EveryCallReturns`, `QuitSettles`,
`FailedIsRetried`): liveness under fairness and ENABLED are out of
the prover's reach. The three violation runs are counterexamples, which TLC finds.

## 6. What is abstracted

* **Time** is left out of all modules but `PreparedCache`: a deadline, an expiry
  or a failed heartbeat may come at any moment.
* **Content.** A plan is the destination version it was made from; per-file
  freshness is equality of versions. A write is a first write and at most one
  more counted change, then the end. Per-file failures are part of the result.
* **One destination.** All leases paste into the same folder, the contended
  case; `InRepo` says whether it has a lock. A plain folder has none, and the
  properties about writers say nothing of it.
* **Plan captures one version.** The code reads plan and freshness twice and
  refuses itself when they disagree (`transfer.rs`); the model takes the
  outcome of that as one step.
* **Wire.** One request or answer at a time in each direction, as the
  connection is used. TCP neither reorders nor duplicates; loss is the loss of
  the connection. An answer sent before the worker died may arrive or be
  lost; a request on the wire of a lost connection too.
* **Hang-up** after the worker's last frame was buffered is the same as a later
  `HangUp`.
* **Over-long results**: in `WorkerJobs` any result may be too long for a frame; in
  `RemotePaste` those of writes are so unless `ResultsFit`. Replies that are sent in
  chunks are results that fit.
* Left out of `RemotePaste`: an Apply without a lease, which is a write of
  `ClientPool`, and the path on which the cleanup thread could not be started.
* **ClientPool**: the worker is honest, it speaks only when asked and answers
  once. What version a call needs is old or new; idle connections do not expire
  (a dead one is found when it is taken); a request is one frame.
* **CommitReplay**: the file system is case-sensitive; a symlink points inside the
  worktree and away from Git directories (`commits.rs` documents the rest as a known
  limit at `target`); the destination is the root of its worktree. The bytes
  of a file are a number that says who wrote it. Files of one commit are
  written and deleted in any order, which allows the code's. `ls-tree` names a folder
  like a file, a pathspec matches what is below a path, and `rm --cached` without
  `-r` refuses a folder, as in Git. So a payload that deletes a file where HEAD has a
  folder whose removal the user staged commits that removal too: an entry below a
  path of the plan, which `CommitsAreExact` lists among the displaced. A
  commit that was made while its `rev-parse` failed is not in `created`, which
  is why the list may be one short. `Capture` is one step.
* **GitBudget**: Unix. What comes through the pipes is data, but that a pipe is
  held open is not. A process that was sent SIGKILL counts as dead unless it is
  the root, which the code waits for. `run` joins the thread that feeds stdin
  without a deadline; `EveryCallReturns` names that one case (`Stuck`).
* **TabQuit**: jobs are one read, outdated reads and one write per tab. A leaked
  local slot lets every close and quit fail from then on, as documented in
  `lifecycle.rs`. `poll` and the second look in `finish_intent`
  are one test, so the `resume` between them, which starts the deadline anew, does
  not happen.
* **RemoteTab**: delays are left out, that between two reconnects too; so is the order in
  which restored tabs connect, a delay of at most 30 seconds. A saved folder has a
  path. An open or a scan answers at any time, with success although it was
  cancelled. Of what a scan found only the folders too deep to walk are kept. A
  paste cannot be in the tab before its first folder, and what it does to a drain
  is in TabQuit.

## 7. Three disagreements with the documentation

* **A landed write reported as a failure** (`paste_overlong`, violates
  `LandedWriteIsReported`). `write_response` (`crates/remote/src/jobs.rs:292`)
  replaces every response longer than a frame by `TooLarge`, the result of a
  finished paste too. Its `errors` has one string per failed file
  (`crates/core/src/restore.rs:154`) and no bound; a payload of 32 MiB can name
  enough files that the list exceeds the 8 MiB frame when, say, the disk fills
  up. The client takes `TooLarge` for a definite refusal. The doc of
  `DeadlineReply::WriteOutcome` says "A write's own response is never
  discarded". The run sets `ResultsFit` to FALSE and nothing else.
* **A job that survives the stop uncancelled** (`worker_stop`, violates
  `StopCancelsEveryJob`). A job waiting for a slot is in no registry, so
  `cancel_all` misses it, and the loop of `admit` looks for a free slot before
  it looks at `stopped` (`jobs.rs:165`): the first cancelled job that ends lets
  it in. The doc of `Worker::stop` (`worker.rs:298`) says "Cancels every job".
  It takes more connections than slots on one `Worker`; the `serve --stdio`
  command has one connection, the tests have more. The consequence is small:
  `StoppedDrains` holds, because the job's own deadline ends it.
* **A reconnect that nobody repeats** (`restore_resume`, violates
  `InterruptedRestoreResumes`). A quit interrupts a restored tab's reconnect, the
  tab drains first, and while the quit waits for another tab the user opens a second
  folder of a host from this tab's menu. The quit stops:
  `resume_remote_restore` (`crates/desktop-native/src/remote.rs:1230`) finds the tab
  busy and returns, and the second open, being current, does not call it when it lands. The
  tab stays as it is, reconnecting: no timer is armed, and Refresh refuses because an
  attempt is noted (`remote.rs:1215`). The doc says "either the result or drain may
  land first" (`remote.rs:1228`): it counts on the open in flight being the
  interrupted one. Closing the tab helps.

One more is known and has no run. `maybe_quit` (`tabs.rs:904`) looks at every tab, sets
`quit_sent` and leaves the exit to a task of the next turn of the event loop, and
`apply_paste_restore` (`main.rs:5566`) looks neither at `quit_sent` nor at the tab's
phase. A paste confirmed by an event already queued would start to write and be cut
off, where `lifecycle.rs:33` says that a confirmed write "must not be cancelled
mid-write". The window is one turn of the loop; `TabQuit` has it, and
`QuitIsDecidedClear` therefore speaks of the decision and not of the exit.

## 8. What is not modelled, and the plan

Done, in the order of what can lose a user's data: `PasteOnce`, `RemotePaste`,
`PreparedCache`, `WorkerJobs`; then `GitBudget`, `TabQuit`, `ClientPool`,
`CommitReplay` and `RemoteTab`.

Not modelled, with the reason; the first three could follow in this order:

1. The outcomes of single files in a file paste (`restore.rs`), as a refinement of
   the write of `RemotePaste`. Operations run one after the other in plan order and a
   failed one is recorded and passed over; the order matters only for paths that
   depend on each other.
2. The rest of `remote.rs`: browsing a host's folders with a connection kept for the
   open that follows, and the pace of reconnects. After a leaked Git slot every drain
   fails, and a reconnect that succeeds is then made again without a pause
   (`remote.rs:1236`); saying so needs a clock.
3. The copying of commits (`commits.rs`), which only reads, and case-insensitive
   file systems in `CommitReplay`.
4. The joining of chunked requests (`worker.rs:437`): `frame_overflow` is never
   cleared on a connection, but a client refuses such a request before it sends it
   (`proto.rs:908`), so the state is not reached by the clients of this repository.
5. The cache of repository identities (`gitserve.rs:443`): a window of ten seconds
   chosen by the code; what is read from a replaced folder is data the modules do
   not have.
6. Pure functions (payload format, paths, filters, diffs, the commit graph's
   layout): they compute a value from a value and have unit and contract tests.
7. Parsing and building of ssh command lines, rendering, layout, input, wording,
   settings, clipboard, argument parsing, test drivers and vendored code. The
   desktop's views are by far the most lines of the repository; what they do that
   can go wrong in an order nobody tested is in `TabQuit` and `RemoteTab`.
