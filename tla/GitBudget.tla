----------------------------- MODULE GitBudget ------------------------------
(***************************************************************************)
(* The Git process runner (crates/core/src/gitrun.rs): a budget of slots   *)
(* per pool, the bounded queue for them, and the managed process tree that *)
(* holds a slot until nothing of it can be alive.                          *)
(*                                                                         *)
(* A thread runs one command at a time (run) or keeps a cat-file session   *)
(* open (Session).  Both hold a ManagedChild: the process started, the     *)
(* root, leads a group of its own.  A slot is returned only by a finish    *)
(* that killed the group while the root was unreaped and then reaped the   *)
(* root; a child that cannot be confirmed dead keeps its slot for good.    *)
(*                                                                         *)
(* Unix.  A process that was sent SIGKILL counts as dead unless it is the  *)
(* root, which the code waits for.  Time and the caller's token are left   *)
(* out: a deadline may pass, and a cancel may come, at any moment.         *)
(***************************************************************************)
EXTENDS Naturals, FiniteSets

CONSTANTS
    Threads,        \* threads that run Git
    Pools,          \* GitPool: Local and Served
    MaxConcurrent,  \* MaxConcurrent[p]: MAX_CONCURRENT_GIT and _SERVED_GIT
    MaxQueued       \* MaxQueued[p]: MAX_QUEUED_GIT and _SERVED_GIT

ASSUME ThreadsAssumption == IsFiniteSet(Threads)
ASSUME LimitsAssumption ==
    /\ MaxConcurrent \in [Pools -> Nat]
    /\ MaxQueued \in [Pools -> Nat]

VARIABLES
    used,       \* used[p]: Budget.used
    waiting,    \* waiting[p]: Budget.waiting
    leaked,     \* leaked[p]: Budget.leaked
    holding,    \* holding[t]: t's HOLDING
    pc,         \* pc[t]: where t is in acquire, spawn, pump, finish and drop
    pool,       \* pool[t]: RunOptions.pool of its call
    child,      \* child[t]: its ManagedChild
    result,     \* result[t]: what its call will return, or how it was refused
    strays      \* strays[p]: trees of leaked slots not yet gone

budget == <<used, waiting, leaked>>
calls == <<holding, pc, pool, child, result>>
vars == <<budget, calls, strays>>

Places == {"idle", "queued", "spawning", "pumping", "session", "ended",
           "joining", "dropping"}
Results == {"none", "nested", "full", "ok", "stopped", "io", "cleanup",
            "dropped"}

(***************************************************************************)
(* The child.  root is the process spawned, rest says whether another      *)
(* process of its group has not been killed, pipes whether a pipe is open, *)
(* writer whether the scoped thread that feeds its stdin still runs.       *)
(* stranger records a signal sent after the root was reaped, when the pid  *)
(* may be somebody else's.                                                 *)
(***************************************************************************)
Children ==
    [root : {"alive", "exited", "reaped"}, rest : BOOLEAN, pipes : BOOLEAN,
     tree : {"unconfirmed", "confirmed", "failed"}, clean : BOOLEAN,
     batch : BOOLEAN, writer : BOOLEAN, stranger : BOOLEAN]
NoChild ==
    [root |-> "reaped", rest |-> FALSE, pipes |-> FALSE,
     tree |-> "unconfirmed", clean |-> TRUE, batch |-> FALSE,
     writer |-> FALSE, stranger |-> FALSE]

Spawned ==
    {c \in [root : {"alive"}, rest : BOOLEAN, pipes : {TRUE},
            tree : {"unconfirmed"}, clean : {FALSE}, batch : BOOLEAN,
            writer : BOOLEAN, stranger : {FALSE}] : c.batch => ~c.writer}

Lives(c) == c.root # "reaped" \/ c.rest

TypeOK ==
    /\ used \in [Pools -> Nat]
    /\ waiting \in [Pools -> Nat]
    /\ leaked \in [Pools -> Nat]
    /\ holding \in [Threads -> BOOLEAN]
    /\ pc \in [Threads -> Places]
    /\ pool \in [Threads -> Pools]
    /\ child \in [Threads -> Children]
    /\ result \in [Threads -> Results]
    /\ strays \in [Pools -> Nat]

Init ==
    /\ used = [p \in Pools |-> 0]
    /\ waiting = [p \in Pools |-> 0]
    /\ leaked = [p \in Pools |-> 0]
    /\ holding = [t \in Threads |-> FALSE]
    /\ pc = [t \in Threads |-> "idle"]
    /\ pool \in [Threads -> Pools]
    /\ child = [t \in Threads |-> NoChild]
    /\ result = [t \in Threads |-> "none"]
    /\ strays = [p \in Pools |-> 0]

(***************************************************************************)
(* Killing and reaping.  Each operator returns the set of its outcomes.    *)
(***************************************************************************)
Signalled(c) == [c EXCEPT !.stranger = @ \/ c.root = "reaped"]

\* The root may take its time to die of the signal.
DyingRoot(c) == IF c.root = "alive" THEN {"alive", "exited"} ELSE {c.root}

\* killpg: on failure a member may still live.
KillGroup(c) ==
    {[ok |-> TRUE, c |-> [Signalled(c) EXCEPT !.rest = FALSE, !.root = r]] :
        r \in DyingRoot(c)}
    \cup {[ok |-> FALSE, c |-> Signalled(c)]}

KillRoot(c) ==
    {[ok |-> TRUE, c |-> [Signalled(c) EXCEPT !.root = r]] : r \in DyingRoot(c)}
    \cup {[ok |-> FALSE, c |-> Signalled(c)]}

\* Within GRACE; waiting for the root may also fail.
Reap(c) ==
    {[ok |-> FALSE, c |-> c]}
    \cup {[ok |-> TRUE, c |-> [c EXCEPT !.root = "reaped"]] :
            r \in {c.root} \cap {"exited"}}

(* Mutant of KillTree: a failed kill is tried again. *)
KillTreeAgain(c) ==
    IF c.tree = "confirmed" THEN {[ok |-> TRUE, c |-> c]}
    ELSE {[ok |-> k.ok,
           c |-> [k.c EXCEPT !.tree = IF k.ok THEN "confirmed" ELSE "failed"]] :
            k \in KillGroup(c)}

\* A failed group kill is final: once the root is reaped the group id may
\* belong to others, so it is never signalled again.
KillTree(c) ==
    CASE c.tree = "confirmed" -> {[ok |-> TRUE, c |-> c]}
      [] c.tree = "failed" -> {[ok |-> FALSE, c |-> c]}
      [] c.tree = "unconfirmed" /\ c.root = "reaped" ->
            {[ok |-> FALSE, c |-> [c EXCEPT !.tree = "failed"]]}
      [] OTHER ->
            {[ok |-> k.ok,
              c |-> [k.c EXCEPT
                        !.tree = IF k.ok THEN "confirmed" ELSE "failed"]] :
                k \in KillGroup(c)}

\* Falls back to the root alone, but only while it is unreaped.
Fallback(k) == IF k.ok \/ k.c.root = "reaped" THEN {k.c}
               ELSE {r.c : r \in KillRoot(k.c)}

ReapOnce(c) == IF c.root = "reaped" THEN {[ok |-> TRUE, c |-> c]} ELSE Reap(c)

(* Mutant of Finish: the kill is enough, nobody waits for the root. *)
FinishKilled(c) ==
    IF c.clean THEN {[ok |-> TRUE, c |-> c]}
    ELSE {[ok |-> k.ok, c |-> [k.c EXCEPT !.pipes = FALSE, !.clean = k.ok]] :
            k \in KillTree(c)}

\* ManagedChild::finish: clean and without its slot, or failed with it.
Finish(c) ==
    IF c.clean THEN {[ok |-> TRUE, c |-> c]}
    ELSE UNION {UNION {
            {[ok |-> k.ok /\ w.ok,
              c |-> [w.c EXCEPT !.pipes = FALSE, !.clean = k.ok /\ w.ok]] :
                w \in ReapOnce(f)} :
            f \in Fallback(k)} :
         k \in KillTree(c)}

(***************************************************************************)
(* Slots.                                                                  *)
(***************************************************************************)
TakeSlot(t, p) ==
    /\ used' = [used EXCEPT ![p] = @ + 1]
    /\ holding' = [holding EXCEPT ![t] = TRUE]

GiveSlot(t) ==
    /\ used' = [used EXCEPT ![pool[t]] = @ - 1]
    /\ holding' = [holding EXCEPT ![t] = FALSE]
    /\ UNCHANGED <<waiting, leaked, strays>>

KeepSlot == UNCHANGED <<budget, holding, strays>>

\* Permit::leak: the slot stays taken, the thread is free.
Leak(t, c) ==
    /\ leaked' = [leaked EXCEPT ![pool[t]] = @ + 1]
    /\ holding' = [holding EXCEPT ![t] = FALSE]
    /\ strays' = IF Lives(c) THEN [strays EXCEPT ![pool[t]] = @ + 1] ELSE strays
    /\ UNCHANGED <<used, waiting>>

\* A finish that succeeds on a child not yet clean returns the slot.
Finished(t, f) ==
    /\ child' = [child EXCEPT ![t] = f.c]
    /\ IF f.ok /\ ~child[t].clean THEN GiveSlot(t) ELSE KeepSlot

Goto(t, place, r) ==
    /\ pc' = [pc EXCEPT ![t] = place]
    /\ result' = [result EXCEPT ![t] = r]
    /\ UNCHANGED pool

Return(t) == Goto(t, "idle", "none")

(***************************************************************************)
(* Permit::acquire.                                                        *)
(***************************************************************************)
\* A thread that holds a slot is refused at once.
AcquireNested(t) ==
    /\ pc[t] \in {"idle", "session"} /\ holding[t]
    /\ Goto(t, pc[t], "nested")
    /\ UNCHANGED <<budget, holding, child, strays>>

Begin(t, p, place, r) ==
    /\ pc' = [pc EXCEPT ![t] = place]
    /\ result' = [result EXCEPT ![t] = r]
    /\ pool' = [pool EXCEPT ![t] = p]

Admit(t, p) ==
    /\ pc[t] \in {"idle", "session"}
    /\ \/ /\ used[p] < MaxConcurrent[p]
          /\ TakeSlot(t, p)
          /\ Begin(t, p, "spawning", "none")
          /\ UNCHANGED <<waiting, leaked>>
       \/ /\ used[p] >= MaxConcurrent[p] /\ waiting[p] >= MaxQueued[p]
          /\ Begin(t, p, pc[t], "full")
          /\ UNCHANGED <<budget, holding>>
       \/ /\ used[p] >= MaxConcurrent[p] /\ waiting[p] < MaxQueued[p]
          /\ waiting' = [waiting EXCEPT ![p] = @ + 1]
          /\ Begin(t, p, "queued", "none")
          /\ UNCHANGED <<used, leaked, holding>>
    /\ UNCHANGED <<child, strays>>

Acquire(t, p) == ~holding[t] /\ Admit(t, p)

LeaveQueue(t) ==
    /\ pc[t] = "queued"
    /\ waiting' = [waiting EXCEPT ![pool[t]] = @ - 1]
    /\ UNCHANGED <<leaked, child, strays>>

(* Mutant of QueueCancelled: returns out of the loop, still counted. *)
QueueCancelledEarly(t) ==
    /\ pc[t] = "queued"
    /\ Return(t)
    /\ UNCHANGED <<budget, holding, child, strays>>

QueueCancelled(t) ==
    /\ LeaveQueue(t)
    /\ Return(t)
    /\ UNCHANGED <<used, holding>>

QueueGranted(t) ==
    /\ LeaveQueue(t)
    /\ used[pool[t]] < MaxConcurrent[pool[t]]
    /\ TakeSlot(t, pool[t])
    /\ Goto(t, "spawning", "none")

(* Mutant of QueueTimedOut: waits as long as a slot may still be freed. *)
QueueTimedOutOfSlots(t) ==
    /\ LeaveQueue(t)
    /\ leaked[pool[t]] >= MaxConcurrent[pool[t]]
    /\ Return(t)
    /\ UNCHANGED <<used, holding>>

QueueTimedOut(t) ==
    /\ LeaveQueue(t)
    /\ used[pool[t]] >= MaxConcurrent[pool[t]]
    /\ Return(t)
    /\ UNCHANGED <<used, holding>>

(***************************************************************************)
(* ManagedChild::spawn.                                                    *)
(***************************************************************************)
SpawnFails(t) ==
    /\ pc[t] = "spawning"
    /\ GiveSlot(t)
    /\ Return(t)
    /\ UNCHANGED child

\* No way to watch the root: everything is killed now, while the pid is ours.
WatchFails(t) ==
    /\ pc[t] = "spawning"
    /\ \E c \in Spawned : \E k \in KillGroup(c) : \E r \in KillRoot(k.c) :
       \E w \in IF r.ok THEN Reap(r.c) ELSE {r} :
            IF k.ok /\ w.ok THEN GiveSlot(t) ELSE Leak(t, w.c)
    /\ Return(t)
    /\ UNCHANGED child

PipesFail(t) ==
    /\ pc[t] = "spawning"
    /\ \E c \in Spawned : \E f \in Finish(c) :
        /\ child' = [child EXCEPT ![t] = f.c]
        /\ IF f.ok THEN GiveSlot(t) ELSE KeepSlot
        /\ Goto(t, "dropping", IF f.ok THEN "io" ELSE "cleanup")

\* run pumps at once; Session::spawn returns the child to its caller.
Spawn(t) ==
    /\ pc[t] = "spawning"
    /\ \E c \in Spawned :
        /\ child' = [child EXCEPT ![t] = c]
        /\ Goto(t, IF c.batch THEN "session" ELSE "pumping", "none")
    /\ KeepSlot

(***************************************************************************)
(* pump_until, for a command and for the end of a session.                 *)
(***************************************************************************)
(* Mutant of Outcome: what ended the pump hides the failed cleanup. *)
OutcomeFirst(f, r) == r

\* A cleanup failure is reported ahead of what ended the pump.
Outcome(f, r) == IF f.ok THEN r ELSE "cleanup"

PumpExits(t) ==
    /\ pc[t] = "pumping"
    /\ child[t].root # "alive" /\ ~child[t].pipes
    /\ \E f \in Finish(child[t]) :
        /\ Finished(t, f)
        /\ Goto(t, "ended", Outcome(f, "ok"))

\* The root is gone but its pipes are not: what holds them is killed, once
\* (leftovers_killed: a second kill_tree would do nothing).
KillLeftovers(t) ==
    /\ pc[t] = "pumping"
    /\ child[t].root # "alive" /\ child[t].pipes /\ child[t].tree = "unconfirmed"
    /\ \E k \in KillTree(child[t]) :
        /\ child' = [child EXCEPT ![t] = k.c]
        /\ Goto(t, IF k.ok THEN "pumping" ELSE "ended", Outcome(k, "none"))
    /\ KeepSlot

\* A cancel, the deadline, or more output than max_stdout.
PumpStops(t) ==
    /\ pc[t] = "pumping"
    /\ \E f \in Finish(child[t]) :
        /\ Finished(t, f)
        /\ Goto(t, "ended", Outcome(f, "stopped"))

\* Reading a pipe or watching the root failed.
PumpFails(t, r) ==
    /\ pc[t] = "pumping"
    /\ Goto(t, "ended", r)
    /\ KeepSlot /\ UNCHANGED child

\* run finishes again after the pump and keeps the pump's error; the end of
\* a session puts a failed cleanup first.
FinishAgain(t) ==
    /\ pc[t] = "ended"
    /\ \E f \in Finish(child[t]) :
        /\ Finished(t, f)
        /\ Goto(t, IF child[t].batch THEN "dropping" ELSE "joining",
                IF result[t] = "ok" \/ child[t].batch
                THEN Outcome(f, result[t]) ELSE result[t])

\* run waits for the thread that writes stdin; its error counts if nothing
\* else failed.
Join(t) ==
    /\ pc[t] = "joining" /\ ~child[t].writer
    /\ \E r \in {result[t]} \cup (IF result[t] = "ok" THEN {"io"} ELSE {}) :
        Goto(t, "dropping", r)
    /\ KeepSlot /\ UNCHANGED child

(***************************************************************************)
(* Session.                                                                *)
(***************************************************************************)
\* A cancelled or late read, or a failing pipe: fill_buf and Session::error.
SessionStops(t, r) ==
    /\ pc[t] = "session" /\ holding[t]
    /\ \E f \in Finish(child[t]) :
        /\ Finished(t, f)
        /\ Goto(t, "dropping", Outcome(f, r))

\* close, or an end of file on its output: pumped until the process exits.
SessionEnds(t) ==
    /\ pc[t] = "session" /\ holding[t]
    /\ Goto(t, "pumping", "none")
    /\ KeepSlot /\ UNCHANGED child

SessionDropped(t) ==
    /\ pc[t] = "session" /\ holding[t]
    /\ Goto(t, "dropping", "dropped")
    /\ KeepSlot /\ UNCHANGED child

\* Drop tries once more and leaks the slot if the tree is still in doubt.
DropChild(t) ==
    /\ pc[t] = "dropping"
    /\ \E f \in Finish(child[t]) :
        CASE child[t].clean -> KeepSlot
          [] ~child[t].clean /\ f.ok -> GiveSlot(t)
          [] OTHER -> Leak(t, f.c)
    /\ child' = [child EXCEPT ![t] = NoChild]
    /\ Return(t)

(***************************************************************************)
(* The processes.                                                          *)
(***************************************************************************)
ProcessStep(t) ==
    /\ \/ /\ child[t].root = "alive"
          /\ child' = [child EXCEPT ![t].root = "exited"]
       \/ /\ child[t].rest
          /\ child' = [child EXCEPT ![t].rest = FALSE]
       \/ /\ child[t].pipes
          /\ child' = [child EXCEPT ![t].pipes = FALSE]
       \/ /\ child[t].writer
          /\ child' = [child EXCEPT ![t].writer = FALSE]
    /\ UNCHANGED <<budget, holding, pc, pool, result, strays>>

StrayEnds(p) ==
    /\ strays[p] > 0
    /\ strays' = [strays EXCEPT ![p] = @ - 1]
    /\ UNCHANGED <<budget, calls>>

Queue(t) == QueueCancelled(t) \/ QueueGranted(t) \/ QueueTimedOut(t)

Start(t) == SpawnFails(t) \/ WatchFails(t) \/ PipesFail(t) \/ Spawn(t)

\* Steps of a call that its deadline bounds.
Deadline(t) == PumpStops(t) \/ FinishAgain(t) \/ Join(t) \/ DropChild(t)

Pump(t) ==
    \/ PumpExits(t)
    \/ KillLeftovers(t)
    \/ \E r \in {"io", "cleanup"} : PumpFails(t, r)

Session(t) ==
    \/ \E r \in {"stopped", "io"} : SessionStops(t, r)
    \/ SessionEnds(t)
    \/ SessionDropped(t)

Next ==
    \/ \E t \in Threads :
        \/ AcquireNested(t)
        \/ \E p \in Pools : Acquire(t, p)
        \/ Queue(t) \/ Start(t) \/ Pump(t) \/ Deadline(t) \/ Session(t)
        \/ ProcessStep(t)
    \/ \E p \in Pools : StrayEnds(p)

Spec == Init /\ [][Next]_vars

\* Waiting is bounded by queue_timeout, a run by timeout, and the owner of a
\* session ends it.  Nothing is assumed of Git, of its processes, or of who
\* cancels.
FairSpec ==
    /\ Spec
    /\ \A t \in Threads :
        /\ WF_vars(QueueGranted(t) \/ QueueTimedOut(t))
        /\ WF_vars(Start(t)) /\ WF_vars(Deadline(t))
        /\ WF_vars(Session(t))

-----------------------------------------------------------------------------
Holders(p) == {t \in Threads : holding[t] /\ pool[t] = p}
Queued(p) == {t \in Threads : pc[t] = "queued" /\ pool[t] = p}
Trees(p) == {t \in Threads : pool[t] = p /\ Lives(child[t])}

\* The counters are true whatever step failed: a slot is used by exactly the
\* threads that hold a permit and the leaks, never more than the pool has,
\* and every way out of the queue is counted (Permit::acquire, drop, leak).
SlotsAreCounted ==
    \A p \in Pools :
        /\ used[p] = Cardinality(Holders(p)) + leaked[p]
        /\ used[p] <= MaxConcurrent[p]
        /\ waiting[p] = Cardinality(Queued(p))
        /\ waiting[p] <= MaxQueued[p]

\* What the budget is for: the process trees that may still be alive, those
\* nobody manages any more included, never exceed a pool's slots.  Freeing a
\* slot before the tree is confirmed dead would break it (finish, Drop).
TreesWithinBudget ==
    \A p \in Pools : Cardinality(Trees(p)) + strays[p] <= MaxConcurrent[p]

\* A reaped root's pid may already be another program's: no retry of a
\* failed cleanup signals it or its group (kill_tree, finish).
NoSignalAfterReap == \A t \in Threads : ~child[t].stranger

\* No thread waits for a slot while it holds one, in either pool: the cycle
\* that would leave every holder waiting cannot form (HOLDING).
NoHoldAndWait == \A t \in Threads : pc[t] = "queued" => ~holding[t]

(***************************************************************************)
(* The inductive invariant.  Which calls hold a slot: those whose child is *)
(* not confirmed dead, and one that is about to start its child.           *)
(***************************************************************************)
Sound(c) ==
    /\ c \in Children
    /\ ~c.stranger
    /\ c.tree = "confirmed" => ~c.rest
    /\ c.clean => ~Lives(c)

Fits(place, h, c) ==
    CASE place \in {"idle", "queued"} -> ~h /\ c = NoChild
      [] place = "spawning" -> h /\ c = NoChild
      [] place \in {"pumping", "session"} -> h /\ ~c.clean
      [] OTHER -> h <=> ~c.clean

ThreadInv(t) == Sound(child[t]) /\ Fits(pc[t], holding[t], child[t])

IInv ==
    /\ TypeOK
    /\ \A t \in Threads : ThreadInv(t)
    /\ \A p \in Pools : strays[p] <= leaked[p]
    /\ SlotsAreCounted

\* A slot is lost only in a call that says so: no leak hides behind a
\* cancel, a timeout or a success (Session::error, run, next_event).  A
\* failed pipe read, a failed spawn and a session dropped without close do.
LeaksAreReported ==
    [][\A p \in Pools : leaked'[p] > leaked[p] =>
        \E t \in Threads :
            /\ pool[t] = p /\ holding[t] /\ ~holding'[t]
            /\ result[t] \in {"cleanup", "io", "dropped"} \/ pc[t] = "spawning"]_vars

Stuck(t) == pc[t] = "joining" /\ child[t].writer

\* Every call ends, though Git may hang, ignore its signals or hold its pipes
\* open for ever, though slots may leak until none is left, and though nobody
\* cancels.  One wait has no deadline: run joins the thread that writes the
\* command's stdin, which no kill unblocks when a process that escaped the
\* group, or survived a failed kill, keeps the pipe and does not read.
EveryCallReturns == \A t \in Threads : pc[t] # "idle" ~> pc[t] = "idle" \/ Stuck(t)
=============================================================================
