-------------------------- MODULE GitBudgetProofs ---------------------------
(***************************************************************************)
(* Proofs about GitBudget, for any threads, pools and limits.              *)
(*                                                                         *)
(* First what killing and reaping preserve of a child, then what one step  *)
(* of a thread does to its own state, to the slots and to the queue, and   *)
(* last, action by action, that every step is of one of these forms.       *)
(***************************************************************************)
EXTENDS GitBudget, FiniteSetTheorems, TLAPS

USE ThreadsAssumption, LimitsAssumption

(***************************************************************************)
(* The child.                                                              *)
(***************************************************************************)
\* While the root is unreaped a signal reaches no stranger.
LEMMA SignalledSound ==
    ASSUME NEW c \in Children, ~c.stranger, c.root # "reaped"
    PROVE  Signalled(c) = c
<1>1. (c.stranger \/ c.root = "reaped") = c.stranger
    BY DEF Children
<1>2. Signalled(c) = [c EXCEPT !.stranger = c.stranger]
    BY <1>1 DEF Signalled
<1> QED
    BY <1>2 DEF Children

LEMMA KillGroupSound ==
    ASSUME NEW c \in Children, ~c.stranger, c.root # "reaped",
           NEW k \in KillGroup(c)
    PROVE  /\ k.ok \in BOOLEAN /\ k.c \in Children
           /\ ~k.c.stranger /\ k.c.root # "reaped"
           /\ k.c.tree = c.tree /\ k.c.clean = c.clean /\ k.c.batch = c.batch
           /\ k.ok => ~k.c.rest
<1>1. CASE k = [ok |-> FALSE, c |-> c]
    BY <1>1
<1>2. ASSUME NEW r \in DyingRoot(c),
             k = [ok |-> TRUE, c |-> [c EXCEPT !.rest = FALSE, !.root = r]]
      PROVE  /\ k.ok /\ k.c \in Children
             /\ ~k.c.stranger /\ k.c.root # "reaped" /\ ~k.c.rest
             /\ k.c.tree = c.tree /\ k.c.clean = c.clean
             /\ k.c.batch = c.batch
    BY <1>2 DEF DyingRoot, Children
<1> QED
    BY <1>1, <1>2, SignalledSound DEF KillGroup

LEMMA KillRootSound ==
    ASSUME NEW c \in Children, ~c.stranger, c.root # "reaped",
           NEW k \in KillRoot(c)
    PROVE  /\ k.ok \in BOOLEAN /\ k.c \in Children
           /\ ~k.c.stranger /\ k.c.root # "reaped"
           /\ k.c.tree = c.tree /\ k.c.clean = c.clean /\ k.c.batch = c.batch
           /\ k.c.rest = c.rest
<1>1. CASE k = [ok |-> FALSE, c |-> c]
    BY <1>1
<1>2. ASSUME NEW r \in DyingRoot(c), k = [ok |-> TRUE, c |-> [c EXCEPT !.root = r]]
      PROVE  /\ k.ok /\ k.c \in Children
             /\ ~k.c.stranger /\ k.c.root # "reaped" /\ k.c.rest = c.rest
             /\ k.c.tree = c.tree /\ k.c.clean = c.clean
             /\ k.c.batch = c.batch
    BY <1>2 DEF DyingRoot, Children
<1> QED
    BY <1>1, <1>2, SignalledSound DEF KillRoot

LEMMA ReapSound ==
    ASSUME NEW c \in Children, ~c.stranger, NEW w \in ReapOnce(c)
    PROVE  /\ w.ok \in BOOLEAN /\ w.c \in Children
           /\ ~w.c.stranger
           /\ w.c.tree = c.tree /\ w.c.clean = c.clean /\ w.c.batch = c.batch
           /\ w.c.rest = c.rest
           /\ w.ok => w.c.root = "reaped"
<1>1. CASE w = [ok |-> FALSE, c |-> c]
    BY <1>1
<1>2. CASE w = [ok |-> TRUE, c |-> c] /\ c.root = "reaped"
    BY <1>2
<1>3. CASE w = [ok |-> TRUE, c |-> [c EXCEPT !.root = "reaped"]]
    BY <1>3 DEF Children
<1> QED
    BY <1>1, <1>2, <1>3 DEF ReapOnce, Reap

LEMMA KillTreeSound ==
    ASSUME NEW c \in Children, Sound(c), ~c.clean, NEW k \in KillTree(c)
    PROVE  /\ k.ok \in BOOLEAN /\ k.c \in Children
           /\ ~k.c.stranger /\ ~k.c.clean /\ k.c.batch = c.batch
           /\ k.ok => k.c.tree = "confirmed"
           /\ k.c.tree = "confirmed" => ~k.c.rest
<1>1. CASE c.tree = "confirmed"
  <2>1. k = [ok |-> TRUE, c |-> c]
      BY <1>1 DEF KillTree
  <2> QED
      BY <1>1, <2>1 DEF Sound
<1>2. CASE c.tree = "failed"
  <2>1. k = [ok |-> FALSE, c |-> c]
      BY <1>2 DEF KillTree
  <2> QED
      BY <1>2, <2>1 DEF Sound
<1>4. CASE c.tree = "unconfirmed" /\ c.root = "reaped"
  <2>1. k = [ok |-> FALSE, c |-> [c EXCEPT !.tree = "failed"]]
      BY <1>4 DEF KillTree
  <2> QED
      BY <2>1 DEF Sound, Children
<1>3. CASE c.tree = "unconfirmed" /\ c.root # "reaped"
  <2>1. PICK g \in KillGroup(c) :
            k = [ok |-> g.ok,
                 c |-> [g.c EXCEPT
                          !.tree = IF g.ok THEN "confirmed" ELSE "failed"]]
      BY <1>3 DEF KillTree
  <2>2. /\ g.ok \in BOOLEAN /\ g.c \in Children /\ ~g.c.stranger
        /\ ~g.c.clean /\ g.c.batch = c.batch /\ (g.ok => ~g.c.rest)
      BY <1>3, KillGroupSound DEF Sound
  <2> HIDE DEF KillGroup
  <2> QED
      BY <2>1, <2>2 DEF Children
<1> QED
    BY <1>1, <1>2, <1>3, <1>4 DEF Children

LEMMA FallbackSound ==
    ASSUME NEW k, k.ok \in BOOLEAN, k.c \in Children, ~k.c.stranger,
           ~k.c.clean, NEW f \in Fallback(k)
    PROVE  /\ f \in Children /\ ~f.stranger /\ ~f.clean
           /\ f.batch = k.c.batch /\ f.tree = k.c.tree /\ f.rest = k.c.rest
<1>1. CASE k.ok \/ k.c.root = "reaped"
    BY <1>1 DEF Fallback
<1>2. CASE ~k.ok /\ k.c.root # "reaped"
    BY <1>2, KillRootSound DEF Fallback
<1> QED
    BY <1>1, <1>2

\* finish succeeds exactly when the child is clean afterwards, and a clean
\* child has no process left.
LEMMA FinishSound ==
    ASSUME NEW c \in Children, Sound(c), NEW f \in Finish(c)
    PROVE  /\ f.ok \in BOOLEAN /\ Sound(f.c) /\ f.c.batch = c.batch
           /\ f.ok <=> f.c.clean
<1>1. CASE c.clean
  <2>1. f = [ok |-> TRUE, c |-> c]
      BY <1>1 DEF Finish
  <2> QED
      BY <1>1, <2>1
<1>2. CASE ~c.clean
  <2>1. PICK k \in KillTree(c) : \E x \in {
            {[ok |-> k.ok /\ w.ok,
              c |-> [w.c EXCEPT !.pipes = FALSE, !.clean = k.ok /\ w.ok]] :
                w \in ReapOnce(r)} : r \in Fallback(k)} : f \in x
      BY <1>2, ZenonT(20) DEF Finish
  <2>2. PICK r \in Fallback(k) : f \in
            {[ok |-> k.ok /\ w.ok,
              c |-> [w.c EXCEPT !.pipes = FALSE, !.clean = k.ok /\ w.ok]] :
                w \in ReapOnce(r)}
      BY <2>1
  <2>3. PICK w \in ReapOnce(r) :
            f = [ok |-> k.ok /\ w.ok,
                 c |-> [w.c EXCEPT !.pipes = FALSE, !.clean = k.ok /\ w.ok]]
      BY <2>2
  <2>4. /\ k.ok \in BOOLEAN /\ k.c \in Children
        /\ ~k.c.stranger /\ ~k.c.clean /\ k.c.batch = c.batch
        /\ k.ok => k.c.tree = "confirmed"
        /\ k.c.tree = "confirmed" => ~k.c.rest
      BY <1>2, KillTreeSound
  <2>5. /\ r \in Children /\ ~r.stranger /\ ~r.clean
        /\ r.batch = c.batch /\ r.tree = k.c.tree /\ r.rest = k.c.rest
      BY <2>4, FallbackSound
  <2>6. /\ w.ok \in BOOLEAN /\ w.c \in Children /\ ~w.c.stranger
        /\ w.c.tree = k.c.tree /\ w.c.batch = c.batch /\ w.c.rest = k.c.rest
        /\ w.ok => w.c.root = "reaped"
      BY <2>5, ReapSound
  <2> QED
      BY <2>3, <2>4, <2>6 DEF Sound, Lives, Children
<1> QED
    BY <1>1, <1>2 DEF Sound, Children

(***************************************************************************)
(* The slots and the queue.                                                *)
(***************************************************************************)
SlotCount ==
    \A p \in Pools : /\ used[p] = Cardinality(Holders(p)) + leaked[p]
                     /\ used[p] <= MaxConcurrent[p]

QueueCount ==
    \A p \in Pools : /\ waiting[p] = Cardinality(Queued(p))
                     /\ waiting[p] <= MaxQueued[p]

LEMMA CountsSplit == SlotsAreCounted <=> SlotCount /\ QueueCount
BY DEF SlotsAreCounted, SlotCount, QueueCount

LEMMA CountedFinite ==
    ASSUME NEW p \in Pools
    PROVE  /\ IsFiniteSet(Holders(p)) /\ Cardinality(Holders(p)) \in Nat
           /\ IsFiniteSet(Queued(p)) /\ Cardinality(Queued(p)) \in Nat
           /\ IsFiniteSet(Trees(p)) /\ Cardinality(Trees(p)) \in Nat
<1>1. /\ Holders(p) \subseteq Threads /\ Queued(p) \subseteq Threads
      /\ Trees(p) \subseteq Threads
    BY DEF Holders, Queued, Trees
<1> QED
    BY <1>1, FS_Subset, FS_CardinalityType

LEMMA SlotsKept ==
    ASSUME SlotCount, used' = used, leaked' = leaked, holding' = holding,
           \A u \in Threads : holding[u] => pool'[u] = pool[u]
    PROVE  SlotCount'
<1>1. \A p \in Pools : Holders(p)' = Holders(p)
    BY DEF Holders
<1> QED
    BY <1>1 DEF SlotCount

LEMMA SlotTaken ==
    ASSUME TypeOK, SlotCount, NEW t \in Threads, NEW q \in Pools,
           ~holding[t], used[q] < MaxConcurrent[q], TakeSlot(t, q),
           leaked' = leaked, pool'[t] = q,
           \A u \in Threads \ {t} : pool'[u] = pool[u]
    PROVE  SlotCount'
<1> SUFFICES ASSUME NEW p \in Pools
             PROVE  /\ used'[p] = Cardinality(Holders(p)') + leaked'[p]
                    /\ used'[p] <= MaxConcurrent[p]
    BY DEF SlotCount
<1>1. CASE p = q
  <2>1. Holders(p)' = Holders(p) \cup {t} /\ t \notin Holders(p)
      BY <1>1 DEF Holders, TakeSlot, TypeOK
  <2>2. Cardinality(Holders(p)') = Cardinality(Holders(p)) + 1
      BY <2>1, CountedFinite, FS_AddElement
  <2> QED
      BY <1>1, <2>2, CountedFinite DEF SlotCount, TakeSlot, TypeOK
<1>2. CASE p # q
  <2>1. Holders(p)' = Holders(p)
      BY <1>2 DEF Holders, TakeSlot, TypeOK
  <2> QED
      BY <1>2, <2>1 DEF SlotCount, TakeSlot, TypeOK
<1> QED
    BY <1>1, <1>2

\* The thread lets its slot go: to the pool, or for good.
LEMMA SlotLeft ==
    ASSUME TypeOK, SlotCount, NEW t \in Threads, holding[t], pool' = pool,
           holding' = [holding EXCEPT ![t] = FALSE],
           \/ /\ used' = [used EXCEPT ![pool[t]] = @ - 1]
              /\ leaked' = leaked
           \/ /\ used' = used
              /\ leaked' = [leaked EXCEPT ![pool[t]] = @ + 1]
    PROVE  SlotCount' /\ used' \in [Pools -> Nat]
<1>1. ASSUME NEW p \in Pools
      PROVE  /\ used'[p] = Cardinality(Holders(p)') + leaked'[p]
             /\ used'[p] <= MaxConcurrent[p] /\ used'[p] \in Nat
  <2>1. CASE p = pool[t]
    <3>1. Holders(p)' = Holders(p) \ {t} /\ t \in Holders(p)
        BY <2>1 DEF Holders, TypeOK
    <3>2. /\ IsFiniteSet(Holders(p)')
          /\ Cardinality(Holders(p)') = Cardinality(Holders(p)) - 1
        BY <3>1, CountedFinite, FS_RemoveElement
    <3>3. Cardinality(Holders(p)') \in Nat
        BY <3>2, FS_CardinalityType
    <3> QED
        BY <2>1, <3>2, <3>3, CountedFinite DEF SlotCount, TypeOK
  <2>2. CASE p # pool[t]
    <3>1. Holders(p)' = Holders(p)
        BY <2>2 DEF Holders, TypeOK
    <3> QED
        BY <2>2, <3>1 DEF SlotCount, TypeOK
  <2> QED
      BY <2>1, <2>2
<1> QED
    BY <1>1 DEF SlotCount, TypeOK

LEMMA QueueKept ==
    ASSUME QueueCount, waiting' = waiting,
           \A u \in Threads : /\ pc'[u] = "queued" <=> pc[u] = "queued"
                              /\ pc[u] = "queued" => pool'[u] = pool[u]
    PROVE  QueueCount'
<1>1. \A p \in Pools : Queued(p)' = Queued(p)
    BY DEF Queued
<1> QED
    BY <1>1 DEF QueueCount

LEMMA QueueJoined ==
    ASSUME TypeOK, QueueCount, NEW t \in Threads, NEW q \in Pools,
           pc[t] # "queued", waiting[q] < MaxQueued[q],
           waiting' = [waiting EXCEPT ![q] = @ + 1],
           Begin(t, q, "queued", "none")
    PROVE  QueueCount'
<1> SUFFICES ASSUME NEW p \in Pools
             PROVE  /\ waiting'[p] = Cardinality(Queued(p)')
                    /\ waiting'[p] <= MaxQueued[p]
    BY DEF QueueCount
<1>1. CASE p = q
  <2>1. Queued(p)' = Queued(p) \cup {t} /\ t \notin Queued(p)
      BY <1>1 DEF Queued, Begin, TypeOK
  <2>2. Cardinality(Queued(p)') = Cardinality(Queued(p)) + 1
      BY <2>1, CountedFinite, FS_AddElement
  <2> QED
      BY <1>1, <2>2, CountedFinite DEF QueueCount, TypeOK
<1>2. CASE p # q
  <2>1. Queued(p)' = Queued(p)
      BY <1>2 DEF Queued, Begin, TypeOK
  <2> QED
      BY <1>2, <2>1 DEF QueueCount, TypeOK
<1> QED
    BY <1>1, <1>2

LEMMA QueueLeft ==
    ASSUME TypeOK, QueueCount, NEW t \in Threads, LeaveQueue(t),
           NEW place, place # "queued", NEW r, Goto(t, place, r)
    PROVE  QueueCount' /\ waiting' \in [Pools -> Nat]
<1>1. ASSUME NEW p \in Pools
      PROVE  /\ waiting'[p] = Cardinality(Queued(p)')
             /\ waiting'[p] <= MaxQueued[p] /\ waiting'[p] \in Nat
  <2>1. CASE p = pool[t]
    <3>1. Queued(p)' = Queued(p) \ {t} /\ t \in Queued(p)
        BY <2>1 DEF Queued, LeaveQueue, Goto, TypeOK
    <3>2. /\ IsFiniteSet(Queued(p)')
          /\ Cardinality(Queued(p)') = Cardinality(Queued(p)) - 1
        BY <3>1, CountedFinite, FS_RemoveElement
    <3>3. Cardinality(Queued(p)') \in Nat
        BY <3>2, FS_CardinalityType
    <3> QED
        BY <2>1, <3>2, <3>3, CountedFinite DEF QueueCount, LeaveQueue, TypeOK
  <2>2. CASE p # pool[t]
    <3>1. Queued(p)' = Queued(p)
        BY <2>2 DEF Queued, LeaveQueue, Goto, TypeOK
    <3> QED
        BY <2>2, <3>1 DEF QueueCount, LeaveQueue, TypeOK
  <2> QED
      BY <2>1, <2>2
<1> QED
    BY <1>1 DEF QueueCount, LeaveQueue, TypeOK

(***************************************************************************)
(* The forms of a thread's step.                                           *)
(***************************************************************************)
\* What the invariant asks beside the counts.
Rest == /\ TypeOK
        /\ \A t \in Threads : ThreadInv(t)
        /\ \A p \in Pools : strays[p] <= leaked[p]

LEMMA IInvSplit == IInv <=> Rest /\ SlotCount /\ QueueCount
BY CountsSplit DEF IInv, Rest

\* What is left to show when no tree strays.
LEMMA Assembled ==
    ASSUME Rest, UNCHANGED <<leaked, strays>>, TypeOK',
           \A u \in Threads : ThreadInv(u)', SlotCount', QueueCount'
    PROVE  IInv'
<1>1. Rest'
    BY DEF Rest
<1> QED
    BY <1>1, IInvSplit, PTL

LEMMA NoChildSound == Sound(NoChild) /\ NoChild.clean
BY DEF Sound, NoChild, Children, Lives

LEMMA GotoTypes ==
    ASSUME TypeOK, NEW t \in Threads, NEW place \in Places, NEW r \in Results,
           Goto(t, place, r)
    PROVE  /\ pc' \in [Threads -> Places] /\ pc'[t] = place
           /\ \A u \in Threads \ {t} : pc'[u] = pc[u]
           /\ result' \in [Threads -> Results]
           /\ pool' = pool
BY DEF Goto, TypeOK

\* Its slot and the queue stay as they are.
LEMMA KeepGoto ==
    ASSUME IInv, NEW t \in Threads, pc[t] # "queued",
           NEW place \in Places, place # "queued", NEW r \in Results,
           Goto(t, place, r), KeepSlot,
           NEW c, Sound(c), child' = [child EXCEPT ![t] = c],
           Fits(place, holding[t], c)
    PROVE  IInv'
<1>1. Rest /\ SlotCount /\ QueueCount
    BY IInvSplit
<1>2. /\ pc' \in [Threads -> Places] /\ pc'[t] = place
      /\ \A u \in Threads \ {t} : pc'[u] = pc[u]
      /\ result' \in [Threads -> Results]
      /\ pool' = pool
    BY <1>1, GotoTypes DEF Rest
<1>3. /\ child' \in [Threads -> Children] /\ child'[t] = c
      /\ \A u \in Threads \ {t} : child'[u] = child[u]
    BY <1>1 DEF Rest, TypeOK, Sound
<1>4. Rest'
  <2>1. TypeOK'
      BY <1>1, <1>2, <1>3 DEF Rest, TypeOK, KeepSlot, budget
  <2>2. \A u \in Threads : ThreadInv(u)'
      BY <1>1, <1>2, <1>3 DEF Rest, ThreadInv, KeepSlot
  <2> QED
      BY <1>1, <2>1, <2>2 DEF Rest, KeepSlot, budget
<1>5. SlotCount'
    BY <1>1, <1>2, SlotsKept DEF KeepSlot, budget
<1>6. QueueCount'
    BY <1>1, <1>2, QueueKept DEF KeepSlot, budget
<1> QED
    BY <1>4, <1>5, <1>6, IInvSplit, PTL

\* Its slot goes back to the pool, or is leaked.
LEMMA LeaveGoto ==
    ASSUME IInv, NEW t \in Threads, pc[t] # "queued", holding[t],
           NEW place \in Places, place # "queued", NEW r \in Results,
           Goto(t, place, r), NEW d, GiveSlot(t) \/ Leak(t, d),
           NEW c, Sound(c), child' = [child EXCEPT ![t] = c],
           Fits(place, FALSE, c)
    PROVE  IInv'
<1>1. Rest /\ SlotCount /\ QueueCount
    BY IInvSplit
<1>2. /\ pc' \in [Threads -> Places] /\ pc'[t] = place
      /\ \A u \in Threads \ {t} : pc'[u] = pc[u]
      /\ result' \in [Threads -> Results]
      /\ pool' = pool
    BY <1>1, GotoTypes DEF Rest
<1>3. /\ child' \in [Threads -> Children] /\ child'[t] = c
      /\ \A u \in Threads \ {t} : child'[u] = child[u]
    BY <1>1 DEF Rest, TypeOK, Sound
<1>4. /\ holding' = [holding EXCEPT ![t] = FALSE]
      /\ waiting' = waiting
    BY DEF GiveSlot, Leak
<1>5. SlotCount' /\ used' \in [Pools -> Nat]
    BY <1>1, <1>2, <1>4, SlotLeft DEF GiveSlot, Leak, Rest
<1>6. /\ leaked' \in [Pools -> Nat] /\ strays' \in [Pools -> Nat]
      /\ \A p \in Pools : strays'[p] <= leaked'[p]
  <2>1. CASE GiveSlot(t)
      BY <2>1, <1>1 DEF GiveSlot, Rest, TypeOK
  <2>2. CASE Leak(t, d) /\ Lives(d)
      BY <2>2, <1>1 DEF Leak, Rest, TypeOK
  <2>3. CASE Leak(t, d) /\ ~Lives(d)
      BY <2>3, <1>1 DEF Leak, Rest, TypeOK
  <2> QED
      BY <2>1, <2>2, <2>3
<1>7. Rest'
  <2>1. TypeOK'
      BY <1>1, <1>2, <1>3, <1>4, <1>5, <1>6 DEF Rest, TypeOK
  <2>2. /\ holding'[t] = FALSE
        /\ \A u \in Threads \ {t} : holding'[u] = holding[u]
      BY <1>1, <1>4 DEF Rest, TypeOK
  <2>3. \A u \in Threads : ThreadInv(u)'
      BY <1>1, <1>2, <1>3, <2>2 DEF Rest, ThreadInv
  <2> QED
      BY <1>6, <2>1, <2>3 DEF Rest
<1>8. QueueCount'
    BY <1>1, <1>2, <1>4, QueueKept
<1> QED
    BY <1>5, <1>7, <1>8, IInvSplit, PTL

\* A finish on the thread's own child, which it may or may not clean.
LEMMA FinishStep ==
    ASSUME IInv, NEW t \in Threads,
           pc[t] \in {"pumping", "session", "ended", "joining", "dropping"},
           NEW f \in Finish(child[t]), Finished(t, f),
           NEW place \in {"ended", "joining", "dropping"}, NEW r \in Results,
           Goto(t, place, r)
    PROVE  IInv'
<1>1. /\ child[t] \in Children /\ Sound(child[t])
      /\ holding[t] <=> ~child[t].clean
    BY DEF IInv, TypeOK, ThreadInv, Fits
<1>2. /\ f.ok \in BOOLEAN /\ Sound(f.c) /\ (f.ok <=> f.c.clean)
    BY <1>1, FinishSound
<1>3. child' = [child EXCEPT ![t] = f.c]
    BY DEF Finished
<1>4. place \in Places /\ place # "queued" /\ pc[t] # "queued"
    BY DEF Places
<1>5. CASE f.ok /\ ~child[t].clean
  <2>1. GiveSlot(t) /\ holding[t]
      BY <1>1, <1>5 DEF Finished
  <2>2. Fits(place, FALSE, f.c)
      BY <1>2, <1>5 DEF Fits
  <2> QED
      BY <1>2, <1>3, <1>4, <2>1, <2>2, LeaveGoto
<1>6. CASE ~(f.ok /\ ~child[t].clean)
  <2>1. KeepSlot
      BY <1>6 DEF Finished
  <2>2. child[t].clean => f.ok
    <3>1. child[t].clean => f = [ok |-> TRUE, c |-> child[t]]
        BY DEF Finish
    <3> QED
        BY <3>1
  <2>3. Fits(place, holding[t], f.c)
      BY <1>1, <1>2, <1>6, <2>2 DEF Fits
  <2> QED
      BY <1>2, <1>3, <1>4, <2>1, <2>3, KeepGoto
<1> QED
    BY <1>5, <1>6

\* The child is left alone.
LEMMA ChildKept ==
    ASSUME IInv, NEW t \in Threads, UNCHANGED child
    PROVE  /\ child' = [child EXCEPT ![t] = child[t]]
           /\ Sound(child[t]) /\ Fits(pc[t], holding[t], child[t])
BY DEF IInv, TypeOK, ThreadInv

(***************************************************************************)
(* The actions.                                                            *)
(***************************************************************************)
LEMMA AcquireIInv ==
    ASSUME IInv, NEW t \in Threads, NEW p \in Pools, Acquire(t, p)
    PROVE  IInv'
<1>1. Rest /\ SlotCount /\ QueueCount
    BY IInvSplit
<1>2. /\ pc[t] \in {"idle", "session"} /\ ~holding[t] /\ UNCHANGED <<child, strays>>
    BY DEF Acquire, Admit
<1>3. /\ pc[t] = "idle" /\ child[t] = NoChild
    BY <1>1, <1>2 DEF Rest, ThreadInv, Fits
<1>4. ASSUME NEW place \in Places, NEW r \in Results, Begin(t, p, place, r)
      PROVE  /\ pc' \in [Threads -> Places] /\ pc'[t] = place
             /\ \A u \in Threads \ {t} : pc'[u] = pc[u]
             /\ result' \in [Threads -> Results]
             /\ pool' \in [Threads -> Pools] /\ pool'[t] = p
             /\ \A u \in Threads \ {t} : pool'[u] = pool[u]
    BY <1>1, <1>4 DEF Begin, Rest, TypeOK
<1>5. "spawning" \in Places /\ "queued" \in Places /\ "none" \in Results
      /\ "full" \in Results /\ pc[t] \in Places
    BY <1>1 DEF Places, Results, Rest, TypeOK
<1>6. CASE /\ used[p] < MaxConcurrent[p] /\ TakeSlot(t, p)
           /\ Begin(t, p, "spawning", "none")
           /\ UNCHANGED <<waiting, leaked>>
  <2>1. SlotCount'
      BY <1>1, <1>2, <1>4, <1>5, <1>6, SlotTaken DEF Rest
  <2>2. QueueCount'
      BY <1>1, <1>3, <1>4, <1>5, <1>6, QueueKept
  <2>3. /\ used' \in [Pools -> Nat]
        /\ holding' \in [Threads -> BOOLEAN] /\ holding'[t]
        /\ \A u \in Threads \ {t} : holding'[u] = holding[u]
      BY <1>1, <1>6 DEF TakeSlot, Rest, TypeOK
  <2>4. TypeOK'
      BY <1>1, <1>2, <1>4, <1>5, <1>6, <2>3 DEF Rest, TypeOK
  <2>5. \A u \in Threads : ThreadInv(u)'
      BY <1>1, <1>2, <1>3, <1>4, <1>5, <1>6, <2>3
         DEF Rest, ThreadInv, Fits
  <2> QED
      BY <1>1, <1>2, <1>6, <2>1, <2>2, <2>4, <2>5, Assembled
<1>7. CASE /\ Begin(t, p, pc[t], "full")
           /\ UNCHANGED <<budget, holding>>
  <2>1. SlotCount'
      BY <1>1, <1>2, <1>4, <1>5, <1>7, SlotsKept DEF budget
  <2>2. QueueCount'
      BY <1>1, <1>3, <1>4, <1>5, <1>7, QueueKept DEF budget
  <2>3. TypeOK'
      BY <1>1, <1>2, <1>4, <1>5, <1>7 DEF Rest, TypeOK, budget
  <2>4. \A u \in Threads : ThreadInv(u)'
      BY <1>1, <1>2, <1>4, <1>5, <1>7 DEF Rest, ThreadInv
  <2> QED
      BY <1>1, <1>2, <1>7, <2>1, <2>2, <2>3, <2>4, Assembled DEF budget
<1>8. CASE /\ waiting[p] < MaxQueued[p]
           /\ waiting' = [waiting EXCEPT ![p] = @ + 1]
           /\ Begin(t, p, "queued", "none")
           /\ UNCHANGED <<used, leaked, holding>>
  <2>1. SlotCount'
      BY <1>1, <1>2, <1>4, <1>5, <1>8, SlotsKept
  <2>2. QueueCount'
      BY <1>1, <1>3, <1>8, QueueJoined DEF Rest
  <2>3. TypeOK'
      BY <1>1, <1>2, <1>4, <1>5, <1>8 DEF Rest, TypeOK
  <2>4. \A u \in Threads : ThreadInv(u)'
      BY <1>1, <1>2, <1>3, <1>4, <1>5, <1>8 DEF Rest, ThreadInv, Fits
  <2> QED
      BY <1>1, <1>2, <1>8, <2>1, <2>2, <2>3, <2>4, Assembled
<1> QED
    BY <1>6, <1>7, <1>8 DEF Acquire, Admit

LEMMA QueueIInv ==
    ASSUME IInv, NEW t \in Threads, Queue(t)
    PROVE  IInv'
<1>1. Rest /\ SlotCount /\ QueueCount
    BY IInvSplit
<1>2. /\ LeaveQueue(t) /\ pc[t] = "queued" /\ UNCHANGED <<leaked, child, strays>>
    BY DEF Queue, QueueCancelled, QueueGranted, QueueTimedOut, LeaveQueue
<1>3. ~holding[t] /\ child[t] = NoChild /\ pool[t] \in Pools
    BY <1>1, <1>2 DEF Rest, ThreadInv, Fits, TypeOK
<1>4. ASSUME NEW place \in {"idle", "spawning"}, Goto(t, place, "none")
      PROVE  /\ pc' \in [Threads -> Places] /\ pc'[t] = place
             /\ \A u \in Threads \ {t} : pc'[u] = pc[u]
             /\ result' \in [Threads -> Results]
             /\ pool' = pool
             /\ QueueCount' /\ waiting' \in [Pools -> Nat]
  <2>1. place \in Places /\ "none" \in Results
      BY DEF Places, Results
  <2> QED
      BY <1>1, <1>2, <1>4, <2>1, GotoTypes, QueueLeft DEF Rest
<1>5. CASE Goto(t, "idle", "none") /\ UNCHANGED <<used, holding>>
  <2>1. SlotCount'
      BY <1>1, <1>2, <1>4, <1>5, SlotsKept
  <2>2. TypeOK'
      BY <1>1, <1>2, <1>4, <1>5 DEF Rest, TypeOK
  <2>3. \A u \in Threads : ThreadInv(u)'
      BY <1>1, <1>2, <1>3, <1>4, <1>5 DEF Rest, ThreadInv, Fits
  <2> QED
      BY <1>1, <1>2, <1>4, <1>5, <2>1, <2>2, <2>3, Assembled
<1>6. CASE QueueGranted(t)
  <2>1. /\ Goto(t, "spawning", "none") /\ TakeSlot(t, pool[t])
        /\ used[pool[t]] < MaxConcurrent[pool[t]]
      BY <1>6 DEF QueueGranted
  <2>2. SlotCount'
      BY <1>1, <1>2, <1>3, <1>4, <2>1, SlotTaken DEF Rest
  <2>3. /\ used' \in [Pools -> Nat]
        /\ holding' \in [Threads -> BOOLEAN] /\ holding'[t]
        /\ \A u \in Threads \ {t} : holding'[u] = holding[u]
      BY <1>1, <1>3, <2>1 DEF TakeSlot, Rest, TypeOK
  <2>4. TypeOK'
      BY <1>1, <1>2, <1>4, <2>1, <2>3 DEF Rest, TypeOK
  <2>5. \A u \in Threads : ThreadInv(u)'
      BY <1>1, <1>2, <1>3, <1>4, <2>1, <2>3 DEF Rest, ThreadInv, Fits
  <2> QED
      BY <1>1, <1>2, <1>4, <2>1, <2>2, <2>4, <2>5, Assembled
<1> QED
    BY <1>5, <1>6 DEF Queue, QueueCancelled, QueueTimedOut, Return

LEMMA SpawnedSound ==
    ASSUME NEW c \in Spawned
    PROVE  /\ c \in Children /\ Sound(c) /\ ~c.clean
           /\ c.root = "alive" /\ c.tree = "unconfirmed"
<1>1. /\ c \in Children /\ ~c.clean /\ ~c.stranger
      /\ c.root = "alive" /\ c.tree = "unconfirmed"
    BY DEF Spawned, Children
<1> QED
    BY <1>1 DEF Sound

LEMMA StartIInv ==
    ASSUME IInv, NEW t \in Threads, Start(t)
    PROVE  IInv'
<1>1. pc[t] = "spawning" /\ holding[t] /\ child[t] = NoChild
  <2>1. pc[t] = "spawning"
      BY DEF Start, SpawnFails, WatchFails, PipesFail, Spawn
  <2> QED
      BY <2>1 DEF IInv, ThreadInv, Fits
<1>2. /\ {"idle", "dropping", "session", "pumping"} \subseteq Places
      /\ {"none", "io", "cleanup"} \subseteq Results
    BY DEF Places, Results
<1>3. Fits("idle", FALSE, NoChild)
    BY DEF Fits
<1>4. UNCHANGED child => /\ child' = [child EXCEPT ![t] = NoChild]
                         /\ Sound(NoChild)
    BY <1>1, ChildKept
<1>5. CASE SpawnFails(t)
    BY <1>1, <1>2, <1>3, <1>4, <1>5, LeaveGoto DEF SpawnFails, Return
<1>6. CASE WatchFails(t)
  <2>1. PICK d : GiveSlot(t) \/ Leak(t, d)
      BY <1>6 DEF WatchFails
  <2> QED
      BY <1>1, <1>2, <1>3, <1>4, <1>6, <2>1, LeaveGoto DEF WatchFails, Return
<1>7. CASE PipesFail(t)
  <2> PICK c \in Spawned : \E f \in Finish(c) :
            /\ child' = [child EXCEPT ![t] = f.c]
            /\ IF f.ok THEN GiveSlot(t) ELSE KeepSlot
            /\ Goto(t, "dropping", IF f.ok THEN "io" ELSE "cleanup")
      BY <1>7 DEF PipesFail
  <2>1. PICK f \in Finish(c) :
            /\ child' = [child EXCEPT ![t] = f.c]
            /\ IF f.ok THEN GiveSlot(t) ELSE KeepSlot
            /\ Goto(t, "dropping", IF f.ok THEN "io" ELSE "cleanup")
      OBVIOUS
  <2>2. f.ok \in BOOLEAN /\ Sound(f.c) /\ (f.ok <=> f.c.clean)
      BY SpawnedSound, FinishSound
  <2>3. Fits("dropping", IF f.ok THEN FALSE ELSE holding[t], f.c)
      BY <1>1, <2>2 DEF Fits
  <2>4. CASE f.ok
      BY <1>1, <1>2, <2>1, <2>2, <2>3, <2>4, LeaveGoto
  <2>5. CASE ~f.ok
      BY <1>1, <1>2, <2>1, <2>2, <2>3, <2>5, KeepGoto
  <2> QED
      BY <2>4, <2>5
<1>8. CASE Spawn(t)
  <2>1. PICK c \in Spawned, place \in {"session", "pumping"} :
            /\ child' = [child EXCEPT ![t] = c]
            /\ Goto(t, place, "none")
            /\ KeepSlot
      BY <1>8 DEF Spawn
  <2>2. Fits(place, holding[t], c)
      BY <1>1, SpawnedSound DEF Fits
  <2> QED
      BY <1>1, <1>2, <2>1, <2>2, SpawnedSound, KeepGoto
<1> QED
    BY <1>5, <1>6, <1>7, <1>8 DEF Start

LEMMA OutcomeTyped ==
    ASSUME NEW f, NEW r \in Results
    PROVE  Outcome(f, r) \in Results
BY DEF Outcome, Results

LEMMA PumpIInv ==
    ASSUME IInv, NEW t \in Threads, Pump(t)
    PROVE  IInv'
<1>1. /\ pc[t] = "pumping" /\ holding[t] /\ ~child[t].clean
      /\ child[t] \in Children /\ Sound(child[t])
  <2>1. pc[t] = "pumping"
      BY DEF Pump, PumpExits, KillLeftovers, PumpFails
  <2> QED
      BY <2>1 DEF IInv, TypeOK, ThreadInv, Fits
<1>2. /\ {"pumping", "ended"} \subseteq Places
      /\ {"none", "io", "cleanup", "ok"} \subseteq Results
    BY DEF Places, Results
<1>3. CASE PumpExits(t)
    BY <1>1, <1>2, <1>3, FinishStep, OutcomeTyped DEF PumpExits
<1>4. CASE KillLeftovers(t)
  <2>1. PICK k \in KillTree(child[t]), place \in {"pumping", "ended"} :
            /\ child' = [child EXCEPT ![t] = k.c]
            /\ Goto(t, place, Outcome(k, "none"))
            /\ KeepSlot
      BY <1>4 DEF KillLeftovers
  <2>2. Sound(k.c) /\ ~k.c.clean
      BY <1>1, KillTreeSound DEF Sound
  <2>3. Fits(place, holding[t], k.c)
      BY <1>1, <2>2 DEF Fits
  <2> QED
      BY <1>1, <1>2, <2>1, <2>2, <2>3, OutcomeTyped, KeepGoto
<1>5. ASSUME NEW r \in {"io", "cleanup"}, PumpFails(t, r)
      PROVE  IInv'
  <2>1. Fits("ended", holding[t], child[t])
      BY <1>1 DEF Fits
  <2> QED
      BY <1>1, <1>2, <1>5, <2>1, ChildKept, KeepGoto DEF PumpFails
<1> QED
    BY <1>3, <1>4, <1>5 DEF Pump

LEMMA DeadlineIInv ==
    ASSUME IInv, NEW t \in Threads, Deadline(t)
    PROVE  IInv'
<1>1. /\ pc[t] \in {"pumping", "ended", "joining", "dropping"}
      /\ child[t] \in Children /\ Sound(child[t])
      /\ holding[t] <=> ~child[t].clean
      /\ result[t] \in Results
  <2>1. pc[t] \in {"pumping", "ended", "joining", "dropping"}
      BY DEF Deadline, PumpStops, FinishAgain, Join, DropChild
  <2> QED
      BY <2>1 DEF IInv, TypeOK, ThreadInv, Fits
<1>2. /\ {"idle", "ended", "joining", "dropping"} \subseteq Places
      /\ {"none", "io", "stopped"} \subseteq Results
    BY DEF Places, Results
<1>3. CASE PumpStops(t)
    BY <1>1, <1>2, <1>3, FinishStep, OutcomeTyped DEF PumpStops
<1>4. CASE FinishAgain(t)
  <2>1. PICK f \in Finish(child[t]) :
            /\ Finished(t, f)
            /\ Goto(t, IF child[t].batch THEN "dropping" ELSE "joining",
                    IF result[t] = "ok" \/ child[t].batch
                    THEN Outcome(f, result[t]) ELSE result[t])
      BY <1>4 DEF FinishAgain
  <2>2. PICK place \in {"dropping", "joining"}, r \in Results : Goto(t, place, r)
      BY <1>1, <2>1, OutcomeTyped
  <2> QED
      BY <1>1, <2>1, <2>2, FinishStep
<1>5. CASE Join(t)
  <2>1. PICK r \in {result[t], "io"} : Goto(t, "dropping", r)
      BY <1>5 DEF Join
  <2>2. Fits("dropping", holding[t], child[t])
      BY <1>1 DEF Fits
  <2>3. r \in Results /\ pc[t] # "queued" /\ UNCHANGED child /\ KeepSlot
      BY <1>1, <1>2, <1>5 DEF Join
  <2> QED
      BY <1>2, <2>1, <2>2, <2>3, ChildKept, KeepGoto
<1>6. CASE DropChild(t)
  <2>1. PICK f \in Finish(child[t]) :
            CASE child[t].clean -> KeepSlot
              [] ~child[t].clean /\ f.ok -> GiveSlot(t)
              [] OTHER -> Leak(t, f.c)
      BY <1>6 DEF DropChild
  <2>2. /\ child' = [child EXCEPT ![t] = NoChild]
        /\ Goto(t, "idle", "none") /\ pc[t] # "queued"
        /\ Fits("idle", FALSE, NoChild) /\ Sound(NoChild)
      BY <1>6, NoChildSound DEF DropChild, Return, Fits
  <2>3. CASE child[t].clean
    <3>1. KeepSlot /\ Fits("idle", holding[t], NoChild)
        BY <1>1, <2>1, <2>3 DEF Fits
    <3> QED
        BY <1>2, <2>2, <3>1, KeepGoto
  <2>4. CASE ~child[t].clean
    <3>1. holding[t] /\ (GiveSlot(t) \/ Leak(t, f.c))
        BY <1>1, <2>1, <2>4
    <3> QED
        BY <1>2, <2>2, <3>1, LeaveGoto
  <2> QED
      BY <2>3, <2>4
<1> QED
    BY <1>3, <1>4, <1>5, <1>6 DEF Deadline

LEMMA SessionIInv ==
    ASSUME IInv, NEW t \in Threads, Session(t)
    PROVE  IInv'
<1>1. /\ pc[t] = "session" /\ holding[t] /\ ~child[t].clean
      /\ child[t] \in Children /\ Sound(child[t])
  <2>1. pc[t] = "session"
      BY DEF Session, SessionStops, SessionEnds, SessionDropped
  <2> QED
      BY <2>1 DEF IInv, TypeOK, ThreadInv, Fits
<1>2. /\ {"pumping", "dropping"} \subseteq Places
      /\ {"none", "io", "stopped", "dropped"} \subseteq Results
    BY DEF Places, Results
<1>3. ASSUME NEW r \in {"stopped", "io"}, SessionStops(t, r)
      PROVE  IInv'
    BY <1>1, <1>2, <1>3, FinishStep, OutcomeTyped DEF SessionStops
<1>4. ASSUME NEW place \in {"pumping", "dropping"}, NEW r \in Results,
             Goto(t, place, r), KeepSlot, UNCHANGED child
      PROVE  IInv'
  <2>1. Fits(place, holding[t], child[t])
      BY <1>1 DEF Fits
  <2> QED
      BY <1>1, <1>2, <1>4, <2>1, ChildKept, KeepGoto
<1> QED
    BY <1>2, <1>3, <1>4 DEF Session, SessionEnds, SessionDropped

LEMMA NestedIInv ==
    ASSUME IInv, NEW t \in Threads, AcquireNested(t)
    PROVE  IInv'
<1>1. /\ Goto(t, pc[t], "nested") /\ KeepSlot /\ UNCHANGED child
      /\ pc[t] \in Places /\ pc[t] # "queued" /\ "nested" \in Results
    BY DEF AcquireNested, KeepSlot, IInv, TypeOK, Results
<1> QED
    BY <1>1, ChildKept, KeepGoto

LEMMA ProcessIInv ==
    ASSUME IInv, NEW t \in Threads, ProcessStep(t)
    PROVE  IInv'
<1>1. Rest /\ SlotCount /\ QueueCount
    BY IInvSplit
<1>2. child[t] \in Children /\ Sound(child[t]) /\ child[t] # NoChild
    BY <1>1 DEF Rest, TypeOK, ThreadInv, ProcessStep, NoChild
<1>3. /\ child' \in [Threads -> Children]
      /\ Sound(child'[t]) /\ child'[t].clean = child[t].clean
      /\ \A u \in Threads \ {t} : child'[u] = child[u]
  <2>1. PICK c \in {[child[t] EXCEPT !.root = "exited"],
                    [child[t] EXCEPT !.rest = FALSE],
                    [child[t] EXCEPT !.pipes = FALSE],
                    [child[t] EXCEPT !.writer = FALSE]} :
            /\ child' = [child EXCEPT ![t] = c]
            /\ c.root = "exited" => child[t].root = "alive" \/ c.root = child[t].root
      BY <1>1, <1>2 DEF ProcessStep, Rest, TypeOK, Children
  <2>2. c \in Children /\ c.clean = child[t].clean
      BY <1>2, <2>1 DEF Children
  <2>3. Sound(c)
      BY <1>1, <1>2, <2>1 DEF Sound, Children, Lives, ProcessStep
  <2> QED
      BY <1>1, <2>1, <2>2, <2>3 DEF Rest, TypeOK
<1>4. TypeOK'
    BY <1>1, <1>3 DEF Rest, TypeOK, ProcessStep, budget
<1>5. \A u \in Threads : ThreadInv(u)'
    BY <1>1, <1>2, <1>3 DEF Rest, ThreadInv, Fits, ProcessStep
<1>6. SlotCount'
    BY <1>1, SlotsKept DEF ProcessStep, budget
<1>7. QueueCount'
    BY <1>1, QueueKept DEF ProcessStep, budget
<1> QED
    BY <1>1, <1>4, <1>5, <1>6, <1>7, Assembled DEF ProcessStep, budget

LEMMA StrayIInv ==
    ASSUME IInv, NEW p \in Pools, StrayEnds(p)
    PROVE  IInv'
<1>1. Rest /\ SlotCount /\ QueueCount
    BY IInvSplit
<1>2. Rest'
    BY <1>1 DEF Rest, TypeOK, ThreadInv, StrayEnds, budget, calls
<1>3. SlotCount'
    BY <1>1, SlotsKept DEF StrayEnds, budget, calls
<1>4. QueueCount'
    BY <1>1, QueueKept DEF StrayEnds, budget, calls
<1> QED
    BY <1>2, <1>3, <1>4, IInvSplit, PTL

LEMMA InitIInv == Init => IInv
<1> SUFFICES ASSUME Init PROVE IInv
    OBVIOUS
<1>1. Rest
    BY NoChildSound
       DEF Init, Rest, TypeOK, ThreadInv, Fits, Sound, Places, Results
<1>2. \A p \in Pools : Holders(p) = {} /\ Queued(p) = {}
    BY DEF Init, Holders, Queued
<1>3. \A p \in Pools :
          /\ used[p] = 0 /\ waiting[p] = 0 /\ leaked[p] = 0
          /\ 0 <= MaxConcurrent[p] /\ 0 <= MaxQueued[p]
    BY DEF Init
<1>5. \A p \in Pools :
          Cardinality(Holders(p)) = 0 /\ Cardinality(Queued(p)) = 0
    BY <1>2, FS_EmptySet
<1>4. SlotCount /\ QueueCount
    BY <1>3, <1>5 DEF SlotCount, QueueCount
<1> QED
    BY <1>1, <1>4, IInvSplit

LEMMA NextIInv == IInv /\ [Next]_vars => IInv'
<1> SUFFICES ASSUME IInv, [Next]_vars PROVE IInv'
    OBVIOUS
<1>1. CASE UNCHANGED vars
  <2>1. Rest /\ SlotCount /\ QueueCount
      BY IInvSplit
  <2>2. Rest'
      BY <1>1, <2>1 DEF Rest, TypeOK, ThreadInv, vars, budget, calls
  <2>3. SlotCount' /\ QueueCount'
      BY <1>1, <2>1, SlotsKept, QueueKept DEF vars, budget, calls
  <2> QED
      BY <2>2, <2>3, IInvSplit, PTL
<1>2. CASE Next
    BY <1>2, NestedIInv, AcquireIInv, QueueIInv, StartIInv, PumpIInv,
       DeadlineIInv, SessionIInv, ProcessIInv, StrayIInv DEF Next
<1> QED
    BY <1>1, <1>2

(* The inductive invariant of the runner.                                  *)
THEOREM Invariance == Spec => []IInv
BY InitIInv, NextIInv, PTL DEF Spec

(* Every variable keeps its type.                                          *)
THEOREM TypeCorrect == Spec => []TypeOK
<1>1. IInv => TypeOK
    BY DEF IInv
<1> QED
    BY <1>1, Invariance, PTL

(* However a spawn, a kill or a wait fails, each pool's counters are those *)
(* of Permit::acquire, drop and leak: no slot and no place in the queue is *)
(* lost or given back twice.                                               *)
THEOREM SlotsCounted == Spec => []SlotsAreCounted
<1>1. IInv => SlotsAreCounted
    BY DEF IInv
<1> QED
    BY <1>1, Invariance, PTL

(* The process trees that may be alive, the abandoned ones included, never *)
(* exceed a pool's slots: finish gives a slot back only for a dead tree.   *)
THEOREM TreesBounded == Spec => []TreesWithinBudget
<1>1. IInv => TreesWithinBudget
  <2> SUFFICES ASSUME IInv, NEW p \in Pools
               PROVE  Cardinality(Trees(p)) + strays[p] <= MaxConcurrent[p]
      BY DEF TreesWithinBudget
  <2>1. Rest /\ SlotCount
      BY IInvSplit
  <2>2. Trees(p) \subseteq Holders(p)
      BY <2>1, NoChildSound
         DEF Rest, ThreadInv, Sound, Fits, Trees, Holders, TypeOK, Places
  <2>3. Cardinality(Trees(p)) <= Cardinality(Holders(p))
      BY <2>2, CountedFinite, FS_Subset
  <2> QED
      BY <2>1, <2>3, CountedFinite DEF Rest, SlotCount, TypeOK
<1> QED
    BY <1>1, Invariance, PTL

(* Nothing is signalled once its root is reaped (kill_tree, finish).       *)
THEOREM StrangersAreSafe == Spec => []NoSignalAfterReap
<1>1. IInv => NoSignalAfterReap
    BY DEF IInv, ThreadInv, Sound, NoSignalAfterReap
<1> QED
    BY <1>1, Invariance, PTL

(* No thread waits for a slot while it holds one (HOLDING).                *)
THEOREM HoldersDoNotWait == Spec => []NoHoldAndWait
<1>1. IInv => NoHoldAndWait
    BY DEF IInv, ThreadInv, Fits, NoHoldAndWait
<1> QED
    BY <1>1, Invariance, PTL

(***************************************************************************)
(* Leaks.                                                                  *)
(***************************************************************************)
\* A call that is over with its slot still taken has said so.
Reported(t) ==
    pc[t] \in {"ended", "joining", "dropping"} /\ ~child[t].clean =>
        result[t] \in {"cleanup", "io", "dropped"}

ReportInv == \A t \in Threads : Reported(t)

LEMMA ReportedStep ==
    ASSUME TypeOK, ReportInv, NEW t \in Threads, NEW place, NEW r,
           Goto(t, place, r), NEW c, child' = [child EXCEPT ![t] = c],
           place \in {"ended", "joining", "dropping"} /\ ~c.clean =>
               r \in {"cleanup", "io", "dropped"}
    PROVE  ReportInv'
<1>1. /\ pc'[t] = place /\ result'[t] = r /\ child'[t] = c
      /\ \A u \in Threads \ {t} : /\ pc'[u] = pc[u] /\ result'[u] = result[u]
                                   /\ child'[u] = child[u]
    BY DEF Goto, TypeOK
<1> QED
    BY <1>1 DEF ReportInv, Reported

\* A finish that fails is what the call reports, or its error already is.
LEMMA FinishReports ==
    ASSUME IInv, ReportInv, NEW t \in Threads, NEW f \in Finish(child[t]),
           Finished(t, f), NEW place, NEW r, Goto(t, place, r),
           f.ok \/ r \in {"cleanup", "io", "dropped"}
    PROVE  ReportInv'
<1>1. TypeOK /\ child[t] \in Children /\ Sound(child[t])
    BY DEF IInv, TypeOK, ThreadInv
<1>2. f.ok <=> f.c.clean
    BY <1>1, FinishSound
<1>3. child' = [child EXCEPT ![t] = f.c]
    BY DEF Finished
<1> QED
    BY <1>1, <1>2, <1>3, ReportedStep

LEMMA NextReports == IInv /\ ReportInv /\ [Next]_vars => ReportInv'
<1> SUFFICES ASSUME IInv, ReportInv, [Next]_vars PROVE ReportInv'
    OBVIOUS
<1>1. TypeOK
    BY DEF IInv
<1>2. ASSUME NEW t \in Threads, UNCHANGED child,
             NEW place, place \notin {"ended", "joining", "dropping"},
             NEW r, Goto(t, place, r)
      PROVE  ReportInv'
  <2>1. child' = [child EXCEPT ![t] = child[t]]
      BY <1>1, <1>2 DEF TypeOK
  <2> QED
      BY <1>1, <1>2, <2>1, ReportedStep
<1>3. ASSUME NEW t \in Threads, AcquireNested(t)
      PROVE  ReportInv'
    BY <1>2, <1>3 DEF AcquireNested
<1>4. ASSUME NEW t \in Threads, NEW p \in Pools, Acquire(t, p)
      PROVE  ReportInv'
  <2>1. PICK place, r : /\ place \notin {"ended", "joining", "dropping"}
                        /\ Begin(t, p, place, r) /\ UNCHANGED child
      BY <1>4 DEF Acquire, Admit
  <2>2. /\ pc'[t] = place
        /\ \A u \in Threads \ {t} : pc'[u] = pc[u] /\ result'[u] = result[u]
      BY <1>1, <2>1 DEF Begin, TypeOK
  <2> QED
      BY <2>1, <2>2 DEF ReportInv, Reported
<1>5. ASSUME NEW t \in Threads, Queue(t)
      PROVE  ReportInv'
    BY <1>2, <1>5 DEF Queue, QueueCancelled, QueueGranted, QueueTimedOut,
       LeaveQueue, Return
<1>6. ASSUME NEW t \in Threads, Start(t)
      PROVE  ReportInv'
  <2>1. CASE SpawnFails(t) \/ WatchFails(t)
      BY <1>2, <2>1 DEF SpawnFails, WatchFails, Return
  <2>2. CASE PipesFail(t)
    <3> PICK c \in Spawned : \E f \in Finish(c) :
              /\ child' = [child EXCEPT ![t] = f.c]
              /\ Goto(t, "dropping", IF f.ok THEN "io" ELSE "cleanup")
        BY <2>2 DEF PipesFail
    <3>1. PICK f \in Finish(c) :
              /\ child' = [child EXCEPT ![t] = f.c]
              /\ Goto(t, "dropping", IF f.ok THEN "io" ELSE "cleanup")
        OBVIOUS
    <3>2. f.ok <=> f.c.clean
        BY SpawnedSound, FinishSound
    <3> QED
        BY <1>1, <3>1, <3>2, ReportedStep
  <2>3. CASE Spawn(t)
    <3>1. PICK c \in Spawned, place \in {"session", "pumping"} :
              /\ child' = [child EXCEPT ![t] = c]
              /\ Goto(t, place, "none")
        BY <2>3 DEF Spawn
    <3> QED
        BY <1>1, <3>1, ReportedStep
  <2> QED
      BY <1>6, <2>1, <2>2, <2>3 DEF Start
<1>7. ASSUME NEW t \in Threads, Pump(t)
      PROVE  ReportInv'
  <2>1. CASE PumpExits(t)
      BY <2>1, FinishReports DEF PumpExits, Outcome
  <2>2. CASE KillLeftovers(t)
    <3>1. PICK k \in KillTree(child[t]) :
              /\ child' = [child EXCEPT ![t] = k.c]
              /\ Goto(t, IF k.ok THEN "pumping" ELSE "ended", Outcome(k, "none"))
        BY <2>2 DEF KillLeftovers
    <3>2. CASE k.ok
      <4>1. Goto(t, "pumping", Outcome(k, "none"))
          BY <3>1, <3>2
      <4>2. "pumping" \notin {"ended", "joining", "dropping"}
          OBVIOUS
      <4> QED
          BY <1>1, <3>1, <4>1, <4>2, ReportedStep
    <3>3. CASE ~k.ok
        BY <1>1, <3>1, <3>3, ReportedStep DEF Outcome
    <3> QED
        BY <3>2, <3>3
  <2>3. ASSUME NEW r \in {"io", "cleanup"}, PumpFails(t, r)
        PROVE  ReportInv'
    <3>1. child' = [child EXCEPT ![t] = child[t]]
        BY <1>1, <2>3 DEF PumpFails, TypeOK
    <3> QED
        BY <1>1, <2>3, <3>1, ReportedStep DEF PumpFails
  <2> QED
      BY <1>7, <2>1, <2>2, <2>3 DEF Pump
<1>8. ASSUME NEW t \in Threads, Deadline(t)
      PROVE  ReportInv'
  <2>1. CASE PumpStops(t)
      BY <2>1, FinishReports DEF PumpStops, Outcome
  <2>2. CASE FinishAgain(t)
    <3>1. PICK f \in Finish(child[t]) :
              /\ Finished(t, f)
              /\ Goto(t, IF child[t].batch THEN "dropping" ELSE "joining",
                      IF result[t] = "ok" \/ child[t].batch
                      THEN Outcome(f, result[t]) ELSE result[t])
        BY <2>2 DEF FinishAgain
    <3>2. child[t].clean => f.ok
      <4>1. child[t].clean => f = [ok |-> TRUE, c |-> child[t]]
          BY DEF Finish
      <4> QED
          BY <4>1
    <3>3. f.ok \/ (IF result[t] = "ok" \/ child[t].batch
                  THEN Outcome(f, result[t]) ELSE result[t])
                     \in {"cleanup", "io", "dropped"}
        BY <2>2, <3>2 DEF FinishAgain, ReportInv, Reported, Outcome
    <3> QED
        BY <3>1, <3>3, FinishReports
  <2>3. CASE Join(t)
    <3>1. PICK r : /\ Goto(t, "dropping", r)
                   /\ r = result[t] \/ (result[t] = "ok" /\ r = "io")
        BY <2>3 DEF Join
    <3>2. child' = [child EXCEPT ![t] = child[t]]
        BY <1>1, <2>3 DEF Join, TypeOK
    <3>3. ~child[t].clean => r \in {"cleanup", "io", "dropped"}
        BY <2>3, <3>1 DEF Join, ReportInv, Reported
    <3> QED
        BY <1>1, <3>1, <3>2, <3>3, ReportedStep
  <2>4. CASE DropChild(t)
    <3>1. child' = [child EXCEPT ![t] = NoChild] /\ Goto(t, "idle", "none")
        BY <2>4 DEF DropChild, Return
    <3>2. "idle" \notin {"ended", "joining", "dropping"}
        OBVIOUS
    <3> QED
        BY <1>1, <3>1, <3>2, ReportedStep
  <2> QED
      BY <1>8, <2>1, <2>2, <2>3, <2>4 DEF Deadline
<1>9. ASSUME NEW t \in Threads, Session(t)
      PROVE  ReportInv'
  <2>1. ASSUME NEW r \in {"stopped", "io"}, SessionStops(t, r)
        PROVE  ReportInv'
      BY <2>1, FinishReports DEF SessionStops, Outcome
  <2>2. CASE SessionEnds(t)
      BY <1>2, <2>2 DEF SessionEnds
  <2>3. CASE SessionDropped(t)
    <3>1. child' = [child EXCEPT ![t] = child[t]]
        BY <1>1, <2>3 DEF SessionDropped, TypeOK
    <3> QED
        BY <1>1, <2>3, <3>1, ReportedStep DEF SessionDropped
  <2> QED
      BY <1>9, <2>1, <2>2, <2>3 DEF Session
<1>10. ASSUME NEW t \in Threads, ProcessStep(t)
       PROVE  ReportInv'
  <2>1. \A u \in Threads : child'[u].clean = child[u].clean
      BY <1>1, <1>10 DEF ProcessStep, TypeOK, Children
  <2> QED
      BY <1>10, <2>1 DEF ProcessStep, ReportInv, Reported
<1>11. ASSUME NEW p \in Pools, StrayEnds(p)
       PROVE  ReportInv'
    BY <1>11 DEF StrayEnds, calls, ReportInv, Reported
<1>12. CASE UNCHANGED vars
    BY <1>12 DEF vars, calls, ReportInv, Reported
<1> QED
    BY <1>3, <1>4, <1>5, <1>6, <1>7, <1>8, <1>9, <1>10, <1>11, <1>12 DEF Next

\* Only a failed spawn and a drop leak.
LEMMA LeakSteps ==
    ASSUME IInv, ReportInv, [Next]_vars, NEW p \in Pools, leaked'[p] > leaked[p]
    PROVE  \E t \in Threads :
              /\ pool[t] = p /\ holding[t] /\ ~holding'[t]
              /\ result[t] \in {"cleanup", "io", "dropped"} \/ pc[t] = "spawning"
<1>1. TypeOK /\ leaked[p] \in Nat
    BY DEF IInv, TypeOK
<1>2. leaked' # leaked
    BY <1>1
<1>3. PICK t \in Threads : WatchFails(t) \/ DropChild(t)
  <2>1. \A t \in Threads : \A f : Finished(t, f) => leaked' = leaked
      BY DEF Finished, GiveSlot, KeepSlot, budget
  <2>2. ASSUME NEW t \in Threads, Start(t) PROVE WatchFails(t)
    <3>1. CASE PipesFail(t)
        BY <1>2, <3>1 DEF PipesFail, GiveSlot, KeepSlot, budget
    <3> QED
        BY <1>2, <2>2, <3>1 DEF Start, SpawnFails, Spawn, GiveSlot, KeepSlot,
           budget
  <2>3. ASSUME NEW t \in Threads, Deadline(t) PROVE DropChild(t)
      BY <1>2, <2>1, <2>3 DEF Deadline, PumpStops, FinishAgain, Join, KeepSlot,
         budget
  <2>4. \A t \in Threads : ~Pump(t) /\ ~Session(t)
      BY <1>2, <2>1 DEF Pump, PumpExits, KillLeftovers, PumpFails, Session,
         SessionStops, SessionEnds, SessionDropped, KeepSlot, budget
  <2>5. \A t \in Threads : ~AcquireNested(t) /\ ~Queue(t) /\ ~ProcessStep(t)
      BY <1>2 DEF AcquireNested, Queue, QueueCancelled, QueueGranted,
         QueueTimedOut, LeaveQueue, ProcessStep, budget
  <2>6. \A q \in Pools : ~StrayEnds(q) /\ \A t \in Threads : ~Acquire(t, q)
      BY <1>2 DEF Acquire, Admit, StrayEnds, budget
  <2>7. ~UNCHANGED vars
      BY <1>2 DEF vars, budget
  <2>8. Next
      BY <2>7
  <2>9. \E t \in Threads : Start(t) \/ Deadline(t)
      BY <2>4, <2>5, <2>6, <2>8 DEF Next
  <2> QED
      BY <2>2, <2>3, <2>9
<1>4. PICK d : Leak(t, d)
  <2>1. CASE WatchFails(t)
      BY <1>2, <2>1 DEF WatchFails, GiveSlot
  <2>2. CASE DropChild(t)
      BY <1>2, <2>2 DEF DropChild, GiveSlot, KeepSlot, budget
  <2> QED
      BY <1>3, <2>1, <2>2
<1>5. pool[t] = p /\ ~holding'[t]
    BY <1>1, <1>4 DEF Leak, TypeOK
<1>6. CASE WatchFails(t)
  <2>1. pc[t] = "spawning"
      BY <1>6 DEF WatchFails
  <2>2. holding[t]
      BY <2>1 DEF IInv, ThreadInv, Fits
  <2> QED
      BY <1>5, <2>1, <2>2
<1>7. CASE DropChild(t)
  <2>1. pc[t] = "dropping" /\ ~child[t].clean
      BY <1>2, <1>7 DEF DropChild, KeepSlot, budget
  <2>2. holding[t]
      BY <2>1 DEF IInv, ThreadInv, Fits
  <2>3. result[t] \in {"cleanup", "io", "dropped"}
      BY <2>1 DEF ReportInv, Reported
  <2> QED
      BY <1>5, <2>2, <2>3
<1> QED
    BY <1>3, <1>6, <1>7

(* A slot is lost only in a call that returns a failed cleanup or a pipe   *)
(* error, in a session dropped without close, or in a spawn that fails.    *)
THEOREM LeaksReported == Spec => LeaksAreReported
<1>1. Init => ReportInv
    BY DEF Init, ReportInv, Reported
<1>2. IInv /\ ReportInv /\ [Next]_vars =>
        [\A p \in Pools : leaked'[p] > leaked[p] =>
            \E t \in Threads :
                /\ pool[t] = p /\ holding[t] /\ ~holding'[t]
                /\ result[t] \in {"cleanup", "io", "dropped"} \/ pc[t] = "spawning"]_vars
    BY LeakSteps
<1> QED
    BY <1>1, <1>2, Invariance, NextReports, PTL DEF Spec, LeaksAreReported
=============================================================================
