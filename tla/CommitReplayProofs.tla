------------------------- MODULE CommitReplayProofs -------------------------
(***************************************************************************)
(* Proofs about CommitReplay, for any worktree, any payload and any number *)
(* of edits: first the replay, then that the preview simulates it.         *)
(***************************************************************************)
EXTENDS CommitReplay, WellFoundedInduction, TLAPS

USE NoPathAssumption, AboveAssumption, PayloadsAssumption, StartsAssumption,
    EditsAssumption

(***************************************************************************)
(* What the operators return.                                              *)
(***************************************************************************)
Tree(t) == DOMAIN t \subseteq Paths /\ Range(t) \subseteq Bytes
Plans == SUBSET [file : Files, action : {"skip", "write", "delete"}]

LEMMA PayloadTyped ==
    ASSUME payload \in Payloads
    PROVE  /\ payload \in Seq(SUBSET Files) /\ Len(payload) \in Nat
           /\ \A i \in 1..Len(payload) : payload[i] \subseteq Files
           /\ \A i \in 1..Len(payload) : \A f \in payload[i] :
                f \in UNION Range(payload)
<1>1. payload \in Seq(SUBSET Files)
    OBVIOUS
<1>2. DOMAIN payload = 1..Len(payload) /\ Len(payload) \in Nat
    BY <1>1
<1>3. \A i \in 1..Len(payload) : payload[i] \in Range(payload)
    BY <1>2 DEF Range
<1> QED
    BY <1>1, <1>2, <1>3

LEMMA PlanTyped ==
    ASSUME NEW c \in SUBSET Files, NEW l
    PROVE  /\ PlanCommit(l, c) \in Plans
           /\ \A f \in PlanCommit(l, c) :
                f.file \in c /\ (f.action # "skip" => f.file.copied)
<1>1. \A f \in c : Action(l, f) \in {"skip", "write", "delete"}
    BY DEF Action, Files
<1>2. \A f \in c : Action(l, f) # "skip" => f.copied
    BY DEF Action, Files
<1>3. \A f \in c : f \in Files
    OBVIOUS
<1> QED
    BY <1>1, <1>2, <1>3 DEF PlanCommit, Plans

LEMMA PlanPaths ==
    ASSUME NEW pl \in Plans
    PROVE  Deletions(pl) \subseteq Paths /\ Writes(pl) \subseteq Paths
BY DEF Plans, Files, Deletions, Writes

LEMMA PlanConcerned ==
    ASSUME payload \in Payloads, NEW i \in 1..Len(payload), NEW l
    PROVE  LET pl == PlanCommit(l, payload[i])
           IN  Deletions(pl) \cup Writes(pl) \subseteq Targets(payload)
<1> DEFINE pl == PlanCommit(l, payload[i])
<1>1. \A f \in pl : f.file \in payload[i] /\ (f.action # "skip" => f.file.copied)
    BY PayloadTyped, PlanTyped
<1>2. \A f \in pl : f.file \in UNION Range(payload)
    BY <1>1, PayloadTyped
<1>3. \A f \in pl : f.action # "skip" =>
        /\ f.file.path \in Targets(payload)
        /\ f.file.old # NoPath => f.file.old \in Targets(payload)
    BY <1>1, <1>2 DEF Targets
<1> HIDE DEF pl
<1>4. Deletions(pl) \cup Writes(pl) \subseteq Targets(payload)
    BY <1>3 DEF Deletions, Writes
<1> QED
    BY <1>4 DEF pl

LEMMA UpdatedTyped ==
    ASSUME disk \in [Paths -> Nodes], NEW ps \in SUBSET Paths, NEW t, Tree(t)
    PROVE  Tree(Updated(t, ps))
<1> DEFINE stays == {p \in ps : Present(p)}
           rest == DOMAIN t \ (ps \cup UNION {Above[p] \cup Under(p) : p \in stays})
<1>1. Updated(t, ps) =
        [q \in rest \cup stays |-> IF q \in stays THEN disk[q].bytes ELSE t[q]]
    BY DEF Updated
<1>2. rest \subseteq DOMAIN t /\ stays \subseteq Paths
    OBVIOUS
<1> HIDE DEF stays, rest
<1>3. \A q \in stays : disk[q].bytes \in Bytes
    BY <1>2 DEF Nodes
<1>4. \A q \in rest : t[q] \in Bytes
    BY <1>2 DEF Tree, Range
<1>5. DOMAIN Updated(t, ps) = rest \cup stays
    BY <1>1
<1>6. \A q \in rest \cup stays : Updated(t, ps)[q] \in Bytes
    BY <1>1, <1>3, <1>4
<1> QED
    BY <1>2, <1>5, <1>6 DEF Tree, Range

\* What is nowhere near the paths updated keeps its entry.
LEMMA UpdatedAt ==
    ASSUME NEW ps, NEW t, NEW p,
           \A q \in ps : p # q /\ p \notin Above[q] /\ p \notin Under(q)
    PROVE  /\ p \in DOMAIN Updated(t, ps) <=> p \in DOMAIN t
           /\ p \in DOMAIN t => Updated(t, ps)[p] = t[p]
<1> DEFINE stays == {q \in ps : Present(q)}
           near == UNION {Above[q] \cup Under(q) : q \in stays}
           dom == (DOMAIN t \ (ps \cup near)) \cup stays
<1>1. Updated(t, ps) =
        [q \in dom |-> IF q \in stays THEN disk[q].bytes ELSE t[q]]
    BY DEF Updated
<1>2. p \notin near /\ p \notin stays /\ p \notin ps
    OBVIOUS
<1>3. p \in dom <=> p \in DOMAIN t
    BY <1>2
<1> HIDE DEF stays, near, dom
<1> QED
    BY <1>1, <1>2, <1>3

\* A pathspec stays near the paths it names.
LEMMA MatchedIs ==
    ASSUME NEW ps \in SUBSET Paths, DOMAIN head \subseteq Paths,
           DOMAIN index \subseteq Paths
    PROVE  /\ Matched(ps) \subseteq Paths
           /\ \A p \in Paths :
                (\A q \in ps : p # q /\ p \notin Above[q] /\ p \notin Under(q)) =>
                  \A q \in Matched(ps) :
                      p # q /\ p \notin Above[q] /\ p \notin Under(q)
<1>1. Matched(ps) \subseteq Paths
    BY DEF Matched
<1>2. ASSUME NEW p \in Paths,
             \A q \in ps : p # q /\ p \notin Above[q] /\ p \notin Under(q),
             NEW q \in Matched(ps)
      PROVE  p # q /\ p \notin Above[q] /\ p \notin Under(q)
  <2>1. CASE q \in ps
      BY <1>2, <2>1
  <2>2. CASE q \notin ps
    <3>1. q \in Paths
        BY <1>1
    <3>2. PICK n \in ps : n \in Above[q]
        BY <2>2 DEF Matched
    <3>3. p # n /\ p \notin Above[n] /\ n \notin Above[p]
        BY <1>2 DEF Under
    <3>4. p \notin Above[q]
        BY <3>1, <3>2, <3>3
    <3>5. q \notin Above[p]
        BY <3>1, <3>2, <3>3
    <3> QED
        BY <3>2, <3>3, <3>4, <3>5 DEF Under
  <2> QED
      BY <2>1, <2>2
<1> QED
    BY <1>1, <1>2

LEMMA NodesTyped ==
    /\ Gone \in Nodes /\ Folder \in Nodes
    /\ \A b \in Nat : Text(b) \in Nodes
    /\ [kind |-> "binary", bytes |-> 2] \in Nodes
BY DEF Gone, Folder, Text, Nodes, Bytes

(* What a deletion leaves is what was there, or nothing.                   *)
LEMMA WithoutIs ==
    ASSUME disk \in [Paths -> Nodes], NEW p \in Paths
    PROVE  /\ Without(p) \in [Paths -> Nodes]
           /\ \A q \in Paths : Without(p)[q] \in {disk[q], Gone}
           /\ Without(p)[p] = Gone
<1> DEFINE kept == {q \in Paths : disk[q].kind # "absent"} \ ({p} \cup Under(p))
           empty == {d \in Above[p] :
                    disk[d].kind = "dir" /\ kept \cap Under(d) \subseteq Above[p]}
<1>1. Without(p) = [q \in Paths |-> IF q \in kept \ empty THEN disk[q] ELSE Gone]
    BY DEF Without
<1>2. p \notin kept
    OBVIOUS
<1> HIDE DEF kept, empty
<1> QED
    BY <1>1, <1>2, NodesTyped

(* A write puts a text under folders, and takes along what was below.      *)
LEMMA WithIs ==
    ASSUME disk \in [Paths -> Nodes], NEW p \in Paths, NEW b \in Nat
    PROVE  /\ With(p, b) \in [Paths -> Nodes]
           /\ With(p, b)[p] = Text(b)
           /\ \A d \in Above[p] : With(p, b)[d] = Folder
           /\ \A q \in Paths : q # p => With(p, b)[q] \in {Folder, Gone, disk[q]}
           /\ \A q \in Paths : q # p /\ q \notin Above[p] /\ p \notin Above[q] =>
                With(p, b)[q] = disk[q]
<1>1. \A q \in Paths : q # p => With(p, b)[q] =
        IF q \in Above[p] THEN Folder ELSE IF q \in Under(p) THEN Gone ELSE disk[q]
    BY DEF With
<1>2. With(p, b)[p] = Text(b) /\ DOMAIN With(p, b) = Paths
    BY DEF With
<1>3. With(p, b) \in [Paths -> Nodes]
    BY NodesTyped DEF With
<1>4. \A d \in Above[p] : d \in Paths /\ d # p
    OBVIOUS
<1>5. \A q \in Paths : q \in Under(p) => p \in Above[q]
    BY DEF Under
<1> QED
    BY <1>1, <1>2, <1>3, <1>4, <1>5

LEMMA FileKinds ==
    /\ \A p : disk[p].kind \in {"absent", "dir"} => ~IsFile(p)
    /\ \A p : disk[p] \in {Gone, Folder} => ~IsFile(p)
    /\ \A p, b : disk[p] = Text(b) => IsFile(p) /\ disk[p].bytes = b
BY DEF IsFile, NodeOf, Gone, Folder, Text

(***************************************************************************)
(* The invariant holds, action by action.                                  *)
(***************************************************************************)
LEMMA InitIInv == Init => IInv
<1> SUFFICES ASSUME Init PROVE IInv
    OBVIOUS
<1> USE DEF Init
<1>1. PICK s \in Starts : disk = s.disk /\ head = s.head /\ index = s.index
    OBVIOUS
<1>2. /\ disk \in [Paths -> Nodes]
      /\ DOMAIN head \subseteq Paths /\ Range(head) \subseteq Bytes
      /\ DOMAIN index \subseteq Paths /\ Range(index) \subseteq Bytes
    BY <1>1, Zenon
<1>6. 0 \in 0..MaxEdits
    OBVIOUS
<1>7. TypeOK
    BY <1>2, <1>6 DEF TypeOK
<1>3. Len(payload) \in Nat
    BY PayloadTyped
<1>4. ProgressInv /\ UntouchedInv /\ RefusalTouchesNothing /\ DiskInv
    BY <1>3 DEF ProgressInv, UntouchedInv, RefusalTouchesNothing, DiskInv,
       Working
<1>5. PlanInv
    BY DEF PlanInv, Deletions, Writes
<1> QED
    BY <1>4, <1>5, <1>7 DEF IInv

\* The steps that leave the worktree, its plan and what is left alone.
LEMMA StartIInv ==
    ASSUME IInv, Capture \/ ApplyRefused \/ Apply
    PROVE  IInv'
<1> USE DEF IInv, Capture, ApplyRefused, Apply, Stop
<1>0. UNCHANGED <<payload, disk, head, index, at, plan, left, made, created,
                  touched, edits, edited>>
    BY DEF tree, shown, outcome, editor
<1>1. TypeOK'
    BY <1>0 DEF TypeOK, outcome
<1>2. ProgressInv'
    BY <1>0 DEF ProgressInv, Working, outcome
<1>3. UntouchedInv' /\ RefusalTouchesNothing'
    BY <1>0 DEF UntouchedInv, RefusalTouchesNothing, ProgressInv, outcome
<1>4. PlanInv'
    BY <1>0 DEF PlanInv, Deletions, Writes, Targets
<1>5. DiskInv'
    BY <1>0 DEF DiskInv
<1> QED
    BY <1>1, <1>2, <1>3, <1>4, <1>5

LEMMA PlanNextIInv ==
    ASSUME IInv, PlanNext
    PROVE  IInv'
<1> USE DEF IInv
<1>0. /\ pc = "planning" /\ failure = "none" /\ payload \in Payloads
      /\ UNCHANGED <<payload, disk, head, index, at, left, made, created,
                     edits, edited>>
    BY DEF PlanNext, tree, shown, editor, ProgressInv, TypeOK
<1>1. CASE at > Len(payload)
  <2>1. pc' = "ended" /\ UNCHANGED <<plan, touched, failure>>
      BY <1>1 DEF PlanNext
  <2>2. TypeOK' /\ UntouchedInv' /\ DiskInv' /\ RefusalTouchesNothing'
      BY <1>0, <2>1 DEF TypeOK, UntouchedInv, DiskInv, RefusalTouchesNothing
  <2>3. ProgressInv'
      BY <1>0, <1>1, <2>1 DEF ProgressInv, Working
  <2>4. PlanInv'
      BY <1>0, <2>1 DEF PlanInv, Deletions, Writes, Targets
  <2> QED
      BY <2>2, <2>3, <2>4
<1>2. CASE ~(at > Len(payload))
  <2>1. /\ plan' = PlanCommit(Plain, payload[at])
        /\ touched' = FALSE
        /\ \/ pc' = "ended" /\ failure' = "refused"
           \/ pc' = "checking" /\ UNCHANGED failure
      BY <1>2 DEF PlanNext, Stop
  <2>2. Len(payload) \in Nat /\ at \in Nat /\ at = created + 1 /\ created \in Nat
      BY <1>0, PayloadTyped DEF TypeOK, ProgressInv
  <2>3. at \in 1..Len(payload)
      BY <1>2, <2>2
  <2>4. /\ plan' \in Plans
        /\ Deletions(plan') \cup Writes(plan') \subseteq Targets(payload)
      BY <1>0, <2>1, <2>3, PayloadTyped, PlanTyped, PlanConcerned
  <2>5. PlanInv'
      BY <1>0, <2>1, <2>4 DEF PlanInv, Plans, Deletions, Writes, Targets
  <2>6. TypeOK' /\ UntouchedInv' /\ DiskInv' /\ RefusalTouchesNothing'
      BY <1>0, <2>1 DEF TypeOK, UntouchedInv, DiskInv, RefusalTouchesNothing
  <2>7. ProgressInv'
      BY <1>0, <2>1, <2>2, <2>3 DEF ProgressInv, Working
  <2> QED
      BY <2>5, <2>6, <2>7
<1> QED
    BY <1>1, <1>2

LEMMA RecheckIInv ==
    ASSUME IInv, Recheck
    PROVE  IInv'
<1> USE DEF IInv
<1>0. /\ pc = "checking" /\ failure = "none"
      /\ UNCHANGED <<payload, disk, head, index, at, plan, made, created,
                     touched, edits, edited>>
      /\ \/ pc' = "ended" /\ failure' = "refused" /\ left' = left
         \/ pc' = "deleting" /\ left' = Deletions(plan) /\ failure' = failure
    BY DEF Recheck, Stop, tree, shown, editor, ProgressInv
<1>1. Deletions(plan) \subseteq Paths
    BY PlanPaths DEF PlanInv, Plans
<1>2. TypeOK'
    BY <1>0, <1>1 DEF TypeOK
<1>3. ProgressInv' /\ UntouchedInv' /\ RefusalTouchesNothing'
    BY <1>0 DEF ProgressInv, Working, UntouchedInv, RefusalTouchesNothing
<1>4. PlanInv'
    BY <1>0 DEF PlanInv, Deletions, Writes, Targets
<1>5. DiskInv'
    BY <1>0 DEF DiskInv, Deletions
<1> QED
    BY <1>2, <1>3, <1>4, <1>5

LEMMA DeleteIInv ==
    ASSUME IInv, Delete
    PROVE  IInv'
<1> USE DEF IInv
<1>0. /\ pc = "deleting" /\ failure = "none"
      /\ UNCHANGED <<payload, head, index, at, plan, made, created, failure,
                     edits, edited>>
    BY DEF Delete, shown, outcome, editor, ProgressInv
<1>1. disk \in [Paths -> Nodes] /\ left \subseteq Paths
    BY DEF TypeOK
<1>2. ProgressInv' /\ UntouchedInv' /\ RefusalTouchesNothing'
  <2>1. pc' \in {"deleting", "writing"}
      BY <1>0 DEF Delete
  <2> QED
      BY <1>0, <2>1 DEF ProgressInv, Working, UntouchedInv,
         RefusalTouchesNothing
<1>3. PlanInv'
  <2>1. pc' = "writing" => left' = Writes(plan)
      BY <1>0 DEF Delete
  <2> QED
      BY <1>0, <2>1 DEF PlanInv, Deletions, Writes, Targets
<1>4. CASE left = {}
  <2>1. pc' = "writing" /\ left' = Writes(plan) /\ UNCHANGED <<disk, touched>>
      BY <1>4 DEF Delete
  <2>2. Writes(plan) \subseteq Paths
      BY PlanPaths DEF PlanInv, Plans
  <2>3. TypeOK'
      BY <1>0, <2>1, <2>2 DEF TypeOK
  <2>4. DiskInv'
      BY <1>0, <1>4, <2>1 DEF DiskInv, IsFile, Deletions, Writes
  <2> QED
      BY <1>2, <1>3, <2>3, <2>4
<1>5. CASE left # {}
  <2>1. PICK p \in left :
          /\ left' = left \ {p}
          /\ \/ disk' = Without(p) /\ touched' = TRUE
             \/ ~IsFile(p) /\ UNCHANGED <<disk, touched>>
      BY <1>5 DEF Delete
  <2>2. pc' = "deleting"
      BY <1>0, <1>5 DEF Delete
  <2>3. p \in Paths
      BY <1>1
  <2>4. /\ disk' \in [Paths -> Nodes]
        /\ \A q \in Paths : disk'[q] \in {disk[q], Gone}
        /\ disk'[p] = Gone \/ (disk' = disk /\ ~IsFile(p))
      BY <1>1, <2>1, <2>3, WithoutIs
  <2>5. TypeOK'
      BY <1>0, <2>1, <2>2, <2>4 DEF TypeOK
  <2>6. Deletions(plan) \subseteq Paths /\ Deletions(plan)' = Deletions(plan)
      BY <1>0, PlanPaths DEF PlanInv, Plans, Deletions
  <2>7. \A q \in Paths : ~IsFile(q) => ~IsFile(q)'
      BY <2>4 DEF IsFile, NodeOf, Gone
  <2>8. ~IsFile(p)'
      BY <2>4 DEF IsFile, NodeOf, Gone
  <2>9. DiskInv'
      BY <1>0, <2>1, <2>2, <2>6, <2>7, <2>8 DEF DiskInv
  <2> QED
      BY <1>2, <1>3, <2>5, <2>9
<1> QED
    BY <1>4, <1>5

LEMMA WriteIInv ==
    ASSUME IInv, Write
    PROVE  IInv'
<1> USE DEF IInv
<1>0. /\ pc = "writing" /\ failure = "none"
      /\ UNCHANGED <<payload, head, index, at, plan, made, created, failure,
                     edits, edited>>
    BY DEF Write, shown, outcome, editor, ProgressInv
<1>1. disk \in [Paths -> Nodes] /\ left \subseteq Paths /\ at \in Nat
    BY DEF TypeOK
<1>2. ProgressInv' /\ UntouchedInv' /\ RefusalTouchesNothing'
  <2>1. pc' \in {"writing", "removing"}
      BY <1>0 DEF Write
  <2> QED
      BY <1>0, <2>1 DEF ProgressInv, Working, UntouchedInv,
         RefusalTouchesNothing
<1>3. PlanInv'
  <2>1. left' \subseteq left
      BY DEF Write
  <2> QED
      BY <1>0, <2>1 DEF PlanInv, Deletions, Writes, Targets
<1>4. CASE left = {}
  <2>1. pc' = "removing" /\ UNCHANGED <<disk, left, touched>>
      BY <1>4 DEF Write
  <2>2. TypeOK'
      BY <1>0, <2>1 DEF TypeOK
  <2>3. DiskInv'
      BY <1>0, <1>4, <2>1 DEF DiskInv, IsFile, Written, Deletions, Writes
  <2> QED
      BY <1>2, <1>3, <2>2, <2>3
<1>5. CASE left # {}
  <2>1. PICK p \in left :
          /\ disk[p].kind # "dir"
          /\ \A d \in Above[p] : ~IsFile(d)
          /\ disk' = With(p, CopiedBy(at))
          /\ left' = left \ {p}
      BY <1>5 DEF Write
  <2>2. pc' = "writing" /\ touched' = TRUE
      BY <1>0, <1>5 DEF Write
  <2>3. p \in Paths /\ CopiedBy(at) \in Nat
      BY <1>1 DEF CopiedBy
  <2>4. /\ disk' \in [Paths -> Nodes]
        /\ disk'[p] = Text(CopiedBy(at))
        /\ \A d \in Above[p] : disk'[d] = Folder
        /\ \A q \in Paths : q # p => disk'[q] \in {Folder, Gone, disk[q]}
        /\ \A q \in Paths : q # p /\ q \notin Above[p] /\ p \notin Above[q] =>
                disk'[q] = disk[q]
      BY <1>1, <2>1, <2>3, WithIs
  <2>5. TypeOK'
      BY <1>0, <2>1, <2>2, <2>4 DEF TypeOK
  <2>6. /\ Deletions(plan) \subseteq Paths /\ Writes(plan) \subseteq Paths
        /\ Deletions(plan)' = Deletions(plan) /\ Writes(plan)' = Writes(plan)
      BY <1>0, PlanPaths DEF PlanInv, Plans, Deletions, Writes
  <2>7. \A q \in Paths : q # p /\ ~IsFile(q) => ~IsFile(q)'
      BY <2>4 DEF IsFile, NodeOf, Gone, Folder
  <2>8. Written(p)'
      BY <1>0, <2>4 DEF Written, Folder
  <2>9. ASSUME NEW q \in Paths, q # p, Written(q)
        PROVE  Written(q)'
    <3>1. IsFile(q)
        BY <2>9, FileKinds DEF Written
    <3>2. q \notin Above[p]
        BY <2>1, <3>1
    <3>3. p \notin Above[q]
        BY <2>1, <2>9 DEF Written
    <3>4. disk'[q] = disk[q]
        BY <2>4, <2>9, <3>2, <3>3
    <3>5. ASSUME NEW d \in Above[q]
          PROVE  disk'[d].kind = "dir"
      <4>1. d \in Paths /\ d # q /\ Above[d] \subseteq Above[q]
          BY <3>5
      <4>2. d # p /\ p \notin Above[d]
          BY <3>3, <4>1
      <4>3. disk[d].kind = "dir"
          BY <2>9 DEF Written
      <4> QED
          BY <2>4, <4>1, <4>2, <4>3 DEF Folder
    <3> QED
        BY <1>0, <2>9, <3>4, <3>5 DEF Written
  <2>10. DiskInv'
    <3>1. ASSUME ~edited, NEW q \in Deletions(plan) \ Writes(plan)
          PROVE  ~IsFile(q)'
      <4>1. ~IsFile(q)
          BY <1>0, <3>1 DEF DiskInv
      <4>2. CASE q # p
          BY <2>6, <2>7, <4>1, <4>2
      <4>3. CASE q = p
        <5>1. p \notin Writes(plan)
            BY <4>3
        <5> QED
            BY <1>0, <2>1, <5>1 DEF PlanInv
      <4> QED
          BY <4>2, <4>3
    <3>2. ASSUME ~edited, NEW q \in Writes(plan) \ left'
          PROVE  Written(q)'
      <4>1. q = p \/ q \notin left
          BY <2>1, <3>2
      <4> QED
          BY <1>0, <2>6, <2>8, <2>9, <3>2, <4>1 DEF DiskInv
    <3> QED
        BY <1>0, <2>2, <2>6, <3>1, <3>2 DEF DiskInv
  <2> QED
      BY <1>2, <1>3, <2>5, <2>10
<1> QED
    BY <1>4, <1>5

LEMMA FailsIInv ==
    ASSUME IInv, FileFails \/ GitFails
    PROVE  IInv'
<1> USE DEF IInv, FileFails, GitFails, Stop
<1>0. UNCHANGED <<payload, disk, head, index, at, plan, left, made, created,
                  touched, edits, edited>>
    BY DEF tree, shown, editor
<1>1. pc' = "ended" /\ failure' \in {"io", "git"} /\ pc # "ended"
    OBVIOUS
<1>2. TypeOK'
    BY <1>0, <1>1 DEF TypeOK
<1>3. ProgressInv' /\ UntouchedInv' /\ RefusalTouchesNothing'
    BY <1>0, <1>1 DEF ProgressInv, Working, UntouchedInv, RefusalTouchesNothing
<1>4. PlanInv' /\ DiskInv'
    BY <1>0, <1>1 DEF PlanInv, DiskInv, Deletions, Writes, Targets
<1> QED
    BY <1>2, <1>3, <1>4

\* Git changes its trees and nothing else.
LEMMA GitIInv ==
    ASSUME IInv, Remove \/ Add \/ Commit \/ Name
    PROVE  IInv'
<1> USE DEF IInv
<1>0. /\ UNCHANGED <<payload, disk, plan, left, failure, touched, edits, edited>>
      /\ pc' \in {"adding", "committing", "naming", "planning"}
      /\ pc' = "planning" <=> pc = "naming"
      /\ failure = "none" /\ pc \in Working
      /\ pc' \in {"adding", "committing"} => pc \in {"removing", "adding"}
    BY DEF Remove, Add, Commit, Name, tree, shown, editor, outcome, ProgressInv,
       Working
<1>1. /\ disk \in [Paths -> Nodes] /\ Tree(head) /\ Tree(index)
      /\ Matched(Writes(plan)) \subseteq Paths /\ Matched(Named) \subseteq Paths
  <2>1. /\ disk \in [Paths -> Nodes] /\ Tree(head) /\ Tree(index)
        /\ Writes(plan) \subseteq Paths /\ Named \subseteq Paths
      BY PlanPaths DEF TypeOK, Tree, PlanInv, Plans, Named, Staged
  <2> QED
      BY <2>1, MatchedIs DEF Tree
<1>2. Tree(head') /\ Tree(index')
  <2>1. CASE Remove
    <3>1. head' = head /\ index' = [x \in DOMAIN index \ Staged |-> index[x]]
        BY <2>1 DEF Remove, Restrict
    <3> QED
        BY <1>1, <3>1 DEF Tree, Range
  <2>2. CASE Add
      BY <1>1, <2>2, UpdatedTyped DEF Add
  <2>3. CASE Commit
      BY <1>1, <2>3, UpdatedTyped DEF Commit, Recorded
  <2>4. CASE Name
      BY <1>1, <2>4 DEF Name, tree
  <2> QED
      BY <2>1, <2>2, <2>3, <2>4
<1>3. /\ at' \in Nat /\ made' \in Nat /\ created' \in Nat
      /\ ProgressInv'
  <2>1. payload \in Payloads /\ Len(payload) \in Nat
      BY PayloadTyped DEF TypeOK
  <2>2. CASE Remove \/ Add
      BY <1>0, <2>1, <2>2 DEF Remove, Add, outcome, ProgressInv, Working, TypeOK
  <2>3. CASE Commit
      BY <1>0, <2>1, <2>3 DEF Commit, ProgressInv, Working, TypeOK
  <2>4. CASE Name
      BY <1>0, <2>1, <2>4 DEF Name, ProgressInv, Working, TypeOK
  <2> QED
      BY <2>2, <2>3, <2>4
<1>4. TypeOK'
    BY <1>0, <1>2, <1>3 DEF TypeOK, Tree
<1>5. UntouchedInv' /\ RefusalTouchesNothing'
    BY <1>0 DEF UntouchedInv, RefusalTouchesNothing
<1>6. PlanInv'
    BY <1>0 DEF PlanInv, Deletions, Writes, Targets
<1>7. DiskInv'
  <2>1. CASE pc' \in {"naming", "planning"}
      BY <2>1 DEF DiskInv
  <2>2. CASE pc' \in {"adding", "committing"}
    <3>1. at' = at
        BY <1>0, <2>2 DEF Remove, Add, Commit, Name
    <3> QED
        BY <1>0, <2>2, <3>1 DEF DiskInv, IsFile, Written, Deletions, Writes
  <2> QED
      BY <1>0, <2>1, <2>2
<1> QED
    BY <1>3, <1>4, <1>5, <1>6, <1>7

LEMMA EditIInv ==
    ASSUME IInv, Edit
    PROVE  IInv'
<1> USE DEF IInv
<1>0. /\ UNCHANGED <<payload, head, index, pc, at, plan, left, made, created,
                     failure, touched>>
      /\ pc \notin {"copied", "ended"}
      /\ edited' = (edited \/ pc # "shown")
    BY DEF Edit, shown, outcome
<1>1. edits' \in 0..MaxEdits /\ edited' \in BOOLEAN
    BY DEF Edit, TypeOK
<1>2. disk' \in [Paths -> Nodes]
    BY NodesTyped DEF Edit, TypeOK
<1>3. TypeOK'
    BY <1>0, <1>1, <1>2 DEF TypeOK
<1>4. ProgressInv' /\ UntouchedInv' /\ RefusalTouchesNothing' /\ PlanInv'
    BY <1>0 DEF ProgressInv, UntouchedInv, RefusalTouchesNothing, PlanInv,
       Deletions, Writes, Targets
<1>5. DiskInv'
    BY <1>0 DEF DiskInv
<1> QED
    BY <1>3, <1>4, <1>5

LEMMA NextIInv == IInv /\ [Next]_vars => IInv'
<1> SUFFICES ASSUME IInv, [Next]_vars PROVE IInv'
    OBVIOUS
<1>1. CASE UNCHANGED vars
  <2>1. UNCHANGED <<payload, disk, head, index, pc, at, plan, left, made,
                    created, failure, touched, edits, edited>>
      BY <1>1 DEF vars, tree, shown, outcome, editor
  <2> QED
      BY <2>1 DEF IInv, TypeOK, ProgressInv, UntouchedInv, PlanInv, DiskInv,
         RefusalTouchesNothing, Deletions, Writes, Targets, IsFile, Written
<1> QED
    BY <1>1, StartIInv, PlanNextIInv, RecheckIInv, DeleteIInv, WriteIInv,
       FailsIInv, GitIInv, EditIInv DEF Next

(* The inductive invariant of the replay.                                  *)
THEOREM Invariance == Spec => []IInv
BY InitIInv, NextIInv, PTL DEF Spec

(* Every variable keeps its type.                                          *)
THEOREM TypeCorrect == Spec => []TypeOK
<1>1. IInv => TypeOK
    BY DEF IInv
<1> QED
    BY <1>1, Invariance, PTL

(* A commit that replay refuses has changed nothing yet.                   *)
THEOREM RefusalsTouchNothing == Spec => []RefusalTouchesNothing
<1>1. IInv => RefusalTouchesNothing
    BY DEF IInv
<1> QED
    BY <1>1, Invariance, PTL

(* Every commit is reported, but for one whose name Git failed to tell.    *)
THEOREM HistoryReported == Spec => []HistoryIsReported
<1>1. IInv => HistoryIsReported
  <2> SUFFICES ASSUME IInv PROVE HistoryIsReported
      OBVIOUS
  <2>1. payload \in Payloads /\ Len(payload) \in Nat /\ at \in Nat
        /\ created \in Nat /\ made \in Nat
      BY PayloadTyped DEF IInv, TypeOK
  <2> QED
      BY <2>1 DEF IInv, ProgressInv, HistoryIsReported
<1> QED
    BY <1>1, Invariance, PTL

\* A path the payload does not concern keeps its entry.
LEMMA OthersStep ==
    ASSUME IInv, [Next]_vars, NEW p \in Paths \ Concerned
    PROVE  /\ p \in DOMAIN index' <=> p \in DOMAIN index
           /\ p \in DOMAIN index => index'[p] = index[p]
           /\ p \in DOMAIN head' <=> p \in DOMAIN head
           /\ p \in DOMAIN head => head'[p] = head[p]
<1>1. Writes(plan) \subseteq Targets(payload) /\ Named \subseteq Targets(payload)
    BY DEF IInv, PlanInv, Named, Staged
<1>2. \A q \in Targets(payload) : p # q /\ p \notin Above[q] /\ p \notin Under(q)
    BY DEF Concerned
<1>3. /\ DOMAIN head \subseteq Paths /\ DOMAIN index \subseteq Paths
      /\ Writes(plan) \subseteq Paths /\ Named \subseteq Paths
    BY PlanPaths DEF IInv, TypeOK, PlanInv, Plans, Named, Staged
<1>4. CASE Remove
  <2>1. head' = head /\ index' = [x \in DOMAIN index \ Staged |-> index[x]]
      BY <1>4 DEF Remove, Restrict
  <2>2. p \notin Staged
      BY <1>1, <1>2 DEF Named
  <2> QED
      BY <2>1, <2>2
<1>5. CASE Add
  <2>1. head' = head /\ index' = Updated(index, Matched(Writes(plan)))
      BY <1>5 DEF Add
  <2>2. \A q \in Matched(Writes(plan)) :
            p # q /\ p \notin Above[q] /\ p \notin Under(q)
      BY <1>1, <1>2, <1>3, MatchedIs
  <2> QED
      BY <2>1, <2>2, UpdatedAt
<1>6. CASE Commit
  <2>1. /\ head' = Updated(head, Matched(Named))
        /\ index' = Updated(index, Matched(Named))
      BY <1>6 DEF Commit, Recorded
  <2>2. \A q \in Matched(Named) :
            p # q /\ p \notin Above[q] /\ p \notin Under(q)
      BY <1>1, <1>2, <1>3, MatchedIs
  <2> QED
      BY <2>1, <2>2, UpdatedAt
<1>7. CASE ~(Remove \/ Add \/ Commit)
  <2>1. UNCHANGED <<head, index>>
      BY <1>7 DEF Next, Capture, ApplyRefused, Apply, PlanNext, Recheck, Delete,
         Write, FileFails, Name, GitFails, Edit, vars, tree
  <2> QED
      BY <2>1
<1> QED
    BY <1>4, <1>5, <1>6, <1>7

(* What the payload does not concern keeps its entry in index and HEAD.    *)
THEOREM OthersKept == Spec => OthersAreKept
<1>1. IInv /\ [Next]_vars =>
        [\A p \in Paths \ Concerned :
          /\ p \in DOMAIN index' <=> p \in DOMAIN index
          /\ p \in DOMAIN index => index'[p] = index[p]
          /\ p \in DOMAIN head' <=> p \in DOMAIN head
          /\ p \in DOMAIN head => head'[p] = head[p]]_vars
    BY OthersStep
<1> QED
    BY <1>1, Invariance, PTL DEF Spec, OthersAreKept

-----------------------------------------------------------------------------
(***************************************************************************)
(* The preview simulates the replay.  A layout is known by the kind it     *)
(* gives each path; whatever is planned, found conflicting or pruned, is   *)
(* so by these kinds alone.                                                *)
(***************************************************************************)
OverNodes == {"absent", "dir", "file"}

IsLayout(l) ==
    /\ DOMAIN l.over \subseteq Paths
    /\ \A p \in DOMAIN l.over : l.over[p] \in OverNodes

KindOf(node) == IF node = "file" THEN "text" ELSE node

Kind(l, p) ==
    IF p \in DOMAIN l.over THEN KindOf(l.over[p])
    ELSE IF Shadowed(l, p) THEN "absent" ELSE l.base[p].kind

Shows(l, t) == \A p \in Paths : t[p].kind = Kind(l, p)

\* What a layout puts somewhere is in folders.
Standing(l) ==
    \A p \in DOMAIN l.over : Kind(l, p) # "absent" =>
        \A d \in Above[p] : Kind(l, d) = "dir"

\* As a worktree is rooted, so is a layout.
Upright(l) ==
    \A p \in Paths : Kind(l, p) # "absent" =>
        \A d \in Above[p] : Kind(l, d) \in {"dir", "link"}

(* What the operators of the layout make of the kinds.                     *)
LEMMA NodeIs ==
    ASSUME NEW l, IsLayout(l), NEW p \in Paths
    PROVE  /\ Node(l, p) = "absent" <=> Kind(l, p) = "absent"
           /\ Node(l, p) = "dir" <=> Kind(l, p) = "dir"
           /\ Node(l, p) = "file" <=> Kind(l, p) \notin {"absent", "dir"}
           /\ Node(l, p) \in OverNodes
<1>1. CASE p \in DOMAIN l.over
    BY <1>1 DEF IsLayout, OverNodes, Node, Kind, KindOf
<1>2. CASE p \notin DOMAIN l.over /\ Shadowed(l, p)
    BY <1>2 DEF OverNodes, Node, Kind
<1>3. CASE p \notin DOMAIN l.over /\ ~Shadowed(l, p)
    BY <1>3 DEF OverNodes, Node, Kind, NodeOf
<1> QED
    BY <1>1, <1>2, <1>3

LEMMA ReachableIs ==
    ASSUME NEW l, IsLayout(l), NEW p \in Paths
    PROVE  Reachable(l, p) <=> \A d \in Above[p] : Kind(l, d) # "link"
<1>1. ASSUME NEW d \in Above[p]
      PROVE  (l.base[d].kind = "link" => Replaced(l, d)) <=> Kind(l, d) # "link"
    BY DEF IsLayout, OverNodes, Kind, KindOf, Replaced
<1> QED
    BY <1>1 DEF Reachable

LEMMA NewIsBinary ==
    ASSUME NEW l, IsLayout(l), NEW p \in Paths
    PROVE  ~Replaced(l, p) /\ l.base[p].kind = "binary" <=> Kind(l, p) = "binary"
BY DEF IsLayout, OverNodes, Kind, KindOf, Replaced

LEMMA PlainIs ==
    ASSUME disk \in [Paths -> Nodes]
    PROVE  /\ IsLayout(Plain) /\ Standing(Plain) /\ Plain.base = disk
           /\ \A p : Kind(Plain, p) = disk[p].kind
<1>1. /\ DOMAIN Plain.over = {} /\ Plain.cut = {} /\ Plain.base = disk
    BY DEF Plain
<1> QED
    BY <1>1 DEF IsLayout, Standing, Kind, Shadowed

(* Layouts of the same kinds are planned on alike.                         *)
LEMMA SamePlans ==
    ASSUME NEW l, IsLayout(l), NEW m, IsLayout(m),
           \A p \in Paths : Kind(l, p) = Kind(m, p),
           NEW c \in SUBSET Files
    PROVE  PlanCommit(l, c) = PlanCommit(m, c)
<1>1. \A p \in Paths : Reachable(l, p) <=> Reachable(m, p)
    BY ReachableIs
<1>2. \A p \in Paths : ~Replaced(l, p) /\ l.base[p].kind = "binary"
                      <=> ~Replaced(m, p) /\ m.base[p].kind = "binary"
    BY NewIsBinary
<1>3. \A f \in c : f.path \in Paths /\ (f.old # NoPath => f.old \in Paths)
    BY DEF Files
<1>4. \A f \in c : Action(l, f) = Action(m, f)
    BY <1>1, <1>2, <1>3 DEF Action
<1> QED
    BY <1>4 DEF PlanCommit

LEMMA SameConflicts ==
    ASSUME NEW l, IsLayout(l), NEW m, IsLayout(m),
           \A p \in Paths : Kind(l, p) = Kind(m, p),
           NEW pl \in Plans
    PROVE  Conflicted(l, pl) <=> Conflicted(m, pl)
<1>1. \A p \in Paths : Node(l, p) = Node(m, p)
    BY NodeIs DEF OverNodes
<1>2. \A d \in Paths : Live(l, d) = Live(m, d)
    BY <1>1 DEF Live, Under
<1>3. \A d \in Paths : Children(l, d) = Children(m, d)
    BY <1>2 DEF Children
<1>4. \A d \in Paths : \A ps : Emptied(l, d, ps) <=> Emptied(m, d, ps)
  <2> SUFFICES ASSUME NEW d \in Paths, NEW ps
               PROVE  Emptied(l, d, ps) <=> Emptied(m, d, ps)
      OBVIOUS
  <2>1. Live(l, d) \subseteq Paths
      BY DEF Live, Under
  <2> QED
      BY <1>1, <1>2, <1>3, <2>1 DEF Emptied
<1>5. ASSUME NEW f \in pl
      PROVE  Conflict(l, pl, f) <=> Conflict(m, pl, f)
  <2>1. f.file.path \in Paths /\ (f.file.old # NoPath => f.file.old \in Paths)
      BY DEF Plans, Files
  <2>2. \A d \in Above[f.file.path] : d \in Paths
      BY <2>1
  <2> QED
      BY <1>1, <1>4, <2>1, <2>2 DEF Conflict
<1> QED
    BY <1>5 DEF Conflicted

(* A set of overrides, and what it leaves as it was.                       *)
LEMMA SetIs ==
    ASSUME NEW l, IsLayout(l), NEW ps \in SUBSET Paths, NEW node \in OverNodes
    PROVE  /\ IsLayout(Set(l, ps, node))
           /\ DOMAIN Set(l, ps, node).over = DOMAIN l.over \cup ps
           /\ \A q \in ps : Kind(Set(l, ps, node), q) = KindOf(node)
           /\ \A q \in Paths \ ps :
                q \in DOMAIN l.over => Kind(Set(l, ps, node), q) = Kind(l, q)
           /\ \A q \in Paths \ ps :
                q \notin DOMAIN l.over =>
                  Kind(Set(l, ps, node), q) =
                    IF node # "dir" /\ Above[q] \cap ps # {} THEN "absent"
                    ELSE Kind(l, q)
<1>1. PICK m : m = Set(l, ps, node)
    OBVIOUS
<1>2. /\ DOMAIN m.over = DOMAIN l.over \cup ps
      /\ \A q \in ps : m.over[q] = node
      /\ \A q \in DOMAIN l.over \ ps : m.over[q] = l.over[q]
      /\ m.cut = IF node = "dir" THEN l.cut ELSE l.cut \cup ps
      /\ m.base = l.base
    BY <1>1 DEF Set
<1>3. IsLayout(m)
    BY <1>2 DEF IsLayout
<1>4. ASSUME NEW q \in Paths \ ps, q \notin DOMAIN l.over
      PROVE  Kind(m, q) = IF node # "dir" /\ Above[q] \cap ps # {} THEN "absent"
                          ELSE Kind(l, q)
  <2>1. Kind(m, q) = IF Shadowed(m, q) THEN "absent" ELSE l.base[q].kind
      BY <1>2, <1>4 DEF Kind
  <2>2. Kind(l, q) = IF Shadowed(l, q) THEN "absent" ELSE l.base[q].kind
      BY <1>4 DEF Kind
  <2>3. Shadowed(m, q) <=> Shadowed(l, q) \/ (node # "dir" /\ Above[q] \cap ps # {})
      BY <1>2 DEF Shadowed
  <2> QED
      BY <2>1, <2>2, <2>3
<1>5. /\ \A q \in ps : Kind(m, q) = KindOf(node)
      /\ \A q \in Paths \ ps : q \in DOMAIN l.over => Kind(m, q) = Kind(l, q)
    BY <1>2 DEF Kind
<1> QED
    BY <1>1, <1>2, <1>3, <1>4, <1>5

(* The same, for each of the three nodes.                                  *)
LEMMA Erased ==
    ASSUME NEW l, IsLayout(l), NEW ps \in SUBSET Paths,
           NEW m, m = Set(l, ps, "absent")
    PROVE  /\ IsLayout(m) /\ DOMAIN m.over = DOMAIN l.over \cup ps
           /\ \A q \in ps : Kind(m, q) = "absent"
           /\ \A q \in Paths \ ps : q \in DOMAIN l.over => Kind(m, q) = Kind(l, q)
           /\ \A q \in Paths \ ps : q \notin DOMAIN l.over =>
                Kind(m, q) = IF Above[q] \cap ps # {} THEN "absent" ELSE Kind(l, q)
<1>1. "absent" \in OverNodes /\ KindOf("absent") = "absent"
    BY DEF OverNodes, KindOf
<1> QED
  <2>1. /\ IsLayout(Set(l, ps, "absent"))
        /\ DOMAIN Set(l, ps, "absent").over = DOMAIN l.over \cup ps
        /\ \A q \in ps : Kind(Set(l, ps, "absent"), q) = KindOf("absent")
        /\ \A q \in Paths \ ps :
             q \in DOMAIN l.over => Kind(Set(l, ps, "absent"), q) = Kind(l, q)
        /\ \A q \in Paths \ ps :
             q \notin DOMAIN l.over =>
               Kind(Set(l, ps, "absent"), q) =
                 IF "absent" # "dir" /\ Above[q] \cap ps # {} THEN "absent"
                 ELSE Kind(l, q)
      BY <1>1, SetIs, Zenon
  <2> QED
      BY <1>1, <2>1

LEMMA Filed ==
    ASSUME NEW l, IsLayout(l), NEW ps \in SUBSET Paths,
           NEW m, m = Set(l, ps, "file")
    PROVE  /\ IsLayout(m) /\ DOMAIN m.over = DOMAIN l.over \cup ps
           /\ \A q \in ps : Kind(m, q) = "text"
           /\ \A q \in Paths \ ps : q \in DOMAIN l.over => Kind(m, q) = Kind(l, q)
           /\ \A q \in Paths \ ps : q \notin DOMAIN l.over =>
                Kind(m, q) = IF Above[q] \cap ps # {} THEN "absent" ELSE Kind(l, q)
<1>1. "file" \in OverNodes /\ KindOf("file") = "text"
    BY DEF OverNodes, KindOf
<1> QED
  <2>1. /\ IsLayout(Set(l, ps, "file"))
        /\ DOMAIN Set(l, ps, "file").over = DOMAIN l.over \cup ps
        /\ \A q \in ps : Kind(Set(l, ps, "file"), q) = KindOf("file")
        /\ \A q \in Paths \ ps :
             q \in DOMAIN l.over => Kind(Set(l, ps, "file"), q) = Kind(l, q)
        /\ \A q \in Paths \ ps :
             q \notin DOMAIN l.over =>
               Kind(Set(l, ps, "file"), q) =
                 IF "file" # "dir" /\ Above[q] \cap ps # {} THEN "absent"
                 ELSE Kind(l, q)
      BY <1>1, SetIs, Zenon
  <2> QED
      BY <1>1, <2>1

LEMMA Foldered ==
    ASSUME NEW l, IsLayout(l), NEW ps \in SUBSET Paths,
           NEW m, m = Set(l, ps, "dir")
    PROVE  /\ IsLayout(m) /\ DOMAIN m.over = DOMAIN l.over \cup ps
           /\ \A q \in ps : Kind(m, q) = "dir"
           /\ \A q \in Paths \ ps : q \in DOMAIN l.over => Kind(m, q) = Kind(l, q)
           /\ \A q \in Paths \ ps : q \notin DOMAIN l.over =>
                Kind(m, q) = Kind(l, q)
<1>1. "dir" \in OverNodes /\ KindOf("dir") = "dir"
    BY DEF OverNodes, KindOf
<1> QED
  <2>1. /\ IsLayout(Set(l, ps, "dir"))
        /\ DOMAIN Set(l, ps, "dir").over = DOMAIN l.over \cup ps
        /\ \A q \in ps : Kind(Set(l, ps, "dir"), q) = KindOf("dir")
        /\ \A q \in Paths \ ps :
             q \in DOMAIN l.over => Kind(Set(l, ps, "dir"), q) = Kind(l, q)
        /\ \A q \in Paths \ ps :
             q \notin DOMAIN l.over =>
               Kind(Set(l, ps, "dir"), q) =
                 IF "dir" # "dir" /\ Above[q] \cap ps # {} THEN "absent"
                 ELSE Kind(l, q)
      BY <1>1, SetIs, Zenon
  <2> QED
      BY <1>1, <2>1

(***************************************************************************)
(* Deletions.  What goes with the paths ps: they, what is below them, and  *)
(* the folders above them in which nothing else stands.                    *)
(***************************************************************************)
Tops(ps) == UNION {Above[p] : p \in ps}
Fallen(ps) == ps \cup {q \in Paths : Above[q] \cap ps # {}}

Hollow(l, ps) ==
    {d \in Tops(ps) :
        \A q \in Under(d) :
            Kind(l, q) # "absent" /\ q \notin Fallen(ps) => q \in Tops(ps)}

Removed(l, pl) == {p \in Deletions(pl) : Node(l, p) = "file"}

Deleted(l, ps) ==
    LET bare == Set(l, ps, "absent")
    IN  Set(bare, Pruned(bare, ps), "absent")

\* Files, none of them under a link.
Bottom(l, ps) ==
    /\ ps \subseteq Paths
    /\ \A p \in ps : /\ Kind(l, p) \notin {"absent", "dir"}
                     /\ \A d \in Above[p] : Kind(l, d) = "dir"

LEMMA TopsFacts ==
    ASSUME NEW l, NEW ps, Bottom(l, ps)
    PROVE  /\ Tops(ps) \subseteq Paths /\ Fallen(ps) \subseteq Paths
           /\ \A d \in Tops(ps) : Kind(l, d) = "dir" /\ Above[d] \subseteq Tops(ps)
           /\ Tops(ps) \cap Fallen(ps) = {}
<1>1. \A d \in Tops(ps) : d \in Paths /\ Kind(l, d) = "dir" /\ Above[d] \subseteq Tops(ps)
    BY DEF Tops, Bottom
<1>2. \A q \in Tops(ps) : q \notin ps /\ Above[q] \cap ps = {}
    BY <1>1 DEF Bottom
<1> QED
    BY <1>1, <1>2 DEF Fallen, Bottom

LEMMA DeletedIs ==
    ASSUME NEW l, IsLayout(l), Standing(l), NEW ps, Bottom(l, ps)
    PROVE  /\ IsLayout(Deleted(l, ps)) /\ Standing(Deleted(l, ps))
           /\ \A q \in Paths : Kind(Deleted(l, ps), q) =
                IF q \in Fallen(ps) \cup Hollow(l, ps) THEN "absent" ELSE Kind(l, q)
<1>1. PICK bare : bare = Set(l, ps, "absent")
    OBVIOUS
<1>2. ps \in SUBSET Paths /\ "absent" \in OverNodes /\ KindOf("absent") = "absent"
    BY DEF Bottom, OverNodes, KindOf
<1>3. /\ IsLayout(bare) /\ DOMAIN bare.over = DOMAIN l.over \cup ps
      /\ \A q \in Paths : Kind(bare, q) =
            IF q \in Fallen(ps) THEN "absent" ELSE Kind(l, q)
  <2>1. IsLayout(bare) /\ DOMAIN bare.over = DOMAIN l.over \cup ps
      BY <1>1, <1>2, Erased
  <2>2. \A q \in ps : Kind(bare, q) = "absent"
      BY <1>1, <1>2, Erased
  <2>3. \A q \in Paths \ ps : q \notin DOMAIN l.over =>
          Kind(bare, q) = IF Above[q] \cap ps # {} THEN "absent" ELSE Kind(l, q)
      BY <1>1, <1>2, Erased
  <2>4. \A q \in Paths \ ps : q \in DOMAIN l.over => Kind(bare, q) = Kind(l, q)
      BY <1>1, <1>2, Erased
  <2>5. \A q \in DOMAIN l.over : Above[q] \cap ps # {} => Kind(l, q) = "absent"
      BY DEF Standing, Bottom
  <2> QED
      BY <2>1, <2>2, <2>3, <2>4, <2>5 DEF Fallen
<1>4. \A q \in Paths : Node(bare, q) # "absent" <=>
                          Kind(l, q) # "absent" /\ q \notin Fallen(ps)
    BY <1>3, NodeIs
<1>5. {d \in Tops(ps) : Node(bare, d) = "dir"} = Tops(ps)
    BY <1>3, NodeIs, TopsFacts
<1>6. Pruned(bare, ps) = Hollow(l, ps)
  <2>1. Pruned(bare, ps) = {d \in Tops(ps) : Live(bare, d) \subseteq Tops(ps)}
      BY <1>5, Zenon DEF Pruned, Tops
  <2>2. ASSUME NEW d \in Tops(ps)
        PROVE  Live(bare, d) \subseteq Tops(ps) <=>
                 \A q \in Under(d) :
                   Kind(l, q) # "absent" /\ q \notin Fallen(ps) => q \in Tops(ps)
      BY <1>4 DEF Live, Under
  <2> QED
      BY <2>1, <2>2 DEF Hollow
<1>7. PICK m : m = Deleted(l, ps)
    OBVIOUS
<1>8. m = Set(bare, Hollow(l, ps), "absent") /\ Hollow(l, ps) \in SUBSET Paths
    BY <1>1, <1>6, <1>7, TopsFacts DEF Deleted, Hollow
<1>9. ASSUME NEW d \in Hollow(l, ps), NEW q \in Paths, d \in Above[q],
             Kind(bare, q) # "absent"
      PROVE  q \in Hollow(l, ps)
  <2>1. q \in Tops(ps)
      BY <1>3, <1>9 DEF Hollow, Under
  <2>2. \A x \in Under(q) : x \in Under(d)
      BY <1>9 DEF Under
  <2> QED
      BY <1>9, <2>1, <2>2 DEF Hollow
<1>10. /\ IsLayout(m) /\ DOMAIN m.over = DOMAIN l.over \cup ps \cup Hollow(l, ps)
       /\ \A q \in Paths : Kind(m, q) =
            IF q \in Hollow(l, ps) THEN "absent" ELSE Kind(bare, q)
  <2>1. IsLayout(m) /\ DOMAIN m.over = DOMAIN l.over \cup ps \cup Hollow(l, ps)
      BY <1>3, <1>8, Erased
  <2>2. \A q \in Hollow(l, ps) : Kind(m, q) = "absent"
      BY <1>3, <1>8, Erased
  <2>3. \A q \in Paths \ Hollow(l, ps) :
          \/ Kind(m, q) = Kind(bare, q)
          \/ Kind(m, q) = "absent" /\ Above[q] \cap Hollow(l, ps) # {}
      BY <1>3, <1>8, Erased
  <2>4. \A q \in Paths \ Hollow(l, ps) :
          Above[q] \cap Hollow(l, ps) # {} => Kind(bare, q) = "absent"
      BY <1>9
  <2> QED
      BY <2>1, <2>2, <2>3, <2>4
<1>11. \A q \in Paths : Kind(m, q) =
          IF q \in Fallen(ps) \cup Hollow(l, ps) THEN "absent" ELSE Kind(l, q)
    BY <1>3, <1>10
<1>12. ASSUME NEW q \in DOMAIN m.over, Kind(m, q) # "absent", NEW d \in Above[q]
       PROVE  Kind(m, d) = "dir"
  <2>1. q \in Paths /\ d \in Paths
      BY <1>10, <1>12 DEF IsLayout
  <2>2. q \in DOMAIN l.over /\ Kind(l, q) # "absent" /\ q \notin Fallen(ps)
      BY <1>10, <1>11, <1>12, <2>1 DEF Fallen
  <2>3. Kind(l, d) = "dir"
      BY <1>12, <2>2 DEF Standing
  <2>4. d \notin Fallen(ps)
      BY <1>12, <2>1, <2>2, <2>3 DEF Fallen, Bottom
  <2>5. d \notin Hollow(l, ps)
      BY <1>3, <1>9, <1>11, <1>12, <2>1, <2>2
  <2> QED
      BY <1>11, <2>1, <2>3, <2>4, <2>5
<1> QED
    BY <1>7, <1>10, <1>11, <1>12 DEF Standing

(* One more deletion, on the disk and in the layout.                       *)
LEMMA DeleteShows ==
    ASSUME disk \in [Paths -> Nodes], NEW l, IsLayout(l), Standing(l),
           NEW ps, NEW p \in Paths, Bottom(l, ps \cup {p}),
           Shows(Deleted(l, ps), disk)
    PROVE  Shows(Deleted(l, ps \cup {p}), Without(p))
<1> DEFINE kept == {q \in Paths : disk[q].kind # "absent"} \ ({p} \cup Under(p))
           empty == {d \in Above[p] :
                    disk[d].kind = "dir" /\ kept \cap Under(d) \subseteq Above[p]}
<1>1. \A q \in Paths : Without(p)[q] = IF q \in kept \ empty THEN disk[q] ELSE Gone
    BY DEF Without
<1>2. \A q \in Paths : q \in kept <=>
        disk[q].kind # "absent" /\ q # p /\ q \notin Under(p)
    OBVIOUS
<1>3. \A d : d \in empty <=> /\ d \in Above[p] /\ disk[d].kind = "dir"
                             /\ \A q \in kept : q \in Under(d) => q \in Above[p]
    OBVIOUS
<1> HIDE DEF kept, empty
<1> DEFINE all == ps \cup {p}
<1>4. Bottom(l, ps)
    BY DEF Bottom
<1>5. /\ Tops(all) = Tops(ps) \cup Above[p]
      /\ \A q : q \in Fallen(all) <=> q \in Fallen(ps) \/ q = p \/ q \in Under(p)
    BY DEF Tops, Fallen, Under
<1>6. \A q \in Paths : disk[q].kind =
        IF q \in Fallen(ps) \cup Hollow(l, ps) THEN "absent" ELSE Kind(l, q)
    BY <1>4, DeletedIs DEF Shows
<1>7. \A d \in Tops(all) : /\ d \in Paths /\ Kind(l, d) = "dir" /\ d \notin Fallen(all)
                           /\ Above[d] \subseteq Tops(all)
    BY TopsFacts
<1> HIDE DEF all
<1>8. Hollow(l, ps) \subseteq Hollow(l, all)
    BY <1>5 DEF Hollow
<1>9. empty \subseteq Hollow(l, all)
  <2> SUFFICES ASSUME NEW d \in empty, NEW q \in Under(d),
                      Kind(l, q) # "absent", q \notin Fallen(all)
               PROVE  q \in Tops(all)
      BY <1>3, <1>5 DEF Hollow
  <2>1. q \in Paths
      BY DEF Under
  <2>2. CASE q \in Hollow(l, ps)
      BY <1>5, <2>2 DEF Hollow
  <2>3. CASE q \notin Hollow(l, ps)
    <3>1. q \in kept
        BY <1>2, <1>5, <1>6, <2>1, <2>3
    <3> QED
        BY <1>3, <1>5, <3>1
  <2> QED
      BY <2>2, <2>3
<1>10. ASSUME NEW d \in Hollow(l, all), d \notin Above[p]
       PROVE  d \in Hollow(l, ps)
  <2>1. d \in Tops(ps) /\ d \in Paths
      BY <1>5, <1>7, <1>10 DEF Hollow
  <2>2. ASSUME NEW q \in Under(d), Kind(l, q) # "absent", q \notin Fallen(ps)
        PROVE  q \in Tops(ps)
    <3>1. q \in Paths /\ d \in Above[q]
        BY <2>2 DEF Under
    <3>2. q # p
        BY <1>10, <3>1
    <3>3. p \notin Above[q]
      <4>1. p \notin Above[d] /\ d # p
          BY <1>5, <1>7, <2>1 DEF Under
      <4> QED
          BY <1>10, <3>1, <4>1
    <3>4. q \in Tops(all)
        BY <1>5, <1>10, <2>2, <3>2, <3>3 DEF Hollow, Under
    <3>5. q \notin Above[p]
        BY <1>10, <3>1
    <3> QED
        BY <1>5, <3>4, <3>5
  <2> QED
      BY <2>1, <2>2 DEF Hollow
<1>11. ASSUME NEW d \in Hollow(l, all), d \in Above[p], disk[d].kind # "absent"
       PROVE  d \in empty
  <2>1. d \in Paths /\ disk[d].kind = "dir"
      BY <1>6, <1>7, <1>11 DEF Hollow
  <2>2. ASSUME NEW q \in kept, q \in Under(d), q \notin Above[p]
        PROVE  FALSE
    <3>1. q \in Paths /\ d \in Above[q]
        BY <2>2 DEF Under
    <3>2. /\ Kind(l, q) # "absent" /\ q \notin Fallen(all) /\ q \notin Hollow(l, ps)
        BY <1>2, <1>5, <1>6, <2>2, <3>1
    <3>3. q \in Tops(all)
        BY <1>11, <2>2, <3>2 DEF Hollow
    <3>4. \A x \in Under(q) : x \in Under(d)
        BY <3>1 DEF Under
    <3>5. q \in Hollow(l, all)
        BY <1>11, <3>3, <3>4 DEF Hollow
    <3> QED
        BY <1>10, <2>2, <3>2, <3>5
  <2> QED
      BY <1>3, <1>11, <2>1, <2>2
<1>12. ASSUME NEW q \in Paths
       PROVE  Without(p)[q].kind =
                IF q \in Fallen(all) \cup Hollow(l, all) THEN "absent" ELSE Kind(l, q)
  <2>1. CASE q \in kept \ empty
    <3>1. disk[q].kind # "absent" /\ q \notin Fallen(all)
        BY <1>2, <1>5, <1>6, <2>1
    <3>2. q \notin Hollow(l, all)
        BY <1>10, <1>11, <1>6, <2>1, <3>1
    <3> QED
        BY <1>1, <1>5, <1>6, <2>1, <3>1, <3>2
  <2>2. CASE q \notin kept
    <3>1. Without(p)[q].kind = "absent"
        BY <1>1, <2>2 DEF Gone
    <3>2. disk[q].kind = "absent" \/ q = p \/ q \in Under(p)
        BY <1>2, <2>2
    <3> QED
        BY <1>5, <1>6, <1>8, <3>1, <3>2
  <2>3. CASE q \in empty
    <3>1. Without(p)[q].kind = "absent"
        BY <1>1, <2>3 DEF Gone
    <3> QED
        BY <1>9, <2>3, <3>1
  <2> QED
      BY <2>1, <2>2, <2>3
<1>13. Bottom(l, all)
    BY DEF all
<1>14. Shows(Deleted(l, all), Without(p))
    BY <1>12, <1>13, DeletedIs DEF Shows
<1> QED
    BY <1>14 DEF all

(* A deletion, its emptied folders included, leaves the worktree rooted.   *)
LEMMA WithoutRooted ==
    ASSUME disk \in [Paths -> Nodes], Rooted(disk), NEW p \in Paths,
           \A d \in Above[p] : disk[d].kind = "dir"
    PROVE  Rooted(Without(p))
<1> DEFINE kept == {q \in Paths : disk[q].kind # "absent"} \ ({p} \cup Under(p))
           empty == {d \in Above[p] :
                    disk[d].kind = "dir" /\ kept \cap Under(d) \subseteq Above[p]}
<1>1. \A q \in Paths : Without(p)[q] = IF q \in kept \ empty THEN disk[q] ELSE Gone
    BY DEF Without
<1>2. \A q \in Paths : q \in kept <=>
        disk[q].kind # "absent" /\ q # p /\ q \notin Under(p)
    OBVIOUS
<1>3. \A d : d \in empty <=> /\ d \in Above[p] /\ disk[d].kind = "dir"
                             /\ \A q \in kept : q \in Under(d) => q \in Above[p]
    OBVIOUS
<1> HIDE DEF kept, empty
<1> SUFFICES ASSUME NEW q \in Paths, Without(p)[q].kind # "absent",
                    NEW d \in Above[q]
             PROVE  Without(p)[d].kind \in {"dir", "link"}
    BY DEF Rooted
<1>4. q \in kept /\ q \notin empty /\ d \in Paths
    BY <1>1 DEF Gone
<1>5. disk[d].kind \in {"dir", "link"}
    BY <1>2, <1>4 DEF Rooted
<1>6. d \in kept
    BY <1>2, <1>4, <1>5 DEF Under
<1>7. ASSUME d \in empty
      PROVE  q \in empty
  <2>1. q \in Above[p]
      BY <1>3, <1>4, <1>7 DEF Under
  <2>2. \A x \in kept : x \in Under(q) => x \in Above[p]
      BY <1>3, <1>4, <1>7 DEF Under
  <2> QED
      BY <1>3, <2>1, <2>2
<1> QED
    BY <1>1, <1>4, <1>5, <1>6, <1>7

(***************************************************************************)
(* Writes.                                                                 *)
(***************************************************************************)
Wrote(l, ps) == Set(Set(l, ps, "file"), Tops(ps), "dir")

\* Applied, in these terms.
LEMMA AppliedIs ==
    ASSUME NEW l, NEW pl
    PROVE  Applied(l, pl) = Wrote(Deleted(l, Removed(l, pl)), Writes(pl))
BY Zenon DEF Applied, Wrote, Deleted, Removed, Tops

(* A write where no folder is, in a layout whose overrides are in folders. *)
LEMMA WroteIs ==
    ASSUME NEW m, IsLayout(m), Standing(m), NEW p \in Paths, Kind(m, p) # "dir",
           NEW n, n = Wrote(m, {p})
    PROVE  /\ IsLayout(n) /\ Standing(n)
           /\ \A q \in Paths : Kind(n, q) =
                IF q = p THEN "text"
                ELSE IF q \in Above[p] THEN "dir"
                ELSE IF q \in Under(p) THEN "absent" ELSE Kind(m, q)
<1>1. PICK w : w = Set(m, {p}, "file")
    OBVIOUS
<1>2. /\ IsLayout(w) /\ DOMAIN w.over = DOMAIN m.over \cup {p}
      /\ \A q \in {p} : Kind(w, q) = "text"
      /\ \A q \in Paths \ {p} : q \in DOMAIN m.over => Kind(w, q) = Kind(m, q)
      /\ \A q \in Paths \ {p} : q \notin DOMAIN m.over =>
           Kind(w, q) = IF Above[q] \cap {p} # {} THEN "absent" ELSE Kind(m, q)
    BY <1>1, Filed
<1>3. PICK tops \in SUBSET Paths : tops = Above[p] /\ tops = Tops({p})
    BY DEF Tops
<1>4. n = Set(w, tops, "dir")
    BY <1>1, <1>3 DEF Wrote
<1>5. /\ IsLayout(n) /\ DOMAIN n.over = DOMAIN w.over \cup Above[p]
      /\ \A q \in Above[p] : Kind(n, q) = "dir"
      /\ \A q \in Paths \ Above[p] : Kind(n, q) = Kind(w, q)
  <2>0. IsLayout(w)
      BY <1>2
  <2>1. IsLayout(n) /\ DOMAIN n.over = DOMAIN w.over \cup tops
      BY <1>4, <2>0, Foldered
  <2>2. \A q \in tops : Kind(n, q) = "dir"
      BY <1>2, <1>4, Foldered
  <2>3. \A q \in Paths \ tops : q \in DOMAIN w.over => Kind(n, q) = Kind(w, q)
      BY <1>2, <1>4, Foldered
  <2>4. \A q \in Paths \ tops : q \notin DOMAIN w.over => Kind(n, q) = Kind(w, q)
      BY <1>2, <1>4, Foldered
  <2> QED
      BY <1>3, <2>1, <2>2, <2>3, <2>4
<1>6. \A q \in Paths : q \in DOMAIN m.over /\ p \in Above[q] => Kind(m, q) = "absent"
    BY DEF Standing
<1>7. \A q \in Paths : q \in Under(p) <=> p \in Above[q]
    BY DEF Under
<1>8. p \notin Above[p] /\ \A d \in Above[p] : d \notin Under(p) /\ d # p
    BY <1>7
<1>9. \A q \in Paths : Kind(n, q) =
                IF q = p THEN "text"
                ELSE IF q \in Above[p] THEN "dir"
                ELSE IF q \in Under(p) THEN "absent" ELSE Kind(m, q)
  <2> SUFFICES ASSUME NEW q \in Paths, q # p, q \notin Above[p]
               PROVE  Kind(n, q) = IF q \in Under(p) THEN "absent" ELSE Kind(m, q)
      BY <1>2, <1>5, <1>8
  <2>1. Kind(n, q) = Kind(w, q)
      BY <1>5
  <2>2. CASE q \in DOMAIN m.over
      BY <1>2, <1>6, <1>7, <2>1, <2>2
  <2>3. CASE q \notin DOMAIN m.over
      BY <1>2, <1>7, <2>1, <2>3
  <2> QED
      BY <2>2, <2>3
<1>10. ASSUME NEW q \in DOMAIN n.over, Kind(n, q) # "absent", NEW d \in Above[q]
       PROVE  Kind(n, d) = "dir"
  <2>1. q \in Paths /\ d \in Paths /\ Above[d] \subseteq Above[q]
      BY <1>5, <1>10 DEF IsLayout
  <2>2. CASE q = p \/ q \in Above[p]
    <3>1. d \in Above[p]
        BY <1>10, <2>2
    <3> QED
        BY <1>5, <3>1
  <2>3. CASE ~(q = p \/ q \in Above[p])
    <3>1. q \notin Under(p) /\ Kind(n, q) = Kind(m, q) /\ q \in DOMAIN m.over
        BY <1>2, <1>5, <1>9, <1>10, <2>1, <2>3
    <3>2. Kind(m, d) = "dir" /\ d # p /\ d \notin Under(p)
        BY <1>7, <1>10, <2>1, <3>1 DEF Standing
    <3> QED
        BY <1>9, <2>1, <3>2
  <2> QED
      BY <2>2, <2>3
<1> QED
    BY <1>5, <1>9, <1>10 DEF Standing

LEMMA NothingWrote ==
    ASSUME NEW m, IsLayout(m), Standing(m), NEW ps, ps = {}, NEW n, n = Wrote(m, ps)
    PROVE  /\ IsLayout(n) /\ Standing(n)
           /\ \A q \in Paths : Kind(n, q) = Kind(m, q)
<1>1. PICK w : w = Set(m, ps, "file")
    OBVIOUS
<1>2. /\ IsLayout(w) /\ DOMAIN w.over = DOMAIN m.over
      /\ \A q \in Paths : Kind(w, q) = Kind(m, q)
  <2>1. ps \in SUBSET Paths
      OBVIOUS
  <2>2. IsLayout(w) /\ DOMAIN w.over = DOMAIN m.over \cup ps
      BY <1>1, <2>1, Filed
  <2>4. \A q \in Paths \ ps : q \in DOMAIN m.over => Kind(w, q) = Kind(m, q)
      BY <1>1, <2>1, Filed
  <2>3. \A q \in Paths \ ps : q \notin DOMAIN m.over =>
          Kind(w, q) = IF Above[q] \cap ps # {} THEN "absent" ELSE Kind(m, q)
      BY <1>1, <2>1, Filed
  <2> QED
      BY <2>2, <2>3, <2>4
<1>3. Tops(ps) = {}
    BY DEF Tops
<1>4. PICK none : none = Tops(ps) /\ none \in SUBSET Paths
    BY <1>3
<1>5. n = Set(w, none, "dir")
    BY <1>1, <1>4 DEF Wrote
<1>6. /\ IsLayout(n) /\ DOMAIN n.over = DOMAIN w.over
      /\ \A q \in Paths : Kind(n, q) = Kind(w, q)
  <2>1. /\ IsLayout(n) /\ DOMAIN n.over = DOMAIN w.over \cup none
        /\ \A q \in Paths \ none : q \in DOMAIN w.over => Kind(n, q) = Kind(w, q)
      BY <1>2, <1>4, <1>5, Foldered
  <2>2. \A q \in Paths \ none : q \notin DOMAIN w.over => Kind(n, q) = Kind(w, q)
      BY <1>2, <1>4, <1>5, Foldered
  <2> QED
      BY <1>3, <1>4, <2>1, <2>2
<1> QED
    BY <1>2, <1>6 DEF Standing, IsLayout

(* Writes one by one are the writes together.                              *)
LEMMA WroteAdds ==
    ASSUME NEW m, NEW ps, NEW p, p \notin Tops(ps)
    PROVE  Wrote(m, ps \cup {p}) = Wrote(Wrote(m, ps), {p})
<1> DEFINE all == ps \cup {p}
           over == [q \in DOMAIN m.over \cup all \cup Tops(all) |->
                      IF q \in Tops(all) THEN "dir"
                      ELSE IF q \in all THEN "file" ELSE m.over[q]]
<1>1. Tops(all) = Tops(ps) \cup Above[p] /\ Tops({p}) = Above[p]
    BY DEF Tops
<1>2. ASSUME NEW l, NEW qs
      PROVE  Wrote(l, qs) =
               [base |-> l.base,
                over |-> [q \in DOMAIN l.over \cup qs \cup Tops(qs) |->
                            IF q \in Tops(qs) THEN "dir"
                            ELSE IF q \in qs THEN "file" ELSE l.over[q]],
                cut |-> l.cut \cup qs]
  <2>1. PICK w : w = [base |-> l.base,
                      over |-> [q \in DOMAIN l.over \cup qs |->
                                  IF q \in qs THEN "file" ELSE l.over[q]],
                      cut |-> l.cut \cup qs]
      OBVIOUS
  <2>2. Set(l, qs, "file") = w
      BY <2>1 DEF Set
  <2>3. Wrote(l, qs) =
          [base |-> w.base,
           over |-> [q \in DOMAIN w.over \cup Tops(qs) |->
                       IF q \in Tops(qs) THEN "dir" ELSE w.over[q]],
           cut |-> w.cut]
      BY <2>2 DEF Wrote, Set
  <2>4. DOMAIN w.over = DOMAIN l.over \cup qs /\ w.base = l.base /\ w.cut = l.cut \cup qs
      BY <2>1
  <2>5. \A q \in DOMAIN w.over : w.over[q] = IF q \in qs THEN "file" ELSE l.over[q]
      BY <2>1
  <2>6. [q \in DOMAIN w.over \cup Tops(qs) |->
           IF q \in Tops(qs) THEN "dir" ELSE w.over[q]]
        = [q \in DOMAIN l.over \cup qs \cup Tops(qs) |->
             IF q \in Tops(qs) THEN "dir"
             ELSE IF q \in qs THEN "file" ELSE l.over[q]]
      BY <2>4, <2>5
  <2> QED
      BY <2>3, <2>4, <2>6
<1>3. PICK w : w = Wrote(m, ps)
    OBVIOUS
<1>4. /\ w.base = m.base /\ w.cut = m.cut \cup ps
      /\ DOMAIN w.over = DOMAIN m.over \cup ps \cup Tops(ps)
      /\ \A q \in DOMAIN w.over : w.over[q] =
           IF q \in Tops(ps) THEN "dir" ELSE IF q \in ps THEN "file" ELSE m.over[q]
    BY <1>2, <1>3
<1>5. Wrote(m, all) = [base |-> m.base, over |-> over, cut |-> m.cut \cup all]
    BY <1>2
<1>6. Wrote(w, {p}) =
        [base |-> w.base,
         over |-> [q \in DOMAIN w.over \cup {p} \cup Above[p] |->
                     IF q \in Above[p] THEN "dir"
                     ELSE IF q \in {p} THEN "file" ELSE w.over[q]],
         cut |-> w.cut \cup {p}]
  <2>1. PICK tops : tops = Tops({p})
      OBVIOUS
  <2>2. Wrote(w, {p}) =
        [base |-> w.base,
         over |-> [q \in DOMAIN w.over \cup {p} \cup tops |->
                     IF q \in tops THEN "dir"
                     ELSE IF q \in {p} THEN "file" ELSE w.over[q]],
         cut |-> w.cut \cup {p}]
      BY <1>2, <2>1
  <2>3. tops = Above[p]
      BY <1>1, <2>1
  <2> QED
      BY <2>2, <2>3
<1>7. DOMAIN w.over \cup {p} \cup Above[p] = DOMAIN m.over \cup all \cup Tops(all)
    BY <1>1, <1>4
<1>8. [q \in DOMAIN w.over \cup {p} \cup Above[p] |->
         IF q \in Above[p] THEN "dir"
         ELSE IF q \in {p} THEN "file" ELSE w.over[q]] = over
    BY <1>1, <1>4, <1>7
<1>9. w.cut \cup {p} = m.cut \cup all
    BY <1>4
<1> QED
    BY <1>3, <1>4, <1>5, <1>6, <1>8, <1>9

(* One more write, on the disk and in the layout.                          *)
LEMMA WriteShows ==
    ASSUME disk \in [Paths -> Nodes], NEW m, NEW ps, NEW p \in Paths, NEW b \in Nat,
           IsLayout(Wrote(m, ps)), Standing(Wrote(m, ps)), Shows(Wrote(m, ps), disk),
           disk[p].kind # "dir"
    PROVE  /\ IsLayout(Wrote(m, ps \cup {p})) /\ Standing(Wrote(m, ps \cup {p}))
           /\ Shows(Wrote(m, ps \cup {p}), With(p, b))
<1>1. PICK w : w = Wrote(m, ps)
    OBVIOUS
<1>2. IsLayout(w) /\ Standing(w) /\ Shows(w, disk) /\ Kind(w, p) # "dir"
    BY <1>1 DEF Shows
<1>3. p \notin Tops(ps)
  <2> SUFFICES ASSUME p \in Tops(ps) PROVE Kind(w, p) = "dir"
      BY <1>2
  <2>1. PICK u : u = Set(m, ps, "file")
      OBVIOUS
  <2>2. w = Set(u, Tops(ps), "dir")
      BY <1>1, <2>1 DEF Wrote
  <2>3. p \in DOMAIN w.over /\ w.over[p] = "dir"
      BY <2>2 DEF Set
  <2> QED
      BY <2>3 DEF Kind, KindOf
<1>4. PICK n : n = Wrote(w, {p})
    OBVIOUS
<1>5. n = Wrote(m, ps \cup {p})
    BY <1>1, <1>3, <1>4, WroteAdds
<1>6. /\ IsLayout(n) /\ Standing(n)
      /\ \A q \in Paths : Kind(n, q) =
           IF q = p THEN "text"
           ELSE IF q \in Above[p] THEN "dir"
           ELSE IF q \in Under(p) THEN "absent" ELSE Kind(w, q)
    BY <1>2, <1>4, WroteIs
<1>7. \A q \in Paths : With(p, b)[q].kind =
           IF q = p THEN "text"
           ELSE IF q \in Above[p] THEN "dir"
           ELSE IF q \in Under(p) THEN "absent" ELSE disk[q].kind
    BY DEF With, Text, Folder, Gone
<1>8. Shows(n, With(p, b))
    BY <1>2, <1>6, <1>7 DEF Shows
<1> QED
    BY <1>5, <1>6, <1>8

LEMMA WithRooted ==
    ASSUME disk \in [Paths -> Nodes], Rooted(disk), NEW p \in Paths, NEW b \in Nat
    PROVE  Rooted(With(p, b))
<1>1. \A q \in Paths : With(p, b)[q].kind =
           IF q = p THEN "text"
           ELSE IF q \in Above[p] THEN "dir"
           ELSE IF q \in Under(p) THEN "absent" ELSE disk[q].kind
    BY DEF With, Text, Folder, Gone
<1> SUFFICES ASSUME NEW q \in Paths, With(p, b)[q].kind # "absent",
                    NEW d \in Above[q]
             PROVE  With(p, b)[d].kind \in {"dir", "link"}
    BY DEF Rooted
<1>2. d \in Paths /\ Above[d] \subseteq Above[q]
    OBVIOUS
<1>3. CASE q = p \/ q \in Above[p]
    BY <1>1, <1>2, <1>3
<1>4. CASE ~(q = p \/ q \in Above[p])
  <2>1. q \notin Under(p) /\ disk[q].kind # "absent"
      BY <1>1, <1>4
  <2>2. disk[d].kind \in {"dir", "link"} /\ d # p /\ d \notin Under(p)
      BY <1>2, <2>1 DEF Rooted, Under
  <2> QED
      BY <1>1, <1>2, <2>2
<1> QED
    BY <1>3, <1>4

(***************************************************************************)
(* What a plan never touches: a file under a link, a binary file.          *)
(***************************************************************************)
LEMMA PlanStands ==
    ASSUME NEW l, IsLayout(l), NEW c \in SUBSET Files,
           NEW pl, pl = PlanCommit(l, c)
    PROVE  /\ Upright(l) => Bottom(l, Removed(l, pl))
           /\ \A p \in Writes(pl) : Kind(l, p) # "binary"
<1>1. ASSUME NEW f \in pl, f.action # "skip"
      PROVE  /\ f.file \in Files /\ f.action = Action(l, f.file)
             /\ Reachable(l, f.file.path)
             /\ f.file.old # NoPath => Reachable(l, f.file.old)
             /\ f.action = "write" => Kind(l, f.file.path) # "binary"
  <2>1. f.file \in c /\ f.file \in Files /\ f.action = Action(l, f.file)
      BY <1>1 DEF PlanCommit
  <2>2. f.file.path \in Paths /\ f.file.change \in {"write", "delete"}
      BY <2>1 DEF Files
  <2>3. /\ f.action = f.file.change
        /\ Reachable(l, f.file.path)
        /\ f.file.old # NoPath => Reachable(l, f.file.old)
        /\ ~ (/\ f.file.change = "write" /\ ~Replaced(l, f.file.path)
              /\ l.base[f.file.path].kind = "binary")
      BY <1>1, <2>1 DEF Action
  <2> QED
      BY <2>1, <2>2, <2>3, NewIsBinary
<1>2. ASSUME NEW p \in Deletions(pl)
      PROVE  p \in Paths /\ Reachable(l, p)
  <2>1. CASE p \in {f.file.path : f \in {g \in pl : g.action = "delete"}}
    <3>1. PICK f \in pl : f.action = "delete" /\ p = f.file.path
        BY <2>1
    <3> QED
        BY <1>1, <3>1 DEF Files
  <2>2. CASE p \in {f.file.old : f \in {g \in pl : g.action # "skip"}} \ {NoPath}
    <3>1. PICK f \in pl : f.action # "skip" /\ p = f.file.old /\ p # NoPath
        BY <2>2
    <3> QED
        BY <1>1, <3>1 DEF Files
  <2> QED
      BY <2>1, <2>2 DEF Deletions
<1>3. ASSUME Upright(l), NEW p \in Removed(l, pl)
      PROVE  /\ p \in Paths /\ Kind(l, p) \notin {"absent", "dir"}
             /\ \A d \in Above[p] : Kind(l, d) = "dir"
  <2>1. p \in Paths /\ Reachable(l, p) /\ Kind(l, p) \notin {"absent", "dir"}
      BY <1>2, <1>3, NodeIs DEF Removed
  <2> QED
      BY <1>3, <2>1, ReachableIs DEF Upright
<1>4. \A p \in Writes(pl) : Kind(l, p) # "binary"
    BY <1>1 DEF Writes
<1> QED
    BY <1>3, <1>4 DEF Bottom

(***************************************************************************)
(* The layouts of the preview: their recursion has a solution, by the      *)
(* smallest number of commits for which it would have none.                *)
(***************************************************************************)
Before(g, commits, i) ==
    IF i = 1 THEN Plain
    ELSE LET l == g[i - 1]
             pl == PlanCommit(l, commits[i - 1])
         IN  IF Conflicted(l, pl) THEN l ELSE Applied(l, pl)

Simulates(g, commits, n) == g = [i \in 1..n |-> Before(g, commits, i)]

LEMMA LayoutsExist ==
    ASSUME NEW commits, NEW n \in Nat
    PROVE  \E g : Simulates(g, commits, n)
<1> DEFINE None == {k \in Nat : ~ \E g : Simulates(g, commits, k)}
<1> SUFFICES ASSUME None # {} PROVE FALSE
    OBVIOUS
<1>1. None \subseteq Nat
    OBVIOUS
<1>2. ASSUME NEW k \in Nat, \E g : Simulates(g, commits, k)
      PROVE  k \notin None
    BY <1>2
<1>3. ASSUME NEW k \in None
      PROVE  ~ \E g : Simulates(g, commits, k)
    BY <1>3
<1> HIDE DEF None
<1>4. PICK k \in None : \A j \in None : ~ (j < k)
  <2>1. IsWellFoundedOn(OpToRel(<, Nat), Nat)
      BY NatLessThanWellFounded
  <2>2. PICK k \in None : \A j \in None : ~ (<<j, k>> \in OpToRel(<, Nat))
      BY <1>1, <2>1, WFMin
  <2>3. \A j \in None : j < k => <<j, k>> \in OpToRel(<, Nat)
      BY <1>1 DEF OpToRel
  <2> QED
      BY <2>2, <2>3
<1>5. CASE k = 0
  <2>1. PICK g : g = [i \in 1..0 |-> Plain]
      OBVIOUS
  <2>2. Simulates(g, commits, 0)
      BY <2>1 DEF Simulates
  <2> QED
      BY <1>2, <1>5, <2>2
<1>6. CASE k # 0
  <2>1. k \in Nat /\ k - 1 \in Nat /\ k - 1 \notin None
      BY <1>1, <1>4, <1>6
  <2>2. PICK g : Simulates(g, commits, k - 1)
      BY <1>2, <2>1 DEF None
  <2>3. PICK h : h = [i \in 1..k |-> IF i = k THEN Before(g, commits, k) ELSE g[i]]
      OBVIOUS
  <2>4. ASSUME NEW i \in 1..k
        PROVE  Before(h, commits, i) = Before(g, commits, i)
    <3>1. CASE i = 1
        BY <3>1 DEF Before
    <3>2. CASE i # 1
      <4>1. h[i - 1] = g[i - 1]
          BY <2>1, <2>3, <2>4, <3>2
      <4> QED
          BY <4>1 DEF Before
    <3> QED
        BY <3>1, <3>2
  <2>5. \A i \in 1..k : h[i] = Before(h, commits, i)
    <3>1. \A i \in 1..k : i # k => g[i] = Before(g, commits, i)
      <4> DEFINE B(i) == Before(g, commits, i)
      <4>1. g = [i \in 1..(k - 1) |-> B(i)]
          BY <2>2 DEF Simulates
      <4> HIDE DEF B
      <4>2. \A i \in 1..k : i # k => g[i] = B(i)
          BY <2>1, <4>1
      <4> QED
          BY <4>2 DEF B
    <3> QED
        BY <2>3, <2>4, <3>1
  <2>6. h = [i \in 1..k |-> Before(h, commits, i)]
    <3> DEFINE B(i) == Before(h, commits, i)
    <3>1. \A i \in 1..k : h[i] = B(i)
        BY <2>5
    <3> HIDE DEF B
    <3>2. h = [i \in 1..k |-> B(i)]
        BY <2>3, <3>1
    <3> QED
        BY <3>2 DEF B
  <2> QED
      BY <1>3, <2>6 DEF Simulates
<1> QED
    BY <1>5, <1>6

\* What the preview says of each commit, it says of the layout before it.
Foreseen(L, commits, view) ==
    \A i \in 1..Len(commits) :
        /\ view[i].plan = PlanCommit(L[i], commits[i])
        /\ view[i].refused <=> Conflicted(L[i], view[i].plan)
        /\ i < Len(commits) /\ ~view[i].refused =>
              L[i + 1] = Applied(L[i], view[i].plan)

LEMMA PreviewForesees ==
    ASSUME payload \in Payloads, preview = Preview(payload)
    PROVE  \E L : /\ Foreseen(L, payload, preview)
                  /\ 1 \in 1..Len(payload) => L[1] = Plain
<1>1. Len(payload) \in Nat
    BY PayloadTyped
<1>2. PICK L : L = Layouts(payload)
    OBVIOUS
<1>3. \E g : Simulates(g, payload, Len(payload))
    BY <1>1, LayoutsExist
<1>4. L = CHOOSE g : Simulates(g, payload, Len(payload))
    BY <1>2, Zenon DEF Layouts, Simulates, Before
<1>5. Simulates(L, payload, Len(payload))
    BY <1>3, <1>4
<1>6. \A i \in 1..Len(payload) : L[i] = Before(L, payload, i)
  <2> DEFINE B(i) == Before(L, payload, i)
  <2>1. L = [i \in 1..Len(payload) |-> B(i)]
      BY <1>5 DEF Simulates
  <2> HIDE DEF B
  <2>2. \A i \in 1..Len(payload) : L[i] = B(i)
      BY <2>1
  <2> QED
      BY <2>2 DEF B
<1>7. \A i \in 1..Len(payload) :
        /\ preview[i].plan = PlanCommit(L[i], payload[i])
        /\ preview[i].refused <=> Conflicted(L[i], PlanCommit(L[i], payload[i]))
    BY <1>2 DEF Preview
<1>8. ASSUME NEW i \in 1..Len(payload), i < Len(payload), ~preview[i].refused
      PROVE  L[i + 1] = Applied(L[i], preview[i].plan)
  <2>1. i + 1 \in 1..Len(payload) /\ i + 1 # 1 /\ (i + 1) - 1 = i
      BY <1>1, <1>8
  <2>2. L[i + 1] = Before(L, payload, i + 1)
      BY <1>6, <2>1
  <2>3. Before(L, payload, i + 1) =
          IF Conflicted(L[i], PlanCommit(L[i], payload[i])) THEN L[i]
          ELSE Applied(L[i], PlanCommit(L[i], payload[i]))
      BY <2>1 DEF Before
  <2> QED
      BY <1>7, <1>8, <2>2, <2>3
<1>9. 1 \in 1..Len(payload) => L[1] = Plain
    BY <1>6 DEF Before
<1> QED
    BY <1>7, <1>8, <1>9 DEF Foreseen

(***************************************************************************)
(* The invariant of the simulation: the disk always shows what the layout  *)
(* before commit at becomes by what has been done of the commit so far.    *)
(***************************************************************************)
Showing(l, place, pl, rest) ==
    IF place \in {"planning", "checking"} THEN l
    ELSE IF place = "deleting" THEN Deleted(l, Removed(l, pl) \ rest)
    ELSE IF place = "writing" THEN Wrote(Deleted(l, Removed(l, pl)), Writes(pl) \ rest)
    ELSE Applied(l, pl)

Faithful(m, t) == IsLayout(m) /\ Standing(m) /\ Shows(m, t)

Follows(l, place, pl, rest, view, t) ==
    /\ IsLayout(l) /\ Standing(l) /\ Upright(l)
    /\ Faithful(Showing(l, place, pl, rest), t)
    /\ place # "planning" => pl = view.plan /\ ~view.refused
    /\ place = "deleting" => rest \subseteq Deletions(pl)

SimInv ==
    ~edited =>
        /\ Rooted(disk)
        /\ pc \in {"copied", "shown"} => at = 1
        /\ pc \notin {"copied", "shown", "ended"} =>
             \E L : /\ Foreseen(L, payload, preview)
                    /\ at \in 1..Len(payload) =>
                         Follows(L[at], pc, plan, left, preview[at], disk)
        /\ failure = "refused" => preview[at].refused

LEMMA UprightIs ==
    ASSUME NEW l, NEW t, Shows(l, t), Rooted(t)
    PROVE  Upright(l)
BY DEF Shows, Rooted, Upright

LEMMA InitSim == Init => SimInv
<1> SUFFICES ASSUME Init PROVE SimInv
    OBVIOUS
<1>1. PICK s \in Starts : disk = s.disk
    BY DEF Init
<1>2. Rooted(disk)
    BY <1>1
<1> QED
    BY <1>2 DEF Init, SimInv

LEMMA StartSim ==
    ASSUME IInv, SimInv, Capture \/ ApplyRefused \/ Apply
    PROVE  SimInv'
<1>0. UNCHANGED <<payload, disk, at, plan, left, edited>>
    BY DEF Capture, ApplyRefused, Apply, tree, shown, editor
<1>1. failure = "none" /\ pc \in {"copied", "shown"} /\ payload \in Payloads
      /\ disk \in [Paths -> Nodes]
    BY DEF Capture, ApplyRefused, Apply, IInv, TypeOK, ProgressInv
<1> SUFFICES ASSUME ~edited PROVE SimInv'
    BY <1>0 DEF SimInv
<1>2. Rooted(disk) /\ at = 1
    BY <1>1 DEF SimInv
<1>3. Rooted(disk)'
    BY <1>0, <1>2 DEF Rooted
<1>4. CASE Capture
  <2>1. pc' = "shown" /\ failure' = failure
      BY <1>4 DEF Capture, outcome
  <2> QED
      BY <1>0, <1>1, <1>2, <1>3, <2>1 DEF SimInv
<1>5. CASE ApplyRefused \/ (Apply /\ ~Fresh)
  <2>1. pc' = "ended" /\ failure' \in {"busy", "stale"}
      BY <1>5 DEF ApplyRefused, Apply, Stop
  <2> QED
      BY <1>3, <2>1 DEF SimInv
<1>6. CASE Apply /\ Fresh
  <2>1. pc' = "planning" /\ failure' = "none" /\ preview' = preview
      BY <1>1, <1>6 DEF Apply, shown
  <2>2. PICK L : /\ Foreseen(L, payload, preview)
                 /\ 1 \in 1..Len(payload) => L[1] = Plain
      BY <1>1, <1>6, PreviewForesees DEF Fresh
  <2>3. Faithful(Plain, disk) /\ Upright(Plain)
      BY <1>1, <1>2, PlainIs, UprightIs DEF Faithful, Shows
  <2>4. 1 \in 1..Len(payload) =>
          Follows(L[1], "planning", plan, left, preview[1], disk)
      BY <2>2, <2>3 DEF Follows, Showing, Faithful
  <2> QED
      BY <1>0, <1>2, <1>3, <2>1, <2>2, <2>4 DEF SimInv
<1> QED
    BY <1>4, <1>5, <1>6

\* The same plan, and the same refusal.
LEMMA PlanNextSim ==
    ASSUME IInv, SimInv, PlanNext
    PROVE  SimInv'
<1>0. /\ pc = "planning" /\ failure = "none" /\ payload \in Payloads
      /\ disk \in [Paths -> Nodes] /\ at \in Nat /\ at > 0
      /\ UNCHANGED <<payload, preview, disk, at, left, edited>>
    BY DEF PlanNext, tree, shown, editor, ProgressInv, TypeOK, IInv
<1> SUFFICES ASSUME ~edited PROVE SimInv'
    BY <1>0 DEF SimInv
<1>1. Rooted(disk)'
    BY <1>0 DEF SimInv, Rooted
<1>2. CASE at > Len(payload)
  <2>1. pc' = "ended" /\ failure' = failure
      BY <1>2 DEF PlanNext
  <2> QED
      BY <1>0, <1>1, <2>1 DEF SimInv
<1>3. CASE ~(at > Len(payload))
  <2>1. at \in 1..Len(payload) /\ payload[at] \in SUBSET Files
      BY <1>0, <1>3, PayloadTyped
  <2>2. PICK L : /\ Foreseen(L, payload, preview)
                 /\ Follows(L[at], pc, plan, left, preview[at], disk)
      BY <1>0, <2>1 DEF SimInv
  <2>3. PICK l : l = L[at]
      OBVIOUS
  <2>4. IsLayout(l) /\ Standing(l) /\ Upright(l) /\ Shows(l, disk)
      BY <1>0, <2>2, <2>3 DEF Follows, Faithful, Showing
  <2>5. IsLayout(Plain) /\ \A p \in Paths : Kind(Plain, p) = Kind(l, p)
      BY <1>0, <2>4, PlainIs DEF Shows
  <2>6. plan' = PlanCommit(Plain, payload[at])
      BY <1>3 DEF PlanNext
  <2>7. plan' = PlanCommit(l, payload[at])
      BY <2>1, <2>4, <2>5, <2>6, SamePlans
  <2>8. plan' = preview[at].plan /\ plan' \in Plans
      BY <2>1, <2>2, <2>3, <2>7, PlanTyped DEF Foreseen
  <2>9. Conflicted(Plain, plan') <=> preview[at].refused
    <3>1. preview[at].refused <=> Conflicted(l, plan')
        BY <2>1, <2>2, <2>3, <2>8 DEF Foreseen
    <3>2. PICK pl \in Plans : pl = plan'
        BY <2>8
    <3>3. Conflicted(Plain, pl) <=> Conflicted(l, pl)
        BY <2>4, <2>5, SameConflicts
    <3> QED
        BY <3>1, <3>2, <3>3
  <2>10. CASE Conflicted(Plain, plan')
    <3>1. pc' = "ended" /\ preview'[at'].refused
        BY <1>0, <1>3, <2>9, <2>10 DEF PlanNext, Stop
    <3> QED
        BY <1>1, <3>1 DEF SimInv
  <2>11. CASE ~Conflicted(Plain, plan')
    <3>1. pc' = "checking" /\ failure' = "none"
        BY <1>0, <1>3, <2>11 DEF PlanNext
    <3>2. Follows(L[at], "checking", plan', left, preview[at], disk)
        BY <2>3, <2>4, <2>8, <2>9, <2>11 DEF Follows, Faithful, Showing
    <3> QED
        BY <1>0, <1>1, <2>2, <3>1, <3>2 DEF SimInv
  <2> QED
      BY <2>10, <2>11
<1> QED
    BY <1>2, <1>3

\* What the invariant says of a commit that is being replayed.
LEMMA AtWork ==
    ASSUME IInv, SimInv, ~edited, pc \in Working
    PROVE  \E L, l :
             /\ Foreseen(L, payload, preview) /\ l = L[at]
             /\ at \in 1..Len(payload) /\ payload[at] \in SUBSET Files
             /\ Follows(l, pc, plan, left, preview[at], disk)
             /\ plan = PlanCommit(l, payload[at]) /\ plan \in Plans
             /\ Bottom(l, Removed(l, plan))
             /\ \A p \in Writes(plan) : Kind(l, p) # "binary"
<1>1. /\ payload \in Payloads /\ at \in 1..Len(payload)
      /\ payload[at] \in SUBSET Files
  <2>1. /\ payload \in Payloads /\ Len(payload) \in Nat
        /\ at \in Nat /\ at > 0 /\ at <= Len(payload)
      BY PayloadTyped DEF IInv, TypeOK, ProgressInv
  <2> QED
      BY <2>1, PayloadTyped
<1>2. pc \notin {"copied", "shown", "planning", "ended"}
    BY DEF Working
<1>3. PICK L : /\ Foreseen(L, payload, preview)
               /\ Follows(L[at], pc, plan, left, preview[at], disk)
    BY <1>1, <1>2 DEF SimInv
<1>4. plan = PlanCommit(L[at], payload[at])
    BY <1>1, <1>2, <1>3 DEF Follows, Foreseen
<1>5. PICK l : l = L[at]
    OBVIOUS
<1>6. IsLayout(l) /\ Upright(l)
    BY <1>3, <1>5 DEF Follows
<1>7. /\ Bottom(l, Removed(l, plan))
      /\ \A p \in Writes(plan) : Kind(l, p) # "binary"
    BY <1>1, <1>4, <1>5, <1>6, PlanStands
<1>8. plan \in Plans
    BY <1>1, <1>4, PlanTyped
<1> QED
    BY <1>1, <1>3, <1>4, <1>5, <1>7, <1>8

\* No target has turned binary, and nothing is deleted yet.
LEMMA RecheckSim ==
    ASSUME IInv, SimInv, Recheck
    PROVE  SimInv'
<1>0. /\ pc = "checking" /\ pc \in Working /\ failure = "none"
      /\ UNCHANGED <<payload, preview, disk, at, plan, edited>>
    BY DEF Recheck, tree, shown, editor, ProgressInv, IInv, Working
<1> SUFFICES ASSUME ~edited PROVE SimInv'
    BY <1>0 DEF SimInv
<1>1. Rooted(disk)'
    BY <1>0 DEF SimInv, Rooted
<1>2. PICK L, l :
             /\ Foreseen(L, payload, preview) /\ l = L[at]
             /\ at \in 1..Len(payload)
             /\ Follows(l, pc, plan, left, preview[at], disk)
             /\ plan \in Plans
             /\ Bottom(l, Removed(l, plan))
             /\ \A p \in Writes(plan) : Kind(l, p) # "binary"
    BY <1>0, AtWork
<1>3. IsLayout(l) /\ Standing(l) /\ Upright(l) /\ Shows(l, disk)
    BY <1>0, <1>2 DEF Follows, Faithful, Showing
<1>4. \A p \in Writes(plan) : disk[p].kind # "binary"
    BY <1>2, <1>3, PlanPaths DEF Shows
<1>5. pc' = "deleting" /\ left' = Deletions(plan) /\ failure' = "none"
    BY <1>0, <1>4 DEF Recheck
<1>6. PICK none : none = {}
    OBVIOUS
<1>7. Removed(l, plan) \ left' = none
    BY <1>5, <1>6 DEF Removed
<1>8. Bottom(l, none) /\ Fallen(none) = {} /\ Hollow(l, none) = {}
    BY <1>6 DEF Bottom, Fallen, Hollow, Tops
<1>9. Faithful(Deleted(l, none), disk)
  <2>1. /\ IsLayout(Deleted(l, none)) /\ Standing(Deleted(l, none))
        /\ \A q \in Paths : Kind(Deleted(l, none), q) =
             IF q \in Fallen(none) \cup Hollow(l, none) THEN "absent" ELSE Kind(l, q)
      BY <1>3, <1>8, DeletedIs
  <2> QED
      BY <1>3, <1>8, <2>1 DEF Faithful, Shows
<1>10. Follows(l, "deleting", plan, left', preview[at], disk)
    BY <1>0, <1>2, <1>3, <1>5, <1>7, <1>9 DEF Follows, Showing
<1> QED
    BY <1>0, <1>1, <1>2, <1>5, <1>10 DEF SimInv

\* Whichever path is next, the deletions done so far are a set of deletions.
LEMMA DeleteSim ==
    ASSUME IInv, SimInv, Delete
    PROVE  SimInv'
<1>0. /\ pc = "deleting" /\ pc \in Working /\ failure = "none"
      /\ disk \in [Paths -> Nodes]
      /\ UNCHANGED <<payload, preview, at, plan, failure, edited>>
    BY DEF Delete, shown, outcome, editor, ProgressInv, IInv, TypeOK, Working
<1> SUFFICES ASSUME ~edited PROVE SimInv'
    BY <1>0 DEF SimInv
<1>1. Rooted(disk)
    BY <1>0 DEF SimInv
<1>2. PICK L, l :
             /\ Foreseen(L, payload, preview) /\ l = L[at]
             /\ at \in 1..Len(payload)
             /\ Follows(l, pc, plan, left, preview[at], disk)
             /\ plan \in Plans
             /\ Bottom(l, Removed(l, plan))
    BY <1>0, AtWork
<1>3. PICK gone : gone = Removed(l, plan)
    OBVIOUS
<1>4. /\ IsLayout(l) /\ Standing(l) /\ Upright(l) /\ Bottom(l, gone)
      /\ Faithful(Deleted(l, gone \ left), disk)
      /\ plan = preview[at].plan /\ ~preview[at].refused
      /\ left \subseteq Deletions(plan)
    BY <1>0, <1>2, <1>3 DEF Follows, Showing
<1>5. CASE left = {}
  <2>1. pc' = "writing" /\ left' = Writes(plan) /\ disk' = disk
      BY <1>5 DEF Delete
  <2>2. gone \ left = gone
      BY <1>5
  <2>3. PICK m : m = Deleted(l, gone)
      OBVIOUS
  <2>4. Faithful(m, disk)
      BY <1>4, <2>2, <2>3
  <2>5. PICK none, n : none = {} /\ n = Wrote(m, none)
      OBVIOUS
  <2>6. /\ IsLayout(n) /\ Standing(n)
        /\ \A q \in Paths : Kind(n, q) = Kind(m, q)
      BY <2>4, <2>5, NothingWrote DEF Faithful
  <2>7. Faithful(n, disk)
      BY <2>4, <2>6 DEF Faithful, Shows
  <2>8. Writes(plan) \ left' = none
      BY <2>1, <2>5
  <2>9. Showing(l, "writing", plan, left') = n
      BY <1>3, <2>3, <2>5, <2>8 DEF Showing
  <2>10. Follows(l, "writing", plan, left', preview[at], disk)
      BY <1>4, <2>7, <2>9 DEF Follows
  <2>11. Rooted(disk)'
      BY <1>1, <2>1 DEF Rooted
  <2> QED
      BY <1>0, <1>2, <2>1, <2>10, <2>11 DEF SimInv
<1>6. CASE left # {}
  <2>1. PICK p \in left :
          /\ left' = left \ {p} /\ pc' = "deleting"
          /\ \/ IsFile(p) /\ disk' = Without(p)
             \/ ~IsFile(p) /\ disk' = disk
      BY <1>0, <1>6 DEF Delete
  <2>2. p \in Paths /\ p \in Deletions(plan)
      BY <1>2, <1>4, PlanPaths
  <2>3. PICK done : done = gone \ left
      OBVIOUS
  <2>4. Bottom(l, done) /\ Shows(Deleted(l, done), disk)
      BY <1>4, <2>3 DEF Bottom, Faithful
  <2>5. \A q \in Paths : disk[q].kind =
          IF q \in Fallen(done) \cup Hollow(l, done) THEN "absent" ELSE Kind(l, q)
      BY <1>4, <2>4, DeletedIs DEF Shows
  <2>6. left' \subseteq Deletions(plan)
      BY <1>4, <2>1
  <2>7. CASE IsFile(p)
    <3>1. disk[p].kind \notin {"absent", "dir"} /\ disk' = Without(p)
        BY <2>1, <2>7 DEF IsFile, NodeOf
    <3>2. disk[p].kind = Kind(l, p)
        BY <2>2, <2>5, <3>1
    <3>3. p \in gone
        BY <1>3, <1>4, <2>2, <3>1, <3>2, NodeIs DEF Removed
    <3>4. gone \ left' = done \cup {p}
        BY <2>1, <2>3, <3>3
    <3>5. Bottom(l, done \cup {p})
        BY <1>4, <2>3, <3>3 DEF Bottom
    <3>6. Shows(Deleted(l, done \cup {p}), Without(p))
        BY <1>0, <1>4, <2>2, <2>4, <3>5, DeleteShows
    <3>7. PICK m : m = Deleted(l, gone \ left')
        OBVIOUS
    <3>8. Faithful(m, disk')
        BY <1>4, <3>1, <3>4, <3>5, <3>6, <3>7, DeletedIs DEF Faithful
    <3>9. \A e \in Above[p] : disk[e].kind = "dir"
      <4> SUFFICES ASSUME NEW e \in Above[p] PROVE disk[e].kind = "dir"
          OBVIOUS
      <4>1. e \in Paths /\ disk[e].kind # "absent"
          BY <1>1, <2>2, <3>1 DEF Rooted
      <4>2. Kind(l, e) = "dir"
          BY <1>4, <3>3 DEF Bottom
      <4> QED
          BY <2>5, <4>1, <4>2
    <3>10. Rooted(Without(p))
        BY <1>0, <1>1, <2>2, <3>9, WithoutRooted
    <3>11. Rooted(disk)'
        BY <3>1, <3>10 DEF Rooted
    <3>12. Showing(l, "deleting", plan, left') = m
        BY <1>3, <3>7 DEF Showing
    <3>13. Follows(l, "deleting", plan, left', preview[at], disk')
        BY <1>4, <2>6, <3>8, <3>12 DEF Follows
    <3> QED
        BY <1>0, <1>2, <2>1, <3>11, <3>13 DEF SimInv
  <2>8. CASE ~IsFile(p)
    <3>1. disk[p].kind \in {"absent", "dir"} /\ disk' = disk
        BY <2>1, <2>8 DEF IsFile, NodeOf
    <3>2. p \notin gone
      <4> SUFFICES ASSUME p \in gone PROVE FALSE
          OBVIOUS
      <4>1. /\ Kind(l, p) \notin {"absent", "dir"}
            /\ \A e \in Above[p] : Kind(l, e) = "dir"
          BY <1>4 DEF Bottom
      <4>2. p \notin Fallen(done)
          BY <2>3, <2>4, <4>1 DEF Fallen, Bottom
      <4>3. p \notin Hollow(l, done)
          BY <2>4, <4>1, TopsFacts DEF Hollow
      <4> QED
          BY <2>2, <2>5, <3>1, <4>1, <4>2, <4>3
    <3>3. gone \ left' = done
        BY <2>1, <2>3, <3>2
    <3>4. Showing(l, "deleting", plan, left') = Deleted(l, done)
        BY <1>3, <3>3 DEF Showing
    <3>5. Follows(l, "deleting", plan, left', preview[at], disk')
        BY <1>4, <2>3, <2>6, <3>1, <3>4 DEF Follows
    <3>6. Rooted(disk)'
        BY <1>1, <3>1 DEF Rooted
    <3> QED
        BY <1>0, <1>2, <2>1, <3>5, <3>6 DEF SimInv
  <2> QED
      BY <2>7, <2>8
<1> QED
    BY <1>5, <1>6

\* And likewise for the writes.
LEMMA WriteSim ==
    ASSUME IInv, SimInv, Write
    PROVE  SimInv'
<1>0. /\ pc = "writing" /\ pc \in Working /\ failure = "none"
      /\ disk \in [Paths -> Nodes] /\ CopiedBy(at) \in Nat
      /\ left \subseteq Writes(plan)
      /\ UNCHANGED <<payload, preview, at, plan, failure, edited>>
    BY DEF Write, shown, outcome, editor, ProgressInv, IInv, TypeOK, Working,
       PlanInv, CopiedBy
<1> SUFFICES ASSUME ~edited PROVE SimInv'
    BY <1>0 DEF SimInv
<1>1. Rooted(disk)
    BY <1>0 DEF SimInv
<1>2. PICK L, l :
             /\ Foreseen(L, payload, preview) /\ l = L[at]
             /\ at \in 1..Len(payload)
             /\ Follows(l, pc, plan, left, preview[at], disk)
             /\ plan \in Plans
    BY <1>0, AtWork
<1>3. PICK m : m = Deleted(l, Removed(l, plan))
    OBVIOUS
<1>4. /\ IsLayout(l) /\ Standing(l) /\ Upright(l)
      /\ Faithful(Wrote(m, Writes(plan) \ left), disk)
      /\ plan = preview[at].plan /\ ~preview[at].refused
    BY <1>0, <1>2, <1>3 DEF Follows, Showing
<1>5. CASE left = {}
  <2>1. pc' = "removing" /\ left' = left /\ disk' = disk
      BY <1>5 DEF Write
  <2>2. Writes(plan) \ left = Writes(plan)
      BY <1>5
  <2>3. Faithful(Applied(l, plan), disk)
      BY <1>3, <1>4, <2>2, AppliedIs
  <2>4. Follows(l, "removing", plan, left', preview[at], disk)
      BY <1>4, <2>3 DEF Follows, Showing
  <2>5. Rooted(disk)'
      BY <1>1, <2>1 DEF Rooted
  <2> QED
      BY <1>0, <1>2, <2>1, <2>4, <2>5 DEF SimInv
<1>6. CASE left # {}
  <2>1. PICK p \in left :
          /\ disk[p].kind # "dir" /\ disk' = With(p, CopiedBy(at))
          /\ left' = left \ {p} /\ pc' = "writing"
      BY <1>0, <1>6 DEF Write
  <2>2. p \in Paths /\ p \in Writes(plan)
      BY <1>0, <1>2, PlanPaths
  <2>3. PICK done, b : done = Writes(plan) \ left /\ b = CopiedBy(at)
      OBVIOUS
  <2>4. Writes(plan) \ left' = done \cup {p}
      BY <2>1, <2>2, <2>3
  <2>5. IsLayout(Wrote(m, done)) /\ Standing(Wrote(m, done)) /\ Shows(Wrote(m, done), disk)
      BY <1>4, <2>3 DEF Faithful
  <2>6. Faithful(Wrote(m, done \cup {p}), With(p, b))
      BY <1>0, <2>1, <2>2, <2>3, <2>5, WriteShows DEF Faithful
  <2>7. Showing(l, "writing", plan, left') = Wrote(m, done \cup {p})
      BY <1>3, <2>4 DEF Showing
  <2>8. Follows(l, "writing", plan, left', preview[at], disk')
      BY <1>4, <2>1, <2>3, <2>6, <2>7 DEF Follows
  <2>9. Rooted(With(p, b))
      BY <1>0, <1>1, <2>2, <2>3, WithRooted
  <2>10. Rooted(disk)'
      BY <2>1, <2>3, <2>9 DEF Rooted
  <2> QED
      BY <1>0, <1>2, <2>1, <2>8, <2>10 DEF SimInv
<1> QED
    BY <1>5, <1>6

\* A failure ends the replay and refuses nothing.
LEMMA FailsSim ==
    ASSUME IInv, SimInv, FileFails \/ GitFails
    PROVE  SimInv'
<1>1. /\ pc' = "ended" /\ failure' \in {"io", "git"}
      /\ UNCHANGED <<disk, edited>>
    BY DEF FileFails, GitFails, Stop, tree, editor
<1> QED
    BY <1>1 DEF SimInv, Rooted

\* Git leaves the worktree alone.
LEMMA GitSim ==
    ASSUME IInv, SimInv, Remove \/ Add \/ Commit
    PROVE  SimInv'
<1>0. /\ pc \in {"removing", "adding", "committing"} /\ pc \in Working
      /\ pc' \in {"adding", "committing", "naming"}
      /\ UNCHANGED <<payload, preview, disk, at, plan, left, failure, edited>>
    BY DEF Remove, Add, Commit, shown, outcome, editor, Working
<1> SUFFICES ASSUME ~edited PROVE SimInv'
    BY <1>0 DEF SimInv
<1>1. failure = "none"
    BY <1>0 DEF IInv, ProgressInv
<1>2. Rooted(disk)'
    BY <1>0 DEF SimInv, Rooted
<1>3. PICK L : /\ Foreseen(L, payload, preview)
               /\ Follows(L[at], pc, plan, left, preview[at], disk)
    BY <1>0, AtWork
<1>4. Follows(L[at], pc', plan, left, preview[at], disk)
    BY <1>0, <1>3 DEF Follows, Showing
<1> QED
    BY <1>0, <1>1, <1>2, <1>3, <1>4 DEF SimInv

\* The disk shows the layout the next commit was previewed on.
LEMMA NameSim ==
    ASSUME IInv, SimInv, Name
    PROVE  SimInv'
<1>0. /\ pc = "naming" /\ pc \in Working /\ pc' = "planning" /\ at' = at + 1
      /\ at \in Nat /\ payload \in Payloads
      /\ UNCHANGED <<payload, preview, disk, plan, left, failure, edited>>
    BY DEF Name, tree, shown, editor, Working, IInv, TypeOK
<1> SUFFICES ASSUME ~edited PROVE SimInv'
    BY <1>0 DEF SimInv
<1>1. failure = "none" /\ Len(payload) \in Nat
    BY <1>0, PayloadTyped DEF IInv, ProgressInv
<1>2. Rooted(disk) /\ Rooted(disk)'
    BY <1>0 DEF SimInv, Rooted
<1>3. PICK L : /\ Foreseen(L, payload, preview) /\ at \in 1..Len(payload)
               /\ Follows(L[at], pc, plan, left, preview[at], disk)
    BY <1>0, AtWork
<1>4. ASSUME at + 1 \in 1..Len(payload)
      PROVE  Follows(L[at + 1], "planning", plan, left, preview[at + 1], disk)
  <2>1. PICK l : l = L[at + 1]
      OBVIOUS
  <2>2. l = Applied(L[at], plan)
      BY <1>0, <1>1, <1>3, <1>4, <2>1 DEF Foreseen, Follows
  <2>3. Faithful(l, disk)
      BY <1>0, <1>3, <2>2 DEF Follows, Showing
  <2>4. Upright(l)
      BY <1>2, <2>3, UprightIs DEF Faithful
  <2> QED
      BY <2>1, <2>3, <2>4 DEF Follows, Showing, Faithful
<1> QED
    BY <1>0, <1>1, <1>2, <1>3, <1>4 DEF SimInv

\* Before the replay starts, an edit leaves the worktree rooted.
LEMMA EditSim ==
    ASSUME IInv, SimInv, Edit
    PROVE  SimInv'
<1>0. /\ UNCHANGED <<pc, at, failure>> /\ pc \notin {"copied", "ended"}
      /\ edited' = (edited \/ pc # "shown")
      /\ disk \in [Paths -> Nodes]
    BY DEF Edit, outcome, IInv, TypeOK
<1> SUFFICES ASSUME ~edited, pc = "shown" PROVE SimInv'
    BY <1>0 DEF SimInv
<1>1. PICK p \in Paths, n \in Nodes :
        /\ disk[p].kind \notin {"dir", "link"}
        /\ \A e \in Above[p] : disk[e].kind = "dir"
        /\ disk' = [disk EXCEPT ![p] = n]
    BY NodesTyped DEF Edit
<1>2. Rooted(disk) /\ at = 1 /\ failure = "none"
    BY DEF SimInv, IInv, ProgressInv
<1>3. Rooted(disk')
  <2> SUFFICES ASSUME NEW q \in Paths, disk'[q].kind # "absent", NEW e \in Above[q]
               PROVE  disk'[e].kind \in {"dir", "link"}
      BY DEF Rooted
  <2>1. disk[e].kind \in {"dir", "link"} /\ e \in Paths
      BY <1>0, <1>1, <1>2 DEF Rooted
  <2> QED
      BY <1>0, <1>1, <2>1
<1>4. Rooted(disk)'
    BY <1>3 DEF Rooted
<1> QED
    BY <1>0, <1>2, <1>4 DEF SimInv

LEMMA NextSim == IInv /\ SimInv /\ [Next]_vars => SimInv'
<1> SUFFICES ASSUME IInv, SimInv, [Next]_vars PROVE SimInv'
    OBVIOUS
<1>1. CASE UNCHANGED vars
  <2>1. UNCHANGED <<payload, preview, disk, pc, at, plan, left, failure, edited>>
      BY <1>1 DEF vars, tree, shown, outcome, editor
  <2> QED
      BY <2>1 DEF SimInv, Rooted
<1> QED
    BY <1>1, StartSim, PlanNextSim, RecheckSim, DeleteSim, WriteSim, FailsSim,
       GitSim, NameSim, EditSim DEF Next

(* What the preview showed is what is done: each commit is planned as the  *)
(* preview simulated it and refused when the preview refuses it, whatever  *)
(* the order of the deletions and writes of the commits before it.         *)
THEOREM PreviewHappens == Spec => []PreviewIsWhatHappens
<1>1. IInv /\ SimInv => PreviewIsWhatHappens
  <2> SUFFICES ASSUME IInv, SimInv, ~edited PROVE PreviewIsWhatHappens
      BY DEF PreviewIsWhatHappens
  <2>1. ASSUME pc \notin {"copied", "shown", "planning", "ended"}
        PROVE  plan = preview[at].plan /\ ~preview[at].refused
    <3>1. pc \in Working
        BY <2>1 DEF IInv, TypeOK, Working
    <3>2. PICK l : Follows(l, pc, plan, left, preview[at], disk)
        BY <3>1, AtWork
    <3> QED
        BY <2>1, <3>2 DEF Follows
  <2>2. failure = "refused" => preview[at].refused
      BY DEF SimInv
  <2> QED
      BY <2>1, <2>2 DEF PreviewIsWhatHappens
<1> QED
    BY <1>1, InitIInv, NextIInv, InitSim, NextSim, PTL DEF Spec

-----------------------------------------------------------------------------
(***************************************************************************)
(* What a commit records.  Nothing stands below a path that was deleted    *)
(* but what was written since, so a pathspec finds no other file there.    *)
(***************************************************************************)
ClearedInv ==
    ~edited =>
        /\ pc = "deleting" =>
              \A p \in Deletions(plan) \ left : \A q \in Under(p) : ~IsFile(q)
        /\ pc \in {"writing", "removing", "adding", "committing"} =>
              \A p \in Deletions(plan) : \A q \in Under(p) \ Writes(plan) : ~IsFile(q)

LEMMA DeleteClears ==
    ASSUME IInv, SimInv, ClearedInv, Delete
    PROVE  ClearedInv'
<1>0. /\ pc = "deleting" /\ disk \in [Paths -> Nodes] /\ left \subseteq Paths
      /\ Deletions(plan) \subseteq Paths
      /\ UNCHANGED <<plan, edited>>
    BY PlanPaths DEF Delete, shown, editor, IInv, TypeOK, PlanInv, Plans
<1> SUFFICES ASSUME ~edited PROVE ClearedInv'
    BY <1>0 DEF ClearedInv
<1>1. Rooted(disk) /\ \A n \in Deletions(plan) \ left : \A q \in Under(n) : ~IsFile(q)
    BY <1>0 DEF SimInv, ClearedInv
<1>2. Deletions(plan)' = Deletions(plan) /\ Writes(plan)' = Writes(plan)
    BY <1>0 DEF Deletions, Writes
<1>3. CASE left = {}
  <2>1. pc' = "writing" /\ disk' = disk
      BY <1>3 DEF Delete
  <2> QED
      BY <1>1, <1>2, <1>3, <2>1 DEF ClearedInv, IsFile
<1>4. CASE left # {}
  <2>1. PICK p \in left :
          /\ disk[p].kind # "dir" /\ left' = left \ {p} /\ pc' = "deleting"
          /\ \/ disk' = Without(p)
             \/ ~IsFile(p) /\ disk' = disk
      BY <1>0, <1>4 DEF Delete
  <2>2. p \in Paths
      BY <1>0
  <2>3. \A q \in Paths : disk'[q] \in {disk[q], Gone}
      BY <1>0, <2>1, <2>2, WithoutIs
  <2>4. ASSUME NEW q \in Under(p)
        PROVE  ~IsFile(q)'
    <3>1. q \in Paths /\ p \in Above[q]
        BY DEF Under
    <3>2. CASE disk' = Without(p)
      <4>1. disk'[q] = Gone
          BY <2>4, <3>1, <3>2, Zenon DEF Without
      <4> QED
          BY <4>1 DEF IsFile, NodeOf, Gone
    <3>3. CASE ~IsFile(p) /\ disk' = disk
      <4>1. disk[p].kind = "absent"
          BY <2>1, <3>3 DEF IsFile, NodeOf
      <4>2. disk[q].kind = "absent"
          BY <1>1, <3>1, <4>1 DEF Rooted
      <4> QED
          BY <3>3, <4>2 DEF IsFile, NodeOf
    <3> QED
        BY <2>1, <3>2, <3>3
  <2>5. ASSUME NEW n \in Deletions(plan) \ left', NEW q \in Under(n)
        PROVE  ~IsFile(q)'
    <3>1. CASE n = p
        BY <2>4, <2>5, <3>1
    <3>2. CASE n # p
      <4>1. ~IsFile(q) /\ q \in Paths
          BY <1>1, <2>1, <2>5, <3>2 DEF Under
      <4> QED
          BY <2>3, <4>1 DEF IsFile, NodeOf, Gone
    <3> QED
        BY <3>1, <3>2
  <2> QED
      BY <1>2, <2>1, <2>5 DEF ClearedInv
<1> QED
    BY <1>3, <1>4

LEMMA WriteClears ==
    ASSUME IInv, ClearedInv, Write
    PROVE  ClearedInv'
<1>0. /\ pc = "writing" /\ disk \in [Paths -> Nodes]
      /\ left \subseteq Writes(plan) /\ Writes(plan) \subseteq Paths
      /\ CopiedBy(at) \in Nat
      /\ pc' \in {"writing", "removing"}
      /\ UNCHANGED <<plan, edited>>
    BY PlanPaths DEF Write, shown, editor, IInv, TypeOK, PlanInv, Plans, CopiedBy
<1> SUFFICES ASSUME ~edited PROVE ClearedInv'
    BY <1>0 DEF ClearedInv
<1>1. \A n \in Deletions(plan) : \A q \in Under(n) \ Writes(plan) : ~IsFile(q)
    BY <1>0 DEF ClearedInv
<1>2. Deletions(plan)' = Deletions(plan) /\ Writes(plan)' = Writes(plan)
    BY <1>0 DEF Deletions, Writes
<1>3. \A q \in Paths \ Writes(plan) : disk'[q] \in {Folder, Gone, disk[q]}
  <2>1. CASE left = {}
      BY <2>1 DEF Write
  <2>2. CASE left # {}
    <3>1. PICK p \in left : disk' = With(p, CopiedBy(at))
        BY <2>2 DEF Write
    <3> QED
        BY <1>0, <3>1, WithIs
  <2> QED
      BY <2>1, <2>2
<1>4. ASSUME NEW n \in Deletions(plan), NEW q \in Under(n) \ Writes(plan)
      PROVE  ~IsFile(q)'
  <2>1. ~IsFile(q) /\ q \in Paths
      BY <1>1, <1>4 DEF Under
  <2> QED
      BY <1>3, <2>1 DEF IsFile, NodeOf, Gone, Folder
<1> QED
    BY <1>0, <1>2, <1>4 DEF ClearedInv

LEMMA NextClears == IInv /\ SimInv /\ ClearedInv /\ [Next]_vars => ClearedInv'
<1> SUFFICES ASSUME IInv, SimInv, ClearedInv, [Next]_vars PROVE ClearedInv'
    OBVIOUS
<1>1. CASE UNCHANGED vars
  <2>1. UNCHANGED <<disk, pc, plan, left, edited>>
      BY <1>1 DEF vars, tree, editor
  <2> QED
      BY <2>1 DEF ClearedInv, Deletions, Writes, IsFile
<1>2. CASE Recheck
  <2>1. plan' = plan /\ (pc' = "ended" \/ (pc' = "deleting" /\ left' = Deletions(plan)))
      BY <1>2 DEF Recheck, Stop
  <2> QED
      BY <2>1 DEF ClearedInv, Deletions
<1>3. CASE Remove \/ Add
  <2>1. /\ pc \in {"removing", "adding"} /\ pc' \in {"adding", "committing"}
        /\ UNCHANGED <<disk, plan, edited>>
      BY <1>3 DEF Remove, Add, editor
  <2> QED
      BY <2>1 DEF ClearedInv, Deletions, Writes, IsFile
<1>4. CASE Capture \/ ApplyRefused \/ Apply \/ PlanNext \/ FileFails \/ Commit
           \/ Name \/ GitFails
  <2>1. pc' \in {"shown", "planning", "checking", "naming", "ended"}
      BY <1>4 DEF Capture, ApplyRefused, Apply, PlanNext, FileFails, Commit, Name,
         GitFails, Stop
  <2> QED
      BY <2>1 DEF ClearedInv
<1>5. CASE Edit
  <2>1. pc' = pc /\ edited' = (edited \/ pc # "shown")
      BY <1>5 DEF Edit
  <2> QED
      BY <2>1 DEF ClearedInv
<1> QED
    BY <1>1, <1>2, <1>3, <1>4, <1>5, DeleteClears, WriteClears DEF Next

\* The paths of a plan are those it deletes and those it writes.
LEMMA PlannedIs ==
    ASSUME NEW pl \in Plans
    PROVE  Planned(pl) = Deletions(pl) \cup Writes(pl)
<1>1. \A f \in pl : f.action \in {"skip", "write", "delete"} /\ f.file.path # NoPath
    BY DEF Plans, Files
<1>2. ASSUME NEW p \in Planned(pl)
      PROVE  p \in Deletions(pl) \cup Writes(pl)
  <2>1. PICK f \in pl : f.action # "skip" /\ p \in {f.file.path, f.file.old} \ {NoPath}
      BY <1>2 DEF Planned
  <2>2. CASE p = f.file.old
      BY <2>1, <2>2 DEF Deletions
  <2>3. CASE p = f.file.path
      BY <1>1, <2>1, <2>3 DEF Deletions, Writes
  <2> QED
      BY <2>1, <2>2, <2>3
<1>3. ASSUME NEW p \in Deletions(pl) \cup Writes(pl)
      PROVE  p \in Planned(pl)
  <2>1. PICK f \in pl : /\ f.action # "skip" /\ p # NoPath
                        /\ p = f.file.path \/ p = f.file.old
      BY <1>1, <1>3 DEF Deletions, Writes
  <2> QED
      BY <2>1 DEF Planned
<1> QED
    BY <1>2, <1>3

\* What commit --only finds in the worktree is what the plan wrote.
LEMMA PresentIsWritten ==
    ASSUME IInv, ClearedInv, ~edited, pc = "committing"
    PROVE  /\ {p \in Matched(Named) : Present(p)} = Writes(plan)
           /\ \A p \in Writes(plan) : disk[p].bytes = CopiedBy(at)
<1>1. /\ \A q \in Deletions(plan) \ Writes(plan) : ~IsFile(q)
      /\ \A q \in Writes(plan) : Written(q)
    BY DEF IInv, DiskInv
<1>2. \A n \in Deletions(plan) : \A q \in Under(n) \ Writes(plan) : ~IsFile(q)
    BY DEF ClearedInv
<1>3. ASSUME NEW p \in Writes(plan)
      PROVE  p \in Matched(Named) /\ Present(p) /\ disk[p].bytes = CopiedBy(at)
    BY <1>1, <1>3, FileKinds DEF Written, Present, Matched, Named
<1>4. ASSUME NEW p \in Matched(Named), Present(p), p \notin Writes(plan)
      PROVE  FALSE
  <2>1. IsFile(p) /\ \A d \in Above[p] : disk[d].kind = "dir"
      BY <1>4 DEF Present
  <2>2. p \notin Deletions(plan)
      BY <1>1, <1>4, <2>1
  <2>3. p \in Paths /\ \E n \in Named : n \in Above[p]
      BY <1>4, <2>2 DEF Matched, Named, Staged, IInv, TypeOK
  <2>4. PICK n \in Named : n \in Above[p]
      BY <2>3
  <2>5. CASE n \in Writes(plan)
      BY <1>1, <2>1, <2>4, <2>5 DEF Written, Text
  <2>6. CASE n \in Deletions(plan)
      BY <1>2, <1>4, <2>1, <2>3, <2>4, <2>6 DEF Under
  <2> QED
      BY <2>5, <2>6 DEF Named, Staged
<1> QED
    BY <1>3, <1>4

\* Whatever else HEAD has stays, but for what is below or above.
LEMMA ExactStep ==
    ASSUME IInv, ClearedInv, [Next]_vars, made' # made, ~edited
    PROVE  head' =
             [p \in (DOMAIN head \ Displaced(plan)) \cup Writes(plan) |->
                 IF p \in Writes(plan) THEN CopiedBy(at) ELSE head[p]]
<1>1. Commit
    BY DEF Next, Capture, ApplyRefused, Apply, PlanNext, Recheck, Delete,
       Write, FileFails, Remove, Add, Name, GitFails, Edit, vars, outcome
<1>2. pc = "committing" /\ head' = Updated(head, Matched(Named))
    BY <1>1 DEF Commit, Recorded
<1>3. PICK w : w = Writes(plan)
    OBVIOUS
<1>4. PICK ps : ps = Matched(Named)
    OBVIOUS
<1>5. {p \in ps : Present(p)} = w /\ \A p \in w : disk[p].bytes = CopiedBy(at)
    BY <1>2, <1>3, <1>4, PresentIsWritten
<1>6. PICK near : near = UNION {Above[p] \cup Under(p) : p \in w}
    OBVIOUS
<1>7. Updated(head, ps) =
        [q \in (DOMAIN head \ (ps \cup near)) \cup w |->
            IF q \in w THEN disk[q].bytes ELSE head[q]]
    BY <1>5, <1>6, Zenon DEF Updated
<1>8. plan \in Plans /\ DOMAIN head \subseteq Paths
    BY DEF IInv, PlanInv, TypeOK, Plans
<1>9. Planned(plan) = Deletions(plan) \cup w
    BY <1>3, <1>8, PlannedIs
<1>10. ASSUME NEW q \in DOMAIN head, q \notin w, q \in ps \cup near
       PROVE  q \in Displaced(plan)
  <2>1. CASE q \in Named
      BY <1>3, <1>9, <2>1 DEF Named, Staged, Displaced
  <2>2. CASE q \in ps \ Named
    <3>1. PICK n \in Named : n \in Above[q]
        BY <1>4, <2>2 DEF Matched
    <3>2. n \in Planned(plan) /\ q \in Under(n)
        BY <1>3, <1>8, <1>9, <3>1 DEF Named, Staged, Under
    <3> QED
        BY <3>2 DEF Displaced
  <2>3. CASE q \in near
      BY <1>3, <1>6, <1>9, <2>3 DEF Displaced
  <2> QED
      BY <1>10, <2>1, <2>2, <2>3
<1>11. ASSUME NEW q \in DOMAIN head, q \notin w, q \in Displaced(plan)
       PROVE  q \in ps \cup near
  <2>1. CASE q \in Planned(plan)
    <3>1. q \in Named
        BY <1>9, <1>11, <2>1 DEF Named, Staged, Tracked
    <3> QED
        BY <1>4, <3>1 DEF Matched
  <2>2. CASE \E n \in Planned(plan) : q \in Under(n)
    <3>1. PICK n \in Planned(plan) : q \in Under(n)
        BY <2>2
    <3>2. n \in Named
        BY <1>3, <1>9, <1>11, <3>1 DEF Named, Staged, Tracked
    <3> QED
        BY <1>4, <1>11, <3>1, <3>2 DEF Matched, Under
  <2>3. CASE \E p \in w : q \in Above[p]
      BY <1>6, <2>3
  <2> QED
      BY <1>3, <1>11, <2>1, <2>2, <2>3 DEF Displaced
<1>12. (DOMAIN head \ (ps \cup near)) \cup w = (DOMAIN head \ Displaced(plan)) \cup w
    BY <1>10, <1>11
<1> QED
  <2>1. PICK dom : dom = (DOMAIN head \ Displaced(plan)) \cup w
      OBVIOUS
  <2>2. [q \in dom |-> IF q \in w THEN disk[q].bytes ELSE head[q]]
          = [q \in dom |-> IF q \in w THEN CopiedBy(at) ELSE head[q]]
      BY <1>5
  <2> QED
      BY <1>2, <1>3, <1>4, <1>7, <1>12, <2>1, <2>2

(* Unless the worktree is changed under the replay, a commit is the one    *)
(* before it with the payload's bytes at the paths its plan writes and     *)
(* without the paths it deletes: every entry beside these is kept, in any  *)
(* worktree and whatever was staged.                                       *)
THEOREM CommitsExact == Spec => CommitsAreExact
<1>1. IInv /\ ClearedInv /\ [Next]_vars =>
        [made' # made /\ ~edited =>
        head' = [p \in (DOMAIN head \ Displaced(plan)) \cup Writes(plan) |->
                    IF p \in Writes(plan) THEN CopiedBy(at) ELSE head[p]]]_vars
    BY ExactStep
<1>2. Init => ClearedInv
    BY DEF Init, ClearedInv
<1> QED
    BY <1>1, <1>2, InitIInv, NextIInv, InitSim, NextSim, NextClears, PTL
       DEF Spec, CommitsAreExact
=============================================================================
