---------------------------- MODULE CommitReplay ----------------------------
(***************************************************************************)
(* Pasting copied commits onto a worktree: the preview, which plans every  *)
(* commit of the payload on a layout that simulates the earlier ones       *)
(* (PlannedLayout in crates/core/src/commits.rs), and the replay, which    *)
(* plans each commit again on the disk the earlier ones really left,       *)
(* deletes, writes, and commits with the user's own index left alone.      *)
(*                                                                         *)
(* A payload is a sequence of commits, a commit a set of files.  An editor *)
(* may change the worktree at any moment, and any file or Git operation    *)
(* may fail.  The filesystem is case-sensitive; a symlink points inside    *)
(* the worktree and away from Git directories; the scope is the root.      *)
(***************************************************************************)
EXTENDS Naturals, Sequences, FiniteSets, Functions

CONSTANTS
    Paths,      \* paths of the worktree
    NoPath,
    Above,      \* Above[p]: the folders above p, the root not counted
    Starts,     \* worktrees to paste into: [disk, head, index]
    Payloads,   \* payloads to paste
    MaxEdits    \* changes the editor makes (a bound)

(***************************************************************************)
(* A file's bytes are a number: 0 the user's, 1 what the user has staged,  *)
(* 2 what the editor writes, i + 2 what commit i of the payload holds.     *)
(***************************************************************************)
Bytes == Nat
CopiedBy(i) == i + 2

Nodes == [kind : {"absent", "dir", "link", "binary", "text"}, bytes : Bytes]
Gone == [kind |-> "absent", bytes |-> 0]
Folder == [kind |-> "dir", bytes |-> 0]
Text(b) == [kind |-> "text", bytes |-> b]

\* change is "write" or "delete"; a rename writes path and deletes old.
Files == [path : Paths, old : Paths \cup {NoPath},
          change : {"write", "delete"}, copied : BOOLEAN]

ASSUME NoPathAssumption == NoPath \notin Paths
\* The folders above a path are a chain, and so are those above each of them.
ASSUME AboveAssumption ==
    /\ Above \in [Paths -> SUBSET Paths]
    /\ \A p \in Paths, d \in Paths :
          d \in Above[p] => d # p /\ Above[d] \subseteq Above[p]
    /\ \A p \in Paths : \A d, e \in Above[p] :
          d = e \/ d \in Above[e] \/ e \in Above[d]

ASSUME PayloadsAssumption == Payloads \subseteq Seq(SUBSET Files)
\* What is not absent is in folders, or shows through a link to one.
Rooted(t) ==
    \A p \in Paths : t[p].kind # "absent" =>
        \A d \in Above[p] : t[d].kind \in {"dir", "link"}

ASSUME StartsAssumption ==
    \A s \in Starts :
        /\ s.disk \in [Paths -> Nodes] /\ Rooted(s.disk)
        /\ DOMAIN s.head \subseteq Paths /\ Range(s.head) \subseteq Bytes
        /\ DOMAIN s.index \subseteq Paths /\ Range(s.index) \subseteq Bytes
ASSUME EditsAssumption == MaxEdits \in Nat

VARIABLES
    payload,    \* the payload pasted
    disk,       \* disk[p]: what lstat says of p; under a link, what shows
    head,       \* HEAD's tree: a function from its paths to bytes
    index,      \* the index, likewise
    preview,    \* preview[i]: what the preview says of commit i
    seen,       \* the freshness snapshot taken with it
    pc,         \* where the paste is
    at,         \* the commit being replayed
    plan,       \* its plan
    left,       \* paths still to delete, then still to write
    made,       \* commits made
    created,    \* ReplayResult.created, as a count
    failure,    \* why replay stopped
    touched,    \* replay_commit has changed something for commit at
    edits,      \* changes the editor has made
    edited      \* one was made after the preview was revalidated

tree == <<disk, head, index>>
shown == <<payload, preview, seen>>
outcome == <<made, created, failure>>
editor == <<edits, edited>>
vars == <<tree, shown, pc, at, plan, left, outcome, touched, editor>>

Under(p) == {q \in Paths : p \in Above[q]}

NodeOf(n) == CASE n.kind = "absent" -> "absent"
               [] n.kind = "dir" -> "dir"
               [] OTHER -> "file"

-----------------------------------------------------------------------------
(***************************************************************************)
(* PlannedLayout: the disk it reads, overrides of it, and the paths that   *)
(* were cut, below which the disk counts no more.                          *)
(***************************************************************************)
Plain == [base |-> disk, over |-> <<>>, cut |-> {}]

Shadowed(l, p) == Above[p] \cap l.cut # {}
Replaced(l, p) == p \in DOMAIN l.over \/ Shadowed(l, p)

Node(l, p) ==
    IF p \in DOMAIN l.over THEN l.over[p]
    ELSE IF Shadowed(l, p) THEN "absent" ELSE NodeOf(l.base[p])

Set(l, ps, node) ==
    [base |-> l.base,
     over |-> [p \in DOMAIN l.over \cup ps |->
                 IF p \in ps THEN node ELSE l.over[p]],
     cut |-> IF node = "dir" THEN l.cut ELSE l.cut \cup ps]

Live(l, d) == {p \in Under(d) : Node(l, p) # "absent"}
Children(l, d) == {p \in Live(l, d) : Above[p] = Above[d] \cup {d}}

\* target: a parent that is a symlink on disk and still stands is refused.
Reachable(l, p) ==
    \A d \in Above[p] : l.base[d].kind = "link" => Replaced(l, d)

Action(l, f) ==
    IF \/ ~f.copied
       \/ ~Reachable(l, f.path)
       \/ f.old # NoPath /\ ~Reachable(l, f.old)
       \/ /\ f.change = "write"
          /\ ~Replaced(l, f.path)
          /\ l.base[f.path].kind = "binary"
    THEN "skip" ELSE f.change

PlanCommit(l, c) == {[file |-> f, action |-> Action(l, f)] : f \in c}

Writes(pl) == {f.file.path : f \in {g \in pl : g.action = "write"}}

Deletions(pl) ==
    {f.file.path : f \in {g \in pl : g.action = "delete"}}
    \cup ({f.file.old : f \in {g \in pl : g.action # "skip"}} \ {NoPath})

\* Whether deleting ps leaves folder d empty, and so removed.
Emptied(l, d, ps) ==
    /\ Children(l, d) # {}
    /\ \A p \in Live(l, d) :
          IF Node(l, p) = "dir" THEN Children(l, p) # {} ELSE p \in ps

Conflict(l, pl, f) ==
    /\ f.action # "skip"
    /\ \/ f.file.old # NoPath /\ Node(l, f.file.old) = "dir"
       \/ /\ Node(l, f.file.path) = "dir"
          /\ \/ f.action = "delete"
             \/ ~Emptied(l, f.file.path, Deletions(pl))
       \/ /\ f.action = "write"
          /\ Node(l, f.file.path) # "dir"
          /\ \E d \in Above[f.file.path] \ Deletions(pl) : Node(l, d) = "file"

Conflicted(l, pl) == \E f \in pl : Conflict(l, pl, f)

(* Mutant of Pruned: a folder emptied by a deletion is thought to stay. *)
PrunedNever(l, ps) == {}

\* Folders above the deleted paths with nothing left but such folders.
Pruned(l, ps) ==
    LET walked == UNION {Above[p] : p \in ps}
        folders == {d \in walked : Node(l, d) = "dir"}
    IN  {d \in folders : Live(l, d) \subseteq folders}

\* PlannedLayout::apply: deletions, the parents they empty, then the writes.
Applied(l, pl) ==
    LET removed == {p \in Deletions(pl) : Node(l, p) = "file"}
        bare == Set(l, removed, "absent")
        pruned == Set(bare, Pruned(bare, removed), "absent")
        written == Set(pruned, Writes(pl), "file")
    IN  Set(written, UNION {Above[p] : p \in Writes(pl)}, "dir")

\* The layout before each commit: one that is refused writes nothing.
Layouts(commits) ==
    LET before[i \in 1..Len(commits)] ==
            IF i = 1 THEN Plain
            ELSE LET l == before[i - 1]
                     pl == PlanCommit(l, commits[i - 1])
                 IN  IF Conflicted(l, pl) THEN l ELSE Applied(l, pl)
    IN  before

Preview(commits) ==
    LET layouts == Layouts(commits)
    IN  [i \in 1..Len(commits) |->
            LET pl == PlanCommit(layouts[i], commits[i])
            IN  [plan |-> pl, refused |-> Conflicted(layouts[i], pl)]]

\* FilePlan::freshness_targets: nothing for a file that was not copied.
Targets(commits) ==
    {f.path : f \in {g \in UNION Range(commits) : g.copied}}
    \cup ({f.old : f \in {g \in UNION Range(commits) : g.copied}} \ {NoPath})

Snapshot(commits) ==
    [files |-> [p \in Targets(commits) |-> disk[p]], head |-> head,
     index |-> index]

-----------------------------------------------------------------------------
TypeOK ==
    /\ payload \in Payloads
    /\ disk \in [Paths -> Nodes]
    /\ DOMAIN head \subseteq Paths /\ Range(head) \subseteq Bytes
    /\ DOMAIN index \subseteq Paths /\ Range(index) \subseteq Bytes
    /\ pc \in {"copied", "shown", "planning", "checking", "deleting", "writing",
               "removing", "adding", "committing", "naming", "ended"}
    /\ at \in Nat
    /\ left \subseteq Paths
    /\ made \in Nat /\ created \in Nat
    /\ failure \in {"none", "busy", "stale", "refused", "io", "git"}
    /\ touched \in BOOLEAN
    /\ edits \in 0..MaxEdits
    /\ edited \in BOOLEAN

Init ==
    /\ payload \in Payloads
    /\ \E s \in Starts : disk = s.disk /\ head = s.head /\ index = s.index
    /\ preview = <<>>
    /\ seen = <<>>
    /\ pc = "copied"
    /\ at = 1
    /\ plan = {}
    /\ left = {}
    /\ made = 0
    /\ created = 0
    /\ failure = "none"
    /\ touched = FALSE
    /\ edits = 0
    /\ edited = FALSE

\* A worktree that changes during the capture is refused.
Capture ==
    /\ pc = "copied"
    /\ preview' = Preview(payload)
    /\ seen' = Snapshot(payload)
    /\ pc' = "shown"
    /\ UNCHANGED <<tree, payload, at, plan, left, outcome, touched, editor>>

Fresh == seen = Snapshot(payload) /\ preview = Preview(payload)

Stop(why) == pc' = "ended" /\ failure' = why

\* Another paste holds the lock, the caller cancels, or Git cannot start.
ApplyRefused ==
    /\ pc = "shown"
    /\ Stop("busy")
    /\ UNCHANGED <<tree, shown, at, plan, left, made, created, touched, editor>>

\* apply_with: under the worktree's lock, right before the first write.
Apply ==
    /\ pc = "shown"
    /\ IF Fresh THEN pc' = "planning" /\ UNCHANGED failure
                ELSE Stop("stale")
    /\ UNCHANGED <<tree, shown, at, plan, left, made, created, touched, editor>>

PlanNext ==
    /\ pc = "planning"
    /\ IF at > Len(payload)
       THEN pc' = "ended" /\ UNCHANGED <<plan, touched, failure>>
       ELSE /\ plan' = PlanCommit(Plain, payload[at])
            /\ touched' = FALSE
            /\ IF Conflicted(Plain, plan') THEN Stop("refused")
               ELSE pc' = "checking" /\ UNCHANGED failure
    /\ UNCHANGED <<tree, shown, at, left, made, created, editor>>

\* Every write target, before anything destructive happens.
Recheck ==
    /\ pc = "checking"
    /\ IF \E p \in Writes(plan) : disk[p].kind = "binary"
       THEN Stop("refused") /\ UNCHANGED left
       ELSE pc' = "deleting" /\ left' = Deletions(plan) /\ UNCHANGED failure
    /\ UNCHANGED <<tree, shown, at, plan, made, created, touched, editor>>

(***************************************************************************)
(* The worktree.                                                           *)
(***************************************************************************)
IsFile(p) == NodeOf(disk[p]) = "file"

\* remove_file, then the parents it leaves empty; a link takes along what
\* it showed.
Without(p) ==
    LET kept == {q \in Paths : disk[q].kind # "absent"} \ ({p} \cup Under(p))
        empty == {d \in Above[p] :
                    disk[d].kind = "dir" /\ kept \cap Under(d) \subseteq Above[p]}
    IN  [q \in Paths |-> IF q \in kept \ empty THEN disk[q] ELSE Gone]

(* Mutant of Delete: the write targets are checked once more, too late. *)
DeleteThenCheck ==
    /\ pc = "deleting"
    /\ IF left = {}
       THEN /\ IF \E p \in Writes(plan) : disk[p].kind = "binary"
               THEN Stop("refused") /\ UNCHANGED left
               ELSE pc' = "writing" /\ left' = Writes(plan) /\ UNCHANGED failure
            /\ UNCHANGED <<disk, touched>>
       ELSE \E p \in left :
            /\ disk[p].kind # "dir"
            /\ left' = left \ {p}
            /\ IF IsFile(p) THEN disk' = Without(p) /\ touched' = TRUE
                            ELSE UNCHANGED <<disk, touched>>
            /\ UNCHANGED <<pc, failure>>
    /\ UNCHANGED <<head, index, shown, at, plan, made, created, editor>>

Delete ==
    /\ pc = "deleting"
    /\ IF left = {}
       THEN /\ pc' = "writing"
            /\ left' = Writes(plan)
            /\ UNCHANGED <<disk, touched>>
       ELSE \E p \in left :
            /\ disk[p].kind # "dir"
            /\ left' = left \ {p}
            /\ IF IsFile(p) THEN disk' = Without(p) /\ touched' = TRUE
                            ELSE UNCHANGED <<disk, touched>>
            /\ UNCHANGED pc
    /\ UNCHANGED <<head, index, shown, at, plan, outcome, editor>>

\* The entry is replaced by rename, its parents made as needed.
With(p, b) ==
    [q \in Paths |-> IF q = p THEN Text(b)
                     ELSE IF q \in Above[p] THEN Folder
                     ELSE IF q \in Under(p) THEN Gone ELSE disk[q]]

Write ==
    /\ pc = "writing"
    /\ IF left = {}
       THEN pc' = "removing" /\ UNCHANGED <<disk, left, touched>>
       ELSE \E p \in left :
            /\ disk[p].kind # "dir"
            /\ \A d \in Above[p] : ~IsFile(d)
            /\ disk' = With(p, CopiedBy(at))
            /\ left' = left \ {p}
            /\ touched' = TRUE
            /\ UNCHANGED pc
    /\ UNCHANGED <<head, index, shown, at, plan, outcome, editor>>

\* A file operation fails: a folder is in the way, or the disk says no.
FileFails ==
    /\ pc \in {"deleting", "writing"}
    /\ left # {}
    /\ Stop("io")
    /\ UNCHANGED <<tree, shown, at, plan, left, made, created, touched, editor>>

(***************************************************************************)
(* Git.                                                                    *)
(***************************************************************************)
\* A pathspec matches the path and what Git tracks below it.
Matched(ps) == ps \cup {q \in DOMAIN head \cup DOMAIN index : Above[q] \cap ps # {}}

\* A file as Git sees it: not through a link.
Present(p) == IsFile(p) /\ \A d \in Above[p] : disk[d].kind = "dir"

\* Each path as the worktree has it now.  An entry that is added drops the
\* ones it cannot stand beside.
Updated(t, ps) ==
    LET stays == {p \in ps : Present(p)}
    IN  [q \in (DOMAIN t \ (ps \cup UNION {Above[p] \cup Under(p) : p \in stays}))
               \cup stays |->
            IF q \in stays THEN disk[q].bytes ELSE t[q]]

\* ls-tree names a folder as it names a file.
Tracked(t, p) == p \in DOMAIN t \/ Under(p) \cap DOMAIN t # {}

Staged == {p \in Deletions(plan) : Tracked(head, p)}

\* rm --cached without -r refuses a folder.
Remove ==
    /\ pc = "removing"
    /\ \A p \in Staged : Under(p) \cap DOMAIN index = {}
    /\ index' = Restrict(index, DOMAIN index \ Staged)
    /\ pc' = "adding"
    /\ UNCHANGED <<disk, head, shown, at, plan, left, outcome, touched, editor>>

(* Mutant of Add: everything is staged, not the files written. *)
AddEverything ==
    /\ pc = "adding"
    /\ index' = Updated(index, Paths)
    /\ pc' = "committing"
    /\ UNCHANGED <<disk, head, shown, at, plan, left, outcome, touched, editor>>

Add ==
    /\ pc = "adding"
    /\ \A p \in Writes(plan) : Present(p) \/ Tracked(index, p)
    /\ index' = Updated(index, Matched(Writes(plan)))
    /\ pc' = "committing"
    /\ UNCHANGED <<disk, head, shown, at, plan, left, outcome, touched, editor>>

Named == Writes(plan) \cup Staged

(* Mutant of Recorded: the whole index is committed. *)
RecordedIndex == Updated(index, Matched(Named))

\* commit --only: HEAD's tree with what is named as the worktree has it.
Recorded == Updated(head, Matched(Named))

Commit ==
    /\ pc = "committing"
    /\ \A p \in Named : Tracked(head, p) \/ Tracked(index, p)
    /\ head' = Recorded
    /\ index' = Updated(index, Matched(Named))
    /\ made' = made + 1
    /\ pc' = "naming"
    /\ UNCHANGED <<disk, shown, at, plan, left, created, failure, touched, editor>>

Name ==
    /\ pc = "naming"
    /\ created' = created + 1
    /\ at' = at + 1
    /\ pc' = "planning"
    /\ UNCHANGED <<tree, shown, plan, left, made, failure, touched, editor>>

(* Mutant of GitFails: the next commit is tried. *)
GitFailsOn ==
    /\ pc \in {"removing", "adding", "committing", "naming"}
    /\ failure' = "git"
    /\ at' = at + 1
    /\ pc' = "planning"
    /\ UNCHANGED <<tree, shown, plan, left, made, created, touched, editor>>

GitFails ==
    /\ pc \in {"removing", "adding", "committing", "naming"}
    /\ Stop("git")
    /\ UNCHANGED <<tree, shown, at, plan, left, made, created, touched, editor>>

\* An editor, a build, the user: a file comes, changes or goes.
Edit ==
    /\ pc \notin {"copied", "ended"}
    /\ edits < MaxEdits
    /\ edits' = edits + 1
    /\ edited' = (edited \/ pc # "shown")
    /\ \E p \in Paths, n \in {Gone, Text(2), [kind |-> "binary", bytes |-> 2]} :
          /\ disk[p].kind \notin {"dir", "link"}
          /\ \A d \in Above[p] : disk[d].kind = "dir"
          /\ disk[p] # n
          /\ disk' = [disk EXCEPT ![p] = n]
    /\ UNCHANGED <<head, index, shown, pc, at, plan, left, outcome, touched>>

Next ==
    \/ Capture \/ ApplyRefused \/ Apply \/ PlanNext \/ Recheck \/ Delete \/ Write \/ FileFails
    \/ Remove \/ Add \/ Commit \/ Name \/ GitFails \/ Edit

Spec == Init /\ [][Next]_vars

-----------------------------------------------------------------------------
(***************************************************************************)
(* What the preview showed is what is done.  Unless the worktree changes   *)
(* under the replay, each commit is planned as the preview simulated it,   *)
(* and replay refuses exactly the commit the preview refuses               *)
(* (PlannedLayout against replay_commit).                                  *)
(***************************************************************************)
PreviewIsWhatHappens ==
    ~edited =>
        /\ pc \notin {"copied", "shown", "planning", "ended"} =>
              plan = preview[at].plan /\ ~preview[at].refused
        /\ failure = "refused" => preview[at].refused

(***************************************************************************)
(* A commit that is refused has changed nothing yet: a conflict, or a      *)
(* target that is not UTF-8 any more, is found before the first deletion   *)
(* (replay_commit).                                                        *)
(***************************************************************************)
RefusalTouchesNothing ==
    failure \in {"busy", "stale", "refused"} => ~touched

(***************************************************************************)
(* What the user staged stays staged and is not committed: the paths the   *)
(* payload does not concern keep their entry in the index and in HEAD      *)
(* (the --only of replay_commit).                                          *)
(***************************************************************************)
Concerned ==
    UNION {{p} \cup Above[p] \cup Under(p) : p \in Targets(payload)}

OthersAreKept ==
    [][\A p \in Paths \ Concerned :
          /\ p \in DOMAIN index' <=> p \in DOMAIN index
          /\ p \in DOMAIN index => index'[p] = index[p]
          /\ p \in DOMAIN head' <=> p \in DOMAIN head
          /\ p \in DOMAIN head => head'[p] = head[p]]_vars

(***************************************************************************)
(* Unless the worktree changes under it, a commit is the previous one with *)
(* the payload's bytes at every path its plan writes and with nothing at   *)
(* the paths it deletes and does not write again: every other entry stays  *)
(* as it was, whatever the user staged.  Only what cannot stand beside     *)
(* these goes too, entries below a path of the plan or above a written one *)
(* (replay_commit's rm --cached, add and commit --only).                   *)
(***************************************************************************)
Planned(pl) ==
    UNION {{f.file.path, f.file.old} \ {NoPath} : f \in {g \in pl : g.action # "skip"}}

Displaced(pl) ==
    Planned(pl) \cup UNION ({Under(p) : p \in Planned(pl)}
                            \cup {Above[p] : p \in Writes(pl)})

CommitsAreExact ==
    [][made' # made /\ ~edited =>
        head' = [p \in (DOMAIN head \ Displaced(plan)) \cup Writes(plan) |->
                    IF p \in Writes(plan) THEN CopiedBy(at) ELSE head[p]]]_vars

(***************************************************************************)
(* The result tells what was made: every commit it lists, and at most one  *)
(* more, the one replay says it stopped at (ReplaySession::run).           *)
(***************************************************************************)
HistoryIsReported ==
    /\ created <= made /\ made <= created + 1
    /\ pc = "ended" =>
          /\ failure = "none" => created = Len(payload) /\ made = created
          /\ failure # "none" => at = created + 1

(***************************************************************************)
(* The inductive invariant: how far the replay is, the paths its plan may  *)
(* touch, and what deletions and writes have done when no editor meddled.  *)
(***************************************************************************)
Working == {"checking", "deleting", "writing", "removing", "adding",
            "committing", "naming"}

ProgressInv ==
    /\ at = created + 1
    /\ at <= Len(payload) + 1
    /\ pc \in Working => at <= Len(payload)
    /\ pc # "ended" => failure = "none"
    /\ pc # "ended" => made = IF pc = "naming" THEN created + 1 ELSE created
    /\ created <= made /\ made <= created + 1
    /\ pc = "ended" /\ failure = "none" => at > Len(payload) /\ made = created

UntouchedInv == pc \in {"copied", "shown", "checking"} => ~touched

PlanInv ==
    /\ plan \subseteq [file : Files, action : {"skip", "write", "delete"}]
    /\ Deletions(plan) \cup Writes(plan) \subseteq Targets(payload)
    /\ pc = "writing" => left \subseteq Writes(plan)

Written(p) ==
    disk[p] = Text(CopiedBy(at)) /\ \A d \in Above[p] : disk[d].kind = "dir"

DiskInv ==
    ~edited =>
        /\ pc = "deleting" =>
              \A p \in Deletions(plan) \ left : ~IsFile(p)
        /\ pc \in {"writing", "removing", "adding", "committing"} =>
              /\ \A p \in Deletions(plan) \ Writes(plan) : ~IsFile(p)
              /\ \A p \in Writes(plan) \ left : Written(p)
        /\ pc \in {"removing", "adding", "committing"} => left = {}

IInv ==
    /\ TypeOK
    /\ ProgressInv /\ UntouchedInv /\ PlanInv /\ DiskInv
    /\ RefusalTouchesNothing
=============================================================================
