--------------------------- MODULE MCCommitReplay ---------------------------
EXTENDS CommitReplay

CONSTANTS d, f, g, o

(* g is in f and f in d, when these are folders; o is beside d. *)
FewPaths == {d, f, g, o}
FoldersOf == [p \in FewPaths |->
                CASE p = f -> {d} [] p = g -> {d, f} [] OTHER -> {}]

NodeSet ==
    {[kind |-> k, bytes |-> 0] : k \in {"absent", "dir", "link", "binary", "text"}}

\* d is no binary file, only d is a link; o is only absent or text.
Disks ==
    {t \in [FewPaths -> NodeSet] :
        /\ t[d].kind \in {"absent", "text"} => t[f] = Gone
        /\ t[f].kind \in {"absent", "text", "binary"} => t[g] = Gone
        /\ t[d].kind # "binary"
        /\ t[f].kind # "link"
        /\ t[g].kind \in {"absent", "text"}
        /\ t[o].kind \in {"absent", "text"}}

TextsOf(t) == {p \in FewPaths : t[p].kind = "text"}
Bases(ps) == [p \in ps |-> 0]

(* Every text is tracked; or o is new and staged, and the rest untracked;  *)
(* or f is tracked and its removal staged.                                 *)
SomeStarts ==
    {[disk |-> t, head |-> Bases(TextsOf(t)), index |-> Bases(TextsOf(t))] :
        t \in Disks}
    \cup {[disk |-> t, head |-> Bases({}), index |-> [p \in {o} |-> 1]] :
            t \in {u \in Disks : u[o].kind = "text"}}
    \cup {[disk |-> t, head |-> Bases({f, o}), index |-> Bases({o})] :
            t \in {u \in Disks : u[d] = Gone /\ u[o].kind = "text"}}

Entry(p, q, c) == [path |-> p, old |-> q, change |-> c, copied |-> TRUE]
EntriesOf(ps, qs) ==
    {Entry(p, NoPath, c) : p \in ps, c \in {"write", "delete"}}
    \cup {e \in {Entry(p, q, "write") : p \in ps, q \in qs} : e.path # e.old}

(* Entries of one commit, as Git tells two trees apart. *)
Proper(c) ==
    \A x, y \in c :
        /\ x # y => x.path # y.path /\ (x.old = NoPath \/ x.old # y.old)
        /\ x.old # NoPath /\ x.old = y.path => y.change = "write"
        /\ x.change = "write" /\ y.change = "write" => x.path \notin FoldersOf[y.path]

FirstCommits ==
    LET es == EntriesOf({d, f, o}, {d, f, o})
    IN  {c \in {{x, y} : x \in es, y \in es} : Proper(c)}
SomePayloads ==
    {<<a, {e}>> : a \in FirstCommits, e \in EntriesOf({d, f, g}, {d, f, o})}
    \cup {<<{[Entry(f, NoPath, "write") EXCEPT !.copied = FALSE]}, {}>>}
=============================================================================
