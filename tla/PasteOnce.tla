----------------------------- MODULE PasteOnce -----------------------------
(***************************************************************************)
(* What a prepared remote paste promises the person who pressed Apply.     *)
(*                                                                         *)
(* A preview may be applied again only after an answer that guarantees     *)
(* nothing was written ("retry").  It writes at most once.  A definite     *)
(* answer ("result": it wrote; "unwritten": it did not, and the preview is *)
(* spent) is true when it is given and stays true.  Only "unknown" leaves  *)
(* it open whether the write happened; after it nothing is ever asked      *)
(* again, although a write already under way may still land.               *)
(*                                                                         *)
(* RemotePaste implements this contract with a client, a worker process    *)
(* and a connection that can break at any time.                            *)
(***************************************************************************)
CONSTANT Leases

VARIABLES
    written,    \* previews whose paste has started to write
    told        \* told[l]: the last thing the user was told about l

vars == <<written, told>>

Init ==
    /\ written = {}
    /\ told = [l \in Leases |-> "idle"]

Tell(l, answer) ==
    /\ told[l] = "asked"
    /\ told' = [told EXCEPT ![l] = answer]
    /\ UNCHANGED written

(* The user presses Apply (or the overwrite gate asks for a check).        *)
Ask(l) ==
    /\ told[l] \in {"idle", "retry"}
    /\ told' = [told EXCEPT ![l] = "asked"]
    /\ UNCHANGED written

(* The worker starts to write, at most once, and only for an Apply that is *)
(* still open or that the client gave up on.                               *)
Write(l) ==
    /\ told[l] \in {"asked", "unknown"}
    /\ l \notin written
    /\ written' = written \cup {l}
    /\ UNCHANGED told

TellRetry(l) == l \notin written /\ Tell(l, "retry")
TellUnwritten(l) == l \notin written /\ Tell(l, "unwritten")
TellResult(l) == l \in written /\ Tell(l, "result")
TellUnknown(l) == Tell(l, "unknown")

Next ==
    \E l \in Leases :
        \/ Ask(l) \/ Write(l)
        \/ TellRetry(l) \/ TellUnwritten(l) \/ TellResult(l) \/ TellUnknown(l)

Spec == Init /\ [][Next]_vars
=============================================================================
