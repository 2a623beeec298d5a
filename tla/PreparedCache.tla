--------------------------- MODULE PreparedCache ---------------------------
(***************************************************************************)
(* The worker's cache of one-use paste payloads, crates/remote/src/        *)
(* prepared.rs.  A preview inserts its payload under a fresh token; an     *)
(* Apply takes it out as a PayloadLease, which either puts it back under   *)
(* the same token (restore) or is dropped.  The byte and entry charges     *)
(* cover stored payloads and payloads an Apply still owns, and a payload   *)
(* past its expiry is never handed out.                                    *)
(*                                                                         *)
(* Every action is one critical section of the cache's mutex.  Jobs run    *)
(* concurrently, so between any two sections others may come.              *)
(***************************************************************************)
EXTENDS Integers, FiniteSetsExt

CONSTANTS
    MaxBytes,       \* State.max_bytes
    MaxEntries,     \* State.max_entries
    TTL,            \* State.ttl, in ticks
    MaxToken,       \* the last serial number (u64::MAX), a bound in a run
    Sizes,          \* the charges a payload may have
    MaxTime         \* bound on the clock

ASSUME LimitsAssumption ==
    /\ MaxBytes \in Nat /\ MaxEntries \in Nat
    /\ TTL \in Nat /\ MaxToken \in Nat /\ MaxTime \in Nat
ASSUME SizesAssumption == Sizes \subseteq Nat

VARIABLES
    entries,    \* Stored: what take can find
    leases,     \* PayloadLease values alive in jobs
    bytes,      \* State.bytes
    count,      \* State.count
    next,       \* State.next, the next token's serial number
    now         \* State.now()

vars == <<entries, leases, bytes, count, next, now>>

Stored == [token : Nat, expires : Nat, bytes : Sizes]

TypeOK ==
    /\ entries \subseteq Stored
    /\ leases \subseteq Stored
    /\ bytes \in Nat
    /\ count \in Nat
    /\ next \in Nat
    /\ now \in Nat

Init ==
    /\ entries = {} /\ leases = {}
    /\ bytes = 0 /\ count = 0
    /\ next = 0
    /\ now = 0

-----------------------------------------------------------------------------
(* The charges of a set of payloads.                                       *)
Charge(S) == MapThenSumSet(LAMBDA e : e.bytes, S)

(* prune, the first thing insert and take do: entries past their expiry    *)
(* leave with their charge.                                                *)
Expired == {e \in entries : e.expires <= now}
Live == entries \ Expired
PrunedBytes == bytes - Charge(Expired)
PrunedCount == count - Cardinality(Expired)

(* Mutant of Insert: one entry too many.                                   *)
InsertOneTooMany(size) ==
    /\ PrunedBytes + size <= MaxBytes
    /\ PrunedCount <= MaxEntries
    /\ next < MaxToken
    /\ entries' = Live \cup {[token |-> next, expires |-> now + TTL,
                               bytes |-> size]}
    /\ bytes' = PrunedBytes + size
    /\ count' = PrunedCount + 1
    /\ next' = next + 1
    /\ UNCHANGED <<leases, now>>

(* insert keeps the payload: a token that was never used before, a full    *)
(* time to live.                                                           *)
Insert(size) ==
    /\ PrunedBytes + size <= MaxBytes
    /\ PrunedCount < MaxEntries
    /\ next < MaxToken
    /\ entries' = Live \cup {[token |-> next, expires |-> now + TTL,
                               bytes |-> size]}
    /\ bytes' = PrunedBytes + size
    /\ count' = PrunedCount + 1
    /\ next' = next + 1
    /\ UNCHANGED <<leases, now>>

(* insert answers None: over a limit, or out of serial numbers.  The       *)
(* preview is then served without a token.                                 *)
InsertRefused(size) ==
    /\ \/ PrunedBytes + size > MaxBytes
       \/ PrunedCount >= MaxEntries
       \/ next >= MaxToken
    /\ entries' = Live
    /\ bytes' = PrunedBytes
    /\ count' = PrunedCount
    /\ UNCHANGED <<leases, next, now>>

(* Mutant of Take: the charge leaves with the payload.                     *)
TakeReleases(t) ==
    /\ \E e \in Live :
          /\ e.token = t
          /\ entries' = Live \ {e}
          /\ leases' = leases \cup {e}
          /\ bytes' = PrunedBytes - e.bytes
    /\ count' = PrunedCount
    /\ UNCHANGED <<next, now>>

(* Mutant of Take: only insert prunes.                                     *)
TakeUnpruned(t) ==
    /\ \E e \in entries :
          /\ e.token = t
          /\ entries' = entries \ {e}
          /\ leases' = leases \cup {e}
    /\ UNCHANGED <<bytes, count, next, now>>

(* take hands the payload out and keeps its charge.  When the workspace,   *)
(* the destination or the digest does not match, take itself drops the     *)
(* lease, in a critical section of its own: Drop.                          *)
Take(t) ==
    /\ \E e \in Live :
          /\ e.token = t
          /\ entries' = Live \ {e}
          /\ leases' = leases \cup {e}
    /\ bytes' = PrunedBytes
    /\ count' = PrunedCount
    /\ UNCHANGED <<next, now>>

(* take finds no such token: expired, consumed, or of another worker.      *)
TakeMissing(t) ==
    /\ \A e \in Live : e.token # t
    /\ entries' = Live
    /\ bytes' = PrunedBytes
    /\ count' = PrunedCount
    /\ UNCHANGED <<leases, next, now>>

(* restore, in time: the payload goes back under its token, with its old   *)
(* expiry; the charge never left.                                          *)
Restore(e) ==
    /\ e \in leases /\ now < e.expires
    /\ leases' = leases \ {e}
    /\ entries' = entries \cup {e}
    /\ UNCHANGED <<bytes, count, next, now>>

(* A lease is dropped: after an Apply, a mismatch, an unwinding job, or a  *)
(* restore that came too late.                                             *)
Drop(e) ==
    /\ e \in leases
    /\ leases' = leases \ {e}
    /\ bytes' = bytes - e.bytes
    /\ count' = count - 1
    /\ UNCHANGED <<entries, next, now>>

Tick ==
    /\ now < MaxTime
    /\ now' = now + 1
    /\ UNCHANGED <<entries, leases, bytes, count, next>>

(* Tokens a master may send: those issued so far and one never issued.     *)
Next ==
    \/ \E size \in Sizes : Insert(size) \/ InsertRefused(size)
    \/ \E t \in 0 .. next : Take(t) \/ TakeMissing(t)
    \/ \E e \in leases : Restore(e) \/ Drop(e)
    \/ Tick

Spec == Init /\ [][Next]_vars

-----------------------------------------------------------------------------
(* Properties                                                              *)

Payloads == entries \cup leases

(* The charges are those of the payloads in memory, stored or owned by a   *)
(* job: nothing is charged twice, forgotten, or released twice when a      *)
(* restore, a drop and a prune meet (prepared.rs, PayloadLease::drop).     *)
BytesAreExact == bytes = Charge(Payloads)
CountIsExact == count = Cardinality(Payloads)

(* What the worker retains stays within its limits, the payloads Apply     *)
(* still owns included (spec.md: 128 MiB and 8 entries per worker).        *)
WithinLimits == bytes <= MaxBytes /\ count <= MaxEntries

(* A token names one payload, which is stored or owned by one job, never   *)
(* both: two Applies of one token cannot both find it.                     *)
TokensAreUnique ==
    /\ entries \cap leases = {}
    /\ \A a, b \in Payloads : a.token = b.token => a = b

(* A payload that comes back keeps its token's expiry: refusals cannot     *)
(* stretch the time to live (prepared.rs, restore).                        *)
ExpiryIsFixed ==
    [][\A a \in Payloads, b \in Payloads' :
         a.token = b.token => a.expires = b.expires]_vars

(* take hands out only what has not expired, however late the last prune.  *)
NothingServedLate ==
    [][\A e \in leases' \ leases : e \in entries /\ now < e.expires]_vars
=============================================================================
