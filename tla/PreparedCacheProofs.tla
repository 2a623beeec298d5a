------------------------ MODULE PreparedCacheProofs ------------------------
(***************************************************************************)
(* Proofs about PreparedCache for any limits and any payload sizes.  The   *)
(* byte charge is a recursive sum over a set; it is shown to be the size   *)
(* of a set, whose arithmetic is that of cardinalities.                    *)
(***************************************************************************)
EXTENDS PreparedCache, FiniteSetTheorems, TLAPS

USE LimitsAssumption, SizesAssumption

-----------------------------------------------------------------------------
(***************************************************************************)
(* The sum a Charge computes, without its recursion: how many units its    *)
(* payloads have, each unit named by its payload and its number.           *)
(***************************************************************************)
UnitsOf(e) == {e} \X (1 .. e.bytes)
Units(S) == UNION {UnitsOf(e) : e \in S}

LEMMA UnitsOfOne ==
    ASSUME NEW e \in Stored
    PROVE  /\ e.bytes \in Nat
           /\ IsFiniteSet(UnitsOf(e)) /\ Cardinality(UnitsOf(e)) = e.bytes
<1>1. e.bytes \in Nat
    BY DEF Stored
<1>2. IsFiniteSet({e}) /\ Cardinality({e}) = 1
    BY FS_Singleton
<1>3. IsFiniteSet(1 .. e.bytes) /\ Cardinality(1 .. e.bytes) = e.bytes
    BY <1>1, FS_Interval
<1>4. IsFiniteSet(UnitsOf(e)) /\ Cardinality(UnitsOf(e)) = 1 * e.bytes
    BY <1>2, <1>3, FS_Product DEF UnitsOf
<1> QED
    BY <1>1, <1>4

LEMMA UnitsFinite ==
    ASSUME NEW S \in SUBSET Stored, IsFiniteSet(S)
    PROVE  IsFiniteSet(Units(S)) /\ Cardinality(Units(S)) \in Nat
<1> DEFINE All == {UnitsOf(e) : e \in S}
           f == [e \in S |-> UnitsOf(e)]
<1>1. f \in Surjection(S, All)
    BY DEF Surjection
<1>2. IsFiniteSet(All)
    BY <1>1, FS_Surjection
<1>3. \A U \in All : IsFiniteSet(U)
    BY UnitsOfOne
<1>4. IsFiniteSet(UNION All)
    BY <1>2, <1>3, FS_UNION
<1> QED
    BY <1>4, FS_CardinalityType DEF Units

\* Two sets of payloads that share none have the units of both.
LEMMA UnitsAdd ==
    ASSUME NEW S \in SUBSET Stored, IsFiniteSet(S),
           NEW T \in SUBSET Stored, IsFiniteSet(T), S \cap T = {}
    PROVE  Cardinality(Units(S \cup T)) =
               Cardinality(Units(S)) + Cardinality(Units(T))
<1>1. /\ IsFiniteSet(Units(S)) /\ Cardinality(Units(S)) \in Nat
      /\ IsFiniteSet(Units(T)) /\ Cardinality(Units(T)) \in Nat
    BY UnitsFinite
<1>2. Units(S \cup T) = Units(S) \cup Units(T)
    BY DEF Units
<1>3. Units(S) \cap Units(T) = {}
  <2>1. \A p \in Units(S) : p[1] \in S
      BY DEF Units, UnitsOf
  <2>2. \A p \in Units(T) : p[1] \in T
      BY DEF Units, UnitsOf
  <2> QED
      BY <2>1, <2>2
<1>4. Cardinality(Units(S) \cup Units(T)) =
          Cardinality(Units(S)) + Cardinality(Units(T))
             - Cardinality(Units(S) \cap Units(T))
    BY <1>1, FS_Union
<1>5. Cardinality(Units(S) \cap Units(T)) = 0
    BY <1>3, FS_EmptySet
<1>6. Cardinality(Units(S \cup T)) = Cardinality(Units(S) \cup Units(T))
    BY <1>2
<1>7. Cardinality(Units(S) \cup Units(T)) = Cardinality(Units(S)) + Cardinality(Units(T))
    BY <1>1, <1>4, <1>5
<1> QED
    BY <1>6, <1>7

(***************************************************************************)
(* What MapThenSumSet's recursion asks of its function.  The units satisfy *)
(* it, and no other function does.                                         *)
(***************************************************************************)
Sums(g, S) ==
    g = [s \in SUBSET S |->
            IF s = {} THEN 0
            ELSE LET x == CHOOSE x \in s : TRUE IN x.bytes + g[s \ {x}]]

LEMMA UnitsSum ==
    ASSUME NEW S \in SUBSET Stored, IsFiniteSet(S)
    PROVE  Sums([s \in SUBSET S |-> Cardinality(Units(s))], S)
<1> DEFINE G == [s \in SUBSET S |-> Cardinality(Units(s))]
<1>1. Cardinality(Units({})) = 0
    BY FS_EmptySet DEF Units
<1>2. ASSUME NEW s \in SUBSET S, NEW x \in s
      PROVE  G[s] = x.bytes + G[s \ {x}]
  <2>1. /\ x \in Stored /\ s \ {x} \in SUBSET Stored /\ {x} \cap (s \ {x}) = {}
        /\ {x} \in SUBSET Stored /\ {x} \cup (s \ {x}) = s /\ s \ {x} \in SUBSET S
      OBVIOUS
  <2>2. IsFiniteSet({x}) /\ IsFiniteSet(s \ {x})
      BY FS_Subset, FS_Singleton, <2>1
  <2>3. Cardinality(Units(s)) = Cardinality(Units({x})) + Cardinality(Units(s \ {x}))
      BY <2>1, <2>2, UnitsAdd
  <2>4. Units({x}) = UnitsOf(x)
      BY DEF Units
  <2> QED
      BY <2>1, <2>3, <2>4, UnitsOfOne
<1>3. ASSUME NEW s \in SUBSET S, s # {}
      PROVE  (CHOOSE x \in s : TRUE) \in s
    BY <1>3
<1> HIDE DEF G
<1>4. \A s \in SUBSET S :
         G[s] = IF s = {} THEN 0
                ELSE LET x == CHOOSE x \in s : TRUE IN x.bytes + G[s \ {x}]
    BY <1>1, <1>2, <1>3 DEF G
<1>5. G = [s \in SUBSET S |-> G[s]]
    BY DEF G
<1>6. Sums(G, S)
    BY <1>4, <1>5 DEF Sums
<1> QED
    BY <1>6 DEF G

LEMMA SumsUnique ==
    ASSUME NEW S, IsFiniteSet(S), NEW g, Sums(g, S), NEW h, Sums(h, S)
    PROVE  g[S] = h[S]
<1> DEFINE R == StrictSubsetOrdering(S)
           Differ == {s \in SUBSET S : g[s] # h[s]}
<1>1. IsWellFoundedOn(R, SUBSET S)
    BY FS_StrictSubsetOrderingWellFounded, FS_FiniteSubsetsOfFinite
<1> SUFFICES ASSUME Differ # {}
             PROVE  FALSE
    BY DEF Differ
<1>2. Differ \subseteq SUBSET S
    OBVIOUS
<1> HIDE DEF Differ
<1>3. PICK s \in Differ : \A t \in Differ : ~ (<<t, s>> \in R)
    BY <1>1, <1>2, WFMin
<1>4. s \in SUBSET S /\ g[s] # h[s]
    BY DEF Differ
<1>5. ASSUME NEW x \in s
      PROVE  g[s \ {x}] = h[s \ {x}]
  <2>1. <<s \ {x}, s>> \in R
      BY <1>4, <1>5 DEF StrictSubsetOrdering
  <2> QED
      BY <2>1, <1>3, <1>4 DEF Differ
<1>6. CASE s = {}
    BY <1>4, <1>6 DEF Sums
<1>7. CASE s # {}
  <2>1. PICK x \in s : x = CHOOSE y \in s : TRUE
      BY <1>7
  <2>2. g[s] = x.bytes + g[s \ {x}] /\ h[s] = x.bytes + h[s \ {x}]
      BY <1>4, <1>7, <2>1 DEF Sums
  <2> QED
      BY <1>4, <1>5, <2>1, <2>2
<1> QED
    BY <1>6, <1>7

LEMMA ChargeIsUnits ==
    ASSUME NEW S \in SUBSET Stored, IsFiniteSet(S)
    PROVE  Charge(S) = Cardinality(Units(S))
<1> DEFINE G == [s \in SUBSET S |-> Cardinality(Units(s))]
<1>1. Sums(G, S)
    BY UnitsSum
<1>2. Sums(CHOOSE g : Sums(g, S), S)
    BY <1>1, Zenon
<1>3. Charge(S) = (CHOOSE g : Sums(g, S))[S]
    BY DEF Charge, MapThenSumSet, MapThenFoldSet, Sums
<1>4. (CHOOSE g : Sums(g, S))[S] = G[S]
    BY <1>1, <1>2, SumsUnique
<1> QED
    BY <1>3, <1>4

LEMMA ChargeAdds ==
    ASSUME NEW S \in SUBSET Stored, IsFiniteSet(S),
           NEW T \in SUBSET Stored, IsFiniteSet(T), S \cap T = {}
    PROVE  /\ Charge(S) \in Nat /\ Charge(T) \in Nat
           /\ Charge(S \cup T) = Charge(S) + Charge(T)
<1>1. IsFiniteSet(S \cup T) /\ S \cup T \in SUBSET Stored
    BY FS_Union
<1>2. /\ Charge(S) = Cardinality(Units(S)) /\ Charge(T) = Cardinality(Units(T))
      /\ Charge(S \cup T) = Cardinality(Units(S \cup T))
    BY <1>1, ChargeIsUnits
<1> QED
    BY <1>2, UnitsAdd, UnitsFinite

LEMMA ChargeOfOne ==
    ASSUME NEW e \in Stored
    PROVE  Charge({e}) = e.bytes /\ e.bytes \in Nat
<1>1. Charge({e}) = Cardinality(Units({e}))
    BY FS_Singleton, ChargeIsUnits
<1>2. Units({e}) = UnitsOf(e)
    BY DEF Units
<1> QED
    BY <1>1, <1>2, UnitsOfOne

LEMMA ChargeOfNone == Charge({}) = 0
<1>1. Charge({}) = Cardinality(Units({}))
    BY FS_EmptySet, ChargeIsUnits
<1> QED
    BY <1>1, FS_EmptySet DEF Units

-----------------------------------------------------------------------------
(* Every token in use was issued, which keeps the next one fresh.          *)
TokensIssued == \A e \in Payloads : e.token < next

IInv ==
    /\ TypeOK
    /\ IsFiniteSet(entries) /\ IsFiniteSet(leases)
    /\ TokensIssued
    /\ TokensAreUnique
    /\ CountIsExact
    /\ BytesAreExact
    /\ WithinLimits

LEMMA InitIInv == Init => IInv
<1> SUFFICES ASSUME Init PROVE IInv
    OBVIOUS
<1>1. Payloads = {}
    BY DEF Init, Payloads
<1> QED
    BY <1>1, FS_EmptySet, ChargeOfNone DEF Init, IInv, TypeOK, TokensIssued,
       TokensAreUnique, CountIsExact, BytesAreExact, WithinLimits

(* What prune leaves: the live entries, and charges that match them.       *)
LEMMA Pruned ==
    ASSUME IInv
    PROVE  /\ IsFiniteSet(Live) /\ IsFiniteSet(Live \cup leases)
           /\ Live \cup leases \in SUBSET Stored
           /\ PrunedCount \in Nat /\ PrunedBytes \in Nat
           /\ PrunedCount = Cardinality(Live \cup leases)
           /\ PrunedBytes = Charge(Live \cup leases)
           /\ PrunedCount <= MaxEntries /\ PrunedBytes <= MaxBytes
<1>1. /\ IsFiniteSet(Live) /\ IsFiniteSet(Expired)
      /\ IsFiniteSet(Payloads) /\ IsFiniteSet(Live \cup leases)
    BY FS_Subset, FS_Union DEF IInv, Live, Expired, Payloads
<1>2. /\ Payloads = (Live \cup leases) \cup Expired
      /\ Live \cup leases \in SUBSET Stored /\ Expired \in SUBSET Stored
    BY DEF Payloads, Live, Expired, IInv, TypeOK
<1>3. (Live \cup leases) \cap Expired = {}
    BY DEF IInv, TokensAreUnique, Live, Expired
<1>4. Cardinality(Payloads) =
          Cardinality(Live \cup leases) + Cardinality(Expired)
  <2>1. Cardinality(Payloads) = Cardinality(Live \cup leases)
            + Cardinality(Expired) - Cardinality({})
      BY <1>1, <1>2, <1>3, FS_Union
  <2> QED
      BY <2>1, <1>1, FS_EmptySet, FS_CardinalityType
<1>5. Cardinality(Live \cup leases) \in Nat /\ Cardinality(Expired) \in Nat
    BY <1>1, FS_CardinalityType
<1>6. /\ Charge(Live \cup leases) \in Nat /\ Charge(Expired) \in Nat
      /\ Charge(Payloads) = Charge(Live \cup leases) + Charge(Expired)
  <2>1. /\ Charge(Live \cup leases) \in Nat /\ Charge(Expired) \in Nat
        /\ Charge((Live \cup leases) \cup Expired) =
               Charge(Live \cup leases) + Charge(Expired)
      BY <1>1, <1>2, <1>3, ChargeAdds
  <2> QED
      BY <1>2, <2>1, Zenon
<1>7. count = Cardinality(Payloads) /\ count <= MaxEntries
    BY DEF IInv, CountIsExact, WithinLimits
<1>8. bytes = Charge(Payloads) /\ bytes <= MaxBytes
    BY DEF IInv, BytesAreExact, WithinLimits
<1>9. /\ PrunedCount \in Nat /\ PrunedCount = Cardinality(Live \cup leases)
      /\ PrunedCount <= MaxEntries
    BY <1>4, <1>5, <1>7 DEF PrunedCount
<1>10. /\ PrunedBytes \in Nat /\ PrunedBytes = Charge(Live \cup leases)
       /\ PrunedBytes <= MaxBytes
    BY <1>6, <1>8 DEF PrunedBytes
<1> QED
    BY <1>1, <1>2, <1>9, <1>10

LEMMA InsertIInv ==
    ASSUME IInv, NEW size \in Sizes, Insert(size)
    PROVE  IInv'
<1> DEFINE new == [token |-> next, expires |-> now + TTL, bytes |-> size]
<1>1. new \in Stored /\ new.token = next
    BY DEF IInv, TypeOK, Stored
<1>2. /\ entries' = Live \cup {new} /\ leases' = leases
      /\ Payloads' = (Live \cup leases) \cup {new}
    BY DEF Insert, Payloads
<1>3. new \notin Payloads /\ Live \subseteq entries
    BY <1>1 DEF IInv, TypeOK, Stored, TokensIssued, Payloads, Live
<1>4. TypeOK'
    BY <1>1, <1>2, <1>3, Pruned DEF IInv, TypeOK, Insert
<1>5. IsFiniteSet(entries)' /\ IsFiniteSet(leases)'
    BY <1>2, Pruned, FS_AddElement DEF IInv
<1>6. TokensIssued'
    BY <1>1, <1>2, <1>3 DEF IInv, TypeOK, Stored, TokensIssued, Payloads,
       Insert
<1>7. TokensAreUnique'
    BY <1>1, <1>2, <1>3 DEF IInv, TypeOK, Stored, TokensIssued,
       TokensAreUnique, Payloads
<1>8. new \notin Live \cup leases
    BY <1>3 DEF Payloads
<1>9. CountIsExact' /\ count' <= MaxEntries
  <2>1. Cardinality(Payloads') = Cardinality(Live \cup leases) + 1
      BY <1>2, <1>8, Pruned, FS_AddElement
  <2> QED
      BY <2>1, Pruned DEF Insert, CountIsExact
<1>10. BytesAreExact' /\ bytes' <= MaxBytes
  <2>1. /\ IsFiniteSet({new}) /\ {new} \in SUBSET Stored
        /\ (Live \cup leases) \cap {new} = {}
      BY <1>1, <1>8, FS_Singleton
  <2>2. Charge((Live \cup leases) \cup {new}) =
            Charge(Live \cup leases) + Charge({new})
      BY <2>1, Pruned, ChargeAdds
  <2>3. Charge({new}) = size
    <3>1. Charge({new}) = new.bytes
        BY <1>1, ChargeOfOne
    <3> QED
        BY <3>1
  <2>4. Charge(Payloads') = PrunedBytes + size
    <3> HIDE DEF new
    <3>1. Charge(Payloads') = Charge((Live \cup leases) \cup {new})
        BY <1>2
    <3>2. PrunedBytes = Charge(Live \cup leases)
        BY Pruned
    <3> QED
        BY <2>2, <2>3, <3>1, <3>2
  <2>5. bytes' = PrunedBytes + size /\ bytes' <= MaxBytes
      BY DEF Insert
  <2> QED
      BY <2>4, <2>5 DEF BytesAreExact
<1> QED
    BY <1>4, <1>5, <1>6, <1>7, <1>9, <1>10 DEF IInv, WithinLimits

(* A critical section that only prunes.                                    *)
LEMMA PruneIInv ==
    ASSUME IInv, entries' = Live, bytes' = PrunedBytes, count' = PrunedCount,
           UNCHANGED <<leases, next, now>>
    PROVE  IInv'
<1>1. Payloads' = Live \cup leases /\ Live \subseteq entries
    BY DEF Payloads, Live
<1> QED
    BY <1>1, Pruned DEF IInv, TypeOK, TokensIssued, TokensAreUnique,
       CountIsExact, BytesAreExact, WithinLimits, Payloads

LEMMA TakeIInv ==
    ASSUME IInv, NEW t \in 0 .. next, Take(t)
    PROVE  IInv'
<1>1. PICK e \in Live : /\ entries' = Live \ {e}
                        /\ leases' = leases \cup {e}
    BY DEF Take
<1>2. Live \subseteq entries /\ Payloads' = Live \cup leases
    BY <1>1 DEF Live, Payloads
<1>3. IsFiniteSet(entries)' /\ IsFiniteSet(leases)'
    BY <1>1, Pruned, FS_RemoveElement, FS_AddElement DEF IInv
<1>4. TypeOK'
    BY <1>1, <1>2, Pruned DEF IInv, TypeOK, Take
<1>5. TokensIssued' /\ TokensAreUnique'
    BY <1>1, <1>2 DEF IInv, TokensIssued, TokensAreUnique, Payloads, Take
<1>6. CountIsExact' /\ BytesAreExact' /\ WithinLimits'
    BY <1>2, Pruned DEF CountIsExact, BytesAreExact, WithinLimits, Take
<1> QED
    BY <1>3, <1>4, <1>5, <1>6 DEF IInv

LEMMA RestoreIInv ==
    ASSUME IInv, NEW e \in leases, Restore(e)
    PROVE  IInv'
<1>1. Payloads' = Payloads
    BY DEF Restore, Payloads
<1>2. IsFiniteSet(entries)' /\ IsFiniteSet(leases)'
    BY FS_RemoveElement, FS_AddElement DEF IInv, Restore
<1> QED
    BY <1>1, <1>2 DEF IInv, TypeOK, TokensIssued, TokensAreUnique,
       CountIsExact, BytesAreExact, WithinLimits, Restore

LEMMA DropIInv ==
    ASSUME IInv, NEW e \in leases, Drop(e)
    PROVE  IInv'
<1>1. Payloads' = Payloads \ {e} /\ e \in Payloads /\ e \in Stored
    BY DEF IInv, TypeOK, TokensAreUnique, Drop, Payloads
<1>2. IsFiniteSet(Payloads) /\ Payloads \in SUBSET Stored
    BY FS_Union DEF IInv, TypeOK, Payloads
<1>3. /\ Cardinality(Payloads') = Cardinality(Payloads) - 1
      /\ IsFiniteSet(Payloads') /\ Cardinality(Payloads') \in Nat
    BY <1>1, <1>2, FS_RemoveElement, FS_CardinalityType
<1>4. Charge(Payloads') \in Nat /\ Charge(Payloads) = Charge(Payloads') + e.bytes
  <2>1. /\ Payloads' \in SUBSET Stored /\ {e} \in SUBSET Stored
        /\ Payloads' \cap {e} = {} /\ Payloads' \cup {e} = Payloads
      BY <1>1, <1>2
  <2>2. /\ Charge(Payloads') \in Nat
        /\ Charge(Payloads' \cup {e}) = Charge(Payloads') + Charge({e})
      BY <1>3, <2>1, FS_Singleton, ChargeAdds
  <2> QED
      BY <1>1, <2>1, <2>2, ChargeOfOne
<1>5. IsFiniteSet(entries)' /\ IsFiniteSet(leases)'
    BY FS_RemoveElement DEF IInv, Drop
<1>6. count' = count - 1 /\ bytes' = bytes - e.bytes /\ e.bytes \in Nat
    BY <1>1, ChargeOfOne DEF Drop
<1>7. CountIsExact' /\ count' \in Nat /\ count' <= MaxEntries
  <2>1. count \in Nat /\ count = Cardinality(Payloads) /\ count <= MaxEntries
      BY DEF IInv, TypeOK, CountIsExact, WithinLimits
  <2>2. count' = Cardinality(Payloads')
      BY <1>3, <1>6, <2>1
  <2> QED
      BY <1>3, <1>6, <2>1, <2>2 DEF CountIsExact
<1>8. BytesAreExact' /\ bytes' \in Nat /\ bytes' <= MaxBytes
    BY <1>4, <1>6 DEF IInv, BytesAreExact, WithinLimits
<1>9. TypeOK' /\ TokensIssued' /\ TokensAreUnique'
    BY <1>1, <1>7, <1>8 DEF IInv, TypeOK, TokensIssued, TokensAreUnique, Payloads, Drop
<1> QED
    BY <1>5, <1>7, <1>8, <1>9 DEF IInv, WithinLimits

LEMMA NextIInv == IInv /\ [Next]_vars => IInv'
<1> SUFFICES ASSUME IInv, [Next]_vars PROVE IInv'
    OBVIOUS
<1>1. ASSUME NEW size \in Sizes, Insert(size) PROVE IInv'
    BY <1>1, InsertIInv
<1>2. ASSUME NEW size \in Sizes, InsertRefused(size) PROVE IInv'
    BY <1>2, PruneIInv DEF InsertRefused
<1>3. ASSUME NEW t \in 0 .. next, Take(t) PROVE IInv'
    BY <1>3, TakeIInv
<1>4. ASSUME NEW t \in 0 .. next, TakeMissing(t) PROVE IInv'
    BY <1>4, PruneIInv DEF TakeMissing
<1>5. ASSUME NEW e \in leases, Restore(e) PROVE IInv'
    BY <1>5, RestoreIInv
<1>6. ASSUME NEW e \in leases, Drop(e) PROVE IInv'
    BY <1>6, DropIInv
<1>7. CASE Tick \/ UNCHANGED vars
  <2>1. UNCHANGED <<entries, leases, bytes, count, next>>
      BY <1>7 DEF Tick, vars
  <2>2. now' \in Nat
      BY <1>7 DEF IInv, TypeOK, Tick, vars
  <2> QED
      BY <2>1, <2>2 DEF IInv, TypeOK, TokensIssued, TokensAreUnique,
         CountIsExact, BytesAreExact, WithinLimits, Payloads
<1> QED
    BY <1>1, <1>2, <1>3, <1>4, <1>5, <1>6, <1>7 DEF Next

THEOREM Invariance == Spec => []IInv
BY InitIInv, NextIInv, PTL DEF Spec

(* The entry charge counts the payloads in memory, stored or owned by an   *)
(* Apply: prepared.rs, insert, prune and PayloadLease::drop.               *)
THEOREM CountExact == Spec => []CountIsExact
<1>1. IInv => CountIsExact
    BY DEF IInv
<1> QED
    BY <1>1, Invariance, PTL

(* One token, one payload, one place: prepared.rs, insert and take.        *)
THEOREM TokensUnique == Spec => []TokensAreUnique
<1>1. IInv => TokensAreUnique
    BY DEF IInv
<1> QED
    BY <1>1, Invariance, PTL

(* The byte charge is the sum of the payloads in memory, whatever order    *)
(* prunes, restores and drops come in: prepared.rs, insert, take and       *)
(* PayloadLease::drop.                                                     *)
THEOREM BytesExact == Spec => []BytesAreExact
<1>1. IInv => BytesAreExact
    BY DEF IInv
<1> QED
    BY <1>1, Invariance, PTL

(* Neither charge ever passes its limit: prepared.rs, insert.              *)
THEOREM LimitsHold == Spec => []WithinLimits
<1>1. IInv => WithinLimits
    BY DEF IInv
<1> QED
    BY <1>1, Invariance, PTL

(* The number of retained payloads never exceeds its limit: prepared.rs,   *)
(* insert.                                                                 *)
THEOREM EntriesBounded == Spec => [](Cardinality(Payloads) <= MaxEntries)
<1>1. IInv => Cardinality(Payloads) <= MaxEntries
    BY DEF IInv, CountIsExact, WithinLimits
<1> QED
    BY <1>1, Invariance, PTL

(* A token's expiry never changes, not even through a restore: prepared.rs.*)
THEOREM ExpiryFixed == Spec => ExpiryIsFixed
<1>1. ASSUME IInv, [Next]_vars, NEW a \in Payloads, NEW b \in Payloads',
             a.token = b.token
      PROVE  a.expires = b.expires
  <2>1. CASE b \in Payloads
      BY <1>1, <2>1 DEF IInv, TokensAreUnique
  <2>2. CASE b \notin Payloads
    <3>1. PICK size \in Sizes : Insert(size)
        BY <1>1, <2>2 DEF Next, InsertRefused, Take, TakeMissing, Restore,
           Drop, Tick, vars, Payloads, Live
    <3>2. b.token = next
        BY <1>1, <2>2, <3>1 DEF Insert, Payloads, Live
    <3> QED
        BY <1>1, <3>2 DEF IInv, TypeOK, Stored, TokensIssued, Payloads
  <2> QED
      BY <2>1, <2>2
<1>2. IInv /\ [Next]_vars =>
        [\A a \in Payloads, b \in Payloads' :
            a.token = b.token => a.expires = b.expires]_vars
    BY <1>1
<1> QED
    BY <1>2, Invariance, PTL DEF Spec, ExpiryIsFixed

(* take hands out only payloads that have not expired, however long ago    *)
(* the cache was pruned: prepared.rs, take and State::prune.               *)
THEOREM ServedInTime == Spec => NothingServedLate
<1>1. ASSUME IInv, [Next]_vars, NEW e \in leases' \ leases
      PROVE  e \in entries /\ now < e.expires
  <2>1. PICK t \in 0 .. next : Take(t)
      BY <1>1 DEF Next, Insert, InsertRefused, TakeMissing, Restore, Drop,
         Tick, vars
  <2>2. e \in Live
      BY <1>1, <2>1 DEF Take
  <2> QED
      BY <2>2, <1>1 DEF Live, Expired, IInv, TypeOK, Stored
<1>2. IInv /\ [Next]_vars =>
        [\A e \in leases' \ leases : e \in entries /\ now < e.expires]_vars
    BY <1>1
<1> QED
    BY <1>2, Invariance, PTL DEF Spec, NothingServedLate
=============================================================================
