----------------------------- MODULE DiffProofs ------------------------------
(***************************************************************************)
(* What the verdict of `ivault diff` means, for any two manifests.         *)
(***************************************************************************)
EXTENDS VaultDiff, TLAPS

(* NO DIFFERENCE says that every row of the first manifest stands unchanged *)
(* in the second, and that a row of the second alone is a copy: its digest  *)
(* is in the first (ivault_diff_vaults).                                    *)
THEOREM DiffMeans ==
    ASSUME NEW a \in RowTable, NEW b \in RowTable
    PROVE  NoDifference(a, b) <=>
             /\ \A p \in Filed(a) : b[p] = a[p]
             /\ \A p \in Filed(b) \ Filed(a) : HasHash(a, b[p].hash)
<1>1. ASSUME NoDifference(a, b), NEW p \in Filed(a) PROVE b[p] = a[p]
  <2>1. p \in Filed(b)
    BY <1>1 DEF NoDifference, Moved, Removed
  <2> QED
    BY <1>1, <2>1 DEF NoDifference, Changed
<1>2. ASSUME NoDifference(a, b), NEW p \in Filed(b) \ Filed(a) PROVE HasHash(a, b[p].hash)
  BY <1>2 DEF NoDifference, Added
<1>3. ASSUME \A p \in Filed(a) : b[p] = a[p],
             \A p \in Filed(b) \ Filed(a) : HasHash(a, b[p].hash)
      PROVE  NoDifference(a, b)
  <2>1. Filed(a) \subseteq Filed(b)
    BY <1>3 DEF Filed
  <2>2. Changed(a, b) = {}
    BY <1>3 DEF Changed
  <2>3. Moved(a, b) = {} /\ Removed(a, b) = {}
    BY <2>1 DEF Moved, Removed
  <2>4. Added(a, b) = {}
    BY <1>3 DEF Added
  <2> QED
    BY <2>2, <2>3, <2>4 DEF NoDifference
<1> QED
  BY <1>1, <1>2, <1>3

(* Two manifests are the same exactly if diff finds none the other way round *)
(* either: one NO DIFFERENCE alone does not show it (ivault_diff_vaults).    *)
THEOREM DiffBothWays ==
    ASSUME NEW a \in RowTable, NEW b \in RowTable
    PROVE  NoDifference(a, b) /\ NoDifference(b, a) <=> a = b
<1>1. ASSUME NoDifference(a, b), NoDifference(b, a) PROVE a = b
  <2>1. ASSUME NEW p \in Path PROVE a[p] = b[p]
    <3>1. CASE p \in Filed(a) \union Filed(b)
      BY <1>1, <3>1, DiffMeans
    <3>2. CASE p \notin Filed(a) \union Filed(b)
      BY <3>2 DEF Filed
    <3> QED
      BY <3>1, <3>2
  <2> QED
    BY <2>1 DEF RowTable
<1>2. ASSUME a = b PROVE NoDifference(a, b) /\ NoDifference(b, a)
  BY <1>2, DiffMeans
<1> QED
  BY <1>1, <1>2

==============================================================================
