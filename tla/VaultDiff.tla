------------------------------ MODULE VaultDiff ------------------------------
(***************************************************************************)
(* What `ivault diff` says of two loaded manifests.  A row is the digest   *)
(* and the size that seal_file wrote for a path; the size was read by      *)
(* lstat and the digest later, so the two may be of different contents.    *)
(***************************************************************************)
EXTENDS VaultBase

CONSTANTS
    SizeId,     \* file sizes
    SizeOf      \* the size of each content

ASSUME SizeAssumption == SizeOf \in [Bytes -> SizeId]

FileRow == [hash : HashId, size : SizeId]
ASSUME RowAssumption == NoRow \notin FileRow

RowTable == [Path -> FileRow \union {NoRow}]
NoRows   == [p \in Path |-> NoRow]

Filed(m) == {p \in Path : m[p] # NoRow}

(* manifest_contains_hash *)
HasHash(m, h) == \E p \in Filed(m) : m[p].hash = h

(* The counters of ivault_diff_vaults: rows of a first, then rows of b. *)
Changed(a, b) == {p \in Filed(a) \intersect Filed(b) : a[p] # b[p]}
Moved(a, b)   == {p \in Filed(a) \ Filed(b) : HasHash(b, a[p].hash)}
Removed(a, b) == {p \in Filed(a) \ Filed(b) : ~HasHash(b, a[p].hash)}
Added(a, b)   == {p \in Filed(b) \ Filed(a) : ~HasHash(a, b[p].hash)}

(* Defect: a moved file is printed but does not count as a difference. *)
NoDifferenceMoved(a, b) == Changed(a, b) \union Removed(a, b) \union Added(a, b) = {}

NoDifference(a, b) ==
    Changed(a, b) \union Moved(a, b) \union Removed(a, b) \union Added(a, b) = {}

==============================================================================
