------------------------------ MODULE VaultBase ------------------------------
(***************************************************************************)
(* The data every ivault module talks about: relative paths of the files   *)
(* under a target directory, the bytes a file can hold, the FNV-1a64       *)
(* digest of those bytes, and the manifest of a vault.                     *)
(*                                                                         *)
(* A path, a content and a digest are opaque values.  What the properties  *)
(* must tell apart is kept: the names the seal walk passes over, a file    *)
(* that was cut short (Torn), a digest field that was cut short (CutHash), *)
(* and a manifest some line of which the loader rejects (bad).             *)
(***************************************************************************)
EXTENDS Naturals, FiniteSets

CONSTANTS
    Path,       \* relative paths below the target
    Skipped,    \* the paths whose name the seal walk passes over
    Content,    \* the contents users write
    Torn,       \* the bytes of a file that was not written to its end
    HashId,     \* digests, as the manifest stores them
    Hash,       \* the digest of each content
    CutHash,    \* a digest field that lost its last characters
    NoFile,     \* nothing at this path
    NoRow       \* no manifest row for this path

Bytes == Content \union {Torn}

(* Hash need not be injective: theorems that need it say so. *)
HashInjective == \A a, b \in Bytes : Hash[a] = Hash[b] => a = b

ASSUME PathAssumption  == Skipped \subseteq Path
ASSUME BytesAssumption == Torn \notin Content /\ NoFile \notin Bytes
ASSUME HashAssumption  ==
    /\ Hash \in [Bytes -> HashId]
    /\ CutHash \in HashId
    /\ \A b \in Bytes : Hash[b] # CutHash
    /\ NoRow \notin HashId

Manifest == [rows : [Path -> HashId \union {NoRow}], bad : BOOLEAN]

(* A manifest.tsv just opened with "w", or holding only the header line:   *)
(* ivault_manifest_load accepts both and finds no row.                     *)
EmptyManifest == [rows |-> [p \in Path |-> NoRow], bad |-> FALSE]

(* The relpaths for which ivault_manifest_find answers an entry. *)
Listed(m) == {p \in Path : m.rows[p] # NoRow}

==============================================================================
