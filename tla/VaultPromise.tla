----------------------------- MODULE VaultPromise -----------------------------
(***************************************************************************)
(* What a vault promises its user: a seal is an instant.  The vault it     *)
(* publishes is the tree at that instant, without the links, devices and   *)
(* transient names a vault never holds, and it stays what it was.          *)
(***************************************************************************)
EXTENDS VaultBase

CONSTANTS Special, Stamp, NoImage

VARIABLES live,     \* the tree under the target
          image     \* for each vault, what restoring it would bring back

Snapshot(tree) ==
    [p \in Path |-> IF p \in Skipped \/ tree[p] = Special THEN NoFile ELSE tree[p]]

Init ==
    /\ live \in [Path -> Content \union {NoFile, Special}]
    /\ image = [v \in Stamp |-> NoImage]

Edit(p, e) ==
    /\ live' = [live EXCEPT ![p] = e]
    /\ UNCHANGED image

Publish(v) ==
    /\ image[v] = NoImage
    /\ image' = [image EXCEPT ![v] = Snapshot(live)]
    /\ UNCHANGED live

Next ==
    \/ \E p \in Path, e \in Content \union {NoFile} : Edit(p, e)
    \/ \E v \in Stamp : Publish(v)

Spec == Init /\ [][Next]_<<live, image>>

=============================================================================
