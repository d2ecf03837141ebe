---------------------------- MODULE MCMaintenance ----------------------------
(* Small instances of Maintenance for TLC. *)
EXTENDS Maintenance, TLC

CONSTANTS m1, p1, p2, u1, k1, k2

Maintainers == {m1}
PicturedIds == {1}
Patchers == {p1, p2}
Uploaders == {u1}
AllDefault == (k1 :> 0) @@ (k2 :> 0)
Patches == (p1 :> (k1 :> 1)) @@ (p2 :> (k2 :> 1))

\* The patches differ in nothing but their names and those of their keys.
Symmetry == {f \in Permutations({p1, p2, k1, k2}) :
                /\ {f[p1], f[p2]} = {p1, p2}
                /\ f[p1] = p1 <=> f[k1] = k1
                /\ f[p2] = p2 <=> f[k2] = k2
                /\ {f[k1], f[k2]} = {k1, k2}}

\* Bound: patches and avatars are looked at apart, as the one never reads what the
\* other writes; both with crashes, restores, resets and everything else.
Apart ==
    \/ \A p \in Patcher : pc[p] = "idle"
    \/ /\ \A u \in Uploader : pc[u] = "idle"
       /\ uploads = {} /\ data.avatars = {} /\ data.last <= Seeds
       /\ backup # None => backup.uploads = {} /\ backup.data.last <= Seeds

=============================================================================
