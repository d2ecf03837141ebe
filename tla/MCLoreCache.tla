----------------------------- MODULE MCLoreCache -----------------------------
(* Small instances of LoreCache for TLC. *)
EXTENDS LoreCache, TLC

CONSTANTS r1, r2, c1, t1, t2, m1

Requests == {r1, r2}
Characters == {c1}
ForOne == [h \in Requests |-> c1]
Texts == {t1, t2}
Narrow == [model |-> m1, dimensions |-> 1]
Wide == [model |-> m1, dimensions |-> 2]
Settings == {Narrow, Wide}
Files == {<<t1, t2>>}

\* A database saved when fact 1 had another text, with its vector.
Saved == [facts |-> {[id |-> 1, pack |-> 1, text |-> t2]}, packs |-> {1},
          assigned |-> {<<c1, 1>>},
          cache |-> {[fact |-> 1, model |-> m1, hash |-> Hash(Narrow, t2),
                      vector |-> Embedding(Narrow, t2)]},
          last |-> [pack |-> 1, fact |-> 1]]
Archives == {Empty, Saved}

=============================================================================
