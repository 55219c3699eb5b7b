---------------------------- MODULE MCReconcile ----------------------------
\* A small instance of Reconcile: one dl, two branches, the clone of one of them
\* strewn over the tree.
EXTENDS Reconcile, TLC

CONSTANTS p1, a, b, ha, hb, raw, flat, o1

One      == {p1}
Names    == {ha, hb, raw, flat, o1}
Branches == {a, b}
Hashed   == a :> ha @@ b :> hb
\* One branch's name needed flattening, and flattened it is the other's.
Leaves   == a :> {ha, raw, flat} @@ b :> {hb, flat}
OneOld   == {o1}
Leaf     == {<<flat>>}
Alone    == {"reconcile"}
============================================================================
