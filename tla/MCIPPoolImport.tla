-------------------------- MODULE MCIPPoolImport --------------------------
(* Small instances of IPPoolImport for TLC. *)
EXTENDS IPPoolImport

CONSTANTS transit, other, pods, site1, fixed

Sel(q, name, mask, ex, n) ==
    [query |-> q, nameOverride |-> name, namePrefix |-> pods,
     excludeMask |-> mask, excluded |-> ex, lastN |-> n]

Pfx(a, b, v6, c) ==
    [net |-> [addr |-> a, bits |-> b], v6 |-> v6, site |-> site1,
     transit |-> c # None, compute |-> c]

\* The lowest and the highest of eight addresses are the ends of the space.
Low  == Pfx(0, 1, FALSE, 1)   \* 0..3
High == Pfx(6, 2, FALSE, 2)   \* 6..7
One  == Pfx(5, 3, FALSE, None)
Six  == Pfx(4, 2, TRUE, None)

LastN   == Sel(transit, None, None, <<>>, 3)
Masked  == Sel(other, fixed, 2, <<[addr |-> 3, bits |-> 3]>>, None)

MCSpecs == {<<LastN, Masked>>, <<Masked>>}
MCLists == {<<Low, High>>, <<Low>>, <<One>>, <<Six>>, <<>>}
MCInitLists ==
    {l \in [Query -> MCLists] : l[transit] \in {<<Low, High>>, <<One>>} /\ l[other] = <<Low>>}
===========================================================================
