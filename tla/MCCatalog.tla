------------------------------ MODULE MCCatalog ------------------------------
(* Catalog for TLC: three categories, the third under the second, a branch   *)
(* with no warehouse, a warehouse with no branch, and a product.             *)
EXTENDS Catalog, TLC

CONSTANTS r1, r2, r3

Requests == {r1, r2, r3}

Old(kind, ref) ==
    [kind |-> kind, ref |-> ref, gone |-> FALSE, sku |-> 0, under |-> {}]
Rows == << Old("category", Null), Old("category", Null), Old("category", 2),
           Old("branch", Null), Old("warehouse", Null), Old("product", 3) >>

New(kind, ref) == [act |-> "create", kind |-> kind, id |-> Null, ref |-> ref]
Move(kind, id, ref) == [act |-> "update", kind |-> kind, id |-> id, ref |-> ref]
Drop(kind, id) == [act |-> "remove", kind |-> kind, id |-> id, ref |-> Null]

Scripts ==
    ( r1 :> {Move("category", 1, 2), Move("category", 1, 3), Drop("category", 1),
             Move("category", 3, Null), New("product", 1), Drop("branch", 4)} @@
      r2 :> {Move("category", 2, 1), Move("category", 2, 3), New("category", 1),
             New("warehouse", 4), Move("warehouse", 5, 4), New("product", 3),
             Drop("product", 6), Drop("category", 3)} @@
      r3 :> {Move("category", 3, 1), New("category", 3), New("product", Null),
             Move("product", 6, 1), Move("category", 1, 1), Drop("category", 1),
             Drop("category", 2)} )
=============================================================================
