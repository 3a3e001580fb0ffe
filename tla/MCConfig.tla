------------------------------ MODULE MCConfig ------------------------------
(* Values of constants for TLC that a .cfg file cannot state. *)
EXTENDS Config

CONSTANTS a, b

One == Leaf(1)
MCDicts ==
  {Empty,
   Dict(a :> Dict(b :> One)),
   Dict(b :> Dict(a :> One) @@ a :> List(<<Dict(b :> One), One>>))}
MCValues == {Leaf(2), Dict(a :> List(<<Leaf(2)>>)), List(<<Dict(a :> One)>>)}
=============================================================================
