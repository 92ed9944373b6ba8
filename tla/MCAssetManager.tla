-------------------------- MODULE MCAssetManager --------------------------
(* Two keys, one of which needs the other. *)
EXTENDS AssetManager

Needs == [pipeline |-> <<"shader">>, shader |-> <<>>]
=============================================================================
