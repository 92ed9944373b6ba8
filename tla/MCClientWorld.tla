---------------------------- MODULE MCClientWorld ----------------------------
EXTENDS ClientWorld

MCWall == <<[min |-> <<-6, 5>>, max |-> <<6, 7>>]>>
MCLevelTile == <<<<1, -1>>>>
MCTilePos == {<<1, -1>>, <<0, 0>>, <<1, 1>>}
MCSpot == {<<0, 0>>, <<0, -4>>}
MCDelta == {<<4, 4>>, <<-4, 0>>}
MCWindow == [min |-> <<0, -4>>, max |-> <<4, 4>>]
Sym == Permutations(Player)
=============================================================================
