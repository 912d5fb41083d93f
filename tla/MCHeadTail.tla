----------------------------- MODULE MCHeadTail -----------------------------
(* Four places to move the cursor to.                                            *)
EXTENDS HeadTail

MCPoints == {<<3, 1>>, <<1, 3>>, <<1, 1>>, <<0, 0>>}
MCStarts == {<<0, 0>>}
MCCorners == {<<2, 0>>}
MCTargets == {<<<<1, 1>>, <<3, 1>>>>}
MCPads == {<<0, 0>>, <<2, 1>>}
MCHull == {<<1, 2>>}
=============================================================================
