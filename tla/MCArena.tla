------------------------------- MODULE MCArena ------------------------------
(* Two values, three slots, each freed at most twice out of three          *)
(* generations.                                                            *)
EXTENDS Arena
CONSTANTS v1, v2
MCValue == {v1, v2}
=============================================================================
