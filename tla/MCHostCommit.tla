---------------------------- MODULE MCHostCommit ----------------------------
(* Host ids are interchangeable.                                           *)
EXTENDS HostCommit, TLC
Ids == Permutations(Host)
=============================================================================
