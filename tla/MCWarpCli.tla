------------------------------ MODULE MCWarpCli ------------------------------
(* Processes, inodes and valid configurations may each be exchanged for one   *)
(* another; the invalid configuration may not.                                *)
EXTENDS WarpCli, TLC

CliSymmetry ==
  Permutations(Procs) \union Permutations(Inodes) \union Permutations(Valid)
=============================================================================
