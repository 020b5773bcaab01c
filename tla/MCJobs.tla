------------------------------- MODULE MCJobs -------------------------------
(***************************************************************************)
(* Jobs for TLC: two technicians, two transactions at a time.              *)
(***************************************************************************)
EXTENDS Jobs, TLC

JobsSymmetry == Permutations(Technicians) \cup Permutations(Txs)
=============================================================================
