---------------------------- MODULE MCReceivables ----------------------------
(***************************************************************************)
(* Receivables for TLC: two transactions at a time.                        *)
(***************************************************************************)
EXTENDS Receivables, TLC

TxSymmetry == Permutations(Txs)
=============================================================================
