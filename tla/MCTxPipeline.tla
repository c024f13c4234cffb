---------------------------- MODULE MCTxPipeline ----------------------------
(***************************************************************************)
(* Instances of TxPipeline for TLC.                                        *)
(***************************************************************************)
EXTENDS TxPipeline, TLC

CONSTANTS only, w1, w2  \* model values

MCSymmetry == Permutations(Workers)
=============================================================================
