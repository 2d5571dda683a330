-------------------------- MODULE MCTransactionLog --------------------------
(* TransactionLog on its own: any transactions, any number of restarts.    *)
EXTENDS TransactionLog

MCSymmetry == Permutations(Txns)
=============================================================================
