--------------------------- MODULE MCPaymentSaga ---------------------------
(* Instances of PaymentSaga for TLC. *)
EXTENDS PaymentSaga, TLC

CONSTANTS t1, t2, w1, w2

OneTx == {t1}
OneWorker == {w1}
TwoWorkers == {w1, w2}
WorkerSymmetry == Permutations({w1, w2})
=============================================================================
