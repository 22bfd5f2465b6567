---------------------------- MODULE MCLifecycle ----------------------------
(* Instances of RecorderLifecycle for TLC.                                 *)
EXTENDS RecorderLifecycle

CONSTANTS w1, w2, t1

NoThread   == {}
OneWaiter  == {w1}
TwoWaiters == {w1, w2}
OneToggler == {t1}
=============================================================================
