-------------------------- MODULE MCDriverLifecycle --------------------------
(* Two tasks; multi_globalmem with two devices. *)
EXTENDS DriverLifecycle

CONSTANTS t1, t2, m1, m2

TwoMinors == <<m1, m2>>
=============================================================================
