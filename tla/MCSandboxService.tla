-------------------------- MODULE MCSandboxService --------------------------
(***************************************************************************)
(* Values for the constants of SandboxService.                             *)
(***************************************************************************)
EXTENDS SandboxService, TLC

CONSTANTS o1, o2, none

OneOperator == {o1}
TwoOperators == {o1, o2}

\* The same fault injected milder and harder.
Mild == [allowed |-> 3, failsAt |-> 3]
Hard == [allowed |-> 2, failsAt |-> 1]
BothSpecs == {Mild, Hard}
MildSpec == {Mild}

CheckoutFaults == {"n_plus_one", "connection_leak", "disk_exhaustion"}
PaymentFaults == {"broken_config", "disk_exhaustion", "memory_leak"}

Interchangeable == Permutations(TwoOperators)
=============================================================================
