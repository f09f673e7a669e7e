-------------------------- MODULE MCPasswordRecovery --------------------------
(* Model checking of PasswordRecovery.                                     *)
EXTENDS PasswordRecovery, TLC

MCLimit == [a \in Actions |-> IF a = "forgot" THEN 1 ELSE 2]

Symmetry == Permutations(Calls)
===============================================================================
