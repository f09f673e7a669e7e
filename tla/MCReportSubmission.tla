--------------------------- MODULE MCReportSubmission ---------------------------
(* Model checking of ReportSubmission.  The target is of u2.               *)
EXTENDS ReportSubmission, TLC

CONSTANTS u1, u2

MCOwnerOf == [t \in Targets |-> u2]

(* Two requests suffice to reach every limit: that of an account and of an  *)
(* address by reports of content, that of targets by issues.                *)
MCUserLimit == [k \in Kinds |-> IF k = "content" THEN 1 ELSE 2]

MCAddressLimit == MCUserLimit

MCTargetLimit == [k \in Kinds |-> 1]

MCCooldown == [t \in Targets |-> 2]

Symmetry == Permutations(Calls) \cup Permutations(Descriptions)
=================================================================================
