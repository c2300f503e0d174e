---------------------------- MODULE MCJobProtocol ----------------------------
(* JobProtocol for TLC: two interchangeable hosts. *)
EXTENDS JobProtocol, TLC

HostSymmetry == Permutations(Hosts)

\* A daemon fails or a report is late, not both in one behaviour.
OneTrouble == faults + lates <= 1
=============================================================================
