-------------------------- MODULE MCCheckSupervisor --------------------------
(* Instances of CheckSupervisor for TLC. *)
EXTENDS CheckSupervisor, TLC
CONSTANTS s1, s2, s3, r1, r2, c1, c2

Two   == {s1, s2}
Three == {s1, s2, s3}
\* Supervisors are interchangeable: safety only.
Symmetric == Permutations(Supervisors)
NoFaults  == {}
AllFaults == {"preserved", "replaced"}
=============================================================================
