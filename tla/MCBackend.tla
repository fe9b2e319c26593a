------------------------------- MODULE MCBackend -------------------------------
(***************************************************************************)
(* Instances for Backend: the updates of a delegation that TLC tries, with *)
(* the requests to the payments service.                                   *)
(***************************************************************************)
EXTENDS Backend, MCPayments

Body(status, expiresAt, merchants, maxTotal) ==
    [f \in Field |-> CASE f = "status" -> status [] f = "expiresAt" -> expiresAt
                       [] f = "merchants" -> merchants [] f = "maxTotal" -> maxTotal]

MCBodies ==
    {Body(Absent, "e1", "m1", "t1"), Body("paused", Absent, Absent, Absent),
     Body("active", "e1", Absent, Absent), Body(Absent, Absent, "m1", "t2"),
     Body("paused", "e2", "m2", Absent)}
================================================================================
