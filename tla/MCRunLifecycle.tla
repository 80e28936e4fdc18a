--------------------------- MODULE MCRunLifecycle ---------------------------
(* Instances of RunLifecycle for TLC.                                      *)
EXTENDS RunLifecycle

CONSTANT r1

(* An evaluation whose activities are retried, one whose workflow is       *)
(* started again, a supervision that is started again, and stages of one   *)
(* transaction either way.                                                 *)
MCPlans == [k \in JobKinds |->
  CASE k = "agent"       -> {<<2>>, <<1, 1>>}
    [] k = "supervision" -> {<<1, 1>>}
    [] OTHER             -> {<<2>>, <<1, 1>>}]
=============================================================================
