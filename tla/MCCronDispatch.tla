--------------------------- MODULE MCCronDispatch ---------------------------
(***************************************************************************)
(* Instances of CronDispatch for TLC: a job of a module that may be gone,  *)
(* and the mail dispatcher, both due at every tick of the clock.           *)
(***************************************************************************)
EXTENDS CronDispatch

CONSTANTS mailer, report, m1, m2, worker, admin

MCJobList == <<report, mailer>>
MCRemovable == {report}
MCSwitched == {mailer}
MCDelta == mailer :> 1 @@ report :> 1
MCMessages == {m1, m2}
MCWorkers == {worker}
MCAdmins == {admin}
=============================================================================
