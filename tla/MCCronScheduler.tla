---------------------------- MODULE MCCronScheduler ----------------------------
(* A small instance of CronScheduler for TLC. *)
EXTENDS CronScheduler

\* One task alone in the first minute, two in the second.
MCSchedule == {<<1, 0>>, <<1, 1>>, <<2, 1>>}

\* Two at once.
Together == {<<1, 0>>, <<2, 0>>}
=============================================================================
