------------------------------ MODULE MCSchedule ------------------------------
(* A rule that an edit turns from an interval into Cron and back.          *)
EXTENDS Schedule

AVersion == {"every", "cron"}
OneCron == {"cron"}
===============================================================================
