---------------------- MODULE MCBackgroundSchedulePool ----------------------
(* BackgroundSchedulePool for TLC: two tasks, a thread and one more to add. *)
EXTENDS BackgroundSchedulePool
=============================================================================
