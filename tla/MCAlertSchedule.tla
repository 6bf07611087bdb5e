--------------------------- MODULE MCAlertSchedule ---------------------------
(* A small instance of AlertSchedule: matches in the last slot of the day, *)
(* just after midnight and in the last slot of the second day.             *)
EXTENDS AlertSchedule

MCKickoffs == {3, 4, 7}
=============================================================================
