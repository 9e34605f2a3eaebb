---------------------------- MODULE MCStatistics ----------------------------
(* A clock of 16 with an interval of 3 publishes several times before it     *)
(* wraps; an iteration lasts up to two ticks, and two may begin in one tick. *)
EXTENDS Statistics
=============================================================================
