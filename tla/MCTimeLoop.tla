------------------------------ MODULE MCTimeLoop ------------------------------
(* Instances of TimeLoop for TLC: the contents of control_file, the           *)
(* checkpoint intervals and the clocks are small sets.                        *)
EXTENDS TimeLoop

L(k, v) == [key |-> k, ok |-> TRUE, n |-> v]
Unread(k) == [key |-> k, ok |-> FALSE, n |-> 0]

\* Stop requests, one of which cannot be read; checkpoints forced at a step or at a
\* time, or at the wall clock; new intervals; the throttle of the file check.
RunFiles ==
  {<<L("max_time_step", 0)>>,
   <<Unread("max_time_step"), L("time_step_limit", 5)>>,
   <<L("checkpoint_time_step", 2), L("checkpoint_time_value", 1)>>,
   <<L("checkpoint_time_value_interval", 2)>>,
   <<L("checkpoint_wall_time", 3), L("checkpoint_time_step", 1)>>,
   <<L("checkpoint_wall_time_interval", 3), L("checkpoint_time_step_interval", -2)>>,
   <<L("control_file_wtime_interval", 2), L("flush_logs", 2)>>,
   <<Unread("flush_logs"), Unread("max_time_value"), L("flush_logs", -1)>>}

SpacingFile == {<<L("checkpoint_time_value_interval", 2)>>}

\* Checkpoint intervals of the setup: at the end only, every other step.
Every(n) == [nt |-> n, t |-> -1, wt |-> -1]
AtEnd    == {Every(-1)}
Varied   == {Every(-1), Every(2)}
===============================================================================
