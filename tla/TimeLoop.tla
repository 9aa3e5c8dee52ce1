------------------------------- MODULE TimeLoop -------------------------------
(***************************************************************************)
(* One Code_Saturne instance, from its launch to its end: the time loop of *)
(* caltri.f90 with the services that decide when it stops and when it      *)
(* writes a checkpoint.                                                    *)
(*                                                                         *)
(*   cs_time_step.c  the current, previous and maximum step and time       *)
(*   cs_control.c    the control_file a user drops in the run directory    *)
(*   cs_resource.c   the stop before the batch allocation is exhausted     *)
(*   cs_restart.c    which steps are checkpointed                          *)
(*   ecrava, lecamp  the checkpoint files, and the restart from them       *)
(*                                                                         *)
(* The solver is one step that takes time and may ask for a stop.  Three   *)
(* actors interleave: the program, the user who writes control_file at any *)
(* moment, and the batch system that may kill the run and launch the next. *)
(***************************************************************************)
EXTENDS Integers, Sequences

CONSTANTS
  Files,         \* contents a user may give control_file: sequences of lines
  MaxFiles,      \* bound on the number of files placed during one run
  NtMaxChoices,  \* maximum time step numbers a run may be launched with
  Intervals,     \* checkpoint intervals [nt, t, wt] a run may be set up with
  TimeSteps,     \* values the time step may take
  Durations,     \* wall-clock times a computation or a write may take
  WtBound,       \* bound on the wall clock, which saturates there
  Inpdt0,        \* inpdt0 = 1: "zero time step" computation
  Italin,        \* italin = 1: an initialisation iteration for the ALE module
  TimeLimited,   \* the batch system reports a limit on the run's time
  SolverMayStop, \* the solver may ask for a stop (inverted cells, ...)
  RemoveMayFail, \* remove() may leave control_file in place (rights, file system)
  Iecaux,        \* iecaux = 1: the auxiliary file is written, and read at restart
  MaxRuns        \* bound on the number of launches

Keys == {"max_time_step", "time_step_limit", "max_time_value", "flush_logs",
         "control_file_wtime_interval", "checkpoint_time_step",
         "checkpoint_time_value", "checkpoint_wall_time",
         "checkpoint_time_step_interval", "checkpoint_time_value_interval",
         "checkpoint_wall_time_interval"}

\* A line of the file: ok when a number n can be read after the keyword.
Lines == [key : Keys, ok : BOOLEAN, n : Int]

ASSUME DataAssumption ==
  /\ Files \subseteq Seq(Lines)
  /\ Intervals \subseteq [nt : Int, t : Int, wt : Int]
  /\ TimeSteps \subseteq Nat \ {0}
  /\ Durations \subseteq Nat
ASSUME StepLimitAssumption == NtMaxChoices \subseteq Nat
ASSUME BoundAssumption == MaxFiles \in Nat /\ MaxRuns \in Nat /\ WtBound \in Nat
ASSUME OptionAssumption ==
  {Inpdt0, Italin, TimeLimited, SolverMayStop, RemoveMayFail, Iecaux} \subseteq BOOLEAN

VARIABLES
  pc,            \* the statement the program executes next
  itrale,        \* -1 before the loop, 0 in the ALE initialisation, else 1
  restart,       \* the checkpoint this run restarts from (present: is there one?)
  nt_prev, t_prev, nt_cur, t_cur, nt_max, t_max,      \* cs_time_step_t
  ck,            \* the _checkpoint_* statics of cs_restart.c
  ctl,           \* the statics of cs_control.c: check interval, last check, flush
  armed,         \* cs_resource.c knows of a limit (r_time_method > 0)
  wt,            \* wall clock since the launch (cs_timer_wtime)
  file,          \* control_file: its lines and a serial number (0: no file)
  nfiles,        \* number of files placed so far, the last serial number
  f_size,        \* size of control_file when it was last tested
  taken,         \* serial number of the last file read
  buf,           \* lines read and not yet parsed
  disk,          \* this run's checkpoint directory: main and auxiliary files
  nruns          \* number of launches

time_step == <<nt_prev, t_prev, nt_cur, t_cur, nt_max, t_max>>
control   == <<file, nfiles, f_size, taken, buf>>
batch     == <<restart, disk, nruns>>
vars == <<pc, itrale, time_step, ck, ctl, armed, wt, control, batch>>

Larger(a, b) == IF a >= b THEN a ELSE b
Least(a, b)  == IF a <= b THEN a ELSE b

Final  == {"end", "exited"}     \* the program returned, or called csexit(1)
NoFile == [id |-> 0, lines |-> <<>>]

\* State of a file of the checkpoint directory.
Absent == [nt |-> -1, t |-> 0]
Torn   == [nt |-> -2, t |-> 0]
Whole(f) == f.nt >= 0

\* The wall clock after something that took d.
Advance(d) == wt' = Least(wt + d, WtBound)

(***************************************************************************)
(* Launch.  Static variables have their initial values; the step limit and *)
(* the checkpoint intervals come from the user's setup (indsui, ntsuit).   *)
(***************************************************************************)
FreshCk(i) == [nt_int |-> i.nt, t_int |-> i.t, wt_int |-> i.wt,
               nt_next |-> -1, t_next |-> -1, wt_next |-> -1,
               t_last |-> 0, wt_last |-> 0]
FreshCtl == [interval |-> 0, last |-> -1, flush |-> -1]

Init ==
  /\ pc = "check" /\ itrale = -1
  /\ restart = [present |-> FALSE, nt |-> 0, t |-> 0, aux |-> 0]
  /\ nt_prev = 0 /\ t_prev = 0 /\ nt_cur = 0 /\ t_cur = 0
  /\ nt_max \in NtMaxChoices /\ t_max = -1
  /\ \E i \in Intervals : ck = FreshCk(i)
  /\ ctl = FreshCtl /\ armed = FALSE /\ wt = 0
  /\ file = NoFile /\ nfiles = 0 /\ f_size = 0 /\ taken = 0 /\ buf = <<>>
  /\ disk = [main |-> Absent, aux |-> Absent]
  /\ nruns = 1

\* A new run restarts from the checkpoint of the previous one when the files it reads
\* are there and whole, and otherwise from where the previous run started.
Launch ==
  /\ pc \in Final \cup {"killed"} /\ nruns < MaxRuns
  /\ pc' = "check" /\ itrale' = -1
  /\ restart' = IF Whole(disk.main) /\ (Iecaux => Whole(disk.aux))
                THEN [present |-> TRUE, nt |-> disk.main.nt, t |-> disk.main.t,
                      aux |-> disk.aux.nt]
                ELSE restart
  /\ nt_prev' = 0 /\ t_prev' = 0 /\ nt_cur' = 0 /\ t_cur' = 0
  /\ nt_max' \in NtMaxChoices /\ t_max' = -1
  /\ \E i \in Intervals : ck' = FreshCk(i)
  /\ ctl' = FreshCtl /\ armed' = FALSE /\ wt' = 0
  /\ file' = NoFile /\ nfiles' = 0 /\ f_size' = 0 /\ taken' = 0 /\ buf' = <<>>
  /\ disk' = [main |-> Absent, aux |-> Absent]
  /\ nruns' = nruns + 1

\* The batch system kills the run; the file being written, if any, may be torn.
Kill ==
  /\ pc \notin Final \cup {"killed"} /\ nruns < MaxRuns
  /\ pc' = "killed"
  /\ \/ disk' = disk
     \/ pc = "main" /\ disk' = [disk EXCEPT !.main = Torn]
     \/ pc = "aux" /\ Iecaux /\ disk' = [disk EXCEPT !.aux = Torn]
  /\ UNCHANGED <<itrale, time_step, ck, ctl, armed, wt, control, restart, nruns>>

(***************************************************************************)
(* The user: writes control_file, over the previous one if it is there,    *)
(* or takes it back.                                                       *)
(***************************************************************************)
PlaceFile ==
  /\ pc \notin Final \cup {"killed"} /\ nfiles < MaxFiles
  /\ nfiles' = nfiles + 1
  /\ \E f \in Files : file' = [id |-> nfiles + 1, lines |-> f]
  /\ UNCHANGED <<pc, itrale, time_step, ck, ctl, armed, wt, f_size, taken, buf,
                 batch>>

WithdrawFile ==
  /\ pc \notin Final \cup {"killed"} /\ file # NoFile
  /\ file' = NoFile
  /\ UNCHANGED <<pc, itrale, time_step, ck, ctl, armed, wt, nfiles, f_size, taken,
                 buf, batch>>

(***************************************************************************)
(* cs_control_check_file, called before the mesh is read and in each step. *)
(* Rank 0 tests the file, reads and removes it; all ranks parse the lines. *)
(***************************************************************************)
CheckDue == ctl.interval <= 0 \/ wt - ctl.last >= ctl.interval

CheckFile ==
  /\ pc = "check"
  /\ f_size' = IF CheckDue THEN Len(file.lines) ELSE 0
  /\ pc' = IF f_size' > 0 THEN "open" ELSE "flush"
  /\ UNCHANGED <<itrale, time_step, ck, ctl, armed, wt, file, nfiles, taken, buf,
                 batch>>

\* At most f_size bytes are read, whatever was added to the file since its test.
ReadFile ==
  /\ pc = "open" /\ file # NoFile
  /\ buf' = SubSeq(file.lines, 1, Least(f_size, Len(file.lines)))
  /\ taken' = file.id
  /\ ctl' = [ctl EXCEPT !.last = wt]
  /\ pc' = "remove"
  /\ UNCHANGED <<itrale, time_step, ck, armed, wt, file, nfiles, f_size, batch>>

\* The file went away since its test: fopen fails, the buffer is left as malloc
\* returned it and is parsed nevertheless.  It may hold anything, the lines of a
\* former file among others.
OpenFails ==
  /\ pc = "open" /\ file = NoFile
  /\ buf' \in Files \cup {<<>>}
  /\ ctl' = [ctl EXCEPT !.last = wt]
  /\ pc' = "parse"
  /\ UNCHANGED <<itrale, time_step, ck, armed, wt, file, nfiles, f_size, taken,
                 batch>>

\* The result of remove() is not tested: a file that stays is read at the next check.
RemoveFile ==
  /\ pc = "remove"
  /\ file' = NoFile \/ (RemoveMayFail /\ file' = file)
  /\ pc' = "parse"
  /\ UNCHANGED <<itrale, time_step, ck, ctl, armed, wt, nfiles, f_size, taken, buf,
                 batch>>

Parsing == pc = "parse" /\ buf # <<>>
Line == Head(buf)
NextLine == buf' = Tail(buf) /\ UNCHANGED <<pc, itrale, nt_prev, t_prev, nt_cur,
              t_cur, armed, wt, file, nfiles, f_size, taken, batch>>

\* Mutant: the limit in force is not taken into account.
RequestedMax_Any ==
  IF Line.key \in {"max_time_step", "time_step_limit"} /\ Line.ok THEN Larger(Line.n, 0) ELSE -1

\* The step limit a line asks for, -1 when it asks for none.
RequestedMax ==
  CASE Line.key = "max_time_step" /\ Line.ok -> Larger(Line.n, 0)
    [] Line.key = "time_step_limit" /\ Line.ok ->
         IF nt_max > -1 THEN Least(Line.n, nt_max) ELSE Line.n
    [] OTHER -> -1

\* Mutant: an unreadable number taken for a limit.
ParseStepLimit_Unread ==
  /\ Parsing /\ Line.key \in {"max_time_step", "time_step_limit"}
  /\ nt_max' = RequestedMax
  /\ NextLine /\ UNCHANGED <<t_max, ck, ctl>>

\* Mutant: a limit in the past kept as it is.
ParseStepLimit_Past ==
  /\ Parsing /\ Line.key \in {"max_time_step", "time_step_limit"}
  /\ nt_max' = IF RequestedMax > -1 THEN RequestedMax ELSE nt_max
  /\ NextLine /\ UNCHANGED <<t_max, ck, ctl>>

ParseStepLimit ==
  /\ Parsing /\ Line.key \in {"max_time_step", "time_step_limit"}
  /\ nt_max' = IF RequestedMax > -1 THEN Larger(RequestedMax, nt_cur) ELSE nt_max
  /\ NextLine /\ UNCHANGED <<t_max, ck, ctl>>

\* An unreadable value leaves the local t_max uninitialised.
ParseTimeLimit ==
  /\ Parsing /\ Line.key = "max_time_value"
  /\ IF Line.ok THEN t_max' = Larger(Line.n, t_cur) ELSE t_max' \in {-1, t_cur}
  /\ NextLine /\ UNCHANGED <<nt_max, ck, ctl>>

ParseCheckInterval ==
  /\ Parsing /\ Line.key = "control_file_wtime_interval"
  /\ ctl' = IF Line.ok THEN [ctl EXCEPT !.interval = Line.n] ELSE ctl
  /\ NextLine /\ UNCHANGED <<nt_max, t_max, ck>>

\* _control_checkpoint: the next forced checkpoint, or a new interval, which
\* replaces the three.
SetDefaults(nt, t, w) == [ck EXCEPT !.nt_int = nt, !.t_int = t, !.wt_int = w]

ParseCheckpoint ==
  /\ Parsing
  /\ \/ /\ Line.key = "checkpoint_time_step"
        /\ ck' = IF Line.ok THEN [ck EXCEPT !.nt_next = Line.n] ELSE ck
     \/ /\ Line.key = "checkpoint_time_value"
        /\ ck' = IF Line.ok THEN [ck EXCEPT !.t_next = Line.n] ELSE ck
     \/ /\ Line.key = "checkpoint_wall_time"
        /\ ck' = IF Line.ok THEN [ck EXCEPT !.wt_next = Line.n] ELSE ck
     \/ /\ Line.key = "checkpoint_time_step_interval"
        /\ ck' = IF Line.ok THEN SetDefaults(Line.n, -1, -1) ELSE ck
     \/ /\ Line.key = "checkpoint_time_value_interval"
        /\ ck' = IF Line.ok /\ Line.n > 0 THEN SetDefaults(-1, Line.n, -1) ELSE ck
     \/ /\ Line.key = "checkpoint_wall_time_interval"
        /\ ck' = IF Line.ok /\ Line.n > 0 THEN SetDefaults(-1, -1, Line.n) ELSE ck
  /\ NextLine /\ UNCHANGED <<nt_max, t_max, ctl>>

\* Mutant: a flush asked for in the past kept as it is.
ParseFlush_Past ==
  /\ Parsing /\ Line.key = "flush_logs"
  /\ ctl' = [ctl EXCEPT !.flush = IF ~Line.ok THEN nt_cur ELSE Line.n]
  /\ NextLine /\ UNCHANGED <<nt_max, t_max, ck>>

ParseFlush ==
  /\ Parsing /\ Line.key = "flush_logs"
  /\ ctl' = [ctl EXCEPT !.flush = IF ~Line.ok THEN nt_cur
                                  ELSE IF Line.n > -1 THEN Larger(Line.n, nt_cur)
                                  ELSE -1]
  /\ NextLine /\ UNCHANGED <<nt_max, t_max, ck>>

Parse == \/ ParseStepLimit \/ ParseTimeLimit \/ ParseCheckInterval
         \/ ParseCheckpoint \/ ParseFlush

EndParse ==
  /\ pc = "parse" /\ buf = <<>>
  /\ pc' = "flush"
  /\ UNCHANGED <<itrale, time_step, ck, ctl, armed, wt, control, batch>>

\* The logs are flushed when their step is the current one; back to the caller.
FlushLogs ==
  /\ pc = "flush"
  /\ ctl' = IF ctl.flush = nt_cur THEN [ctl EXCEPT !.flush = -1] ELSE ctl
  /\ pc' = IF itrale = -1 THEN "setup" ELSE "solve"
  /\ UNCHANGED <<itrale, time_step, ck, armed, wt, control, batch>>

(***************************************************************************)
(* Between the two calls: the restart files are read, the loop initialised.*)
(***************************************************************************)
\* lecamp refuses a checkpoint that is not before the last step asked for.
RestartTooLate == restart.present /\ ~Inpdt0 /\ restart.nt >= nt_max

RefuseRestart ==
  /\ pc = "setup" /\ RestartTooLate
  /\ nt_prev' = restart.nt /\ t_prev' = restart.t
  /\ pc' = "exited"
  /\ UNCHANGED <<itrale, nt_cur, t_cur, nt_max, t_max, ck, ctl, armed, wt,
                 control, batch>>

\* Mutant: the step counter not restored from the restart.
StartLoop_FromZero ==
  /\ pc = "setup" /\ ~RestartTooLate
  /\ nt_prev' = restart.nt /\ t_prev' = restart.t
  /\ nt_max' = IF Inpdt0 THEN restart.nt ELSE nt_max
  /\ itrale' = IF Italin THEN 0 ELSE 1
  /\ pc' = "top"
  /\ UNCHANGED <<nt_cur, t_cur, t_max, ck, ctl, armed, wt, control, batch>>

StartLoop ==
  /\ pc = "setup" /\ ~RestartTooLate
  /\ nt_prev' = restart.nt /\ t_prev' = restart.t
  /\ nt_cur' = restart.nt /\ t_cur' = restart.t
  /\ nt_max' = IF Inpdt0 THEN restart.nt ELSE nt_max
  /\ itrale' = IF Italin THEN 0 ELSE 1
  /\ pc' = IF ~Italin /\ ~Inpdt0 /\ nt_max = restart.nt THEN "exited" ELSE "top"
  /\ UNCHANGED <<t_max, ck, ctl, armed, wt, control, batch>>

(***************************************************************************)
(* One iteration of the loop.                                              *)
(***************************************************************************)
\* Mutant: the ALE test off by one.
BeginStep_OffByOne ==
  /\ pc = "top"
  /\ IF ~Inpdt0 /\ itrale > 1
     THEN nt_cur' = nt_cur + 1 /\ \E dt \in TimeSteps : t_cur' = t_cur + dt
     ELSE UNCHANGED <<nt_cur, t_cur>>
  /\ pc' = "check"
  /\ UNCHANGED <<itrale, nt_prev, t_prev, nt_max, t_max, ck, ctl, armed, wt, control,
                 batch>>

BeginStep ==
  /\ pc = "top"
  /\ IF ~Inpdt0 /\ itrale > 0
     THEN /\ nt_cur' = nt_cur + 1
          /\ \E dt \in TimeSteps : t_cur' = t_cur + dt
     ELSE UNCHANGED <<nt_cur, t_cur>>
  /\ pc' = "check"
  /\ UNCHANGED <<itrale, nt_prev, t_prev, nt_max, t_max, ck, ctl, armed, wt, control,
                 batch>>

\* tridim, lagune, alemav, the user operations; inverted cells end the run at
\* the current step, as the P-1 radiative model may do.
Solve ==
  /\ pc = "solve"
  /\ \E d \in Durations : Advance(d)
  /\ \/ UNCHANGED nt_max
     \/ SolverMayStop /\ nt_max' = nt_cur
  /\ pc' = "resource"
  /\ UNCHANGED <<itrale, nt_prev, t_prev, nt_cur, t_cur, t_max, ck, ctl, armed,
                 control, batch>>

\* armtps: the first call that finds a limit only starts the measure; a later one
\* ends the run when the time left may not cover another step.
LimitSteps ==
  /\ pc = "resource"
  /\ IF nt_cur = nt_max \/ ~TimeLimited
     THEN UNCHANGED <<armed, nt_max>>
     ELSE /\ armed' = TRUE
          /\ nt_max' \in IF armed THEN {nt_max, nt_cur} ELSE {nt_max}
  /\ pc' = "required"
  /\ UNCHANGED <<itrale, nt_prev, t_prev, nt_cur, t_cur, t_max, ck, ctl, wt, control,
                 batch>>

(***************************************************************************)
(* cs_restart_checkpoint_required                                          *)
(***************************************************************************)
NtDefault == Larger((nt_max - nt_prev) \div 4, 10)

\* Mutant: the limit compared with the steps of this run.
StepDue_Relative ==
  /\ ck.nt_int > -2
  /\ \/ nt_cur - nt_prev = nt_max
     \/ ck.nt_int = 0 /\ (nt_cur - nt_prev) % NtDefault = 0
     \/ ck.nt_int > 0 /\ (nt_cur - nt_prev) % ck.nt_int = 0

StepDue ==
  /\ ck.nt_int > -2
  /\ \/ nt_cur = nt_max
     \/ ck.nt_int = 0 /\ (nt_cur - nt_prev) % NtDefault = 0
     \/ ck.nt_int > 0 /\ (nt_cur - nt_prev) % ck.nt_int = 0

\* Mutant: strict comparison.
TimeDue_Strict == ck.t_int > 0 /\ ck.t_last + ck.t_int < t_cur - t_prev

TimeDue == ck.t_int > 0 /\ ck.t_last + ck.t_int <= t_cur - t_prev

NextStepDue == ck.nt_next >= 0 /\ ck.nt_next <= nt_cur
NextTimeDue == ck.t_next >= 0 /\ ck.t_next <= t_cur
NextWallDue == ck.wt_next >= 0 /\ wt >= ck.wt_next
WallDue     == ck.wt_int >= 0 /\ wt - ck.wt_last >= ck.wt_int

\* Mutant: the forced time forgotten.
Required_NoTime ==
  \/ StepDue \/ TimeDue
  \/ IF ck.wt_next >= 0 THEN NextWallDue ELSE NextStepDue \/ WallDue

\* The second part is an else-if chain: a pending wall-clock request hides the
\* forced step, the forced time and the wall-clock interval.
Required ==
  \/ StepDue
  \/ TimeDue
  \/ IF ck.wt_next >= 0 THEN NextWallDue
     ELSE NextStepDue \/ NextTimeDue \/ WallDue

TestCheckpoint ==
  /\ pc = "required"
  /\ pc' = IF Required /\ ~(nt_cur < nt_max /\ itrale = 0) THEN "main" ELSE "loop"
  /\ UNCHANGED <<itrale, time_step, ck, ctl, armed, wt, control, batch>>

\* ecrava writes the two files in place, one after the other.
Now == [nt |-> nt_cur, t |-> t_cur]

WriteMain ==
  /\ pc = "main"
  /\ disk' = [disk EXCEPT !.main = Now]
  /\ pc' = "aux"
  /\ UNCHANGED <<itrale, time_step, ck, ctl, armed, wt, control, restart, nruns>>

WriteAuxiliary ==
  /\ pc = "aux"
  /\ disk' = IF Iecaux THEN [disk EXCEPT !.aux = Now] ELSE disk
  /\ \E d \in Durations : Advance(d)
  /\ pc' = "done"
  /\ UNCHANGED <<itrale, time_step, ck, ctl, armed, control, restart, nruns>>

\* cs_restart_checkpoint_done: what was due is cleared, by the clock after the
\* write; the time of the last checkpoint is stored as it is, not from t_prev.
CheckpointDone ==
  /\ pc = "done"
  /\ ck' = [ck EXCEPT !.nt_next = IF NextStepDue THEN -1 ELSE @,
                      !.t_next  = IF NextTimeDue THEN -1 ELSE @,
                      !.wt_next = IF NextWallDue THEN -1 ELSE @,
                      !.t_last  = IF TimeDue THEN t_cur ELSE @,
                      !.wt_last = IF WallDue THEN wt ELSE @]
  /\ pc' = "loop"
  /\ UNCHANGED <<itrale, time_step, ctl, armed, wt, control, batch>>

EndStep ==
  /\ pc = "loop"
  /\ itrale' = 1
  /\ pc' = IF nt_cur < nt_max THEN "top" ELSE "end"
  /\ UNCHANGED <<time_step, ck, ctl, armed, wt, control, batch>>

-------------------------------------------------------------------------------
ControlFile == \/ CheckFile \/ ReadFile \/ OpenFails \/ RemoveFile
               \/ Parse \/ EndParse \/ FlushLogs
Iteration == \/ BeginStep \/ Solve \/ LimitSteps \/ TestCheckpoint
             \/ WriteMain \/ WriteAuxiliary \/ CheckpointDone \/ EndStep
Program == ControlFile \/ RefuseRestart \/ StartLoop \/ Iteration
User == PlaceFile \/ WithdrawFile

\* The last run is over.
Stopped == pc \in Final /\ nruns = MaxRuns /\ UNCHANGED vars

Next == Program \/ User \/ Kill \/ Launch \/ Stopped

Spec == Init /\ [][Next]_vars
\* The program runs when it can; nobody has to place a file or to kill a run.
FairSpec == Spec /\ WF_vars(Program)

-------------------------------------------------------------------------------
(***************************************************************************)
(* Properties.                                                             *)
(***************************************************************************)
Checkpoints == [nt : Int, t : Nat]
PC == Final \cup {"killed", "check", "open", "remove", "parse", "flush", "setup",
                  "top", "solve", "resource", "required", "main", "aux", "done",
                  "loop"}

CkType == [nt_int : Int, t_int : Int, wt_int : Int, nt_next : Int, t_next : Int,
           wt_next : Int, t_last : Nat, wt_last : Nat]
CtlType == [interval : Int, last : Int, flush : Int]
RestartType == [present : BOOLEAN, nt : Nat, t : Nat, aux : Int]

\* The time step never has a negative limit when the setup gives none that is.
TimeType == /\ nt_prev \in Nat /\ t_prev \in Nat /\ nt_cur \in Nat /\ t_cur \in Nat
            /\ nt_max \in Nat /\ t_max \in Int
FileType == /\ file \in [id : Nat, lines : Seq(Lines)] /\ buf \in Seq(Lines)
            /\ nfiles \in Nat /\ f_size \in Nat /\ taken \in Nat
DiskType == /\ restart \in RestartType /\ nruns \in Nat
            /\ disk \in [main : Checkpoints, aux : Checkpoints]

\* Every variable has its type.
TypeOK ==
  /\ pc \in PC /\ itrale \in {-1, 0, 1} /\ armed \in BOOLEAN /\ wt \in 0 .. WtBound
  /\ ck \in CkType /\ ctl \in CtlType
  /\ TimeType /\ FileType /\ DiskType

\* A run that ends by itself leaves a complete checkpoint of its last step, its files
\* of the same step, whatever ended it: the limit of the setup, one lowered by
\* control_file, the batch limit or the solver.  (saturne1.tex: "the results and
\* restart files will be written correctly"; an interval of -2 turns it off.)
FinalCheckpoint ==
  pc = "end" /\ ck.nt_int > -2 => disk.main = Now /\ (Iecaux => disk.aux = Now)

\* The step never passes the limit, although every actor may lower the limit
\* while a step is computed.
WithinLimit == nt_cur <= nt_max

\* When a step ends, a checkpoint forced at its number or its time is not waiting any
\* more, unless a wall-clock request is, whose time has not come: it is tested in place
\* of them.  One that is due is written together with the others.
ForcedServed ==
  pc = "loop" /\ itrale > 0 /\ (NextStepDue \/ NextTimeDue) => wt < ck.wt_next

\* In a run from time 0, with a time interval set, no step ends a whole interval or
\* more after the last checkpoint.
LastSaved == IF disk.main = Absent THEN t_prev ELSE disk.main.t
SpacedInFreshRun ==
  pc = "loop" /\ itrale > 0 /\ ck.t_int > 0 /\ t_prev = 0
    => t_cur - LastSaved < ck.t_int

\* The same in any run, restarted ones included.
SpacedInAnyRun ==
  pc = "loop" /\ itrale > 0 /\ ck.t_int > 0 => t_cur - LastSaved < ck.t_int

\* A flush of the logs asked for at a step is done when that step is computed: it
\* never stays behind, except one that is asked for before a restart file sets the
\* step counter, for a step that the restart has already passed.
FlushNotMissed ==
  pc = "solve" /\ ctl.flush > -1 => ctl.flush > nt_cur \/ ctl.flush <= nt_prev

\* time_step_limit allows reducing the number of steps, never increasing it, whatever
\* step it comes at.
LimitNeverExtends ==
  [][Parsing /\ Line.key = "time_step_limit" => nt_max' <= nt_max]_vars

\* Whichever files a kill leaves, no whole one is older than what its run was restarted
\* from; and they are of two steps only if the kill came between the two writes, the
\* main one being the newer.  This does not say that no saved step is computed again: a
\* checkpoint that a kill tears is lost with the one it overwrites.
ProgressKept ==
  /\ \A f \in {disk.main, disk.aux} :
       Whole(f) => f.nt >= restart.nt /\ f.t >= restart.t
  /\ Whole(disk.main) /\ Whole(disk.aux) /\ disk.main # disk.aux =>
       pc \in {"aux", "killed"} /\ disk.aux.nt <= disk.main.nt

\* In a chain of runs, killed or not, each one restarts from the step and the time of
\* the one before it, or from later ones: those of the main file, and its auxiliary file,
\* which may be of an earlier step, is not older either.
RestartsForward ==
  [][restart'.nt >= restart.nt /\ restart'.t >= restart.t
     /\ (Iecaux => restart' = restart \/ restart'.aux \in restart.nt .. restart'.nt)]_vars

\* Every run that is not killed ends: the limit is reached however it was moved.
Terminates == pc = "check" ~> pc \in Final \cup {"killed"}
===============================================================================
