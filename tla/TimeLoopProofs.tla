---------------------------- MODULE TimeLoopProofs ----------------------------
(***************************************************************************)
(* Proofs about TimeLoop, for every set of control files, of intervals and *)
(* of clocks, and any number of runs, kills and restarts.                  *)
(***************************************************************************)
EXTENDS TimeLoop, TLAPS

(***************************************************************************)
(* Types.                                                                  *)
(***************************************************************************)

\* The two comparison helpers return one of their arguments, and bound them.
LEMMA LargerLeast ==
  ASSUME NEW a \in Int, NEW b \in Int
  PROVE  /\ Larger(a, b) \in {a, b} /\ Larger(a, b) >= a /\ Larger(a, b) >= b
         /\ Least(a, b) \in {a, b} /\ Least(a, b) <= a /\ Least(a, b) <= b
BY DEF Larger, Least

\* The wall clock stays within its bound.
LEMMA AdvanceType ==
  ASSUME wt \in 0 .. WtBound, NEW d \in Durations, Advance(d)
  PROVE  wt' \in 0 .. WtBound
BY DataAssumption, BoundAssumption DEF Advance, Least

\* What a line of control_file asks for is an integer.
LEMMA RequestType ==
  ASSUME TypeOK, Parsing
  PROVE  Line \in Lines /\ Tail(buf) \in Seq(Lines) /\ RequestedMax \in Int
<1>1. buf \in Seq(Lines) /\ buf # <<>> /\ nt_max \in Int
  BY DEF TypeOK, FileType, TimeType, Parsing
<1>2. Head(buf) \in Lines /\ Tail(buf) \in Seq(Lines)
  BY <1>1
<1>3. Line \in Lines
  BY <1>2 DEF Line
<1>4. Line.n \in Int
  BY <1>3 DEF Lines
<1>5. RequestedMax \in Int
  BY <1>1, <1>4 DEF RequestedMax, Larger, Least
<1> QED
  BY <1>2, <1>3, <1>5

\* The values of a launch, the first or a later one, have their types.
LEMMA FreshType ==
  /\ \A i \in Intervals : FreshCk(i) \in CkType
  /\ FreshCtl \in CtlType
  /\ NoFile \in [id : Nat, lines : Seq(Lines)] /\ <<>> \in Seq(Lines)
  /\ {Absent, Torn} \subseteq Checkpoints
  /\ \A n \in NtMaxChoices : n \in Nat
  /\ 0 \in 0 .. WtBound
<1>1. \A i \in Intervals : FreshCk(i) \in CkType
  <2> TAKE i \in Intervals
  <2>1. i \in [nt : Int, t : Int, wt : Int]
    BY DataAssumption
  <2> QED
    BY <2>1 DEF FreshCk, CkType
<1>2. FreshCtl \in CtlType
  BY DEF FreshCtl, CtlType
<1>3. <<>> \in Seq(Lines)
  OBVIOUS
<1>4. NoFile \in [id : Nat, lines : Seq(Lines)]
  BY <1>3 DEF NoFile
<1>5. {Absent, Torn} \subseteq Checkpoints
  BY DEF Absent, Torn, Checkpoints
<1>6. \A n \in NtMaxChoices : n \in Nat
  BY StepLimitAssumption
<1>7. 0 \in 0 .. WtBound
  BY BoundAssumption
<1> QED
  BY <1>1, <1>2, <1>3, <1>4, <1>5, <1>6, <1>7

LEMMA InitType == Init => TypeOK
<1> SUFFICES ASSUME Init PROVE TypeOK
  OBVIOUS
<1> USE FreshType DEF Init
<1>1. pc \in PC /\ itrale \in {-1, 0, 1} /\ armed \in BOOLEAN /\ wt \in 0 .. WtBound
  BY DEF PC
<1>2. ck \in CkType /\ ctl \in CtlType
  OBVIOUS
<1>3. TimeType
  BY DEF TimeType
<1>4. FileType
  BY DEF FileType
<1>5. DiskType
  BY DEF DiskType, RestartType
<1> QED
  BY <1>1, <1>2, <1>3, <1>4, <1>5 DEF TypeOK

\* A parsed line leaves every type as it was.
LEMMA ParseType ==
  ASSUME TypeOK, Parse
  PROVE  TypeOK'
<1>1. Parsing /\ NextLine
  BY DEF Parse, ParseStepLimit, ParseTimeLimit, ParseCheckInterval, ParseCheckpoint,
         ParseFlush
<1>2. Line \in Lines /\ Tail(buf) \in Seq(Lines) /\ RequestedMax \in Int
  BY <1>1, RequestType
<1>3. Line.n \in Int
  BY <1>2 DEF Lines
<1>4. nt_cur \in Nat /\ t_cur \in Nat /\ nt_max \in Nat /\ t_max \in Int
  BY DEF TypeOK, TimeType
<1>5. ck \in CkType /\ ctl \in CtlType
  BY DEF TypeOK
<1>6. nt_max' \in Nat
  BY <1>2, <1>4 DEF Parse, ParseStepLimit, ParseTimeLimit, ParseCheckInterval,
                    ParseCheckpoint, ParseFlush, Larger
<1>7. t_max' \in Int
  BY <1>3, <1>4 DEF Parse, ParseStepLimit, ParseTimeLimit, ParseCheckInterval,
                    ParseCheckpoint, ParseFlush, Larger
<1>8. ctl' \in CtlType
  BY <1>3, <1>4, <1>5 DEF Parse, ParseStepLimit, ParseTimeLimit, ParseCheckInterval,
                    ParseCheckpoint, ParseFlush, Larger, CtlType
<1>9. ck' \in CkType
  <2>1. CASE ParseCheckpoint
    <3>1. \A n \in Int : /\ [ck EXCEPT !.nt_next = n] \in CkType
                         /\ [ck EXCEPT !.t_next = n] \in CkType
                         /\ [ck EXCEPT !.wt_next = n] \in CkType
      BY <1>5 DEF CkType
    <3>2. \A a, b, c \in Int : SetDefaults(a, b, c) \in CkType
      BY <1>5 DEF SetDefaults, CkType
    <3>3. /\ SetDefaults(Line.n, -1, -1) \in CkType
          /\ SetDefaults(-1, Line.n, -1) \in CkType
          /\ SetDefaults(-1, -1, Line.n) \in CkType
      BY <1>3, <3>2
    <3>4. \/ ck' = ck
          \/ ck' = [ck EXCEPT !.nt_next = Line.n]
          \/ ck' = [ck EXCEPT !.t_next = Line.n]
          \/ ck' = [ck EXCEPT !.wt_next = Line.n]
          \/ ck' = SetDefaults(Line.n, -1, -1)
          \/ ck' = SetDefaults(-1, Line.n, -1)
          \/ ck' = SetDefaults(-1, -1, Line.n)
      BY <2>1, Zenon DEF ParseCheckpoint
    <3> QED
      BY <1>3, <1>5, <3>1, <3>3, <3>4
  <2> QED
    BY <1>5, <2>1 DEF Parse, ParseStepLimit, ParseTimeLimit, ParseCheckInterval,
                      ParseFlush
<1>10. TimeType'
  BY <1>1, <1>6, <1>7 DEF TypeOK, TimeType, NextLine
<1>11. FileType'
  BY <1>1, <1>2 DEF TypeOK, FileType, NextLine
<1>12. DiskType'
  BY <1>1 DEF TypeOK, DiskType, NextLine, batch
<1> QED
  BY <1>1, <1>8, <1>9, <1>10, <1>11, <1>12 DEF TypeOK, NextLine

\* Each step of the control file check, the lines apart.
LEMMA ControlType ==
  ASSUME TypeOK, CheckFile \/ ReadFile \/ OpenFails \/ RemoveFile \/ EndParse
                 \/ FlushLogs
  PROVE  TypeOK'
<1> USE DEF time_step, batch, control
<1>1. pc' \in PC
  BY DEF CheckFile, ReadFile, OpenFails, RemoveFile, EndParse, FlushLogs, PC
<1>2. ctl' \in CtlType
  BY DEF CheckFile, ReadFile, OpenFails, RemoveFile, EndParse, FlushLogs, TypeOK,
         CtlType
<1>3. TimeType' /\ DiskType'
  BY DEF CheckFile, ReadFile, OpenFails, RemoveFile, EndParse, FlushLogs, TypeOK,
         TimeType, DiskType
<1>4. f_size' \in Nat /\ taken' \in Nat /\ nfiles' \in Nat
  BY DEF CheckFile, ReadFile, OpenFails, RemoveFile, EndParse, FlushLogs, TypeOK,
         FileType
<1>5. file' \in [id : Nat, lines : Seq(Lines)]
  BY FreshType DEF CheckFile, ReadFile, OpenFails, RemoveFile, EndParse, FlushLogs,
         TypeOK, FileType
<1>6. buf' \in Seq(Lines)
  <2>1. CASE ReadFile
    <3>1. file.lines \in Seq(Lines) /\ f_size \in Nat
      BY DEF TypeOK, FileType
    <3>2. Least(f_size, Len(file.lines)) \in 0 .. Len(file.lines)
      BY <3>1 DEF Least
    <3>3. SubSeq(file.lines, 1, Least(f_size, Len(file.lines))) \in Seq(Lines)
      BY <3>1, <3>2
    <3> QED
      BY <2>1, <3>3 DEF ReadFile
  <2>2. CASE OpenFails
    BY <2>2, FreshType, DataAssumption DEF OpenFails
  <2> QED
    BY <2>1, <2>2 DEF CheckFile, RemoveFile, EndParse, FlushLogs, TypeOK, FileType
<1> QED
  BY <1>1, <1>2, <1>3, <1>4, <1>5, <1>6
     DEF TypeOK, FileType, CheckFile, ReadFile, OpenFails, RemoveFile, EndParse,
         FlushLogs

\* What is cleared after a checkpoint keeps its type.
LEMMA DoneType ==
  ASSUME TypeOK, CheckpointDone
  PROVE  ck' \in CkType
<1>1. ck \in CkType /\ t_cur \in Nat /\ wt \in Nat
  BY BoundAssumption DEF TypeOK, TimeType
<1>2. \A a, b, c \in Int : \A d, e \in Nat :
        [ck EXCEPT !.nt_next = a, !.t_next = b, !.wt_next = c, !.t_last = d,
                   !.wt_last = e] \in CkType
  BY <1>1 DEF CkType
<1>3. /\ ck.nt_next \in Int /\ ck.t_next \in Int /\ ck.wt_next \in Int
      /\ ck.t_last \in Nat /\ ck.wt_last \in Nat
  BY <1>1 DEF CkType
<1> DEFINE a == IF NextStepDue THEN -1 ELSE ck.nt_next
           b == IF NextTimeDue THEN -1 ELSE ck.t_next
           c == IF NextWallDue THEN -1 ELSE ck.wt_next
           d == IF TimeDue THEN t_cur ELSE ck.t_last
           e == IF WallDue THEN wt ELSE ck.wt_last
<1>4. a \in Int /\ b \in Int /\ c \in Int /\ d \in Nat /\ e \in Nat
  BY <1>1, <1>3
<1>5. ck' = [ck EXCEPT !.nt_next = a, !.t_next = b, !.wt_next = c, !.t_last = d,
                       !.wt_last = e]
  BY DEF CheckpointDone
<1> HIDE DEF a, b, c, d, e
<1> QED
  BY <1>2, <1>4, <1>5

\* The setup and the iteration of the loop.
LEMMA LoopType ==
  ASSUME TypeOK, RefuseRestart \/ StartLoop \/ Iteration
  PROVE  TypeOK'
<1> USE DEF time_step, batch, control
<1> DEFINE Actions == RefuseRestart \/ StartLoop \/ BeginStep \/ Solve \/ LimitSteps
              \/ TestCheckpoint \/ WriteMain \/ WriteAuxiliary \/ CheckpointDone \/ EndStep
<1>0. Actions
  BY DEF Iteration
<1> USE <1>0 DEF RefuseRestart, StartLoop, BeginStep, Solve, LimitSteps, TestCheckpoint,
        WriteMain, WriteAuxiliary, CheckpointDone, EndStep
<1>1. pc' \in PC
  BY DEF PC, Final
<1>2. itrale' \in {-1, 0, 1} /\ armed' \in BOOLEAN /\ ctl' \in CtlType
  BY DEF TypeOK
<1>3. wt' \in 0 .. WtBound
  BY AdvanceType DEF TypeOK
<1>4. restart.nt \in Nat /\ restart.t \in Nat
  BY DEF TypeOK, DiskType, RestartType
<1>5. \A dt \in TimeSteps : dt \in Nat
  BY DataAssumption
<1>6. TimeType'
  BY <1>4, <1>5 DEF TypeOK, TimeType
<1>7. FileType'
  BY DEF TypeOK, FileType
<1>8. DiskType'
  BY DEF TypeOK, TimeType, DiskType, Now, Checkpoints
<1>9. ck' \in CkType
  BY DoneType DEF TypeOK
<1> QED
  BY <1>1, <1>2, <1>3, <1>6, <1>7, <1>8, <1>9 DEF TypeOK

\* The user and the batch system.
LEMMA OutsideType ==
  ASSUME TypeOK, User \/ Kill \/ Launch
  PROVE  TypeOK'
<1> USE DEF time_step, batch, control
<1>1. CASE PlaceFile
  <2>1. file' \in [id : Nat, lines : Seq(Lines)] /\ nfiles' \in Nat
    BY <1>1, DataAssumption DEF PlaceFile, TypeOK, FileType
  <2> QED
    BY <1>1, <2>1 DEF PlaceFile, TypeOK, TimeType, FileType, DiskType
<1>2. CASE WithdrawFile
  BY <1>2, FreshType DEF WithdrawFile, TypeOK, TimeType, FileType, DiskType
<1>3. CASE Kill
  <2>1. disk' \in [main : Checkpoints, aux : Checkpoints]
    BY <1>3, FreshType DEF Kill, TypeOK, DiskType
  <2> QED
    BY <1>3, <2>1 DEF Kill, TypeOK, TimeType, FileType, DiskType, PC
<1>4. CASE Launch
  <2>1. restart' \in RestartType
    BY <1>4 DEF Launch, Whole, Checkpoints, TypeOK, DiskType, RestartType
  <2>2. DiskType'
    BY <1>4, <2>1, FreshType DEF Launch, TypeOK, DiskType
  <2>3. TimeType' /\ FileType'
    BY <1>4, FreshType DEF Launch, TimeType, FileType
  <2>4. ck' \in CkType /\ ctl' \in CtlType /\ wt' \in 0 .. WtBound
    BY <1>4, FreshType DEF Launch
  <2> QED
    BY <1>4, <2>2, <2>3, <2>4 DEF Launch, TypeOK, PC
<1> QED
  BY <1>1, <1>2, <1>3, <1>4 DEF User

LEMMA StepType ==
  ASSUME TypeOK, [Next]_vars
  PROVE  TypeOK'
<1>1. CASE UNCHANGED vars
  BY <1>1 DEF vars, time_step, batch, control, TypeOK, TimeType, FileType, DiskType
<1> QED
  BY <1>1, ParseType, ControlType, LoopType, OutsideType
     DEF Next, Program, ControlFile, Stopped

\* Type correctness, for every value of the constants.
THEOREM TypeCorrect == Spec => []TypeOK
<1>1. TypeOK /\ [Next]_vars => TypeOK'
  BY StepType
<1> QED
  BY InitType, <1>1, PTL DEF Spec

(***************************************************************************)
(* The step limit and the last checkpoint.  FinalCheckpoint is inductive   *)
(* once it is known that a step starts below the limit, and which files    *)
(* have been written at each point between the test and the end.           *)
(***************************************************************************)

\* Without a restart there is nothing to start from; a step may start.
StepAllowed ==
  /\ ~restart.present => restart.nt = 0 /\ restart.t = 0
  /\ itrale = -1 => nt_cur = 0 /\ t_cur = 0 /\ nt_prev \in {0, restart.nt}
  /\ pc = "top" /\ itrale > 0 /\ ~Inpdt0 => nt_cur < nt_max

\* What is on disk while a checkpoint is written, and after the last one.
Written ==
  /\ pc = "aux" => disk.main = Now
  /\ pc = "done" => disk.main = Now /\ (Iecaux => disk.aux = Now)
  /\ pc = "loop" /\ nt_cur = nt_max /\ ck.nt_int > -2
       => disk.main = Now /\ (Iecaux => disk.aux = Now)

LimitInv == TypeOK /\ WithinLimit /\ StepAllowed /\ Written /\ FinalCheckpoint

LEMMA LimitInit == Init => LimitInv
BY InitType DEF Init, LimitInv, WithinLimit, StepAllowed, Written, FinalCheckpoint,
                TypeOK, TimeType

LEMMA LimitStep == LimitInv /\ [Next]_vars => LimitInv'
<1> SUFFICES ASSUME LimitInv, [Next]_vars PROVE LimitInv'
  OBVIOUS
<1>1. TypeOK /\ TypeOK'
  BY StepType DEF LimitInv
<1>2. /\ nt_cur \in Nat /\ nt_max \in Nat /\ t_cur \in Nat /\ itrale \in {-1, 0, 1}
      /\ restart.nt \in Nat /\ restart.t \in Nat /\ restart.present \in BOOLEAN
      /\ ck.nt_int \in Int
      /\ nt_cur' \in Nat /\ nt_max' \in Nat
  BY <1>1 DEF TypeOK, TimeType, DiskType, RestartType, CkType
<1> USE <1>2 DEF time_step, control, batch, Final
<1>3. CASE Parse
  <2>1. Parsing /\ NextLine
    BY <1>3 DEF Parse, ParseStepLimit, ParseTimeLimit, ParseCheckInterval,
                ParseCheckpoint, ParseFlush
  <2>2. RequestedMax \in Int
    BY <1>1, <2>1, RequestType
  <2>3. nt_cur <= nt_max'
    BY <1>3, <2>2 DEF Parse, ParseStepLimit, ParseTimeLimit, ParseCheckInterval,
                ParseCheckpoint, ParseFlush, LimitInv, WithinLimit, Larger
  <2> QED
    BY <1>1, <2>1, <2>3 DEF Parsing, NextLine, LimitInv, WithinLimit, StepAllowed,
                       Written, FinalCheckpoint
<1>4. CASE CheckFile \/ ReadFile \/ OpenFails \/ RemoveFile \/ EndParse \/ FlushLogs
  BY <1>1, <1>4 DEF CheckFile, ReadFile, OpenFails, RemoveFile, EndParse, FlushLogs,
       LimitInv, WithinLimit, StepAllowed, Written, FinalCheckpoint
<1>5. CASE RefuseRestart
  BY <1>1, <1>5 DEF RefuseRestart, RestartTooLate, LimitInv, WithinLimit, StepAllowed,
       Written, FinalCheckpoint
<1>6. CASE StartLoop
  BY <1>1, <1>6 DEF StartLoop, RestartTooLate, LimitInv, WithinLimit, StepAllowed,
       Written, FinalCheckpoint
<1>7. CASE BeginStep
  BY <1>1, <1>7 DEF BeginStep, LimitInv, WithinLimit, StepAllowed, Written,
       FinalCheckpoint
<1>8. CASE Solve \/ LimitSteps
  BY <1>1, <1>8 DEF Solve, LimitSteps, LimitInv, WithinLimit, StepAllowed, Written,
       FinalCheckpoint
<1>9. CASE TestCheckpoint
  <2>1. nt_cur = nt_max /\ ck.nt_int > -2 => pc' = "main"
    BY <1>9 DEF TestCheckpoint, Required, StepDue
  <2> QED
    BY <1>1, <1>9, <2>1 DEF TestCheckpoint, LimitInv, WithinLimit, StepAllowed,
         Written, FinalCheckpoint, Now
<1>10. CASE WriteMain \/ WriteAuxiliary
  <2>1. disk \in [main : Checkpoints, aux : Checkpoints]
    BY <1>1 DEF TypeOK, DiskType
  <2>2. WriteMain => disk'.main = Now
    BY <2>1 DEF WriteMain
  <2>3. WriteAuxiliary => disk'.main = disk.main /\ (Iecaux => disk'.aux = Now)
    BY <2>1 DEF WriteAuxiliary
  <2> QED
    BY <1>1, <1>10, <2>2, <2>3 DEF WriteMain, WriteAuxiliary, LimitInv, WithinLimit,
         StepAllowed, Written, FinalCheckpoint, Now
<1>11. CASE CheckpointDone
  BY <1>1, <1>11 DEF CheckpointDone, LimitInv, WithinLimit, StepAllowed, Written,
       FinalCheckpoint, Now
<1>12. CASE EndStep
  BY <1>1, <1>12 DEF EndStep, LimitInv, WithinLimit, StepAllowed, Written,
       FinalCheckpoint, Now
<1>13. CASE PlaceFile \/ WithdrawFile
  BY <1>1, <1>13 DEF PlaceFile, WithdrawFile, LimitInv, WithinLimit, StepAllowed,
       Written, FinalCheckpoint, Now
<1>14. CASE Kill
  BY <1>1, <1>14 DEF Kill, LimitInv, WithinLimit, StepAllowed, Written, FinalCheckpoint
<1>15. CASE Launch
  BY <1>1, <1>15 DEF Launch, LimitInv, WithinLimit, StepAllowed, Written,
       FinalCheckpoint
<1>16. CASE UNCHANGED vars
  BY <1>1, <1>16 DEF vars, LimitInv, WithinLimit, StepAllowed, Written,
       FinalCheckpoint, Now
<1> QED
  BY <1>3, <1>4, <1>5, <1>6, <1>7, <1>8, <1>9, <1>10, <1>11, <1>12, <1>13, <1>14,
     <1>15, <1>16 DEF Next, Program, ControlFile, Iteration, User, Stopped

LEMMA LimitInvariant == Spec => []LimitInv
BY LimitInit, LimitStep, PTL DEF Spec

\* The current step never passes the limit, whoever lowers it and when.
THEOREM LimitRespected == Spec => []WithinLimit
<1>1. LimitInv => WithinLimit
  BY DEF LimitInv
<1> QED
  BY <1>1, LimitInvariant, PTL

\* A run that ends by itself leaves a complete checkpoint of its last step.
THEOREM LastStepSaved == Spec => []FinalCheckpoint
<1>1. LimitInv => FinalCheckpoint
  BY DEF LimitInv
<1> QED
  BY <1>1, LimitInvariant, PTL

\* time_step_limit never extends a run.
THEOREM LimitOnlyReduces == Spec => LimitNeverExtends
<1>1. LimitInv /\ [Next]_vars
        => [Parsing /\ Line.key = "time_step_limit" => nt_max' <= nt_max]_vars
  <2> SUFFICES ASSUME LimitInv, Next, Parsing, Line.key = "time_step_limit"
               PROVE  nt_max' <= nt_max
    BY DEF vars, time_step, LimitInv, TypeOK, TimeType
  <2>1. nt_cur \in Nat /\ nt_max \in Nat /\ nt_cur <= nt_max
    BY DEF LimitInv, TypeOK, TimeType, WithinLimit
  <2>2. Line \in Lines /\ RequestedMax \in Int
    BY RequestType DEF LimitInv
  <2>3. CASE ParseStepLimit
    <3>1. RequestedMax <= nt_max
      BY <2>1, <2>2 DEF RequestedMax, Least, Lines
    <3> QED
      BY <2>1, <2>2, <2>3, <3>1 DEF ParseStepLimit, Larger
  <2>4. CASE nt_max' = nt_max
    BY <2>1, <2>4
  <2> QED
    BY <2>3, <2>4
       DEF Next, Program, ControlFile, Iteration, User, Stopped, Parse, Parsing,
           ParseTimeLimit, ParseCheckInterval, ParseCheckpoint, ParseFlush, CheckFile,
           ReadFile, OpenFails, RemoveFile, EndParse, FlushLogs, RefuseRestart,
           StartLoop, BeginStep, Solve, LimitSteps, TestCheckpoint, WriteMain,
           WriteAuxiliary, CheckpointDone, EndStep, PlaceFile, WithdrawFile, Kill,
           Launch, vars, time_step, Final
<1> QED
  BY <1>1, LimitInvariant, PTL DEF Spec, LimitNeverExtends

(***************************************************************************)
(* Requests and checkpoints.  The invariants below need no more than the   *)
(* types, where the program is before, within and after the loop, and what *)
(* the last restart and the last files of the user were.                   *)
(***************************************************************************)
InLoop == {"top", "solve", "resource", "required", "main", "aux", "done", "loop"}

\* The setup comes before the loop, which itrale tells from the call of
\* cs_control_check_file that precedes it.
Phases == /\ pc = "setup" => itrale = -1
          /\ pc \in InLoop => itrale # -1

\* The loop starts from the restart and never goes back; what it saves, it has computed.
FromRestart ==
  /\ itrale # -1 => nt_cur >= restart.nt /\ t_cur >= restart.t
  /\ \A f \in {disk.main, disk.aux} : Whole(f) => itrale # -1 /\ f.nt <= nt_cur
  /\ Whole(disk.aux) => Iecaux

\* A flush that waits is for this step at the earliest, and once the logs were
\* tested for a later one, unless the restart had passed it.
FlushAhead ==
  ctl.flush > -1 =>
    /\ itrale # -1 => ctl.flush >= nt_cur \/ ctl.flush <= nt_prev
    /\ pc \in InLoop => ctl.flush > nt_cur \/ ctl.flush <= nt_prev

\* The last checkpoint due to its time is not after the last one of all.
LastDue ==
  /\ ck.t_last <= t_cur
  /\ itrale = -1 => ck.t_last = 0
  /\ pc # "killed" => IF disk.main = Absent THEN ck.t_last = 0
                                            ELSE ck.t_last <= disk.main.t

RequestInv ==
  /\ LimitInv /\ Phases /\ FromRestart /\ ProgressKept /\ ForcedServed
  /\ FlushAhead /\ LastDue /\ SpacedInFreshRun

LEMMA RequestInit == Init => RequestInv
<1> SUFFICES ASSUME Init PROVE RequestInv
  OBVIOUS
<1>1. PICK i \in Intervals : ck = FreshCk(i)
  BY DEF Init
<1>2. ck.t_last = 0
  BY <1>1 DEF FreshCk
<1>3. ctl.flush = -1
  BY DEF Init, FreshCtl
<1> QED
  BY <1>2, <1>3, LimitInit
     DEF Init, RequestInv, Phases, InLoop, FromRestart, ProgressKept, ForcedServed,
         FlushAhead, LastDue, SpacedInFreshRun, NoFile, Absent, Whole

\* The types that the steps below need.
LEMMA RequestTypes ==
  ASSUME TypeOK
  PROVE  /\ nt_cur \in Nat /\ nt_max \in Nat /\ t_cur \in Nat /\ nt_prev \in Nat
         /\ t_prev \in Nat /\ itrale \in {-1, 0, 1}
         /\ restart.nt \in Nat /\ restart.t \in Nat
         /\ ck.nt_next \in Int /\ ck.t_next \in Int /\ ck.wt_next \in Int
         /\ ck.t_int \in Int /\ ck.t_last \in Nat
         /\ ctl \in CtlType /\ ctl.flush \in Int
         /\ disk \in [main : Checkpoints, aux : Checkpoints]
         /\ wt \in Nat
BY BoundAssumption DEF TypeOK, TimeType, DiskType, RestartType, CkType, CtlType

\* A parsed line moves no counter of the run, asks for no flush in the past, and
\* leaves the time of the last checkpoint alone.
LEMMA ParseEffect ==
  ASSUME TypeOK, Parse
  PROVE  /\ pc = "parse" /\ ck'.t_last = ck.t_last
         /\ ctl'.flush = ctl.flush \/ ctl'.flush >= nt_cur \/ ctl'.flush = -1
         /\ UNCHANGED <<pc, itrale, nt_prev, t_prev, nt_cur, t_cur, file, nfiles,
                        taken, restart, disk>>
<1>1. Parsing /\ NextLine
  BY DEF Parse, ParseStepLimit, ParseTimeLimit, ParseCheckInterval, ParseCheckpoint,
         ParseFlush
<1>2. Line \in Lines /\ ck \in CkType /\ ctl \in CtlType /\ nt_cur \in Nat
  BY <1>1, RequestType DEF TypeOK, TimeType
<1>3. ck'.t_last = ck.t_last
  BY <1>2 DEF Parse, ParseStepLimit, ParseTimeLimit, ParseCheckInterval,
              ParseCheckpoint, ParseFlush, SetDefaults, CkType
<1>4. ctl'.flush = ctl.flush \/ ctl'.flush >= nt_cur \/ ctl'.flush = -1
  BY <1>2 DEF Parse, ParseStepLimit, ParseTimeLimit, ParseCheckInterval,
              ParseCheckpoint, ParseFlush, CtlType, Larger, Lines
<1> QED
  BY <1>1, <1>3, <1>4 DEF Parsing, NextLine, batch

LEMMA RequestStep == RequestInv /\ [Next]_vars => RequestInv'
<1> SUFFICES ASSUME RequestInv, [Next]_vars PROVE RequestInv'
  OBVIOUS
<1>1. LimitInv /\ LimitInv' /\ TypeOK /\ TypeOK'
  BY LimitStep DEF RequestInv, LimitInv
<1>2. ASSUME Phases', FromRestart', ProgressKept', ForcedServed', FlushAhead', LastDue',
             SpacedInFreshRun'
      PROVE  RequestInv'
  BY <1>1, <1>2 DEF RequestInv
<1> USE <1>1, RequestTypes DEF time_step, control, batch, Final, InLoop
<1>3. CASE Parse
  <2> USE <1>3, ParseEffect
  <2>1. Phases' /\ FromRestart' /\ ProgressKept' /\ ForcedServed' /\ SpacedInFreshRun'
    BY DEF RequestInv, Phases, FromRestart, ProgressKept, ForcedServed,
           SpacedInFreshRun, Whole
  <2>2. FlushAhead' /\ LastDue'
    BY DEF RequestInv, FlushAhead, LastDue
  <2> QED
    BY <1>2, <2>1, <2>2
<1>4. CASE CheckFile \/ ReadFile \/ OpenFails \/ RemoveFile \/ EndParse
  <2> USE <1>4 DEF CheckFile, ReadFile, OpenFails, RemoveFile, EndParse, CtlType
  <2>1. Phases' /\ FromRestart' /\ ProgressKept' /\ ForcedServed' /\ SpacedInFreshRun'
    BY DEF RequestInv, Phases, FromRestart, ProgressKept, ForcedServed,
           SpacedInFreshRun, Whole
  <2>2. FlushAhead' /\ LastDue'
    BY DEF RequestInv, FlushAhead, LastDue
  <2> QED
    BY <1>2, <2>1, <2>2
<1>5. CASE FlushLogs
  <2> USE <1>5 DEF FlushLogs
  <2>1. Phases' /\ FromRestart' /\ ProgressKept' /\ ForcedServed' /\ SpacedInFreshRun'
    BY DEF RequestInv, Phases, FromRestart, ProgressKept, ForcedServed,
           SpacedInFreshRun, Whole
  <2>2. FlushAhead'
    BY DEF RequestInv, FlushAhead, CtlType
  <2>3. LastDue'
    BY DEF RequestInv, LastDue
  <2> QED
    BY <1>2, <2>1, <2>2, <2>3
<1>6. CASE RefuseRestart \/ StartLoop
  <2> USE <1>6 DEF RefuseRestart, StartLoop
  <2>1. Phases' /\ FromRestart' /\ ProgressKept' /\ ForcedServed' /\ SpacedInFreshRun'
    BY DEF RequestInv, Phases, FromRestart, ProgressKept, ForcedServed,
           SpacedInFreshRun, Whole
  <2>2. FlushAhead' /\ LastDue'
    BY DEF RequestInv, Phases, FlushAhead, LastDue
  <2> QED
    BY <1>2, <2>1, <2>2
<1>7. CASE BeginStep
  <2>0. \A dt \in TimeSteps : dt \in Nat
    BY DataAssumption
  <2>1. nt_cur' \in {nt_cur, nt_cur + 1} /\ t_cur' >= t_cur /\ t_cur' \in Nat
    BY <1>7, <2>0 DEF BeginStep
  <2> USE <1>7, <2>1 DEF BeginStep
  <2>2. Phases' /\ ProgressKept' /\ ForcedServed' /\ SpacedInFreshRun'
    BY DEF RequestInv, Phases, ProgressKept, ForcedServed, SpacedInFreshRun, Whole
  <2>3. FromRestart'
    <3>1. itrale' = itrale /\ itrale # -1 /\ disk' = disk /\ restart' = restart
          /\ nt_cur' >= nt_cur /\ nt_cur' \in Nat
      BY DEF RequestInv, Phases
    <3>2. \A f \in {disk.main, disk.aux} : Whole(f) => f.nt \in Int /\ f.nt <= nt_cur
      BY DEF RequestInv, FromRestart, Checkpoints
    <3>3. \A f \in {disk.main, disk.aux} : Whole(f) => f.nt <= nt_cur'
      BY <3>1, <3>2
    <3> QED
      BY <3>1, <3>3 DEF RequestInv, FromRestart, Whole
  <2>4. FlushAhead' /\ LastDue'
    BY DEF RequestInv, FlushAhead, LastDue
  <2> QED
    BY <1>2, <2>2, <2>3, <2>4
<1>8. CASE Solve \/ LimitSteps
  <2> USE <1>8 DEF Solve, LimitSteps
  <2>1. Phases' /\ FromRestart' /\ ProgressKept' /\ ForcedServed' /\ SpacedInFreshRun'
    BY DEF RequestInv, Phases, FromRestart, ProgressKept, ForcedServed,
           SpacedInFreshRun, Whole
  <2>2. FlushAhead' /\ LastDue'
    BY DEF RequestInv, FlushAhead, LastDue
  <2> QED
    BY <1>2, <2>1, <2>2
<1>9. CASE TestCheckpoint
  <2> USE <1>9 DEF TestCheckpoint
  <2>1. Phases' /\ FromRestart' /\ ProgressKept' /\ FlushAhead' /\ LastDue'
    BY DEF RequestInv, Phases, FromRestart, ProgressKept, Whole, FlushAhead, LastDue
  <2>2. pc' = "loop" /\ itrale > 0 => ~Required
    OBVIOUS
  <2>3. ForcedServed'
    BY <2>2 DEF ForcedServed, Required, NextStepDue, NextTimeDue, NextWallDue
  <2>4. SpacedInFreshRun'
    BY <2>2 DEF RequestInv, LastDue, SpacedInFreshRun, LastSaved, Required, TimeDue,
                Checkpoints
  <2> QED
    BY <1>2, <2>1, <2>3, <2>4
<1>10. CASE WriteMain \/ WriteAuxiliary
  <2> USE <1>10 DEF WriteMain, WriteAuxiliary
  <2>1. Now.nt = nt_cur /\ Now.t = t_cur /\ Now # Absent
    BY DEF Now, Absent
  <2>2. Phases' /\ FlushAhead' /\ ForcedServed' /\ SpacedInFreshRun'
    BY DEF RequestInv, Phases, FlushAhead, ForcedServed, SpacedInFreshRun
  <2>3. FromRestart' /\ ProgressKept'
    <3>1. CASE WriteMain
      BY <2>1, <3>1 DEF RequestInv, Phases, FromRestart, ProgressKept, Whole
    <3>2. CASE WriteAuxiliary
      <4>1. disk.main = Now
        BY <3>2 DEF LimitInv, Written
      <4> QED
        BY <2>1, <3>2, <4>1 DEF RequestInv, Phases, FromRestart, ProgressKept, Whole
    <3> QED
      BY <3>1, <3>2
  <2>4. LastDue'
    BY <2>1 DEF RequestInv, LastDue
  <2> QED
    BY <1>2, <2>2, <2>3, <2>4
<1>11. CASE CheckpointDone
  <2>1. /\ disk.main = Now /\ Now.t = t_cur /\ Now # Absent
    BY <1>11 DEF LimitInv, Written, CheckpointDone, Now, Absent
  <2>2. /\ ck'.nt_next = IF NextStepDue THEN -1 ELSE ck.nt_next
        /\ ck'.t_next = IF NextTimeDue THEN -1 ELSE ck.t_next
        /\ ck'.t_last = IF TimeDue THEN t_cur ELSE ck.t_last
        /\ ck'.t_int = ck.t_int
    BY <1>11 DEF CheckpointDone, TypeOK, CkType
  <2>3. /\ pc = "done" /\ pc' = "loop"
        /\ UNCHANGED <<itrale, nt_prev, t_prev, nt_cur, t_cur, ctl, file, nfiles, taken,
                       restart, disk>>
    BY <1>11 DEF CheckpointDone
  <2>4. Phases' /\ FromRestart' /\ ProgressKept' /\ FlushAhead'
    BY <2>3 DEF RequestInv, Phases, FromRestart, ProgressKept, Whole, FlushAhead
  <2>5. ForcedServed'
    BY <2>2, <2>3 DEF ForcedServed, NextStepDue, NextTimeDue
  <2>6. LastDue' /\ SpacedInFreshRun'
    BY <2>1, <2>2, <2>3 DEF RequestInv, Phases, LastDue, SpacedInFreshRun, LastSaved
  <2> QED
    BY <1>2, <2>4, <2>5, <2>6
<1>12. CASE EndStep
  <2> USE <1>12 DEF EndStep
  <2>1. Phases' /\ FromRestart' /\ ProgressKept' /\ ForcedServed' /\ SpacedInFreshRun'
    BY DEF RequestInv, Phases, FromRestart, ProgressKept, ForcedServed,
           SpacedInFreshRun, Whole
  <2>2. FlushAhead' /\ LastDue'
    BY DEF RequestInv, FlushAhead, LastDue
  <2> QED
    BY <1>2, <2>1, <2>2
<1>13. CASE PlaceFile \/ WithdrawFile
  <2> USE <1>13 DEF PlaceFile, WithdrawFile
  <2>1. Phases' /\ FromRestart' /\ ProgressKept' /\ FlushAhead' /\ LastDue'
    BY DEF RequestInv, Phases, FromRestart, ProgressKept, Whole, FlushAhead, LastDue
  <2>2. ForcedServed' /\ SpacedInFreshRun'
    BY DEF RequestInv, ForcedServed, NextStepDue, NextTimeDue, SpacedInFreshRun,
           LastSaved
  <2> QED
    BY <1>2, <2>1, <2>2
<1>14. CASE Kill
  <2> USE <1>14 DEF Kill
  <2>1. Phases' /\ FromRestart' /\ ForcedServed' /\ SpacedInFreshRun' /\ FlushAhead'
        /\ LastDue'
    BY DEF RequestInv, Phases, FromRestart, ForcedServed, SpacedInFreshRun, FlushAhead,
           LastDue, Whole, Torn
  <2>2. ProgressKept'
    BY DEF RequestInv, ProgressKept, Whole, Torn
  <2> QED
    BY <1>2, <2>1, <2>2
<1>15. CASE Launch
  <2>1. PICK i \in Intervals : ck' = FreshCk(i)
    BY <1>15 DEF Launch
  <2>2. ck'.t_last = 0
    BY <2>1 DEF FreshCk
  <2>3. ctl'.flush = -1
    BY <1>15 DEF Launch, FreshCtl
  <2> QED
    BY <1>2, <1>15, <2>2, <2>3
       DEF Launch, Phases, FromRestart, ProgressKept, ForcedServed, FlushAhead,
           LastDue, SpacedInFreshRun, NoFile, Whole, Absent
<1>16. CASE UNCHANGED vars
  <2> USE <1>16 DEF vars
  <2>1. Phases' /\ FromRestart' /\ ProgressKept' /\ FlushAhead' /\ LastDue'
    BY DEF RequestInv, Phases, FromRestart, ProgressKept, Whole, FlushAhead, LastDue
  <2>2. ForcedServed' /\ SpacedInFreshRun'
    BY DEF RequestInv, ForcedServed, NextStepDue, NextTimeDue, SpacedInFreshRun,
           LastSaved
  <2> QED
    BY <1>2, <2>1, <2>2
<1> QED
  BY <1>3, <1>4, <1>5, <1>6, <1>7, <1>8, <1>9, <1>10, <1>11, <1>12, <1>13, <1>14,
     <1>15, <1>16 DEF Next, Program, ControlFile, Iteration, User, Stopped

LEMMA RequestInvariant == Spec => []RequestInv
BY RequestInit, RequestStep, PTL DEF Spec

\* A step that ends with a checkpoint forced at its number or its time still waiting has
\* a wall-clock request for a later moment, which cs_restart_checkpoint_required tests in
\* its place; without such a request every forced checkpoint is written when it is due.
THEOREM RequestsServed == Spec => []ForcedServed
<1>1. RequestInv => ForcedServed
  BY DEF RequestInv
<1> QED
  BY <1>1, RequestInvariant, PTL

\* In a run from time 0 the time interval between checkpoints is respected.
THEOREM IntervalRespected == Spec => []SpacedInFreshRun
<1>1. RequestInv => SpacedInFreshRun
  BY DEF RequestInv
<1> QED
  BY <1>1, RequestInvariant, PTL

\* In a chain of runs, killed anywhere and restarted any number of times, no whole file
\* is older than what its run started from, so that each run starts from the step and
\* the time of the one before it or from later ones.  A run may start from files of two
\* steps: the auxiliary one is then the older, and not older than the former start.
THEOREM NeverBack == Spec => []ProgressKept /\ RestartsForward
<1>1. RequestInv => ProgressKept
  BY DEF RequestInv
<1> DEFINE Forward == /\ restart'.nt >= restart.nt /\ restart'.t >= restart.t
                      /\ Iecaux => \/ restart' = restart
                                   \/ restart'.aux \in restart.nt .. restart'.nt
<1>2. RequestInv /\ [Next]_vars => [Forward]_vars
  <2> SUFFICES ASSUME RequestInv, Next
               PROVE  Forward
    BY DEF vars
  <2>1. restart \in RestartType /\ disk \in [main : Checkpoints, aux : Checkpoints]
    BY DEF RequestInv, LimitInv, TypeOK, DiskType
  <2>2. CASE Launch
    <3>1. CASE restart' = restart
      BY <2>1, <3>1 DEF RestartType
    <3>2. CASE /\ Whole(disk.main) /\ (Iecaux => Whole(disk.aux))
               /\ restart'.nt = disk.main.nt /\ restart'.t = disk.main.t
               /\ restart'.aux = disk.aux.nt
      <4>1. /\ disk.main.nt >= restart.nt /\ disk.main.t >= restart.t
            /\ Iecaux => disk.aux.nt >= restart.nt /\ disk.aux.nt <= disk.main.nt
        BY <2>1, <3>2 DEF RequestInv, ProgressKept, Checkpoints
      <4> QED
        BY <2>1, <3>2, <4>1 DEF RestartType, Checkpoints
    <3> QED
      BY <2>2, <3>1, <3>2 DEF Launch
  <2>3. CASE UNCHANGED restart
    BY <2>1, <2>3 DEF RestartType
  <2> QED
    BY <2>2, <2>3
       DEF Next, Program, ControlFile, Iteration, User, Stopped, Parse, NextLine, batch,
           ParseStepLimit, ParseTimeLimit, ParseCheckInterval, ParseCheckpoint,
           ParseFlush, CheckFile, ReadFile, OpenFails, RemoveFile, EndParse, FlushLogs,
           RefuseRestart, StartLoop, BeginStep, Solve, LimitSteps, TestCheckpoint,
           WriteMain, WriteAuxiliary, CheckpointDone, EndStep, PlaceFile, WithdrawFile,
           Kill, vars
<1> QED
  BY <1>1, <1>2, RequestInvariant, PTL DEF Spec, RestartsForward

\* A flush asked for at a step is done when that step is computed.
THEOREM FlushDone == Spec => []FlushNotMissed
<1>1. RequestInv => FlushNotMissed
  BY DEF RequestInv, FlushAhead, InLoop, FlushNotMissed
<1> QED
  BY <1>1, RequestInvariant, PTL
===============================================================================
