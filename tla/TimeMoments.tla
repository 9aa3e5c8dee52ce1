------------------------------ MODULE TimeMoments ------------------------------
(***************************************************************************)
(* The temporal means and variances of cs_time_moment.c, over a chain of   *)
(* runs: each run defines its moments, which it may find in the checkpoint *)
(* it restarts from, updates them in each time step and writes those that  *)
(* have started with its checkpoints.                                      *)
(*                                                                         *)
(* Moments share weight accumulators, and a variance updates its mean.     *)
(* Values are those of one element, as exact fractions; times are counted  *)
(* in ticks, Unit of them to a second.  The time step is uniform in space. *)
(* Ids are those of the code plus one, 0 standing for -1.                  *)
(***************************************************************************)
EXTENDS Integers, Sequences, SequencesExt, FiniteSets, FiniteSetsExt

CONSTANTS
  Setups,          \* chains of runs: for each launch, the moments it defines, in order
  Data,            \* Data[s][n]: the value of source s (data_func) in step n
  UserWeight,      \* UserWeight[n]: the value of the weight function (w_data_func)
  TimeSteps,       \* values of the time step, in ticks
  Unit,            \* ticks in a unit of time
  CheckpointSteps, \* steps that may be checkpointed
  MaxStep          \* bound on the number of steps

Types == {"mean", "variance"}
\* What a call of cs_time_moment_define_by_func gives; from: name in the previous run.
Definitions == [name : STRING, src : Nat, weighted : BOOLEAN, type : Types, nt_start : Int,
                t_start : Int, mode : {"reset", "auto", "exact"}, from : STRING]

ASSUME SetupAssumption == Setups \subseteq Seq(Seq(Definitions))
ASSUME StartAssumption ==   \* cs_time_moment_define_by_func refuses others
  \A s \in Setups : \A r \in DOMAIN s : \A k \in DOMAIN s[r] :
    s[r][k].nt_start >= 0 \/ s[r][k].t_start >= 0

VARIABLES
  setup,       \* the chain, constant
  run,         \* number of launches
  phase,       \* where the run is
  defined,     \* number of moments defined
  nt_cur, t_cur,
  t_prev_iter, \* _t_prev_iter: time of the last update
  wa,          \* _moment_wa: the weight accumulators
  moment,      \* _moment
  disk,        \* the last checkpoint; nt = 0: there is none
  times,       \* times[n]: the time at the end of step n (history)
  origin       \* the step after which each moment of this run is to count (history)

history == <<setup, run, times, origin>>
vars == <<history, phase, defined, nt_cur, t_cur, t_prev_iter, wa, moment, disk>>

\* Fractions.
gcd[a \in Nat, b \in Nat] == IF b = 0 THEN a ELSE gcd[b, a % b]
NaN == <<0, 0>>
Frac(n, d) == LET g == gcd[IF n < 0 THEN -n ELSE n, d]
              IN IF d = 0 THEN NaN ELSE <<n \div g, d \div g>>
Zero == <<0, 1>>
Plus(p, q)  == Frac(p[1] * q[2] + q[1] * p[2], p[2] * q[2])
Minus(p, q) == Frac(p[1] * q[2] - q[1] * p[2], p[2] * q[2])
Times(p, q) == Frac(p[1] * q[1], p[2] * q[2])

NoCheckpoint == [nt |-> 0, t |-> 0, wa |-> <<>>, moments |-> <<>>, names |-> <<>>,
                 sections |-> <<>>, defs |-> <<>>, origin |-> <<>>]

\* The definitions of this run, and what it restarts from (_restart_info).
Defs == setup[run]
Restarted == disk.moments # <<>>

Init ==
  /\ setup \in Setups /\ run = 1 /\ phase = "define" /\ defined = 0
  /\ nt_cur = 0 /\ t_cur = 0 /\ t_prev_iter = 0
  /\ wa = <<>> /\ moment = <<>> /\ disk = NoCheckpoint /\ times = <<>>
  /\ origin = [k \in DOMAIN setup[1] |-> 0]

-------------------------------------------------------------------------------
(***************************************************************************)
(* cs_time_moment_define_by_func.                                          *)
(***************************************************************************)

\* No data of the restart are needed.  The starting time is compared with the number of
\* the restart step, and not with its time.
NotOlder(d) == \/ d.nt_start > -1 /\ d.nt_start >= disk.nt
               \/ d.t_start > -1 /\ d.t_start >= disk.nt * Unit

\* The moment of the restart with the given name, and whether it is of the same kind.
Named(d) == Min({k \in DOMAIN disk.names : disk.names[k] = d.from} \cup {Len(disk.names) + 1})
SameKind(d, k) == /\ disk.wa[disk.moments[k].wa_id].weighted = d.weighted
                  /\ disk.moments[k].type = d.type
SameStart(d, k) == LET w == disk.wa[disk.moments[k].wa_id]
                   IN w.nt_start = d.nt_start /\ w.t_start = d.t_start
Matches(d) == LET k == Named(d)
              IN /\ k <= Len(disk.names) /\ SameKind(d, k)
                 /\ d.mode = "exact" => SameStart(d, k)

\* _check_restart: where the moment continues from, and where it starts.
AsAsked(d)  == [prev |-> 0, nt_start |-> d.nt_start, t_start |-> d.t_start]
Reset       == [prev |-> 0, nt_start |-> disk.nt + 1, t_start |-> (disk.t \div Unit) * Unit]
Continue(k) == [prev |-> k, nt_start |-> disk.wa[disk.moments[k].wa_id].nt_start,
                t_start |-> disk.wa[disk.moments[k].wa_id].t_start]
Checked(d) == IF ~Restarted \/ NotOlder(d) THEN AsAsked(d)
              ELSE IF d.mode = "reset" \/ ~Matches(d) THEN Reset ELSE Continue(Named(d))

\* An exact restart that does not match, or a mean that is not of its variance.
Inconsistent(k) == disk.moments[k].type = "variance" /\
  LET l == disk.moments[k].l_id
  IN disk.moments[l].wa_id # disk.moments[k].wa_id \/ disk.moments[l].type # "mean"
Refused(d) == /\ Restarted /\ ~NotOlder(d) /\ d.mode # "reset"
              /\ IF Matches(d) THEN Inconsistent(Named(d)) ELSE d.mode = "exact"

\* The id of the first element of s that is one of the set, or that of a new one.
FirstOrNew(s, E) == Min({i \in DOMAIN s : s[i] \in E} \cup {Len(s) + 1})
AddIfNew(s, i, e) == IF i > Len(s) THEN Append(s, e) ELSE s

\* _find_or_add_wa: a start given by its step has no time yet.
Accumulator(d) ==
  LET c == Checked(d)
  IN [restart_id |-> IF c.prev > 0 THEN disk.moments[c.prev].wa_id ELSE 0,
      nt_start |-> IF c.nt_start < 0 THEN -1 ELSE c.nt_start,
      t_start |-> IF c.nt_start >= 0 THEN -1 ELSE c.t_start,
      weighted |-> d.weighted,
      val |-> IF c.prev > 0 /\ ~d.weighted THEN disk.wa[disk.moments[c.prev].wa_id].val
              ELSE 0]
WaId(a) == FirstOrNew(wa, {b \in ToSet(wa) : [b EXCEPT !.val = 0] = [a EXCEPT !.val = 0]})

\* _find_or_add_moment: the same data, kind, accumulator and past.
Moment(type, src, w, prev) ==
  [type |-> type, restart_id |-> prev, wa_id |-> w, src |-> src, name |-> "", l_id |-> 0,
   val |-> Zero, nt_cur |-> -1]
\* Mutant: whatever the accumulator.
MomentId_AnyWa(s, m) ==
  FirstOrNew(s, {b \in ToSet(s) : /\ b.type = m.type /\ b.src = m.src
                                  /\ b.restart_id = m.restart_id})
MomentId(s, m) ==
  FirstOrNew(s, {b \in ToSet(s) : /\ b.type = m.type /\ b.src = m.src /\ b.wa_id = m.wa_id
                                  /\ b.restart_id = m.restart_id})

\* The mean of a variance comes from that of its previous one; without one, it is read
\* before the start of an array.
MeanPast(d) == IF ~Restarted THEN {0}
               ELSE IF Checked(d).prev > 0 THEN {disk.moments[Checked(d).prev].l_id}
               ELSE 0 .. Len(disk.moments) + 1
AutoName(i) == "auto_" \o ToString(i)

WithMean(s, i, d, w, past) ==
  LET m == Moment("mean", d.src, w, past)
      l == MomentId(s, m)
      t == AddIfNew(s, l, m)
  IN [t EXCEPT ![i].l_id = l, ![l].name = IF @ = "" THEN AutoName(l) ELSE @]

Define ==
  /\ phase = "define" /\ defined < Len(Defs)
  /\ LET d == Defs[defined + 1]
         a == Accumulator(d)
         w == WaId(a)
         m == Moment(d.type, d.src, w, Checked(d).prev)
         i == MomentId(moment, m)
         s == [AddIfNew(moment, i, m) EXCEPT ![i].name = d.name]
     IN IF Refused(d) THEN phase' = "refused" /\ UNCHANGED <<defined, wa, moment>>
        ELSE /\ wa' = AddIfNew(wa, w, a)
             /\ IF d.type = "mean" THEN moment' = s
                ELSE \E past \in MeanPast(d) : moment' = WithMean(s, i, d, w, past)
             /\ defined' = defined + 1
             /\ UNCHANGED phase
  /\ UNCHANGED <<history, nt_cur, t_cur, t_prev_iter, disk>>

\* cs_time_moment_restart_read: sections that are not there are an error.  Those of
\* accumulators are found by number, those of moments by name.
Section(name) == {k \in DOMAIN disk.moments : disk.moments[k].name = name}
Missing ==
  \/ \E i \in DOMAIN wa : /\ wa[i].restart_id > 0 /\ wa[i].weighted
                          /\ wa[i].restart_id \notin DOMAIN disk.sections
  \/ \E i \in DOMAIN moment :
       LET k == moment[i].restart_id
       IN k > 0 /\ (k > Len(disk.names) \/ Section(disk.names[k]) = {})

ReadWa(a) == IF a.restart_id > 0 /\ a.weighted
             THEN [a EXCEPT !.val = disk.sections[a.restart_id]] ELSE a
ReadMoment(m) ==
  IF m.restart_id > 0
  THEN [m EXCEPT !.val = disk.moments[Min(Section(disk.names[m.restart_id]))].val]
  ELSE m

RestartRead ==
  /\ phase = "define" /\ defined = Len(Defs)
  /\ t_prev_iter' = disk.t
  /\ IF Missing THEN phase' = "refused" /\ UNCHANGED <<wa, moment>>
     ELSE /\ wa' = [i \in DOMAIN wa |-> ReadWa(wa[i])]
          /\ moment' = [i \in DOMAIN moment |-> ReadMoment(moment[i])]
          /\ phase' = "loop"
  /\ UNCHANGED <<history, defined, nt_cur, t_cur, disk>>

-------------------------------------------------------------------------------
\* A time step, up to the update of its moments (caltri).
BeginStep ==
  /\ phase = "loop" /\ nt_cur < MaxStep
  /\ nt_cur' = nt_cur + 1
  /\ \E dt \in TimeSteps : t_cur' = t_cur + dt
  /\ times' = Append(times, t_cur')
  /\ phase' = "update"
  /\ UNCHANGED <<setup, run, origin, defined, t_prev_iter, wa, moment, disk>>

(***************************************************************************)
(* cs_time_moment_update_all.                                              *)
(***************************************************************************)
Started(a) == IF a.t_start < 0 /\ a.nt_start <= nt_cur THEN [a EXCEPT !.t_start = t_prev_iter]
              ELSE IF a.nt_start < 0 /\ a.t_start <= t_cur THEN [a EXCEPT !.nt_start = nt_cur]
              ELSE a
Active(a) == a.nt_start > -1 /\ a.nt_start <= nt_cur

\* _compute_current_weight: in its first step a moment counts from its start.
Duration(a) == IF a.nt_start = nt_cur THEN t_cur - a.t_start ELSE t_cur - t_prev_iter
CurrentWeight(a) == (IF a.weighted THEN UserWeight[nt_cur] ELSE 1) * Duration(a)

\* The part of the current step in the sum.
Share(a) == Frac(CurrentWeight(a), CurrentWeight(a) + a.val)
Value(m) == <<Data[m.src][nt_cur], 1>>
Toward(val, m, share) == Plus(val, Times(Minus(Value(m), val), share))

\* A variance updates its mean, which is then up to date; the mean has no division by zero.
UpdateVariance(ms, i, a) ==
  LET m == ms[i]
      mean == ms[m.l_id].val
      new  == Toward(mean, m, IF Share(a) = NaN THEN Zero ELSE Share(a))
      dev2 == Times(Minus(Value(m), mean), Minus(Value(m), new))
  IN [ms EXCEPT ![i].val = Plus(Times(@, Minus(<<1, 1>>, Share(a))), Times(dev2, Share(a))),
                ![i].nt_cur = nt_cur, ![m.l_id].val = new, ![m.l_id].nt_cur = nt_cur]
UpdateMean(ms, i, a) ==
  [ms EXCEPT ![i].val = Toward(@, ms[i], Share(a)), ![i].nt_cur = nt_cur]

\* Mutant: means before variances.
TypeOrder_MeansFirst == <<"mean", "variance">>
TypeOrder == <<"variance", "mean">>

\* The moments of one type, in the order of their definition, with accumulators as.
UpdateType(ms, type, as) ==
  FoldLeft(LAMBDA s, i :
             IF s[i].nt_cur < nt_cur /\ s[i].type = type /\ Active(as[s[i].wa_id])
             THEN IF type = "variance" THEN UpdateVariance(s, i, as[s[i].wa_id])
                  ELSE UpdateMean(s, i, as[s[i].wa_id])
             ELSE s,
           ms, [i \in 1 .. Len(ms) |-> i])

\* Accumulators come last.
UpdateAll ==
  /\ phase = "update"
  /\ LET as == [i \in DOMAIN wa |-> Started(wa[i])]
     IN /\ moment' = FoldLeft(LAMBDA s, type : UpdateType(s, type, as), moment, TypeOrder)
        /\ wa' = [i \in DOMAIN as |->
                    IF Active(as[i]) THEN [as[i] EXCEPT !.val = @ + CurrentWeight(as[i])]
                    ELSE as[i]]
  /\ t_prev_iter' = t_cur
  /\ phase' = "loop"
  /\ UNCHANGED <<history, defined, nt_cur, t_cur, disk>>

-------------------------------------------------------------------------------
(***************************************************************************)
(* cs_time_moment_restart_write: moments that have started, renumbered.    *)
(***************************************************************************)
ActiveWa      == SelectSeq([i \in 1 .. Len(wa) |-> i], LAMBDA i : Active(wa[i]))
ActiveMoments == SelectSeq([i \in 1 .. Len(moment) |-> i],
                           LAMBDA i : Active(wa[moment[i].wa_id]))
Rank(s, id) == CHOOSE j \in DOMAIN s : s[j] = id

\* Names are placed by the number of the moment and not by that of its section: those
\* after a moment that has not started are placed anywhere.
NamesWritten ==
  LET n == Len(ActiveMoments)
      true == [j \in 1 .. n |-> moment[ActiveMoments[j]].name]
  IN IF \A j \in 1 .. n : ActiveMoments[j] = j THEN {true}
     ELSE [1 .. n -> {true[j] : j \in 1 .. n} \cup {"?"}]

SavedMoment(m) == [name |-> m.name, type |-> m.type, val |-> m.val,
                   wa_id |-> Rank(ActiveWa, m.wa_id),
                   l_id |-> IF m.l_id > 0 THEN Rank(ActiveMoments, m.l_id) ELSE 0]

\* At most once in a step.
Checkpoint ==
  /\ phase = "loop" /\ nt_cur \in CheckpointSteps /\ disk.nt < nt_cur
  /\ \E names \in NamesWritten :
       disk' = [nt |-> nt_cur, t |-> t_cur, names |-> names, defs |-> Defs, origin |-> origin,
                wa |-> [j \in DOMAIN ActiveWa |-> wa[ActiveWa[j]]],
                moments |-> [j \in DOMAIN ActiveMoments |-> SavedMoment(moment[ActiveMoments[j]])],
                sections |-> [i \in {i \in DOMAIN wa : Active(wa[i]) /\ wa[i].weighted} |->
                                wa[i].val]]
  /\ UNCHANGED <<history, phase, defined, nt_cur, t_cur, t_prev_iter, wa, moment>>

\* The next run of the chain, once this one has ended or was killed, from the last checkpoint.
Continues(d, e) == d.mode # "reset" /\ e.name = d.from /\ e.type = d.type
                   /\ e.weighted = d.weighted
Origin(d) == LET ks == {k \in DOMAIN disk.defs : Continues(d, disk.defs[k])}
             IN IF ks = {} THEN disk.nt ELSE disk.origin[Min(ks)]
Launch ==
  /\ phase # "define" /\ run < Len(setup)
  /\ run' = run + 1 /\ phase' = "define" /\ defined' = 0
  /\ nt_cur' = disk.nt /\ t_cur' = disk.t /\ t_prev_iter' = 0
  /\ wa' = <<>> /\ moment' = <<>>
  /\ times' = SubSeq(times, 1, disk.nt)
  /\ origin' = [k \in DOMAIN setup[run + 1] |-> Origin(setup[run + 1][k])]
  /\ UNCHANGED <<setup, disk>>

Next == Define \/ RestartRead \/ BeginStep \/ UpdateAll \/ Checkpoint \/ Launch

Spec == Init /\ [][Next]_vars

-------------------------------------------------------------------------------
\* Every moment has an accumulator and every variance a mean of the same data over the
\* same steps, at the same step once a step is over; names are given to one moment only.
TypeOK ==
  /\ phase \in {"define", "refused", "loop", "update"} /\ defined \in 0 .. Len(Defs)
  /\ nt_cur = Len(times) /\ nt_cur \in 0 .. MaxStep /\ t_prev_iter <= t_cur
  /\ \A i \in DOMAIN moment :
       LET m == moment[i]
       IN /\ m.wa_id \in DOMAIN wa
          /\ m.type = "variance" =>
               /\ m.l_id \in DOMAIN moment
               /\ LET l == moment[m.l_id]
                  IN /\ l.type = "mean" /\ l.src = m.src /\ l.wa_id = m.wa_id
                     /\ phase = "loop" => l.nt_cur = m.nt_cur
          /\ \A j \in DOMAIN moment : j # i => moment[j].name # m.name

\* The steps a moment is to count, and the time it counts of each.
Steps(d, o) ==
  {n \in o + 1 .. nt_cur : IF d.nt_start > -1 THEN n >= d.nt_start ELSE times[n] > d.t_start}
Before(n) == IF n = 1 THEN 0 ELSE times[n - 1]
Counted(d, n) == (IF d.weighted THEN UserWeight[n] ELSE 1)
                 * (times[n] - IF d.nt_start > -1 \/ Before(n) > d.t_start THEN Before(n)
                               ELSE d.t_start)
SumOver(S, F(_)) == FoldSet(LAMBDA n, a : F(n) + a, 0, S)

\* The weighted mean and variance of the data of these steps.
Expected(d, o) ==
  LET S  == Steps(d, o)
      w  == SumOver(S, LAMBDA n : Counted(d, n))
      s1 == SumOver(S, LAMBDA n : Counted(d, n) * Data[d.src][n])
      s2 == SumOver(S, LAMBDA n : Counted(d, n) * Data[d.src][n] * Data[d.src][n])
  IN IF d.type = "mean" THEN Frac(s1, w) ELSE Frac(s2 * w - s1 * s1, w * w)

\* Between two steps, each field holds the mean or the variance of its data over the steps
\* since its start, each with its time and its weight, as if the runs of the chain were one,
\* whatever the sharing of accumulators and of means, checkpoints and restarts.
AveragesRight ==
  phase = "loop" =>
    \A k \in DOMAIN Defs : \A i \in DOMAIN moment :
      moment[i].name = Defs[k].name /\ Steps(Defs[k], origin[k]) # {}
        => moment[i].val = Expected(Defs[k], origin[k])
=============================================================================
