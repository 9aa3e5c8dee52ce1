# A TLA+ model of Code_Saturne's run control and exchanges

Code_Saturne solves the equations of fluid mechanics on unstructured meshes, on
many MPI ranks, for hours or for days, alone or coupled with other codes. Most
of its source is numerical. What decides whether the result of such a run can be
used is elsewhere, in code that is small, concurrent and seldom tested: when the
run stops, which steps are saved, how coupled codes stay in step, how ranks
exchange data without waiting for each other for ever, how a file is put together from
their blocks, and what averages become over a chain of restarts. That is what this
project models, checks with TLC and, in part, proves with TLAPS.

Paths are those of the repository: `src/base` is the kernel, `libple` the
coupling library.

## 1. Inventory

### The parts that are modelled

| Part | Source | State | Operations |
|---|---|---|---|
| Time loop | `src/base/caltri.f90` | step, time, ALE iteration | set up, begin a step, solve, stop tests, checkpoint, end a step |
| Time step status | `cs_time_step.c` | `nt_prev`, `nt_cur`, `nt_max`, `t_prev`, `t_cur`, `t_max` | set limits, advance |
| Control file | `cs_control.c` | throttle, time of the last test, flush step; the file itself | test, read, remove, parse each command |
| Resource limit | `cs_resource.c` | method, measures | lower the limit before the allocation ends |
| Checkpoints | `cs_restart.c`, `ecrava.f90`, `lecamp.f90` | intervals, next forced step, time and clock, time of the last one; two files on disk | required?, write main, write auxiliary, done, read back |
| Application set | `libple/src/ple_coupling.c` | addresses, status and time step of every application, one copy in each | create, synchronize |
| Coupled instances | `cs_coupling.c`, `caltri.f90`, `dttvar.f90` | the set, the limit and the time step of each instance | synchronize before the loop, in or at the end of each step, after the loop |
| All-to-all exchange | `cs_all_to_all.c`, used by `cs_join.c` | two buffers, the group of the current stage | create, exchange, swap source and destination, sort by source |
| Locator | `libple/src/ple_locator.c`, used by the couplings | partners of each rank, the points and elements of each exchange, by id | set the mesh, locate, extend the search, exchange values in both directions |
| File layer | `cs_file.c`, as `cs_io.c` calls it | position of the stream and offset of each rank, serializer of rank 0 | global and block reads and writes, tell, seek |
| Block distributions | `cs_block_dist.c` | none | size, step and range of the block of a rank |
| Time moments | `cs_time_moment.c` | weight accumulators, moments, what is read of the restart | define, read the restart, update, write the checkpoint |

### How they interact

* The loop calls the control file (twice: before the mesh is read, and in each
  step), the resource limit, the coupling and the checkpoint test, in this order.
  All four read or write `nt_max`. The user writes and takes back `control_file`
  while the program tests, opens, reads and removes it.
* A launch takes the checkpoint that the previous one left. The two files are
  written in place, so that what a killed run leaves depends on where it was killed.
* Coupled instances share no memory. Each holds a copy of the statuses of the
  set, and an exchange through one of its members makes the copies agree. An instance
  that announces its last step is left out of later exchanges. `MPI_Abort` in one
  ends the job for all.
* In the crystal router, each rank exchanges with one or two others at each
  stage and waits for them only; ranks are in different stages, and in different
  exchanges, at the same time.
* In the locator, each rank visits those whose extents meet its own in ascending
  order, with blocking exchanges; collective operations between two loops are where
  ranks agree on whether there is another one. All messages have one tag.
* Each rank goes through the same file calls at its own pace. With the serial method, rank 0
  asks the others for their blocks in turn, and only it has the file; else each
  computes the place of its block from what all have been told.
* Moments share weight accumulators, and a variance updates the mean that others
  see; what one run writes is found again by names and by numbers in the next one.

### What is hard, and the properties it calls for

| Behaviour | Properties |
|---|---|
| users, batch system, solver, resources and couplings move the limit at any moment | `WithinLimit`, `LimitNeverExtends`, `FinalCheckpoint`, `Terminates` |
| requests for checkpoints of five kinds interleave, each of which may hide another | `ForcedServed`, `SpacedInFreshRun`, `SpacedInAnyRun`, `FlushNotMissed` |
| a file that is written, replaced or removed while it is read, or that cannot be removed | `WithinLimit`, `ForcedServed`, `Terminates`, under any of these |
| kills between or within two writes, restarts | `ProgressKept` |
| members that run ahead, leave, or answer in another order | `RefinesGroupSync`, `Agreement`, `SyncReturns`, `NothingLeft` |
| instances that end, each for its own reason | `Lockstep`, `CommonEnd`, `StopsProperly`, `OnlyRefusedAbort`, `Terminates` |
| time steps prescribed by a leader, or the smallest of all | `SameTimeStep` |
| groups of odd size, elements that move through several stages | `Pairing`, `NoOverflow`, `RefinesAllToAll`, `Renumbered`, `Returns` |
| blocking exchanges in an order that each rank finds by itself, all with one tag | `RefinesLoopProgram`, `Completes` |
| answers of several ranks about one point, extended searches | `NearestFound` |
| lists that both ends build apart and must agree on; sizes learnt in an earlier loop | `ValuesReach`, `MessagesFit` |
| blocks that are empty, ranks that are a call ahead, positions computed by each rank | `OffsetsAgree`, `RefinesPlacedBlocks`, `ReadsParts`, `Completes` |
| shared accumulators, variances that update means, moments that start late, restarts from an older step | `AveragesRight` |

Section 7 says which parts are not modelled, and why. `PROJECT.json` lists every hazard
at its line, those that no property covers included.

## 2. The modules

```
TimeLoop ----------- MCTimeLoop            GroupSync --------- GroupSyncProofs
   |                                          |      \
TimeLoopProofs                     refined by |       \ extended by
                                              |        \
AllToAll (and Selection)              PleCoupling    CoupledRun
   | refined by                               |        |
CrystalRouter ------ MCCrystalRouter   MCPleCoupling,  MCCoupledRun,
   |                                   PleCouplingProofs  CoupledRunProofs
CrystalRouterProofs                    BlockDist
                                          | extended by
PartnerLoop                               |      PlacedBlocks
   | extended by                          |       / refined by
   |-- LoopProgram -- LoopProgramProofs   FileBlocks --------- MCFileBlocks,
   |       | refined by        |                               FileBlocksProofs
   `-- Locator ---------- LocatorProofs   TimeMoments -------- MCTimeMoments
           |
       MCLocator
```

Each `MC` module gives finite sets to the constants; each `.cfg` is one run.

### TimeLoop

One instance, from its launch to its end, and those that act upon it. `pc` is the
statement that comes next. A call that reads what someone else may write is cut
there: the test of the file, its opening and its removal are three actions,
between which the user may act. The rest of a handler is one action.

| Definition | Code |
|---|---|
| `CheckFile`, `ReadFile`, `OpenFails`, `RemoveFile`, `EndParse`, `FlushLogs` | `cs_control_check_file` |
| `ParseStepLimit`, `ParseTimeLimit`, `ParseCheckInterval`, `ParseCheckpoint`, `ParseFlush` | the branches of `_parse_control_file`, `_control_checkpoint` |
| `RefuseRestart`, `StartLoop` | `lecamp.f90`, `caltri.f90` before label 100 |
| `BeginStep`, `Solve`, `LimitSteps`, `TestCheckpoint`, `EndStep` | one iteration of `caltri.f90` |
| `Required` and its parts, `CheckpointDone` | `cs_restart_checkpoint_required`, `cs_restart_checkpoint_done` |
| `WriteMain`, `WriteAuxiliary` | the two halves of `ecrava.f90` |
| `PlaceFile`, `WithdrawFile`, `Kill`, `Launch` | the user and the batch system |

A line of the file is a keyword, a number and whether the number can be read. Times are
integers. The clock saturates at `WtBound`. A buffer that was not filled
because `fopen` failed holds the lines of some file, or none; a value that was not
read is one of several. The resource estimate is a choice to stop or not. `remove()` is not
tested by the code: with `RemoveMayFail` it may leave the file where it is. `Iecaux` is the option that
has the auxiliary file written, and read at a restart.

### GroupSync, PleCoupling, CoupledRun

`GroupSync` is what synchronization promises: members join with a value; when all
those of the group have joined the exchange closes, and each gets the same
vector, when it comes to look at it.

`PleCoupling` is the code: the first synchronized application receives from each of
the others in order, and sends the vector to each. There is one action for each
message sent or received, one channel for each ordered pair of ranks, and sends that
are buffered or not (`eager`). The addresses are those of `app_info`, indexed as
the code does. Its refinement mapping says who has joined and who is owed a vector
by looking at the messages in transit.

`CoupledRun` extends `GroupSync` with the loops of several instances. A call to
`cs_coupling_sync_apps` is a `Join` and, once the exchange has closed, a `Return`, in
which the limit and the time step are revised. `PleCoupling` refines `GroupSync`,
so that `CoupledRun` need not carry the messages.

### Selection, AllToAll, CrystalRouter

`AllToAll` is the promise of `cs_all_to_all_exchange`: each rank ends with what the
others gave for it, elements of one source in order, and does not end before all
have entered. `CrystalRouter` is the router of the code with its messages: partition,
count, data, next half of the group. It is driven as `_get_local_o2n_vtx_gnum` of
`cs_join.c` drives it: to the owners of the blocks, edit, swap, back, sort.
The history variables `given` and `ended` serve the refinement only. `ByDefault`
computes what the other implementation, `MPI_Alltoallv`, would leave in each rank.
`Select` of `Selection`, the elements of a sequence that are in a set, is what the loop of
`_crystal_partition_strided` does to a buffer; it is written as a recursive function of
its arguments so that theorems can say what it returns.

### PartnerLoop, LoopProgram, Locator

Every loop of `ple_locator.c` over the partners of a rank has one form: visit those that
remain in ascending order, and at each visit exchange a message in both directions, once or
twice (`MPI_Sendrecv`). `PartnerLoop` has the state of such a loop and the two halves of an
exchange. `LoopProgram` is a program of such loops: a collective operation decides the next
one, which may be any symmetric relation between ranks, and each rank goes through it alone.
It knows nothing of points; a message is the number of its exchange, so that `Paired` can say
that a rank takes the message that was meant for it though all have the same tag.

`Locator` is the code, with the contents of its messages: the extents, the choice of
partners (`Intersect`), points sent and answers received (`Transfer`, `Asked`, `Answered`),
the lists of located points and of distant ones (`Counted`, `Listed`), the renumbering
(`LocationRanks`), extensions of the search while points are left, on either side, and
exchanges of values (`Exchanged`). What follows a collective operation is decided there for
all ranks. It is shown to refine `LoopProgram` (`RefinesLoopProgram`), where the plan says
which loop it is. Two pairs of successive `MPI_Sendrecv` with the same partner (a count and its
coordinates, locations and distances) are one message each: the code does nothing between the two but
size an array by the count, and `MessagesFit` compares each message with the array that its receiver
allocated (`Room`), which for the points of a search is the count that its sender announces. The geometric search, a callback of the couplings, is reduced to one
dimension: the nearest element of the rank within a tolerance.

### BlockDist, PlacedBlocks, FileBlocks

`BlockDist` has the arithmetic of `cs_block_dist_compute_sizes`. `PlacedBlocks` is the promise
of a writer: each block once, entirely and at its place.
`FileBlocks` is the code: a file is written by some number of ranks, then read back by another
number of ranks, with another method. The calls are a header, padding, sections of several or
no values, as `cs_io.c` makes them. Actions are the steps of the serializer
(`Request`, `Serve`, `Collect`, `Scatter`), of its counterpart for reading (`GatherCounts`,
`Deal`, `Receive`), the accesses of the other methods (`Access`), the collective
operations and the calls for positions. A file is a function of positions, an item its call and its
place in it. The refinement mapping takes the file and the blocks of the writing run; that the file is
completed is in `Completes`.

### TimeMoments

A chain of runs of `cs_time_moment.c`. A run defines its moments one by one (`Define`: the search
of the restart, of an accumulator and of a moment that may be shared, and for a variance
that of its mean), reads the values they had (`RestartRead`), goes through time steps
(`BeginStep`, `UpdateAll`) and writes checkpoints; it may be killed between any two
actions, and the next one starts from the last checkpoint (`Launch`). Values are exact fractions,
of one element. `Expected` computes the average anew from the history of the chain. Two things
the code leaves undefined are choices: the names that it saves of moments that come after one
that has not started (`NamesWritten`), and the past of the mean of a variance that has none itself
(`MeanPast`), which is read before the start of an array.

## 3. What each run checks

| Run | Question | Result |
|---|---|---|
| `tl_run` | Two launches, each possibly killed, stopped by the batch limit or by the solver; two control files at any moment, which may or may not be removed. Does every run that is not killed end, within its limit, its last step saved? Are the requests that were read honoured, as the code orders them? | holds |
| `tl_restart_spacing` | Is the interval between checkpoints respected after a restart too? | **violated**: absolute and relative times are mixed (`cs_restart.c:1253`) |
| `ple_sync` | Do the messages implement the exchange, does every call return, is nothing left in transit? | holds, while the first application stays or answers come in order |
| `ple_first_leaves` | The same when the first application leaves and the others had answered out of order | **violated**: wrong address (`ple_coupling.c:269`), the call never returns |
| `cr_group` | Do coupled instances stay in step, do those that follow the same rule (the leader, or the smallest) have the same time step, do they end together with their checkpoint, at a common step unless a limit is raised after the last step was announced? | holds |
| `cr_stopped` | The same when a fixed-step instance is stopped and another has a uniform time step | **violated**: the latter aborts the job (`dttvar.f90:584`) before the checkpoint |
| `router_trip` | Does the router implement one exchange, end with nothing in transit, keep within its buffers, and leave what `MPI_Alltoallv` would? | holds |
| `loc_pairs` | Is each point located on the nearest element, by one search or more; do values reach their points and come back; do messages fit; do all loops end? | holds |
| `loc_extend` | The same when one rank had some of its points located by the first search, and others not | **violated**: the extension uses the coordinates of other points (`ple_locator.c:956`) |
| `file_blocks` | Is each block written once and at its place, are the positions of all ranks equal, is no call an error, does each rank get back its part, does every call return? | holds |
| `moments_chain` | Does each field hold the average of its data over the steps it is to count, over three runs? | holds |
| `moments_start` | The same for a mean from a time at which a step ends | **violated**: it is 0/0 from then on (`cs_time_moment.c:1482`) |

Some properties that hold are as strong as the code allows, and no stronger; section 5 tells what lies
beyond each. `ForcedServed`: a forced step or time that is due waits, but only for a clock request
for a later moment. `SpacedInFreshRun`: runs from time 0. `ProgressKept`: the two files may be of two
steps after a kill, the main one being the newer. `SameTimeStep`: those that follow the same rule, the leader or
the smallest, have the same time step; the two rules may give two. `CommonEnd`: all but those whose limit is raised
after their last step was announced. No property says that every request is read, since some are deleted unread.

Each property of a passing run has a mutant in the module it checks, a definition named
after the one it replaces (`Required_NoTime` for `Required`), with which TLC finds the property violated.

### Bounds, and why they are enough

* **TimeLoop.** At most two files in a run, out of eight: one may be read while the other is being
  placed, and one may undo what the other asked for; a third would meet the same
  states, since a file leaves nothing but the values it sets. The setup asks for no step or for
  three, and files for up to five, with intervals of 2: steps before, at and after
  every request. Two launches: one that leaves a checkpoint and one that restarts from it. The
  clock goes to 3 with steps of 0 or 2, to be before, at and after a request at 3.
  The default interval is at least 10 steps and never falls within a run of the
  model, except at its first step; the last-step test does not depend on it.
  About three million states.
* **PleCoupling.** Three applications: one that collects, and two others whose
  messages may be in any order. Two calls each: one in which a member announces its
  end and one from which it is left out. Two time steps tell values apart.
* **CoupledRun.** Three instances, at most 3 steps, one change of a limit by a user: it
  may be placed before, at and after the announcement of a last step. The six
  groups cover constant and uniform time steps, both together, the ALE iteration,
  a leader, followers of the smallest step, two leaders, nothing to do, and a missing
  coupling.
* **CrystalRouter.** Two to five ranks: groups of size 2, 3, 4 and 5, hence an odd group
  at the first stage, at the second stage, and in each half. Ranks without elements,
  shared numbers, all numbers in one block, numbers out of order, buffered and unbuffered sends.
* **Locator.** Four ranks, in two applications, or in one coupled with itself. The six setups have
  elements at the same distance on two ranks, ranks without points or elements, points
  that stay without location between others, tolerances that differ, two extensions,
  values for one side only, and calls that do not match.
* **FileBlocks.** Nine pairs of a writing and a reading run, of one to four ranks, with steps 1 and 2
  and minimum sizes that leave ranks idle; each has sections with fewer values than ranks, and with none,
  alignment to 4 before a header and before a body, and the three methods. Messages are buffered or not.
* **TimeMoments.** Three runs: one that checkpoints, one that restarts and checkpoints, one
  that restarts from a restart. Checkpoints at steps 2 and 4, any of which a run may not reach
  or not write, and 6 steps, two of which follow the last checkpoint. Eight chains: shared accumulators, variances
  before and after their means, weights, starts by step and by time on both sides of the
  checkpoints, the three restart modes, changes of weight and of name. They leave out the starts for which
  the code is wrong: see section 5.

### Fairness

* `TimeLoop`: weak fairness of `Program` only, a process that runs when it can.
  Users and the batch system owe nothing.
* `PleCoupling`, `CoupledRun`: weak fairness of each application, which is a process of
  its own, of an exchange all of whose members have come (justified by `ple_sync`,
  where each call returns), and of the effect of `MPI_Abort`.
* `CrystalRouter`: weak fairness of the ranks together; a rank that can always act does so,
  since every action is taken at most a bounded number of times.
* `Locator`, `FileBlocks`: weak fairness of the collective operations and of each rank, a process that
  runs when it can; MPI delivers what was sent.
* `TimeMoments`: none, it has safety properties only.

Deadlock is not checked for `ple_*`, `cr_*`, `router_*`, `loc_*`, `file_*` and `moments_*`: the
processes really end there. Being stuck before the end is what `SyncReturns`, `Terminates`,
`Returns` and `Completes` exclude. In `TimeLoop`, the last run that is over stutters by `Stopped`, and
deadlock is checked.

## 4. What is proved

Proofs are in `*Proofs` modules; they hold for all values of the constants that
satisfy the named assumptions of the modules (limits and numbers of launches
are naturals, time steps are positive, values have their types).

| Theorem | Statement |
|---|---|
| `TimeLoopProofs!TypeCorrect` | `Spec => []TypeOK` |
| `TimeLoopProofs!LimitRespected` | `Spec => []WithinLimit` |
| `TimeLoopProofs!LastStepSaved` | `Spec => []FinalCheckpoint` |
| `TimeLoopProofs!LimitOnlyReduces` | `Spec => LimitNeverExtends` |
| `TimeLoopProofs!RequestsServed` | `Spec => []ForcedServed`: a request that is due waits only for a later clock request |
| `TimeLoopProofs!IntervalRespected` | `Spec => []SpacedInFreshRun` |
| `TimeLoopProofs!FlushDone` | `Spec => []FlushNotMissed` |
| `TimeLoopProofs!NeverBack` | `Spec => []ProgressKept /\ RestartsForward`: the files on disk are not older than the restart, and of two steps only where a kill came between their writes; each run restarts from the same point as the one before it or from a later one |
| `GroupSyncProofs!GroupTyped` | `GroupSpec => []GroupTypeOK` |
| `GroupSyncProofs!MembersAgree` | `GroupSpec => []Agreement` |
| `PleCouplingProofs!CouplingTyped` | `Spec => []TypeOK`, for exchanges that are well rooted |
| `PleCouplingProofs!CouplingEmpties` | `Spec => []NothingLeft`, likewise |
| `PleCouplingProofs!CouplingRefinesExchange` | `Spec => RefinesGroupSync`, likewise: the messages implement the exchange |
| `CoupledRunProofs!CoupledTyped` | `Spec => []TypeOK` |
| `CoupledRunProofs!LoopsSynchronize` | `Spec => GroupSpec` |
| `CoupledRunProofs!InstancesAgree` | `Spec => []Agreement` |
| `CoupledRunProofs!StepsShared` | `Spec => []SameTimeStep` |
| `CoupledRunProofs!NoneAhead` | `Spec => []Lockstep`, for instances that are alike |
| `CoupledRunProofs!EndTogether` | `Spec => []CommonEnd`, for instances that are alike |
| `CoupledRunProofs!NoneAborts` | `Spec => []OnlyRefusedAbort`, under what the documentation of couplings asks for |
| `CoupledRunProofs!StopsWithCheckpoint` | `Spec => []StopsProperly`, without control files or for groups with one leader |
| `CrystalRouterProofs!GroupsKept` | `Spec => []GroupsOK` |
| `CrystalRouterProofs!RanksPaired` | `Spec => []Pairing` |
| `CrystalRouterProofs!TypesHold` | `Spec => []TypeOK` |
| `CrystalRouterProofs!NoneOverflows` | `Spec => []NoOverflow` |
| `CrystalRouterProofs!StagesExchange` | `Spec => RefinesAllToAll`: the stages implement the exchange |
| `CrystalRouterProofs!RoundTrip` | `Spec => []Renumbered`: what `MPI_Alltoallv` would have left |
| `LoopProgramProofs!LoopInvInductive` | `LoopSpec => []LoopInv` |
| `LoopProgramProofs!MessagesPaired` | `LoopSpec => []Paired` |
| `LoopProgramProofs!RanksNeverStuck` | `LoopSpec => []NeverStuck` |
| `LocatorProofs!LocatorRunsLoops` | `Spec => RefinesLoopProgram` |
| `LocatorProofs!LocatorNeverStuck` | `Spec => [](Loop!NeverStuck /\ Loop!Paired)` |
| `LocatorProofs!ListsMatch` | `Spec => []ContentInv`: what each message says, and that both ends have lists that match |
| `LocatorProofs!MessagesAlwaysFit` | `Spec => []MessagesFit` |
| `LocatorProofs!LocatorTyped` | `Spec => []TypeOK` |
| `LocatorProofs!ValuesAlwaysReach` | `Spec => []ValuesReach` |
| `LocatorProofs!NearestAlwaysFound` | `Spec /\ Ordered => []NearestFound`: if the points left at each extension are the first ones of their rank |
| `FileBlocksProofs!BlocksFollow` | the blocks begin at 1, follow each other and end with the last entity |
| `FileBlocksProofs!RankZeroHasData` | rank 0 has a block as soon as there is an entity |
| `FileBlocksProofs!OffsetsAlwaysAgree` | `Spec => []OffsetsAgree` |
| `FileBlocksProofs!BlocksWrittenOnce` | `Spec => RefinesPlacedBlocks` |
| `FileBlocksProofs!PartsAlwaysRead` | `Spec => []ReadsParts` |
| `FileBlocksProofs!FilesTyped` | `Spec => []TypeOK` |

**The time loop.** `WithinLimit` and `FinalCheckpoint` are not inductive. The
invariant `LimitInv` adds two facts. `StepAllowed`: at the top of the loop, a step that
is about to be counted is below the limit; this is why the limit may be lowered to the
current step at any later point. `Written`: what is on disk while a checkpoint is
written is the current step, and a step that comes to the end test at its limit has been
saved. The hard case is a limit lowered during the step: it is lowered to the current
step at the least, and before the checkpoint test, which compares for equality.

Requests need a second invariant, `RequestInv`, on top of `LimitInv`. Its parts relate what is
asked for to where the loop is: `Phases` (which `pc` goes with which step and restart),
`FlushAhead` (a pending flush is not for a step that has passed), `LastDue` (the checkpoint that is
due has not been written yet) and `FromRestart` (what a launch knows of the checkpoint it
found). All safety properties of `tl_run` are thus proved, for any number of
files and launches; only `Terminates` is not. `NeverBack` does not say that no saved step is computed again:
files are overwritten in place, and a kill in the meantime leaves neither the new checkpoint nor the
former one, so that the next run starts again from where the killed one did.

**The exchange.** `Agreement` speaks of members that wait in the same exchange. Members
run ahead: one may have read the vector of an exchange that another has not. The invariant
`SameComing` compares what each synchronized member will work with in its next exchange, once
it has read what it is owed and marked those that left; `MarkTwice` (marking is
idempotent) makes it inductive. `Waits` says that a member that waits is owed nothing and takes
itself for synchronized. `SameExchange` strengthens `SameComing`: a member that another knows for synchronized
comes to the same exchange, whatever it knows itself.

**The messages.** `CouplingRefinesExchange` shows, for any number of applications, buffered or not, that
each action of `PleCoupling` is a `Join`, the `Close` of an exchange, a `Deliver`, or changes nothing of
them. The invariant `PleInv` is in two parts. `Messages` says of each channel which message it holds, if
any: the value of a member that the root has not reached (`Up`), or the vector that a member has not read
(`Down`), and of the loop of a root which members it has heard and which it has not served (`Collecting`,
`Distributing`). The other part is the invariant of `GroupSync` read through the refinement mapping
(`Theory!GroupInv`), established along with it: that a message that arrives belongs to the present exchange is a fact
about exchanges (`SameExchange`), not about channels. The hypothesis, `WellRooted`, is that the entry
of `app_info` at which members look for the root is the rank of the root. The code indexes the
array by the number of the application where it has four integers for each (section 5): the two
coincide for the first application, so that the hypothesis is about groups whose first application may leave.
`RootAssumption` has TLC check that the setups of `ple_sync` satisfy it; that of `ple_first_leaves` does not.

**The coupled instances.** `LoopsSynchronize` shows that the loops call the exchange as `GroupSync`
describes it, hence `Agreement` holds of them. The rest is about what they do with its result. `ExchangeInv` is
about vectors only, wherever the instances are: the exchange itself makes nobody unsynchronized (`Kept`),
time steps known to others are not the initial zeros (`Stamped`), and all those who take part are told
of a stop (`Told`). `LocalInv` says where each instance is. For `SameTimeStep`, `StepsAgreed`: an
instance offers the time step it has, so that the smallest of those offered is the same set for all. For
`Lockstep`, `SameRounds`: there are numbers of calls, one for each instance, that fit the place of the
instance in its loop (`Calls`) and of which members of one group have completed the same. A step is finished once its
instance has left the solver (`Done`), and `RoundsLockstep` says that the calls completed leave no other
possibility: an instance that computes step `n` has made the call that all make after step `n - 1`.
Instances with ALE and a uniform time step are one call ahead of their steps, so that either all such instances are so
or none (`Alike`); `Heeded` (who has been told of a stop begins no other step) covers the case in
which that call is the one after the loop. The named assumptions are those of `CoupledRun`: members start
synchronized, and none both leads and asks for the smallest time step.

For `CommonEnd`, `EndInv` says that there is a step at which all those who know of an end stop, or are about to
once they have read the vector they are owed (`EndsAt`); that an instance which knows of an end begins no step but
the one announced as the last (`Leaves`); and that nobody who announced an end comes back (`Announces`). Its
hypothesis, `Alike`, was found on the way: instances with ALE and a uniform time step synchronize in
the initialisation step too, and are one exchange behind the others, so that a mixture of both
kinds ends at different steps (TLC finds it in a few states). For `OnlyRefusedAbort`, `SmoothInv` shows that no vector
holds an end that its reader is not ready for: those whose end is not sudden announce it an exchange
earlier (`Ahead`, `Gives`). Its hypothesis, `Foreseen`, delimits where sudden ends (a lack of time, a control file)
can come. `StopInv` then shows that the limit given in a control file is not
reduced before the checkpoint of that step is written (`Stopping`), when there is one leader at most: two make the others
abort. Hypotheses are stated on the setups, each as weak as the
argument needs: `HypothesisAssumption` has TLC check that the groups of `cr_group` satisfy them,
and `cr_stopped` shows a group that does not, where `StopsProperly` fails.

**The router.** `Pairing` is a fact about groups of any size: for two ranks of one group, the
first sends to the second exactly when the second receives from the first. `HalfOK` gives the
arithmetic of halves, odd and even; `GroupsOK` (each rank is in its
group, which lies within the communicator) is inductive.

What moves between the ranks is proved in two steps. The first has no time in it. The setup alone decides the group
`G(k, r)` of rank `r` after `k` stages, the sequence `H(f, k, r)` that it holds then in exchange `f`, the part `Kp` that it
keeps and the part `Out` that it sends, though ranks get there in any order; each is a function from one stage
to the next. `FlowSelect` is the fact about them: among what `r` holds after `k` stages, the elements of source `q` are
those that `q` gave for the members of the group of `r`, in the order in which it gave them, if `r` is the member to which they
came (`Src`), and none otherwise. `SrcPartition` says that there is exactly one such member. When groups have
one rank, this is the delivery that `AllToAll` promises (`Delivered`).

The second is the invariant `Inv`: for some number of stages ended by each rank (`l`), the buffers, what the receives have
brought and what was given are the terms above (`Local`), and the channel between two ranks holds exactly the messages that the
first has posted and the second has not received (`Channels`). Messages carry neither stage nor exchange: what makes
them right is that two ranks exchange at one stage only (`LinkOnce`), so that a channel has the four messages of that stage, in
order (`Msgs`). `Causal` is needed for the end of an exchange: a rank that has elements of `q` is not in an exchange that `q` has
not entered, and a rank alone in its group has elements of all. `NoOverflow` follows from the invariant, since the counts
received are the lengths of what will arrive, and `RefinesAllToAll` too, an exchange ending with the last
stage of a rank. For `Renumbered`, both algorithms give to rank `r` the same pieces one after the other, one for each
rank that it sent to (`Piece`); they are in the order of its vertices if destinations are (`PiecesInOrder`), which blocks
of consecutive numbers provide (`DestInOrder`).

What `Select` and `FlattenSeq` return for every sequence takes induction. The library's theorem cannot be instantiated,
but the existence of a least element in a set of natural numbers can be drawn from its theorem on the inclusion of finite sets
(`LeastExists`). `Induction` and `SeqInduction` follow, for sets given as parameters instead of predicates, and each
lemma names the set of the numbers or sequences of which it holds.

**The loops.** Each pair of ranks has exchanged the same messages, but for one under way: `LoopInv`
says of each channel exactly which stamps it holds, those that one end has sent and the
other has not yet taken (`InTransit`), in order. `MessagesPaired` follows, since a receiver's
next exchange with a partner is the least of those it has not done. For `RanksNeverStuck`, take
the ranks in the earliest loop that is not over, and among them the one whose next partner, or which
itself, is the least: it can move (`WaitsForLesser`). Loops being symmetric is essential, and
ascending order too; the number of ranks, the loops and their order do not matter.

**The locator.** `LocatorRunsLoops` shows that each action of `Locator` is one of `LoopProgram`, or
changes nothing of it. It rests on `LocatorInv`: the messages under way carry the stamps of the
program, and each list of partners is symmetric, though each rank computes its own
(`IntersectsSymmetric`: extents are exchanged before they are compared; `LinkedSymmetric`). The theorems
of `LoopProgram` then hold of the locator.

What the messages contain is `ContentInv`. `Said(q, r, k)` is what `q` says to `r` in exchange `k`,
computed from the lists of both as they are now; those it depends on do not change as long as the message
may be under way (`SaidKept`, `LeaveKeeps`), though other ranks are loops ahead. So whatever is in a channel
(`Spoken`), and what the first exchange of a visit has left for the second (`Heard`), is
what the state says. `Lists` is the fact that matters about it: the list of distant points that a rank keeps for
another is as long as the list of local points that this one keeps for it. During the loops that build them
(`Filling`), each is compared with what it will be, according to how far its owner is in its own loops (`HasCount`,
`HasList`). `MessagesAlwaysFit` follows by cases on the phase. `Ascending`, the sorted list of a set of
numbers, is written as a function, whose length and members are lemmas
(`AscendingLength`, `AscendingHolds`) on the cardinality of finite sets.

`ValuesAlwaysReach` follows a value from the element that gives it to the point that uses it, or back,
through four lists that nobody holds together. `ReachInv` says, on top of `ContentInv`: a point is located on
a rank that its own rank has searched (`Traced`), which is then a partner (`Indexed`); `interior` holds the
located points in ascending order, each once (`Indexed`, `InteriorOnce`); when the location is over, the
k-th entry of the list of `r` for `q` and the k-th of that of `q` for `r` are one point
(`TiedTo`). Then what a rank has written at any moment is what the partners it has visited so far
had for it, in each of the calls laid in the plan (`Given`, `Results`). A rank that is told that values come has an
array for them, or the run stops (`Agreed`); it stops only when the calls of the two sides do not match
(`Stopped`), which `Coherent` says of the setup alone. When all is over each rank has visited all its partners, and the set
is the one `ForwardDone` or `ReverseDone` asks for. Nothing is assumed but the types of the setups.

`NearestAlwaysFound` says where the points are located. Its invariant, `NearInv`, has one part per stage. After `n`
searches a point is `Settled`: on the nearest element of the first search that found one (`Elected`), or nowhere. Between
two searches the locations live in the lists only (`Carried`), the array being erased; while they are given back
(`Moving`), a list entry of a rank already visited has reached its point. During a search (`Searching`), what a point has is the
best answer of the ranks visited so far (`Sought`), and a rank that is not visited has no element close to it: its
extents do not hold the point (`CloseWithin`, `CloseMeet`), though each end computes its own
list of ranks to visit. The theorem has the hypothesis `Ordered`, on the setup alone: when a search is extended, the points that are
left are the first ones of their rank. It is what separates the runs `loc_pairs` and `loc_extend` (TLC checks so, by
`OrderAssumption` of `MCLocator`, for the extensions that they make), and it is needed: otherwise the code reads the coordinates of
other points (section 5). It holds of every setup without extension (`nearest` false).

**The files.** The blocks: arithmetic of the sizes (`SizeIsEnough`, `NextQuotient`), for any number of ranks and
entities, and any step up to the number of ranks. The loop that finds the step (`RankStep`) ends, since it doubles
until the step exceeds the number of ranks (`DoublingExists`), and gives one that is allowed (`RankStepOK`).

`OffsetsAlwaysAgree` needs to know what each collective message holds, although ranks are calls apart.
`LocalInv` gives each rank a date (`Now`), its call and how far in it; a message is due from one rank to another at some
dates (`Due`), which the calls alone decide, and what is in transit from `p` to `q` is what is due between the date of
`q` and that of `p`, in order (`InTransit`). What a message says of positions, of counts and of the end of the last block depends
on its date only (`Says`), so that a rank takes what was meant for it. The stream of rank 0 is where the call starts, plus the
values of the ranks it has been through (`Progress`, `Upto`); the serializer passes over ranks without data, whose
values are none (`NextRankOK`), unless it is at rank 0, and then there are none at all (`SerializerOK`).

What is in the file, in the messages between two ranks and in memory follows from there, for every setup of
`SetupAssumption`: any numbers of ranks of the two runs, their steps and methods, any sequence of calls of any
sizes, buffered sends or not. The invariant `Inv` has `LocalInv` and, besides:

* `FileOK`: the file is made of the parts that are written (`Filled`), each at its place. Whose parts
  these are (`Done`) is read off the rank that writes them, rank 0 with the serializer and each rank otherwise, by its
  call and how far it is in it. The parts of two ranks or calls have no position in common (`FillsApart`) and
  together they make the file (`FillsAll`), by the numbers of ranks of either run. A step of the code is then one write of
  `PlacedBlocks`, or writes nothing: `PartWritten`, with one lemma for each action (`...Wrote`).
* `MailOK`: a message to or from the rank that rank 0 is at, if it has asked; when reading, the values of a rank
  that waits for them. `AskedTogether` is where it matters that ranks are calls apart: messages
  of data have one tag, and what keeps a request from being served in another call is that
  the rank that is asked cannot leave its call before the collective operation that ends it (`LocalInv`).
* `GotOK`: what each rank has read, by its call and how far it is in it. Values of a global call are read by rank 0 and
  broadcast, so that `Says` speaks of them too: the invariants of positions and of contents are proved together
  (`NextLocal` takes what rank 0 reads as a hypothesis, which `ReadGlobalGets` draws from `FileOK`).

`NextInv` gathers the four: each step keeps `Inv` and is a `Write` or a stutter of the promise. `FilesTyped` adds
`SerTyped`, the ranks that the serializer names.

**Model-checked only.** Liveness (`Terminates`, `SyncReturns`, `Returns`, `Completes`) is out of the prover's
reach. `TimeMoments` (`TypeOK`, `AveragesRight`) has no theorem. What `AveragesRight` says needs induction over the data:
sums over a history, computed by folds, of fractions. `TypeOK` would follow by induction over the
moments that `UpdateType` visits, names being distinct; this has not been attempted.

## 5. Divergences found

Five runs exhibit a disagreement between the code and what its documents and comments say
of it (section 3 and the findings of `PROJECT.json`). Others were met
while reading, and no run shows them.

The time loop and its coupling:

* A file that the user places between `fread` and `remove`, or the end of one that grows after its size was taken,
  is deleted unread (`cs_control.c:543`), though the manual has the file stop a calculation "whenever they wish".
  If `remove` fails, which is not tested, the file is obeyed again at every check.
* When `fopen` fails the warning says "ignored" (`cs_control.c:547`), but the buffer, which nothing
  has filled, is broadcast and parsed: `OpenFails` may obey the lines of any file.
* A pending `checkpoint_wall_time` hides a checkpoint forced at a step or at a time: it is tested
  in their place (`cs_restart.c:1203`), and they wait for it.
* `max_time_value` (`cs_control.c:416`, listed in the manual among the commands) sets
  `t_max`, which the loop does not test (`caltri.f90:1207`). If its argument cannot be read,
  an uninitialised value is stored (line 420).
* A checkpoint overwrites the former one in place, its main file first (`ecrava.f90:181`, `303`). A run killed between the
  two leaves files of two steps, from which the next one restarts without a word, though the manual has the
  auxiliary file "ensure solution continuity"; one killed while it writes either has lost both checkpoints.
* `inpdt0` sets the limit at the current step (`caltri.f90:859`), which a control file may raise again.
* With a constant time step, that of the group is stored in `dt(1)` only (`caltri.f90:1021`).
* With ALE the exchange before the loop is skipped, the one of the step is not (`caltri.f90:879`). If the
  time step is uniform besides, the first exchange is within the initialisation step and gives step -1 as the
  current one (`dttvar.f90:581`): the instance stays one exchange ahead of its steps. With instances of
  other kinds in the group neither `Lockstep` nor `CommonEnd` holds, and no group of `cr_group` combines them.
* A leader is documented to "prescribe time step for all members of group" (`ple_coupling.h:76`, `cs_coupling.c:318`), and
  does not for those that ask for the smallest one, which is taken afterwards (`cs_coupling.c:547`). In the
  fixed group of `cr_group` the leader goes by steps of 2 and the others of 1.
* An instance that has announced its last step may still have its limit raised, by its control file. The others have
  taken the announcement for their own limit (`cs_coupling.c:541`) and end; it goes on alone (`late` in `CommonEnd`).
* `cs_time_step_define_nt_max` says "unlimited if negative"; the loop then ends after one
  step (`cs_time_step.c:351`).
* `cs_restart_checkpoint_required` reads the clock of each rank (`cs_restart.c:1204`); nothing
  makes the ranks agree on the result.
* `cs_coupling.c:489` looks up the previous leader with `ts_min`, a time step.

Exchanges:

* `cs_all_to_all_create_with_ids_s`, which nothing calls yet, writes all destination ids to one
  element (`cs_all_to_all.c:824`). `cs_all_to_all_create_from_block_s` reads `elt_gnum[j]` where `j` is
  a byte index (line 1451), and sets one of two pointers of which later calls test both.
* The comparison of elements by source uses their addresses while they are moved: it is stable
  with a merge sort only (`cs_all_to_all.c:1185`).
* `ple_locator.c`: the upper extent is tested with the lower one (line 708), which makes a rank
  without elements join the loops, harmlessly; `interior_list` is mapped twice through ids by an
  extension (2936); the exchange in reverse without blocking sends the first
  partner's values to all (2318).

Files:

* With independent MPI-IO only rank 0 opens the file, and reading does not test this number of
  ranks (`cs_file.c:1355`, `1551`).
* The serializer writes what rank 0 holds first, even if empty, after which the
  next block is lost (`cs_file.c:1056`); `RankZeroHasData` shows that block distributions never lead there.
* `cs_block_dist_compute_sizes` divides by zero when the minimum step is larger than the number of
  ranks (`cs_block_dist.c:130`).

Time moments:

* A starting time is compared with the number of the restart step (`cs_time_moment.c:725`). A moment
  from 20 s that had not started when the run stopped at step 50 and time 5 s is looked up, is not found,
  and starts at step 51.
* A moment whose first step is that of the checkpoint loses this step (line 724, `>=`).
* The positions of names are filled for moments that have started and indexed by all (2905): a
  moment defined after one that has not started is saved under any name, and the array may overflow.
  Likewise, weights are saved by the number of the accumulator among all (2994) and read by that among
  the saved ones (2781).
* In exact mode a moment must be given both its first step and the time at its start: with `-1` for
  one of them, as all examples have it, the comparison fails (754).
* For a variance that is new or reset in a restarted run, `l_id[-1]` is read (1960).
* An accumulator is looked for without its location (1258); a moment defined again under another
  name leaves the first field as it is (1949); `t_prev` is an integer (189).
* A weight function that is zero at first gives 0/0 as well (2335).

## 6. Running it

In this directory: `tlc -config <run>.cfg <module>` with the module named in `PROJECT.json`, and
`tlapm <M>Proofs.tla`. The longest run, `tl_run`, takes two minutes.

## 7. Not modelled

* **Within the modelled parts**: see the notes of `PROJECT.json`. Mainly: the sections of checkpoints, whose
  mesh locations may have changed between two runs (`cs_restart.c`); each rank reading its own clock; MPI-IO
  with views, byte order; exchanges of the locator without blocking; covariances and local time steps
  of moments; the computation of a variable time step.
* **Numerics** (most of the source): linear solvers, discretised equations, turbulence, radiation,
  particles, atmospheric and compressible flows. Floating-point iterations on fields, out of the reach
  of TLC and of the provers; they have no concurrency of their own.
* **Data and geometry**: halos and interfaces, whose exchanges have fixed counts for each neighbour;
  renumbering, global numbering, partitioning; mesh joining, but for its renumbering of vertices. What could be
  wrong there is in the data they build, and small instances of it would be toys.
* **Input and output**: post-processing and its writers, the index of sections of `cs_io.c`, the mesh
  preprocessor, the interface, the launcher scripts.
* **Tables, generated code**: fields, the account of memory, the expression interpreter.
* **External libraries**: MPI is modelled as the code uses it; the CALCIUM and SYRTHES couplings add to
  the locator and to the group of instances nothing but values.
