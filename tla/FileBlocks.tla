------------------------------ MODULE FileBlocks ------------------------------
(***************************************************************************)
(* A file written, then read back by another run of the program, through   *)
(* the global and block calls of cs_file.c, as the sections of cs_io.c     *)
(* make them.  All ranks make the same sequence of calls, each at its own  *)
(* pace.  With the serial method only rank 0 has the file: it asks the     *)
(* others for their blocks in turn (cs_file_serializer_advance), or deals  *)
(* theirs to them.  With the parallel one, for reading, and with MPI-IO,   *)
(* each rank accesses its own block at the offset that it has computed.    *)
(*                                                                         *)
(* An item of a file is <<c, i>>, the i-th value of call c; its size is 1. *)
(***************************************************************************)
EXTENDS BlockDist, SequencesExt, FiniteSetsExt

CONSTANTS
  Ranks,   \* 0 .. the largest number of ranks - 1
  Setups   \* n_ranks, step, min_block, method: of the writing and of the reading run;
           \* calls; buffered: do messages leave before they are received?

Operations == [op : {"global"}, n : Nat] \cup [op : {"block"}, n : Nat, stride : Nat]
                \cup [op : {"align"}, to : Nat \ {0}, header : BOOLEAN]

ASSUME RanksAssumption == IsFiniteSet(Ranks) /\ Ranks \subseteq Nat
ASSUME SetupAssumption == \A s \in Setups :
  /\ s.calls \in Seq(Operations)
  /\ \A k \in 1 .. 2 :
       /\ s.n_ranks[k] \in Nat /\ 0 .. s.n_ranks[k] - 1 \subseteq Ranks
       /\ s.step[k] \in 1 .. s.n_ranks[k] /\ s.min_block[k] \in Int
       /\ s.method[k] \in IF k = 1 THEN {"serial", "mpi"} ELSE {"serial", "parallel", "mpi"}
       /\ s.n_ranks[k] = 1 => s.method[k] = "serial"

VARIABLES
  setup,     \* constant
  layout,    \* what the calls of setup describe: for the properties, constant
  run,       \* 1: the file is written; 2: it is read
  file,      \* a function of positions, from 0
  call,      \* call[r]: the call that r is in
  phase,     \* phase[r]: how far in it
  offset,    \* f->offset of each rank
  pos,       \* position of the stream f->sh of each rank
  told,      \* told[r]: what cs_file_tell returned
  ser,       \* the serializer of rank 0: count, next_rank_id, next_g_num; and dist_rank
  mail,      \* messages between two ranks, in order
  coll,      \* the same for those of collective operations
  got,       \* got[r][c]: what call c read on rank r
  aborted    \* bft_error was called

vars == <<setup, layout, run, file, call, phase, offset, pos, told, ser, mail, coll, got,
          aborted>>

-------------------------------------------------------------------------------
n_ranks == setup.n_ranks[run]
Active == 0 .. n_ranks - 1
method == setup.method[run]
writing == run = 1
n_calls == Len(setup.calls)
Op(r) == setup.calls[call[r]]

\* The block of a rank in call c of run k, in numbers of entities, then of values.
Step(k, c) == RankStep(setup.n_ranks[k], setup.step[k], setup.min_block[k], setup.calls[c].n)
Start(k, r, c) == BlockStart(r, setup.n_ranks[k], Step(k, c), setup.calls[c].n)
End(k, r, c) == BlockEnd(r, setup.n_ranks[k], Step(k, c), setup.calls[c].n)
FirstIn(k, r, c) == (Start(k, r, c) - 1) * setup.calls[c].stride + 1
CountIn(k, r, c) == (End(k, r, c) - Start(k, r, c)) * setup.calls[c].stride
First(r) == FirstIn(run, r, call[r])
Count(r) == CountIn(run, r, call[r])

\* n values of a call, from a given one.
Values(c, first, n) == [i \in 1 .. n |-> <<c, first + i - 1>>]
Block(r) == Values(call[r], First(r), Count(r))

Padding(n, a) == (a - (n % a)) % a

Put(at, values) ==
  [p \in DOMAIN file \cup at .. at + Len(values) - 1 |->
     IF p >= at /\ p < at + Len(values) THEN values[p - at + 1] ELSE file[p]]
\* What is read; past the end of the file, only the standard library reports an error.
Get(at, n) == [i \in 1 .. n |-> IF at + i - 1 \in DOMAIN file THEN file[at + i - 1] ELSE <<>>]
\* Mutant: one value more is asked for.
Missing_Next(at, n) == method # "mpi" /\ ~(at .. at + n \subseteq DOMAIN file)
Missing(at, n) == method # "mpi" /\ ~(at .. at + n - 1 \subseteq DOMAIN file)

-------------------------------------------------------------------------------
\* Messages.  A send that is not buffered returns when the message is received.
Posted(ch, p, q, m) == [ch EXCEPT ![<<p, q>>] = Append(@, m)]
Taken(ch, p, q) == [ch EXCEPT ![<<p, q>>] = Tail(@)]
FromRoot(root, m) ==
  [pq \in DOMAIN coll |->
     IF pq[1] = root /\ pq[2] \in Active \ {root} THEN Append(coll[pq], m[pq[2]])
     ELSE coll[pq]]
Arrived(ch, p, q) == ch[<<p, q>>] # <<>>

Free(r) == /\ ~aborted /\ r \in Active /\ call[r] <= n_calls
           /\ setup.buffered \/ \A q \in Ranks : ~Arrived(mail, r, q) /\ ~Arrived(coll, r, q)
In(r, op, ph) == Free(r) /\ Op(r).op = op /\ phase[r] = ph

Goto(r, ph) == phase' = [phase EXCEPT ![r] = ph] /\ UNCHANGED call
Return(r) == /\ call' = [call EXCEPT ![r] = @ + 1]
             /\ phase' = [phase EXCEPT ![r] = "start"]

Abort == /\ aborted' = TRUE
         /\ UNCHANGED <<setup, layout, run, file, call, phase, offset, pos, told, ser, mail,
                        coll, got>>

-------------------------------------------------------------------------------
\* _write_padding and its counterpart when reading: the position is asked, then moved.
Position_Stream == pos[0]
Position == IF method = "serial" THEN pos[0] ELSE offset[0]
Tell(r) ==
  /\ In(r, "align", "start")
  /\ IF r = 0 THEN /\ told' = [told EXCEPT ![r] = Position]
                   /\ coll' = FromRoot(0, [q \in Active |-> Position])
     ELSE /\ Arrived(coll, 0, r)
          /\ told' = [told EXCEPT ![r] = Head(coll[<<0, r>>])]
          /\ coll' = Taken(coll, 0, r)
  /\ Goto(r, "pad")
  /\ UNCHANGED <<setup, layout, run, file, offset, pos, ser, mail, got, aborted>>

\* The padding of a header is skipped from where the rank is (CS_FILE_SEEK_CUR), that of a
\* body goes to the position told.  Only streams that are open move.
Seek(r) ==
  LET add == Padding(told[r], Op(r).to)
      To(n) == IF Op(r).header THEN n + add ELSE told[r] + add
  IN  /\ ~writing /\ In(r, "align", "pad")
      /\ offset' = [offset EXCEPT ![r] = To(@)]
      /\ pos' = [pos EXCEPT ![r] = IF @ = -1 THEN -1 ELSE To(@)]
      /\ Return(r)
      /\ UNCHANGED <<setup, layout, run, file, told, ser, mail, coll, got, aborted>>

\* cs_file_write_global, of a section, or of the padding of a rank that finds some missing.
GlobalSize(r) == IF Op(r).op = "align" THEN Padding(told[r], Op(r).to) ELSE Op(r).n
WriteGlobal(r) ==
  LET n == GlobalSize(r)
  IN  /\ writing
      /\ In(r, "global", "start") \/ In(r, "align", "pad")
      /\ IF n = 0 THEN UNCHANGED <<file, pos, coll>>
         ELSE IF r = 0 THEN /\ file' = Put(Position, Values(call[r], 1, n))
                            /\ pos' = [pos EXCEPT ![r] = IF @ = -1 THEN -1 ELSE @ + n]
                            /\ coll' = FromRoot(0, [q \in Active |-> n])
         ELSE /\ Arrived(coll, 0, r)
              /\ coll' = Taken(coll, 0, r)
              /\ UNCHANGED <<file, pos>>
      /\ offset' = [offset EXCEPT ![r] = @ + n]
      /\ Return(r)
      /\ UNCHANGED <<setup, layout, run, told, ser, mail, got, aborted>>

ReadGlobal(r) ==
  LET n == Op(r).n
      data == IF r = 0 THEN Get(offset[r], n) ELSE Head(coll[<<0, r>>])
  IN  /\ ~writing /\ In(r, "global", "start")
      /\ r # 0 => Arrived(coll, 0, r)
      /\ IF r = 0 /\ Missing(offset[r], n) THEN Abort
         ELSE /\ got' = [got EXCEPT ![r][call[r]] = data]
              /\ pos' = [pos EXCEPT ![r] = IF @ = -1 \/ r # 0 THEN @ ELSE offset[r] + n]
              /\ coll' = IF r = 0 THEN FromRoot(0, [q \in Active |-> data]) ELSE Taken(coll, 0, r)
              /\ offset' = [offset EXCEPT ![r] = @ + n]
              /\ Return(r)
              /\ UNCHANGED <<setup, layout, run, file, told, ser, mail, aborted>>

-------------------------------------------------------------------------------
\* _file_write_block_s.  All ranks deposit their count (_serializer_init).
Gathers(r) == /\ \A q \in Active \ {0} : Arrived(coll, q, 0)
              /\ coll' = [pq \in DOMAIN coll |->
                            IF pq[2] = 0 /\ pq[1] \in Active \ {0} THEN Tail(coll[pq])
                            ELSE coll[pq]]
Gathered == [q \in Active |-> IF q = 0 THEN Count(0) ELSE Head(coll[<<q, 0>>])]

Deposit(r, full, empty) ==
  /\ coll' = Posted(coll, r, 0, Count(r))
  /\ Goto(r, IF Count(r) > 0 THEN full ELSE empty)
  /\ UNCHANGED <<setup, layout, run, file, offset, pos, told, ser, mail, got, aborted>>

Serialized == method = "serial" /\ n_ranks > 1
InitSerializer(r) ==
  /\ writing /\ Serialized /\ In(r, "block", "start")
  /\ IF r # 0 THEN Deposit(r, "sync", "scatter")
     ELSE /\ Gathers(r)
          /\ ser' = [count |-> Gathered, next_rank_id |-> 0, next_g_num |-> First(r),
                     dist_rank |-> 0]
          /\ Goto(r, "advance")
          /\ UNCHANGED <<setup, layout, run, file, offset, pos, told, mail, got, aborted>>

\* The next rank with data.
NextRank_All(k) == k + 1
NextRank(k) == Min({q \in k + 1 .. n_ranks : q = n_ranks \/ ser.count[q] > 0})

\* After the data of next_rank_id, count values, in buf: the serializer moves on, and
\* unless there was none, the caller writes as many values as dist_rank has, then calls
\* cs_file_serializer_advance again.
Moved(buf) ==
  LET k == ser.next_rank_id
      n == ser.count[ser.dist_rank]
  IN  /\ ser' = [ser EXCEPT !.next_rank_id = NextRank(k), !.next_g_num = @ + ser.count[k],
                            !.dist_rank = IF ser.count[k] = 0 THEN @ ELSE NextRank(k)]
      /\ IF ser.count[k] = 0 THEN UNCHANGED <<file, pos>>
         ELSE /\ file' = Put(pos[0], SubSeq(buf, 1, n))
              /\ pos' = [pos EXCEPT ![0] = @ + n]

OwnBlock(r) ==
  /\ r = 0 /\ In(r, "block", "advance") /\ ser.next_rank_id = 0
  /\ Moved(Block(0))
  /\ UNCHANGED <<setup, layout, run, call, phase, offset, told, mail, coll, got, aborted>>

\* Forced synchronization.
SyncRange == <<ser.next_g_num, ser.next_g_num + ser.count[ser.next_rank_id]>>
Request(r) ==
  /\ r = 0 /\ In(r, "block", "advance") /\ ser.next_rank_id \in 1 .. n_ranks - 1
  /\ mail' = Posted(mail, 0, ser.next_rank_id, SyncRange)
  /\ Goto(r, "await")
  /\ UNCHANGED <<setup, layout, run, file, offset, pos, told, ser, coll, got, aborted>>

Serve(r) ==
  /\ r # 0 /\ In(r, "block", "sync") /\ Arrived(mail, 0, r)
  /\ IF Head(mail[<<0, r>>]) # <<First(r), First(r) + Count(r)>>
     THEN Abort
     ELSE /\ mail' = Posted(Taken(mail, 0, r), r, 0, Block(r))
          /\ Goto(r, "scatter")
          /\ UNCHANGED <<setup, layout, run, file, offset, pos, told, ser, coll, got, aborted>>

Collect(r) ==
  LET q == ser.next_rank_id
  IN  /\ r = 0 /\ In(r, "block", "await") /\ Arrived(mail, q, 0)
      /\ mail' = Taken(mail, q, 0)
      /\ Moved(Head(mail[<<q, 0>>]))
      /\ Goto(r, "advance")
      /\ UNCHANGED <<setup, layout, run, offset, told, coll, got, aborted>>

\* Each rank learns how many of its values were written.
Scatter(r) ==
  /\ IF r = 0 THEN /\ In(r, "block", "advance") /\ ser.next_rank_id = n_ranks
                   /\ coll' = FromRoot(0, [q \in Active |-> ser.count[q]])
     ELSE /\ In(r, "block", "scatter") /\ Arrived(coll, 0, r)
          /\ coll' = Taken(coll, 0, r)
  /\ Goto(r, "end")
  /\ UNCHANGED <<setup, layout, run, file, offset, pos, told, ser, mail, got, aborted>>

-------------------------------------------------------------------------------
\* _file_read_block_s: rank 0 reads its block, then those of the others, and deals them.
ReadOwn(r) ==
  LET n == Count(r)
  IN  /\ ~writing /\ Serialized /\ In(r, "block", "start")
      /\ IF r # 0 THEN Deposit(r, "receive", "end")
         ELSE IF Missing(pos[r], n) THEN Abort
         ELSE /\ got' = [got EXCEPT ![r][call[r]] = Get(pos[r], n)]
              /\ pos' = [pos EXCEPT ![r] = @ + n]
              /\ Goto(r, "gather")
              /\ UNCHANGED <<setup, layout, run, file, offset, told, ser, mail, coll, aborted>>

GatherCounts(r) ==
  /\ r = 0 /\ In(r, "block", "gather")
  /\ Gathers(r)
  /\ ser' = [ser EXCEPT !.count = Gathered, !.dist_rank = 1]
  /\ Goto(r, "deal")
  /\ UNCHANGED <<setup, layout, run, file, offset, pos, told, mail, got, aborted>>

Deal(r) ==
  LET q == ser.dist_rank
      n == ser.count[q]
  IN  /\ r = 0 /\ In(r, "block", "deal")
      /\ IF q = n_ranks THEN
           /\ Goto(r, "end")
           /\ UNCHANGED <<setup, layout, run, file, offset, pos, told, ser, mail, coll, got,
                          aborted>>
         ELSE IF Missing(pos[r], n) THEN Abort
         ELSE /\ ser' = [ser EXCEPT !.dist_rank = @ + 1]
              /\ pos' = [pos EXCEPT ![r] = @ + n]
              /\ mail' = IF n = 0 THEN mail ELSE Posted(mail, 0, q, Get(pos[r], n))
              /\ UNCHANGED <<setup, layout, run, file, call, phase, offset, told, coll, got,
                             aborted>>

Receive(r) ==
  /\ r # 0 /\ In(r, "block", "receive") /\ Arrived(mail, 0, r)
  /\ mail' = Taken(mail, 0, r)
  /\ got' = [got EXCEPT ![r][call[r]] = Head(mail[<<0, r>>])]
  /\ Goto(r, "end")
  /\ UNCHANGED <<setup, layout, run, file, offset, pos, told, ser, coll, aborted>>

-------------------------------------------------------------------------------
\* Each rank its own block: _file_read_block_p, which opens the file when it first needs it,
\* the MPI-IO variants, and files with one rank.
Access(r) ==
  LET n == Count(r)
      at == IF method = "serial" THEN pos[r] ELSE offset[r] + First(r) - 1
  IN  /\ ~Serialized /\ In(r, "block", "start")
      /\ IF ~writing /\ Missing(at, n) THEN Abort
         ELSE /\ IF writing THEN file' = Put(at, Block(r)) /\ UNCHANGED got
                 ELSE got' = [got EXCEPT ![r][call[r]] = Get(at, n)] /\ UNCHANGED file
              /\ pos' = [pos EXCEPT ![r] = IF n = 0 \/ method = "mpi" THEN @ ELSE at + n]
              /\ Goto(r, "end")
              /\ UNCHANGED <<setup, layout, run, offset, told, ser, mail, coll, aborted>>

\* All ranks learn where the last block ends, and move their offset there.
LastEnd_Own(r) == End(run, r, call[r])
LastEnd(r) ==
  IF r = n_ranks - 1 THEN End(run, r, call[r]) ELSE Head(coll[<<n_ranks - 1, r>>])
EndBlock(r) ==
  LET last == n_ranks - 1
  IN  /\ In(r, "block", "end")
      /\ IF r = last THEN coll' = FromRoot(last, [q \in Active |-> LastEnd(r)])
         ELSE Arrived(coll, last, r) /\ coll' = Taken(coll, last, r)
      /\ offset' = [offset EXCEPT ![r] = @ + (LastEnd(r) - 1) * Op(r).stride]
      /\ Return(r)
      /\ UNCHANGED <<setup, layout, run, file, pos, told, ser, mail, got, aborted>>

-------------------------------------------------------------------------------
\* The file that the calls of a setup describe: where each one starts, what is to be at
\* each position, and the positions that each writing rank fills.
Layout(s) ==
  LET calls == s.calls
      Length(o, at) == CASE o.op = "global" -> o.n
                         [] o.op = "block"  -> o.n * o.stride
                         [] o.op = "align"  -> Padding(at, o.to)
      Places[c \in 1 .. Len(calls) + 1] ==
        IF c = 1 THEN 0
        ELSE LET before == Places[c - 1] IN before + Length(calls[c - 1], before)
      Extent(c) == Places[c] .. Places[c + 1] - 1
      Parts(c) ==
        IF calls[c].op # "block" THEN {Extent(c)}
        ELSE {{Places[c] + FirstIn(1, r, c) + i - 2 : i \in 1 .. CountIn(1, r, c)} :
                r \in 0 .. s.n_ranks[1] - 1}
  IN  [places |-> [c \in 1 .. Len(calls) + 1 |-> Places[c]],
       blocks |-> (UNION {Parts(c) : c \in 1 .. Len(calls)}) \ {{}},
       contents |-> [p \in 0 .. Places[Len(calls) + 1] - 1 |->
                       LET c == CHOOSE c \in 1 .. Len(calls) : p \in Extent(c)
                       IN  <<c, p - Places[c] + 1>>]]

-------------------------------------------------------------------------------
\* cs_file_open: with the standard library, by rank 0 only.
Opened_Never(k) == [r \in Ranks |-> -1]
Opened(k) == [r \in Ranks |-> IF r = 0 /\ setup.method[k] # "mpi" THEN 0 ELSE -1]
NoMessage == [pq \in Ranks \X Ranks |-> <<>>]

Init ==
  /\ setup \in Setups /\ layout = Layout(setup)
  /\ run = 1 /\ file = <<>>
  /\ call = [r \in Ranks |-> 1] /\ phase = [r \in Ranks |-> "start"]
  /\ offset = [r \in Ranks |-> 0] /\ pos = Opened(1)
  /\ told = [r \in Ranks |-> 0]
  /\ ser = [count |-> <<>>, next_rank_id |-> 0, next_g_num |-> 1, dist_rank |-> 0]
  /\ mail = NoMessage /\ coll = NoMessage
  /\ got = [r \in Ranks |-> [c \in 1 .. Len(setup.calls) |-> <<>>]]
  /\ aborted = FALSE

AllReturned == ~aborted /\ \A r \in Active : call[r] = n_calls + 1

\* The file is closed, and opened again by another run.
Reopen ==
  /\ writing /\ AllReturned
  /\ run' = 2
  /\ call' = [r \in Ranks |-> 1]
  /\ offset' = [r \in Ranks |-> 0] /\ pos' = Opened(2)
  /\ UNCHANGED <<setup, layout, file, phase, told, ser, mail, coll, got, aborted>>

Advance(r) ==
  \/ Tell(r) \/ Seek(r) \/ WriteGlobal(r) \/ ReadGlobal(r)
  \/ InitSerializer(r) \/ OwnBlock(r) \/ Request(r) \/ Serve(r) \/ Collect(r) \/ Scatter(r)
  \/ ReadOwn(r) \/ GatherCounts(r) \/ Deal(r) \/ Receive(r)
  \/ Access(r) \/ EndBlock(r)

Next == Reopen \/ \E r \in Ranks : Advance(r)

Spec == Init /\ [][Next]_vars

\* Ranks are processes that run, and MPI delivers messages.
FairSpec == Spec /\ WF_vars(Reopen) /\ \A r \in Ranks : WF_vars(Advance(r))

-------------------------------------------------------------------------------
TypeOK ==
  /\ setup \in Setups /\ run \in 1 .. 2 /\ aborted \in BOOLEAN
  /\ \A p \in DOMAIN file : p \in Nat /\ file[p] \in (1 .. n_calls) \X Nat
  /\ \A r \in Ranks : /\ call[r] \in 1 .. n_calls + 1
                      /\ phase[r] \in {"start", "pad", "sync", "scatter", "advance", "await",
                                       "receive", "gather", "deal", "end"}
                      /\ offset[r] \in Nat /\ told[r] \in Nat /\ pos[r] \in Nat \cup {-1}
                      /\ DOMAIN got[r] = 1 .. n_calls
  /\ DOMAIN ser.count \subseteq Ranks /\ ser.next_rank_id \in 0 .. Cardinality(Ranks)
  /\ ser.dist_rank \in 0 .. Cardinality(Ranks) /\ ser.next_g_num \in Nat
  /\ DOMAIN mail = Ranks \X Ranks /\ DOMAIN coll = Ranks \X Ranks

\* Two ranks at the same call have the same offset, the one where what the call is about
\* starts; between calls, the stream of rank 0 is there too, when it is not the offset that
\* is given to the next access.
OffsetsAgree == \A r \in Active :
  /\ phase[r] = "start" => offset[r] = layout.places[call[r]]
  /\ phase[r] = "pad" => told[r] = layout.places[call[r]]
  /\ r = 0 /\ phase[r] = "start" /\ method = "serial" => pos[r] = offset[r]

\* Each block is written once, entirely and at its place, whatever the method and the order
\* in which the ranks get there.
Promise == INSTANCE PlacedBlocks WITH blocks <- layout.blocks, contents <- layout.contents
RefinesPlacedBlocks == Promise!Spec

\* The part that a rank asks for of what was written by other ranks, perhaps in another
\* number and by another method.
Part(r, c) ==
  LET o == setup.calls[c]
  IN  CASE o.op = "global" -> Values(c, 1, o.n)
        [] o.op = "block"  -> Values(c, FirstIn(2, r, c), CountIn(2, r, c))
        [] o.op = "align"  -> <<>>

\* No call is an error, synchronizations and ends of file included, and a rank that is back
\* from a call of the reading run has its part.
ReadsParts ==
  /\ ~aborted
  /\ ~writing => \A r \in Active : \A c \in 1 .. call[r] - 1 : got[r][c] = Part(r, c)

\* The reading run ends, on all of its ranks, each of which has its parts; nothing is missing
\* in the file.
ReadBack ==
  /\ ~writing /\ AllReturned /\ file = layout.contents
  /\ \A r \in Active, c \in 1 .. n_calls : got[r][c] = Part(r, c)
Completes == <>[]ReadBack
===============================================================================
