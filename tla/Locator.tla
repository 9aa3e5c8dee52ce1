-------------------------------- MODULE Locator --------------------------------
(***************************************************************************)
(* The parallel location of ple_locator.c, from ple_locator_set_mesh to    *)
(* the exchanges of values that use it, as the couplings of the code call  *)
(* it: each rank finds, among the elements of the ranks of the other       *)
(* application, the nearest one to each of its points; while some point of *)
(* either side has none and allow_nearest is set, the search is extended   *)
(* with a larger tolerance; then variables are exchanged, in either        *)
(* direction, between points and the elements they are in.                 *)
(*                                                                         *)
(* What follows a collective operation is decided there, for all ranks:    *)
(* plan is the sequence of loops over partners of LoopProgram, with the    *)
(* phase of each.  Space has one dimension, and point_list is NULL.        *)
(***************************************************************************)
EXTENDS PartnerLoop, SequencesExt, FiniteSetsExt

CONSTANT Setups  \* far: the ranks each rank locates its points on; pts, elts: coordinates
                 \* of the points and the elements of each rank, by id; tol: tolerances;
                 \* nearest: allow_nearest; calls: exchanges, with their direction and
                 \* the ranks that pass a distant_var (dist) and a local_var (loc)

ASSUME SetupAssumption ==
  \A s \in Setups : /\ s.far \in [Ranks -> SUBSET Ranks]
                    /\ \A r, q \in Ranks : q \in s.far[r] <=> r \in s.far[q]
                    /\ s.pts \in [Ranks -> Seq(Int)] /\ s.elts \in [Ranks -> Seq(Int)]
                    /\ s.tol \in [Ranks -> Int] /\ s.nearest \in BOOLEAN
                    /\ s.calls \in
                         Seq([reverse : BOOLEAN, dist : SUBSET Ranks, loc : SUBSET Ranks])

VARIABLES
  setup,      \* constant during a run
  plan, pass, second,    \* as in LoopProgram
  stage,      \* the next collective operation
  round,      \* number of extensions of the search
  loc,        \* loc[r][p]: location, location_rank_id and distance of point p
  todo,       \* todo[r]: the points yet to locate, by id
  got,        \* got[r]: what the first exchange of a visit received
  partners,   \* intersect_rank
  interior,   \* interior_list: the located points
  local_ids,  \* local_ids[r][q]: local_point_ids of those located on rank q
  n_dist,     \* n_dist[r][q]: number of points of q located on r
  distants,   \* distants[r][q]: distant_point_location and distant_point_coords of these
  result,     \* result[r]: values written to the arrays of r, by call and place
  aborted     \* ple_error was called

lists == <<partners, interior, local_ids, n_dist, distants>>
vars == <<setup, plan, pass, second, left, posted, chan, stage, round, loc, todo, got,
          lists, result, aborted>>

Relations == [k \in 1 .. Len(plan) |-> [with |-> plan[k].with, part |-> plan[k].part]]
Stamps == [p \in Ranks \X Ranks |-> [k \in 1 .. Len(chan[p]) |-> chan[p][k].stamp]]
Loop == INSTANCE LoopProgram WITH plan <- Relations, chan <- Stamps

-------------------------------------------------------------------------------
\* The mesh functions that the caller provides.  Elements are reduced to a coordinate,
\* and have the same length: what matters here is which one is the nearest.
Abs(n) == IF n < 0 THEN -n ELSE n
Tolerance(q, k) == setup.tol[q] * 4^k
Near(q, x, k) ==
  {e \in DOMAIN setup.elts[q] : Abs(x - setup.elts[q][e]) < Tolerance(q, k)}

\* fvm_point_location_nodal: the first of the nearest elements and its distance, or -1.
Locate(q, x) ==
  LET near == Near(q, x, round)
      dist == {Abs(x - setup.elts[q][e]) : e \in near}
  IN  IF near = {} THEN [elt |-> -1, dist |-> -1]
      ELSE [elt |-> Min({e \in near : Abs(x - setup.elts[q][e]) = Min(dist)}),
            dist |-> Min(dist)]

\* Extents of a set of coordinates.  Those of an empty set go from HUGE_VAL to HUGE_VAL:
\* the test of the upper end reads the lower one.
Huge == 10000
Extents(S, t) == IF S = {} THEN [lo |-> Huge, hi |-> Huge]
                 ELSE [lo |-> Min(S) - t, hi |-> Max(S) + t]
MeshExtents(q) == Extents(Range(setup.elts[q]), Tolerance(q, round))
Within(x, e) == e.lo <= x /\ x <= e.hi
Meet(e, f) == e.lo <= f.hi /\ f.lo <= e.hi

\* The first points, as many as there are to locate: location is not NULL.
PointExtents(r, n) == Extents({setup.pts[r][j] : j \in 1 .. n}, 0)

\* The numbers of S in ascending order: the k-th one has k of them up to it.
Ascending(S) ==
  [k \in 1 .. Cardinality(S) |-> CHOOSE i \in S : Cardinality({j \in S : j <= i}) = k]

\* Those to send to q, by their place in todo, and their coordinates: they are read
\* through _point_list_p, which is left to point_list, and not through _point_list.
Chosen(r, q) ==
  Ascending({j \in DOMAIN todo[r] : Within(setup.pts[r][j], MeshExtents(q))})
Coords(r, q) == [k \in DOMAIN Chosen(r, q) |-> setup.pts[r][Chosen(r, q)[k]]]

Unlocated == [rank |-> -1, elt |-> -1, dist |-> -1]
PointsOn_All(r, q) == Ascending(DOMAIN loc[r])
PointsOn(r, q) == Ascending({p \in DOMAIN loc[r] : loc[r][p].rank = q})
Rel(S) == [r \in Ranks |-> [q \in Ranks |-> S]]

-------------------------------------------------------------------------------
Init ==
  /\ setup \in Setups
  /\ plan = <<>> /\ pass = [r \in Ranks |-> 0] /\ second = [r \in Ranks |-> FALSE]
  /\ left = [r \in Ranks |-> {}] /\ posted = [r \in Ranks |-> FALSE]
  /\ chan = [p \in Ranks \X Ranks |-> <<>>]
  /\ stage = "flags" /\ round = 0 /\ aborted = FALSE
  /\ loc = [r \in Ranks |-> <<>>] /\ todo = loc /\ got = loc /\ interior = loc
  /\ partners = [r \in Ranks |-> {}]
  /\ local_ids = Rel(<<>>) /\ n_dist = Rel(0) /\ distants = Rel(<<>>)
  /\ result = [r \in Ranks |-> {}]

Entry(w, ph, part, c) == [with |-> w, phase |-> ph, part |-> part, call |-> c]
Once(w, ph) == <<Entry(w, ph, "only", 0)>>
Both(w, ph) == <<Entry(w, ph, "first", 0), Entry(w, ph, "second", 0)>>

\* One loop for each call of ple_locator_exchange_point_var, one after the other.
Exchanges(w) ==
  [k \in 1 .. 2 * Len(setup.calls) |->
     Entry(w, "exchange", IF k % 2 = 1 THEN "first" ELSE "second", (k + 1) \div 2)]

\* A collective operation, and the loops that follow until the next one.
Decide(next, loops) ==
  /\ ~aborted /\ \A r \in Ranks : pass[r] = Len(plan)
  /\ stage' = next /\ plan' = plan \o loops
  /\ left' = [r \in Ranks |-> Loop!Begins(plan', pass[r], r)]
  /\ UNCHANGED <<setup, posted, chan, pass, second, got, result, aborted>>

\* ple_locator_extend_search: is there something to locate?  Then the lists of the
\* previous search, if there was one, tell which points are located already.
Flags ==
  /\ stage = "flags"
  /\ loc' = [r \in Ranks |-> [p \in DOMAIN setup.pts[r] |-> Unlocated]]
  /\ IF \A r \in Ranks : setup.pts[r] = <<>>
     THEN Decide("located", <<>>)
     ELSE Decide("extents", Once(partners, "transfer"))
  /\ UNCHANGED <<round, todo, lists>>

\* _intersects_distant: the ranks whose extents may have something in common.
Intersect_OneWay(r, q, n) == Meet(PointExtents(r, n[r]), MeshExtents(q))
Intersect(r, q, n) ==
  \/ Meet(PointExtents(r, n[r]), MeshExtents(q))
  \/ Meet(MeshExtents(r), PointExtents(q, n[q]))
Intersects(n) ==
  [r \in Ranks |-> {q \in setup.far[r] : Intersect(r, q, n)}]

\* The lists of the previous search are freed, the points without location filtered.
GatherExtents ==
  /\ stage = "extents"
  /\ todo' = [r \in Ranks |-> Ascending({p \in DOMAIN loc[r] : loc[r][p].elt < 0})]
  /\ Decide("ranks", Both(Intersects([r \in Ranks |-> Len(todo'[r])]), "search"))
  /\ partners' = [r \in Ranks |-> {}] /\ interior' = [r \in Ranks |-> <<>>]
  /\ local_ids' = Rel(<<>>) /\ n_dist' = Rel(0) /\ distants' = Rel(<<>>)
  /\ UNCHANGED <<round, loc>>

\* _location_ranks: the ranks that one has located something on, and the reverse.
LocatedOn(r, q) == \E p \in DOMAIN loc[r] : loc[r][p].rank = q
Linked_OneWay(r, q) == LocatedOn(r, q)
Linked(r, q) == LocatedOn(r, q) \/ LocatedOn(q, r)
LocationRanks ==
  /\ stage = "ranks"
  /\ partners' = [r \in Ranks |-> {q \in setup.far[r] : Linked(r, q)}]
  /\ interior' =
       [r \in Ranks |-> Ascending({p \in DOMAIN loc[r] : loc[r][p].rank > -1})]
  /\ Decide("located", Once(partners', "counts") \o Once(partners', "points"))
  /\ UNCHANGED <<round, loc, todo, local_ids, n_dist, distants>>

\* reduced_index: the place of a point in interior_list.
Reduced(r, p) == CHOOSE i \in DOMAIN interior[r] : interior[r][i] = p

\* The caller's test, _is_location_complete: extend the search, or use its result.
Located ==
  /\ stage = "located"
  /\ local_ids' = [r \in Ranks |-> [q \in Ranks |->
                    [k \in DOMAIN local_ids[r][q] |-> Reduced(r, local_ids[r][q][k])]]]
  /\ IF setup.nearest /\ \E r \in Ranks : Len(interior[r]) < Len(setup.pts[r])
     THEN round' = round + 1 /\ Decide("flags", <<>>)
     ELSE /\ Decide("done", Exchanges(partners))
          /\ UNCHANGED round
  /\ UNCHANGED <<loc, todo, partners, interior, n_dist, distants>>

-------------------------------------------------------------------------------
At(r, ph) == plan[pass[r] + 1].phase = ph
Call(r) == setup.calls[plan[pass[r] + 1].call]

\* dist_v_flag: r has values for the points of q, or wants those of the points.
Flag(r, q) == r \in Call(r).dist /\ distants[r][q] # <<>>

\* The variables: a value tells where it was defined.
DistantVar(r, q) == [k \in DOMAIN distants[r][q] |->
                       [rank |-> r, elt |-> distants[r][q][k].elt, x |-> distants[r][q][k].x]]
LocalVar_NoIds(r, q) ==
  [k \in DOMAIN local_ids[r][q] |-> [rank |-> r, point |-> interior[r][k]]]
LocalVar(r, q) == [k \in DOMAIN local_ids[r][q] |->
                     [rank |-> r, point |-> interior[r][local_ids[r][q][k]]]]

\* What r sends to q in the exchange it is at.  A visit of the search has two pairs of
\* MPI_Sendrecv in a row, of a count and the coordinates and of locations and distances:
\* nothing is read or decided within a pair, and messages of two ranks do not overtake
\* each other, so that each pair is one exchange here.
Message(r, q) ==
  CASE At(r, "transfer") -> [k \in DOMAIN distants[r][q] |-> distants[r][q][k].elt]
    [] At(r, "search")   -> IF second[r] THEN [k \in DOMAIN got[r] |-> Locate(r, got[r][k])]
                            ELSE Coords(r, q)
    [] At(r, "counts")   -> <<Len(PointsOn(r, q))>>
    [] At(r, "points")   -> [k \in DOMAIN PointsOn(r, q) |->
                               LET p == PointsOn(r, q)[k]
                               IN  [elt |-> loc[r][p].elt, x |-> setup.pts[r][p]]]
    [] At(r, "exchange") -> IF ~second[r] THEN <<Flag(r, q)>>
                            ELSE IF Call(r).reverse
                            THEN IF got[r][1] THEN LocalVar(r, q) ELSE <<>>
                            ELSE IF Flag(r, q) THEN DistantVar(r, q) ELSE <<>>

\* The number of values that r has room for, in the receive it is at; for coordinates,
\* what q has just announced, from the list that it then sends.
Room(r, q) ==
  CASE At(r, "transfer") -> Len(local_ids[r][q])
    [] At(r, "search")   -> Len(IF second[r] THEN Chosen(r, q) ELSE Chosen(q, r))
    [] At(r, "counts")   -> 1
    [] At(r, "points")   -> n_dist[r][q]
    [] At(r, "exchange") -> IF ~second[r] THEN 1
                            ELSE IF Call(r).reverse
                            THEN IF Flag(r, q) THEN Len(distants[r][q]) ELSE 0
                            ELSE IF got[r][1] THEN Len(local_ids[r][q]) ELSE 0

Enter(r) ==
  /\ ~aborted
  /\ Post(r, [stamp |-> Loop!Stamp(r), data |-> Message(r, Partner(r))])
  /\ UNCHANGED <<setup, plan, pass, second, left, stage, round, loc, todo, got, lists,
                 result, aborted>>

\* The points that q located before: which element it was is not used.
Transfer(r, q, m) ==
  /\ At(r, "transfer")
  /\ loc' = [loc EXCEPT ![r] = [p \in DOMAIN loc[r] |->
       IF \E k \in DOMAIN m : interior[r][local_ids[r][q][k]] = p
       THEN [rank |-> q, dist |-> -1,
             elt |-> m[CHOOSE k \in DOMAIN m : interior[r][local_ids[r][q][k]] = p]]
       ELSE loc[r][p]]]
  /\ UNCHANGED <<got, lists, result, aborted>>

\* The first exchange of a visit: coordinates to locate.
Asked(r, q, m) ==
  /\ At(r, "search") /\ ~second[r]
  /\ got' = [got EXCEPT ![r] = m]
  /\ UNCHANGED <<loc, lists, result, aborted>>

\* An answer is kept when it is nearer than those of the ranks visited before.
Better_Last(a, l) == 10 * a.dist > -1
Better(a, l) == 10 * a.dist > -1 /\ (a.dist < l.dist \/ l.elt < 0)

Answered(r, q, m) ==
  /\ At(r, "search") /\ second[r]
  /\ loc' = [loc EXCEPT ![r] = [p \in DOMAIN loc[r] |->
       IF \E k \in DOMAIN m : todo[r][Chosen(r, q)[k]] = p /\ Better(m[k], loc[r][p])
       THEN LET k == CHOOSE k \in DOMAIN m : todo[r][Chosen(r, q)[k]] = p
            IN  [rank |-> q, elt |-> m[k].elt, dist |-> m[k].dist]
       ELSE loc[r][p]]]
  /\ got' = [got EXCEPT ![r] = <<>>]
  /\ UNCHANGED <<lists, result, aborted>>

Counted_Index(r, q, m) ==
  /\ At(r, "counts")
  /\ n_dist' = [n_dist EXCEPT ![r][q] = m[1] + MapThenSumSet(LAMBDA s : n_dist[r][s], Ranks)]
  /\ UNCHANGED <<loc, got, partners, interior, local_ids, distants, result, aborted>>

Counted(r, q, m) ==
  /\ At(r, "counts")
  /\ n_dist' = [n_dist EXCEPT ![r][q] = m[1]]
  /\ UNCHANGED <<loc, got, partners, interior, local_ids, distants, result, aborted>>

Listed(r, q, m) ==
  /\ At(r, "points")
  /\ local_ids' = [local_ids EXCEPT ![r][q] = PointsOn(r, q)]
  /\ distants' = [distants EXCEPT ![r][q] = m]
  /\ UNCHANGED <<loc, got, partners, interior, n_dist, result, aborted>>

\* _exchange_point_var_distant: q has values, or wants them, and r should have an array.
Flagged(r, q, m) ==
  /\ At(r, "exchange") /\ ~second[r]
  /\ got' = [got EXCEPT ![r] = m]
  /\ aborted' = (m[1] /\ (r \notin Call(r).loc \/ local_ids[r][q] = <<>>))
  /\ UNCHANGED <<loc, lists, result>>

Exchanged(r, q, m) ==
  /\ At(r, "exchange") /\ second[r]
  /\ LET place(k) == IF Call(r).reverse THEN <<q, k>> ELSE <<0, local_ids[r][q][k]>>
         written == {[call |-> plan[pass[r] + 1].call, at |-> place(k), val |-> m[k]] :
                       k \in DOMAIN m}
     IN  result' = [result EXCEPT ![r] = @ \cup written]
  /\ got' = [got EXCEPT ![r] = <<>>]
  /\ UNCHANGED <<loc, lists, aborted>>

\* The message of the partner arrives.
Leave(r) ==
  /\ ~aborted /\ Take(r) /\ Loop!Visit(r)
  /\ LET q == Partner(r)
         m == Incoming(r).data
     IN  \/ Transfer(r, q, m)
         \/ Asked(r, q, m)
         \/ Answered(r, q, m)
         \/ Counted(r, q, m)
         \/ Listed(r, q, m)
         \/ Flagged(r, q, m)
         \/ Exchanged(r, q, m)
  /\ UNCHANGED <<setup, plan, pass, stage, round, todo>>

EndLoop(r) ==
  /\ ~aborted
  /\ UNCHANGED <<setup, plan, chan, stage, round, loc, todo, got, lists, result, aborted>>
  /\ Loop!EndLoop(r)

Next ==
  \/ Flags \/ GatherExtents \/ LocationRanks \/ Located
  \/ \E r \in Ranks : Enter(r) \/ Leave(r) \/ EndLoop(r)

Spec == Init /\ [][Next]_vars

\* Each rank runs until it ends, and messages that were posted arrive.
FairSpec ==
  /\ Spec /\ WF_vars(Flags \/ GatherExtents \/ LocationRanks \/ Located)
  /\ \A r \in Ranks : WF_vars(Enter(r)) /\ WF_vars(Leave(r)) /\ WF_vars(EndLoop(r))

-------------------------------------------------------------------------------
TypeOK ==
  /\ setup \in Setups /\ round \in Nat /\ aborted \in BOOLEAN
  /\ stage \in {"flags", "extents", "ranks", "located", "done"}
  /\ pass \in [Ranks -> 0 .. Len(plan)] /\ second \in [Ranks -> BOOLEAN]
  /\ left \in [Ranks -> SUBSET Ranks] /\ posted \in [Ranks -> BOOLEAN]
  /\ \A r \in Ranks :
       /\ partners[r] \subseteq setup.far[r]
       /\ Range(todo[r]) \cup Range(interior[r]) \subseteq DOMAIN setup.pts[r]
       /\ \A q \in Ranks : Len(local_ids[r][q]) <= Len(interior[r])

Ended == stage = "done" /\ \A r \in Ranks : pass[r] = Len(plan)

\* The candidates for point p of r, with the tolerance of extension k.
Candidates(r, p, k) ==
  UNION {{<<q, e>> : e \in Near(q, setup.pts[r][p], k)} : q \in setup.far[r]}
Distance(r, p, c) == Abs(setup.pts[r][p] - setup.elts[c[1]][c[2]])

\* A point is located on the nearest element of all ranks of the other side, of those
\* within the first tolerance with which there was one, and on none without one.
NearestFound ==
  stage = "done" =>
    \A r \in Ranks : \A p \in DOMAIN setup.pts[r] :
      LET found == <<loc[r][p].rank, loc[r][p].elt>>
          rounds == {k \in 0 .. round : Candidates(r, p, k) # {}}
      IN  IF rounds = {} THEN found = <<-1, -1>> /\ p \notin Range(interior[r])
          ELSE LET cs == Candidates(r, p, Min(rounds))
               IN  /\ found \in cs
                   /\ \A c \in cs : Distance(r, p, found) <= Distance(r, p, c)

\* That is so if, whenever a search is extended, the points that are left are the first
\* ones of their rank: those that the pointer to the points then reads.
Reaches(s, r, p, k) ==
  \E q \in s.far[r] : \E e \in DOMAIN s.elts[q] :
    Abs(s.pts[r][p] - s.elts[q][e]) < s.tol[q] * 4^k
InOrder(s, K) ==
  s.nearest =>
    \A r \in Ranks : \A p \in DOMAIN s.pts[r] : \A o \in 1 .. p - 1 : \A k \in K :
      Reaches(s, r, o, k) => \E j \in K : j <= k /\ Reaches(s, r, p, j)

\* What a call writes: at each point, the value of its element; in reverse, at each
\* distant point, the value of that very point.
Written(r, c) == {v \in result[r] : v.call = c}
ForwardDone(r, c) ==
  Written(r, c) =
    {LET p == interior[r][i]
     IN  [call |-> c, at |-> <<0, i>>,
          val |-> [rank |-> loc[r][p].rank, elt |-> loc[r][p].elt, x |-> setup.pts[r][p]]] :
       i \in {k \in DOMAIN interior[r] :
                loc[r][interior[r][k]].rank \in setup.calls[c].dist}}
ReverseDone(r, c) ==
  /\ {v.val : v \in Written(r, c)} =
       {v \in UNION {[rank : {q}, point : DOMAIN setup.pts[q]] : q \in Ranks} :
          r \in setup.calls[c].dist /\ loc[v.rank][v.point].rank = r}
  /\ \A v \in Written(r, c) :
       /\ v.at[1] = v.val.rank
       /\ distants[r][v.at[1]][v.at[2]].elt = loc[v.val.rank][v.val.point].elt
       /\ distants[r][v.at[1]][v.at[2]].x = setup.pts[v.val.rank][v.val.point]

\* Both ends of an exchange agree on the points it is about and on their order, through
\* all the lists that were built apart from each other: values reach their points, and
\* the arrays that are passed are complete, or the calls do not match and the run stops.
Coherent(c) == \A r, q \in Ranks :
                 r \in setup.calls[c].dist /\ LocatedOn(q, r) => q \in setup.calls[c].loc
ValuesReach ==
  /\ Ended => \A c \in DOMAIN setup.calls :
                /\ Coherent(c)
                /\ \A r \in Ranks : IF setup.calls[c].reverse THEN ReverseDone(r, c)
                                    ELSE ForwardDone(r, c)
  /\ aborted => \E c \in DOMAIN setup.calls : ~Coherent(c)

\* Whatever arrives fits in the array that was allocated for it, and fills it: the sizes
\* were computed by each end from what the other told it in an earlier loop.
MessagesFit ==
  \A r \in Ranks : Arrived(r) => Len(Incoming(r).data) = Room(r, Partner(r))

\* The loops are those of LoopProgram: in particular, the ranks always agree on who
\* exchanges with whom, though each one computes its own list.
RefinesLoopProgram == Loop!LoopSpec

\* The location ends, whatever the tolerance it needs, and so do the exchanges, unless
\* they stop the run.
Completes == <>(aborted \/ Ended)
===============================================================================
