------------------------------ MODULE LoopProgram ------------------------------
(***************************************************************************)
(* A program made of loops over partners.  The loops to come are decided   *)
(* by collective operations: who exchanges with whom, which is symmetric,  *)
(* and how many times at each visit, once or twice.  This is what Locator  *)
(* is shown to refine; LoopProgramProofs shows that such a program never   *)
(* blocks and never takes a message for another.                           *)
(*                                                                         *)
(* The exchanges are numbered: plan[k + 1] describes exchange k, and the   *)
(* two exchanges of a visit have consecutive numbers.  A message is the    *)
(* number of the exchange for which it was posted.                         *)
(***************************************************************************)
EXTENDS PartnerLoop

VARIABLES
  plan,     \* the exchanges decided so far
  pass,     \* pass[r]: number of the first exchange of r's current loop
  second    \* second[r]: r is at the second exchange of a visit

\* Those of a loop with one exchange at each visit, or the first, then the second.
Parts == {"only", "first", "second"}
Symmetric(rel) == \A r, q \in Ranks : q \in rel[r] <=> r \in rel[q]

WellFormed(p) ==
  /\ p \in Seq([with : [Ranks -> SUBSET Ranks], part : Parts])
  /\ \A k \in 1 .. Len(p) :
       /\ Symmetric(p[k].with)
       /\ p[k].part = "first" => /\ k < Len(p) /\ p[k + 1].part = "second"
                                 /\ p[k + 1].with = p[k].with
       /\ p[k].part = "second" => k > 1 /\ p[k - 1].part = "first"

\* The partners with which a loop begins: none after the last one.
Begins(p, k, r) == IF k < Len(p) THEN p[k + 1].with[r] ELSE {}

-------------------------------------------------------------------------------
LoopInit ==
  /\ plan = <<>>
  /\ left = [r \in Ranks |-> {}] /\ posted = [r \in Ranks |-> FALSE]
  /\ chan = [p \in Ranks \X Ranks |-> <<>>]
  /\ pass = [r \in Ranks |-> 0] /\ second = [r \in Ranks |-> FALSE]

\* A collective operation: nobody is in a loop, and everybody learns of the next ones.
Decide ==
  /\ \A r \in Ranks : pass[r] = Len(plan)
  /\ WellFormed(plan') /\ Len(plan) <= Len(plan')
  /\ \A k \in 1 .. Len(plan) : plan'[k] = plan[k]
  /\ left' = [r \in Ranks |-> Begins(plan', pass[r], r)]
  /\ UNCHANGED <<posted, chan, pass, second>>

Stamp(r) == IF second[r] THEN pass[r] + 1 ELSE pass[r]

Enter(r) == Post(r, Stamp(r)) /\ UNCHANGED <<left, plan, pass, second>>

Twice(r) == plan[pass[r] + 1].part = "first"

\* The end of an exchange: the visit ends with the last one.
Visit(r) ==
  IF Twice(r) /\ ~second[r]
  THEN /\ second' = [second EXCEPT ![r] = TRUE]
       /\ UNCHANGED left
  ELSE /\ second' = [second EXCEPT ![r] = FALSE]
       /\ left' = [left EXCEPT ![r] = @ \ {Partner(r)}]

Leave(r) == Take(r) /\ Visit(r) /\ UNCHANGED <<plan, pass>>

\* The end of a loop, and the beginning of the next one.
EndLoop(r) ==
  /\ pass[r] < Len(plan) /\ left[r] = {}
  /\ pass' = [pass EXCEPT ![r] = IF Twice(r) THEN @ + 2 ELSE @ + 1]
  /\ left' = [left EXCEPT ![r] = Begins(plan, pass'[r], r)]
  /\ UNCHANGED <<posted, chan, plan, second>>

LoopNext == Decide \/ \E r \in Ranks : Enter(r) \/ Leave(r) \/ EndLoop(r)
loopVars == <<left, posted, chan, plan, pass, second>>
LoopSpec == LoopInit /\ [][LoopNext]_loopVars

\* No message is taken for another: a rank that waits in an exchange takes the message
\* that its partner posted for that exchange.
Paired == \A r \in Ranks : Arrived(r) => Incoming(r) = Stamp(r)

\* The ranks never all wait for each other: while one has a loop to end, some rank
\* can post, take a message, or go on to the next loop.
NeverStuck ==
  (\E r \in Ranks : pass[r] < Len(plan))
    => \E r \in Ranks : /\ pass[r] < Len(plan)
                        /\ left[r] = {} \/ ~posted[r] \/ Arrived(r)
===============================================================================
