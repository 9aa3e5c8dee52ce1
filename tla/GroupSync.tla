------------------------------- MODULE GroupSync -------------------------------
(***************************************************************************)
(* What ple_coupling_mpi_set_synchronize promises to a set of coupled      *)
(* applications, without its messages: each member of the group joins with *)
(* a value; once all members have joined, the exchange closes, and each of *)
(* them finds the same vector of values, whenever it comes to look at it.  *)
(* A member that announced its end is left out of the next exchanges.      *)
(***************************************************************************)
CONSTANTS
  Apps,      \* the applications of the set
  TimeSteps, \* the time steps they may give
  Offers,    \* the values a member may join with
  Starts,    \* the values a member may have when the set is created
  None       \* no value

Flag == {"INIT", "NO_SYNC", "STOP", "LAST", "NEW", "REDO", "TS_MIN", "TS_LEADER"}
Values == [flags : SUBSET Flag, ts : TimeSteps]

ASSUME ValueAssumption == Offers \subseteq Values /\ Starts \subseteq Values
ASSUME NoneAssumption == None \notin Values /\ None \notin [Apps -> Values]

VARIABLES
  view,     \* view[a]: the statuses and time steps of all members, as a knows them
  joined,   \* joined[a]: the value with which a waits for the exchange, or None
  out       \* out[a]: the vector of a closed exchange that a has not read, or None

groupVars == <<view, joined, out>>

\* Flags after which a member takes no more part.
LastSync == {"NO_SYNC", "STOP", "LAST"}

\* Before an exchange, members that announced their end become unsynchronized.
MarkFlags(f) == (f \ {"INIT"}) \cup (IF f \cap LastSync # {} THEN {"NO_SYNC"} ELSE {})
Mark(s) == [b \in Apps |-> [flags |-> MarkFlags(s[b].flags), ts |-> s[b].ts]]
Active(s) == {b \in Apps : "NO_SYNC" \notin s[b].flags}

\* All members start from the same statuses, those given at the set's creation.
GroupInit ==
  /\ \E s \in [Apps -> Starts] : view = [a \in Apps |-> s]
  /\ joined = [a \in Apps |-> None]
  /\ out = [a \in Apps |-> None]

\* A member calls synchronize; one that is not synchronized returns at once.
Join(a, v) ==
  /\ joined[a] = None /\ out[a] = None
  /\ view' = [view EXCEPT ![a] = Mark(view[a])]
  /\ joined' = IF a \in Active(Mark(view[a])) THEN [joined EXCEPT ![a] = v] ELSE joined
  /\ UNCHANGED out

\* The members' values, and the last ones of those that left, as r knows them.
Vector(S, r) == [b \in Apps |-> IF b \in S THEN joined[b] ELSE view[r][b]]

\* All members of a group have joined: each is owed the vector of their values.
Close(S) ==
  /\ S # {} /\ \A a \in S : joined[a] # None /\ Active(view[a]) = S
  /\ \E r \in S : out' = [a \in Apps |-> IF a \in S THEN Vector(S, r) ELSE out[a]]
  /\ joined' = [a \in Apps |-> IF a \in S THEN None ELSE joined[a]]
  /\ UNCHANGED view

\* Mutant: a member does not save its own entry of the vector.
Deliver_NotOwn(a) ==
  /\ out[a] # None
  /\ view' = [view EXCEPT ![a] = [out[a] EXCEPT ![a] = view[a][a]]]
  /\ out' = [out EXCEPT ![a] = None]
  /\ UNCHANGED joined

Deliver(a) ==
  /\ out[a] # None
  /\ view' = [view EXCEPT ![a] = out[a]]
  /\ out' = [out EXCEPT ![a] = None]
  /\ UNCHANGED joined

GroupNext == \/ \E a \in Apps : (\E v \in Offers : Join(a, v)) \/ Deliver(a)
             \/ \E S \in SUBSET Apps : Close(S)

GroupSpec == GroupInit /\ [][GroupNext]_groupVars

-------------------------------------------------------------------------------
\* A member knows one status of each application.
GroupTypeOK == /\ view \in [Apps -> [Apps -> Values]]
               /\ joined \in [Apps -> Values \cup {None}]
               /\ out \in [Apps -> [Apps -> Values] \cup {None}]

\* Members that wait in the same exchange agree on the whole state of the set, hence
\* on who takes part in it and on who collects (ple_coupling_mpi_set_synchronize).
Agreement == \A a, b \in Apps : joined[a] # None /\ joined[b] # None => view[a] = view[b]
===============================================================================
