---------------------------- MODULE VectorClock -----------------------------
(***************************************************************************)
(* The vector clocks of api_gateway/distributed_gateway.py: a clock is a    *)
(* function from the nodes it names to counts, a node it does not name has  *)
(* count 0.                                                                 *)
(***************************************************************************)
EXTENDS Integers

\* The answer of Compare for clocks that are not ordered (None in the code).
Concurrent == 2

Count(clock, node) == IF node \in DOMAIN clock THEN clock[node] ELSE 0

Larger(a, b) == IF a < b THEN b ELSE a

Increment(clock, node) ==
  [n \in DOMAIN clock \cup {node} |-> Count(clock, n) + (IF n = node THEN 1 ELSE 0)]

\* self.merge(other): every node of the other clock gets the larger count.
Merge(clock, other) ==
  [n \in DOMAIN clock \cup DOMAIN other |-> Larger(Count(clock, n), Count(other, n))]

\* Slip: the nodes of this clock alone are looked at.
CompareOwnNodes(clock, other) ==
  LET smaller == \E n \in DOMAIN clock : Count(clock, n) < Count(other, n)
      greater == \E n \in DOMAIN clock : Count(clock, n) > Count(other, n)
  IN CASE smaller /\ ~greater -> -1
       [] greater /\ ~smaller -> 1
       [] ~smaller /\ ~greater -> 0
       [] OTHER -> Concurrent

Compare(clock, other) ==
  LET nodes == DOMAIN clock \cup DOMAIN other
      smaller == \E n \in nodes : Count(clock, n) < Count(other, n)
      greater == \E n \in nodes : Count(clock, n) > Count(other, n)
  IN CASE smaller /\ ~greater -> -1
       [] greater /\ ~smaller -> 1
       [] ~smaller /\ ~greater -> 0
       [] OTHER -> Concurrent

=============================================================================
