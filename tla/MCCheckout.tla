----------------------------- MODULE MCCheckout -----------------------------
(* Two tasks of one lane and two of one division, and a parent with a child. *)
EXTENDS Checkout, TLC
CONSTANTS a, b, c, lane, wide, narrow

\* a and b share the lane; b and c share the division with one place.
NoParents == [t \in Tasks |-> NoTask]
LaneOfTwo == [t \in Tasks |-> IF t = c THEN NoLane ELSE lane]
NarrowForTwo == [t \in Tasks |-> IF t = a THEN wide ELSE narrow]

\* b is a child of a, in one division with a place for each.
ChildParent == [t \in Tasks |-> IF t = b THEN a ELSE NoTask]
NoLanes == [t \in Tasks |-> NoLane]
AllWide == [t \in Tasks |-> wide]

BUnderA == [t \in Tasks |-> IF t = b THEN a ELSE NoTask]
LaneNotB == [t \in Tasks |-> IF t = b THEN NoLane ELSE lane]
Places == [d \in {wide, narrow} |-> IF d = wide THEN 2 ELSE 1]

\* They draw on one account, each with as much on hold.
OneAccount == [t \in Tasks |-> wide]
OneEach == [t \in Tasks |-> 1]
TheChild == {b}
NoTasks == {}

MCSymmetry == Permutations(Workers)
=============================================================================
