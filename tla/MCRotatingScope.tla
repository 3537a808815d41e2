-------------------------- MODULE MCRotatingScope ---------------------------
(* An instance of RotatingScope for model checking.                          *)
EXTENDS RotatingScopeProps, TLC

\* 1 is a comparable property, 2 and 4 are ours, 2 is Kiraku; 5 is on Jalan.
MCBooking == {1, 2, 3, 4}
MCJalan == {5}
MCOwn == {2, 4}
MCKiraku == {2}
MCComparable == {1}
MCTierOf == [p \in MCBooking \cup MCJalan |-> IF p = 3 THEN "anchor" ELSE "direct"]
MCInteresting == {2, 5}
MCWinter == {1, 2, 4}
MCFirstOnSale == {2, 4}

\* Near dates and weekends score more, and a tier does.
MCScore ==
    [x \in (MCBooking \cup MCJalan) \X (1..Horizon) \X (0..Week - 1) |->
        (IF x[2] <= ShortEnd THEN 40 ELSE 30)
          + (IF x[3] \in MCInteresting THEN 25 ELSE 0)
          + (IF MCTierOf[x[1]] = "direct" THEN 15 ELSE 0)]

\* Histories at first: a skewed one (near dates are fresh, one property was
\* never visited, the other cells are long overdue), none at all, one that is
\* overdue throughout, and one of a single morning.
MCFirstAges ==
    {[c \in Cells |-> IF c[1] = 3 THEN Never ELSE IF c[2] = 1 THEN 0 ELSE Oldest],
     [c \in Cells |-> Never], [c \in Cells |-> Oldest], [c \in Cells |-> 1]}
=============================================================================
