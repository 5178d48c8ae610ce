------------------------- MODULE MCSeedControllers -------------------------
(* Shoots of one or two pools for TLC. *)
EXTENDS SeedControllers

MCPool(version, min, max) == [version |-> version, min |-> min, max |-> max]
Control(version, remedy, acr) == [version |-> version, remedy |-> remedy, acr |-> acr]
MCShoot(control, a, b, hibernated) ==
    [control |-> control, pools |-> [a |-> a, b |-> b], hibernated |-> hibernated]

First == MCShoot(Control(0, TRUE, TRUE), MCPool(1, 1, 2), Nil, FALSE)
MCShoots ==
    {First,
     [First EXCEPT !.hibernated = TRUE],
     MCShoot(Control(1, FALSE, FALSE), MCPool(2, 1, 1), MCPool(1, 1, 1), FALSE)}
MCLimits ==
    {[requests |-> 2, faults |-> 0, events |-> 0], [requests |-> 1, faults |-> 1, events |-> 0],
     [requests |-> 1, faults |-> 0, events |-> 2]}
=============================================================================
