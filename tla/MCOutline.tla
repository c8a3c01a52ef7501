----------------------------- MODULE MCOutline -----------------------------
(* The whole outline on small instances for TLC, and the daemons that serve   *)
(* it.  The two share no state; the initial state says which of them a        *)
(* behaviour is about.                                                        *)
EXTENDS Outline, Lifecycle, TLC

CONSTANTS root, a, b, old, new, g1, g2, u1, u2, v1, v2

VARIABLE half

\* root with the children a and b, in this order.
SmallTree ==
    [n \in Nodes |-> [there |-> n \in {root, a, b}, deleted |-> FALSE, text |-> old, lock |-> {},
                      rank |-> IF n = b THEN 1 ELSE 0, prio |-> "bottom",
                      parent |-> IF n \in {a, b} THEN root ELSE None]]

Offered(k, n, t) == [kind |-> k, target |-> n, text |-> t, position |-> ""]
RemoveOnly == {Offered("remove", a, old)}

HalfInit ==
    /\ half \in {"outline", "daemons"}
    /\ OutlineInit /\ LifeInit
    /\ half = "outline" => path = Nobody

HalfNext ==
    /\ \/ half = "outline" /\ OutlineNext /\ UNCHANGED lifeVars
       \/ half = "daemons" /\ LifeNext /\ UNCHANGED outline
    /\ UNCHANGED half

HalfSpec    == HalfInit /\ [][HalfNext]_<<half, outline, lifeVars>>
DaemonsSpec == half = "daemons" /\ HalfSpec
=============================================================================
