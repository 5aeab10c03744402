----------------------------- MODULE MCFanControl -----------------------------
(* Both sides of every threshold and a point inside every band.               *)
EXTENDS FanControl

Thresholds == {35000, 40000, 45000, 50000, 55000, 60000, 65000}
AroundThresholds ==
    UNION {{x - 1, x, x + 2500, x + 2501} : x \in Thresholds} \union {20000}
=============================================================================
