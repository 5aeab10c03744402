------------------------------- MODULE MCTuner -------------------------------
(* Two bands that do not overlap, one of them HD, with an FM channel that    *)
(* the second band refuses.                                                  *)
EXTENDS Tuner

SmallConfigs ==
    { [type |-> "AM", lower |-> 1, upper |-> 2, spacing |-> 1],
      [type |-> "FM_HD", lower |-> 4, upper |-> 6, spacing |-> 1] }

SmallSelectors == {[type |-> "FM", freq |-> 3]}
=============================================================================
