------------------------------ MODULE FanControl ------------------------------
(***************************************************************************)
(* The fan controller of swid (temp_read): once a second the temperature of *)
(* the SoC, in thousandths of a degree, is turned into a fan speed, which   *)
(* goes to the microcontroller over the serial line when it changes.        *)
(* "Increasing" and "decreasing" compare a reading with the one of the last *)
(* change of speed, not with the previous reading.                          *)
(***************************************************************************)
EXTENDS Integers

CONSTANT Readings       \* temperatures the sensor can report

ASSUME FanAssumption == Readings \subseteq Int

VARIABLES
    lasttemp,       \* the reading of the last change
    lastpwm,        \* the speed the fan was last told
    curtemp,        \* the last reading
    steady          \* history: equal readings in a row, up to 3

fanVars == <<lasttemp, lastpwm, curtemp, steady>>

FanInit ==
    /\ lasttemp = 0
    /\ lastpwm = 0
    /\ curtemp \in Readings
    /\ steady = 0

(* The tables.  Each leaves the speed alone at its far end. *)
increasing(t, pwm) ==
    CASE t >= 65000               -> 255
      [] t >= 60000 /\ t < 65000  -> 229
      [] t >= 55000 /\ t < 60000  -> 204
      [] t >= 50000 /\ t < 55000  -> 178
      [] t >= 45000 /\ t < 50000  -> 153
      [] t >= 40000 /\ t < 45000  -> 127
      [] OTHER                    -> pwm

decreasing(t, pwm) ==
    CASE t < 35000                -> 0
      [] t >= 35000 /\ t < 40000  -> 127
      [] t >= 40000 /\ t < 45000  -> 153
      [] t >= 45000 /\ t < 50000  -> 178
      [] t >= 50000 /\ t < 55000  -> 204
      [] t >= 55000 /\ t < 60000  -> 229
      [] OTHER                    -> pwm

curpwmForgetful(t) ==
    IF t > lasttemp THEN increasing(t, 0) ELSE decreasing(t, 0)

curpwm(t) ==
    IF t > lasttemp THEN increasing(t, lastpwm) ELSE decreasing(t, lastpwm)

Same(t) == curpwm(t) = lastpwm
Changes(t) == curpwm(t) # lastpwm

temp_read(t) ==
    /\ lastpwm' = curpwm(t)
    /\ lasttemp' = IF Changes(t) THEN t ELSE lasttemp
    /\ curtemp' = t
    /\ steady' = IF t # curtemp \/ steady = 0 THEN 1 ELSE IF steady < 3 THEN steady + 1 ELSE 3

FanNext == \E t \in Readings : temp_read(t)

FanSpec == FanInit /\ [][FanNext]_fanVars

-----------------------------------------------------------------------------
Speeds == {0, 127, 153, 178, 204, 229, 255}

TypeOK ==
    /\ lasttemp \in Readings \union {0}
    /\ lastpwm \in Speeds
    /\ curtemp \in Readings
    /\ steady \in 0 .. 3

(* The speed a temperature needs at least, and the most it may get. *)
Least(t) == increasing(t, 0)
Most(t) == decreasing(t, 255)

(* Whatever the temperature did before, and although the controller compares *)
(* it with an old reading, the fan is never slower than the increasing table *)
(* asks for nor faster than the decreasing one allows.                       *)
SpeedFits ==
    steady > 0 => Least(curtemp) <= lastpwm /\ lastpwm <= Most(curtemp)

(* A temperature that stays the same leaves the fan alone from the third     *)
(* reading on: the second may still move it from one table to the other.     *)
Settles == [][steady' = 3 => lastpwm' = lastpwm]_fanVars
=============================================================================
