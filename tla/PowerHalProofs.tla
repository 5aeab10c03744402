--------------------------- MODULE PowerHalProofs ---------------------------
(***************************************************************************)
(* Proofs about the power HAL for every boost time, every set of clusters   *)
(* and every bound of the clock.                                            *)
(***************************************************************************)
EXTENDS PowerHal, TLAPS

(* A write in progress is to one of the clusters. *)
StoreInRange ==
    \A w \in Writers : writer[w].pc = "store" => writer[w].i < max_clusters

(* The deboost thread's wake-ups: the one it is serving and the ones the     *)
(* semaphore still holds.                                                    *)
Wakeups == signal_lock + (IF ThreadBusy THEN 1 ELSE 0)

(* A pending deadline owns a wake-up; besides it there is at most the one    *)
(* the semaphore was initialised with.                                       *)
WakeupsCounted ==
    /\ deboost_time = 0 => Wakeups \in 0 .. 1
    /\ deboost_time # 0 => Wakeups \in 1 .. 2

(* A boost has a deadline, BoostTime after the last hint. *)
BoostHasDeadline ==
    /\ schedtune = "interactive" => deboost_time # 0
    /\ deboost_time # 0 => deboost_time = last_hint + BoostTime

(* A cpufreq update that overlaps with no other has given every cluster      *)
(* behind it its limit, and low_power_mode has not changed since it began.   *)
FreqInProgress ==
    \A w \in Writers : writer[w].pc # "idle" /\ writer[w].alone =>
        /\ \A v \in Writers \ {w} : writer[v].pc = "idle"
        /\ \A c \in Clusters :
              c < writer[w].i => max_freq[c] = FreqFor(writer[w].on, c)
        /\ writer[w].pc = "store"
              => writer[w].val = FreqFor(writer[w].on, writer[w].i)

IInv ==
    /\ TypeOK
    /\ StoreInRange
    /\ WakeupsCounted
    /\ BoostHasDeadline
    /\ DevfreqFollows
    /\ FreqInProgress
    /\ SettledFreq

-----------------------------------------------------------------------------
LEMMA InitIInv == Init => IInv
  <1> SUFFICES ASSUME Init PROVE IInv
    OBVIOUS
  <1>1. TypeOK
    <2>1. Idle \in Call
      BY PowerAssumption DEF Idle, Call
    <2>2. now \in 1 .. (MaxTime + 1)
      BY PowerAssumption DEF Init
    <2> QED BY <2>1, <2>2 DEF Init, TypeOK
  <1>2. StoreInRange
    BY DEF Init, StoreInRange, Idle
  <1>3. WakeupsCounted /\ BoostHasDeadline /\ DevfreqFollows
    BY DEF Init, WakeupsCounted, Wakeups, ThreadBusy, BoostHasDeadline,
           DevfreqFollows
  <1>4. FreqInProgress /\ SettledFreq
    BY DEF Init, FreqInProgress, SettledFreq, FreqFor, Idle
  <1> QED BY <1>1, <1>2, <1>3, <1>4 DEF IInv

(* What Begin does to the calls in progress. *)
LEMMA BeginStep ==
  ASSUME writer \in [Writers -> Call],
         NEW w \in Writers, NEW on \in BOOLEAN, Begin(w, on)
  PROVE  /\ writer' \in [Writers -> Call]
         /\ \A v \in Writers :
               /\ v # w => /\ writer'[v].pc = writer[v].pc
                          /\ writer'[v].i = writer[v].i
                          /\ writer'[v].alone = FALSE
               /\ v = w => writer'[v].pc = "load" /\ writer'[v].i = 0
         /\ writer'[w].alone = Alone
  <1>1. /\ [pc |-> "load", on |-> on, i |-> 0, val |-> "normal",
             alone |-> Alone] \in Call
        /\ \A v \in Writers : [writer[v] EXCEPT !.alone = FALSE] \in Call
    <2>1. Alone \in BOOLEAN /\ 0 \in 0 .. max_clusters
      BY PowerAssumption DEF Alone
    <2> HIDE DEF Alone
    <2> QED BY <2>1 DEF Call
  <1>2. /\ writer' \in [Writers -> Call]
        /\ \A v \in Writers : v # w => writer'[v] = [writer[v] EXCEPT !.alone = FALSE]
        /\ writer'[w] = [pc |-> "load", on |-> on, i |-> 0, val |-> "normal",
                         alone |-> Alone]
    BY <1>1 DEF Begin
  <1> QED BY <1>2 DEF Call

(* An update of one call leaves the table of calls a table of calls. *)
LEMMA UpdatedCall ==
  ASSUME writer \in [Writers -> Call],
         NEW w \in Writers, NEW c \in Call, writer' = [writer EXCEPT ![w] = c]
  PROVE  /\ writer' \in [Writers -> Call]
         /\ writer'[w] = c
         /\ \A v \in Writers : v # w => writer'[v] = writer[v]
  OBVIOUS

(* Begin, by either caller, keeps the types. *)
LEMMA BeginTypes ==
  ASSUME TypeOK, StoreInRange,
         NEW w \in Writers, NEW on \in BOOLEAN, Begin(w, on),
         low_power_mode' \in BOOLEAN,
         UNCHANGED <<now, boostVars, threadVars, freqVars, fdVars>>
  PROVE  TypeOK' /\ StoreInRange'
  <1>1. writer \in [Writers -> Call]
    BY DEF TypeOK
  <1>2. writer' \in [Writers -> Call]
    BY <1>1, BeginStep
  <1>3. TypeOK'
    BY <1>2 DEF TypeOK, boostVars, threadVars, freqVars, fdVars
  <1>4. \A v \in Writers : writer'[v].pc = "store"
           => writer[v].pc = "store" /\ writer'[v].i = writer[v].i
    BY <1>1, BeginStep
  <1>5. StoreInRange'
    BY <1>4 DEF StoreInRange
  <1> QED BY <1>3, <1>5

(* The two conjuncts about a call in progress. *)
LEMMA TypeStep == IInv /\ [Next]_vars => TypeOK' /\ StoreInRange'
  <1> SUFFICES ASSUME IInv, [Next]_vars PROVE TypeOK' /\ StoreInRange'
    OBVIOUS
  <1>0. TypeOK /\ StoreInRange
    BY DEF IInv
  <1> USE <1>0, PowerAssumption DEF TypeOK, StoreInRange, Call, Clusters, Writers,
          boostVars, threadVars, freqVars, fdVars
  <1>1. CASE UNCHANGED vars
    BY <1>1 DEF vars
  <1>2. CASE Tick
    <2>1. now' \in 1 .. (MaxTime + 1)
      BY <1>2 DEF Tick
    <2> QED BY <1>2, <2>1 DEF Tick
  <1>3. CASE HintInteraction
    <2>1. UNCHANGED <<now, low_power_mode, threadVars, freqVars,
                      schedtune_boost_fd, writer>>
      BY <1>3 DEF HintInteraction
    <2>2. boostpulse_fd' \in BOOLEAN
      BY <1>3 DEF HintInteraction
    <2>3. /\ deboost_time' \in Nat /\ signal_lock' \in Nat /\ last_hint' \in Nat
          /\ schedtune' \in {"norm", "interactive"}
          /\ devfreq' \in {"orig", "boost"}
      <3>1. CASE schedtune_boost
        BY <3>1 DEF schedtune_boost, Posted, Deadline, DevfreqFor
      <3>2. CASE UNCHANGED boostVars
        BY <3>2
      <3> QED BY <1>3, <3>1, <3>2 DEF HintInteraction
    <2> QED BY <2>1, <2>2, <2>3
  <1>4. ASSUME NEW b \in BOOLEAN, HintLowPower(b)
        PROVE  TypeOK' /\ StoreInRange'
    <2>1. /\ Begin("hint", TRUE) /\ low_power_mode' = b
          /\ UNCHANGED <<now, boostVars, threadVars, freqVars, fdVars>>
      BY <1>4 DEF HintLowPower
    <2> QED BY <2>1, BeginTypes
  <1>5. ASSUME NEW b \in BOOLEAN, SetInteractive(b)
        PROVE  TypeOK' /\ StoreInRange'
    <2>1. /\ Begin("screen", b) /\ low_power_mode' = low_power_mode
          /\ UNCHANGED <<now, boostVars, threadVars, freqVars, fdVars>>
      BY <1>5 DEF SetInteractive
    <2> QED BY <2>1, BeginTypes
  <1>6. ASSUME NEW w \in Writers, LoadFreq(w)
        PROVE  TypeOK' /\ StoreInRange'
    <2> DEFINE c == [writer[w] EXCEPT !.pc = "store",
                        !.val = FreqFor(writer[w].on, writer[w].i)]
    <2>1. FreqFor(writer[w].on, writer[w].i) \in {"normal", "low"}
      BY DEF FreqFor
    <2>2. writer[w].i < max_clusters
      BY <1>6 DEF LoadFreq, NoClusterLeft
    <2>3. c \in Call /\ c.i = writer[w].i
      BY <2>1
    <2>4. writer' = [writer EXCEPT ![w] = c]
      BY <1>6 DEF LoadFreq
    <2>5. /\ UNCHANGED <<now, low_power_mode, boostVars, threadVars, freqVars,
                         fdVars>>
      BY <1>6 DEF LoadFreq
    <2> HIDE DEF c, Call, Clusters
    <2>6. TypeOK'
      BY <2>3, <2>4, <2>5, UpdatedCall
    <2>7. StoreInRange'
      BY <2>2, <2>3, <2>4, UpdatedCall DEF StoreInRange
    <2> QED BY <2>6, <2>7
  <1>7. ASSUME NEW w \in Writers, StoreFreq(w)
        PROVE  TypeOK' /\ StoreInRange'
    <2> DEFINE c == [writer[w] EXCEPT !.pc = "load", !.i = @ + 1]
    <2>1. writer[w].i < max_clusters /\ writer[w].i \in Clusters
      BY <1>7 DEF StoreFreq, StoreInRange
    <2>2. c \in Call /\ c.pc = "load"
      <3>1. writer[w] \in Call
        OBVIOUS
      <3>2. writer[w].i + 1 \in 0 .. max_clusters
        BY <2>1
      <3> QED BY <3>1, <3>2
    <2>3. writer' = [writer EXCEPT ![w] = c]
      BY <1>7 DEF StoreFreq
    <2>4. max_freq' \in [Clusters -> {"normal", "low"}]
      <3>1. writer[w].val \in {"normal", "low"}
        OBVIOUS
      <3> QED BY <1>7, <2>1, <3>1 DEF StoreFreq
    <2>5. /\ UNCHANGED <<now, low_power_mode, boostVars, threadVars, fdVars,
                         io_is_busy, last_on, alone>>
      BY <1>7 DEF StoreFreq
    <2> HIDE DEF c, Call, Clusters
    <2>6. TypeOK'
      BY <2>2, <2>3, <2>4, <2>5, UpdatedCall
    <2>7. StoreInRange'
      BY <2>2, <2>3, UpdatedCall DEF StoreInRange
    <2> QED BY <2>6, <2>7
  <1>8. ASSUME NEW w \in Writers, StoreIoIsBusy(w)
        PROVE  TypeOK' /\ StoreInRange'
    <2>1. writer[w].on \in BOOLEAN /\ writer[w].alone \in BOOLEAN
      OBVIOUS
    <2>2. Idle \in Call /\ Idle.pc = "idle"
      BY DEF Idle
    <2>3. writer' = [writer EXCEPT ![w] = Idle]
      BY <1>8 DEF StoreIoIsBusy
    <2>4. /\ io_is_busy' \in BOOLEAN /\ last_on' \in BOOLEAN /\ alone' \in BOOLEAN
          /\ UNCHANGED <<now, low_power_mode, boostVars, threadVars, fdVars,
                         max_freq>>
      BY <1>8, <2>1 DEF StoreIoIsBusy
    <2> HIDE DEF Call, Clusters, Idle
    <2>5. TypeOK'
      BY <2>2, <2>3, <2>4, UpdatedCall
    <2>6. StoreInRange'
      BY <2>2, <2>3, UpdatedCall DEF StoreInRange
    <2> QED BY <2>5, <2>6
  <1>9. CASE Thread
    BY <1>9 DEF Thread, ThreadWait, SemAvailable, ThreadSleep, ThreadWake,
                ThreadDeboost, DevfreqReset, DevfreqFor
  <1> QED BY <1>1, <1>2, <1>3, <1>4, <1>5, <1>6, <1>7, <1>8, <1>9
          DEF Next, Writer

(* The conjuncts about the boost. *)
LEMMA BoostStep ==
    IInv /\ [Next]_vars
      => WakeupsCounted' /\ BoostHasDeadline' /\ DevfreqFollows'
  <1> SUFFICES ASSUME IInv, [Next]_vars
               PROVE  WakeupsCounted' /\ BoostHasDeadline' /\ DevfreqFollows'
    OBVIOUS
  <1> USE PowerAssumption DEF WakeupsCounted, Wakeups, ThreadBusy,
          BoostHasDeadline, DevfreqFollows, boostVars, threadVars
  <1>0. /\ now \in Nat \ {0} /\ signal_lock \in Nat /\ deboost_time \in Nat
        /\ last_hint \in Nat /\ thread \in {"none", "wait", "check", "sleep"}
        /\ WakeupsCounted /\ BoostHasDeadline /\ DevfreqFollows
    BY DEF IInv, TypeOK
  <1> HIDE DEF WakeupsCounted, BoostHasDeadline, DevfreqFollows
  <1>1. CASE UNCHANGED <<boostVars, threadVars>>
    BY <1>0, <1>1 DEF WakeupsCounted, BoostHasDeadline, DevfreqFollows
  <1>2. CASE HintInteraction
    BY <1>0, <1>2 DEF HintInteraction, schedtune_boost, Posted, Deadline,
       DevfreqFor, WakeupsCounted, BoostHasDeadline, DevfreqFollows
  <1>3. CASE Thread
    BY <1>0, <1>3 DEF Thread, ThreadWait, SemAvailable, ThreadSleep, ThreadWake,
       ThreadDeboost, DevfreqReset, DevfreqFor, WakeupsCounted, BoostHasDeadline,
       DevfreqFollows
  <1>4. CASE UNCHANGED vars
    BY <1>1, <1>4 DEF vars
  <1>5. CASE Tick
    BY <1>1, <1>5 DEF Tick
  <1>6. CASE \E b \in BOOLEAN : HintLowPower(b) \/ SetInteractive(b)
    <2>1. UNCHANGED <<boostVars, threadVars>>
      BY <1>6 DEF HintLowPower, SetInteractive
    <2> QED BY <1>1, <2>1
  <1>7. CASE \E w \in Writers : Writer(w)
    <2>1. UNCHANGED <<boostVars, threadVars>>
      BY <1>7 DEF Writer, LoadFreq, StoreFreq, StoreIoIsBusy
    <2> QED BY <1>1, <2>1
  <1> QED BY <1>2, <1>3, <1>4, <1>5, <1>6, <1>7 DEF Next

(* The conjuncts about the cluster limits. *)
LEMMA FreqStep == IInv /\ [Next]_vars => FreqInProgress' /\ SettledFreq'
  <1> SUFFICES ASSUME IInv, [Next]_vars PROVE FreqInProgress' /\ SettledFreq'
    OBVIOUS
  <1>0. /\ writer \in [Writers -> Call] /\ max_freq \in [Clusters -> {"normal", "low"}]
        /\ low_power_mode \in BOOLEAN /\ alone \in BOOLEAN
        /\ StoreInRange /\ FreqInProgress /\ SettledFreq
    BY DEF IInv, TypeOK
  <1> USE <1>0, PowerAssumption DEF Clusters, Writers, Call, StoreInRange, FreqInProgress,
          SettledFreq, FreqFor
  <1>1. CASE UNCHANGED <<low_power_mode, writer, freqVars>>
    BY <1>1 DEF freqVars
  <1>8. ASSUME NEW w \in Writers, NEW on \in BOOLEAN, Begin(w, on)
        PROVE  FreqInProgress' /\ SettledFreq'
    <2>1. /\ writer'[w].pc = "load" /\ writer'[w].i = 0
          /\ writer'[w].alone = Alone
          /\ \A v \in Writers \ {w} : /\ writer'[v].pc = writer[v].pc
                                     /\ writer'[v].alone = FALSE
      BY <1>8, BeginStep
    <2>2. SettledFreq'
      <3>1. writer'[w].pc # "idle"
        BY <2>1
      <3>2. ~(\A v \in Writers : writer'[v].pc = "idle")
        BY <3>1
      <3> HIDE DEF Writers, Clusters, FreqFor
      <3> QED BY ONLY <3>2 DEF SettledFreq
    <2>3. writer'[w].alone => \A v \in Writers \ {w} : writer'[v].pc = "idle"
      <3>1. Alone => \A v \in Writers : writer[v].pc = "idle"
        BY ONLY DEF Alone
      <3> QED BY ONLY <2>1, <3>1
    <2>4. \A c \in Clusters : ~(c < writer'[w].i)
      BY <2>1
    <2>5. ASSUME NEW v \in Writers, writer'[v].pc # "idle", writer'[v].alone
          PROVE  v = w
      BY <2>1, <2>5
    <2> QED BY <2>1, <2>2, <2>3, <2>4, <2>5 DEF FreqInProgress
  <1>2. ASSUME NEW b \in BOOLEAN, HintLowPower(b)
        PROVE  FreqInProgress' /\ SettledFreq'
    <2>1. Begin("hint", TRUE)
      BY <1>2 DEF HintLowPower
    <2> QED BY <2>1, <1>8
  <1>3. ASSUME NEW b \in BOOLEAN, SetInteractive(b)
        PROVE  FreqInProgress' /\ SettledFreq'
    <2>1. Begin("screen", b)
      BY <1>3 DEF SetInteractive
    <2> QED BY <2>1, <1>8
  <1>4. ASSUME NEW w \in Writers, LoadFreq(w)
        PROVE  FreqInProgress' /\ SettledFreq'
    BY <1>4 DEF LoadFreq, freqVars
  <1>5. ASSUME NEW w \in Writers, StoreFreq(w)
        PROVE  FreqInProgress' /\ SettledFreq'
    BY <1>5 DEF StoreFreq
  <1>6. ASSUME NEW w \in Writers, StoreIoIsBusy(w)
        PROVE  FreqInProgress' /\ SettledFreq'
    BY <1>6 DEF StoreIoIsBusy, NoClusterLeft, Idle
  <1>7. CASE Tick \/ HintInteraction \/ Thread \/ UNCHANGED vars
    BY <1>1, <1>7 DEF Tick, HintInteraction, Thread, ThreadWait, ThreadSleep,
                      ThreadWake, ThreadDeboost, vars
  <1> QED BY <1>2, <1>3, <1>4, <1>5, <1>6, <1>7 DEF Next, Writer

LEMMA Inductive == Spec => []IInv
  <1>1. IInv /\ [Next]_vars => IInv'
    BY TypeStep, BoostStep, FreqStep DEF IInv
  <1> QED BY InitIInv, <1>1, PTL DEF Spec

(* The HAL's variables keep their types (power_hikey.c: hikey_power_hint,    *)
(* hikey_cpufreq_set_interactive, schedtune_deboost_thread).                 *)
THEOREM TypeCorrect == Spec => []TypeOK
  <1>1. IInv => TypeOK
    BY DEF IInv
  <1> QED BY Inductive, <1>1, PTL

(* A boost always has the deboost thread running or about to be woken        *)
(* (schedtune_boost and schedtune_deboost_thread).                           *)
THEOREM NeverOrphaned == Spec => []BoostNeverOrphaned
  <1>1. IInv => BoostNeverOrphaned
    BY DEF IInv, TypeOK, WakeupsCounted, Wakeups, BoostHasDeadline,
           BoostNeverOrphaned
  <1> QED BY Inductive, <1>1, PTL

(* The semaphore of schedtune_boost never counts above two. *)
THEOREM SemaphoreNeverPiles == Spec => []SemaphoreBounded
  <1>1. IInv => SemaphoreBounded
    BY DEF IInv, TypeOK, WakeupsCounted, Wakeups, SemaphoreBounded
  <1> QED BY Inductive, <1>1, PTL

(* The memory and gpu floors never outlive the cpu boost                     *)
(* (hikey_devfreq_set_interactive in both its callers).                      *)
THEOREM DevfreqNeverLeft == Spec => []DevfreqFollows
  <1>1. IInv => DevfreqFollows
    BY DEF IInv
  <1> QED BY Inductive, <1>1, PTL

(* A cpufreq update that overlaps with no other leaves every cluster at the  *)
(* limit asked for (hikey_cpufreq_set_interactive), however many clusters    *)
(* there are and whatever overlapping updates did before.                    *)
THEOREM FreqSettles == Spec => []SettledFreq
  <1>1. IInv => SettledFreq
    BY DEF IInv
  <1> QED BY Inductive, <1>1, PTL

(* The deboost thread never cuts a boost short (schedtune_deboost_thread     *)
(* rechecks the deadline after each sleep).                                  *)
THEOREM NeverCutShort == Spec => BoostLasts
  <1> DEFINE Lasts == schedtune = "interactive" /\ schedtune' = "norm"
                        => now >= last_hint + BoostTime
  <1>1. ASSUME IInv, [Next]_vars PROVE [Lasts]_vars
    <2>1. CASE UNCHANGED schedtune
      BY <1>1, <2>1 DEF IInv, TypeOK
    <2>2. CASE HintInteraction
      BY <1>1, <2>2 DEF HintInteraction, schedtune_boost, boostVars
    <2>3. CASE ThreadDeboost
      BY <1>1, <2>3, PowerAssumption DEF ThreadDeboost, IInv, BoostHasDeadline,
                                         TypeOK
    <2> QED BY <1>1, <2>1, <2>2, <2>3
            DEF Next, vars, boostVars, Tick, HintLowPower, SetInteractive,
                Writer, LoadFreq, StoreFreq, StoreIoIsBusy, Thread, ThreadWait,
                ThreadSleep, ThreadWake
  <1> HIDE DEF Lasts
  <1>2. Spec => [][Lasts]_vars
    BY Inductive, <1>1, PTL DEF Spec
  <1> QED BY <1>2 DEF Lasts, BoostLasts
=============================================================================
