------------------------------ MODULE PowerHal ------------------------------
(***************************************************************************)
(* The HiKey power HAL, power/power_hikey.c.  Three kinds of thread touch   *)
(* its state: the threads that call powerHint (serialised by the module     *)
(* lock), a thread that calls setInteractive (which takes no lock), and     *)
(* the deboost thread, woken by a semaphore, which puts the touch boost     *)
(* back to normal once its deadline has passed.                             *)
(*                                                                          *)
(* The lock is held across steps only by a POWER_HINT_LOW_POWER hint, whose *)
(* sysfs writes interleave with those of setInteractive; every other        *)
(* critical section is one action.                                          *)
(***************************************************************************)
EXTENDS Naturals

CONSTANTS
    BoostTime,     \* schedtune_boost_time_ns, in ticks of the clock
    max_clusters,  \* clusters found by hikey_cpufreq_init
    LowPowerMax,   \* the clusters that have a low_power_max value
    MaxTime        \* bound of the clock

Clusters == 0 .. (max_clusters - 1)

ASSUME PowerAssumption ==
    /\ BoostTime \in Nat
    /\ max_clusters \in Nat \ {0}
    /\ LowPowerMax \subseteq Clusters
    /\ MaxTime \in Nat

Writers == {"hint", "screen"}   \* the callers of hikey_cpufreq_set_interactive

VARIABLES
    now,          \* CLOCK_MONOTONIC
    low_power_mode, deboost_time, signal_lock,
    boostpulse_fd,       \* TRUE when the interactive governor's file is open
    schedtune_boost_fd,  \* TRUE when the schedtune file is open
    schedtune,    \* what schedtune.boost holds: "norm" or "interactive"
    devfreq,      \* what the ddr and gpu minima hold: "orig" or "boost"
    max_freq,     \* what each cluster's scaling_max_freq holds
    io_is_busy,   \* what the interactive governor's io_is_busy holds
    thread,       \* the deboost thread: "none", "wait", "check" or "sleep"
    wake,         \* when its nanosleep ends
    writer,       \* each call to hikey_cpufreq_set_interactive in progress
    \* history
    last_on,      \* the argument of the last completed cpufreq update
    last_hint,    \* when the last schedtune boost was asked for
    alone         \* the last completed cpufreq update overlapped with no other

boostVars  == <<deboost_time, signal_lock, schedtune, devfreq, last_hint>>
threadVars == <<thread, wake>>
freqVars   == <<max_freq, io_is_busy, last_on, alone>>
fdVars     == <<boostpulse_fd, schedtune_boost_fd>>
vars == <<now, low_power_mode, boostVars, threadVars, freqVars, fdVars,
          writer>>

Idle == [pc |-> "idle", on |-> FALSE, i |-> 0, val |-> "normal", alone |-> TRUE]

(* The lock is held between two actions only by a LOW_POWER hint. *)
LockFree == writer["hint"].pc = "idle"

-----------------------------------------------------------------------------
(* hikey_power_init: the boost files are probed, and when the schedtune     *)
(* file opens the semaphore starts at one and the deboost thread runs.      *)
Init ==
    /\ now = 1
    /\ low_power_mode = FALSE
    /\ deboost_time = 0
    /\ signal_lock = 1
    /\ boostpulse_fd = FALSE
    /\ schedtune_boost_fd \in BOOLEAN
    /\ schedtune = "norm"
    /\ devfreq = "orig"
    /\ max_freq = [c \in Clusters |-> "normal"]
    /\ io_is_busy = FALSE
    /\ thread = IF schedtune_boost_fd THEN "wait" ELSE "none"
    /\ wake = 0
    /\ writer = [w \in Writers |-> Idle]
    /\ last_on = TRUE
    /\ last_hint = 0
    /\ alone = TRUE

Tick ==
    /\ now < MaxTime
    /\ now' = now + 1
    /\ UNCHANGED <<low_power_mode, boostVars, threadVars, freqVars, fdVars,
                   writer>>

-----------------------------------------------------------------------------
(* powerHint(POWER_HINT_INTERACTION) *)

(* The semaphore after a boost: posted only when no boost is running. *)
PostedNever == signal_lock
Posted == IF deboost_time = 0 THEN signal_lock + 1 ELSE signal_lock

(* Every accepted hint moves the deadline. *)
DeadlineKept == IF deboost_time = 0 THEN now + BoostTime ELSE deboost_time
Deadline == now + BoostTime

(* hikey_devfreq_set_interactive *)
DevfreqFor(on) == IF ~on \/ low_power_mode THEN "orig" ELSE "boost"

schedtune_boost ==
    /\ schedtune_boost_fd
    /\ IF deboost_time = 0
          THEN /\ schedtune' = "interactive"
               /\ devfreq' = DevfreqFor(TRUE)
          ELSE UNCHANGED <<schedtune, devfreq>>
    /\ signal_lock' = Posted
    /\ deboost_time' = Deadline
    /\ last_hint' = now

(* interactive_boostpulse opens its file on demand; the open and the write   *)
(* may each fail, and only then is schedtune tried.                          *)
HintInteraction ==
    /\ LockFree
    /\ now + BoostTime <= MaxTime
    /\ boostpulse_fd' \in {TRUE, boostpulse_fd}
    /\ \/ boostpulse_fd' /\ UNCHANGED boostVars
       \/ schedtune_boost
       \/ ~schedtune_boost_fd /\ UNCHANGED boostVars
    /\ UNCHANGED <<now, low_power_mode, threadVars, freqVars,
                   schedtune_boost_fd, writer>>

-----------------------------------------------------------------------------
(* hikey_cpufreq_set_interactive, one load of low_power_mode and one sysfs   *)
(* write at a time, by either of its callers.                                *)

FreqFor(on, c) ==
    IF (~on \/ low_power_mode) /\ c \in LowPowerMax THEN "low" ELSE "normal"

LastClusterSkipped(i) == i + 1 >= max_clusters
NoClusterLeft(i) == i >= max_clusters

Alone == \A u \in Writers : writer[u].pc = "idle"

(* A call that begins while the other is in progress is noted in both.       *)
Begin(w, on) ==
    /\ writer[w].pc = "idle"
    /\ writer' = [v \in Writers |->
           IF v = w
              THEN [pc |-> "load", on |-> on, i |-> 0, val |-> "normal",
                    alone |-> Alone]
              ELSE [writer[v] EXCEPT !.alone = FALSE]]

(* powerHint(POWER_HINT_LOW_POWER): the lock is taken, low_power_mode set.   *)
HintLowPower(data) ==
    /\ Begin("hint", TRUE)
    /\ low_power_mode' = data
    /\ UNCHANGED <<now, boostVars, threadVars, freqVars, fdVars>>

(* setInteractive, which takes no lock. *)
SetInteractive(on) ==
    /\ Begin("screen", on)
    /\ UNCHANGED <<now, low_power_mode, boostVars, threadVars, freqVars, fdVars>>

LoadFreq(w) ==
    /\ writer[w].pc = "load"
    /\ ~NoClusterLeft(writer[w].i)
    /\ writer' = [writer EXCEPT ![w].pc = "store",
                     ![w].val = FreqFor(writer[w].on, writer[w].i)]
    /\ UNCHANGED <<now, low_power_mode, boostVars, threadVars, freqVars, fdVars>>

StoreFreq(w) ==
    /\ writer[w].pc = "store"
    /\ max_freq' = [max_freq EXCEPT ![writer[w].i] = writer[w].val]
    /\ writer' = [writer EXCEPT ![w].pc = "load", ![w].i = @ + 1]
    /\ UNCHANGED <<now, low_power_mode, boostVars, threadVars, fdVars,
                   io_is_busy, last_on, alone>>

(* The last write; the LOW_POWER hint then releases the lock. *)
StoreIoIsBusy(w) ==
    /\ writer[w].pc = "load"
    /\ NoClusterLeft(writer[w].i)
    /\ io_is_busy' = writer[w].on
    /\ last_on' = writer[w].on
    /\ alone' = writer[w].alone
    /\ writer' = [writer EXCEPT ![w] = Idle]
    /\ UNCHANGED <<now, low_power_mode, boostVars, threadVars, fdVars,
                   max_freq>>

-----------------------------------------------------------------------------
(* schedtune_deboost_thread *)

SemAvailable == signal_lock > 0

ThreadWait ==
    /\ thread = "wait"
    /\ SemAvailable
    /\ signal_lock' = signal_lock - 1
    /\ thread' = "check"
    /\ UNCHANGED <<now, low_power_mode, deboost_time, schedtune, devfreq,
                   last_hint, wake, freqVars, fdVars, writer>>

ThreadSleep ==
    /\ thread = "check"
    /\ LockFree
    /\ deboost_time > now
    /\ thread' = "sleep"
    /\ wake' = deboost_time
    /\ UNCHANGED <<now, low_power_mode, boostVars, freqVars, fdVars, writer>>

ThreadWake ==
    /\ thread = "sleep"
    /\ now >= wake
    /\ thread' = "check"
    /\ UNCHANGED <<now, low_power_mode, boostVars, wake, freqVars, fdVars, writer>>

DevfreqLeft == devfreq
DevfreqReset == DevfreqFor(FALSE)

ThreadDeboost ==
    /\ thread = "check"
    /\ LockFree
    /\ deboost_time <= now
    /\ schedtune' = "norm"
    /\ devfreq' = DevfreqReset
    /\ deboost_time' = 0
    /\ thread' = "wait"
    /\ UNCHANGED <<now, low_power_mode, signal_lock, last_hint, wake, freqVars,
                   fdVars, writer>>

-----------------------------------------------------------------------------
Writer(w) == LoadFreq(w) \/ StoreFreq(w) \/ StoreIoIsBusy(w)
Thread == ThreadWait \/ ThreadSleep \/ ThreadWake \/ ThreadDeboost

Next ==
    \/ Tick
    \/ HintInteraction
    \/ \E b \in BOOLEAN : HintLowPower(b) \/ SetInteractive(b)
    \/ \E w \in Writers : Writer(w)
    \/ Thread

(* The clock runs, a call that has begun finishes, and the deboost thread,   *)
(* which competes for the lock with the hints, gets it when it is free again *)
(* and again; no one is obliged to call the HAL.                             *)
Fairness ==
    /\ WF_vars(Tick)
    /\ \A w \in Writers : WF_vars(Writer(w))
    /\ SF_vars(Thread)

Spec == Init /\ [][Next]_vars
LiveSpec == Spec /\ Fairness

-----------------------------------------------------------------------------
(* A call to hikey_cpufreq_set_interactive: at cluster i, about to load      *)
(* low_power_mode or to store what it chose.                                 *)
Call == [pc : {"idle", "load", "store"}, on : BOOLEAN,
         i : 0 .. max_clusters, val : {"normal", "low"}, alone : BOOLEAN]

(* The values every variable of the HAL and of the files it writes may take. *)
TypeOK ==
    /\ now \in 1 .. (MaxTime + 1)
    /\ low_power_mode \in BOOLEAN
    /\ deboost_time \in Nat
    /\ signal_lock \in Nat
    /\ boostpulse_fd \in BOOLEAN
    /\ schedtune_boost_fd \in BOOLEAN
    /\ schedtune \in {"norm", "interactive"}
    /\ devfreq \in {"orig", "boost"}
    /\ max_freq \in [Clusters -> {"normal", "low"}]
    /\ io_is_busy \in BOOLEAN
    /\ thread \in {"none", "wait", "check", "sleep"}
    /\ wake \in Nat
    /\ writer \in [Writers -> Call]
    /\ last_on \in BOOLEAN
    /\ last_hint \in Nat
    /\ alone \in BOOLEAN

ThreadBusy == thread \in {"check", "sleep"}

(* A touch boost is never left without the deboost thread on its way: it is  *)
(* running or the semaphore will wake it (schedtune_boost posts the          *)
(* semaphore only when no deadline is set, and the thread clears the         *)
(* deadline in the critical section that ends the boost).                    *)
BoostNeverOrphaned ==
    schedtune = "interactive" => signal_lock > 0 \/ ThreadBusy

(* However hints and the thread interleave, the semaphore never counts more  *)
(* than the initial post and the one of a boost, so wake-ups do not pile up. *)
SemaphoreBounded == signal_lock <= 2

(* The thread ends a boost only when the last touch is BoostTime old:        *)
(* a hint that arrives while the thread sleeps prolongs the boost.           *)
BoostLasts ==
    [][schedtune = "interactive" /\ schedtune' = "norm"
          => now >= last_hint + BoostTime]_vars

(* The memory and gpu floors are raised only while the cpu boost is: the     *)
(* thread puts both back in one critical section, whatever low_power_mode    *)
(* has become since the boost began.                                         *)
DevfreqFollows == devfreq = "boost" => schedtune = "interactive"

(* Once a cpufreq update that overlapped with no other is complete, every    *)
(* cluster has the limit that it and low_power_mode ask for, whatever mix    *)
(* overlapping calls had left behind (setInteractive takes no lock).         *)
SettledFreq ==
    alone /\ (\A w \in Writers : writer[w].pc = "idle")
        => \A c \in Clusters : max_freq[c] = FreqFor(last_on, c)

(* Every boost ends: the deboost thread restores the normal value.           *)
BoostEnds == (schedtune = "interactive") ~> (schedtune = "norm")
=============================================================================
