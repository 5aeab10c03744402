----------------------------- MODULE RadioProofs -----------------------------
(***************************************************************************)
(* Proofs about the broadcast radio: one tuner and its worker, for every    *)
(* set of configurations and selectors, every bound of the worker's queue,  *)
(* and with cancel or without; and the serial port of one tuner after       *)
(* another, for any number of tuners and frames.  The two share no state.   *)
(*                                                                          *)
(* TypeOK types the worker's queue entry by entry; what a task tunes to     *)
(* also depends on its argument, and whether a task may still run depends   *)
(* on how it came into the queue.  TunerInv adds both: the tasks are well   *)
(* formed, one that steps was only scheduled under a configuration, and a   *)
(* closed tuner has nothing left but the task in flight.                    *)
(*                                                                          *)
(* PortInv follows a tuner's port through its close and its one re-open:    *)
(* each descriptor that nobody holds is counted against a tuner that can no *)
(* longer open one.                                                         *)
(***************************************************************************)
EXTENDS Tuner, RadioPort, FiniteSetTheorems, SequenceTheorems, WellFoundedInduction, TLAPS

Channel == [type : {"AM", "FM"}, freq : Nat]

TaskOf(kind, Args) == [kind : {kind}, arg : Args, wait : 0 .. Delay[kind]]

Task == UNION { TaskOf("config", Configs), TaskOf("scan", Directions),
                TaskOf("step", Directions), TaskOf("tune", Selectors \union Channel) }

(* The worker is idle, or has taken a task.                                  *)
Taken == IF inflight.kind = "none" THEN 0 ELSE 1

TunerTypes ==
    /\ queue \in Seq(Task)
    /\ Len(queue) <= MaxTasks
    /\ inflight \in Task \union {NoTask}
    /\ mIsClosed \in BOOLEAN
    /\ mIsAmfmConfigSet \in BOOLEAN
    /\ mAmfmConfig \in Configs \union {NoConfig}
    /\ mCurrentProgram \in [type : {"AM", "FM", "none"}, freq : Nat]
    /\ mIsTuneCompleted \in BOOLEAN
    /\ band \in Bands \union {"none"}
    /\ late \in Nat
    /\ lost \in BOOLEAN

(* A step is only scheduled under a configuration, and none is taken back.   *)
StepsAreConfigured ==
    /\ mIsAmfmConfigSet => mAmfmConfig \in Configs
    /\ inflight.kind = "step" => mIsAmfmConfigSet
    /\ \A i \in 1 .. Len(queue) : queue[i].kind = "step" => mIsAmfmConfigSet

(* A closed tuner has run its last task or still has it in flight.           *)
ClosedIsDone ==
    /\ mIsClosed => queue = <<>> /\ late + Taken <= 1
    /\ ~mIsClosed => late = 0

TunerInv == TunerTypes /\ StepsAreConfigured /\ ClosedIsDone

-----------------------------------------------------------------------------
(* The queue *)

(* A task is entered between those due no later and the others.              *)
LEMMA InsertedShape ==
    ASSUME NEW S, queue \in Seq(S), NEW task \in S
    PROVE  LET k == Cardinality({i \in 1 .. Len(queue) : queue[i].wait <= task.wait}) + 1
           IN  /\ k \in 1 .. Len(queue) + 1
               /\ Inserted(task) \in Seq(S)
               /\ Len(Inserted(task)) = Len(queue) + 1
               /\ \A i \in 1 .. Len(queue) + 1 :
                     Inserted(task)[i] = IF i < k THEN queue[i]
                                         ELSE IF i = k THEN task ELSE queue[i - 1]
  <1> DEFINE n == Len(queue)
             before == {i \in 1 .. n : queue[i].wait <= task.wait}
             k == Cardinality(before) + 1
             left == SubSeq(queue, 1, k - 1)
             right == SubSeq(queue, k, n)
  <1>1. n \in Nat /\ \A i \in 1 .. n : queue[i] \in S
    BY LenProperties, ElementOfSeq
  <1>2. IsFiniteSet(1 .. n) /\ Cardinality(1 .. n) = n
    <2>1. 1 \in Int /\ n \in Int
      BY <1>1
    <2>2. IsFiniteSet(1 .. n) /\ Cardinality(1 .. n) = IF 1 > n THEN 0 ELSE n - 1 + 1
      BY <2>1, FS_Interval
    <2> QED
      BY <1>1, <2>2
  <1>3. before \subseteq 1 .. n
    OBVIOUS
  <1>4. Cardinality(before) \in Nat /\ Cardinality(before) <= n
    BY <1>2, <1>3, FS_Subset, FS_CardinalityType
  <1>5. Inserted(task) = (left \o <<task>>) \o right
    BY DEF Inserted, InsertAt
  <1> HIDE DEF before
  <1>6. k \in 1 .. n + 1 /\ k \in Int
    BY <1>1, <1>4
  <1> HIDE DEF n, k
  <1>7. /\ left \in Seq(S) /\ Len(left) = k - 1
        /\ \A i \in 1 .. k - 1 : left[i] = queue[i]
    <2>1. \A i \in 1 .. k - 1 : queue[i] \in S
      BY <1>1, <1>6
    <2>2. k - 1 \in Int /\ 1 \in Int
      BY <1>6
    <2>3. /\ left \in Seq(S) /\ Len(left) = IF 1 <= k - 1 THEN (k - 1) - 1 + 1 ELSE 0
          /\ \A i \in 1 .. (k - 1) - 1 + 1 : left[i] = queue[1 + i - 1]
      BY <2>1, <2>2, SubSeqProperties
    <2> QED
      BY <2>3, <1>6
  <1>8. /\ right \in Seq(S) /\ Len(right) = n - k + 1
        /\ \A i \in 1 .. n - k + 1 : right[i] = queue[k + i - 1]
    <2>1. \A i \in k .. n : queue[i] \in S
      BY <1>1, <1>6
    <2>2. n \in Int
      BY <1>1
    <2>3. /\ right \in Seq(S) /\ Len(right) = IF k <= n THEN n - k + 1 ELSE 0
          /\ \A i \in 1 .. n - k + 1 : right[i] = queue[k + i - 1]
      BY <2>1, <2>2, <1>6, SubSeqProperties
    <2> QED
      BY <2>3, <1>6, <1>1
  <1> HIDE DEF left, right
  <1>9. /\ left \o <<task>> \in Seq(S) /\ Len(left \o <<task>>) = k
        /\ \A i \in 1 .. k : (left \o <<task>>)[i] = IF i < k THEN queue[i] ELSE task
    BY <1>6, <1>7
  <1> DEFINE front == left \o <<task>>
  <1> HIDE DEF front
  <1>10. /\ front \o right \in Seq(S) /\ Len(front \o right) = n + 1
         /\ \A i \in 1 .. n + 1 :
               (front \o right)[i] = IF i <= k THEN front[i] ELSE right[i - k]
    <2>1. front \in Seq(S) /\ Len(front) = k
      BY <1>9 DEF front
    <2>2. right \in Seq(S) /\ Len(right) = n - k + 1
      BY <1>8
    <2>3. /\ front \o right \in Seq(S)
          /\ Len(front \o right) = Len(front) + Len(right)
          /\ \A i \in 1 .. Len(front) + Len(right) :
                (front \o right)[i] = IF i <= Len(front) THEN front[i]
                                       ELSE right[i - Len(front)]
      BY <2>1, <2>2, ConcatProperties
    <2>4. Len(front) + Len(right) = n + 1
      BY <2>1, <2>2, <1>1, <1>6
    <2> QED
      BY <2>1, <2>3, <2>4
  <1>11. \A i \in 1 .. n + 1 : front[i] = (IF i < k THEN queue[i] ELSE task) \/ i > k
    BY <1>1, <1>6, <1>9 DEF front
  <1>12. \A i \in 1 .. n + 1 : i > k => right[i - k] = queue[i - 1]
    BY <1>1, <1>6, <1>8
  <1>13. \A i \in 1 .. n + 1 :
            (front \o right)[i] = IF i < k THEN queue[i]
                                  ELSE IF i = k THEN task ELSE queue[i - 1]
    BY <1>1, <1>6, <1>10, <1>11, <1>12
  <1>14. Inserted(task) = front \o right
    BY <1>5 DEF front
  <1>15. /\ k \in 1 .. n + 1
         /\ Inserted(task) \in Seq(S)
         /\ Len(Inserted(task)) = n + 1
         /\ \A i \in 1 .. n + 1 :
               Inserted(task)[i] = IF i < k THEN queue[i]
                                   ELSE IF i = k THEN task ELSE queue[i - 1]
    BY <1>6, <1>10, <1>13, <1>14
  <1> QED
    BY <1>15, Zenon DEF n, k, before

LEMMA InsertedMembers ==
    ASSUME NEW S, queue \in Seq(S), NEW task \in S
    PROVE  /\ Inserted(task) \in Seq(S)
           /\ Len(Inserted(task)) = Len(queue) + 1
           /\ \A i \in 1 .. Len(Inserted(task)) :
                 \/ Inserted(task)[i] = task
                 \/ \E j \in 1 .. Len(queue) : Inserted(task)[i] = queue[j]
  <1> DEFINE n == Len(queue)
  <1>1. n \in Nat
    BY LenProperties
  <1>2. PICK k \in 1 .. n + 1 :
           /\ Inserted(task) \in Seq(S)
           /\ Len(Inserted(task)) = n + 1
           /\ \A i \in 1 .. n + 1 :
                 Inserted(task)[i] = IF i < k THEN queue[i]
                                     ELSE IF i = k THEN task ELSE queue[i - 1]
    BY InsertedShape, Zenon
  <1>3. ASSUME NEW i \in 1 .. n + 1
        PROVE  \/ Inserted(task)[i] = task
               \/ \E j \in 1 .. n : Inserted(task)[i] = queue[j]
    <2>1. CASE i < k
      <3>1. i \in 1 .. n
        BY <1>1, <1>2, <2>1
      <3> QED
        BY <1>2, <2>1, <3>1
    <2>2. CASE i = k
      BY <1>2, <2>2
    <2>3. CASE i > k
      <3>1. i - 1 \in 1 .. n
        BY <1>1, <1>2, <2>3
      <3>2. ~(i < k) /\ i # k
        BY <1>1, <1>2, <2>3
      <3> QED
        BY <1>2, <3>1, <3>2
    <2> QED
      BY <1>1, <1>2, <2>1, <2>2, <2>3
  <1> QED
    BY <1>2, <1>3

-----------------------------------------------------------------------------
(* Tasks *)

LEMMA TaskFacts ==
    ASSUME NEW t \in Task
    PROVE  /\ t.kind \in Kinds
           /\ t.wait \in 0 .. Delay[t.kind]
           /\ t.wait \in Nat
           /\ t.kind = "config" => t.arg \in Configs
  <1>1. Delay["config"] = 1 /\ Delay["step"] = 2 /\ Delay["tune"] = 3 /\ Delay["scan"] = 4
    BY DEF Delay
  <1>2. CASE t \in TaskOf("config", Configs)
    BY <1>1, <1>2 DEF TaskOf, Kinds
  <1>3. CASE t \in TaskOf("scan", Directions)
    BY <1>1, <1>3 DEF TaskOf, Kinds
  <1>4. CASE t \in TaskOf("step", Directions)
    BY <1>1, <1>4 DEF TaskOf, Kinds
  <1>5. CASE t \in TaskOf("tune", Selectors \union Channel)
    BY <1>1, <1>5 DEF TaskOf, Kinds
  <1> QED
    BY <1>2, <1>3, <1>4, <1>5 DEF Task

LEMMA MadeTask ==
    ASSUME NEW kind \in Kinds, NEW arg,
           kind = "config" => arg \in Configs,
           kind \in {"scan", "step"} => arg \in Directions,
           kind = "tune" => arg \in Selectors \union Channel
    PROVE  [kind |-> kind, arg |-> arg, wait |-> Delay[kind]] \in Task
  <1>1. Delay["config"] = 1 /\ Delay["step"] = 2 /\ Delay["tune"] = 3 /\ Delay["scan"] = 4
    BY DEF Delay
  <1>2. CASE kind = "config"
    BY <1>1, <1>2 DEF Task, TaskOf
  <1>3. CASE kind = "scan"
    BY <1>1, <1>3 DEF Task, TaskOf
  <1>4. CASE kind = "step"
    BY <1>1, <1>4 DEF Task, TaskOf
  <1>5. CASE kind = "tune"
    BY <1>1, <1>5 DEF Task, TaskOf
  <1> QED
    BY <1>2, <1>3, <1>4, <1>5 DEF Kinds

LEMMA TickedTask ==
    ASSUME NEW t \in Task
    PROVE  LET u == [t EXCEPT !.wait = IF @ > 0 THEN @ - 1 ELSE 0]
           IN  u \in Task /\ u.kind = t.kind /\ u.wait = IF t.wait > 0 THEN t.wait - 1 ELSE 0
  <1>1. Delay["config"] = 1 /\ Delay["step"] = 2 /\ Delay["tune"] = 3 /\ Delay["scan"] = 4
    BY DEF Delay
  <1>2. CASE t \in TaskOf("config", Configs)
    BY <1>1, <1>2 DEF Task, TaskOf
  <1>3. CASE t \in TaskOf("scan", Directions)
    BY <1>1, <1>3 DEF Task, TaskOf
  <1>4. CASE t \in TaskOf("step", Directions)
    BY <1>1, <1>4 DEF Task, TaskOf
  <1>5. CASE t \in TaskOf("tune", Selectors \union Channel)
    BY <1>1, <1>5 DEF Task, TaskOf
  <1> QED
    BY <1>2, <1>3, <1>4, <1>5 DEF Task

(* Scheduling a well formed task keeps the queue well formed and bounded.     *)
LEMMA ScheduledQueue ==
    ASSUME TunerInv, NEW kind \in Kinds, NEW arg, schedule(kind, arg),
           kind = "config" => arg \in Configs,
           kind \in {"scan", "step"} => arg \in Directions,
           kind = "tune" => arg \in Selectors \union Channel,
           kind = "step" => mIsAmfmConfigSet
    PROVE  /\ queue' \in Seq(Task)
           /\ Len(queue') <= MaxTasks
           /\ \A i \in 1 .. Len(queue') : queue'[i].kind = "step" => mIsAmfmConfigSet
  <1> DEFINE task == [kind |-> kind, arg |-> arg, wait |-> Delay[kind]]
  <1>1. task \in Task
    BY MadeTask
  <1>2. task.kind = kind
    OBVIOUS
  <1> HIDE DEF task
  <1>3. queue \in Seq(Task) /\ queue' = Inserted(task) /\ Len(queue) < MaxTasks
    BY DEF TunerInv, TunerTypes, schedule, task
  <1>4. /\ Inserted(task) \in Seq(Task)
        /\ Len(Inserted(task)) = Len(queue) + 1
        /\ \A i \in 1 .. Len(Inserted(task)) :
              \/ Inserted(task)[i] = task
              \/ \E j \in 1 .. Len(queue) : Inserted(task)[i] = queue[j]
    BY <1>1, <1>3, InsertedMembers
  <1>5. Len(queue') <= MaxTasks
    <2>1. Len(queue) \in Nat /\ MaxTasks \in Nat
      BY <1>3, LenProperties, TunerAssumption
    <2> QED
      BY <1>3, <1>4, <2>1
  <1>6. \A j \in 1 .. Len(queue) : queue[j].kind = "step" => mIsAmfmConfigSet
    BY DEF TunerInv, StepsAreConfigured
  <1>7. \A i \in 1 .. Len(queue') : queue'[i].kind = "step" => mIsAmfmConfigSet
    BY <1>2, <1>3, <1>4, <1>6
  <1> QED
    BY <1>3, <1>4, <1>5, <1>7

-----------------------------------------------------------------------------
(* The invariant *)

LEMMA InitInv == Init => TunerInv
  <1> SUFFICES ASSUME Init PROVE TunerInv
    OBVIOUS
  <1>1. queue = <<>> /\ queue \in Seq(Task) /\ Len(queue) = 0
    BY EmptySeq DEF Init
  <1>2. mCurrentProgram \in [type : {"AM", "FM", "none"}, freq : Nat]
    BY DEF Init, NoSelector
  <1>3. MaxTasks \in Nat
    BY TunerAssumption
  <1>4. TunerTypes
    <2>1. Len(queue) <= MaxTasks
      BY <1>1, <1>3
    <2>2. mIsClosed \in BOOLEAN /\ mIsAmfmConfigSet \in BOOLEAN /\ mIsTuneCompleted \in BOOLEAN
          /\ lost \in BOOLEAN /\ late \in Nat
      BY DEF Init
    <2>3. inflight = NoTask /\ mAmfmConfig = NoConfig /\ band = "none"
      BY DEF Init
    <2> QED
      BY <1>1, <1>2, <2>1, <2>2, <2>3, Zenon DEF TunerTypes
  <1>5. inflight.kind = "none"
    BY DEF Init, NoTask
  <1> QED
    BY <1>1, <1>4, <1>5 DEF Init, TunerInv, StepsAreConfigured, ClosedIsDone

(* A request schedules at most one task on an open tuner and leaves alone    *)
(* what a task does to the radio.                                            *)
LEMMA RequestKeeps ==
    ASSUME TunerInv, ~mIsClosed,
           UNCHANGED <<inflight, mIsClosed, reqVars, late>>,
           queue' \in Seq(Task), Len(queue') <= MaxTasks,
           \A i \in 1 .. Len(queue') : queue'[i].kind = "step" => mIsAmfmConfigSet,
           mIsTuneCompleted' \in BOOLEAN, band' \in Bands \union {"none"}, lost' \in BOOLEAN
    PROVE  TunerInv'
  <1>1. TunerTypes'
    BY DEF TunerInv, TunerTypes, reqVars
  <1>2. StepsAreConfigured'
    BY DEF TunerInv, StepsAreConfigured, reqVars
  <1>3. ClosedIsDone'
    BY DEF TunerInv, ClosedIsDone
  <1> QED
    BY <1>1, <1>2, <1>3 DEF TunerInv

LEMMA TuneRequest ==
    ASSUME TunerInv, NEW sel \in Selectors \union Channel, tuneByProgramSelector(sel),
           band' \in Bands \union {"none"}, UNCHANGED lost
    PROVE  TunerInv'
  <1>1. /\ ~mIsClosed
        /\ UNCHANGED <<inflight, mIsClosed, reqVars, late>>
        /\ \/ schedule("tune", sel) /\ mIsTuneCompleted' = FALSE
           \/ UNCHANGED <<queue, mIsTuneCompleted>>
    BY DEF tuneByProgramSelector
  <1>2. mIsTuneCompleted \in BOOLEAN /\ lost' \in BOOLEAN
    BY DEF TunerInv, TunerTypes
  <1>3. mIsTuneCompleted' \in BOOLEAN
    BY <1>1, <1>2
  <1>4. /\ queue' \in Seq(Task) /\ Len(queue') <= MaxTasks
        /\ \A i \in 1 .. Len(queue') : queue'[i].kind = "step" => mIsAmfmConfigSet
    <2>1. CASE schedule("tune", sel)
      BY <2>1, ScheduledQueue DEF Kinds
    <2>2. CASE UNCHANGED queue
      BY <2>2 DEF TunerInv, TunerTypes, StepsAreConfigured
    <2> QED
      BY <1>1, <2>1, <2>2
  <1> QED
    BY <1>1, <1>2, <1>3, <1>4, RequestKeeps

LEMMA EmptiedQueue ==
    ASSUME queue' = <<>>
    PROVE  /\ queue' \in Seq(Task) /\ Len(queue') <= MaxTasks
           /\ \A i \in 1 .. Len(queue') : queue'[i].kind = "step" => mIsAmfmConfigSet
  <1>1. queue' \in Seq(Task) /\ Len(queue') = 0
    BY EmptySeq
  <1> QED
    BY <1>1, TunerAssumption

LEMMA RequestInv ==
    ASSUME TunerInv, Request
    PROVE  TunerInv'
  <1> USE DEF Kinds
  <1>1. band \in Bands \union {"none"} /\ lost \in BOOLEAN /\ mIsTuneCompleted \in BOOLEAN
    BY DEF TunerInv, TunerTypes
  <1>2. ASSUME NEW c \in Configs, setConfiguration(c)
        PROVE  TunerInv'
    <2>1. schedule("config", c)
      BY <1>2 DEF setConfiguration
    <2>2. /\ queue' \in Seq(Task) /\ Len(queue') <= MaxTasks
          /\ \A i \in 1 .. Len(queue') : queue'[i].kind = "step" => mIsAmfmConfigSet
      BY <2>1, ScheduledQueue
    <2> QED
      BY <1>1, <1>2, <2>2, RequestKeeps DEF setConfiguration
  <1>3. ASSUME NEW d \in Directions, scan(d)
        PROVE  TunerInv'
    <2>1. schedule("scan", d)
      BY <1>3 DEF scan
    <2>2. /\ queue' \in Seq(Task) /\ Len(queue') <= MaxTasks
          /\ \A i \in 1 .. Len(queue') : queue'[i].kind = "step" => mIsAmfmConfigSet
      BY <2>1, ScheduledQueue
    <2> QED
      BY <1>1, <1>3, <2>2, RequestKeeps DEF scan
  <1>4. ASSUME NEW d \in Directions, step(d)
        PROVE  TunerInv'
    <2>1. schedule("step", d) /\ mIsAmfmConfigSet
      BY <1>4 DEF step
    <2>2. /\ queue' \in Seq(Task) /\ Len(queue') <= MaxTasks
          /\ \A i \in 1 .. Len(queue') : queue'[i].kind = "step" => mIsAmfmConfigSet
      BY <2>1, ScheduledQueue
    <2> QED
      BY <1>1, <1>4, <2>2, RequestKeeps DEF step
  <1>5. ASSUME NEW s \in Selectors, TunesSelector(s)
        PROVE  TunerInv'
    <2>1. tuneByProgramSelector(s) /\ band' = band
      BY <1>5 DEF TunesSelector
    <2>2. UNCHANGED lost
      BY <2>1 DEF tuneByProgramSelector
    <2> QED
      BY <1>1, <2>1, <2>2, TuneRequest
  <1>6. ASSUME NEW s \in Selectors, TuneGoesOn(s.freq)
        PROVE  TunerInv'
    <2> DEFINE sel == [type |-> ProgramType(band), freq |-> s.freq]
    <2>1. sel \in Channel
      BY TunerAssumption DEF Channel, ProgramType
    <2>2. tuneByProgramSelector(sel) /\ band' = "none"
      BY <1>6 DEF TuneGoesOn
    <2> HIDE DEF sel
    <2>3. UNCHANGED lost
      BY <2>2 DEF tuneByProgramSelector
    <2> QED
      BY <2>1, <2>2, <2>3, TuneRequest
  <1>7. CASE TuneReadsBand
    <2>1. band' \in Bands
      <3>1. mIsAmfmConfigSet => mAmfmConfig \in Configs
        BY DEF TunerInv, StepsAreConfigured
      <3>2. mIsAmfmConfigSet => mAmfmConfig.type \in Bands
        BY <3>1, TunerAssumption
      <3> QED
        BY <1>7, <3>2 DEF TuneReadsBand
    <2>2. UNCHANGED <<queue, inflight, mIsClosed, mIsTuneCompleted, reqVars, late, lost>>
      BY <1>7 DEF TuneReadsBand
    <2> QED
      BY <2>1, <2>2 DEF TunerInv, TunerTypes, StepsAreConfigured, ClosedIsDone, Taken, reqVars
  <1>8. CASE cancel
    <2>1. queue' = <<>> /\ ~mIsClosed /\ lost' \in BOOLEAN
      BY <1>1, <1>8 DEF cancel, cancelAll
    <2>2. /\ queue' \in Seq(Task) /\ Len(queue') <= MaxTasks
          /\ \A i \in 1 .. Len(queue') : queue'[i].kind = "step" => mIsAmfmConfigSet
      BY <2>1, EmptiedQueue
    <2> QED
      BY <1>1, <1>8, <2>1, <2>2, RequestKeeps DEF cancel
  <1>9. CASE forceClose
    <2>1. /\ queue' = <<>> /\ ~mIsClosed /\ mIsClosed' = TRUE
          /\ UNCHANGED <<inflight, mIsTuneCompleted, band, reqVars, late, lost>>
      BY <1>9 DEF forceClose, TasksAfterClose
    <2>2. /\ queue' \in Seq(Task) /\ Len(queue') <= MaxTasks
          /\ \A i \in 1 .. Len(queue') : queue'[i].kind = "step" => mIsAmfmConfigSet
      BY <2>1, EmptiedQueue
    <2>3. TunerTypes'
      BY <2>1, <2>2 DEF TunerInv, TunerTypes, reqVars
    <2>4. StepsAreConfigured'
      BY <2>1, <2>2 DEF TunerInv, StepsAreConfigured, reqVars
    <2>5. late' = 0
      BY <2>1 DEF TunerInv, ClosedIsDone
    <2>6. late' + Taken' <= 1
      BY <2>5 DEF Taken
    <2>7. ClosedIsDone'
      BY <2>1, <2>6, Zenon DEF ClosedIsDone
    <2> QED
      BY <2>3, <2>4, <2>7 DEF TunerInv
  <1> QED
    BY <1>2, <1>3, <1>4, <1>5, <1>6, <1>7, <1>8, <1>9 DEF Request

(* A task that runs is the one in flight; a closed tuner has no other left.   *)
LEMMA RunsKeeps ==
    ASSUME TunerInv, NEW kind \in Kinds, Runs(kind),
           mIsAmfmConfigSet => mIsAmfmConfigSet',
           mIsAmfmConfigSet' \in BOOLEAN,
           mAmfmConfig' \in Configs \union {NoConfig},
           mIsAmfmConfigSet' => mAmfmConfig' \in Configs,
           mCurrentProgram' \in [type : {"AM", "FM", "none"}, freq : Nat],
           mIsTuneCompleted' \in BOOLEAN
    PROVE  TunerInv'
  <1>1. /\ inflight.kind = kind /\ inflight' = NoTask
        /\ late' = IF mIsClosed THEN late + 1 ELSE late
        /\ UNCHANGED <<queue, mIsClosed, ptype_pfreq, band, lost>>
    BY DEF Runs
  <1>2. /\ queue \in Seq(Task) /\ Len(queue) <= MaxTasks
        /\ late \in Nat /\ mIsClosed \in BOOLEAN /\ lost \in BOOLEAN
        /\ band \in Bands \union {"none"}
    BY DEF TunerInv, TunerTypes
  <1>3. late' \in Nat
    BY <1>1, <1>2
  <1>4. TunerTypes'
    BY <1>1, <1>2, <1>3, Zenon DEF TunerTypes
  <1>5. inflight'.kind = "none"
    BY <1>1 DEF NoTask
  <1>6. StepsAreConfigured'
    BY <1>1, <1>5 DEF TunerInv, StepsAreConfigured
  <1>7. Taken' = 0
    BY <1>5 DEF Taken
  <1>8. CASE mIsClosed
    <2>1. inflight.kind # "none"
      BY <1>1 DEF Kinds
    <2>2. queue = <<>> /\ late + 1 <= 1
      BY <1>8, <2>1 DEF TunerInv, ClosedIsDone, Taken
    <2>3. late' + 0 <= 1
      BY <1>1, <1>2, <1>8, <2>2
    <2>4. ClosedIsDone'
      BY <1>1, <1>7, <1>8, <2>2, <2>3, Zenon DEF ClosedIsDone
    <2> QED
      BY <1>4, <1>6, <2>4 DEF TunerInv
  <1>9. CASE ~mIsClosed
    <2>1. late = 0
      BY <1>9 DEF TunerInv, ClosedIsDone
    <2>2. ClosedIsDone'
      BY <1>1, <1>9, <2>1, Zenon DEF ClosedIsDone
    <2> QED
      BY <1>4, <1>6, <2>2 DEF TunerInv
  <1> QED
    BY <1>8, <1>9

(* The argument of a task in flight is of the kind of the task.               *)
LEMMA TaskInFlight ==
    ASSUME TunerInv, inflight.kind \in Kinds
    PROVE  /\ inflight \in Task
           /\ inflight.kind = "config" =>
                 /\ inflight.arg \in Configs
                 /\ inflight.arg.lower \in Nat
  <1>1. inflight # NoTask
    BY DEF NoTask, Kinds
  <1>2. inflight \in Task
    BY <1>1 DEF TunerInv, TunerTypes
  <1> QED
    BY <1>2, TaskFacts, TunerAssumption

LEMMA WorkerInv ==
    ASSUME TunerInv, Worker
    PROVE  TunerInv'
  <1>1. /\ mAmfmConfig \in Configs \union {NoConfig} /\ mIsAmfmConfigSet \in BOOLEAN
        /\ mCurrentProgram \in [type : {"AM", "FM", "none"}, freq : Nat]
        /\ mIsTuneCompleted \in BOOLEAN
        /\ mIsAmfmConfigSet => mAmfmConfig \in Configs
    BY DEF TunerInv, TunerTypes, StepsAreConfigured
  <1>2. CASE Take
    <2>1. /\ queue \in Seq(Task) /\ queue # <<>> /\ Len(queue) <= MaxTasks
          /\ inflight.kind = "none"
          /\ inflight' = Head(queue) /\ queue' = Tail(queue)
          /\ UNCHANGED <<mIsClosed, mIsTuneCompleted, ptype_pfreq, band, reqVars, late, lost>>
      BY <1>2 DEF Take, TunerInv, TunerTypes
    <2>2. /\ Head(queue) \in Task /\ Tail(queue) \in Seq(Task)
          /\ Len(Tail(queue)) = Len(queue) - 1
          /\ \A i \in 1 .. Len(Tail(queue)) : Tail(queue)[i] = queue[i + 1]
      BY <2>1, HeadTailProperties
    <2>3. Len(queue) \in Nat \ {0} /\ Head(queue) = queue[1] /\ MaxTasks \in Nat
      BY <2>1, HeadTailProperties, LenProperties, EmptySeq, TunerAssumption
    <2>4. TunerTypes'
      <3>1. Len(queue') <= MaxTasks
        BY <2>1, <2>2, <2>3
      <3> QED
        BY <2>1, <2>2, <3>1 DEF TunerInv, TunerTypes, reqVars
    <2>5. StepsAreConfigured'
      <3>1. \A i \in 1 .. Len(queue) : queue[i].kind = "step" => mIsAmfmConfigSet
        BY DEF TunerInv, StepsAreConfigured
      <3>2. \A i \in 1 .. Len(queue') : i + 1 \in 1 .. Len(queue)
        BY <2>1, <2>2, <2>3
      <3>3. \A i \in 1 .. Len(queue') : queue'[i].kind = "step" => mIsAmfmConfigSet
        BY <2>1, <2>2, <3>1, <3>2
      <3>4. inflight'.kind = "step" => mIsAmfmConfigSet
        BY <2>1, <2>3, <3>1
      <3> QED
        BY <1>1, <2>1, <3>3, <3>4 DEF StepsAreConfigured, reqVars
    <2>6. ClosedIsDone'
      BY <2>1, Zenon DEF TunerInv, ClosedIsDone
    <2> QED
      BY <2>4, <2>5, <2>6 DEF TunerInv
  <1>3. CASE RunConfig
    <2>1. Runs("config") /\ inflight.kind = "config"
      BY <1>3 DEF RunConfig, Runs
    <2>2. inflight.arg \in Configs /\ inflight.arg.lower \in Nat
      BY <2>1, TaskInFlight DEF Kinds
    <2>3. mAmfmConfig' \in Configs /\ mIsAmfmConfigSet' = TRUE /\ mIsTuneCompleted' \in BOOLEAN
      BY <1>1, <1>3, <2>2 DEF RunConfig, Applied
    <2>4. mCurrentProgram' \in [type : {"AM", "FM", "none"}, freq : Nat]
      BY <1>3, <2>2 DEF RunConfig, ProgramType
    <2> QED
      BY <2>1, <2>3, <2>4, RunsKeeps DEF Kinds
  <1>4. CASE RunScan
    BY <1>1, <1>4, RunsKeeps DEF RunScan, Kinds
  <1>5. CASE RunStep
    BY <1>1, <1>5, RunsKeeps DEF RunStep, tuneInternalLocked, Kinds
  <1>6. CASE RunTune
    BY <1>1, <1>6, RunsKeeps DEF RunTune, tuneInternalLocked, Kinds
  <1> QED
    BY <1>2, <1>3, <1>4, <1>5, <1>6 DEF Worker

LEMMA TickInv ==
    ASSUME TunerInv, Tick
    PROVE  TunerInv'
  <1> DEFINE ticked(t) == [t EXCEPT !.wait = IF @ > 0 THEN @ - 1 ELSE 0]
  <1>1. /\ queue' = [i \in 1 .. Len(queue) |-> ticked(queue[i])]
        /\ UNCHANGED <<inflight, mIsClosed, mIsTuneCompleted, ptype_pfreq, band,
                       reqVars, late, lost>>
    BY DEF Tick
  <1>2. /\ queue \in Seq(Task) /\ Len(queue) \in Nat
        /\ \A i \in 1 .. Len(queue) : queue[i] \in Task
    BY LenProperties, ElementOfSeq DEF TunerInv, TunerTypes
  <1>3. \A t \in Task : ticked(t) \in Task /\ ticked(t).kind = t.kind
    BY TickedTask
  <1> HIDE DEF ticked
  <1>4. queue' \in Seq(Task) /\ Len(queue') = Len(queue)
    BY <1>1, <1>2, <1>3, IsASeq
  <1>5. \A i \in 1 .. Len(queue') : queue'[i].kind = queue[i].kind
    BY <1>1, <1>2, <1>3, <1>4
  <1>6. TunerTypes'
    BY <1>1, <1>4 DEF TunerInv, TunerTypes, reqVars
  <1>7. StepsAreConfigured'
    BY <1>1, <1>4, <1>5 DEF TunerInv, StepsAreConfigured, reqVars
  <1>8. ClosedIsDone'
    <2>1. mIsClosed => queue' = <<>>
      <3>1. mIsClosed => Len(queue) = 0
        BY EmptySeq DEF TunerInv, ClosedIsDone
      <3> QED
        BY <1>4, <3>1, EmptySeq
    <2>2. UNCHANGED <<mIsClosed, late, inflight>>
      BY <1>1
    <2> QED
      BY <2>1, <2>2, Zenon DEF TunerInv, ClosedIsDone, Taken
  <1> QED
    BY <1>6, <1>7, <1>8 DEF TunerInv

-----------------------------------------------------------------------------
(* In every reachable state the worker's tasks are well formed, those that    *)
(* step have a configuration and a closed tuner has no more of them.         *)
THEOREM Invariance == Spec => []TunerInv
  <1>1. TunerInv /\ [Next]_vars => TunerInv'
    <2> SUFFICES ASSUME TunerInv, [Next]_vars PROVE TunerInv'
      OBVIOUS
    <2>1. CASE Next
      BY <2>1, RequestInv, WorkerInv, TickInv DEF Next
    <2>2. CASE UNCHANGED vars
      BY <2>2 DEF vars, reqVars, TunerInv, TunerTypes, StepsAreConfigured, ClosedIsDone, Taken
    <2> QED
      BY <2>1, <2>2
  <1> QED
    BY InitInv, <1>1, PTL DEF Spec

(* The tuner's variables have their types; in particular the queue never     *)
(* holds more than its bound and no task waits longer than its delay.        *)
THEOREM TypesOfTuner == Spec => []TypeOK
  <1>1. TunerInv => TypeOK
    <2> SUFFICES ASSUME TunerInv PROVE TypeOK
      OBVIOUS
    <2>1. /\ queue \in Seq(Task) /\ Len(queue) <= MaxTasks /\ inflight \in Task \union {NoTask}
          /\ mIsClosed \in BOOLEAN /\ mIsAmfmConfigSet \in BOOLEAN
          /\ mAmfmConfig \in Configs \union {NoConfig}
          /\ mCurrentProgram \in [type : {"AM", "FM", "none"}, freq : Nat]
          /\ mIsTuneCompleted \in BOOLEAN /\ band \in Bands \union {"none"}
          /\ late \in Nat /\ lost \in BOOLEAN
      BY DEF TunerInv, TunerTypes
    <2>2. \A i \in 1 .. Len(queue) :
             queue[i].kind \in Kinds /\ queue[i].wait \in 0 .. Delay[queue[i].kind]
      BY <2>1, ElementOfSeq, TaskFacts
    <2>3. inflight.kind \in Kinds \union {"none"}
      <3>1. CASE inflight \in Task
        BY <3>1, TaskFacts
      <3>2. CASE inflight = NoTask
        BY <3>2 DEF NoTask
      <3> QED
        BY <2>1, <3>1, <3>2
    <2>4. mCurrentProgram.type \in {"AM", "FM", "none"} /\ mCurrentProgram.freq >= 0
      BY <2>1
    <2> QED
      BY <2>1, <2>2, <2>3, <2>4, Zenon DEF TypeOK
  <1> QED
    BY <1>1, Invariance, PTL

(* After forceClose at most one more task reaches the radio, whatever was    *)
(* scheduled: the one the worker had taken before the queue was emptied.     *)
THEOREM ClosedTunerFallsSilent == Spec => []CloseDropsWork
  <1>1. TunerInv => CloseDropsWork
    BY DEF TunerInv, TunerTypes, ClosedIsDone, Taken, CloseDropsWork
  <1> QED
    BY <1>1, Invariance, PTL

(* Stepping off one end of the band lands on the other, from wherever the    *)
(* last configuration put the tuner.                                         *)
LEMMA WrappedInBand ==
    ASSUME mAmfmConfig \in Configs, NEW f \in Int
    PROVE  Wrapped(f) \in mAmfmConfig.lower .. mAmfmConfig.upper
  <1>1. /\ mAmfmConfig.lower \in Nat /\ mAmfmConfig.upper \in Nat
        /\ mAmfmConfig.lower < mAmfmConfig.upper
    BY TunerAssumption
  <1> QED
    BY <1>1 DEF Wrapped

(* A step tunes inside the band that is in force when its task runs, also    *)
(* when the configuration has changed since the request.                     *)
THEOREM StepsInsideBand == Spec => StepStaysInBand
  <1> DEFINE InBand == inflight.kind = "step" /\ inflight'.kind = "none" /\ radio' # radio
                          => radio'.freq \in mAmfmConfig.lower .. mAmfmConfig.upper
  <1>1. TunerInv /\ [Next]_vars => [InBand]_vars
    <2> SUFFICES ASSUME TunerInv, Next, inflight.kind = "step", radio' # radio
                 PROVE  radio'.freq \in mAmfmConfig.lower .. mAmfmConfig.upper
      BY DEF vars
    <2>1. Worker
      <3>1. ASSUME Tick \/ TuneReadsBand \/ cancel \/ forceClose PROVE FALSE
        BY <3>1 DEF Tick, TuneReadsBand, cancel, forceClose, reqVars
      <3>2. ASSUME NEW c \in Configs, setConfiguration(c) PROVE FALSE
        BY <3>2 DEF setConfiguration, reqVars
      <3>3. ASSUME NEW d \in Directions, scan(d) \/ step(d) PROVE FALSE
        BY <3>3 DEF scan, step, reqVars
      <3>4. ASSUME NEW s \in Selectors, TunesSelector(s) \/ TuneGoesOn(s.freq) PROVE FALSE
        BY <3>4 DEF TunesSelector, TuneGoesOn, tuneByProgramSelector, reqVars
      <3> QED
        BY <3>1, <3>2, <3>3, <3>4 DEF Next, Request
    <2>2. RunStep
      BY <2>1 DEF Worker, Take, RunConfig, RunScan, RunTune, Runs
    <2>3. /\ mAmfmConfig \in Configs
          /\ mCurrentProgram.freq \in Int
      BY DEF TunerInv, TunerTypes, StepsAreConfigured
    <2>4. mAmfmConfig.spacing \in Nat
      BY <2>3, TunerAssumption
    <2>5. Stepped(inflight.arg) \in mAmfmConfig.lower .. mAmfmConfig.upper
      <3>1. /\ mCurrentProgram.freq + mAmfmConfig.spacing \in Int
            /\ mCurrentProgram.freq - mAmfmConfig.spacing \in Int
        BY <2>3, <2>4
      <3> QED
        BY <2>3, <3>1, WrappedInBand DEF Stepped
    <2>6. radio' = [type |-> ProgramType(mAmfmConfig.type), freq |-> Stepped(inflight.arg)]
      BY <2>2 DEF RunStep, tuneInternalLocked, ProgramType
    <2> QED
      BY <2>5, <2>6
  <1> QED
    BY <1>1, Invariance, PTL DEF Spec, StepStaysInBand

-----------------------------------------------------------------------------
(* The order of the work *)

DueInOrder ==
    \A i, j \in 1 .. Len(queue) : i <= j => queue[i].wait <= queue[j].wait

(* In a queue ordered by due time, the entries due no later than a new task  *)
(* are its first ones, so that the count of them is their last position.     *)
LEMMA DueBeforeIsPrefix ==
    ASSUME queue \in Seq(Task), DueInOrder, NEW w \in Nat, NEW i \in 1 .. Len(queue)
    PROVE  LET before == {j \in 1 .. Len(queue) : queue[j].wait <= w}
           IN  queue[i].wait <= w <=> i <= Cardinality(before)
  <1> DEFINE n == Len(queue)
             before == {j \in 1 .. n : queue[j].wait <= w}
  <1>1. n \in Nat /\ i \in Nat /\ \A j \in 1 .. n : queue[j].wait \in Nat
    BY LenProperties, ElementOfSeq, TaskFacts
  <1>2. /\ IsFiniteSet(1 .. n)
        /\ IsFiniteSet(1 .. i) /\ Cardinality(1 .. i) = i
        /\ IsFiniteSet(1 .. i - 1) /\ Cardinality(1 .. i - 1) = i - 1
    <2>1. 1 \in Int /\ i \in Int /\ i - 1 \in Int /\ n \in Int
      BY <1>1
    <2>2. /\ IsFiniteSet(1 .. n)
          /\ IsFiniteSet(1 .. i) /\ Cardinality(1 .. i) = IF 1 > i THEN 0 ELSE i - 1 + 1
          /\ IsFiniteSet(1 .. i - 1)
          /\ Cardinality(1 .. i - 1) = IF 1 > i - 1 THEN 0 ELSE (i - 1) - 1 + 1
      BY <2>1, FS_Interval
    <2> QED
      BY <2>2, <1>1
  <1>3. before \subseteq 1 .. n
    OBVIOUS
  <1>4. IsFiniteSet(before) /\ Cardinality(before) \in Nat
    BY <1>2, <1>3, FS_Subset, FS_CardinalityType
  <1>5. CASE queue[i].wait <= w
    <2>1. 1 .. i \subseteq before
      <3>1. ASSUME NEW j \in 1 .. i PROVE j \in 1 .. n /\ queue[j].wait <= queue[i].wait
        <4>1. j \in 1 .. n /\ j <= i
          BY <1>1
        <4> QED
          BY <4>1 DEF DueInOrder
      <3> QED
        BY <1>1, <1>5, <3>1
    <2>2. Cardinality(1 .. i) <= Cardinality(before)
      BY <1>4, <2>1, FS_Subset
    <2> QED
      BY <1>2, <1>5, <2>2
  <1>6. CASE ~(queue[i].wait <= w)
    <2>1. before \subseteq 1 .. i - 1
      <3>1. ASSUME NEW j \in before, ~(j < i) PROVE FALSE
        <4>1. j \in 1 .. n /\ i <= j /\ queue[j].wait <= w
          BY <1>1, <3>1
        <4>2. queue[i].wait <= queue[j].wait
          BY <4>1 DEF DueInOrder
        <4> QED
          BY <1>1, <1>6, <4>1, <4>2
      <3> QED
        BY <1>1, <1>3, <3>1
    <2>2. Cardinality(before) <= Cardinality(1 .. i - 1)
      BY <1>2, <2>1, FS_Subset
    <2>3. Cardinality(before) <= i - 1
      BY <1>2, <2>2
    <2> QED
      BY <1>1, <1>4, <1>6, <2>3
  <1> QED
    BY <1>5, <1>6

LEMMA InsertedInOrder ==
    ASSUME queue \in Seq(Task), DueInOrder, NEW task \in Task, queue' = Inserted(task)
    PROVE  DueInOrder'
  <1> DEFINE n == Len(queue)
             m == Cardinality({i \in 1 .. n : queue[i].wait <= task.wait})
             k == m + 1
  <1>1. n \in Nat /\ task.wait \in Nat /\ \A j \in 1 .. n : queue[j].wait \in Nat
    BY LenProperties, ElementOfSeq, TaskFacts
  <1>2. /\ k \in 1 .. n + 1
        /\ Len(queue') = n + 1
        /\ \A i \in 1 .. n + 1 :
              queue'[i] = IF i < k THEN queue[i] ELSE IF i = k THEN task ELSE queue[i - 1]
    BY InsertedShape, Zenon
  <1>3. \A i \in 1 .. n : queue[i].wait <= task.wait <=> i <= m
    BY <1>1, DueBeforeIsPrefix
  <1>4. IsFiniteSet(1 .. n)
    <2>1. 1 \in Int /\ n \in Int
      BY <1>1
    <2> QED
      BY <2>1, FS_Interval
  <1>5. m \in Nat
    BY <1>4, FS_Subset, FS_CardinalityType
  <1> HIDE DEF m, n
  <1>6. ASSUME NEW i \in 1 .. n + 1, NEW j \in 1 .. n + 1, i <= j
        PROVE  queue'[i].wait <= queue'[j].wait
    <2>1. CASE i < k /\ j < k
      <3>1. i \in 1 .. n /\ j \in 1 .. n
        BY <1>1, <1>2, <1>5, <2>1
      <3> QED
        BY <1>2, <1>6, <2>1, <3>1 DEF DueInOrder, n
    <2>2. CASE i < k /\ j = k
      <3>1. i \in 1 .. n /\ i <= m /\ ~(j < k)
        BY <1>1, <1>2, <1>5, <2>2
      <3> QED
        BY <1>2, <1>3, <2>2, <3>1
    <2>3. CASE i < k /\ j > k
      <3>1. i \in 1 .. n /\ j - 1 \in 1 .. n /\ i <= j - 1 /\ ~(j < k) /\ j # k
        BY <1>1, <1>2, <1>5, <2>3
      <3> QED
        BY <1>2, <2>3, <3>1 DEF DueInOrder, n
    <2>4. CASE i = k /\ j = k
      BY <1>1, <1>2, <2>4
    <2>5. CASE i = k /\ j > k
      <3>1. j - 1 \in 1 .. n /\ ~(j - 1 <= m) /\ ~(j < k) /\ j # k /\ ~(i < k)
        BY <1>1, <1>2, <1>5, <2>5
      <3>2. ~(queue[j - 1].wait <= task.wait) /\ queue[j - 1].wait \in Nat
        BY <1>1, <1>3, <3>1
      <3>3. queue'[i] = task /\ queue'[j] = queue[j - 1]
        BY <1>2, <2>5, <3>1
      <3> QED
        BY <1>1, <3>2, <3>3
    <2>6. CASE i > k /\ j > k
      <3>1. /\ i - 1 \in 1 .. n /\ j - 1 \in 1 .. n /\ i - 1 <= j - 1
            /\ ~(j < k) /\ j # k /\ ~(i < k) /\ i # k
        BY <1>1, <1>2, <1>5, <1>6, <2>6
      <3> QED
        BY <1>2, <3>1 DEF DueInOrder, n
    <2> QED
      BY <1>2, <1>5, <1>6, <2>1, <2>2, <2>3, <2>4, <2>5, <2>6
  <1> QED
    BY <1>2, <1>6 DEF DueInOrder

(* The worker's queue stays ordered by due time, so the task it takes from   *)
(* the head is the one due first: requests are reordered only by the delays  *)
(* Tuner.cpp gives them.                                                     *)
THEOREM EarliestFirst == Spec => []DueInOrder
  <1>1. Init => DueInOrder
    BY DEF Init, DueInOrder
  <1>2. TunerInv /\ DueInOrder /\ [Next]_vars => DueInOrder'
    <2> SUFFICES ASSUME TunerInv, DueInOrder, [Next]_vars PROVE DueInOrder'
      OBVIOUS
    <2>1. queue \in Seq(Task) /\ Len(queue) \in Nat
      BY LenProperties DEF TunerInv, TunerTypes
    <2>2. \A j \in 1 .. Len(queue) : queue[j] \in Task /\ queue[j].wait \in Nat
      BY <2>1, ElementOfSeq, TaskFacts
    <2>3. ASSUME queue' = queue PROVE DueInOrder'
      BY <2>3 DEF DueInOrder
    <2>4. ASSUME queue' = <<>> PROVE DueInOrder'
      BY <2>4 DEF DueInOrder
    <2>5. ASSUME NEW kind \in Kinds, NEW arg, schedule(kind, arg),
                 kind = "config" => arg \in Configs,
                 kind \in {"scan", "step"} => arg \in Directions,
                 kind = "tune" => arg \in Selectors \union Channel
          PROVE  DueInOrder'
      <3> DEFINE task == [kind |-> kind, arg |-> arg, wait |-> Delay[kind]]
      <3>1. task \in Task
        BY <2>5, MadeTask
      <3>2. queue' = Inserted(task)
        BY <2>5 DEF schedule
      <3> QED
        BY <2>1, <3>1, <3>2, InsertedInOrder
    <2>6. ASSUME NEW sel \in Selectors \union Channel, tuneByProgramSelector(sel)
          PROVE  DueInOrder'
      <3>1. schedule("tune", sel) \/ queue' = queue
        BY <2>6 DEF tuneByProgramSelector
      <3> QED
        BY <2>3, <2>5, <3>1 DEF Kinds
    <2>7. CASE Request
      <3>1. ASSUME NEW c \in Configs, setConfiguration(c) PROVE DueInOrder'
        BY <2>5, <3>1 DEF setConfiguration, Kinds
      <3>2. ASSUME NEW d \in Directions, scan(d) PROVE DueInOrder'
        BY <2>5, <3>2 DEF scan, Kinds
      <3>3. ASSUME NEW d \in Directions, step(d) PROVE DueInOrder'
        BY <2>5, <3>3 DEF step, Kinds
      <3>4. ASSUME NEW s \in Selectors, TunesSelector(s) PROVE DueInOrder'
        BY <2>6, <3>4 DEF TunesSelector
      <3>5. ASSUME NEW s \in Selectors, TuneGoesOn(s.freq) PROVE DueInOrder'
        <4> DEFINE sel == [type |-> ProgramType(band), freq |-> s.freq]
        <4>1. sel \in Channel
          BY TunerAssumption DEF Channel, ProgramType
        <4>2. tuneByProgramSelector(sel)
          BY <3>5 DEF TuneGoesOn
        <4> HIDE DEF sel
        <4> QED
          BY <2>6, <4>1, <4>2
      <3>6. CASE TuneReadsBand \/ cancel \/ forceClose
        BY <2>3, <2>4, <3>6 DEF TuneReadsBand, cancel, cancelAll, forceClose, TasksAfterClose
      <3> QED
        BY <2>7, <3>1, <3>2, <3>3, <3>4, <3>5, <3>6 DEF Request
    <2>8. CASE Tick
      <3> DEFINE ticked(t) == [t EXCEPT !.wait = IF @ > 0 THEN @ - 1 ELSE 0]
      <3>1. queue' = [i \in 1 .. Len(queue) |-> ticked(queue[i])]
        BY <2>8 DEF Tick
      <3>2. \A t \in Task : ticked(t).wait = IF t.wait > 0 THEN t.wait - 1 ELSE 0
        BY TickedTask
      <3> HIDE DEF ticked
      <3>3. Len(queue') = Len(queue)
        BY <2>1, <3>1
      <3>4. \A i \in 1 .. Len(queue) :
               queue'[i].wait = IF queue[i].wait > 0 THEN queue[i].wait - 1 ELSE 0
        BY <2>2, <3>1, <3>2
      <3> QED
        BY <2>1, <2>2, <3>3, <3>4 DEF DueInOrder
    <2>9. CASE Take
      <3>1. queue # <<>> /\ queue' = Tail(queue)
        BY <2>9 DEF Take
      <3>2. /\ Len(queue') = Len(queue) - 1
            /\ \A i \in 1 .. Len(queue') : queue'[i] = queue[i + 1]
        BY <2>1, <3>1, HeadTailProperties
      <3>3. ASSUME NEW i \in 1 .. Len(queue'), NEW j \in 1 .. Len(queue'), i <= j
            PROVE  queue'[i].wait <= queue'[j].wait
        <4>1. i + 1 \in 1 .. Len(queue) /\ j + 1 \in 1 .. Len(queue) /\ i + 1 <= j + 1
          BY <2>1, <3>2, <3>3
        <4> QED
          BY <3>2, <4>1 DEF DueInOrder
      <3> QED
        BY <3>3 DEF DueInOrder
    <2>10. CASE RunConfig \/ RunScan \/ RunStep \/ RunTune
      BY <2>3, <2>10 DEF RunConfig, RunScan, RunStep, RunTune, Runs
    <2>11. CASE UNCHANGED vars
      BY <2>3, <2>11 DEF vars
    <2> QED
      BY <2>7, <2>8, <2>9, <2>10, <2>11 DEF Next, Worker
  <1> QED
    BY <1>1, <1>2, Invariance, PTL DEF Spec

-----------------------------------------------------------------------------
(* The serial port *)

ListenerSteps ==
    {"none", "loop", "enter", "reopen", "start", "length", "data", "false", "decode",
     "misread", "mark_closed", "close", "done"} \union Waiting

PortTypes ==
    /\ fds \subseteq Fds
    /\ mTuner \in 0 .. NTuners
    /\ opening \in {"idle", "stop", "mark_closed", "close", "open"}
    /\ isOpen \in [Tuners -> BOOLEAN]
    /\ portfd \in [Tuners -> Fds \union {0}]
    /\ keepReading \in [Tuners -> BOOLEAN]
    /\ listener \in [Tuners -> ListenerSteps]
    /\ extra \in [Tuners -> Nat]

(* openTuner closes the last tuner before it opens the next.                 *)
Marking(t) == t = mTuner /\ opening = "mark_closed"

OneAfterAnother ==
    /\ opening # "idle" => mTuner < NTuners
    /\ opening \in {"stop", "mark_closed", "close"} => mTuner # 0
    /\ opening \in {"mark_closed", "close"} => ~keepReading[mTuner]
    /\ \A t \in Tuners :
          /\ t > mTuner => portfd[t] = 0 /\ keepReading[t]
          /\ ~keepReading[t] => t # mTuner \/ opening \in {"mark_closed", "close", "open"}

(* A closed tuner decodes the frame its listener was waiting for, and then    *)
(* its listener sees the flag.                                               *)
OneMore ==
    \A t \in Tuners :
       /\ keepReading[t] => extra[t] = 0
       /\ extra[t] = 0
             \/ (extra[t] = 1 /\ listener[t] \in {"loop", "mark_closed", "close", "done"})

(* Only a port that its close has marked is opened once more.                *)
ReopenedOnce ==
    \A t \in Tuners :
       /\ t <= mTuner /\ (keepReading[t] \/ Marking(t))
             => isOpen[t] \/ listener[t] \in {"close", "done"}
       /\ listener[t] = "reopen" => t <= mTuner /\ isOpen[t] /\ ~keepReading[t] /\ ~Marking(t)
       /\ listener[t] = "none" <=> t > mTuner

(* The closed tuners that can no longer open a port                          *)
Spent(t) ==
    /\ ~keepReading[t] /\ ~Marking(t)
    /\ isOpen[t] \/ listener[t] \in {"close", "done"}
    /\ listener[t] # "reopen"

SpentTuners == {t \in Tuners : Spent(t)}
Unheld == {fd \in fds : ~Held(fd)}

OneLeakEach == Cardinality(Unheld) <= Cardinality(SpentTuners)

PortInv ==
    /\ PortTypes
    /\ OneAfterAnother
    /\ OneMore
    /\ ReopenedOnce
    /\ OneLeakEach

-----------------------------------------------------------------------------
(* The kernel gives the lowest free descriptor, if there is one.             *)
LEMMA LeastOf ==
    ASSUME NEW S, S \subseteq Nat, S # {}
    PROVE  Min(S) \in S
  <1>1. PICK m \in S : \A y \in S : <<y, m>> \notin OpToRel(<, Nat)
    BY WFMin, NatLessThanWellFounded, Zenon
  <1>2. \A y \in S : ~(y < m)
    BY <1>1, Zenon DEF OpToRel
  <1>3. \A y \in S : m <= y
    BY <1>2
  <1> QED
    BY <1>3 DEF Min

LEMMA Sizes ==
    /\ NTuners \in Nat \ {0}
    /\ IsFiniteSet(Tuners) /\ IsFiniteSet(Fds)
    /\ Cardinality(Fds) = 2 * NTuners
    /\ \A n \in Nat : IsFiniteSet(1 .. n) /\ Cardinality(1 .. n) = n
  <1>1. NTuners \in Nat \ {0}
    BY RadioPortAssumption
  <1>2. \A n \in Nat : IsFiniteSet(1 .. n) /\ Cardinality(1 .. n) = n
    BY FS_Interval
  <1>3. 2 * NTuners \in Nat
    BY <1>1
  <1> QED
    BY <1>1, <1>2, <1>3 DEF Tuners, Fds

LEMMA HeldAtMost ==
    ASSUME PortInv
    PROVE  /\ IsFiniteSet(fds \ Unheld) /\ Cardinality(fds \ Unheld) <= mTuner
           /\ IsFiniteSet(Unheld) /\ IsFiniteSet(fds) /\ IsFiniteSet(SpentTuners)
  <1> DEFINE Ports == {portfd[t] : t \in 1 .. mTuner}
             f == [t \in 1 .. mTuner |-> portfd[t]]
  <1>1. mTuner \in Nat /\ mTuner <= NTuners
    BY Sizes DEF PortInv, PortTypes
  <1>2. f \in Surjection(1 .. mTuner, Ports)
    BY DEF Surjection
  <1>3. IsFiniteSet(Ports) /\ Cardinality(Ports) <= mTuner
    BY <1>1, <1>2, Sizes, FS_Surjection
  <1>4. fds \ Unheld \subseteq Ports
    <2> SUFFICES ASSUME NEW fd \in fds, Held(fd) PROVE fd \in Ports
      BY DEF Unheld
    <2>1. PICK t \in Tuners : portfd[t] = fd
      BY DEF Held
    <2>2. fd # 0
      BY DEF PortInv, PortTypes, Fds
    <2>3. ~(t > mTuner)
      BY <2>1, <2>2 DEF PortInv, OneAfterAnother
    <2>4. t \in 1 .. mTuner
      BY <1>1, <2>3, Sizes DEF Tuners
    <2> QED
      BY <2>1, <2>4
  <1>5. IsFiniteSet(fds \ Unheld) /\ Cardinality(fds \ Unheld) <= Cardinality(Ports)
    BY <1>3, <1>4, FS_Subset
  <1>6. IsFiniteSet(fds)
    BY Sizes, FS_Subset DEF PortInv, PortTypes
  <1>7. Unheld \subseteq fds /\ SpentTuners \subseteq Tuners
    BY DEF Unheld, SpentTuners
  <1>8. IsFiniteSet(Unheld) /\ IsFiniteSet(SpentTuners)
    BY <1>6, <1>7, Sizes, FS_Subset
  <1>9. Cardinality(fds \ Unheld) \in Nat /\ Cardinality(Ports) \in Nat
    BY <1>3, <1>5, FS_CardinalityType
  <1> QED
    BY <1>1, <1>3, <1>5, <1>6, <1>8, <1>9

(* When a tty is to be opened a descriptor is free: each tuner so far holds   *)
(* one at most and has leaked one at most, and the one that opens has none   *)
(* yet or has leaked none.                                                   *)
LEMMA Room ==
    ASSUME PortInv, opening = "open" \/ \E t \in Tuners : listener[t] = "reopen"
    PROVE  Lowest \in Fds /\ Lowest \notin fds
  <1>1. mTuner \in Nat /\ mTuner <= NTuners /\ NTuners \in Nat
    BY Sizes DEF PortInv, PortTypes
  <1>2. SpentTuners \subseteq 1 .. mTuner
    <2> SUFFICES ASSUME NEW t \in Tuners, ~keepReading[t] PROVE t \in 1 .. mTuner
      BY DEF SpentTuners, Spent
    <2>1. ~(t > mTuner)
      BY DEF PortInv, OneAfterAnother
    <2> QED
      BY <1>1, <2>1 DEF Tuners
  <1>3. PICK s \in Nat, u \in Nat, h \in Nat, n \in Nat :
           /\ s = Cardinality(SpentTuners) /\ u = Cardinality(Unheld)
           /\ h = Cardinality(fds \ Unheld) /\ n = Cardinality(fds)
    BY HeldAtMost, FS_CardinalityType
  <1>4. u <= s /\ h <= mTuner
    BY <1>3, HeldAtMost DEF PortInv, OneLeakEach
  <1>5. n <= u + h
    <2>1. fds = Unheld \union (fds \ Unheld) /\ Unheld \intersect (fds \ Unheld) = {}
      BY DEF Unheld
    <2>2. Cardinality(Unheld \union (fds \ Unheld))
            = Cardinality(Unheld) + Cardinality(fds \ Unheld)
                - Cardinality(Unheld \intersect (fds \ Unheld))
      BY HeldAtMost, FS_Union
    <2>3. n = u + h - 0
      BY <1>3, <2>1, <2>2, FS_EmptySet
    <2> QED
      BY <2>3
  <1>6. n < 2 * NTuners
    <2>1. CASE opening = "open"
      <3>1. s <= mTuner
        <4>1. IsFiniteSet(1 .. mTuner) /\ Cardinality(1 .. mTuner) = mTuner
          BY <1>1, Sizes
        <4> QED
          BY <1>2, <1>3, <4>1, FS_Subset
      <3>2. mTuner < NTuners
        BY <2>1 DEF PortInv, OneAfterAnother
      <3> QED
        BY <1>1, <1>4, <1>5, <3>1, <3>2
    <2>2. CASE \E t \in Tuners : listener[t] = "reopen"
      <3>1. PICK t \in Tuners : listener[t] = "reopen"
        BY <2>2
      <3>2. t \in 1 .. mTuner
        BY <1>1, <3>1 DEF PortInv, ReopenedOnce, Tuners
      <3>3. SpentTuners \subseteq (1 .. mTuner) \ {t}
        BY <1>2, <3>1 DEF SpentTuners, Spent
      <3>4. /\ IsFiniteSet((1 .. mTuner) \ {t})
            /\ Cardinality((1 .. mTuner) \ {t}) = mTuner - 1
        <4>1. IsFiniteSet(1 .. mTuner) /\ Cardinality(1 .. mTuner) = mTuner
          BY <1>1, Sizes
        <4> QED
          BY <3>2, <4>1, FS_RemoveElement
      <3>5. s <= mTuner - 1
        <4>1. Cardinality(SpentTuners) <= Cardinality((1 .. mTuner) \ {t})
          BY <3>3, <3>4, FS_Subset
        <4> QED
          BY <1>3, <3>4, <4>1
      <3> QED
        BY <1>1, <1>4, <1>5, <3>5
    <2> QED
      BY <2>1, <2>2
  <1>7. ~(Fds \subseteq fds)
    <2>1. Fds \subseteq fds => Cardinality(Fds) <= n
      BY <1>3, HeldAtMost, FS_Subset
    <2> QED
      BY <1>1, <1>6, <2>1, Sizes
  <1>8. Fds \ fds # {} /\ Fds \ fds \subseteq Nat
    <2>1. Fds \subseteq Nat
      BY DEF Fds
    <2> QED
      BY <1>7, <2>1
  <1>9. Min(Fds \ fds) \in Fds \ fds
    BY <1>8, LeastOf
  <1> QED
    BY <1>9 DEF Lowest

LEMMA OpensOrNot ==
    ASSUME PortInv, opening = "open" \/ \E t \in Tuners : listener[t] = "reopen",
           NEW n \in Tuners, OpenTty(n)
    PROVE  \E fd \in Fds \union {0} :
              /\ portfd' = [portfd EXCEPT ![n] = fd]
              /\ fds' \subseteq Fds /\ fds' \subseteq fds \union {fd}
  <1>1. Lowest \in Fds /\ fds \subseteq Fds
    BY Room DEF PortInv, PortTypes
  <1> QED
    BY <1>1 DEF OpenTty

-----------------------------------------------------------------------------
(* Descriptors nobody holds *)

(* As long as no descriptor is lost and no spent tuner recovers, the bound    *)
(* stays.                                                                    *)
LEMMA LeaksNothing ==
    ASSUME PortInv, PortTypes', Unheld' \subseteq Unheld, SpentTuners \subseteq SpentTuners'
    PROVE  OneLeakEach'
  <1>1. IsFiniteSet(SpentTuners')
    BY Sizes, FS_Subset DEF SpentTuners
  <1>2. Cardinality(Unheld') <= Cardinality(Unheld)
    BY HeldAtMost, FS_Subset
  <1>3. Cardinality(SpentTuners) <= Cardinality(SpentTuners')
    BY <1>1, FS_Subset
  <1>4. PICK a \in Nat, b \in Nat, c \in Nat, d \in Nat :
           /\ a = Cardinality(Unheld') /\ b = Cardinality(Unheld)
           /\ c = Cardinality(SpentTuners) /\ d = Cardinality(SpentTuners')
    BY <1>1, HeldAtMost, FS_Subset, FS_CardinalityType
  <1>5. b <= c
    BY <1>4 DEF PortInv, OneLeakEach
  <1>6. a <= d
    BY <1>2, <1>3, <1>4, <1>5
  <1> QED
    BY <1>4, <1>6 DEF OneLeakEach

LEMMA HeldStays ==
    ASSUME fds' \subseteq fds, UNCHANGED portfd,
           \A t \in Tuners : listener[t] # "done" => listener'[t] # "done" \/ portfd[t] \notin fds'
    PROVE  Unheld' \subseteq Unheld
  BY DEF Unheld, Held

LEMMA SpentStays ==
    ASSUME \A t \in Tuners :
              /\ ~keepReading[t] => ~keepReading'[t]
              /\ Spent(t) => /\ ~Marking(t)'
                             /\ isOpen'[t] \/ listener'[t] \in {"close", "done"}
                             /\ listener'[t] # "reopen"
    PROVE  SpentTuners \subseteq SpentTuners'
  BY DEF SpentTuners, Spent

-----------------------------------------------------------------------------
LEMMA PortInitHolds == PortInit => PortInv
  <1> SUFFICES ASSUME PortInit PROVE PortInv
    OBVIOUS
  <1>1. PortTypes
    BY Sizes DEF PortInit, PortTypes, ListenerSteps
  <1>2. OneAfterAnother /\ OneMore /\ ReopenedOnce
    BY Sizes DEF PortInit, OneAfterAnother, OneMore, ReopenedOnce, Marking, Tuners
  <1>3. Unheld = {} /\ SpentTuners = {}
    BY DEF PortInit, Unheld, SpentTuners, Spent
  <1>4. OneLeakEach
    BY <1>3, FS_EmptySet DEF OneLeakEach
  <1> QED
    BY <1>1, <1>2, <1>4 DEF PortInv

LEMMA RadioKeeps == ASSUME PortInv, Radio PROVE PortInv'
  <1>1. UNCHANGED <<fds, mTuner, opening, isOpen, portfd, keepReading, listener, extra>>
    BY DEF Radio, linuxPort
  <1>2. PortTypes' /\ OneAfterAnother' /\ OneMore' /\ ReopenedOnce'
    BY <1>1 DEF PortInv, PortTypes, OneAfterAnother, OneMore, ReopenedOnce, Marking
  <1>3. Unheld' = Unheld /\ SpentTuners' = SpentTuners
    BY <1>1 DEF Unheld, Held, SpentTuners, Spent, Marking
  <1> QED
    BY <1>2, <1>3, LeaksNothing DEF PortInv

LEMMA OpenTunerKeeps == ASSUME PortInv, OpenTuner PROVE PortInv'
  <1>1. /\ UNCHANGED <<fds, mTuner, isOpen, portfd, keepReading, listener, extra>>
        /\ opening = "idle" /\ mTuner < NTuners
        /\ opening' = "open" \/ (opening' = "stop" /\ mTuner # 0)
    BY DEF OpenTuner, linuxPort
  <1>2. PortTypes' /\ OneMore'
    BY <1>1 DEF PortInv, PortTypes, OneMore
  <1>3. OneAfterAnother'
    BY <1>1, Sizes DEF PortInv, OneAfterAnother, PortTypes, Tuners
  <1>4. ReopenedOnce'
    BY <1>1 DEF PortInv, ReopenedOnce, Marking
  <1>5. Unheld' \subseteq Unheld
    BY <1>1, HeldStays
  <1>6. SpentTuners \subseteq SpentTuners'
    BY <1>1, SpentStays DEF Spent, Marking
  <1> QED
    BY <1>2, <1>3, <1>4, <1>5, <1>6, LeaksNothing DEF PortInv

LEMMA StopReadingKeeps == ASSUME PortInv, StopReading PROVE PortInv'
  <1>1. /\ UNCHANGED <<fds, mTuner, isOpen, portfd, listener, extra>>
        /\ opening = "stop" /\ opening' = "mark_closed"
        /\ keepReading' = [keepReading EXCEPT ![mTuner] = FALSE]
    BY DEF StopReading, linuxPort
  <1>2. mTuner \in Tuners /\ keepReading[mTuner]
    <2>1. mTuner \in Tuners
      BY <1>1, Sizes DEF PortInv, PortTypes, OneAfterAnother, Tuners
    <2> QED
      BY <1>1, <2>1 DEF PortInv, OneAfterAnother
  <1>3. /\ ~keepReading'[mTuner]
        /\ \A t \in Tuners : t # mTuner => keepReading'[t] = keepReading[t]
        /\ keepReading' \in [Tuners -> BOOLEAN]
    BY <1>1, <1>2 DEF PortInv, PortTypes
  <1>4. PortTypes' /\ OneMore'
    BY <1>1, <1>3 DEF PortInv, PortTypes, OneMore
  <1>5. OneAfterAnother'
    BY <1>1, <1>2, <1>3, Sizes DEF PortInv, OneAfterAnother, PortTypes, Tuners
  <1>6. ReopenedOnce'
    BY <1>1, <1>2, <1>3 DEF PortInv, ReopenedOnce, Marking
  <1>7. Unheld' \subseteq Unheld
    BY <1>1, HeldStays
  <1>8. SpentTuners \subseteq SpentTuners'
    BY <1>1, <1>2, <1>3, SpentStays DEF Spent, Marking
  <1> QED
    BY <1>4, <1>5, <1>6, <1>7, <1>8, LeaksNothing DEF PortInv

LEMMA MarkClosedKeeps == ASSUME PortInv, MarkClosed PROVE PortInv'
  <1>1. /\ UNCHANGED <<fds, mTuner, portfd, keepReading, listener, extra>>
        /\ opening = "mark_closed" /\ opening' = "close"
        /\ isOpen' = [isOpen EXCEPT ![mTuner] = FALSE]
    BY DEF MarkClosed
  <1>2. /\ \A t \in Tuners : t # mTuner => isOpen'[t] = isOpen[t]
        /\ isOpen' \in [Tuners -> BOOLEAN]
    BY <1>1 DEF PortInv, PortTypes
  <1>3. PortTypes' /\ OneMore' /\ OneAfterAnother'
    BY <1>1, <1>2 DEF PortInv, PortTypes, OneMore, OneAfterAnother
  <1>4. ReopenedOnce'
    BY <1>1, <1>2, Sizes DEF PortInv, ReopenedOnce, Marking, OneAfterAnother
  <1>5. Unheld' \subseteq Unheld
    BY <1>1, HeldStays
  <1>6. SpentTuners \subseteq SpentTuners'
    BY <1>1, <1>2, SpentStays DEF Spent, Marking
  <1> QED
    BY <1>3, <1>4, <1>5, <1>6, LeaksNothing DEF PortInv

LEMMA ClosePortKeeps == ASSUME PortInv, ClosePort PROVE PortInv'
  <1>1. /\ UNCHANGED <<mTuner, isOpen, portfd, keepReading, listener, extra>>
        /\ opening = "close" /\ opening' = "open" /\ fds' \subseteq fds
    BY DEF ClosePort, linuxPort
  <1>2. PortTypes' /\ OneMore' /\ OneAfterAnother'
    BY <1>1 DEF PortInv, PortTypes, OneMore, OneAfterAnother
  <1>3. ReopenedOnce'
    BY <1>1 DEF PortInv, ReopenedOnce, Marking
  <1>4. Unheld' \subseteq Unheld
    BY <1>1, HeldStays
  <1>5. SpentTuners \subseteq SpentTuners'
    BY <1>1, SpentStays DEF Spent, Marking
  <1> QED
    BY <1>2, <1>3, <1>4, <1>5, LeaksNothing DEF PortInv

LEMMA ActivateKeeps == ASSUME PortInv, Activate PROVE PortInv'
  <1>1. PICK n \in Tuners : n = mTuner + 1 /\ mTuner \in Nat
    BY Sizes DEF Activate, PortInv, PortTypes, OneAfterAnother, Tuners
  <1>2. /\ opening = "open" /\ opening' = "idle" /\ mTuner' = n
        /\ isOpen' = [isOpen EXCEPT ![n] = TRUE]
        /\ listener' = [listener EXCEPT ![n] = "loop"]
        /\ UNCHANGED <<keepReading, extra>>
    BY <1>1 DEF Activate
  <1>3. PICK fd \in Fds \union {0} :
           /\ portfd' = [portfd EXCEPT ![n] = fd]
           /\ fds' \subseteq Fds /\ fds' \subseteq fds \union {fd}
    BY <1>1, <1>2, OpensOrNot DEF Activate
  <1>4. /\ portfd'[n] = fd /\ isOpen'[n] /\ listener'[n] = "loop"
        /\ \A t \in Tuners : t # n => /\ portfd'[t] = portfd[t] /\ isOpen'[t] = isOpen[t]
                                      /\ listener'[t] = listener[t]
    BY <1>2, <1>3 DEF PortInv, PortTypes
  <1>5. PortTypes'
    BY <1>1, <1>2, <1>3, Sizes DEF PortInv, PortTypes, ListenerSteps, Tuners
  <1>6. /\ \A t \in Tuners : t > n => t > mTuner /\ t # n
        /\ \A t \in Tuners : t <= n => t = n \/ (t <= mTuner /\ t # n)
        /\ n > mTuner
    BY <1>1 DEF Tuners
  <1>7. portfd[n] = 0 /\ keepReading[n]
    BY <1>6 DEF PortInv, OneAfterAnother
  <1>8. OneAfterAnother'
    BY <1>2, <1>4, <1>6, <1>7 DEF PortInv, OneAfterAnother
  <1>9. OneMore'
    BY <1>2, <1>4, <1>7 DEF PortInv, OneMore
  <1>10. ReopenedOnce'
    <2>1. \A t \in Tuners : ~Marking(t)'
      BY <1>2 DEF Marking
    <2>2. \A t \in Tuners : t <= n /\ keepReading[t]
                               => isOpen'[t] \/ listener'[t] \in {"close", "done"}
      BY <1>4, <1>6 DEF PortInv, ReopenedOnce
    <2>3. \A t \in Tuners : listener'[t] = "reopen" => t <= n /\ isOpen'[t] /\ ~keepReading[t]
      BY <1>1, <1>4 DEF PortInv, ReopenedOnce, Tuners
    <2>4. \A t \in Tuners : listener'[t] = "none" <=> t > n
      <3>1. \A t \in Tuners : t # n => (t > n <=> t > mTuner)
        BY <1>1 DEF Tuners
      <3>2. ~(n > n)
        BY DEF Tuners
      <3> QED
        BY <1>4, <3>1, <3>2 DEF PortInv, ReopenedOnce
    <2> QED
      BY <1>2, <2>1, <2>2, <2>3, <2>4 DEF ReopenedOnce
  <1>11. Unheld' \subseteq Unheld
    <2> SUFFICES ASSUME NEW d \in fds', ~Held(d)' PROVE d \in fds /\ ~Held(d)
      BY DEF Unheld
    <2>1. d # fd
      BY <1>4 DEF Held
    <2>2. d \in fds /\ d # 0
      BY <1>3, <2>1 DEF PortInv, PortTypes, Fds
    <2> QED
      BY <1>4, <1>7, <2>2 DEF Held
  <1>12. SpentTuners \subseteq SpentTuners'
    BY <1>2, <1>4, <1>7, SpentStays DEF Spent, Marking
  <1> QED
    BY <1>5, <1>8, <1>9, <1>10, <1>11, <1>12, LeaksNothing DEF PortInv

-----------------------------------------------------------------------------
(* The steps of a listener *)

(* A step that takes the listener on within its loop and changes nothing else *)
LEMMA MovesOn ==
    ASSUME PortInv, NEW t \in Tuners,
           NEW to \in ListenerSteps, {listener[t], to} \cap {"none", "close", "done", "reopen"} = {},
           listener' = [listener EXCEPT ![t] = to],
           UNCHANGED <<fds, mTuner, opening, isOpen, portfd, keepReading, extra>>,
           extra[t] = 0 \/ to \in {"loop", "mark_closed"}
    PROVE  PortInv'
  <1>1. /\ listener'[t] = to
        /\ \A u \in Tuners : u # t => listener'[u] = listener[u]
    BY DEF PortInv, PortTypes
  <1>2. PortTypes' /\ OneAfterAnother' /\ OneMore'
    BY <1>1 DEF PortInv, PortTypes, OneAfterAnother, OneMore
  <1>3. ReopenedOnce'
    BY <1>1 DEF PortInv, ReopenedOnce, Marking
  <1>4. Unheld' \subseteq Unheld
    BY <1>1, HeldStays
  <1>5. SpentTuners \subseteq SpentTuners'
    BY <1>1, SpentStays DEF Spent, Marking
  <1> QED
    BY <1>2, <1>3, <1>4, <1>5, LeaksNothing DEF PortInv

LEMMA LoopKeeps == ASSUME PortInv, NEW t \in Tuners, Loop(t) PROVE PortInv'
  <1> DEFINE to == IF Stops(t) THEN "mark_closed" ELSE "enter"
  <1>1. /\ listener[t] = "loop" /\ listener' = [listener EXCEPT ![t] = to]
        /\ UNCHANGED <<fds, mTuner, opening, isOpen, portfd, keepReading, extra>>
    BY DEF Loop, At, linuxPort
  <1>2. to \in ListenerSteps /\ {listener[t], to} \cap {"none", "close", "done", "reopen"} = {}
    BY <1>1 DEF ListenerSteps
  <1>3. extra[t] = 0 \/ to \in {"loop", "mark_closed"}
    BY DEF PortInv, OneMore, Stops
  <1> QED
    BY <1>1, <1>2, <1>3, MovesOn

LEMMA ReadKeeps ==
    ASSUME PortInv, NEW t \in Tuners, CallRead(t) \/ Gets(t) \/ ShortRead(t)
    PROVE  PortInv'
  <1>1. UNCHANGED <<fds, mTuner, opening, isOpen, portfd, keepReading, extra>>
    BY DEF CallRead, Gets, ShortRead, linuxPort
  <1>2. PICK to \in {"start", "length", "data", "false", "decode", "misread"} \union Waiting :
           /\ listener[t] \in {"start", "length", "data", "false"} \union Waiting
           /\ listener' = [listener EXCEPT ![t] = to]
    <2>1. CASE CallRead(t) \/ ShortRead(t)
      BY <2>1 DEF CallRead, ShortRead, At, Waiting
    <2>2. CASE Gets(t)
      BY <2>2 DEF Gets, At, AfterStart, AfterLength, AfterData, AfterFalse, FalseEnds, Waiting
    <2> QED
      BY <2>1, <2>2
  <1>3. to \in ListenerSteps /\ {listener[t], to} \cap {"none", "close", "done", "reopen"} = {}
    BY <1>2 DEF ListenerSteps, Waiting
  <1>4. extra[t] = 0
    BY <1>2 DEF PortInv, OneMore, Waiting
  <1> QED
    BY <1>1, <1>2, <1>3, <1>4, MovesOn

LEMMA EnterKeeps == ASSUME PortInv, NEW t \in Tuners, Enter(t) PROVE PortInv'
  <1>1. /\ listener[t] = "enter"
        /\ listener' = [listener EXCEPT ![t] = IF isOpen[t] THEN "start" ELSE "reopen"]
        /\ isOpen' = [isOpen EXCEPT ![t] = TRUE]
        /\ UNCHANGED <<fds, mTuner, opening, portfd, keepReading, extra>>
    BY DEF Enter, At
  <1>2. extra[t] = 0
    BY <1>1 DEF PortInv, OneMore
  <1>3. CASE isOpen[t]
    <2>1. isOpen' = isOpen
      BY <1>1, <1>3 DEF PortInv, PortTypes
    <2>2. /\ "start" \in ListenerSteps
          /\ {listener[t], "start"} \cap {"none", "close", "done", "reopen"} = {}
      BY <1>1 DEF ListenerSteps
    <2> QED
      BY <1>1, <1>2, <1>3, <2>1, <2>2, MovesOn
  <1>4. CASE ~isOpen[t]
    <2>1. /\ listener'[t] = "reopen" /\ isOpen'[t]
          /\ \A u \in Tuners : u # t => listener'[u] = listener[u] /\ isOpen'[u] = isOpen[u]
      BY <1>1, <1>4 DEF PortInv, PortTypes
    <2>2. t <= mTuner
      BY <1>1, Sizes DEF PortInv, PortTypes, ReopenedOnce, Tuners
    <2>3. ~keepReading[t] /\ ~Marking(t)
      BY <1>1, <1>4, <2>2 DEF PortInv, ReopenedOnce
    <2>4. PortTypes' /\ OneAfterAnother' /\ OneMore'
      BY <1>1, <1>2, <2>1 DEF PortInv, PortTypes, OneAfterAnother, OneMore, ListenerSteps
    <2>5. ReopenedOnce'
      BY <1>1, <2>1, <2>2, <2>3 DEF PortInv, ReopenedOnce, Marking
    <2>6. Unheld' \subseteq Unheld
      BY <1>1, <2>1, HeldStays
    <2>7. SpentTuners \subseteq SpentTuners'
      BY <1>1, <1>4, <2>1, SpentStays DEF Spent, Marking
    <2> QED
      BY <2>4, <2>5, <2>6, <2>7, LeaksNothing DEF PortInv
  <1> QED
    BY <1>3, <1>4

(* The one step that leaves a descriptor behind; the tuner is spent then.     *)
LEMMA ReopenKeeps == ASSUME PortInv, NEW t \in Tuners, Reopen(t) PROVE PortInv'
  <1>1. /\ listener[t] = "reopen" /\ listener' = [listener EXCEPT ![t] = "start"]
        /\ UNCHANGED <<mTuner, opening, isOpen, keepReading, extra>>
    BY DEF Reopen, At
  <1>2. PICK fd \in Fds \union {0} :
           /\ portfd' = [portfd EXCEPT ![t] = fd]
           /\ fds' \subseteq Fds /\ fds' \subseteq fds \union {fd}
    BY <1>1, OpensOrNot DEF Reopen
  <1>3. /\ listener'[t] = "start" /\ portfd'[t] = fd
        /\ \A u \in Tuners : u # t => listener'[u] = listener[u] /\ portfd'[u] = portfd[u]
    BY <1>1, <1>2 DEF PortInv, PortTypes
  <1>4. t <= mTuner /\ ~(t > mTuner) /\ isOpen[t] /\ ~keepReading[t] /\ ~Marking(t)
    BY <1>1, Sizes DEF PortInv, PortTypes, ReopenedOnce, Tuners
  <1>5. PortTypes'
    BY <1>1, <1>2 DEF PortInv, PortTypes, ListenerSteps
  <1>6. OneAfterAnother' /\ OneMore'
    BY <1>1, <1>3, <1>4 DEF PortInv, OneAfterAnother, OneMore
  <1>7. ReopenedOnce'
    BY <1>1, <1>3, <1>4 DEF PortInv, ReopenedOnce, Marking
  <1>8. Unheld' \subseteq Unheld \union {portfd[t]}
    <2> SUFFICES ASSUME NEW d \in fds', ~Held(d)', d # portfd[t] PROVE d \in fds /\ ~Held(d)
      BY DEF Unheld
    <2>1. d # fd
      BY <1>3 DEF Held
    <2> QED
      BY <1>2, <1>3, <2>1 DEF Held
  <1>9. SpentTuners \union {t} \subseteq SpentTuners' /\ t \notin SpentTuners
    BY <1>1, <1>3, <1>4 DEF SpentTuners, Spent, Marking
  <1>10. OneLeakEach'
    <2>1. /\ IsFiniteSet(SpentTuners') /\ IsFiniteSet(Unheld \union {portfd[t]})
          /\ Cardinality(Unheld \union {portfd[t]}) \in {Cardinality(Unheld), Cardinality(Unheld) + 1}
          /\ Cardinality(SpentTuners \union {t}) = Cardinality(SpentTuners) + 1
      <3>1. SpentTuners' \subseteq Tuners
        BY DEF SpentTuners
      <3> QED
        BY <1>9, <3>1, Sizes, HeldAtMost, FS_Subset, FS_AddElement
    <2>2. Cardinality(Unheld') <= Cardinality(Unheld \union {portfd[t]}) /\ IsFiniteSet(Unheld')
      BY <1>8, <2>1, FS_Subset
    <2>3. Cardinality(SpentTuners \union {t}) <= Cardinality(SpentTuners')
      BY <1>9, <2>1, FS_Subset
    <2>4. PICK a \in Nat, b \in Nat, c \in Nat, d \in Nat :
             /\ a = Cardinality(Unheld') /\ b = Cardinality(Unheld)
             /\ c = Cardinality(SpentTuners) /\ d = Cardinality(SpentTuners')
      BY <2>1, <2>2, HeldAtMost, FS_CardinalityType
    <2>5. b <= c
      BY <2>4 DEF PortInv, OneLeakEach
    <2>6. a <= b + 1 /\ c + 1 <= d
      BY <2>1, <2>2, <2>3, <2>4
    <2> QED
      BY <2>4, <2>5, <2>6 DEF OneLeakEach
  <1> QED
    BY <1>5, <1>6, <1>7, <1>10 DEF PortInv

LEMMA DecodeKeeps == ASSUME PortInv, NEW t \in Tuners, decodemsg(t) PROVE PortInv'
  <1>1. /\ listener[t] \in {"decode", "misread"}
        /\ listener' = [listener EXCEPT ![t] = "loop"]
        /\ extra' = [extra EXCEPT ![t] = IF keepReading[t] THEN @ ELSE @ + 1]
        /\ UNCHANGED <<fds, mTuner, opening, isOpen, portfd, keepReading>>
    BY DEF decodemsg, At, linuxPort
  <1>2. extra[t] = 0
    BY <1>1 DEF PortInv, OneMore
  <1>3. /\ listener'[t] = "loop" /\ extra'[t] = IF keepReading[t] THEN 0 ELSE 1
        /\ \A u \in Tuners : u # t => listener'[u] = listener[u] /\ extra'[u] = extra[u]
    BY <1>1, <1>2 DEF PortInv, PortTypes
  <1>4. PortTypes'
    BY <1>1, <1>2 DEF PortInv, PortTypes, ListenerSteps
  <1>5. OneAfterAnother' /\ OneMore'
    BY <1>1, <1>3 DEF PortInv, OneAfterAnother, OneMore
  <1>6. ReopenedOnce'
    BY <1>1, <1>3 DEF PortInv, ReopenedOnce, Marking
  <1>7. Unheld' \subseteq Unheld
    BY <1>1, <1>3, HeldStays
  <1>8. SpentTuners \subseteq SpentTuners'
    BY <1>1, <1>3, SpentStays DEF Spent, Marking
  <1> QED
    BY <1>4, <1>5, <1>6, <1>7, <1>8, LeaksNothing DEF PortInv

LEMMA MarksClosedKeeps == ASSUME PortInv, NEW t \in Tuners, MarksClosed(t) PROVE PortInv'
  <1>1. /\ listener[t] = "mark_closed" /\ listener' = [listener EXCEPT ![t] = "close"]
        /\ isOpen' = [isOpen EXCEPT ![t] = FALSE]
        /\ UNCHANGED <<fds, mTuner, opening, portfd, keepReading, extra>>
    BY DEF MarksClosed, At
  <1>2. /\ listener'[t] = "close"
        /\ \A u \in Tuners : u # t => listener'[u] = listener[u] /\ isOpen'[u] = isOpen[u]
    BY <1>1 DEF PortInv, PortTypes
  <1>3. PortTypes' /\ OneAfterAnother' /\ OneMore'
    BY <1>1, <1>2 DEF PortInv, PortTypes, OneAfterAnother, OneMore, ListenerSteps
  <1>4. ReopenedOnce'
    BY <1>1, <1>2 DEF PortInv, ReopenedOnce, Marking
  <1>5. Unheld' \subseteq Unheld
    BY <1>1, <1>2, HeldStays
  <1>6. SpentTuners \subseteq SpentTuners'
    BY <1>1, <1>2, SpentStays DEF Spent, Marking
  <1> QED
    BY <1>3, <1>4, <1>5, <1>6, LeaksNothing DEF PortInv

LEMMA ClosesPortKeeps == ASSUME PortInv, NEW t \in Tuners, ClosesPort(t) PROVE PortInv'
  <1>1. /\ listener[t] = "close" /\ listener' = [listener EXCEPT ![t] = "done"]
        /\ fds' = fds \ {portfd[t]}
        /\ UNCHANGED <<mTuner, opening, isOpen, portfd, keepReading, extra>>
    BY DEF ClosesPort, At, ToClose, linuxPort
  <1>2. /\ listener'[t] = "done"
        /\ \A u \in Tuners : u # t => listener'[u] = listener[u]
    BY <1>1 DEF PortInv, PortTypes
  <1>3. PortTypes' /\ OneAfterAnother' /\ OneMore'
    BY <1>1, <1>2 DEF PortInv, PortTypes, OneAfterAnother, OneMore, ListenerSteps
  <1>4. ReopenedOnce'
    BY <1>1, <1>2 DEF PortInv, ReopenedOnce, Marking
  <1>5. Unheld' \subseteq Unheld
    BY <1>1, <1>2, HeldStays
  <1>6. SpentTuners \subseteq SpentTuners'
    BY <1>1, <1>2, SpentStays DEF Spent, Marking
  <1> QED
    BY <1>3, <1>4, <1>5, <1>6, LeaksNothing DEF PortInv

-----------------------------------------------------------------------------
LEMMA PortStep == PortInv /\ [PortNext]_portVars => PortInv'
  <1> SUFFICES ASSUME PortInv, [PortNext]_portVars PROVE PortInv'
    OBVIOUS
  <1>1. CASE Radio
    BY <1>1, RadioKeeps
  <1>2. CASE openTuner
    BY <1>2, OpenTunerKeeps, StopReadingKeeps, MarkClosedKeeps, ClosePortKeeps, ActivateKeeps
    DEF openTuner
  <1>3. ASSUME NEW t \in Tuners, Listener(t) PROVE PortInv'
    BY <1>3, LoopKeeps, EnterKeeps, ReopenKeeps, ReadKeeps, DecodeKeeps, MarksClosedKeeps,
       ClosesPortKeeps DEF Listener
  <1>4. CASE UNCHANGED portVars
    <2>1. UNCHANGED <<fds, mTuner, opening, isOpen, portfd, keepReading, listener, extra>>
      BY <1>4 DEF portVars, linuxPort
    <2> QED
      BY <2>1 DEF PortInv, PortTypes, OneAfterAnother, OneMore, ReopenedOnce, OneLeakEach,
                  Marking, Unheld, Held, SpentTuners, Spent
  <1> QED
    BY <1>1, <1>2, <1>3, <1>4 DEF PortNext

LEMMA PortInductive == PortSpec => []PortInv
  BY PortInitHolds, PortStep, PTL DEF PortSpec

(* A closed tuner decodes one more frame at most, and for every tuner that    *)
(* was closed at most one descriptor stays open that no listener closes      *)
(* (openTuner's close against hdreadbytes' re-open), for any number of       *)
(* tuners.                                                                   *)
THEOREM ClosedTunersLeaveLittle == PortSpec => []LeavesLittle
  <1>1. PortInv => LeavesLittle
    <2> SUFFICES ASSUME PortInv PROVE LeavesLittle
      OBVIOUS
    <2>1. AtMostOneMore
      BY DEF PortInv, OneMore, AtMostOneMore
    <2>2. LeakBounded
      <3> DEFINE Closed == {t \in Tuners : ~keepReading[t]}
      <3>1. SpentTuners \subseteq Closed /\ Closed \subseteq Tuners
        BY DEF SpentTuners, Spent
      <3>2. IsFiniteSet(Closed) /\ Cardinality(SpentTuners) <= Cardinality(Closed)
        BY <3>1, Sizes, FS_Subset
      <3>3. PICK u \in Nat, s \in Nat, c \in Nat :
               u = Cardinality(Unheld) /\ s = Cardinality(SpentTuners) /\ c = Cardinality(Closed)
        BY <3>2, HeldAtMost, FS_CardinalityType
      <3>4. u <= s /\ s <= c
        BY <3>2, <3>3 DEF PortInv, OneLeakEach
      <3>5. u <= c
        BY <3>4
      <3> QED
        BY <3>3, <3>5 DEF LeakBounded, Unheld
    <2> QED
      BY <2>1, <2>2 DEF LeavesLittle
  <1> QED
    BY <1>1, PortInductive, PTL

(* Whenever the port is about to be opened one of the descriptors is free.    *)
DescriptorFree ==
    opening = "open" \/ (\E t \in Tuners : listener[t] = "reopen") => Fds \ fds # {}

(* Two descriptors to a tuner are enough whenever openTuner or a listener     *)
(* opens the port: each holds one and leaves one behind at most.             *)
THEOREM TwoDescriptorsEach == PortSpec => []DescriptorFree
  <1>1. PortInv => DescriptorFree
    BY Room DEF DescriptorFree
  <1> QED
    BY <1>1, PortInductive, PTL
=============================================================================
