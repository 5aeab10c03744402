-------------------------------- MODULE Tuner --------------------------------
(***************************************************************************)
(* One tuner of the broadcast radio HAL, broadcastradio/Tuner.cpp.  A       *)
(* request is checked and answered at once under mMut; what it does to the  *)
(* radio is a task that the worker thread runs later, under mMut again,     *)
(* after a delay that depends on the request.  Up to four binder threads    *)
(* make requests.                                                           *)
(*                                                                          *)
(* WorkerThread is a library class: a queue ordered by due time; a task is  *)
(* taken off the queue before it asks for mMut.                             *)
(***************************************************************************)
EXTENDS Integers, FiniteSets, SequencesExt

CONSTANTS
    Configs,      \* band configurations: [type, lower, upper, spacing]
    Selectors,    \* program selectors: [type, freq]
    MaxTasks,     \* bound of the worker's queue
    MayCancel     \* clients call cancel()

Bands == {"AM", "FM", "AM_HD", "FM_HD"}

ASSUME TunerAssumption ==
    /\ \A c \in Configs : /\ c.type \in Bands
                            /\ {c.lower, c.upper, c.spacing} \subseteq Nat
                            /\ c.lower < c.upper /\ c.spacing > 0
    /\ \A s \in Selectors : s.freq \in Nat
    /\ MaxTasks \in Nat \ {0}
    /\ MayCancel \in BOOLEAN

(* gDefaultDelay, in units of 50 ms. *)
Delay == [config |-> 1, step |-> 2, tune |-> 3, scan |-> 4]

Directions == {"up", "down"}
NoSelector == [type |-> "none", freq |-> 0]
NoConfig == [type |-> "none", lower |-> 0, upper |-> 0, spacing |-> 0]
NoTask == [kind |-> "none", arg |-> "none", wait |-> 0]

VARIABLES
    queue, inflight,    \* the worker's tasks, and the one it has taken
    mIsClosed, mIsAmfmConfigSet, mAmfmConfig, mIsTuneCompleted,
    mCurrentProgram,    \* NoSelector until a configuration is applied
    ptype_pfreq,        \* the fields ptype and pfreq
    band,               \* a call to tune has read mAmfmConfig.type
    radio,              \* the last frequency sent to the radio
    \* history
    late,               \* tasks run after forceClose
    lost                \* cancel dropped a configuration since the last request for one

reqVars == <<mIsAmfmConfigSet, mAmfmConfig, mCurrentProgram, radio>>
vars == <<queue, inflight, mIsClosed, mIsTuneCompleted, ptype_pfreq, band,
          reqVars, late, lost>>

Init ==
    /\ queue = <<>>
    /\ inflight = NoTask
    /\ mIsClosed = FALSE
    /\ mIsAmfmConfigSet = FALSE
    /\ mAmfmConfig = NoConfig
    /\ mIsTuneCompleted = FALSE
    /\ mCurrentProgram = NoSelector
    /\ ptype_pfreq = NoSelector
    /\ band = "none"
    /\ radio = NoSelector
    /\ late = 0
    /\ lost = FALSE

(* utils::make_selector: a band, HD or not, makes an AM or an FM program.    *)
ProgramType(b) == IF b \in {"FM", "FM_HD"} THEN "FM" ELSE "AM"

-----------------------------------------------------------------------------
(* WorkerThread *)

Inserted(task) ==
    LET before == {i \in 1 .. Len(queue) : queue[i].wait <= task.wait}
    IN  InsertAt(queue, Cardinality(before) + 1, task)

schedule(kind, arg) ==
    /\ Len(queue) < MaxTasks
    /\ queue' = Inserted([kind |-> kind, arg |-> arg, wait |-> Delay[kind]])

(* 50 ms go by. *)
Tick ==
    /\ \E i \in 1 .. Len(queue) : queue[i].wait > 0
    /\ queue' = [i \in 1 .. Len(queue) |->
                    [queue[i] EXCEPT !.wait = IF @ > 0 THEN @ - 1 ELSE 0]]
    /\ UNCHANGED <<inflight, mIsClosed, mIsTuneCompleted, ptype_pfreq, band,
                   reqVars, late, lost>>

Take ==
    /\ inflight.kind = "none"
    /\ queue # <<>>
    /\ Head(queue).wait = 0
    /\ inflight' = Head(queue)
    /\ queue' = Tail(queue)
    /\ UNCHANGED <<mIsClosed, mIsTuneCompleted, ptype_pfreq, band, reqVars, late,
                   lost>>

-----------------------------------------------------------------------------
(* Requests, each one critical section of mMut. *)

setConfiguration(config) ==
    /\ ~mIsClosed
    /\ schedule("config", config)
    /\ lost' = FALSE
    /\ UNCHANGED <<inflight, mIsClosed, mIsTuneCompleted, ptype_pfreq, band,
                   reqVars, late>>

scan(direction) ==
    /\ ~mIsClosed
    /\ schedule("scan", direction)
    /\ mIsTuneCompleted' = FALSE
    /\ UNCHANGED <<inflight, mIsClosed, ptype_pfreq, band, reqVars, late, lost>>

step(direction) ==
    /\ ~mIsClosed
    /\ mCurrentProgram.type \in Bands
    /\ mIsAmfmConfigSet
    /\ schedule("step", direction)
    /\ mIsTuneCompleted' = FALSE
    /\ UNCHANGED <<inflight, mIsClosed, ptype_pfreq, band, reqVars, late, lost>>

Valid(sel) ==
    sel.type \in Bands /\ mIsAmfmConfigSet /\ sel.freq >= mAmfmConfig.lower

(* The selector is remembered before it is checked.  A selector that is not  *)
(* AM or FM lacks the identifier its type needs.                             *)
tuneByProgramSelector(sel) ==
    /\ ~mIsClosed
    /\ ptype_pfreq' = sel
    /\ IF Valid(sel)
          THEN /\ schedule("tune", sel)
               /\ mIsTuneCompleted' = FALSE
          ELSE UNCHANGED <<queue, mIsTuneCompleted>>
    /\ UNCHANGED <<inflight, mIsClosed, reqVars, late, lost>>

(* tune reads the band in a critical section of its own; no constructor sets *)
(* the band before the first configuration.                                  *)
TuneReadsBand ==
    /\ band = "none"
    /\ band' \in IF mIsAmfmConfigSet THEN {mAmfmConfig.type} ELSE Bands
    /\ UNCHANGED <<queue, inflight, mIsClosed, mIsTuneCompleted, ptype_pfreq,
                   reqVars, late, lost>>

TuneGoesOn(channel) ==
    /\ band # "none"
    /\ tuneByProgramSelector([type |-> ProgramType(band), freq |-> channel])
    /\ band' = "none"

TunesSelector(sel) == tuneByProgramSelector(sel) /\ UNCHANGED band

cancelAll == queue' = <<>>

cancel ==
    /\ MayCancel
    /\ ~mIsClosed
    /\ cancelAll
    /\ lost' = (lost \/ \E i \in 1 .. Len(queue) : queue[i].kind = "config")
    /\ UNCHANGED <<inflight, mIsClosed, mIsTuneCompleted, ptype_pfreq, band,
                   reqVars, late>>

TasksKept == queue
TasksAfterClose == <<>>

(* forceClose, when BroadcastRadio opens another tuner. *)
forceClose ==
    /\ ~mIsClosed
    /\ mIsClosed' = TRUE
    /\ queue' = TasksAfterClose
    /\ UNCHANGED <<inflight, mIsTuneCompleted, ptype_pfreq, band, reqVars, late,
                   lost>>

-----------------------------------------------------------------------------
(* Tasks.  The one in flight runs in a critical section of mMut; none looks  *)
(* at mIsClosed again.                                                       *)

Runs(kind) ==
    /\ inflight.kind = kind
    /\ inflight' = NoTask
    /\ late' = IF mIsClosed THEN late + 1 ELSE late
    /\ UNCHANGED <<queue, mIsClosed, ptype_pfreq, band, lost>>

(* A station asked for earlier wins over the default of the band; only AM is *)
(* sent as AM.                                                               *)
Retuned(config) ==
    IF ptype_pfreq # NoSelector
       THEN [type |-> IF ptype_pfreq.type = "AM" THEN "AM" ELSE "FM",
             freq |-> ptype_pfreq.freq]
       ELSE [type |-> ProgramType(config.type),
             freq |-> IF ProgramType(config.type) = "FM" THEN 93100 ELSE 1010]

(* The configuration of the task replaces the one in force.                  *)
AppliedOnce(config) == IF mIsAmfmConfigSet THEN mAmfmConfig ELSE config
Applied(config) == config

RunConfig ==
    /\ Runs("config")
    /\ mAmfmConfig' = Applied(inflight.arg)
    /\ mCurrentProgram' = [type |-> ProgramType(inflight.arg.type),
                           freq |-> inflight.arg.lower]
    /\ radio' = Retuned(inflight.arg)
    /\ mIsAmfmConfigSet' = TRUE
    /\ UNCHANGED mIsTuneCompleted

(* Seeking leaves the frequency to the radio. *)
RunScan ==
    /\ Runs("scan")
    /\ radio' = [type |-> "seek", freq |-> 0]
    /\ UNCHANGED <<mIsTuneCompleted, mIsAmfmConfigSet, mAmfmConfig, mCurrentProgram>>

(* The radio is sent AM and FM selectors and nothing for the HD bands. *)
tuneInternalLocked(sel) ==
    /\ radio' = IF sel.type \in {"AM", "FM"} THEN sel ELSE radio
    /\ mIsTuneCompleted' = TRUE
    /\ UNCHANGED <<mIsAmfmConfigSet, mAmfmConfig, mCurrentProgram>>

NoWrap(f) == f
Wrapped(f) ==
    IF f > mAmfmConfig.upper THEN mAmfmConfig.lower
    ELSE IF f < mAmfmConfig.lower THEN mAmfmConfig.upper
    ELSE f

Stepped(direction) ==
    Wrapped(IF direction = "up" THEN mCurrentProgram.freq + mAmfmConfig.spacing
                                ELSE mCurrentProgram.freq - mAmfmConfig.spacing)

RunStep ==
    /\ Runs("step")
    /\ tuneInternalLocked([type |-> ProgramType(mAmfmConfig.type),
                           freq |-> Stepped(inflight.arg)])

RunTune ==
    /\ Runs("tune")
    /\ tuneInternalLocked(inflight.arg)

-----------------------------------------------------------------------------
Request ==
    \/ \E c \in Configs : setConfiguration(c)
    \/ \E d \in Directions : scan(d) \/ step(d)
    \/ \E s \in Selectors : TunesSelector(s) \/ TuneGoesOn(s.freq)
    \/ TuneReadsBand
    \/ cancel
    \/ forceClose

Worker == Take \/ RunConfig \/ RunScan \/ RunStep \/ RunTune

Next == Request \/ Tick \/ Worker

Spec == Init /\ [][Next]_vars

(* Time passes and the worker runs what is due; a task that waits for mMut,  *)
(* which every request holds only briefly, gets it.                          *)
LiveSpec == Spec /\ WF_vars(Tick) /\ WF_vars(Worker)

-----------------------------------------------------------------------------
Kinds == {"config", "scan", "step", "tune"}

(* The tuner's variables have their types. *)
TypeOK ==
    /\ Len(queue) <= MaxTasks
    /\ \A i \in 1 .. Len(queue) :
          queue[i].kind \in Kinds /\ queue[i].wait \in 0 .. Delay[queue[i].kind]
    /\ inflight.kind \in Kinds \union {"none"}
    /\ mIsClosed \in BOOLEAN
    /\ mIsAmfmConfigSet \in BOOLEAN
    /\ mAmfmConfig \in Configs \union {NoConfig}
    /\ mCurrentProgram.type \in {"AM", "FM", "none"}
    /\ mCurrentProgram.freq >= 0
    /\ mIsTuneCompleted \in BOOLEAN
    /\ band \in Bands \union {"none"}
    /\ late \in Nat
    /\ lost \in BOOLEAN

(* After forceClose at most one more task reaches the radio: the one the     *)
(* worker had already taken and that waited for mMut.  What was scheduled    *)
(* dies with the queue and nothing is scheduled any more.                    *)
CloseDropsWork == late <= 1

(* A step tunes inside the configured band, also when the configuration has  *)
(* changed between the request and its task.                                 *)
StepStaysInBand ==
    [][inflight.kind = "step" /\ inflight'.kind = "none" /\ radio' # radio
          => radio'.freq \in mAmfmConfig.lower .. mAmfmConfig.upper]_vars

(* Every configuration that was answered with OK comes into force, whatever  *)
(* other tasks are scheduled meanwhile, unless the tuner is closed or a      *)
(* cancel drops it.                                                          *)
ConfigApplied ==
    \A c \in Configs :
        (\E i \in 1 .. Len(queue) : queue[i].kind = "config" /\ queue[i].arg = c)
            ~> (mAmfmConfig = c \/ mIsClosed \/ lost)
==============================================================================
