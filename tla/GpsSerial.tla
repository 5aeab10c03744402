------------------------------- MODULE GpsSerial -------------------------------
(***************************************************************************)
(* The serial GPS HAL, gps/gps.c: the framework's calls, which go through a *)
(* control socket to the GPS thread, and that thread, which also reads the  *)
(* receiver's NMEA sentences and makes locations of them.                   *)
(*                                                                          *)
(* The receiver (of which only "$PUBX" is known: a u-blox) tells each epoch *)
(* in four sentences, in this order: RMC with the date, VTG, GGA, GSA; all  *)
(* are valid or, without a fix, none is.  The first one after the line is   *)
(* opened may be cut; so may the first after some were lost, because the    *)
(* line was full (one put together of two halves is left out).  Times are   *)
(* counted in epochs, also the offset of the time zone.  gps_power_on and    *)
(* gps_power_off are the stubs of power-stub.c, so the receiver sends        *)
(* whether started or not.  The tty hangs up when the receiver is unplugged: *)
(* then every read returns 0.                                               *)
(***************************************************************************)
EXTENDS Integers, Sequences

CONSTANTS
    MaxCalls,       \* bound: calls of init, start, stop and cleanup
    MaxEpochs,      \* bound: epochs of the receiver
    EpochsPerDay,
    Home,           \* the offset of local time from UTC at first
    Zones,          \* those it may change to
    MaxMoves,       \* bound: changes of the time zone
    MaxLine         \* bound: sentences in the tty

ASSUME GpsAssumption ==
    /\ MaxCalls \in Nat
    /\ MaxEpochs \in Nat \ {0}
    /\ EpochsPerDay \in Nat \ {0}
    /\ Home \in Int /\ Zones \subseteq Int
    /\ MaxMoves \in Nat
    /\ MaxLine \in Nat \ {0}

Epochs == 1 .. MaxEpochs
Day(e) == e \div EpochsPerDay
TimeOfDay(e) == e % EpochsPerDay
Kinds == <<"RMC", "VTG", "GGA", "GSA">>
NoSentence == [kind |-> "none", part |-> 1, epoch |-> 0, valid |-> FALSE]
NoFix == [has_latlong |-> FALSE, latlong |-> 0, time |-> 0, dated |-> 0, shift |-> 0]

VARIABLES
    init, opened, hung,     \* init; fd >= 0; its tty has hung up
    thread,                 \* "none", "new", "wait", "read" or "ended"
    stale,                  \* s->thread is of a thread that was joined before
    control, paired,        \* bytes in the control socket, which is open
    started,                \* the thread's variable
    joining, calls,         \* cleanup waits for the thread
    plugged, line,          \* the receiver and the sentences it sent
    epoch, part, valid,
    cut,                    \* the next sentence may be cut
    zone, moves,            \* the time zone
    utc_day, utc_diff, fix, \* NmeaReader
    \* history
    wanted,                 \* the last command sent in this session
    told, told_in,          \* the last location reported, by which sentence
    placed,                 \* the last position reported
    dated,                  \* the epoch of the last RMC with a date
    lost                    \* the line was full in this session

reader == <<utc_day, utc_diff, fix, told, told_in, placed, dated>>
receiver == <<plugged, epoch, part, valid, cut, lost>>
session == <<init, opened, control, paired, joining, calls, wanted, stale>>
local == <<zone, moves>>
vars == <<session, hung, thread, started, line, receiver, local, reader>>

NoDay == -1

Init ==
    /\ init = FALSE /\ opened = FALSE /\ hung = FALSE
    /\ thread = "none" /\ stale = FALSE
    /\ control = <<>> /\ paired = FALSE
    /\ started = FALSE
    /\ joining = FALSE /\ calls = 0
    /\ plugged \in BOOLEAN
    /\ line = <<>>
    /\ epoch = 1 /\ part = 1 /\ valid \in BOOLEAN /\ cut = FALSE
    /\ zone = Home /\ moves = 0
    /\ utc_day = NoDay /\ utc_diff = 0 /\ fix = NoFix
    /\ wanted = FALSE
    /\ told = NoFix /\ told_in = NoSentence /\ placed = 0 /\ dated = 0
    /\ lost = FALSE

-----------------------------------------------------------------------------
(* The framework's calls, one at a time. *)

Calling ==
    /\ ~joining
    /\ calls < MaxCalls
    /\ calls' = calls + 1

(* serial_gps_init.  init is set first and stays set when the device cannot  *)
(* be opened or its baud rate is unknown: the next call does nothing.  When  *)
(* the socket pair or the thread cannot be made, gps_state_done is called,   *)
(* which joins s->thread like a cleanup.                                     *)
Opened ==
    /\ plugged
    /\ opened' = TRUE
    /\ cut' = TRUE
    /\ lost' = FALSE

NotOpened == UNCHANGED <<opened, cut, lost>>

serial_gps_init ==
    /\ Calling
    /\ ~init
    /\ init' = TRUE
    /\ wanted' = FALSE
    /\ hung' = FALSE
    /\ \/ NotOpened /\ UNCHANGED <<paired, thread, stale, joining>>
       \/ Opened /\ UNCHANGED <<paired, thread, stale, joining>>
       \/ Opened /\ joining' = TRUE /\ UNCHANGED <<paired, thread, stale>>
       \/ /\ Opened
          /\ paired' = TRUE
          /\ stale' = FALSE
          /\ \/ thread' = "new" /\ UNCHANGED joining
             \/ joining' = TRUE /\ UNCHANGED thread
    /\ UNCHANGED <<control, started, plugged, line, epoch, part, valid, local, reader>>

(* The byte is lost when there is no socket to write it to. *)
Written(cmd) == control' = IF paired THEN Append(control, cmd) ELSE control

serial_gps_start ==
    /\ Calling
    /\ init
    /\ Written("start")
    /\ wanted' = TRUE
    /\ UNCHANGED <<init, opened, hung, thread, stale, paired, started, joining, line,
                   receiver, local, reader>>

serial_gps_stop ==
    /\ Calling
    /\ init
    /\ Written("stop")
    /\ wanted' = FALSE
    /\ UNCHANGED <<init, opened, hung, thread, stale, paired, started, joining, line,
                   receiver, local, reader>>

(* serial_gps_cleanup: gps_state_done up to pthread_join ... *)
serial_gps_cleanup ==
    /\ Calling
    /\ init
    /\ Written("quit")
    /\ joining' = TRUE
    /\ UNCHANGED <<init, opened, paired, wanted, hung, thread, stale, started, line,
                   receiver, local, reader>>

(* Without a thread, a join of the handle 0 returns at once.  A join of one   *)
(* joined before is undefined: it may return, wait for another thread, or    *)
(* end the process; after the last two no call is made any more.             *)
Joined == thread \in {"none", "ended"}
Undefined == thread = "none" /\ stale

(* ... and after it. *)
Done ==
    /\ joining
    /\ Joined
    /\ joining' = FALSE
    /\ thread' = "none"
    /\ stale' = (stale \/ thread = "ended")
    /\ control' = <<>>
    /\ paired' = FALSE
    /\ opened' = FALSE
    /\ hung' = FALSE
    /\ line' = <<>>
    /\ init' = FALSE
    /\ UNCHANGED <<calls, wanted, started, receiver, local, reader>>

-----------------------------------------------------------------------------
(* The receiver *)

Unplug ==
    /\ plugged
    /\ plugged' = FALSE
    /\ hung' = opened
    /\ line' = <<>>
    /\ UNCHANGED <<session, thread, started, epoch, part, valid, cut, lost, local, reader>>

(* The old descriptor stays hung up. *)
Plug ==
    /\ ~plugged
    /\ plugged' = TRUE
    /\ UNCHANGED <<session, hung, thread, started, line, epoch, part, valid, cut, lost,
                   local, reader>>

NextEpoch ==
    /\ epoch < MaxEpochs
    /\ epoch' = epoch + 1
    /\ part' = 1
    /\ valid' \in BOOLEAN

Hears == opened /\ ~hung
Full == Len(line) = MaxLine

Send ==
    /\ plugged
    /\ \E kind \in {Kinds[part]} \union (IF cut THEN {"unknown"} ELSE {}) :
          line' = IF Hears /\ ~Full
                     THEN Append(line, [kind |-> kind, part |-> part, epoch |-> epoch,
                                        valid |-> valid])
                     ELSE line
    /\ cut' = IF Hears THEN Full ELSE cut
    /\ lost' = (lost \/ (Hears /\ Full))
    /\ \/ part < 4 /\ part' = part + 1 /\ UNCHANGED <<epoch, valid>>
       \/ part = 4 /\ NextEpoch
    /\ UNCHANGED <<session, hung, thread, started, plugged, local, reader>>

(* Time goes by while it is unplugged. *)
Silent ==
    /\ ~plugged
    /\ NextEpoch
    /\ UNCHANGED <<session, hung, thread, started, line, plugged, cut, lost, local, reader>>

(* The framework sets another time zone, or daylight saving begins or ends.  *)
Move ==
    /\ moves < MaxMoves
    /\ moves' = moves + 1
    /\ zone' \in Zones \ {zone}
    /\ UNCHANGED <<session, hung, thread, started, line, receiver, reader>>

-----------------------------------------------------------------------------
(* nmea_reader_parse *)

(* A date by RMC; until there is one, the system's, which may be any.        *)
DateKept(s) == utc_day
DateOf(s) == IF s.kind = "RMC" /\ s.valid THEN Day(s.epoch) ELSE utc_day

(* The fields that a sentence without a fix leaves empty change nothing; of   *)
(* those that are flagged, only the position is kept here.                   *)
Located(s) == s.valid /\ s.kind \in {"RMC", "GGA"}

Timed(s) == s.kind = "GGA" \/ (s.kind = "RMC" /\ s.valid)

(* mktime takes the time for a local one; utc_diff is to undo that.          *)
mktime(day, time) == day * EpochsPerDay + time - zone

FixWith(s) ==
    [has_latlong |-> fix.has_latlong \/ Located(s),
     latlong |-> IF Located(s) THEN s.epoch ELSE fix.latlong,
     time |-> IF Timed(s) THEN mktime(utc_day', TimeOfDay(s.epoch)) + utc_diff ELSE fix.time,
     dated |-> IF Timed(s) THEN dated' ELSE fix.dated,
     shift |-> IF Timed(s) THEN utc_diff - zone ELSE fix.shift]

FlagsKept(f) == f
Unflagged(f) == [f EXCEPT !.has_latlong = FALSE]

fixvalid(s) == s.kind \in {"GGA", "GSA"} /\ s.valid

nmea_reader_parse(s) ==
    /\ utc_day' \in IF Timed(s) /\ utc_day = NoDay /\ s.kind = "GGA"
                       THEN 0 .. Day(MaxEpochs) ELSE {DateOf(s)}
    /\ dated' = IF s.kind = "RMC" /\ s.valid THEN s.epoch ELSE dated
    /\ IF fixvalid(s)
          THEN /\ told' = FixWith(s)
               /\ told_in' = s
               /\ placed' = IF told'.has_latlong THEN told'.latlong ELSE placed
               /\ fix' = Unflagged(FixWith(s))
          ELSE /\ fix' = FixWith(s)
               /\ UNCHANGED <<told, told_in, placed>>
    /\ UNCHANGED utc_diff

-----------------------------------------------------------------------------
(* gps_state_thread *)

(* tm_yday + 365 * tm_year takes the turn of a leap year for no time at all,  *)
(* if it lies between the local time and UTC.                                *)
update_utc_diff ==
    utc_diff' \in {zone} \union (IF zone > 0 THEN {zone - EpochsPerDay} ELSE {})
                        \union (IF zone < 0 THEN {zone + EpochsPerDay} ELSE {})

nmea_reader_init == utc_day' = NoDay /\ fix' = NoFix /\ dated' = 0

Begins ==
    /\ thread = "new"
    /\ thread' = "wait"
    /\ started' = FALSE
    /\ nmea_reader_init
    /\ update_utc_diff
    /\ UNCHANGED <<session, hung, line, receiver, local, told, told_in, placed>>

(* The reader is on the thread's stack and goes with it; what was told is     *)
(* then forgotten here as well, but for how new its position was.            *)
Returns ==
    /\ thread' = "ended"
    /\ started' = FALSE
    /\ nmea_reader_init /\ utc_diff' = 0
    /\ told' = NoFix /\ told_in' = NoSentence
    /\ UNCHANGED placed

Toggled(cmd) == ~started
StartedAfter(cmd) == cmd = "start"

HearsCommand ==
    /\ thread = "wait"
    /\ control # <<>>
    /\ control' = Tail(control)
    /\ IF Head(control) = "quit"
          THEN Returns
          ELSE started' = StartedAfter(Head(control)) /\ UNCHANGED <<thread, reader>>
    /\ UNCHANGED <<init, opened, paired, joining, calls, wanted, stale, hung, line,
                   receiver, local>>

(* EPOLLHUP *)
HangsUp ==
    /\ thread = "wait"
    /\ hung
    /\ Returns
    /\ UNCHANGED <<session, hung, line, receiver, local>>

HasData ==
    /\ thread = "wait"
    /\ line # <<>>
    /\ thread' = "read"
    /\ UNCHANGED <<session, hung, started, line, receiver, local, reader>>

(* read until it would block; a read that returns 0 does not end the loop.   *)
Reads ==
    /\ thread = "read"
    /\ line # <<>>
    /\ nmea_reader_parse(Head(line))
    /\ line' = Tail(line)
    /\ UNCHANGED <<session, hung, thread, started, receiver, local>>

NeverBlocks == FALSE
WouldBlock == line = <<>> /\ ~hung

Drained ==
    /\ thread = "read"
    /\ WouldBlock
    /\ thread' = "wait"
    /\ UNCHANGED <<session, hung, started, line, receiver, local, reader>>

Thread == Begins \/ HearsCommand \/ HangsUp \/ HasData \/ Reads \/ Drained

-----------------------------------------------------------------------------
Framework == serial_gps_init \/ serial_gps_start \/ serial_gps_stop \/ serial_gps_cleanup

Next == Framework \/ Done \/ Unplug \/ Plug \/ Send \/ Silent \/ Move \/ Thread

Spec == Init /\ [][Next]_vars

(* The GPS thread runs unless it is blocked in epoll_wait, and cleanup goes  *)
(* on when pthread_join returns, as it must where it is defined.  No call    *)
(* and no sentence has to come.                                              *)
LiveSpec == Spec /\ WF_vars(Thread) /\ WF_vars(~Undefined /\ Done)

-----------------------------------------------------------------------------
Alive == thread \in {"new", "wait", "read"}

(* start and stop take effect in the order they were called, however many    *)
(* are under way, as long as the thread has not seen its tty hang up.        *)
LastCommandHeard ==
    \A b \in BOOLEAN :
        (Alive /\ wanted = b) ~> (started = b \/ wanted # b \/ hung \/ ~init)

(* A position is told once, and after every older one.                       *)
PositionsNewer ==
    [][told_in' # told_in /\ told'.has_latlong
          => placed < told'.latlong /\ told'.latlong <= told_in'.epoch]_vars

(* And it is that of the epoch it is told in, unless sentences were lost: the *)
(* fields gathered from several sentences are flagged until they are sent    *)
(* and no longer (nmea_reader_parse).                                        *)
PositionsAdvance ==
    /\ PositionsNewer
    /\ [][told_in' # told_in /\ told'.has_latlong
             => told'.latlong = told_in'.epoch \/ lost]_vars

(* GGA has a time and no date.  Once an RMC has told the date, and as long as *)
(* utc_diff is the time zone's, a location is never of the future, and is of *)
(* the day of the last RMC: at most a day too old per midnight whose RMC was *)
(* lost, and right if that of its own epoch was heard.                       *)
FixOfItsDay ==
    told.dated # 0 /\ told.shift = 0 =>
        /\ told.time <= told_in.epoch
        /\ Day(told.time) = Day(told.dated)
        /\ told.dated = told_in.epoch => told.time = told_in.epoch

(* "tell the thread to quit, and wait for it" (gps_state_done): cleanup      *)
(* returns, unless the tty hung up while the thread was reading it, or there *)
(* is no thread and the last one has been joined; and then no thread is left *)
(* to call back into the framework or to read a descriptor that a later init *)
(* reuses.                                                                   *)
CleanupEnds ==
    /\ [](~init => ~Alive)
    /\ joining ~> (~joining \/ (thread = "read" /\ hung) \/ Undefined)
=============================================================================
