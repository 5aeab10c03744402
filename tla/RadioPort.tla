------------------------------ MODULE RadioPort ------------------------------
(***************************************************************************)
(* The serial port of the DMHD-1000 radio under one tuner after another:    *)
(* BroadcastRadio::openTuner, HDControl::activate and close, LinuxPort and  *)
(* the listener thread of HDListen.                                         *)
(*                                                                          *)
(* Each tuner has its own LinuxPort and its own listener, but the process   *)
(* has one table of descriptors and the radio is one tty.  open takes the   *)
(* lowest free descriptor; a read that is waiting keeps the tty open when   *)
(* its descriptor is closed; bytes go to whichever read takes them, and the *)
(* tty's lock gives a read its bytes without another's in between.          *)
(*                                                                          *)
(* A frame is its first byte, 0xa4, its length and its data with the        *)
(* checksum.  The data may hold a 0xa4, and the line may lose any end of a  *)
(* frame.  A read waits for its first byte for ever and for each further    *)
(* one half a second (VMIN 255, VTIME 5).                                   *)
(***************************************************************************)
EXTENDS Integers, Sequences, FiniteSets, FiniteSetsExt

CONSTANTS
    NTuners,        \* bound: tuners opened
    MaxFrames       \* bound: frames the radio sends

ASSUME RadioPortAssumption ==
    /\ NTuners \in Nat \ {0}
    /\ MaxFrames \in Nat

Tuners == 1 .. NTuners
Fds == 1 .. 2 * NTuners     \* no tuner holds more than two

VARIABLES
    fds,                \* the open descriptors, all of them on the tty
    line,               \* bytes in the tty
    frames,             \* frames sent
    mTuner,             \* the last tuner opened, 0 before
    opening,            \* where openTuner is
    isOpen, portfd,     \* LinuxPort, per tuner; portfd 0 is no port
    keepReading,        \* HDListen, per tuner
    listener,           \* where each listener is
    \* history
    extra,              \* frames each tuner decoded after its close began
    pending             \* a frame came to an open tuner that was between frames

linuxPort == <<isOpen, portfd>>
portVars == <<fds, line, frames, mTuner, opening, linuxPort, keepReading, listener,
          extra, pending>>

PortInit ==
    /\ fds = {}
    /\ line = <<>>
    /\ frames = 0
    /\ mTuner = 0
    /\ opening = "idle"
    /\ isOpen = [t \in Tuners |-> FALSE]
    /\ portfd = [t \in Tuners |-> 0]
    /\ keepReading = [t \in Tuners |-> TRUE]
    /\ listener = [t \in Tuners |-> "none"]
    /\ extra = [t \in Tuners |-> 0]
    /\ pending = FALSE

-----------------------------------------------------------------------------
(* The kernel *)

Waiting == {"waits_start", "waits_length", "waits_data", "waits_false", "in_false"}

(* A tty nobody holds drops what it had. *)
Kept(open, where) ==
    IF open = {} /\ \A t \in Tuners : where[t] \notin Waiting THEN <<>> ELSE line

Lowest == Min(Fds \ fds)

(* The radio may be inside a frame when its tty is opened.  open may fail,    *)
(* and LinuxPort counts as open all the same: 0 is no descriptor.            *)
OpenTty(t) ==
    \/ /\ portfd' = [portfd EXCEPT ![t] = Lowest]
       /\ fds' = fds \union {Lowest}
       /\ line' \in IF fds = {} /\ line = <<>> THEN {<<>>, <<"data">>} ELSE {line}
    \/ /\ portfd' = [portfd EXCEPT ![t] = 0]
       /\ UNCHANGED <<fds, line>>

Frame == <<"start", "length", "data">>

Torn == {<<"start">>, <<"start", "length">>, <<"start", "length", "part">>, <<"data">>}

Whole(bytes) ==
    /\ Len(bytes) % 3 = 0
    /\ \A i \in DOMAIN bytes : bytes[i] = Frame[((i - 1) % 3) + 1]

(* What tuner t's listener has read of a frame *)
Begun(t) ==
    CASE listener[t] \in {"length", "waits_length"} -> <<"start">>
      [] listener[t] \in {"data", "waits_data"} -> <<"start", "length">>
      [] OTHER -> <<>>

(* The listener of t has its port and is between frames, or in one.          *)
InStep(t) ==
    /\ portfd[t] \in fds
    /\ listener[t] \notin {"false", "waits_false", "in_false", "misread"}
    /\ Whole(Begun(t) \o line)

(* The radio sends a frame, of which the line may lose a part.               *)
Radio ==
    /\ frames < MaxFrames
    /\ frames' = frames + 1
    /\ \E piece \in Torn \union {Frame} :
          /\ line' = IF fds = {} /\ \A t \in Tuners : listener[t] \notin Waiting
                        THEN <<>> ELSE line \o piece
          /\ pending' = \/ pending
                        \/ /\ piece = Frame
                           /\ mTuner # 0 /\ opening = "idle"
                           /\ InStep(mTuner)
    /\ UNCHANGED <<fds, mTuner, opening, linuxPort, keepReading, listener, extra>>

-----------------------------------------------------------------------------
(* openTuner: the old tuner's close, then the new one's activate. *)

(* The old tuner is closed only if somebody still refers to it.  If nobody    *)
(* does, it is gone, with a listener that goes on in its memory; as long as  *)
(* nothing else is put there it reads what it read before.                   *)
OpenTuner ==
    /\ opening = "idle"
    /\ mTuner < NTuners
    /\ opening' \in IF mTuner = 0 THEN {"open"} ELSE {"open", "stop"}
    /\ pending' = FALSE
    /\ UNCHANGED <<fds, line, frames, mTuner, linuxPort, keepReading, listener,
                   extra>>

StopReading ==
    /\ opening = "stop"
    /\ keepReading' = [keepReading EXCEPT ![mTuner] = FALSE]
    /\ opening' = "mark_closed"
    /\ UNCHANGED <<fds, line, frames, mTuner, linuxPort, listener, extra, pending>>

(* closeport: the flag, then close on the descriptor's number. *)
ToClose(t) == {portfd[t]}

MarkClosed ==
    /\ opening = "mark_closed"
    /\ isOpen' = [isOpen EXCEPT ![mTuner] = FALSE]
    /\ opening' = "close"
    /\ UNCHANGED <<fds, line, frames, mTuner, portfd, keepReading, listener,
                   extra, pending>>

ClosePort ==
    /\ opening = "close"
    /\ fds' = fds \ ToClose(mTuner)
    /\ line' = Kept(fds', listener)
    /\ opening' = "open"
    /\ UNCHANGED <<frames, mTuner, linuxPort, keepReading, listener, extra, pending>>

(* activate: openport and listentoradio. *)
Activate ==
    LET t == mTuner + 1 IN
    /\ opening = "open"
    /\ OpenTty(t)
    /\ isOpen' = [isOpen EXCEPT ![t] = TRUE]
    /\ listener' = [listener EXCEPT ![t] = "loop"]
    /\ mTuner' = t
    /\ opening' = "idle"
    /\ UNCHANGED <<frames, keepReading, extra, pending>>

-----------------------------------------------------------------------------
(* The listener of tuner t: readinfile around hdreadbytes, then closeport.   *)

At(t, from, to) ==
    /\ listener[t] = from
    /\ listener' = [listener EXCEPT ![t] = to]

NeverStops(t) == FALSE
Stops(t) == ~keepReading[t]

Loop(t) ==
    /\ At(t, "loop", IF Stops(t) THEN "mark_closed" ELSE "enter")
    /\ UNCHANGED <<fds, line, frames, mTuner, opening, linuxPort, keepReading,
                   extra, pending>>

(* "Having to re-open port" *)
Enter(t) ==
    /\ At(t, "enter", IF isOpen[t] THEN "start" ELSE "reopen")
    /\ isOpen' = [isOpen EXCEPT ![t] = TRUE]
    /\ UNCHANGED <<fds, line, frames, mTuner, opening, portfd, keepReading, extra,
                   pending>>

Reopen(t) ==
    /\ At(t, "reopen", "start")
    /\ OpenTty(t)
    /\ UNCHANGED <<frames, mTuner, opening, isOpen, keepReading, extra, pending>>

(* read on a descriptor that is not open fails: at the start of a frame it is *)
(* tried again and again, later the frame is given up.                       *)
CallRead(t) ==
    /\ \/ portfd[t] \in fds /\ At(t, "start", "waits_start")
       \/ portfd[t] \in fds /\ At(t, "length", "waits_length")
       \/ portfd[t] \in fds /\ At(t, "data", "waits_data")
       \/ portfd[t] \in fds /\ At(t, "false", "waits_false")
       \/ portfd[t] \notin fds /\ \E step \in {"length", "data", "false"} : At(t, step, "start")
    /\ UNCHANGED <<fds, line, frames, mTuner, opening, linuxPort, keepReading,
                   extra, pending>>

(* Bytes of a length or of data may be a 0xa4 that is taken for a start; the  *)
(* length that follows it is then any byte, and the false frame may end in   *)
(* the same data or swallow what comes after.                                *)
AfterStart(bytes) ==
    IF bytes = "start" THEN {"length"} ELSE {"start", "length", "false", "in_false"}

AfterLength(bytes) == IF bytes = "length" THEN {"data"} ELSE {"false", "in_false"}

(* The checksum of what is no frame may be right by chance.                  *)
FalseEnds == {"start", "misread"}

OneByteLess(bytes) == FalseEnds
AfterData(bytes) == IF bytes = "data" THEN {"decode"} ELSE FalseEnds \union {"in_false"}

AfterFalse == FalseEnds \union {"in_false"}

Gets(t) ==
    /\ line # <<>>
    /\ \/ \E to \in AfterStart(Head(line)) : At(t, "waits_start", to)
       \/ \E to \in AfterLength(Head(line)) : At(t, "waits_length", to)
       \/ \E to \in AfterData(Head(line)) : At(t, "waits_data", to)
       \/ \E to \in AfterFalse : At(t, "waits_false", to) \/ At(t, "in_false", to)
    /\ line' = IF fds = {} /\ \A u \in Tuners : listener'[u] \notin Waiting
                  THEN <<>> ELSE Tail(line)
    /\ UNCHANGED <<fds, frames, mTuner, opening, linuxPort, keepReading, extra,
                   pending>>

(* A pause ends a read that has some of its bytes: n < buff[1]+1             *)
ShortRead(t) ==
    /\ line = <<>>
    /\ At(t, "in_false", "start")
    /\ UNCHANGED <<fds, line, frames, mTuner, opening, linuxPort, keepReading, extra,
                   pending>>

decodemsg(t) ==
    /\ At(t, "decode", "loop") \/ At(t, "misread", "loop")
    /\ extra' = [extra EXCEPT ![t] = IF keepReading[t] THEN @ ELSE @ + 1]
    /\ pending' = (pending /\ ~(t = mTuner /\ listener[t] = "decode"))
    /\ UNCHANGED <<fds, line, frames, mTuner, opening, linuxPort, keepReading>>

MarksClosed(t) ==
    /\ At(t, "mark_closed", "close")
    /\ isOpen' = [isOpen EXCEPT ![t] = FALSE]
    /\ UNCHANGED <<fds, line, frames, mTuner, opening, portfd, keepReading, extra,
                   pending>>

ClosesPort(t) ==
    /\ At(t, "close", "done")
    /\ fds' = fds \ ToClose(t)
    /\ line' = Kept(fds', listener')
    /\ UNCHANGED <<frames, mTuner, opening, linuxPort, keepReading, extra, pending>>

Listener(t) ==
    Loop(t) \/ Enter(t) \/ Reopen(t) \/ CallRead(t) \/ Gets(t) \/ ShortRead(t)
      \/ decodemsg(t) \/ MarksClosed(t) \/ ClosesPort(t)

openTuner == OpenTuner \/ StopReading \/ MarkClosed \/ ClosePort \/ Activate

PortNext == Radio \/ openTuner \/ \E t \in Tuners : Listener(t)

PortSpec == PortInit /\ [][PortNext]_portVars

(* Every thread runs on; clients need not open another tuner, and the radio  *)
(* need not speak.                                                           *)
PortLiveSpec ==
    /\ PortSpec
    /\ WF_portVars(openTuner /\ opening # "idle")
    /\ \A t \in Tuners : WF_portVars(Listener(t))

-----------------------------------------------------------------------------
AtMostOneMore == \A t \in Tuners : extra[t] <= 1

Held(fd) == \E t \in Tuners : portfd[t] = fd /\ listener[t] # "done"

LeakBounded ==
    Cardinality({fd \in fds : ~Held(fd)}) <= Cardinality({t \in Tuners : ~keepReading[t]})

(* A closed tuner leaves little behind: it reports at most one more frame to *)
(* its old callback, as the flag is not looked at while hdreadbytes waits    *)
(* for a frame, and however close, re-open and the listeners' own closes     *)
(* interleave, at most one descriptor stays open that no listener closes.    *)
LeavesLittle == AtMostOneMore /\ LeakBounded

(* A frame that comes whole to the first tuner while its listener is between *)
(* frames, or reads one, is followed by a frame it decodes or by the next    *)
(* openTuner, whatever is lost on the line afterwards.  A listener that is   *)
(* out of step may take a start byte in the data for one and swallow frames  *)
(* after it, as long as it finds false ones.                                 *)
FirstProcessed == (pending /\ mTuner = 1) ~> ~pending
=============================================================================
