------------------------------- MODULE Backlight -------------------------------
(***************************************************************************)
(* The way of a brightness from the lights HAL (liblight/lights.c) to the   *)
(* screens: to a USB screen through a cached hidraw descriptor, and through *)
(* a socket to swid (swid/swid.c), whose backlight thread writes it to the  *)
(* microcontroller.  Several threads may call set_light_backlight; swid may *)
(* die, and be started again (its service is oneshot, so not by init).       *)
(*                                                                          *)
(* Calls are numbered in the order in which they take g_lock, and the       *)
(* number stands for the byte that is sent.  A byte written after swid has  *)
(* died is lost; that the signal of such a write may end the HAL itself is  *)
(* left out.  A USB screen may be plugged in and out at any time; plugging   *)
(* it in again makes it a new device, which the descriptor of the old one    *)
(* does not reach.                                                          *)
(***************************************************************************)
EXTENDS Integers, Sequences

CONSTANTS
    Clients,
    Levels,         \* brightness values
    MaxCalls,       \* bound: calls of set_light_backlight
    MaxDeaths,      \* bound: deaths of swid
    MaxPlugs,       \* bound: times a screen is plugged in
    MaxFails        \* bound: calls of openhid or writehid that fail on a screen

ASSUME BacklightAssumption ==
    /\ Levels \subseteq 0 .. 255
    /\ MaxCalls \in Nat
    /\ MaxDeaths \in Nat
    /\ MaxPlugs \in Nat
    /\ MaxFails \in Nat

Calls == 1 .. MaxCalls
Idle == [at |-> "idle", call |-> 0]

VARIABLES
    client,         \* where each thread is, and in which call
    level,          \* the brightness of each call
    calls,
    lastHID, hid_fd,        \* the cached value; the screen that is open, or 0
    screen, plugs,  \* the screen that is plugged in, or 0; how many there were
    hid,            \* what it shows
    up,             \* swid runs
    queue, served,  \* its socket: connections to accept, and the accepted one
    sent, closed,   \* connections with a byte to read; closed by the HAL
    lcd,            \* the last byte swid sent on
    deaths, fails,
    \* history
    missed          \* calls when a screen was plugged in, or last missed a value

callers == <<client, level, calls>>
usb == <<lastHID, hid_fd, screen, plugs, hid, fails, missed>>
swid == <<up, queue, served, lcd, deaths>>
vars == <<callers, usb, swid, sent, closed>>

Own == -1           \* the brightness a screen comes up with

Init ==
    /\ client = [c \in Clients |-> Idle]
    /\ level = [n \in Calls |-> 0]
    /\ calls = 0
    /\ lastHID = 32
    /\ hid_fd = 0
    /\ screen = 0 /\ plugs = 0
    /\ hid = Own
    /\ fails = 0
    /\ missed = 0
    /\ up = TRUE
    /\ queue = <<>>
    /\ served = 0
    /\ sent = {}
    /\ closed = {}
    /\ lcd = 0
    /\ deaths = 0

-----------------------------------------------------------------------------
(* set_light_backlight *)

NoLock == TRUE
LockFree == \A c \in Clients : client[c] = Idle

Goes(c, from, to) ==
    /\ client[c].at = from
    /\ client' = [client EXCEPT ![c].at = to]

Lock(c) ==
    /\ client[c] = Idle
    /\ LockFree
    /\ calls < MaxCalls
    /\ calls' = calls + 1
    /\ \E b \in Levels : level' = [level EXCEPT ![calls'] = b]
    /\ client' = [client EXCEPT ![c] = [at |-> "hid", call |-> calls']]
    /\ UNCHANGED <<usb, swid, sent, closed>>

new_brightness(b) == b \div 14

(* A screen is looked for until one is open; the descriptor is kept for ever. *)
openhid == IF hid_fd = 0 THEN screen ELSE hid_fd

writehid(fd, value) == hid' = IF fd = screen /\ fd # 0 THEN value ELSE hid

(* On a screen that is there the open or the write may fail all the same.     *)
FailsOnScreen(c) ==
    /\ fails < MaxFails
    /\ fails' = fails + 1
    /\ hid_fd' \in {hid_fd, openhid}
    /\ missed' = client[c].call
    /\ UNCHANGED hid

(* The cache is set whether or not a screen was found and took the value.    *)
SetHid(c) ==
    LET new == new_brightness(level[client[c].call]) IN
    /\ Goes(c, "hid", "connect")
    /\ lastHID' = new
    /\ \/ new = lastHID /\ UNCHANGED <<hid_fd, hid, fails, missed>>
       \/ /\ new # lastHID
          /\ \/ hid_fd' = openhid /\ writehid(openhid, new) /\ UNCHANGED <<fails, missed>>
             \/ FailsOnScreen(c)
    /\ UNCHANGED <<level, calls, screen, plugs, swid, sent, closed>>

PlugIn ==
    /\ screen = 0
    /\ plugs < MaxPlugs
    /\ plugs' = plugs + 1
    /\ screen' = plugs'
    /\ hid' = Own
    /\ missed' = calls
    /\ UNCHANGED <<callers, lastHID, hid_fd, fails, swid, sent, closed>>

PullOut ==
    /\ screen # 0
    /\ screen' = 0
    /\ hid' = Own
    /\ UNCHANGED <<callers, lastHID, hid_fd, plugs, fails, missed, swid, sent, closed>>

(* listen(fd, 1) lets two connections wait; a third makes connect wait.      *)
Connect(c) ==
    /\ up
    /\ Len(queue) <= 1
    /\ Goes(c, "connect", "write")
    /\ queue' = Append(queue, client[c].call)
    /\ UNCHANGED <<level, calls, usb, up, served, lcd, deaths,
                   sent, closed>>

Unlocked(c) == client' = [client EXCEPT ![c] = Idle]

Refused(c) ==
    /\ ~up
    /\ client[c].at = "connect"
    /\ Unlocked(c)
    /\ UNCHANGED <<level, calls, usb, swid, sent, closed>>

WriteByte(c) ==
    /\ Goes(c, "write", "close")
    /\ sent' = sent \union {client[c].call}
    /\ UNCHANGED <<level, calls, usb, swid, closed>>

CloseSocket(c) ==
    /\ client[c].at = "close"
    /\ closed' = closed \union {client[c].call}
    /\ Unlocked(c)
    /\ UNCHANGED <<level, calls, usb, swid, sent>>

SetLight(c) ==
    Lock(c) \/ SetHid(c) \/ Connect(c) \/ Refused(c) \/ WriteByte(c) \/ CloseSocket(c)

-----------------------------------------------------------------------------
(* bl_read of swid *)

Accept ==
    /\ served = 0
    /\ queue # <<>>
    /\ served' = Head(queue)
    /\ queue' = Tail(queue)
    /\ UNCHANGED <<callers, usb, up, lcd, deaths, sent, closed>>

ReadByte ==
    /\ served \in sent
    /\ lcd' = served
    /\ sent' = sent \ {served}
    /\ UNCHANGED <<callers, usb, up, queue, served, deaths, closed>>

(* The byte of a client that has closed is read before the end of the file. *)
ClosedEarly == served \in closed
AtEof == served \in closed /\ served \notin sent

Eof ==
    /\ AtEof
    /\ served' = 0
    /\ UNCHANGED <<callers, usb, up, queue, lcd, deaths, sent, closed>>

bl_read == Accept \/ ReadByte \/ Eof

Die ==
    /\ up
    /\ deaths < MaxDeaths
    /\ up' = FALSE
    /\ queue' = <<>>
    /\ served' = 0
    /\ deaths' = deaths + 1
    /\ UNCHANGED <<callers, usb, lcd, sent, closed>>

Restart ==
    /\ ~up
    /\ up' = TRUE
    /\ UNCHANGED <<callers, usb, queue, served, lcd, deaths, sent, closed>>

-----------------------------------------------------------------------------
Next == (\E c \in Clients : SetLight(c)) \/ PlugIn \/ PullOut \/ bl_read \/ Die \/ Restart

Spec == Init /\ [][Next]_vars

(* A call goes on once it has the lock; nobody has to start swid again.      *)
LiveSpec ==
    /\ Spec
    /\ \A c \in Clients : WF_vars(client[c] # Idle /\ SetLight(c))
    /\ WF_vars(bl_read)

-----------------------------------------------------------------------------
(* Between calls a USB screen shows the brightness of the last call, whatever *)
(* threads made the calls (set_light_backlight, g_lock), unless nothing else *)
(* was asked for since it was plugged in or missed a value, for which the    *)
(* cache is to blame, or the descriptor is of a screen that is gone.         *)
Asked(n) == IF n = 0 THEN 32 ELSE new_brightness(level[n])

HidShowsLast ==
    screen # 0 /\ (\A c \in Clients : client[c] = Idle)
        => \/ hid = Asked(calls)
           \/ \A n \in missed .. calls : Asked(n) = Asked(calls)
           \/ hid_fd \notin {0, screen}

(* The microcontroller gets the values in the order of the calls, each at    *)
(* most once, through the socket's queue and across a restart of swid.       *)
LcdAdvances == [][lcd' # lcd => lcd' > lcd]_vars

(* As long as swid does not die, the last one gets through too: no byte is   *)
(* left in a socket, and no call waits for ever.                             *)
LastWins ==
    /\ LcdAdvances
    /\ \A n \in Calls : calls = n ~> lcd = n \/ calls > n \/ deaths > 0
=============================================================================
