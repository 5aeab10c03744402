---------------------------- MODULE BluetoothHci ----------------------------
(***************************************************************************)
(* The Bluetooth HAL, bluetooth/bluetooth_hci.cc, over its fd watcher.  The *)
(* bytes of the controller's tty are copied by the watcher's thread into a  *)
(* socket pair, whose other end the same watcher gives to the packetizer.   *)
(* initialize and close (also called when the client dies) run on the one   *)
(* binder thread of the service.  Bytes are counted; H4Protocol follows     *)
(* their contents.                                                          *)
(***************************************************************************)
EXTENDS AsyncFdWatcher

CONSTANTS
    MaxSessions,   \* bound: how often initialize succeeds
    MaxBytes       \* bound: bytes the controller sends in all

Sessions == 1 .. MaxSessions

(* A descriptor is named by its use and by the initialize that opened it.    *)
ASSUME HciAssumption ==
    /\ MaxSessions \in Nat
    /\ MaxBytes \in Nat
    /\ Fds = {"tty", "hci"} \X Sessions

VARIABLES
    session,    \* the number of initialize calls so far that opened the tty
    open,       \* hci_tty_fd_ >= 0
    hci,        \* the session of the H4Protocol that hci_ points to, or 0
    binder,     \* where the binder thread is in initialize or close
    tty,        \* bytes the driver holds
    shim,       \* bytes in each session's socket pair
    sent,       \* bytes the controller has sent
    early       \* history: the last of them came while initialize ran

halVars == <<session, open, hci, binder, sent, early>>
vars == <<watcherVars, halVars, tty, shim>>

Init ==
    /\ WatcherInit
    /\ session = 0
    /\ open = FALSE
    /\ hci = 0
    /\ binder = "idle"
    /\ tty = 0
    /\ shim = [s \in Sessions |-> 0]
    /\ sent = 0
    /\ early = FALSE

Readable ==
    {fd \in Fds : \/ fd = <<"tty", session>> /\ tty > 0
                  \/ fd[1] = "hci" /\ shim[fd[2]] > 0}

-----------------------------------------------------------------------------
(* initialize: the tty is opened and the packetizer made, then the tty and   *)
(* the socket are watched, whether or not a thread could be started.  A      *)
(* failed open changes nothing.  The code does not look at what is open; the *)
(* service's client is assumed to close what it has initialized.             *)
OpenTty ==
    /\ binder = "idle" /\ ~open
    /\ session < MaxSessions
    /\ session' = session + 1
    /\ open' = TRUE
    /\ hci' = session + 1
    /\ binder' = "watch tty"
    /\ UNCHANGED <<watcherVars, tty, shim, sent, early>>

WatchTty ==
    /\ binder = "watch tty"
    /\ Watch(<<"tty", session>>)
    /\ binder' = "watch hci"
    /\ UNCHANGED <<session, open, hci, tty, shim, sent, early>>

WatchHci ==
    /\ binder = "watch hci"
    /\ Watch(<<"hci", session>>)
    /\ binder' = "complete"
    /\ UNCHANGED <<session, open, hci, tty, shim, sent, early>>

Complete ==
    /\ binder = "complete"
    /\ client = "idle"
    /\ binder' = "idle"
    /\ UNCHANGED <<watcherVars, session, open, hci, tty, shim, sent, early>>

(* close: the watcher is stopped, then the tty closed and hci_ deleted.      *)
Close ==
    /\ binder = "idle" /\ open
    /\ Stop
    /\ binder' = "close"
    /\ UNCHANGED <<session, open, hci, tty, shim, sent, early>>

CloseAtOnce == client # "start"
WatcherStopped == client = "idle"

FinishClose ==
    /\ binder = "close"
    /\ WatcherStopped
    /\ open' = FALSE
    /\ hci' = 0
    /\ tty' = 0
    /\ binder' = "idle"
    /\ UNCHANGED <<watcherVars, session, shim, sent, early>>

(* The steps of the watcher's own functions, on the binder thread.           *)
WatcherCall ==
    /\ ClientStep
    /\ UNCHANGED <<halVars, tty, shim>>

-----------------------------------------------------------------------------
(* The controller sends a byte. *)
Receive ==
    /\ open
    /\ sent < MaxBytes
    /\ sent' = sent + 1
    /\ early' = (binder \notin {"idle", "close"})
    /\ tty' = tty + 1
    /\ UNCHANGED <<watcherVars, session, open, hci, binder, shim>>

(* The tty's callback: FIONREAD, one read and one write of that many bytes;  *)
(* more may have come in since.                                              *)
OnTty(s) ==
    /\ Call(<<"tty", s>>)
    /\ \E n \in 1 .. tty :
          /\ tty' = tty - n
          /\ shim' = [shim EXCEPT ![s] = @ + n]
    /\ UNCHANGED halVars

(* The socket's callback, hci_->OnDataReady: one read of some bytes.         *)
OnHci(s) ==
    /\ Call(<<"hci", s>>)
    /\ \E n \in 1 .. shim[s] : shim' = [shim EXCEPT ![s] = @ - n]
    /\ UNCHANGED <<halVars, tty>>

WatcherThread ==
    \/ /\ Loop \/ Select(Readable) \/ Save
       /\ UNCHANGED <<halVars, tty, shim>>
    \/ \E s \in Sessions : OnTty(s) \/ OnHci(s)

-----------------------------------------------------------------------------
Binder == WatchTty \/ WatchHci \/ Complete \/ FinishClose \/ WatcherCall

Next == OpenTty \/ Close \/ Binder \/ Receive \/ WatcherThread

Spec == Init /\ [][Next]_vars

(* The binder thread finishes a call it has begun, and the watcher's thread  *)
(* runs when it is not blocked.  No call and no byte ever has to come.       *)
Fairness == WF_vars(Binder) /\ WF_vars(WatcherThread)

LiveSpec == Spec /\ Fairness

-----------------------------------------------------------------------------
(* A callback runs only while the session it was made for is open: close     *)
(* joins the thread before it closes the tty and deletes hci_, and clears    *)
(* the watched descriptors so that the next session does not see them.       *)
CallsOnOpenSession ==
    \A fd \in saved : open /\ hci = session /\ fd[2] = session

(* No byte is stranded: while the HAL stays open every byte of the tty goes  *)
(* through the socket to the packetizer, without another byte having to wake *)
(* the thread.  initialize registers the socket when the thread may already  *)
(* be in a select that knows only the tty, and nothing wakes it then, so a   *)
(* byte that comes during initialize may lie in the socket: all are brought  *)
(* along by the first that comes after it.  A watcher whose pipe could not   *)
(* be made has no thread to read at all.                                     *)
Stranded == tty > 0 \/ (session > 0 /\ shim[session] > 0)
LaterBytesReachPacketizer ==
    (open /\ Stranded /\ ~early /\ thread # "none") ~> (~Stranded \/ binder = "close")

(* The bytes the packetizer is given are of the open session: a socket that  *)
(* still holds bytes of an earlier one is never read again.                  *)
OldBytesStay ==
    [][\A s \in Sessions : s # session => shim'[s] = shim[s]]_vars
=============================================================================
