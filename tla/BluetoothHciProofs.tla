-------------------------- MODULE BluetoothHciProofs --------------------------
(***************************************************************************)
(* Proofs about the Bluetooth HAL and its fd watcher for any number of       *)
(* sessions and of bytes.                                                   *)
(*                                                                          *)
(* The first part is about the watcher alone; it cites nothing of the HAL    *)
(* (not HciAssumption either), so it holds for any set of descriptors.      *)
(* Every step of the HAL is one of its watcher's or leaves the watcher      *)
(* alone, so what is proved of the watcher holds of it in the HAL.  On it    *)
(* rests that a callback runs only for the session that is open.            *)
(***************************************************************************)
EXTENDS BluetoothHci, TLAPS

(* The flag running_ and the API call in progress tell whether there can be  *)
(* a thread: a stop lowers the flag first and joins afterwards.  A raised    *)
(* flag does not tell that there is one.                                     *)
ThreadLives ==
    /\ running => thread # "exited"
    /\ ~running /\ client \notin {"notify", "join"} => thread = "none"
    /\ client \in {"notify", "join", "clear", "terminated"} => ~running

(* Callbacks are saved only while the thread is calling them. *)
SavedWhileCalling == saved # {} => thread = "call"

(* Between calls a stopped watcher watches nothing. *)
StoppedIsEmpty == client \in {"idle", "poke"} /\ ~running => watched = {}

IInv ==
    /\ TypeOK
    /\ ThreadLives
    /\ SavedWhileCalling
    /\ StoppedIsEmpty
    /\ CallsOnlyWatched

-----------------------------------------------------------------------------
LEMMA InitIInv == WatcherInit => IInv
  <1> SUFFICES ASSUME WatcherInit PROVE IInv
    OBVIOUS
  <1>1. TypeOK
    BY DEF WatcherInit, TypeOK
  <1>2. ThreadLives /\ SavedWhileCalling /\ StoppedIsEmpty /\ CallsOnlyWatched
    BY DEF WatcherInit, ThreadLives, SavedWhileCalling, StoppedIsEmpty, CallsOnlyWatched
  <1> QED BY <1>1, <1>2 DEF IInv

LEMMA StepIInv == IInv /\ [WatcherNext]_watcherVars => IInv'
  <1> SUFFICES ASSUME IInv, [WatcherNext]_watcherVars PROVE IInv'
    OBVIOUS
  <1> USE DEF IInv, TypeOK, ThreadLives, SavedWhileCalling, StoppedIsEmpty,
              CallsOnlyWatched, threadVars
  <1>1. CASE UNCHANGED watcherVars
    BY <1>1 DEF watcherVars
  <1>2. ASSUME NEW fd \in Fds, Watch(fd) PROVE IInv'
    BY <1>2 DEF Watch
  <1>3. ASSUME NEW positive \in BOOLEAN, ConfigureTimeout(positive) PROVE IInv'
    BY <1>3 DEF ConfigureTimeout
  <1>4. CASE Stop
    BY <1>4 DEF Stop
  <1>5. CASE tryStartThread
    <2>1. client = "start" /\ client' = "idle" /\ running'
          /\ UNCHANGED <<watched, timeout_ms, timeout_cb, read_fds, timed, saved>>
      BY <1>5 DEF tryStartThread
    <2>2. CASE UNCHANGED <<notified, thread>>
      BY <2>1, <2>2
    <2>3. CASE ~running /\ notified' = 0 /\ thread' = "loop"
      BY <2>1, <2>3
    <2> QED BY <1>5, <2>2, <2>3 DEF tryStartThread
  <1>6. CASE notifyThread
    BY <1>6 DEF notifyThread, Notified
  <1>7. CASE Join
    BY <1>7 DEF Join, ThreadEnded
  <1>8. CASE Terminate
    BY <1>8 DEF Terminate
  <1>9. CASE Clear
    BY <1>9 DEF Clear, Cleared
  <1>10. CASE Loop
    BY <1>10 DEF Loop, FreshSet
  <1>11. ASSUME NEW R \in SUBSET Fds, Select(R) PROVE IInv'
    <2>1. /\ notified' \in Nat
          /\ read_fds' \subseteq Fds
          /\ thread = "select" /\ thread' \in {"loop", "save"}
          /\ UNCHANGED <<running, watched, timeout_ms, timeout_cb, timed, saved,
                         client>>
      BY <1>11 DEF Select, PipeReadable
    <2> QED BY <2>1
  <1>12. CASE Save
    BY <1>12 DEF Save
  <1>13. ASSUME NEW fd \in Fds, Call(fd) PROVE IInv'
    BY <1>13 DEF Call
  <1> QED BY <1>1, <1>2, <1>3, <1>4, <1>5, <1>6, <1>7, <1>8, <1>9, <1>10, <1>11,
             <1>12, <1>13 DEF WatcherNext, Client, ClientStep, Thread

LEMMA Inductive == WatcherSpec => []IInv
  BY InitIInv, StepIInv, PTL DEF WatcherSpec

(* The watcher's variables keep their types. *)
THEOREM TypeCorrect == WatcherSpec => []TypeOK
  <1>1. IInv => TypeOK
    BY DEF IInv
  <1> QED BY Inductive, <1>1, PTL

(* tryStartThread never replaces a thread that has not been joined.          *)
THEOREM OneThread == WatcherSpec => []StartsOneThread
  <1>1. IInv => StartsOneThread
    BY DEF IInv, ThreadLives, StartsOneThread
  <1> QED BY Inductive, <1>1, PTL

(* After StopWatchingFileDescriptors has returned there is no thread, no     *)
(* callback and no watched descriptor.                                       *)
THEOREM Stopped == WatcherSpec => []StopIsFinal
  <1>1. IInv => StopIsFinal
    BY DEF IInv, ThreadLives, SavedWhileCalling, StoppedIsEmpty, StopIsFinal
  <1> QED BY Inductive, <1>1, PTL

(* Only the callbacks of watched descriptors are invoked (the map is cleared *)
(* after the join).                                                          *)
THEOREM NeverCallsUnwatched == WatcherSpec => []CallsOnlyWatched
  <1>1. IInv => CallsOnlyWatched
    BY DEF IInv
  <1> QED BY Inductive, <1>1, PTL

-----------------------------------------------------------------------------
(* The HAL *)

LEMMA FdOf ==
    ASSUME NEW use \in {"tty", "hci"}, NEW s \in Sessions
    PROVE  <<use, s>> \in Fds
  BY HciAssumption

LEMMA FdIs ==
    ASSUME NEW fd \in Fds
    PROVE  fd[1] \in {"tty", "hci"} /\ fd[2] \in Sessions
  BY HciAssumption

LEMMA SessionBound == MaxSessions \in Nat
  BY HciAssumption, Zenon

LEMMA NextSession ==
    ASSUME NEW s \in 0 .. MaxSessions, s < MaxSessions
    PROVE  s + 1 \in Sessions /\ s + 1 \in 0 .. MaxSessions
  BY SessionBound DEF Sessions

(* The HAL's own part of the inductive invariant: where the binder thread    *)
(* may be, and that only the present session's descriptors are watched.      *)
HalTypes ==
    /\ session \in 0 .. MaxSessions
    /\ open \in BOOLEAN
    /\ binder \in {"idle", "watch tty", "watch hci", "complete", "close"}
    /\ tty \in Nat
    /\ shim \in [Sessions -> Nat]

ClosedIsStopped ==
    ~open => binder = "idle" /\ client = "idle" /\ ~running

ClosingIsStopping ==
    binder = "close" => ~running /\ client \notin {"start", "poke"}

OpenHasPacketizer == open => session \in Sessions /\ hci = session

WatchesSession == \A fd \in watched : fd[2] = session

HalInv ==
    /\ HalTypes
    /\ ClosedIsStopped
    /\ ClosingIsStopping
    /\ OpenHasPacketizer
    /\ WatchesSession

-----------------------------------------------------------------------------
(* The HAL uses its watcher as the watcher is specified. *)
LEMMA BinderWatches ==
    ASSUME HalInv, WatchTty \/ WatchHci
    PROVE  \E fd \in Fds : Watch(fd) /\ fd[2] = session
  <1>1. binder # "idle"
    BY DEF WatchTty, WatchHci
  <1>2. session \in Sessions
    BY <1>1 DEF HalInv, HalTypes, ClosedIsStopped, OpenHasPacketizer
  <1>3. CASE WatchTty
    <2>1. <<"tty", session>> \in Fds /\ <<"tty", session>>[2] = session
      BY <1>2, FdOf
    <2> QED BY <1>3, <2>1 DEF WatchTty
  <1>4. CASE WatchHci
    <2>1. <<"hci", session>> \in Fds /\ <<"hci", session>>[2] = session
      BY <1>2, FdOf
    <2> QED BY <1>4, <2>1 DEF WatchHci
  <1> QED BY <1>3, <1>4

LEMMA CallbackIsCall ==
    ASSUME NEW s \in Sessions, OnTty(s) \/ OnHci(s)
    PROVE  \E fd \in Fds : Call(fd) /\ fd \in saved /\ fd[2] = s
  <1>1. /\ <<"tty", s>> \in Fds /\ <<"tty", s>>[2] = s
        /\ <<"hci", s>> \in Fds /\ <<"hci", s>>[2] = s
    BY FdOf
  <1>2. CASE OnTty(s)
    BY <1>1, <1>2 DEF OnTty, Call
  <1>3. CASE OnHci(s)
    BY <1>1, <1>3 DEF OnHci, Call
  <1> QED BY <1>2, <1>3

LEMMA StepsOfWatcher == HalInv /\ [Next]_vars => [WatcherNext]_watcherVars
  <1> SUFFICES ASSUME HalInv, [Next]_vars
               PROVE  [WatcherNext]_watcherVars
    OBVIOUS
  <1>1. CASE UNCHANGED vars
    BY <1>1 DEF vars
  <1>2. CASE OpenTty \/ Complete \/ FinishClose \/ Receive
    BY <1>2 DEF OpenTty, Complete, FinishClose, Receive
  <1>3. CASE WatchTty \/ WatchHci
    <2>1. \E fd \in Fds : Watch(fd)
      BY <1>3, BinderWatches
    <2> QED BY <2>1 DEF WatcherNext, Client
  <1>4. CASE Close
    BY <1>4 DEF Close, WatcherNext, Client
  <1>5. CASE WatcherCall
    BY <1>5 DEF WatcherCall, WatcherNext
  <1>6. CASE WatcherThread
    <2>1. Readable \in SUBSET Fds
      BY DEF Readable
    <2>2. CASE Loop \/ Select(Readable) \/ Save
      BY <2>1, <2>2 DEF WatcherNext, Thread
    <2>3. CASE \E s \in Sessions : OnTty(s) \/ OnHci(s)
      <3>1. \E fd \in Fds : Call(fd)
        BY <2>3, CallbackIsCall
      <3> QED BY <2>1, <3>1 DEF WatcherNext, Thread
    <2> QED BY <1>6, <2>2, <2>3 DEF WatcherThread
  <1> QED BY <1>1, <1>2, <1>3, <1>4, <1>5, <1>6 DEF Next, Binder

LEMMA InitHalInv == Init => IInv /\ HalInv
  <1> SUFFICES ASSUME Init PROVE IInv /\ HalInv
    OBVIOUS
  <1>1. IInv
    BY InitIInv DEF Init
  <1>2. HalTypes
    <2>1. 0 \in 0 .. MaxSessions /\ 0 \in Nat
      BY SessionBound
    <2>2. shim \in [Sessions -> Nat]
      BY DEF Init
    <2> QED BY <2>1, <2>2, Zenon DEF Init, HalTypes
  <1>3. ClosedIsStopped /\ ClosingIsStopping /\ OpenHasPacketizer /\ WatchesSession
    BY DEF Init, WatcherInit, ClosedIsStopped, ClosingIsStopping, OpenHasPacketizer,
           WatchesSession
  <1> QED BY <1>1, <1>2, <1>3 DEF HalInv

-----------------------------------------------------------------------------
(* A callback is one of the session that is open. *)
LEMMA CallbackOpen ==
    ASSUME IInv, HalInv
    PROVE  CallsOnOpenSession
  <1> SUFFICES ASSUME NEW fd \in saved
               PROVE  open /\ hci = session /\ fd[2] = session
    BY DEF CallsOnOpenSession
  <1>1. fd \in watched /\ fd[2] = session
    BY DEF IInv, CallsOnlyWatched, HalInv, WatchesSession
  <1>2. thread = "call"
    BY DEF IInv, SavedWhileCalling
  <1>3. open
    <2> SUFFICES ASSUME ~open PROVE FALSE
      BY DEF HalInv, HalTypes
    <2>1. client = "idle" /\ ~running
      BY DEF HalInv, ClosedIsStopped
    <2> QED BY <1>2, <2>1 DEF IInv, ThreadLives
  <1> QED BY <1>1, <1>3 DEF HalInv, OpenHasPacketizer

LEMMA OldBytesStep ==
    ASSUME IInv, HalInv, [Next]_vars
    PROVE  \A s \in Sessions : s # session => shim'[s] = shim[s]
  <1>1. CASE UNCHANGED shim
    BY <1>1
  <1>2. ASSUME NEW r \in Sessions, OnTty(r) \/ OnHci(r)
        PROVE  \A s \in Sessions : s # session => shim'[s] = shim[s]
    <2>1. r = session
      BY <1>2, CallbackIsCall, CallbackOpen DEF CallsOnOpenSession
    <2>2. shim \in [Sessions -> Nat]
      BY DEF HalInv, HalTypes
    <2>3. \E f : shim' = [shim EXCEPT ![r] = f]
      BY <1>2 DEF OnTty, OnHci
    <2> QED BY <2>1, <2>2, <2>3
  <1>3. UNCHANGED shim \/ \E r \in Sessions : OnTty(r) \/ OnHci(r)
    BY DEF Next, vars, OpenTty, Close, Binder, Receive, WatcherThread, WatchTty,
           WatchHci, Complete, FinishClose, WatcherCall
  <1> QED BY <1>1, <1>2, <1>3

LEMMA BytesTyped ==
    ASSUME HalInv, [Next]_vars
    PROVE  tty' \in Nat /\ shim' \in [Sessions -> Nat]
  <1>1. tty \in Nat /\ shim \in [Sessions -> Nat]
    BY DEF HalInv, HalTypes
  <1>2. CASE UNCHANGED shim /\ tty' \in {0, tty, tty + 1}
    BY <1>1, <1>2
  <1>3. ASSUME NEW s \in Sessions, OnTty(s)
        PROVE  tty' \in Nat /\ shim' \in [Sessions -> Nat]
    <2>1. PICK n \in 1 .. tty : tty' = tty - n /\ shim' = [shim EXCEPT ![s] = @ + n]
      BY <1>3 DEF OnTty
    <2>2. tty - n \in Nat /\ shim[s] + n \in Nat
      BY <1>1
    <2> QED BY <1>1, <2>1, <2>2
  <1>4. ASSUME NEW s \in Sessions, OnHci(s)
        PROVE  tty' \in Nat /\ shim' \in [Sessions -> Nat]
    <2>1. PICK n \in 1 .. shim[s] : tty' = tty /\ shim' = [shim EXCEPT ![s] = @ - n]
      BY <1>4 DEF OnHci
    <2>2. shim[s] - n \in Nat
      BY <1>1
    <2> QED BY <1>1, <2>1, <2>2
  <1>5. \/ UNCHANGED shim /\ tty' \in {0, tty, tty + 1}
        \/ \E s \in Sessions : OnTty(s) \/ OnHci(s)
    BY DEF Next, vars, OpenTty, Close, Binder, Receive, WatcherThread, WatchTty,
           WatchHci, Complete, FinishClose, WatcherCall
  <1> QED BY <1>2, <1>3, <1>4, <1>5

LEMMA StepHalInv == IInv /\ HalInv /\ [Next]_vars => HalInv'
  <1> SUFFICES ASSUME IInv, HalInv, [Next]_vars
               PROVE  HalInv'
    OBVIOUS
  <1>1. tty' \in Nat /\ shim' \in [Sessions -> Nat]
    BY BytesTyped
  <1> USE DEF HalInv, HalTypes, ClosedIsStopped, ClosingIsStopping, OpenHasPacketizer,
              WatchesSession
  <1>2. CASE UNCHANGED vars
    BY <1>2 DEF vars, watcherVars, halVars
  <1>3. CASE OpenTty
    <2>1. /\ session' = session + 1 /\ open' /\ hci' = session + 1 /\ binder' = "watch tty"
          /\ ~open /\ session < MaxSessions
          /\ UNCHANGED <<running, watched, client>>
      BY <1>3 DEF OpenTty, watcherVars
    <2>2. session' \in Sessions /\ session' \in 0 .. MaxSessions
      BY <2>1, NextSession, Zenon
    <2>3. watched = {}
      BY <2>1 DEF IInv, StoppedIsEmpty
    <2> QED BY <1>1, <2>1, <2>2, <2>3
  <1>4. CASE WatchTty \/ WatchHci
    <2>1. /\ UNCHANGED <<session, open, hci>> /\ open
          /\ binder' \in {"watch hci", "complete"}
      BY <1>4 DEF WatchTty, WatchHci
    <2>2. PICK fd \in Fds : Watch(fd) /\ fd[2] = session
      BY <1>4, BinderWatches
    <2>3. \A f \in watched' : f[2] = session'
      BY <2>1, <2>2 DEF Watch
    <2> QED BY <1>1, <2>1, <2>3
  <1>5. CASE Complete
    BY <1>1, <1>5 DEF Complete, watcherVars
  <1>6. CASE Close
    <2>1. /\ UNCHANGED <<session, open, hci, watched>> /\ open /\ binder' = "close"
          /\ ~running' /\ client' \in {"idle", "notify"}
      BY <1>6 DEF Close, Stop, IInv, TypeOK
    <2> QED BY <1>1, <2>1
  <1>7. CASE FinishClose
    <2>1. /\ UNCHANGED <<session, watched, client, running>> /\ ~open' /\ binder' = "idle"
          /\ open' \in BOOLEAN /\ client = "idle" /\ ~running
      BY <1>7 DEF FinishClose, WatcherStopped, watcherVars
    <2> QED BY <1>1, <2>1
  <1>8. CASE WatcherCall
    <2>1. UNCHANGED <<session, open, hci, binder>> /\ client # "idle"
      BY <1>8 DEF WatcherCall, halVars, ClientStep, tryStartThread, notifyThread, Join,
             Terminate, Clear
    <2>2. watched' \subseteq watched
      BY <1>8 DEF WatcherCall, ClientStep, tryStartThread, notifyThread, Join,
             Terminate, Clear, Cleared
    <2>3. running' = running \/ client = "start"
      BY <1>8 DEF WatcherCall, ClientStep, tryStartThread, notifyThread, Join,
             Terminate, Clear
    <2>4. client' # "start" /\ client' # "poke"
      BY <1>8 DEF WatcherCall, ClientStep, tryStartThread, notifyThread, Join,
             Terminate, Clear
    <2>5. open
      BY <2>1
    <2>6. WatchesSession'
      BY <2>1, <2>2
    <2>7. ClosingIsStopping'
      BY <2>1, <2>3, <2>4
    <2> QED BY <1>1, <2>1, <2>5, <2>6, <2>7
  <1>9. CASE Receive
    BY <1>1, <1>9 DEF Receive, watcherVars
  <1>10. CASE WatcherThread
    <2>1. UNCHANGED <<session, open, hci, binder>>
      BY <1>10 DEF WatcherThread, OnTty, OnHci, halVars
    <2>2. UNCHANGED <<running, watched, client>>
      BY <1>10 DEF WatcherThread, OnTty, OnHci, Loop, Select, Save, Call
    <2> QED BY <1>1, <2>1, <2>2
  <1> QED BY <1>2, <1>3, <1>4, <1>5, <1>6, <1>7, <1>8, <1>9, <1>10 DEF Next, Binder

LEMMA HciInductive == Spec => [](IInv /\ HalInv)
  <1>1. IInv /\ HalInv /\ [Next]_vars => IInv' /\ HalInv'
    BY StepsOfWatcher, StepIInv, StepHalInv
  <1> QED BY InitHalInv, <1>1, PTL DEF Spec

-----------------------------------------------------------------------------
(* Whatever the HAL does is a behaviour of the fd watcher alone, so that     *)
(* what the watcher promises its callers holds in the HAL.                   *)
THEOREM UsesWatcher == Spec => WatcherSpec
  <1>1. Init => WatcherInit
    BY DEF Init
  <1>2. IInv /\ HalInv /\ [Next]_vars => [WatcherNext]_watcherVars
    BY StepsOfWatcher
  <1> QED BY <1>1, <1>2, HciInductive, PTL DEF Spec, WatcherSpec

(* In the HAL too there is never a second thread, no callback runs and       *)
(* nothing is watched once close has stopped the watcher, and only watched   *)
(* descriptors are called for, in every session.                             *)
THEOREM WatcherKeepsPromises ==
    Spec => []StartsOneThread /\ []StopIsFinal /\ []CallsOnlyWatched
  BY UsesWatcher, OneThread, Stopped, NeverCallsUnwatched, PTL

(* The tty's and the packetizer's callbacks run only while the session they  *)
(* were made for is open: close waits for the thread and forgets the         *)
(* descriptors before the tty is closed and hci_ deleted, however the        *)
(* controller's bytes, the thread and the calls interleave.                  *)
THEOREM CallbacksOfOpenSession == Spec => []CallsOnOpenSession
  <1>1. IInv /\ HalInv => CallsOnOpenSession
    BY CallbackOpen
  <1> QED BY <1>1, HciInductive, PTL

(* No step reads or writes the socket pair of a session that is over, so the *)
(* packetizer never gets a byte of an earlier session.                       *)
THEOREM OldBytesLeftAlone == Spec => OldBytesStay
  <1>1. IInv /\ HalInv /\ [Next]_vars
          => [\A s \in Sessions : s # session => shim'[s] = shim[s]]_vars
    BY OldBytesStep
  <1> QED BY <1>1, HciInductive, PTL DEF Spec, OldBytesStay
=============================================================================
