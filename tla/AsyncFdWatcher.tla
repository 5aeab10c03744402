--------------------------- MODULE AsyncFdWatcher ---------------------------
(***************************************************************************)
(* bluetooth/async_fd_watcher.cc: one thread that selects on a set of file  *)
(* descriptors and calls a callback for each one ready.  Its calls are      *)
(* serialised (the service has one binder thread) and interleave with the   *)
(* watcher's own thread at the points where the code takes or drops a lock. *)
(*                                                                          *)
(* The thread iterates watched_fds_ without internal_mutex_, so an insert   *)
(* may race with it: the set it selects on may or may not have the new      *)
(* descriptor, which is what an insert before or after Loop gives.          *)
(***************************************************************************)
EXTENDS Naturals

CONSTANTS
    Fds,        \* the descriptors the program may watch
    MaxPokes    \* bound of the unread bytes in the notification pipe

ASSUME WatcherAssumption == MaxPokes \in Nat \ {0}

VARIABLES
    running,      \* running_
    watched,      \* the keys of watched_fds_
    notified,     \* bytes in the notification pipe
    timeout_ms,   \* timeout_ms_ > 0; no constructor initialises it
    timeout_cb,   \* timeout_cb_ is set
    thread,       \* "none", "loop", "select", "save", "call" or "exited"
    read_fds,     \* the thread's fd_set, then the ones select found ready
    timed,        \* the select in progress has a timeout
    saved,        \* saved_callbacks still to be invoked
    client        \* the API call in progress

threadVars == <<thread, read_fds, timed, saved>>
watcherVars == <<running, watched, notified, timeout_ms, timeout_cb, threadVars,
                 client>>

WatcherInit ==
    /\ running = FALSE
    /\ watched = {}
    /\ notified = 0
    /\ timeout_ms \in BOOLEAN
    /\ timeout_cb = FALSE
    /\ thread = "none"
    /\ read_fds = {}
    /\ timed = FALSE
    /\ saved = {}
    /\ client = "idle"

-----------------------------------------------------------------------------
(* WatchFdForNonBlockingReads *)

Watch(fd) ==
    /\ client = "idle"
    /\ watched' = watched \union {fd}
    /\ client' = "start"
    /\ UNCHANGED <<running, notified, timeout_ms, timeout_cb, threadVars>>

(* A std::thread object may be assigned to only when it is not joinable.     *)
(* pipe2 may fail: running_ stays set then and there is no thread.           *)
tryStartThread ==
    /\ client = "start"
    /\ client' = "idle"
    /\ running' = TRUE
    /\ \/ running /\ UNCHANGED <<notified, thread>>
       \/ ~running /\ notified' = 0 /\ thread' = "loop"
       \/ ~running /\ UNCHANGED <<notified, thread>>
    /\ UNCHANGED <<watched, timeout_ms, timeout_cb, read_fds, timed, saved>>

(* ConfigureTimeout: the write to the pipe does not block.  Nothing in the   *)
(* repository calls it; the proofs cover it.                                 *)
ConfigureTimeout(positive) ==
    /\ client = "idle"
    /\ notified < MaxPokes
    /\ timeout_ms' = positive
    /\ timeout_cb' = TRUE
    /\ client' = "poke"
    /\ UNCHANGED <<running, watched, notified, threadVars>>

(* StopWatchingFileDescriptors: nothing is done when it is not running. *)
Stop ==
    /\ client = "idle"
    /\ IF running
          THEN running' = FALSE /\ client' = "notify"
          ELSE UNCHANGED <<running, client>>
    /\ UNCHANGED <<watched, notified, timeout_ms, timeout_cb, threadVars>>

NotifySkipped == notified
Notified == notified + 1

notifyThread ==
    /\ client \in {"poke", "notify"}
    /\ notified' = Notified
    /\ client' = IF client = "poke" THEN "idle" ELSE "join"
    /\ UNCHANGED <<running, watched, timeout_ms, timeout_cb, threadVars>>

JoinSkipped == TRUE
ThreadEnded == thread = "exited"

Join ==
    /\ client = "join"
    /\ ThreadEnded
    /\ thread' = IF thread = "exited" THEN "none" ELSE thread
    /\ client' = "clear"
    /\ UNCHANGED <<running, watched, notified, timeout_ms, timeout_cb, read_fds,
                   timed, saved>>

(* The join of a thread that was never started ends the process.             *)
Terminate ==
    /\ client = "join"
    /\ thread = "none"
    /\ client' = "terminated"
    /\ UNCHANGED <<running, watched, notified, timeout_ms, timeout_cb, threadVars>>

NotCleared == watched
Cleared == {}

Clear ==
    /\ client = "clear"
    /\ watched' = Cleared
    /\ timeout_cb' = FALSE
    /\ client' = "idle"
    /\ UNCHANGED <<running, notified, timeout_ms, threadVars>>

-----------------------------------------------------------------------------
(* ThreadRoutine; R is the set of descriptors with data to read.             *)

OldSet == IF read_fds = {} THEN watched ELSE read_fds
FreshSet == watched

Loop ==
    /\ thread = "loop"
    /\ thread' = IF running THEN "select" ELSE "exited"
    /\ read_fds' = IF running THEN FreshSet ELSE {}
    /\ timed' = (running /\ timeout_ms)
    /\ UNCHANGED <<running, watched, notified, timeout_ms, timeout_cb, saved,
                   client>>

PipeReadable == notified > 0

(* A notification is consumed and the descriptors wait for the next turn; a  *)
(* timeout (its callback changes nothing here) also starts the next turn.    *)
Select(R) ==
    /\ thread = "select"
    /\ \/ /\ PipeReadable
          /\ notified' = notified - 1
          /\ thread' = "loop"
          /\ UNCHANGED read_fds
       \/ /\ notified = 0
          /\ read_fds \intersect R # {}
          /\ read_fds' = read_fds \intersect R
          /\ thread' = "save"
          /\ UNCHANGED notified
       \/ /\ timed /\ notified = 0
          /\ read_fds \intersect R = {}
          /\ thread' = "loop"
          /\ UNCHANGED <<notified, read_fds>>
    /\ UNCHANGED <<running, watched, timeout_ms, timeout_cb, timed, saved, client>>

Save ==
    /\ thread = "save"
    /\ saved' = read_fds \intersect watched
    /\ thread' = IF saved' = {} THEN "loop" ELSE "call"
    /\ UNCHANGED <<running, watched, notified, timeout_ms, timeout_cb, read_fds,
                   timed, client>>

Call(fd) ==
    /\ thread = "call"
    /\ fd \in saved
    /\ saved' = saved \ {fd}
    /\ thread' = IF saved' = {} THEN "loop" ELSE "call"
    /\ UNCHANGED <<running, watched, notified, timeout_ms, timeout_cb, read_fds,
                   timed, client>>

-----------------------------------------------------------------------------
Client ==
    \/ \E fd \in Fds : Watch(fd)
    \/ \E positive \in BOOLEAN : ConfigureTimeout(positive)
    \/ Stop

ClientStep == tryStartThread \/ notifyThread \/ Join \/ Terminate \/ Clear

Thread(R) == Loop \/ Select(R) \/ Save \/ \E fd \in Fds : Call(fd)

WatcherNext == Client \/ ClientStep \/ \E R \in SUBSET Fds : Thread(R)

WatcherSpec == WatcherInit /\ [][WatcherNext]_watcherVars

-----------------------------------------------------------------------------
(* The types of the watcher's variables. *)
TypeOK ==
    /\ running \in BOOLEAN
    /\ watched \subseteq Fds
    /\ notified \in Nat
    /\ timeout_ms \in BOOLEAN
    /\ timeout_cb \in BOOLEAN
    /\ thread \in {"none", "loop", "select", "save", "call", "exited"}
    /\ read_fds \subseteq Fds
    /\ timed \in BOOLEAN
    /\ saved \subseteq Fds
    /\ client \in {"idle", "start", "poke", "notify", "join", "clear", "terminated"}

(* tryStartThread never assigns to the std::thread of a thread that has not  *)
(* been joined, which would terminate the process.                           *)
StartsOneThread == client = "start" /\ ~running => thread = "none"

(* Once StopWatchingFileDescriptors has returned no callback runs and no     *)
(* descriptor is left for the next start to watch.                           *)
StopIsFinal ==
    client = "idle" /\ ~running => thread = "none" /\ saved = {} /\ watched = {}

(* A callback is invoked only for a descriptor that is watched, also while a *)
(* stop is under way: the thread is joined before the map is cleared.        *)
CallsOnlyWatched == saved \subseteq watched

(* A stop of a watcher that has a thread returns: the byte in the pipe wakes *)
(* the thread out of its select.  One whose pipe could not be made has none, *)
(* and a stop of it ends in Terminate.                                       *)
StopReturns == (client = "notify" /\ thread # "none") ~> (client = "idle")
=============================================================================
