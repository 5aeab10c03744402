--------------------------------- MODULE Camd ---------------------------------
(***************************************************************************)
(* The dash camera daemon, camd/camd.c.  Its main thread runs ffmpeg, which *)
(* cuts the recording into files of a minute, and runs it again whenever it *)
(* ends; the reaper deletes old files when less than a tenth of the disk is *)
(* free; the time watcher kills ffmpeg when the clock jumps, so that the    *)
(* names of the files follow the new time.                                  *)
(*                                                                          *)
(* Files are numbered as they are written, a minute each; their modification *)
(* times are those of the wall clock, which may be set back.  The front      *)
(* camera is configured: without it the two other threads are not started.  *)
(***************************************************************************)
EXTENDS Integers, FiniteSets

CONSTANTS
    Jumps,          \* sizes of clock jumps, in seconds
    MaxJumps,       \* bound: jumps
    Room,           \* files that leave a tenth of the disk free
    MaxFiles,       \* bound: files ever written
    MaxErrors       \* bound: calls of scandir, statvfs and unlink that fail

ASSUME CamdAssumption ==
    /\ Jumps \subseteq Int
    /\ MaxJumps \in Nat
    /\ Room \in Nat
    /\ MaxFiles \in Nat
    /\ MaxErrors \in Nat

VARIABLES
    main, skipsleep,        \* where the main thread is; the flag of timewatch
    present,                \* every configured camera is plugged in
    ffmpeg,                 \* ffmpeg runs
    written,                \* how many files were ever written
    mtime,                  \* st_mtime of those in /oem
    open,                   \* ffmpeg has the last of them open
    reaper, namelist,       \* where reap is; the files to visit, and their st_mtime
    watch, far,             \* where timewatch is; the clock jumped too far
    wall, drift, jumps,     \* clock jumps in all and since timewatch read it; how many
    errors,                 \* calls that have failed
    \* history
    stale,                  \* ffmpeg runs on a clock found to be old
    spared,                 \* files whose unlink failed
    backs                   \* how many files there were when the clock was set back

recorder == <<main, skipsleep, ffmpeg>>
disk == <<written, mtime, open, spared>>
reap == <<reaper, namelist>>
clock == <<watch, far, wall, drift, jumps, backs>>
camdVars == <<present, recorder, disk, reap, clock, errors, stale>>

files == DOMAIN mtime

Without(names, f) == [g \in DOMAIN names \ {f} |-> names[g]]
Empty == [f \in {} |-> 0]

CamdInit ==
    /\ main = "top"
    /\ skipsleep = 0
    /\ present \in BOOLEAN
    /\ ffmpeg = FALSE
    /\ written = 0
    /\ mtime = Empty
    /\ open = FALSE
    /\ reaper = "asleep"
    /\ namelist = Empty
    /\ watch = "read"
    /\ far = FALSE
    /\ wall = 0
    /\ drift = -10     \* the first reading follows at once
    /\ jumps = 0
    /\ errors = 0
    /\ stale = FALSE
    /\ spared = {} /\ backs = {}

Fails == errors < MaxErrors /\ errors' = errors + 1

-----------------------------------------------------------------------------
(* The main thread *)

Top ==
    /\ main = "top"
    /\ main' = "scan"
    /\ skipsleep' = 0
    /\ UNCHANGED <<present, ffmpeg, disk, reap, clock, errors, stale>>

Exits == "exit"
AfterMiss == "slept?"

(* A scandir that fails finds no device and sets no list; the list freed then *)
(* is unset or was freed before, which may end the process.                  *)
Scan ==
    /\ main = "scan"
    /\ \/ main' = (IF present THEN "start" ELSE AfterMiss) /\ UNCHANGED errors
       \/ main' \in {AfterMiss, "gone"} /\ Fails
    /\ UNCHANGED <<present, skipsleep, ffmpeg, disk, reap, clock, stale>>

Start ==
    /\ main = "start"
    /\ main' = "system"
    /\ ffmpeg' = TRUE
    /\ UNCHANGED <<present, skipsleep, disk, reap, clock, errors, stale>>

Stopped ==
    /\ ffmpeg' = FALSE
    /\ open' = FALSE
    /\ stale' = FALSE

(* ffmpeg ends by itself: a camera is unplugged, the disk is full, ... *)
End ==
    /\ ffmpeg
    /\ Stopped
    /\ UNCHANGED <<present, main, skipsleep, written, mtime, spared, reap, clock, errors>>

SystemReturns == ~ffmpeg

Ended ==
    /\ main = "system"
    /\ SystemReturns
    /\ main' = "slept?"
    /\ UNCHANGED <<present, skipsleep, ffmpeg, disk, reap, clock, errors, stale>>

Sleep ==
    /\ main = "slept?"
    /\ main' = IF skipsleep = 1 THEN "top" ELSE "sleep"
    /\ UNCHANGED <<present, skipsleep, ffmpeg, disk, reap, clock, errors, stale>>

Wake ==
    /\ main = "sleep"
    /\ main' = "top"
    /\ UNCHANGED <<present, skipsleep, ffmpeg, disk, reap, clock, errors, stale>>

Main == Top \/ Scan \/ Start \/ Ended \/ Sleep \/ Wake

Plug ==
    /\ present' = ~present
    /\ UNCHANGED <<recorder, disk, reap, clock, errors, stale>>

Write ==
    /\ ffmpeg
    /\ written < MaxFiles
    /\ written' = written + 1
    /\ mtime' = [f \in files \union {written'} |->
                    IF f = written' THEN 60 * f + wall ELSE mtime[f]]
    /\ open' = TRUE
    /\ UNCHANGED <<present, recorder, spared, reap, clock, errors, stale>>

-----------------------------------------------------------------------------
(* The reaper *)

TooFull == Cardinality(files) > Room

(* checkfree() < 10: a statvfs that fails gives -1 and counts as too full.     *)
LooksFull == \/ TooFull /\ UNCHANGED errors
             \/ Fails

ReapScan ==
    /\ reaper = "asleep"
    /\ LooksFull
    /\ reaper' = "reaping"
    /\ namelist' = mtime
    /\ UNCHANGED <<present, recorder, disk, clock, stale>>

(* The list is sorted by st_mtime; equal ones may come in any order.         *)
NewestOf(names) == {f \in DOMAIN names : \A g \in DOMAIN names : names[g] <= names[f]}
NextReaped(names) == {f \in DOMAIN names : \A g \in DOMAIN names : names[f] <= names[g]}

(* An unlink that fails (and a statvfs before it, or not) is logged, and the  *)
(* next file's turn comes.                                                   *)
Unlink ==
    /\ reaper = "reaping"
    /\ \E f \in NextReaped(namelist) :
          /\ namelist' = Without(namelist, f)
          /\ \/ LooksFull /\ mtime' = Without(mtime, f) /\ UNCHANGED spared
             \/ Fails /\ spared' = spared \union {f} /\ UNCHANGED mtime
    /\ UNCHANGED <<present, recorder, written, open, reaper, clock, stale>>

(* The variable a: once there is room, the rest of the list is only freed.   *)
ReapDone ==
    /\ reaper = "reaping"
    /\ DOMAIN namelist = {} \/ ~TooFull
    /\ reaper' = "asleep"
    /\ namelist' = Empty
    /\ UNCHANGED <<present, recorder, disk, clock, errors, stale>>

Reaper == main # "gone" /\ (ReapScan \/ Unlink \/ ReapDone)

-----------------------------------------------------------------------------
(* The time watcher.  Ten seconds lie between two readings. *)

(* The file that is being written gets its modification time from the new    *)
(* clock.                                                                    *)
Jump ==
    /\ jumps < MaxJumps
    /\ jumps' = jumps + 1
    /\ \E j \in Jumps :
          /\ drift' = drift + j
          /\ wall' = wall + j
          /\ mtime' = [f \in files |-> IF open /\ f = written THEN mtime[f] + j ELSE mtime[f]]
          /\ backs' = IF j < 0 THEN backs \union {written} ELSE backs
    /\ UNCHANGED <<present, recorder, written, open, spared, reap, watch, far,
                   errors, stale>>

TooFarForward(diff) == diff > 60
TooFar(diff) == diff > 60 \/ diff < -50

ReadClock ==
    /\ watch = "read"
    /\ watch' = "sleep"
    /\ far' = TooFar(10 + drift)
    /\ drift' = 0
    /\ stale' = (stale \/ (ffmpeg /\ (drift > 50 \/ drift < -60)))
    /\ UNCHANGED <<present, recorder, disk, reap, wall, jumps, backs, errors>>

Compare ==
    /\ watch = "sleep"
    /\ IF far
          THEN watch' = "kill" /\ skipsleep' = 1
          ELSE watch' = "read" /\ UNCHANGED skipsleep
    /\ UNCHANGED <<present, main, ffmpeg, disk, reap, far, wall, drift, jumps,
                   backs, errors, stale>>

Kill ==
    /\ watch = "kill"
    /\ watch' = "read"
    /\ Stopped
    /\ UNCHANGED <<present, main, skipsleep, written, mtime, spared, reap, far, wall,
                   drift, jumps, backs, errors>>

Watcher == main # "gone" /\ (ReadClock \/ Compare \/ Kill)

-----------------------------------------------------------------------------
CamdNext == Main \/ End \/ Plug \/ Write \/ Reaper \/ Jump \/ Watcher

CamdSpec == CamdInit /\ [][CamdNext]_camdVars

(* The three threads run on: none waits for another except in system, which  *)
(* returns when ffmpeg ends.                                                 *)
CamdLiveSpec ==
    CamdSpec /\ WF_camdVars(Main) /\ WF_camdVars(Reaper) /\ WF_camdVars(Watcher)

-----------------------------------------------------------------------------
(* The reaper never deletes a file while one written before it is left,        *)
(* although new files appear while it works through its list (reap): unless  *)
(* the older one could not be deleted, or the clock was set back after it was *)
(* begun and before the younger one was done, and with it the time the list  *)
(* is sorted by.                                                             *)
SetBack(g, f) == \E b \in backs : g <= b /\ b <= f

OldestFirst ==
    [][\A f \in files \ files' : \A g \in files' :
          f < g \/ g \in spared \/ SetBack(g, f)]_camdVars

(* In this order it makes room again on a disk that is too full, whatever      *)
(* ffmpeg writes meanwhile and although some calls fail.                     *)
MakesRoom ==
    /\ OldestFirst
    /\ TooFull ~> (~TooFull \/ main = "gone")

(* A recording that runs on a clock found to have jumped is ended (timewatch). *)
StaleKilled == stale ~> ~stale

(* As long as the cameras are plugged in, recording starts again, whoever    *)
(* ended it, unless the process has freed a list it does not have.           *)
RecordsAgain == ~ffmpeg ~> (ffmpeg \/ ~present \/ main = "gone")
===============================================================================
