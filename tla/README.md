# TLA+ models of the HiKey 960 car device

This directory specifies the concurrent parts of the repository's own programs:
HALs and daemons that the Android framework, the kernel's device files and the
attached hardware drive from several threads at once. The modules are translated
from the code; TLC checks them on small instances. Every invariant
and action property that a passing run checks, and the refinement, is also proved with TLAPS,
for every value of the parameters, as far as section 5 says; liveness is left to TLC.

- [1. The system](#1-the-system)
- [2. The modules](#2-the-modules)
- [3. What each run checks](#3-what-each-run-checks)
- [4. Fairness](#4-fairness)
- [5. Proofs](#5-proofs)
- [6. Where the code does not do what it says](#6-where-the-code-does-not-do-what-it-says)
- [7. What is not modelled](#7-what-is-not-modelled)
- [8. Plan](#8-plan)

## 1. The system

The repository is an Android device tree. Most of its files are configuration,
firmware, overlays and the ARM Mali allocator. The programs with logic of their own
are listed here with their state, their operations, what makes them hard, and what
has to hold of them.

| Part | State it keeps | Operations | Interacts through |
|---|---|---|---|
| `power/power_hikey.c` | `low_power_mode`, `deboost_time`, the semaphore `signal_lock`, two boost descriptors; in sysfs the schedtune boost, the ddr and gpu floors, the cluster limits | `powerHint` (interaction, low power), `setInteractive`, the deboost thread | module lock, semaphore, sysfs |
| `bluetooth/async_fd_watcher.cc` | `running_`, the map of watched descriptors, the pipe, the thread | watch, set a timeout, stop; the thread's `select` loop | a pipe, `internal_mutex_`, `join` |
| `bluetooth/bluetooth_hci.cc` | the tty, a socket pair per session, `hci_` | `initialize`, `close`, `send*` | the watcher's callbacks |
| `bluetooth/h4_protocol.cc`, `hci_packetizer.cc` | two nested state machines over a byte stream | `OnDataReady`, `OnPacketReady` | the socket pair |
| `broadcastradio/Tuner.cpp` | the configuration, the current program, the remembered selector, the worker's queue | configure, scan, step, tune, cancel, `forceClose` | `mMut`, a worker thread with delays |
| `broadcastradio/BroadcastRadio.cpp`, `dmhd1000/` | per tuner a port, a listener thread and its flag; the process's descriptors | `openTuner`, `activate`, `close`, the listener's loop | one tty, numbers of descriptors |
| `swid/swid.c` | last temperature and fan speed; the backlight socket | temperature loop, backlight thread, key loop | a Unix socket, the serial line |
| `liblight/lights.c` | `lastHID`, `hid_fd` | `set_light_backlight` | `g_lock`, hidraw, swid's socket |
| `camd/camd.c` | `skipsleep`, the directory of recordings | the recorder loop, `reap`, `timewatch` | ffmpeg, the disk, the clock, signals |
| `gps/gps.c` | `init`, the descriptors, the thread's `started`, the fix being gathered | init, start, stop, cleanup, the thread | a control socket, a tty, `epoll` |
| `usbaudio/audio_hal.c` | the streams with their locks and standby, the card, the call's four pcms, `sco_thread`, `terminate_sco`, `line_in`; in the card's mixer the radio's switch | open, write/read, standby, close; call on and off, volumes, radio, mute; `runsco` | device lock, stream locks, `mixer_lock`, ALSA devices |
| `ublox_gps_hal/gps_thread.cpp`, `supl/suplSMmanager.cpp`, `ubx_*If.cpp` | `clientCount`, `gpsState`, `m_publishCount`, the last status, the SUPL handlers and their states, the port | start, stop, cleanup, position mode, network initiation, the user's answer; the main loop | a pipe of commands, `CNiIf::sem`, sockets, a tty |
| `audio/audio_hw.c` | one output stream | open, write, standby, position | two locks per call |
| `wpan/uim/uim.c` | line discipline | the handshake with the chip | sysfs, tty |

The lights HAL and swid meet in the backlight socket, the Bluetooth HAL and its watcher
in callbacks, Tuner and the HD radio driver in `openTuner`. The other parts share
nothing but the kernel.

What is hard to test, and what the properties are for:

- **Wake-ups.** A semaphore posted only for the first of several hints (power), a
  pipe that has to wake a `select` (watcher), a call in
  `runsco` that only a flag ends (audio), bytes of a control socket taken between
  reads of a device (gps).
- **State used after it may have changed.** Steps of a tuner decided at the request and
  computed in the task; unlocked `low_power_mode` in `setInteractive`; descriptors
  that another port owns by the time they are closed.
- **Counting.** Starts and stops of the framework and of the network's sessions meet in one
  `clientCount`, and the right to tell positions in another count (u-blox).
- **Undoing.** A call opens four devices one after another; every failure undoes its own part.
- **Ends.** `stopThread`, `forceClose`, `close` and `cleanup` run while the thread they
  end is in the middle of something.
- **Byte streams.** Packets, frames and sentences cut anywhere.
- **Dying partners.** swid dying with connections in its socket, ffmpeg killed or unplugged
  cameras, a receiver or a screen pulled out.
- **Failed calls.** A pipe or a port that cannot be made, a file that cannot be deleted, a
  screen that misses a write: the code mostly logs and goes on, and the models with it.
- **Time.** File times of a clock that is set back, dates and time zones that change
  between two sentences, timeouts that every message renews.
- **Bounds.** A listen queue of two, overlapping fan tables, a disk that fills.

PROJECT.json lists each hazard at its line with the properties that watch it.

## 2. The modules

Names of variables and operators are the code's where TLA+ allows it. Variables under
`\* history` do not exist in the code; they record what a property needs. A critical
section is one action unless something else can be seen between two of its effects.
`Init`, `Next`, `Spec` and `vars` carry a prefix in the modules that share a
proof module with another (`FanSpec`, `PortSpec`, `CamdSpec`, `WatcherSpec`).
Every definition that models code is mapped to its lines in PROJECT.json; small
definitions such as `Posted`, `Deadline` or `Cleared` name the expression of the code on
which a property hinges. Next to some of them stands the same definition with a
plausible mistake in it (`PostedNever`, `NotCleared`, ...), used by nothing: put in its
place, it makes a property fail, which shows that the property depends on that line.

### PowerHal - `power/power_hikey.c`

`HintInteraction` is `powerHint(INTERACTION)`: the boostpulse file is tried first and
opened on demand, and `schedtune_boost` follows when that fails. `HintLowPower` and
`SetInteractive` begin a call of `hikey_cpufreq_set_interactive`, whose loads of
`low_power_mode` and writes to the clusters (`LoadFreq`, `StoreFreq`,
`StoreIoIsBusy`) are separate actions, since the two callers do not exclude each other:
the hint holds the module lock across them, `setInteractive` takes none.
`ThreadWait`, `ThreadSleep`, `ThreadWake`, `ThreadDeboost` are the deboost thread.
Time is a counter; `BoostTime` the boost's length in ticks.

### AsyncFdWatcher, BluetoothHci, MCBluetoothHci - `bluetooth/`

`AsyncFdWatcher` has an action for each stretch of the client's functions between two
points where the thread can interfere (`Watch`, `tryStartThread`, `Stop`,
`notifyThread`, `Join`, `Clear`) and the thread's loop (`Loop`, `Select`, `Save`, `Call`).
`Select` takes the set of descriptors that are readable as a parameter: in the
specification of the watcher alone (`WatcherSpec`, which the proofs are about) any set, in
`BluetoothHci` those with bytes. `BluetoothHci` extends the watcher, adds the tty
and a socket pair per session, and drives `initialize` and `close` through the watcher's
own actions; its callbacks move bytes from tty to socket (`OnTty`) and from the socket to
the packetizer (`OnHci`). Callers of the HAL are serialised, as the HIDL service's are, and
taken to close a session before they initialize the next. `pipe2` may fail in
`tryStartThread`: `running_` is then set without a thread, and the stop of such a watcher joins a
thread that was never started, which ends the process (`Terminate`).

### PacketStream, H4Protocol, MCH4Protocol - the receiving path

`PacketStream` is the abstract specification: packets come out as they went in, once,
whole, in order and under their type. `H4Protocol` is the code: a type byte, a
preamble whose size depends on the type, and a payload whose length is in it, each read
giving what has arrived and no more than was asked. `DeliversPackets` states that it
implements `PacketStream`, with the packets sent and not delivered as `pending`.

### Tuner, MCTuner - `broadcastradio/Tuner.cpp`

A request is one action under `mMut` that answers and schedules; the worker takes what
is due (`Take`) and then runs it under `mMut` (`RunConfig`, `RunScan`, `RunStep`,
`RunTune`). The worker itself is a library class and modelled from its use. `tune`
reads the band in one critical section and goes on in another (`TuneReadsBand`,
`TuneGoesOn`). Delays are in units of 50 ms. Frequencies are small integers.

### RadioPort - `BroadcastRadio::openTuner` and `dmhd1000/`

`openTuner` closes the previous tuner and opens the next, one step at a time
(`StopReading`, `MarkClosed`, `ClosePort`, `Activate`). Each `Listener` loops:
test `keepReading`, enter `hdreadbytes` (which re-opens the port if it finds it closed),
wait for the first byte of a frame, then its length, then the rest, decode. A frame is three
symbols, of which the line may lose any end (`Torn`). Bytes of a length or of data may be a 0xa4:
a listener out of step takes them for a start, reads a false length and swallows what
follows, until a pause ends the read, the checksum is wrong (`FalseEnds`), or right by chance
(`misread`). An `open` that fails leaves a port that counts as open without a descriptor, on which
the listener spins. The old tuner's close is left out when nobody holds `mTuner` any more. The
kernel's part is modelled: the lowest free descriptor is given out, a byte goes to whichever
read takes it, a blocked read keeps the tty open.

### FanControl, MCFanControl - the temperature loop of `swid.c`

`temp_read` is one turn: the two tables (`increasing`, `decreasing`), the choice between
them by the temperature at the last change of speed, and the change.

### Backlight - `liblight/lights.c` and the backlight thread of `swid.c`

`SetLight` is a call: lock, cached write to the USB screen, `connect` (which waits while
the listen queue is full and fails while swid is down), write, close. `bl_read` accepts,
reads bytes and sees the end. `Die` and `Restart` are swid's; its service is `oneshot`
(`init.common.rc:111`), so nothing obliges anybody to restart it. A screen is plugged in and pulled out
at any time (`PlugIn`, `PullOut`) and comes up with a brightness of its own; `openhid` finds
the one that is there, and keeps the descriptor when it has gone, to which `writehid`
then writes in vain. `FailsOnScreen` is an open or a write that fails on a screen that is there. The
cache `lastHID` is set in all these cases.

### Camd, MCCamd - `camd/camd.c`

`Main` is the recorder's loop around `system("ffmpeg ...")`; `Reaper` scans the directory
and unlinks one file at a time while the disk is too full; `Watcher` reads the clock,
compares and kills. Files are numbered as they are written and keep the `st_mtime` of the wall
clock, by which the reaper sorts; `Jump` moves that clock, and with it the time of the file
that is being written. The disk is the number of files. `scandir`, `statvfs` and `unlink` may
fail (`Fails`): with the first, `main` may free a list it does not have, which ends
the process ("gone"); a `statvfs` that fails counts as a disk too full; after an `unlink`
that fails the next file's turn comes.

### GpsSerial - `gps/gps.c`

`serial_gps_init`, `_start`, `_stop` and `_cleanup` write into the control socket; the
thread hears commands, sees the tty hang up, and reads sentences until a read would block.
`serial_gps_init` may fail at each of its steps, and a `Done` without a thread may join one that
was joined before (`Undefined`).
`nmea_reader_parse` is modelled by the fields each sentence sets and flags; a location's time
is computed as in the code, by `mktime` in the time zone of the moment and `utc_diff`, which
the thread takes once, at its start (`Begins`, `update_utc_diff`), while `Move` changes the zone
from `Home`. The reader lives on the thread's stack and goes with it (`Returns`). The
receiver tells RMC, VTG, GGA and GSA once an epoch, with or without a fix; a line that is full
loses sentences (`Full`). The power
functions are `power-stub.c`'s and do nothing. The thread that spins on a tty that has hung up
is shown by having no step: its reads of 0 bytes change nothing.

### UsbAudio - `usbaudio/audio_hal.c`

A stream is `closed`, `idle`, in the middle of a transfer, or locked by the `runsco` that puts
it in standby; `owner` says who has each of the four ALSA devices open, since a device can be
opened once. `runsco` is followed step by step: a pass over the playback streams, the card's
playback side with its retries, the same for recording, the two sides of the Bluetooth link,
the set-up, the loop, and the close. Every opening may fail, and what each early return closes
is `OpenedBy`; closing a pcm that is not open, or using a closed one, sets `crashed`.
The hands-free client's and the audio service's requests are followed from lock to lock, with
`mixer_lock`, which stays locked when the mixer cannot be opened. `Overlap` allows a call to be
enabled before the thread of the last has ended: the code does not prevent it, and the finding
in section 6 is what it leads to; the passing run and `DevicesSafe` are about clients that leave
time between two calls.

### UbloxGps - `ublox_gps_hal/`

The main thread's loop is broken up into what it does on a pass: a command from the pipe
(`handleCmdInput` with `engineStart` and `engineStop`), each session's turn
(`suplCheckPendingActions`), a session's socket (`suplReadUplSock`), the port
(`connectReceiver`, `LosePort`) and the shutdown of the receiver. While the loop waits for
the user's answer (`Waits`) none of these happens. The framework sends commands through the
pipe and, on a thread of its own, brings a network initiation: the session is inserted in one
step and its start is asked for in a later one. A session's state is that of `suplSM`; messages
are left out and what they decide is a choice among the state's exits. The timeout that a state
sets when it is entered, or renews when a message is answered at once in RRLP, is `due` when
its time has come (`TimePasses`), and its session's next turn ends it (`TimedOut`). `GoesSilent` is a
server that has answered and says no more. Positions come from the receiver (`Commit`, while
`m_publishCount` is not 0) and from a server's SUPLEND (`ReceivePosition`, which calls
`location_cb` whatever the count is); `unasked` records which of the two the framework was told
when it had not started, or when its stop had been handled.

The model is of the code with `SUPL_ENABLED`, which `Android.mk:26` has commented out; without it
there are no sessions and every first start raises the publish count, which is the part of the
model's behaviours in which none is begun.
The bound `EarlyBound` stops network initiations after one has ended before
its start was asked for: the stop then overtakes the start and the count stays one too
high (section 6).

## 3. What each run checks

| Run | Module, configuration | Bounds | States |
|---|---|---|---|
| `power` | PowerHal, MCPowerHal | boost of 2 ticks, 5 ticks, 2 clusters, one with a low limit | 696 000 |
| `hci` | MCBluetoothHci | 2 sessions, 3 bytes | 9 300 |
| `h4_stream` | MCH4Protocol | 3 packets of 4 kinds, length bytes of one bit | 9 900 |
| `tuner` | MCTuner | 2 tasks queued, 2 configurations, cancel allowed | 689 000 |
| `radio_port` | RadioPort, MCRadioPort | 2 tuners, 3 frames, whole or torn | 490 000 |
| `fan` | MCFanControl | a reading on, below and between all thresholds | 930 |
| `camd` | MCCamd | 4 files, room for 1, 1 clock jump of 3 sizes, 1 failed call | 549 000 |
| `backlight` | Backlight, MCBacklight | 2 threads, 3 calls, 1 death of swid, 2 screens, 1 failed write | 687 000 |
| `gps` | GpsSerial, MCGpsSerial | 4 calls, 2 epochs over midnight, a time zone that changes once, 1 sentence in the tty | 935 000 |
| `audio` | UsbAudio, MCUsbAudio | a stream each way, 2 tries for the card; calls without number | 77 300 |
| `ublox` | UbloxGps, MCUbloxGps | 2 modes, 1 command in the pipe | 715 000 |
| `audio_again` | UsbAudio, MCUsbAudio_again | a playback stream, 2 threads | violation |

**power.** `BoostNeverOrphaned`, `BoostEnds`: no interleaving of hints and thread leaves
the device boosted without a wake-up on the way, and every boost ends.
`BoostLasts`: the thread does not end a
boost that a touch has prolonged while it slept. `DevfreqFollows`: the memory and gpu
floors go with the cpu boost although their branch depends on `low_power_mode`, which
changes in between. `SettledFreq`: an update that overlapped with no other puts right
whatever mix overlapping ones left. Two ticks of boost let hints fall before, in and
after the thread's sleep; five let a second boost follow; two clusters are the least
with a write between two loads.

**hci.** `StartsOneThread`, `StopIsFinal`, `CallsOnlyWatched`, `StopReturns`: what the HAL
relies on when it stops and restarts the watcher, and that stopping a watcher that has a
thread never waits for data.
`CallsOnOpenSession`, `OldBytesStay`: nothing of one session reaches another.
`LaterBytesReachPacketizer`: no byte stays behind (see section 6 for those during
`initialize`). Two sessions are enough for old bytes and old callbacks to meet a new one.

**h4_stream.** `DeliversPackets` (the refinement), `AllDelivered`: every packet with a payload
arrives however the stream is cut, and only a packet without one
fails the packetizer's `CHECK`. Length bytes of one bit make a two-byte ACL length need
its high byte with a payload of two; three packets put every kind after every other.

**tuner.** `CloseDropsWork`: after `forceClose` at most the task already taken runs.
`StepStaysInBand`: the band a step wraps at is that of its task, whatever was configured
since it was asked for. `ConfigApplied`: a configuration answered OK comes into force unless
the tuner is closed or a cancel dropped it. Two tasks in the queue and one in
flight are the least with an order and a race; the delays keep their proportions.

**radio_port.** `LeavesLittle`: what listeners that outlive their tuner may do, in frames and in
descriptors. `FirstProcessed`: a frame that comes whole to the first tuner while its listener
is in step with the stream is followed by one it decodes, whatever the line loses afterwards. A
listener that is out of step may lose frames as long as it finds false starts, and the
property says nothing of it. Two tuners are the least with a closed one; three frames are a torn one
between two others.

**fan.** `SpeedFits`: the speed is between the tables whatever the temperature did before;
`Settles`: a steady temperature leaves it alone from the third reading on. A temperature
that wobbles where the tables overlap changes the speed at every reading: so the code is.

**camd.** `MakesRoom`: the reaper works through a list that grows behind it and deletes in the order
of writing (`OldestFirst`), except that it goes on behind a file it could not delete and that files
written since the clock was set back may go before older ones (`SetBack`, the hazard of sorting by
`st_mtime`); and the disk gets room again. This assumes that files come no faster than one turn of
the reaper deletes (one per minute in the code), for which `MaxFiles` stands. `StaleKilled`: jumps
around the first that count (+51, -61) end the recording. `RecordsAgain`: it starts again, whoever
ended it, unless the process has ended. The jump of -60 makes a file as old as the one before it,
that of -61 older.

**backlight.** `HidShowsLast`, `LastWins`: both screens follow the order of the
calls (`LcdAdvances`, also across a death of swid), and the last value arrives through a queue of
two. The USB screen may show something else in three cases, which the property names: nothing
else was asked for since it was plugged in, or since it missed a value (the cache then keeps
the write from being made), or `hid_fd` is of a screen that is gone. Two screens and one failed write
let each of them happen; levels 100 and 105 are one step of the screen, 255 another.

**gps.** `CleanupEnds`: cleanup returns, unless the tty hung up under the reading thread or the
thread it joins was joined before, and then nothing is left that would use a descriptor a later
init reuses. `LastCommandHeard`: commands take effect in order.
`FixOfItsDay`: GGA, which has no date, gets that of the last RMC: its location is
never of the future, and right if its own epoch's RMC was heard, around midnight, after days
without a fix and after lost sentences. It is about locations after a first RMC (before, the
date is the system's) and with a `utc_diff` that is the time zone's. `PositionsAdvance`: a position is
told once and after the older ones, and in its own epoch unless sentences were lost. Four calls
are a session, its cleanup and a second init, or a start, a stop and a cleanup of one session.
Days of two epochs, counted from 0, put midnight between epochs 1 and 2; the zones are an
epoch apart, so the local day differs from UTC's, and the zone may change under a session.

**audio.** `PcmsSound`: whichever of a call's steps fails, each pcm is closed once and a thread that
has ended holds none. `CallGetsCard`: when `runsco` opens the card no stream is in its way,
although `out_write` looks at `sco_thread` under another lock than its setter's.
`RadioFollows`: with two clients setting one switch from two variables, the later
state wins. `DisableEndsCall`, `RequestsReturn`: calls end and nobody waits for ever for any of
the four kinds of lock, unless the mixer could not be opened. One stream each way
already meets `runsco` at every point of a transfer; two tries let a retry follow a failure.

**ublox.** `CountFollowsClients`: the starts and stops of the framework and of network
sessions, which may end in any state and by any timeout, pair up.
`StatusFollowsFramework`: the status hides sessions from a framework that has not started,
and shows the receiver to one that has. `PublishOnlyWhenAsked`: the receiver's positions are not told
after a stop; a server's are told at any time, which the model has and the property
leaves out. `ReceiverStops`: the port may be lost at any time, also during a stop.
`SessionsEnd`: no state waits for ever for a server, the network or the user. A server
that goes on sending what is answered at once, or later, renews the timeout each time and keeps its
session (`Renewed`); from the moment it is silent the session ends.
A caller adds its command only to an empty pipe; ends of sessions add theirs in any case, so a
stop and a start still meet there in either order. "ms assisted" has all the states of a session, the
timed answer among them; "ms based" differs from the two modes only in when it publishes, as
"standalone" does.

**audio_again.** Section 6.

Deadlock is checked where the programs never stop; the other configurations switch it
off because the bounded environment (calls, bytes, frames, files) runs out, or, in `audio`,
because a crash or a kept lock is the end.

## 4. Fairness

No specification obliges anybody to call, send, touch or plug in. Assumed is only that threads which
can run do: weak fairness of the clock and of a call that has begun, of the watcher's and the
listeners' threads (not of a `select` or `read` with nothing to read: those actions are not
enabled), of the worker and the daemons' threads (camd's as long as the process is there). Nobody
has to start swid again. In `RadioPort` fairness is conditional on `openTuner` having begun; in
`Backlight` on the call having the lock; in `GpsSerial` the return of `pthread_join` on its being
defined; in `UbloxGps` the coming of a timeout on no message renewing it, since one that is renewed
again and again never comes. Strong fairness is used where a lock is free again and again but not
for good:

- of the deboost thread, which competes for the module lock with hints that hold it for a few
  writes;
- of a stream's own steps and of `runsco`'s visits: `stream_lock` takes `pre_lock` first, so
  that a waiting thread comes before the next transfer of a stream that plays without a pause,
  and the device lock is held for short times;
- of each SUPL session's turn, which the main loop comes to on every pass, except while it waits
  for the user; the framework answers that itself after its timeout.

## 5. Proofs

Eight modules hold the theorems. Each follows the same lines: an inductive invariant, whose
conjuncts are named; lemmas that the initial states satisfy it and that a step preserves it, one
per action or group of actions; and theorems that draw the checked properties from it
with PTL. The premises are the named ASSUMEs of the modules, which TLC evaluates in the runs; the
bounds of the runs are parameters like any other and play no part.

| Module | Theorem | Property of a run |
|---|---|---|
| PowerHalProofs | `NeverOrphaned`, `DevfreqNeverLeft`, `NeverCutShort`, `FreqSettles` | `BoostNeverOrphaned`, `DevfreqFollows`, `BoostLasts`, `SettledFreq` |
| | `TypeCorrect`, `SemaphoreNeverPiles` | |
| BluetoothHciProofs | `OneThread`, `Stopped`, `NeverCallsUnwatched` | `StartsOneThread`, `StopIsFinal`, `CallsOnlyWatched` |
| | `CallbacksOfOpenSession`, `OldBytesLeftAlone` | `CallsOnOpenSession`, `OldBytesStay` |
| | `UsesWatcher`, `TypeCorrect` | |
| | `WatcherKeepsPromises` | `StopIsFinal`, of the watcher in the HAL |
| H4ProtocolProofs | `ImplementsPacketStream` | `DeliversPackets` |
| | `Invariance`, `CheckFailsOfEmptyPacket` | |
| RadioProofs | `ClosedTunerFallsSilent`, `StepsInsideBand` | `CloseDropsWork`, `StepStaysInBand` |
| | `ClosedTunersLeaveLittle` | `LeavesLittle` |
| | `Invariance`, `TypesOfTuner`, `EarliestFirst`, `TwoDescriptorsEach` | |
| DaemonProofs | `FanFits`, `FanSettles` | `SpeedFits`, `Settles` |
| | `ScreenFollowsCalls`, `LcdFollowsCalls` | `HidShowsLast`, first part of `LastWins` |
| | `ReapsOldestFirst` | first part of `MakesRoom` |
| | `TypeCorrect` | |
| GpsSerialProofs | `RightDay` | `FixOfItsDay` |
| | `PositionsMoveOn` | first part of `PositionsAdvance` |
| UsbAudioProofs | `DevicesSafe`, `CardFree`, `RadioSafe` | `PcmsSound`, `CallGetsCard`, `RadioFollows` |
| | `TypeCorrect` | |
| UbloxGpsProofs | `CountsItsClients`, `StatusIsTheFrameworks` | `CountFollowsClients`, `StatusFollowsFramework` |
| | `PublishesWhenAsked`, `NeverLeftRunning` | `PublishOnlyWhenAsked`, `ReceiverStops` |
| | `TypeCorrect` | |

Modules about parts of one daemon or one HAL share a proof module although they share no state:
each theorem is about one specification and the other's variables do not occur in it.

- **PowerHalProofs.** None of the properties is inductive. The argument counts wake-ups
  (`WakeupsCounted`): the one the thread is serving plus those in the semaphore are at most one
  without a deadline and one or two with one, so a post can be omitted while a deadline is set; and
  `BoostHasDeadline` ties the deadline to the last hint. For the frequencies `FreqInProgress` says
  that a lone update has already put right every cluster behind it, which needs that its
  `low_power_mode` cannot change under it.
- **BluetoothHciProofs.** First the watcher, for any set of descriptors and any serial client.
  `ThreadLives` relates `running_` and the call under way to whether a thread exists,
  `SavedWhileCalling` bounds the life of saved callbacks, and `StoppedIsEmpty` the map's. Then the
  HAL, for any number of sessions and bytes. `UsesWatcher` shows that each of its steps is a step of
  the watcher or leaves it alone, so that all of the above holds of the watcher in the HAL. From
  that and `HalInv` (a closed HAL has stopped the watcher; every watched descriptor is of the
  present session; an open one has its packetizer) follow the two properties of sessions. `HalInv`
  alone is not inductive: that nothing of the last session is still watched or saved when the next
  one opens is what the watcher's invariant says of a stopped one.
- **H4ProtocolProofs.** For every radix, all packets that hold their own length, and any portions.
  The invariant has to compare what is left in the socket with everything sent, and the
  concatenation of a sequence of sequences is a recursive definition. `NothingLost` says instead
  that there are one sequence `all` and positions `pos` with each packet at its position, of which
  the controller's and the socket's bytes are the end and the packetizer's the part before it
  (`Receiving`). Then every step of the code is one of `PacketStream` or a stutter.
- **RadioProofs.** Tuner: the queue is entered in the middle, so the lemmas about `Inserted` come
  first; `TunerInv` types the tasks by their kind, says that a step was scheduled under a
  configuration, which no step takes away, and that a closed tuner has at most the one task in
  flight. `DueInOrder` (the queue is sorted by delay) gives `EarliestFirst`. RadioPort: for any
  number of tuners. Closed tuners may each leave a descriptor; `OneLeakEach` counts those that
  nobody holds against the tuners that can no longer open one (`Spent`), which needs that a listener
  re-opens at most once (`ReopenedOnce`) and decodes at most one frame more (`OneMore`).
  `TwoDescriptorsEach` shows that the model's bound on descriptors is none: the lowest free one
  always exists.
- **DaemonProofs.** The fan: lemmas about the two tables (`Tables`, `Monotone`). The lights: the
  calls in the queue of the socket, in swid and in front of the lock are in order, and the one that
  has the lock is ahead of all (`InOrder`, `AheadOfAll`), for any number of threads, deaths and
  screens; `CacheFollows` says what the screen shows, in terms of the call that last reached it and
  of the one that it missed. camd: what is in the directory and not in the reaper's list was written
  later than all in it or could not be deleted (`ListIsOlder`), and files written in this order have
  times in this order, unless the clock was set back between them (`UpToNow`); so the first by time
  is the first by writing, up to the two exceptions of `OldestFirst`.
- **GpsSerialProofs.** For days of any length, any time zones and any number of epochs. Sentences
  are numbered, and what is in the tty is in order and all newer than what was read (`Ordered`); a
  position still untold is newer than all that were told (`Newer`). The reader's day is that of the
  last RMC with a date and not after any sentence to come (`Dated`); the time of the location being
  gathered, and of the last told, is that of some epoch not after it, of the day of the RMC by which
  it was dated (`FixTimed`, `ToldTimed`), provided the shift recorded with it, `utc_diff` less the
  zone, was 0. The premise of `FixOfItsDay` is about the moment at which the time was computed, so
  the shift is carried along with the location: the zone may have changed since.
- **UsbAudioProofs.** For any sets of streams and of threads and any number of tries. `RadioSafe`
  and `CardFree` hold also when calls overlap; `DevicesSafe` is for clients whose calls do not. That
  a close never meets a pcm that is not open follows from the state of each field being what the one
  live thread's place in `runsco` says, which is false as soon as two threads share the fields,
  hence the premise. `CardFree` needs that a stream which the present thread has visited stays in
  standby (`VisitedQuiet`) and that a `runsco` has a stream's lock only in a pass, for a stream it
  has still to visit (`LocksInPass`).
- **UbloxGpsProofs.** For any modes and pipes of any length. `ReceiverStops` is inductive once the
  pipe is known to hold only the four commands. The others need `Agreement`: between the engine's
  count and what the callers want lie the commands in the pipe. It says that there is a history of
  client sets `on`, one per command, from the one the engine has counted to the one wanted (`Path`),
  in which no stop is handled without its start; the count is the size of the first set and the
  publish count at most its share of the framework. `CountFollowsClients` and
  `StatusFollowsFramework` follow from it. A position of the receiver is told only at a publish
  count above 0, and `Agreement` then says that the framework has started or its stop is in the
  pipe, which is `PublishOnlyWhenAsked`. It is stated for behaviours in which neither of the two
  things of section 6 happened (`Sound`), like the properties.

Constants are assumed to be what the code has: `H4Assumption` says that every packet is as long
as its header says; `TunerAssumption` that a configuration is of one of the two bands, with limits in
Nat in their order and a spacing that is not 0, and that frequencies asked for are in Nat; and
`AudioAssumption` that names of streams, of threads and of a stream's states differ.

Only model-checked: all liveness, for which TLAPS has no practical way to ENABLED and fairness here,
the second parts of `MakesRoom` and `LastWins` included; and the second part of `PositionsAdvance`.
The liveness properties are `BoostEnds`, `StopReturns`, `LaterBytesReachPacketizer`, `AllDelivered`,
`ConfigApplied`, `FirstProcessed`, `MakesRoom`, `StaleKilled`, `RecordsAgain`, `LastWins`,
`CleanupEnds`, `LastCommandHeard`, `DisableEndsCall`, `RequestsReturn` and `SessionsEnd`.

## 6. Where the code does not do what it says

Shown by a run:

- **`DisableEndsCall` (audio_again).** `audio_hal.c:1761` says of `terminate_sco` "this will cause
  the thread to exit the main loop and terminate." The disable forgets the thread without
  joining it; an enable that follows before the thread has looked at the flag sets it back
  (line 1755), and the old `runsco` goes on beside the new one, with the same four fields.

Kept in the models as the code has them, without a property of their own:

- `power_hikey.c:436` rewrites the limits as if the screen were on, though the comment at line 356
  lowers the maximum "when screen is off".
- `async_fd_watcher.cc:82` adds a descriptor without waking a thread that is in `select`: bytes that
  pass the tty during `initialize` stay in the socket until more come. `LaterBytesReachPacketizer`
  states what is left.
- `async_fd_watcher.cc:74` returns with `running_` set when `pipe2` fails, and nobody looks at the
  result: `initialize` reports success and the next stop joins a thread that was never started
  (`Terminate`). The pipes of earlier starts are not closed, so descriptors do run out.
- `hci_packetizer.cc:75` fails its CHECK on a packet of length 0 (`AllDelivered` says so).
- `Tuner.cpp:263` remembers a selector before checking it, so the next configuration tunes to one
  that was refused; `Tuner.cpp:230` steps from `mCurrentProgram`, which only a configuration sets,
  so a second step repeats the first.
- `hdlinuxio.cpp:281` re-opens the port inside a close and loses a descriptor (`LeakBounded`).
- `hdcontrol.cpp:100` starts the listener "to make sure the output of the device is processed". The
  listener of a closed tuner ends with `closeport` (`hdlisten.cpp:84`) on a descriptor number that
  the next tuner's port may have been given meanwhile; the new tuner then hears nothing.
  `FirstProcessed` is therefore about the first tuner.
- `hdlinuxio.cpp:193` leaves the port open without a descriptor when `open` fails, and the listener
  spins on it without looking at `keepReading` again. A listener that begins inside a frame may take
  a 0xa4 of its data for a start (line 287) and swallow the frames that follow.
- `Tuner.cpp:219` answers a step from the configuration of its request, and the task steps in that
  of its own moment: `StepStaysInBand` is about the band it ends in.
- `swid.c:239` decides rising from falling by the reading of the last change, and the tables overlap
  by a notch, so a temperature that wobbles there moves the fan at every reading. `Settles` is about
  a steady one.
- `gps.c:770` tells "the thread to quit, and wait for it". When the receiver is unplugged while the
  thread reads, `read` returns 0 for ever, the inner loop (line 922) never ends, and cleanup's
  `pthread_join` does not return. `CleanupEnds` excludes this, and the join of a handle that was
  joined before (line 774), which is undefined: a cleanup after an init that could not open the
  device comes to it.
- `gps.c:329` makes a time with the zone of the moment and a `utc_diff` of the thread's start, which
  counts 365 days for every year (line 256): after a change of the zone, or when started at the turn
  of a leap year, every location of the session is off. `FixOfItsDay` is about the others. The epoll
  descriptor of each thread (line 860) is never closed.
- `audio_hal.c:1279` and its like return with `mixer_lock` held when the mixer cannot be opened, in
  `adev_set_mic_mute` with the device lock held as well. `runsco` walks the stream lists (line 1404)
  without the lock that guards them, and a `runsco` that fails leaves `sco_thread` set, so writes do
  nothing until the call is disabled; one whose link breaks clears it, so the disable does nothing
  and the radio stays off (`stale`).
- `gps_thread.h:63` calls `clientCount` "the framework + number of NI sessions active". A network
  session that ends between its insertion and its request to start sends its stop first, which is
  lost at 0 (`early`); and `cleanup` sends a stop more than there were starts (`cleaned`).
- `suplSMmanager.cpp:75` allows five instances and says that for more than one "the position publish
  to framework control mechanism needs to be made smarter", which it was not. The end of an MS
  assisted session raises the publish count also after the framework's stop (`assisted`).
- A framework that starts while a network session runs does not raise the publish count
  (`gps_thread.cpp:199` returns to the second client early), so it is told no positions.
- `gps_thread.cpp:423` stops a receiver whose port was lost even if the engine is started.
- An answer of the framework for a notification that is no longer there leaves `CNiIf::sem` posted
  (`ubx_niIf.cpp:96`), and `CGpsIf::init` waits without a predicate (`ubx_moduleIf.cpp:195`); both
  are outside the model, which starts after init and has the framework answer once.
- `camd.c:212` clears `skipsleep` between the watcher's assignment and its kill, and the restart
  that line 94 calls immediate comes after ten seconds; `RecordsAgain` promises a restart and not
  when. `camd.c:289` frees a list that a failed `scandir` has not set, and the service is `oneshot`
  (`init.common.rc:117`), so recording then ends for good. `camd.c:33` sorts by `st_mtime`, so files
  written after the clock was set back are deleted before older ones, as is the next file after an
  `unlink` that fails (line 74); a `statvfs` that fails counts as a full disk (line 51).
- `lights.c:233` sets `lastHID` whether or not a screen took the value, and `hid_fd` is kept when
  its screen is gone: a new screen, or one that missed a write, keeps its brightness until another
  is asked for, or for good. `lights.c:190` returns without closing its socket when swid is not
  there.
- `suplSMmanager.cpp:1477` tells the position of a SUPLEND to the framework whatever
  `m_publishCount` is. `suplSMmanager.cpp:1427` renews the timeout with every message, so a server
  that goes on talking keeps its session, and for a network's session the engine, for ever.

## 7. What is not modelled

The models cover the programs whose control is worth a model; that is a small share of the
repository's lines. Of the 99 000 lines of implementation some 57 000 are code generated by asn1c
from the SUPL and RRLP standards (`ublox_gps_hal/supl/asn1c_header`), and most of the rest are
ARM's allocators, tables, headers and applications of two screens. There is no state in a
generated decoder to check, and modelling encodings bit by bit would restate them.

- Data: parsing of sysfs and NMEA numbers, the values in radio frames, command lines, audio samples,
  pixel formats. Where a conversion matters (the brightness byte, the length bytes of a packet, the
  date of a location) it is modelled by what it does.
- `hci_protocol.cc` and `H4Protocol::Send`: two blocking writes whose failure nobody looks at.
- In `bluetooth_hci.cc:74`, that the socket of a session may be full: the thread that writes is the
  only reader, but the socket holds far more than the driver hands over at once.
- In `usbaudio/`, volumes, rates and formats, `dump`, the echo canceller, and a stream closed while
  `runsco` walks the lists.
- In `ublox_gps_hal/`, the receiver's protocol and configuration, aiding data and its download, the
  AGPS and RIL interfaces beyond their answers, the thread's start, and the test port
  (`UDP_SERVER_PORT`).
- `audio/audio_hw.c` (one stream behind one lock, but for a position query that reads `out->pcm`
  without it, line 309) and `wpan/uim/uim.c` (one thread and blocking calls).
- In `gps.c`, the satellite list, a sentence put together of two halves, and overlong lines (the
  line feed that ends one can be the character that overflows, which costs the next sentence as
  well).
- In `swid.c`, the keys; in `dmhd1000/`, command encoding and the decoded values.
- Data races on C++ containers (`async_fd_watcher.cc:120` iterates a map another thread inserts
  into): the model shows the map before or after the insertion.
- `gralloc/`, `gralloc960/`: vendor allocators whose correctness is the kernel's and the GPU's view
  of a buffer. `libmemtrack`, `sensorhal`, `hifi`, `bluetooth_car`, `carconfig`: no state worth a
  model. Firmware, boot loaders, installers, policies, overlays: no programs.

## 8. Plan

Done, in this order, the most shared state first: PowerHal and its proofs; AsyncFdWatcher,
BluetoothHci (composes it) and H4Protocol against PacketStream; Tuner and RadioPort;
FanControl, Backlight (composes lights and swid) and Camd; GpsSerial; UsbAudio and UbloxGps with
their proofs; the proofs of all the others.

What would come next: the composition of Tuner with RadioPort, so that a task that survives
`forceClose` meets the port; swid's keys; the u-blox thread's init and its receiver's
acknowledgements. Theorems: safety parts of the liveness properties, such as that a thread
of camd never waits for another, or that a u-blox session that is not in `none` always has a timeout
or a turn ahead of it.
