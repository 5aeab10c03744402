------------------------------ MODULE UsbAudio ------------------------------
(***************************************************************************)
(* usbaudio/audio_hal.c: streams that play to and record from a USB card,   *)
(* a thread (runsco) that takes the card over for a hands-free call, and    *)
(* the requests that start and stop calls and set the card's mixer.         *)
(*                                                                          *)
(* A stream's transfers, its standby and its close come from one thread of  *)
(* the framework.  Requests come from two: the hands-free client, whose     *)
(* requests are serialised (so sco_thread_lock is never contended), and the *)
(* audio service.  Samples, rates, formats and the echo canceller are left  *)
(* out, and so is the order of the stream lists.                            *)
(***************************************************************************)
EXTENDS Naturals

CONSTANTS
    OutStreams,   \* the playback streams the framework may open
    InStreams,    \* the recording streams
    Slots,        \* the threads that may run runsco at one time
    MaxTries,     \* how often runsco tries to open the card (10)
    Overlap,      \* a call may be enabled before the thread of the last has ended
    None

Streams == OutStreams \union InStreams
Devices == {"near out", "near in", "far out", "far in"}

ASSUME AudioAssumption ==
    /\ OutStreams \intersect InStreams = {}
    /\ Streams \intersect Slots = {}
    /\ None \notin Streams \union Slots \union {"audio", "failed"}
    /\ "audio" \notin Streams
    /\ Slots \intersect {"failed", "closed", "idle", "start", "transfer", "unlisted"} = {}
    /\ MaxTries \in Nat \ {0}
    /\ Overlap \in BOOLEAN

VARIABLES
    doing,         \* what each stream's thread is in, or the runsco that holds its lock
    standby,       \* stream->standby
    device,        \* who holds adev->lock
    usbcard,       \* adev->usbcard >= 0, and the profiles know their card
    owner,         \* who has each ALSA device open; it can be opened once
    sco_pcm,       \* adev->sco_pcm_*: the opener's, "failed" or None (0 or closed)
    sco_thread,    \* adev->sco_thread, or None
    terminate_sco,
    thread,        \* where each runsco is
    visited,       \* the streams it has put in standby on this pass
    tries,         \* i
    hfp, audio,    \* what each of the two clients is in
    mixer_lock,    \* held for ever after a mixer that could not be opened
    line_in,       \* adev->line_in: the radio is asked for
    line_switch,   \* the mixer's "Line Playback Switch"
    stale,         \* history: it could not be set, or a call ended by itself, since
    crashed        \* history: a closed pcm was used, and the process died of it

streamVars == <<doing, standby, usbcard>>
scoVars == <<thread, visited, tries>>
pcmVars == <<owner, sco_pcm, crashed>>
mixerVars == <<mixer_lock, line_switch, stale>>
clientVars == <<hfp, audio, line_in>>
callVars == <<sco_thread, terminate_sco>>
vars == <<streamVars, device, scoVars, pcmVars, mixerVars, clientVars, callVars>>

Init ==
    /\ doing = [s \in Streams |-> "closed"]
    /\ standby = [s \in Streams |-> TRUE]
    /\ device = None
    /\ usbcard = FALSE
    /\ owner = [d \in Devices |-> None]
    /\ sco_pcm = [d \in Devices |-> None]
    /\ sco_thread = None
    /\ terminate_sco = FALSE
    /\ thread = [t \in Slots |-> "none"]
    /\ visited = [t \in Slots |-> {}]
    /\ tries = [t \in Slots |-> 0]
    /\ hfp = "idle" /\ audio = "idle"
    /\ mixer_lock = FALSE
    /\ line_in = FALSE
    /\ line_switch = FALSE
    /\ stale = FALSE
    /\ crashed = FALSE

DeviceOf(s) == IF s \in OutStreams THEN "near out" ELSE "near in"

-----------------------------------------------------------------------------
(* Streams.  A stream is in its list from the end of its opening until it is *)
(* closed: listed stands for output_stream_list and input_stream_list.       *)
listed == {s \in Streams : doing[s] \in {"idle", "start", "transfer"} \union Slots}

(* A stream is opened under the device lock, which is held while the card is *)
(* looked for (up to five seconds).  An input stream without a card is       *)
(* refused; an output stream is not.  A card that was found stays known:     *)
(* when it is unplugged its devices and its mixer can no longer be opened.   *)
OpenStream(s) ==
    /\ doing[s] = "closed"
    /\ device = None
    /\ usbcard' \in {usbcard, TRUE}
    /\ s \in InStreams => usbcard'
    /\ standby' = [standby EXCEPT ![s] = TRUE]
    /\ doing' = [doing EXCEPT ![s] = "idle"]
    /\ UNCHANGED device

(* out_set_parameters, in_set_parameters: the card is looked for again.      *)
SetStreamParameters(s) ==
    /\ doing[s] = "idle"
    /\ device = None
    /\ usbcard' = TRUE
    /\ UNCHANGED <<doing, standby, device>>

(* out_write, in_read: nothing is done while there is a call.  From here the *)
(* stream's lock is held until the stream is idle again.                     *)
CallUnseen == TRUE
NoCall == sco_thread = None

BeginTransfer(s) ==
    /\ doing[s] = "idle"
    /\ NoCall
    /\ doing' = [doing EXCEPT ![s] = IF standby[s] THEN "start" ELSE "transfer"]
    /\ UNCHANGED <<standby, usbcard, device>>

EndTransfer(s) ==
    /\ doing[s] = "transfer"
    /\ doing' = [doing EXCEPT ![s] = "idle"]
    /\ UNCHANGED <<standby, usbcard, device>>

(* start_output_stream, start_input_stream: proxy_open, with both locks.     *)
StartStream(s) ==
    /\ doing[s] = "start"
    /\ device = None
    /\ \/ /\ owner[DeviceOf(s)] = None
          /\ usbcard
          /\ owner' = [owner EXCEPT ![DeviceOf(s)] = s]
          /\ standby' = [standby EXCEPT ![s] = FALSE]
          /\ doing' = [doing EXCEPT ![s] = "transfer"]
       \/ /\ doing' = [doing EXCEPT ![s] = "idle"]
          /\ UNCHANGED <<owner, standby>>
    /\ UNCHANGED <<usbcard, device, sco_pcm, crashed>>

(* out_standby, in_standby: the device lock only if the pcm is open.         *)
PutInStandby(s) ==
    /\ standby[s] \/ device = None
    /\ standby' = [standby EXCEPT ![s] = TRUE]
    /\ owner' = IF standby[s] THEN owner ELSE [owner EXCEPT ![DeviceOf(s)] = None]
    /\ UNCHANGED <<sco_pcm, crashed>>

Standby(s) ==
    /\ doing[s] = "idle"
    /\ PutInStandby(s)
    /\ UNCHANGED <<doing, usbcard, device>>

(* Closing a stream takes it from its list, puts it in standby and frees it. *)
(* runsco walks the lists without the device lock; the model leaves out a    *)
(* close while it does, after which runsco may touch the freed stream.       *)
Walking == \E t \in Slots : thread[t] \in {"outs", "ins"}

RemoveFromList(s) ==
    /\ doing[s] = "idle"
    /\ device = None
    /\ ~Walking
    /\ doing' = [doing EXCEPT ![s] = "unlisted"]
    /\ UNCHANGED <<standby, usbcard, device>>

FreeStream(s) ==
    /\ doing[s] = "unlisted"
    /\ PutInStandby(s)
    /\ doing' = [doing EXCEPT ![s] = "closed"]
    /\ UNCHANGED <<usbcard, device>>

StreamGoesOn(s) ==
    /\ ~crashed
    /\ \/ EndTransfer(s) /\ UNCHANGED pcmVars
       \/ StartStream(s)
       \/ FreeStream(s)
    /\ UNCHANGED <<scoVars, mixerVars, clientVars, callVars>>

StreamCall(s) ==
    /\ ~crashed
    /\ \/ /\ \/ OpenStream(s) \/ SetStreamParameters(s)
             \/ BeginTransfer(s) \/ RemoveFromList(s)
          /\ UNCHANGED pcmVars
       \/ Standby(s)
    /\ UNCHANGED <<scoVars, mixerVars, clientVars, callVars>>

-----------------------------------------------------------------------------
(* runsco: every listed stream is put in standby, then the card is opened,   *)
(* first for playback and then for recording.                                *)
Pass(pc) == IF pc = "outs" THEN OutStreams ELSE InStreams
CardOf(pc) == IF pc = "outs" THEN "near out" ELSE "near in"
After(pc) == IF pc = "outs" THEN "ins" ELSE "far in"
InPass(t) == thread[t] \in {"outs", "ins"}

Visited(t, s) == visited' = [visited EXCEPT ![t] = @ \union {s}]

(* A stream that is open is kept locked until the device lock is free.       *)
Visit(t, s) ==
    /\ InPass(t)
    /\ s \in (listed \intersect Pass(thread[t])) \ visited[t]
    /\ doing[s] = "idle"
    /\ IF standby[s]
          THEN Visited(t, s) /\ UNCHANGED doing
          ELSE doing' = [doing EXCEPT ![s] = t] /\ UNCHANGED visited
    /\ UNCHANGED <<pcmVars, standby>>

FinishVisit(t, s) ==
    /\ doing[s] = t
    /\ PutInStandby(s)
    /\ Visited(t, s)
    /\ doing' = [doing EXCEPT ![s] = "idle"]

PassDone(t) == listed \intersect Pass(thread[t]) \subseteq visited[t]

(* pcm_open overwrites the field.  It gives a pcm that is ready, or one that *)
(* failed: the device is in use, or there is no card.                        *)
Open(t, d) ==
    /\ owner[d] = None
    /\ owner' = [owner EXCEPT ![d] = t]
    /\ sco_pcm' = [sco_pcm EXCEPT ![d] = t]
    /\ UNCHANGED crashed

(* pcm_close of the fields D, of which those in F hold a pcm that failed.    *)
(* Closing one that is closed already, or 0, is undefined.                   *)
CloseFields(D, F) ==
    /\ owner' = [d \in Devices |->
                    IF d \in D \ F /\ sco_pcm[d] \in Slots THEN None ELSE owner[d]]
    /\ sco_pcm' = [d \in Devices |-> IF d \in D THEN None ELSE sco_pcm[d]]
    /\ crashed' = \E d \in D \ F : sco_pcm[d] = None

OpenCard(t) ==
    /\ InPass(t)
    /\ PassDone(t)
    /\ usbcard
    /\ Open(t, CardOf(thread[t]))
    /\ thread' = [thread EXCEPT ![t] = After(@)]
    /\ visited' = [visited EXCEPT ![t] = {}]
    /\ tries' = [tries EXCEPT ![t] = 0]
    /\ UNCHANGED <<streamVars, device, callVars>>

RetryCard(t) ==
    /\ InPass(t)
    /\ PassDone(t)
    /\ tries[t] + 1 < MaxTries
    /\ tries' = [tries EXCEPT ![t] = @ + 1]
    /\ visited' = [visited EXCEPT ![t] = {}]
    /\ sco_pcm' = [sco_pcm EXCEPT ![CardOf(thread[t])] = "failed"]
    /\ UNCHANGED <<thread, owner, crashed, streamVars, device, callVars>>

(* runsco returns early, without a change to sco_thread.                     *)
Return(t) ==
    /\ thread' = [thread EXCEPT ![t] = "none"]
    /\ visited' = [visited EXCEPT ![t] = {}]
    /\ tries' = [tries EXCEPT ![t] = 0]
    /\ UNCHANGED <<streamVars, device, callVars>>

OpenedLast(pc) == IF pc \in {"outs", "ins"} THEN {CardOf(pc)} ELSE Devices
OpenedBy(pc) == CASE pc = "outs" -> {"near out"}
                  [] pc = "ins" -> {"near out", "near in"}
                  [] pc = "far in" -> {"near out", "near in", "far in"}
                  [] OTHER -> Devices

GiveUpCard(t) ==
    /\ InPass(t)
    /\ PassDone(t)
    /\ tries[t] + 1 = MaxTries
    /\ CloseFields(OpenedBy(thread[t]), {CardOf(thread[t])})
    /\ Return(t)

(* The two directions of the Bluetooth link, "far", are tried once.          *)
OpenFar(t) ==
    /\ thread[t] \in {"far in", "far out"}
    /\ Open(t, thread[t])
    /\ thread' = [thread EXCEPT ![t] = IF @ = "far in" THEN "far out" ELSE "setup"]
    /\ UNCHANGED <<visited, tries, streamVars, device, callVars>>

GiveUpFar(t) ==
    /\ thread[t] \in {"far in", "far out"}
    /\ CloseFields(OpenedBy(thread[t]), {thread[t]})
    /\ Return(t)

(* Frame buffers and resamplers, which may fail.                             *)
Setup(t) ==
    /\ thread[t] = "setup"
    /\ thread' = [thread EXCEPT ![t] = "loop"]
    /\ UNCHANGED <<visited, tries, pcmVars, streamVars, device, callVars>>

GiveUpSetup(t) ==
    /\ thread[t] = "setup"
    /\ CloseFields(Devices, {})
    /\ Return(t)

(* The loop goes on until terminate_sco is seen or the link cannot be read.  *)
(* An iteration that uses a closed pcm may kill the process.                 *)
LeaveLoop(t) ==
    /\ thread[t] = "loop"
    /\ thread' = [thread EXCEPT ![t] = "close"]
    /\ UNCHANGED <<visited, tries, pcmVars, streamVars, device, callVars>>

SeeOwnEnd(t) == terminate_sco /\ sco_thread = t /\ LeaveLoop(t)
SeeTerminate(t) == terminate_sco /\ LeaveLoop(t)
ReadFails(t) == ~terminate_sco /\ LeaveLoop(t)

UseClosed(t) ==
    /\ thread[t] = "loop"
    /\ \E d \in Devices : sco_pcm[d] = None
    /\ crashed' = TRUE
    /\ UNCHANGED <<scoVars, owner, sco_pcm, streamVars, device, callVars>>

CloseAll(t) ==
    /\ thread[t] = "close"
    /\ CloseFields(Devices, {})
    /\ thread' = [thread EXCEPT ![t] = "forget"]
    /\ UNCHANGED <<visited, tries, streamVars, device, callVars>>

(* A call that ends by itself leaves the mixer as the call had set it.       *)
Forget(t) ==
    /\ thread[t] = "forget"
    /\ sco_thread' = None
    /\ thread' = [thread EXCEPT ![t] = "none"]
    /\ stale' = (stale \/ sco_thread # None)
    /\ UNCHANGED <<terminate_sco, visited, tries, pcmVars, streamVars, device,
                   mixer_lock, line_switch>>

ScoGoesOn(t) ==
    /\ ~crashed
    /\ \/ /\ \/ OpenCard(t) \/ RetryCard(t) \/ GiveUpCard(t)
             \/ OpenFar(t) \/ GiveUpFar(t) \/ Setup(t) \/ GiveUpSetup(t)
             \/ SeeTerminate(t) \/ CloseAll(t)
          /\ UNCHANGED mixerVars
       \/ Forget(t)
    /\ UNCHANGED clientVars

ScoVisits(t, s) ==
    /\ ~crashed
    /\ Visit(t, s) \/ FinishVisit(t, s)
    /\ UNCHANGED <<thread, tries, usbcard, device, callVars, mixerVars, clientVars>>

ScoMay(t) ==
    /\ ~crashed
    /\ ReadFails(t) \/ UseClosed(t)
    /\ UNCHANGED <<mixerVars, clientVars>>

-----------------------------------------------------------------------------
(* The mixer.  Without a card nothing is done.  A mixer that cannot be       *)
(* opened is a return with mixer_lock held.                                  *)
WithMixer(Done, Lost) ==
    \/ ~usbcard /\ Lost /\ UNCHANGED mixer_lock
    \/ usbcard /\ ~mixer_lock /\ Done /\ UNCHANGED mixer_lock
    \/ usbcard /\ ~mixer_lock /\ Lost /\ mixer_lock' = TRUE

LineAsked == line_in
LineWanted == line_in /\ sco_thread = None

set_line_in ==
    WithMixer(line_switch' = LineWanted /\ stale' = FALSE,
              stale' = TRUE /\ UNCHANGED line_switch)

(* adev_set_master_volume, adev_set_mic_volume, set_hfp_volume and           *)
(* set_radio_volume, for their use of the mixer; their values are left out.  *)
SetVolume ==
    WithMixer(UNCHANGED <<line_switch, stale>>, UNCHANGED <<line_switch, stale>>)

-----------------------------------------------------------------------------
(* The hands-free client's adev_set_parameters.                              *)
Enable ==
    /\ hfp = "idle"
    /\ sco_thread = None
    /\ \E t \in Slots : thread[t] = "none"
    /\ Overlap \/ \A t \in Slots : thread[t] = "none"
    /\ hfp' = "mic"
    /\ UNCHANGED <<audio, line_in, mixerVars, callVars, scoVars>>

SetMic ==
    /\ hfp = "mic"
    /\ SetVolume
    /\ hfp' = "create"
    /\ UNCHANGED <<audio, line_in, callVars, scoVars>>

CreateThread ==
    /\ hfp = "create"
    /\ \E t \in Slots :
          /\ thread[t] = "none"
          /\ thread' = [thread EXCEPT ![t] = "outs"]
          /\ sco_thread' = t
    /\ terminate_sco' = FALSE
    /\ hfp' = "line off"
    /\ UNCHANGED <<audio, line_in, mixerVars, visited, tries>>

CutLine ==
    /\ hfp = "line off"
    /\ set_line_in
    /\ hfp' = "idle"
    /\ UNCHANGED <<audio, line_in, callVars, scoVars>>

Disable ==
    /\ hfp = "idle"
    /\ sco_thread # None
    /\ terminate_sco' = TRUE
    /\ sco_thread' = None
    /\ hfp' = "line on"
    /\ UNCHANGED <<audio, line_in, mixerVars, scoVars>>

RestoreLine ==
    /\ hfp = "line on"
    /\ set_line_in
    /\ hfp' = "restore"
    /\ UNCHANGED <<audio, line_in, callVars, scoVars>>

RestoreVolume ==
    /\ hfp = "restore"
    /\ SetVolume
    /\ hfp' = "idle"
    /\ UNCHANGED <<audio, line_in, callVars, scoVars>>

(* The volume of the call, which the client sets while it has one.           *)
HfpVolume ==
    /\ hfp = "idle" /\ sco_thread # None
    /\ hfp' = "volume"
    /\ UNCHANGED <<audio, line_in, mixerVars, callVars, scoVars>>

SetHfpVolume ==
    /\ hfp = "volume"
    /\ SetVolume
    /\ hfp' = "idle"
    /\ UNCHANGED <<audio, line_in, callVars, scoVars>>

HfpRequest ==
    /\ ~crashed
    /\ Enable \/ Disable \/ HfpVolume
    /\ UNCHANGED <<streamVars, device, pcmVars>>

HfpGoesOn ==
    /\ ~crashed
    /\ SetMic \/ CreateThread \/ CutLine \/ RestoreLine \/ RestoreVolume \/ SetHfpVolume
    /\ UNCHANGED <<streamVars, device, pcmVars>>

-----------------------------------------------------------------------------
(* The audio service: the line input (the radio) and the mute of the         *)
(* microphone, whose volume is set with the device lock held.                *)
LineIn(play) ==
    /\ audio = "idle"
    /\ line_in' = play
    /\ audio' = "line"
    /\ UNCHANGED <<device, mixerVars>>

SetLine ==
    /\ audio = "line"
    /\ set_line_in
    /\ audio' = "idle"
    /\ UNCHANGED <<line_in, device>>

Mute ==
    /\ audio = "idle"
    /\ device = None
    /\ device' = "audio"
    /\ audio' = "mute"
    /\ UNCHANGED <<line_in, mixerVars>>

DeviceKept == device
DeviceReleased == None

FinishMute ==
    /\ audio = "mute"
    /\ SetVolume
    /\ device' = DeviceReleased
    /\ audio' = "idle"
    /\ UNCHANGED line_in

AudioRequest ==
    /\ ~crashed
    /\ \/ \E play \in BOOLEAN : LineIn(play)
       \/ Mute
    /\ UNCHANGED <<hfp, streamVars, pcmVars, scoVars, callVars>>

AudioGoesOn ==
    /\ ~crashed
    /\ SetLine \/ FinishMute
    /\ UNCHANGED <<hfp, streamVars, pcmVars, scoVars, callVars>>

-----------------------------------------------------------------------------
Next ==
    \/ \E s \in Streams : StreamCall(s) \/ StreamGoesOn(s)
    \/ \E t \in Slots : ScoGoesOn(t) \/ ScoMay(t) \/ \E s \in Streams : ScoVisits(t, s)
    \/ HfpRequest \/ HfpGoesOn
    \/ AudioRequest \/ AudioGoesOn

Spec == Init /\ [][Next]_vars

(* Every thread goes on with the call it is in.  A stream's lock and the     *)
(* device lock are free only now and then: stream_lock's pre_lock lets a     *)
(* waiting thread in before the next transfer of a stream that plays without *)
(* a pause, and the device lock is held for short times by few, hence SF.    *)
(* No request has to come and no link has to fail.                           *)
Fairness ==
    /\ \A s \in Streams : SF_vars(StreamGoesOn(s))
    /\ \A t \in Slots : WF_vars(ScoGoesOn(t))
    /\ \A t \in Slots, s \in Streams : SF_vars(ScoVisits(t, s))
    /\ WF_vars(HfpGoesOn)
    /\ WF_vars(AudioGoesOn)

LiveSpec == Spec /\ Fairness

-----------------------------------------------------------------------------
StreamTypes ==
    /\ doing \in [Streams -> {"closed", "idle", "start", "transfer", "unlisted"}
                               \union Slots]
    /\ standby \in [Streams -> BOOLEAN]
    /\ usbcard \in BOOLEAN
ScoTypes ==
    /\ thread \in [Slots -> {"none", "outs", "ins", "far in", "far out", "setup",
                              "loop", "close", "forget"}]
    /\ visited \in [Slots -> SUBSET Streams]
    /\ tries \in [Slots -> 0 .. MaxTries - 1]
PcmTypes ==
    /\ owner \in [Devices -> {None} \union Streams \union Slots]
    /\ sco_pcm \in [Devices -> {None, "failed"} \union Slots]
    /\ crashed \in BOOLEAN
MixerTypes == mixer_lock \in BOOLEAN /\ line_switch \in BOOLEAN /\ stale \in BOOLEAN
ClientTypes ==
    /\ hfp \in {"idle", "mic", "create", "line off", "line on", "restore", "volume"}
    /\ audio \in {"idle", "line", "mute"}
    /\ line_in \in BOOLEAN
CallTypes ==
    /\ sco_thread \in {None} \union Slots
    /\ terminate_sco \in BOOLEAN
    /\ device \in {None, "audio"}

(* The types of the variables. *)
TypeOK ==
    StreamTypes /\ ScoTypes /\ PcmTypes /\ MixerTypes /\ ClientTypes /\ CallTypes

(* Whichever step of the start of a call fails, and however the call ends,   *)
(* no pcm is closed twice or used after its close, and a runsco that has     *)
(* ended holds no device.                                                    *)
PcmsSound ==
    /\ ~crashed
    /\ \A d \in Devices : owner[d] \in Slots => thread[owner[d]] # "none"

(* When runsco opens the card no stream has it, nor can get it: a transfer   *)
(* that saw no call has finished by then and a later one sees the call.      *)
(* It may be taken only by a stream that is being closed, or once the call   *)
(* has been disabled while it starts.                                        *)
CallGetsCard ==
    \A t \in Slots :
        InPass(t) /\ PassDone(t) /\ sco_thread = t =>
            \A s \in Pass(thread[t]) :
                /\ doing[s] \notin {"start", "transfer"}
                /\ owner[DeviceOf(s)] = s => doing[s] = "unlisted"

(* The radio's switch is what was asked for, and off during a call, whatever *)
(* the order of the two clients' requests, unless a call ended by itself or  *)
(* the mixer could not be set since.                                         *)
RadioFollows ==
    hfp = "idle" /\ audio # "line" /\ ~stale
        => line_switch = (line_in /\ sco_thread = None)

(* A disabled call ends; usbaudio/audio_hal.c:1761 says of terminate_sco     *)
(* "this will cause the thread to exit the main loop and terminate".         *)
DisableEndsCall ==
    \A t \in Slots :
        (terminate_sco /\ thread[t] # "none")
            ~> (thread[t] = "none" \/ mixer_lock \/ crashed)

(* No caller waits for ever, for any lock, unless a mixer that could not be  *)
(* opened has kept mixer_lock.                                               *)
RequestsReturn ==
    /\ (hfp # "idle") ~> (hfp = "idle" \/ mixer_lock)
    /\ (audio # "idle") ~> (audio = "idle" \/ mixer_lock)
    /\ \A s \in Streams : (doing[s] = "start") ~> (doing[s] # "start" \/ mixer_lock)
=============================================================================
