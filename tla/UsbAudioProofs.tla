--------------------------- MODULE UsbAudioProofs ---------------------------
(***************************************************************************)
(* Proofs about the USB audio HAL for any streams and any number of tries;   *)
(* those about the pcms of a call, when no call is enabled before the thread *)
(* of the last one has ended, the others for calls that overlap too.         *)
(***************************************************************************)
EXTENDS UsbAudio, TLAPS

(* The devices that a runsco at pc has open.                                 *)
Held(pc) ==
    {d \in Devices :
        \/ pc \in {"setup", "loop", "close"}
        \/ d = "near out" /\ pc \in {"ins", "far in", "far out"}
        \/ d = "near in" /\ pc \in {"far in", "far out"}
        \/ d = "far in" /\ pc = "far out"}

(* At most one runsco lives, and none when one is about to be created.       *)
OneThread ==
    /\ \A t, u \in Slots : thread[t] # "none" /\ thread[u] # "none" => t = u
    /\ hfp \in {"mic", "create"} => \A t \in Slots : thread[t] = "none"

(* A runsco owns exactly the devices its step says, and the fields hold them.*)
HoldsItsPcms ==
    \A t \in Slots, d \in Devices :
        /\ d \in Held(thread[t]) => owner[d] = t /\ sco_pcm[d] = t
        /\ owner[d] = t => d \in Held(thread[t])

(* A stream that is not in standby owns the card. *)
StreamHasCard == \A s \in Streams : ~standby[s] => owner[DeviceOf(s)] = s

IInv ==
    /\ TypeOK
    /\ OneThread
    /\ HoldsItsPcms
    /\ StreamHasCard
    /\ ~crashed

-----------------------------------------------------------------------------
LEMMA InitType == Init => TypeOK
  <1> SUFFICES ASSUME Init PROVE TypeOK
    OBVIOUS
  <1>1. 0 \in 0 .. MaxTries - 1
    BY AudioAssumption
  <1>2. ScoTypes
    BY <1>1 DEF Init, ScoTypes
  <1>3. StreamTypes /\ PcmTypes
    BY DEF Init, StreamTypes, PcmTypes
  <1>4. MixerTypes /\ ClientTypes /\ CallTypes
    BY DEF Init, MixerTypes, ClientTypes, CallTypes
  <1> QED BY <1>2, <1>3, <1>4 DEF TypeOK

LEMMA InitIInv == Init => IInv
  <1> SUFFICES ASSUME Init PROVE IInv
    OBVIOUS
  <1>1. TypeOK
    BY InitType
  <1>2. OneThread /\ StreamHasCard /\ ~crashed
    BY DEF Init, OneThread, StreamHasCard
  <1>3. HoldsItsPcms
    BY AudioAssumption DEF Init, HoldsItsPcms, Held
  <1> QED BY <1>1, <1>2, <1>3 DEF IInv

(* Steps that leave the devices as they are. *)
LEMMA QuietStep ==
  ASSUME IInv, TypeOK', UNCHANGED <<thread, owner, sco_pcm, crashed>>,
         hfp' = hfp \/ hfp' \notin {"mic", "create"},
         \A r \in Streams : ~standby'[r] => ~standby[r]
  PROVE  IInv'
  <1>1. OneThread'
    BY DEF IInv, OneThread
  <1>2. HoldsItsPcms' /\ StreamHasCard'
    BY DEF IInv, HoldsItsPcms, StreamHasCard
  <1> QED BY <1>1, <1>2 DEF IInv

(* A stream opens or closes its device, which no call has.                   *)
LEMMA StreamStep ==
  ASSUME IInv, TypeOK', UNCHANGED <<thread, sco_pcm, crashed, hfp>>,
         NEW s \in Streams,
         \A r \in Streams \ {s} : standby'[r] = standby[r],
         owner[DeviceOf(s)] = None \/ owner[DeviceOf(s)] = s,
         standby'[s] => owner' = [owner EXCEPT ![DeviceOf(s)] = None],
         ~standby'[s] => owner' = [owner EXCEPT ![DeviceOf(s)] = s]
  PROVE  IInv'
  <1>1. OneThread'
    BY DEF IInv, OneThread
  <1>2. DeviceOf(s) \in Devices /\ owner \in [Devices -> {None} \union Streams \union Slots]
    BY DEF IInv, TypeOK, PcmTypes, DeviceOf, Devices
  <1>3. \A d \in Devices \ {DeviceOf(s)} : owner'[d] = owner[d]
    BY <1>2
  <1>4. owner'[DeviceOf(s)] \in {None, s}
    BY <1>2
  <1>5. HoldsItsPcms'
    BY <1>2, <1>3, <1>4, AudioAssumption DEF IInv, HoldsItsPcms
  <1>6. StreamHasCard'
    <2> SUFFICES ASSUME NEW r \in Streams, ~standby'[r]
                 PROVE  owner'[DeviceOf(r)] = r
      BY DEF StreamHasCard
    <2>1. CASE r = s
      BY <1>2, <2>1
    <2>2. CASE r # s
      <3>1. owner[DeviceOf(r)] = r
        BY <2>2 DEF IInv, StreamHasCard
      <3>2. DeviceOf(r) # DeviceOf(s)
        BY <2>2, <3>1, AudioAssumption
      <3> QED BY <1>3, <3>1, <3>2 DEF DeviceOf, Devices
    <2> QED BY <2>1, <2>2
  <1> QED BY <1>1, <1>5, <1>6 DEF IInv

(* A runsco goes to a step at which it has the same devices.                 *)
LEMMA MoveStep ==
  ASSUME IInv, TypeOK', NEW t \in Slots, NEW pc,
         thread' = [thread EXCEPT ![t] = pc], Held(pc) = Held(thread[t]),
         OneThread', UNCHANGED <<owner, sco_pcm, crashed, standby>>
  PROVE  IInv'
  <1>1. \A u \in Slots : Held(thread'[u]) = Held(thread[u])
    BY DEF IInv, TypeOK, ScoTypes
  <1>2. HoldsItsPcms' /\ StreamHasCard'
    BY <1>1 DEF IInv, HoldsItsPcms, StreamHasCard
  <1> QED BY <1>2 DEF IInv

(* While a runsco lives it stays the only one.                               *)
LEMMA LivingStep ==
  ASSUME IInv, NEW t \in Slots, thread[t] # "none", NEW pc,
         thread' = [thread EXCEPT ![t] = pc], UNCHANGED hfp
  PROVE  OneThread' /\ \A u \in Slots \ {t} : thread[u] = "none" /\ thread'[u] = "none"
  BY DEF IInv, TypeOK, ScoTypes, OneThread

LEMMA NoneHoldsNothing == Held("none") = {}
  BY DEF Held

LEMMA OpenStep ==
  ASSUME IInv, TypeOK', NEW t \in Slots, thread[t] # "none", NEW pc, NEW d \in Devices,
         Open(t, d), thread' = [thread EXCEPT ![t] = pc],
         Held(pc) = Held(thread[t]) \union {d}, UNCHANGED <<hfp, standby>>
  PROVE  IInv'
  <1>1. OneThread' /\ \A u \in Slots \ {t} : thread[u] = "none" /\ thread'[u] = "none"
    BY LivingStep
  <1>2. \A e \in Devices \ {d} : owner'[e] = owner[e] /\ sco_pcm'[e] = sco_pcm[e]
    BY DEF Open, IInv, TypeOK, PcmTypes
  <1>3. owner[d] = None /\ owner'[d] = t /\ sco_pcm'[d] = t
    BY DEF Open, IInv, TypeOK, PcmTypes
  <1>4. thread'[t] = pc
    BY DEF IInv, TypeOK, ScoTypes
  <1>5. HoldsItsPcms'
    <2> SUFFICES ASSUME NEW u \in Slots, NEW e \in Devices
                 PROVE  /\ e \in Held(thread'[u]) => owner'[e] = u /\ sco_pcm'[e] = u
                        /\ owner'[e] = u => e \in Held(thread'[u])
      BY DEF HoldsItsPcms
    <2>1. CASE u = t
      BY <1>2, <1>3, <1>4, <2>1 DEF IInv, HoldsItsPcms
    <2>2. CASE u # t
      BY <1>1, <1>2, <1>3, <2>2, NoneHoldsNothing DEF IInv, HoldsItsPcms
    <2> QED BY <2>1, <2>2
  <1>6. StreamHasCard'
    <2> SUFFICES ASSUME NEW s \in Streams, ~standby'[s]
                 PROVE  owner'[DeviceOf(s)] = s
      BY DEF StreamHasCard
    <2>1. owner[DeviceOf(s)] = s /\ s # None
      BY AudioAssumption DEF IInv, StreamHasCard
    <2>2. DeviceOf(s) \in Devices \ {d}
      BY <1>3, <2>1 DEF DeviceOf, Devices
    <2> QED BY <1>2, <2>1, <2>2
  <1>7. ~crashed'
    BY DEF Open, IInv
  <1> QED BY <1>1, <1>5, <1>6, <1>7 DEF IInv

(* What is closed is what was open: none twice, and none is left.            *)
LEMMA CloseStep ==
  ASSUME IInv, TypeOK', NEW t \in Slots, thread[t] # "none", NEW pc,
         NEW D, NEW F, CloseFields(D, F), D \ F = Held(thread[t]),
         thread' = [thread EXCEPT ![t] = pc], Held(pc) = {}, UNCHANGED <<hfp, standby>>
  PROVE  IInv'
  <1>1. OneThread' /\ \A u \in Slots \ {t} : thread[u] = "none" /\ thread'[u] = "none"
    BY LivingStep
  <1>2. \A d \in Devices : d \in D \ F <=> owner[d] = t
    BY DEF IInv, HoldsItsPcms
  <1>3. \A d \in D \ F : d \in Devices /\ sco_pcm[d] = t
    BY DEF IInv, HoldsItsPcms, Held
  <1>4. ~crashed'
    BY <1>3, AudioAssumption DEF CloseFields
  <1>5. \A d \in Devices : owner'[d] = IF d \in D \ F THEN None ELSE owner[d]
    BY <1>3 DEF CloseFields
  <1>6. thread'[t] = pc
    BY DEF IInv, TypeOK, ScoTypes
  <1>7. HoldsItsPcms'
    <2> SUFFICES ASSUME NEW u \in Slots, NEW d \in Devices
                 PROVE  d \notin Held(thread'[u]) /\ owner'[d] # u
      BY DEF HoldsItsPcms
    <2>1. CASE u = t
      BY <1>2, <1>5, <1>6, <2>1, AudioAssumption
    <2>2. CASE u # t
      BY <1>1, <1>5, <2>2, NoneHoldsNothing, AudioAssumption DEF IInv, HoldsItsPcms
    <2> QED BY <2>1, <2>2
  <1>8. StreamHasCard'
    BY <1>2, <1>5, AudioAssumption DEF IInv, StreamHasCard, DeviceOf, Devices
  <1> QED BY <1>1, <1>4, <1>7, <1>8 DEF IInv

-----------------------------------------------------------------------------
(* Types.  A step that leaves a group of variables alone keeps its types.    *)
LEMMA SameTypes ==
  ASSUME TypeOK
  PROVE  /\ UNCHANGED streamVars => StreamTypes'
         /\ UNCHANGED scoVars => ScoTypes'
         /\ UNCHANGED pcmVars => PcmTypes'
         /\ UNCHANGED mixerVars => MixerTypes'
         /\ UNCHANGED clientVars => ClientTypes'
         /\ UNCHANGED <<callVars, device>> => CallTypes'
  <1>1. UNCHANGED streamVars => StreamTypes'
    BY DEF TypeOK, StreamTypes, streamVars
  <1>2. UNCHANGED scoVars => ScoTypes'
    BY DEF TypeOK, ScoTypes, scoVars
  <1>3. UNCHANGED pcmVars => PcmTypes'
    BY DEF TypeOK, PcmTypes, pcmVars
  <1>4. UNCHANGED mixerVars => MixerTypes'
    BY DEF TypeOK, MixerTypes, mixerVars
  <1>5. UNCHANGED clientVars => ClientTypes'
    BY DEF TypeOK, ClientTypes, clientVars
  <1>6. UNCHANGED <<callVars, device>> => CallTypes'
    BY DEF TypeOK, CallTypes, callVars
  <1> QED BY <1>1, <1>2, <1>3, <1>4, <1>5, <1>6

LEMMA StreamType ==
  ASSUME TypeOK, NEW s \in Streams, StreamCall(s) \/ StreamGoesOn(s)
  PROVE  TypeOK'
  <1>1. DeviceOf(s) \in Devices
    BY DEF DeviceOf, Devices
  <1>2. UNCHANGED <<scoVars, mixerVars, clientVars, callVars, device>>
    BY DEF StreamCall, StreamGoesOn, OpenStream, SetStreamParameters, BeginTransfer,
           RemoveFromList, Standby, EndTransfer, StartStream, FreeStream
  <1>3. StreamTypes'
    <2> USE DEF TypeOK, StreamTypes
    <2>1. CASE OpenStream(s)
      BY <2>1 DEF OpenStream
    <2>2. CASE SetStreamParameters(s) \/ RemoveFromList(s) \/ EndTransfer(s)
      BY <2>2 DEF SetStreamParameters, RemoveFromList, EndTransfer
    <2>3. CASE BeginTransfer(s)
      BY <2>3 DEF BeginTransfer
    <2>4. CASE StartStream(s)
      BY <2>4 DEF StartStream
    <2>5. CASE Standby(s) \/ FreeStream(s)
      BY <2>5 DEF Standby, FreeStream, PutInStandby
    <2> QED BY <2>1, <2>2, <2>3, <2>4, <2>5 DEF StreamCall, StreamGoesOn
  <1>4. PcmTypes'
    <2>1. CASE UNCHANGED pcmVars
      BY <2>1, SameTypes
    <2>2. CASE StartStream(s)
      BY <1>1, <2>2 DEF StartStream, TypeOK, PcmTypes
    <2>3. CASE PutInStandby(s)
      BY <1>1, <2>3 DEF PutInStandby, TypeOK, PcmTypes
    <2> QED BY <2>1, <2>2, <2>3 DEF StreamCall, StreamGoesOn, Standby, FreeStream
  <1> QED BY <1>2, <1>3, <1>4, SameTypes DEF TypeOK

LEMMA ScoType ==
  ASSUME TypeOK, NEW t \in Slots,
         \/ ScoGoesOn(t) \/ ScoMay(t)
         \/ \E s \in Streams : ScoVisits(t, s)
  PROVE  TypeOK'
  <1>1. UNCHANGED <<clientVars, device>>
    BY DEF ScoGoesOn, ScoMay, ScoVisits, OpenCard, RetryCard, GiveUpCard, OpenFar,
           GiveUpFar, Setup, GiveUpSetup, SeeTerminate, CloseAll, Forget, Return,
           ReadFails, UseClosed, LeaveLoop
  <1>2. StreamTypes'
    <2>1. CASE UNCHANGED streamVars
      BY <2>1, SameTypes
    <2>2. ASSUME NEW s \in Streams, Visit(t, s) \/ FinishVisit(t, s), UNCHANGED usbcard
          PROVE  StreamTypes'
      BY <2>2 DEF Visit, FinishVisit, PutInStandby, TypeOK, StreamTypes
    <2> QED BY <2>1, <2>2
            DEF ScoGoesOn, ScoMay, ScoVisits, OpenCard, RetryCard, GiveUpCard, OpenFar,
                GiveUpFar, Setup, GiveUpSetup, SeeTerminate, CloseAll, Forget, Return,
                ReadFails, UseClosed, LeaveLoop
  <1>3. ScoTypes'
    <2>1. 0 \in 0 .. MaxTries - 1
      BY AudioAssumption
    <2>2. CASE OpenCard(t)
      <3>1. After(thread[t]) \in {"ins", "far in"}
        BY <2>2 DEF OpenCard, InPass, After
      <3>2. thread' = [thread EXCEPT ![t] = After(thread[t])]
        BY <2>2 DEF OpenCard
      <3>3. visited' = [visited EXCEPT ![t] = {}] /\ tries' = [tries EXCEPT ![t] = 0]
        BY <2>2 DEF OpenCard
      <3> QED BY <2>1, <3>1, <3>2, <3>3 DEF TypeOK, ScoTypes
    <2>3. CASE OpenFar(t)
      BY <2>3 DEF OpenFar, TypeOK, ScoTypes
    <2>4. CASE RetryCard(t)
      <3>1. tries[t] \in 0 .. MaxTries - 1
        BY DEF TypeOK, ScoTypes
      <3>2. tries[t] + 1 < MaxTries
        BY <2>4 DEF RetryCard
      <3>3. tries[t] + 1 \in 0 .. MaxTries - 1
        BY <3>1, <3>2, AudioAssumption
      <3> QED BY <2>4, <3>3 DEF RetryCard, TypeOK, ScoTypes
    <2>5. CASE Return(t)
      BY <2>1, <2>5 DEF Return, TypeOK, ScoTypes
    <2>6. CASE Setup(t) \/ LeaveLoop(t)
      BY <2>6 DEF Setup, LeaveLoop, TypeOK, ScoTypes
    <2>7. CASE CloseAll(t) \/ Forget(t)
      BY <2>7 DEF CloseAll, Forget, TypeOK, ScoTypes
    <2>8. CASE UseClosed(t)
      BY <2>8, SameTypes DEF UseClosed
    <2>9. ASSUME NEW s \in Streams, ScoVisits(t, s) PROVE ScoTypes'
      <3>1. UNCHANGED visited \/ visited' = [visited EXCEPT ![t] = @ \union {s}]
        BY <2>9 DEF ScoVisits, Visit, FinishVisit, Visited
      <3>2. visited' \in [Slots -> SUBSET Streams]
        BY <3>1 DEF TypeOK, ScoTypes
      <3> QED BY <2>9, <3>2 DEF ScoVisits, TypeOK, ScoTypes
    <2> QED BY <2>2, <2>3, <2>4, <2>5, <2>6, <2>7, <2>8, <2>9
            DEF ScoGoesOn, ScoMay, GiveUpCard, GiveUpFar, GiveUpSetup, SeeTerminate,
                ReadFails
  <1>4. PcmTypes'
    <2>1. CASE UNCHANGED pcmVars
      BY <2>1, SameTypes
    <2>2. ASSUME NEW d \in Devices, Open(t, d) PROVE PcmTypes'
      BY <2>2 DEF Open, TypeOK, PcmTypes
    <2>3. ASSUME NEW D, NEW F, CloseFields(D, F) PROVE PcmTypes'
      BY <2>3 DEF CloseFields, TypeOK, PcmTypes
    <2>4. CASE OpenCard(t) \/ OpenFar(t)
      <3>1. OpenCard(t) => CardOf(thread[t]) \in Devices
        BY DEF OpenCard, InPass, CardOf, Devices
      <3>2. OpenFar(t) => thread[t] \in Devices
        BY DEF OpenFar, Devices
      <3>3. PICK d \in Devices : Open(t, d)
        BY <2>4, <3>1, <3>2 DEF OpenCard, OpenFar
      <3> QED BY <2>2, <3>3
    <2>5. CASE RetryCard(t)
      BY <2>5 DEF RetryCard, TypeOK, PcmTypes
    <2>6. CASE GiveUpCard(t) \/ GiveUpFar(t) \/ GiveUpSetup(t) \/ CloseAll(t)
      BY <2>3, <2>6 DEF GiveUpCard, GiveUpFar, GiveUpSetup, CloseAll
    <2>7. CASE UseClosed(t)
      BY <2>7 DEF UseClosed, TypeOK, PcmTypes
    <2>8. ASSUME NEW s \in Streams, FinishVisit(t, s) PROVE PcmTypes'
      <3>1. DeviceOf(s) \in Devices
        BY DEF DeviceOf, Devices
      <3> QED BY <2>8, <3>1 DEF FinishVisit, PutInStandby, TypeOK, PcmTypes
    <2> QED BY <2>1, <2>4, <2>5, <2>6, <2>7, <2>8
            DEF ScoGoesOn, ScoMay, ScoVisits, Setup, SeeTerminate, Forget, ReadFails,
                LeaveLoop, Visit, pcmVars
  <1>5. MixerTypes' /\ CallTypes'
    <2>1. CASE UNCHANGED <<mixerVars, callVars>>
      BY <1>1, <2>1, SameTypes
    <2>2. CASE Forget(t)
      BY <1>1, <2>2 DEF Forget, TypeOK, MixerTypes, CallTypes
    <2> QED BY <2>1, <2>2
            DEF ScoGoesOn, ScoMay, ScoVisits, OpenCard, RetryCard, GiveUpCard, OpenFar,
                GiveUpFar, Setup, GiveUpSetup, SeeTerminate, CloseAll, Return,
                ReadFails, UseClosed, LeaveLoop
  <1> QED BY <1>1, <1>2, <1>3, <1>4, <1>5, SameTypes DEF TypeOK

LEMMA MixerType ==
  ASSUME TypeOK, set_line_in \/ SetVolume
  PROVE  MixerTypes'
  BY DEF set_line_in, SetVolume, WithMixer, LineWanted, TypeOK, MixerTypes, ClientTypes

LEMMA ClientType ==
  ASSUME TypeOK, HfpRequest \/ HfpGoesOn \/ AudioRequest \/ AudioGoesOn
  PROVE  TypeOK'
  <1>1. UNCHANGED <<streamVars, pcmVars>>
    BY DEF HfpRequest, HfpGoesOn, AudioRequest, AudioGoesOn
  <1>2. ScoTypes' /\ CallTypes'
    <2>1. CASE UNCHANGED <<scoVars, callVars>> /\ UNCHANGED device
      BY <2>1, SameTypes
    <2>2. CASE CreateThread /\ UNCHANGED device
      BY <2>2 DEF CreateThread, TypeOK, ScoTypes, CallTypes
    <2>3. CASE Disable /\ UNCHANGED device
      BY <2>3, SameTypes DEF Disable, TypeOK, CallTypes
    <2>4. CASE AudioRequest \/ AudioGoesOn
      BY <2>4, SameTypes
         DEF AudioRequest, AudioGoesOn, LineIn, SetLine, Mute, FinishMute,
             DeviceReleased, TypeOK, CallTypes, callVars
    <2> QED BY <2>1, <2>2, <2>3, <2>4
            DEF HfpRequest, HfpGoesOn, Enable, HfpVolume, SetMic, CutLine, RestoreLine,
                RestoreVolume, SetHfpVolume
  <1>3. MixerTypes'
    <2>1. CASE UNCHANGED mixerVars
      BY <2>1, SameTypes
    <2> QED BY <2>1, MixerType
            DEF HfpRequest, HfpGoesOn, AudioRequest, AudioGoesOn, Enable, Disable,
                HfpVolume, SetMic, CreateThread, CutLine, RestoreLine, RestoreVolume,
                SetHfpVolume, LineIn, SetLine, Mute, FinishMute
  <1>4. ClientTypes'
    <2> USE DEF TypeOK, ClientTypes
    <2>1. CASE HfpRequest
      BY <2>1 DEF HfpRequest, Enable, Disable, HfpVolume
    <2>2. CASE HfpGoesOn
      BY <2>2 DEF HfpGoesOn, SetMic, CreateThread, CutLine, RestoreLine, RestoreVolume,
                  SetHfpVolume
    <2>3. CASE AudioRequest
      BY <2>3 DEF AudioRequest, LineIn, Mute
    <2>4. CASE AudioGoesOn
      BY <2>4 DEF AudioGoesOn, SetLine, FinishMute
    <2> QED BY <2>1, <2>2, <2>3, <2>4
  <1> QED BY <1>1, <1>2, <1>3, <1>4, SameTypes DEF TypeOK

(* Every variable has the type the code gives it, for any streams, any       *)
(* number of tries, and calls that overlap or not.                           *)
THEOREM TypeCorrect == Spec => []TypeOK
  <1>1. TypeOK /\ [Next]_vars => TypeOK'
    <2> SUFFICES ASSUME TypeOK, [Next]_vars PROVE TypeOK'
      OBVIOUS
    <2>1. CASE UNCHANGED vars
      BY <2>1, SameTypes DEF vars, TypeOK
    <2> QED BY <2>1, StreamType, ScoType, ClientType DEF Next
  <1> QED BY <1>1, InitType, PTL DEF Spec

-----------------------------------------------------------------------------
(* The steps of a stream, of a runsco and of the clients keep IInv.          *)
LEMMA StreamKeeps ==
  ASSUME IInv, TypeOK', NEW s \in Streams, StreamCall(s) \/ StreamGoesOn(s)
  PROVE  IInv'
  <1>1. UNCHANGED <<scoVars, hfp, sco_pcm, crashed>>
    BY DEF StreamCall, StreamGoesOn, StartStream, FreeStream, Standby, PutInStandby,
           pcmVars, clientVars
  <1>2. standby \in [Streams -> BOOLEAN]
    BY DEF IInv, TypeOK, StreamTypes
  <1>3. CASE UNCHANGED pcmVars /\ \A r \in Streams : ~standby'[r] => ~standby[r]
    BY <1>1, <1>3, QuietStep DEF scoVars, pcmVars
  <1>4. CASE StartStream(s)
    <2>1. CASE UNCHANGED <<owner, standby>>
      BY <1>1, <2>1, QuietStep DEF scoVars
    <2>2. CASE /\ owner[DeviceOf(s)] = None
               /\ owner' = [owner EXCEPT ![DeviceOf(s)] = s]
               /\ standby' = [standby EXCEPT ![s] = FALSE]
      BY <1>1, <1>2, <2>2, StreamStep DEF scoVars
    <2> QED BY <1>4, <2>1, <2>2 DEF StartStream
  <1>5. CASE PutInStandby(s)
    <2>1. CASE standby[s]
      BY <1>1, <1>2, <1>5, <2>1, QuietStep DEF PutInStandby, scoVars
    <2>2. CASE ~standby[s]
      <3>1. owner[DeviceOf(s)] = s
        BY <2>2 DEF IInv, StreamHasCard
      <3> QED BY <1>1, <1>2, <1>5, <2>2, <3>1, StreamStep DEF PutInStandby, scoVars
    <2> QED BY <2>1, <2>2
  <1>6. ASSUME \/ OpenStream(s) \/ SetStreamParameters(s) \/ BeginTransfer(s)
               \/ RemoveFromList(s) \/ EndTransfer(s)
        PROVE  \A r \in Streams : ~standby'[r] => ~standby[r]
    BY <1>2, <1>6 DEF OpenStream, SetStreamParameters, BeginTransfer, RemoveFromList,
                      EndTransfer
  <1> QED BY <1>3, <1>4, <1>5, <1>6 DEF StreamCall, StreamGoesOn, Standby, FreeStream

LEMMA VisitKeeps ==
  ASSUME IInv, TypeOK', NEW t \in Slots, NEW s \in Streams, ScoVisits(t, s)
  PROVE  IInv'
  <1>1. UNCHANGED <<thread, hfp>>
    BY DEF ScoVisits, clientVars
  <1>2. CASE Visit(t, s)
    BY <1>1, <1>2, QuietStep DEF Visit, pcmVars
  <1>3. CASE FinishVisit(t, s)
    <2>1. standby \in [Streams -> BOOLEAN]
      BY DEF IInv, TypeOK, StreamTypes
    <2>2. CASE standby[s]
      BY <1>1, <1>3, <2>1, <2>2, QuietStep DEF FinishVisit, PutInStandby
    <2>3. CASE ~standby[s]
      <3>1. owner[DeviceOf(s)] = s
        BY <2>3 DEF IInv, StreamHasCard
      <3> QED BY <1>1, <1>3, <2>1, <2>3, <3>1, StreamStep DEF FinishVisit, PutInStandby
    <2> QED BY <2>2, <2>3
  <1> QED BY <1>2, <1>3 DEF ScoVisits

LEMMA ScoKeeps ==
  ASSUME IInv, TypeOK', NEW t \in Slots, ScoGoesOn(t) \/ ScoMay(t)
  PROVE  IInv'
  <1>1. UNCHANGED clientVars
    BY DEF ScoGoesOn, ScoMay
  <1>2. UNCHANGED hfp
    BY <1>1 DEF clientVars
  <1>3. CASE OpenCard(t)
    <2>1. thread[t] \in {"outs", "ins"} /\ Open(t, CardOf(thread[t])) /\ UNCHANGED standby
          /\ thread' = [thread EXCEPT ![t] = After(thread[t])]
      BY <1>3 DEF OpenCard, InPass, streamVars
    <2>2. Held(After(thread[t])) = Held(thread[t]) \union {CardOf(thread[t])}
          /\ CardOf(thread[t]) \in Devices
      BY <2>1 DEF Held, After, CardOf, Devices
    <2> QED BY <1>2, <2>1, <2>2, OpenStep
  <1>4. CASE OpenFar(t)
    <2> DEFINE pc == IF thread[t] = "far in" THEN "far out" ELSE "setup"
    <2>1. thread[t] \in {"far in", "far out"} /\ Open(t, thread[t]) /\ UNCHANGED standby
          /\ thread' = [thread EXCEPT ![t] = pc]
      BY <1>4 DEF OpenFar, streamVars
    <2>2. Held(pc) = Held(thread[t]) \union {thread[t]} /\ thread[t] \in Devices
      BY <2>1 DEF Held, Devices
    <2> QED BY <1>2, <2>1, <2>2, OpenStep
  <1>5. CASE RetryCard(t)
    <2>1. UNCHANGED <<thread, owner, crashed, standby>>
      BY <1>5 DEF RetryCard, streamVars
    <2>2. CardOf(thread[t]) \notin Held(thread[t])
          /\ sco_pcm' = [sco_pcm EXCEPT ![CardOf(thread[t])] = "failed"]
      BY <1>5 DEF RetryCard, InPass, CardOf, Held
    <2>3. \A u \in Slots \ {t} : thread[u] = "none"
      BY <1>5 DEF RetryCard, InPass, IInv, OneThread
    <2>4. HoldsItsPcms'
      BY <2>1, <2>2, <2>3, NoneHoldsNothing
         DEF IInv, HoldsItsPcms, TypeOK, PcmTypes
    <2> QED BY <1>2, <2>1, <2>4 DEF IInv, OneThread, StreamHasCard
  <1>6. CASE Setup(t) \/ LeaveLoop(t)
    <2> DEFINE pc == IF thread[t] = "setup" THEN "loop" ELSE "close"
    <2>1. thread[t] \in {"setup", "loop"} /\ thread' = [thread EXCEPT ![t] = pc]
          /\ UNCHANGED <<owner, sco_pcm, crashed, standby>>
      BY <1>6 DEF Setup, LeaveLoop, pcmVars, streamVars
    <2>2. Held(pc) = Held(thread[t])
      BY <2>1 DEF Held
    <2> QED BY <1>2, <2>1, <2>2, LivingStep, MoveStep
  <1>7. CASE UseClosed(t)
    <2>1. Held(thread[t]) = Devices
      BY <1>7 DEF UseClosed, Held
    <2> QED BY <1>7, <2>1, AudioAssumption DEF UseClosed, IInv, HoldsItsPcms
  <1>8. CASE GiveUpCard(t) \/ GiveUpFar(t) \/ GiveUpSetup(t)
    <2>1. thread' = [thread EXCEPT ![t] = "none"] /\ UNCHANGED standby
      BY <1>8 DEF GiveUpCard, GiveUpFar, GiveUpSetup, Return, streamVars
    <2>2. CASE GiveUpCard(t)
      <3>1. thread[t] \in {"outs", "ins"}
            /\ CloseFields(OpenedBy(thread[t]), {CardOf(thread[t])})
        BY <2>2 DEF GiveUpCard, InPass
      <3>2. OpenedBy(thread[t]) \ {CardOf(thread[t])} = Held(thread[t])
        BY <3>1 DEF OpenedBy, CardOf, Held, Devices
      <3> QED BY <1>2, <2>1, <3>1, <3>2, CloseStep, NoneHoldsNothing
    <2>3. CASE GiveUpFar(t)
      <3>1. thread[t] \in {"far in", "far out"}
            /\ CloseFields(OpenedBy(thread[t]), {thread[t]})
        BY <2>3 DEF GiveUpFar
      <3>2. OpenedBy(thread[t]) \ {thread[t]} = Held(thread[t])
        BY <3>1 DEF OpenedBy, Held, Devices
      <3> QED BY <1>2, <2>1, <3>1, <3>2, CloseStep, NoneHoldsNothing
    <2>4. CASE GiveUpSetup(t)
      <3>1. thread[t] = "setup" /\ CloseFields(Devices, {})
        BY <2>4 DEF GiveUpSetup
      <3>2. Devices \ {} = Held(thread[t])
        BY <3>1 DEF Held
      <3> QED BY <1>2, <2>1, <3>1, <3>2, CloseStep, NoneHoldsNothing
    <2> QED BY <1>8, <2>2, <2>3, <2>4
  <1>9. CASE CloseAll(t)
    <2>1. thread[t] = "close" /\ CloseFields(Devices, {}) /\ UNCHANGED standby
          /\ thread' = [thread EXCEPT ![t] = "forget"]
      BY <1>9 DEF CloseAll, streamVars
    <2>2. Devices \ {} = Held(thread[t]) /\ Held("forget") = {}
      BY <2>1 DEF Held
    <2> QED BY <1>2, <2>1, <2>2, CloseStep
  <1>10. CASE Forget(t)
    <2>1. thread[t] = "forget" /\ thread' = [thread EXCEPT ![t] = "none"]
          /\ UNCHANGED <<owner, sco_pcm, crashed, standby>>
      BY <1>10 DEF Forget, pcmVars, streamVars
    <2>2. Held("none") = Held(thread[t])
      BY <2>1 DEF Held
    <2> QED BY <1>2, <2>1, <2>2, LivingStep, MoveStep
  <1> QED BY <1>3, <1>4, <1>5, <1>6, <1>7, <1>8, <1>9, <1>10
          DEF ScoGoesOn, ScoMay, SeeTerminate, ReadFails

LEMMA ClientKeeps ==
  ASSUME IInv, TypeOK', ~Overlap,
         HfpRequest \/ HfpGoesOn \/ AudioRequest \/ AudioGoesOn
  PROVE  IInv'
  <1>1. UNCHANGED <<owner, sco_pcm, crashed, standby>>
    BY DEF HfpRequest, HfpGoesOn, AudioRequest, AudioGoesOn, streamVars, pcmVars
  <1>2. CASE Enable
    <2>1. UNCHANGED thread /\ \A t \in Slots : thread[t] = "none"
      BY <1>2 DEF Enable, scoVars
    <2> QED BY <1>1, <2>1 DEF IInv, OneThread, HoldsItsPcms, StreamHasCard
  <1>3. CASE SetMic
    <2>1. UNCHANGED thread /\ hfp = "mic"
      BY <1>3 DEF SetMic, scoVars
    <2> QED BY <1>1, <2>1 DEF IInv, OneThread, HoldsItsPcms, StreamHasCard
  <1>4. CASE CreateThread
    <2>1. \A t \in Slots : thread[t] = "none"
      BY <1>4 DEF CreateThread, IInv, OneThread
    <2>2. PICK t \in Slots : thread' = [thread EXCEPT ![t] = "outs"]
      BY <1>4 DEF CreateThread
    <2>3. OneThread'
      BY <1>4, <2>1, <2>2 DEF CreateThread, OneThread, IInv, TypeOK, ScoTypes
    <2>4. Held("outs") = Held(thread[t])
      BY <2>1 DEF Held
    <2> QED BY <1>1, <2>2, <2>3, <2>4, MoveStep
  <1>5. CASE UNCHANGED thread /\ (hfp' = hfp \/ hfp' \notin {"mic", "create"})
    BY <1>1, <1>5, QuietStep
  <1> QED BY <1>2, <1>3, <1>4, <1>5
          DEF HfpRequest, HfpGoesOn, AudioRequest, AudioGoesOn, Disable, HfpVolume,
              CutLine, RestoreLine, RestoreVolume, SetHfpVolume, scoVars

(* However the start of a call fails and however the call ends, no pcm is    *)
(* closed twice or used after its close, and no device stays open, if a call *)
(* is enabled only when the thread of the last one has ended.                *)
THEOREM DevicesSafe == ~Overlap /\ Spec => []PcmsSound
  <1> SUFFICES ASSUME ~Overlap PROVE Spec => []PcmsSound
    OBVIOUS
  <1>1. IInv /\ [Next]_vars => IInv'
    <2> SUFFICES ASSUME IInv, [Next]_vars PROVE IInv'
      OBVIOUS
    <2>1. CASE UNCHANGED vars
      BY <2>1, SameTypes DEF vars, streamVars, scoVars, pcmVars, clientVars, callVars,
         IInv, TypeOK, OneThread, HoldsItsPcms, StreamHasCard
    <2>2. CASE Next
      <3>1. TypeOK'
        BY <2>2, StreamType, ScoType, ClientType DEF Next, IInv
      <3> QED BY <2>2, <3>1, StreamKeeps, VisitKeeps, ScoKeeps, ClientKeeps DEF Next
    <2> QED BY <2>1, <2>2
  <1>2. IInv => PcmsSound
    BY NoneHoldsNothing DEF IInv, PcmsSound, HoldsItsPcms
  <1> QED BY <1>1, <1>2, InitIInv, PTL DEF Spec

-----------------------------------------------------------------------------
(* The two clients' requests interleave, and the switch is set last by one   *)
(* that sees both the call and what the radio was asked for.                 *)
LineAsAsked == line_switch = (line_in /\ sco_thread = None)
LineInv == hfp \notin {"line off", "line on"} /\ audio # "line" /\ ~stale => LineAsAsked

LEMMA LineSame ==
  ASSUME UNCHANGED <<line_switch, line_in, sco_thread>>
  PROVE  LineAsAsked' <=> LineAsAsked
  BY DEF LineAsAsked

LEMMA LineSet ==
  ASSUME set_line_in, UNCHANGED <<line_in, sco_thread>>, ~stale'
  PROVE  LineAsAsked'
  BY DEF set_line_in, WithMixer, LineWanted, LineAsAsked

LEMMA LineLeft ==
  ASSUME SetVolume
  PROVE  UNCHANGED <<line_switch, stale>>
  BY DEF SetVolume, WithMixer

LEMMA LineStep ==
  ASSUME LineInv, [Next]_vars
  PROVE  LineInv'
  <1>1. CASE UNCHANGED <<hfp, audio, stale, line_switch, line_in, sco_thread>>
    BY <1>1, LineSame DEF LineInv
  <1>2. CASE UNCHANGED vars
    BY <1>1, <1>2 DEF vars, clientVars, callVars, mixerVars
  <1>3. ASSUME NEW s \in Streams, StreamCall(s) \/ StreamGoesOn(s)
        PROVE  LineInv'
    BY <1>1, <1>3 DEF StreamCall, StreamGoesOn, clientVars, callVars, mixerVars
  <1>4. ASSUME NEW t \in Slots, ScoGoesOn(t) \/ ScoMay(t)
        PROVE  LineInv'
    <2>1. CASE Forget(t) /\ UNCHANGED clientVars
      <3>1. ~stale' => ~stale /\ sco_thread' = sco_thread
        BY <2>1 DEF Forget
      <3>2. line_switch' = line_switch
        BY <2>1 DEF Forget
      <3> QED BY <2>1, <3>1, <3>2, LineSame DEF clientVars, LineInv
    <2>2. CASE UNCHANGED <<mixerVars, clientVars, callVars>>
      BY <1>1, <2>2 DEF clientVars, callVars, mixerVars
    <2> QED BY <1>4, <2>1, <2>2
            DEF ScoGoesOn, ScoMay, OpenCard, RetryCard, GiveUpCard, OpenFar, GiveUpFar,
                Setup, GiveUpSetup, SeeTerminate, CloseAll, Return, ReadFails, UseClosed,
                LeaveLoop
  <1>5. ASSUME NEW t \in Slots, NEW s \in Streams, ScoVisits(t, s)
        PROVE  LineInv'
    BY <1>1, <1>5 DEF ScoVisits, clientVars, callVars, mixerVars
  <1>6. CASE HfpRequest
    <2>1. CASE Enable \/ HfpVolume
      BY <2>1, LineSame DEF Enable, HfpVolume, LineInv, mixerVars, callVars
    <2>2. CASE Disable
      BY <2>2 DEF Disable, LineInv
    <2> QED BY <1>6, <2>1, <2>2 DEF HfpRequest
  <1>7. CASE HfpGoesOn
    <2>1. CASE SetMic \/ RestoreVolume \/ SetHfpVolume
      BY <2>1, LineLeft, LineSame DEF SetMic, RestoreVolume, SetHfpVolume, LineInv, callVars
    <2>2. CASE CreateThread
      BY <2>2 DEF CreateThread, LineInv
    <2>3. CASE CutLine \/ RestoreLine
      BY <2>3, LineSet DEF CutLine, RestoreLine, LineInv, callVars
    <2> QED BY <1>7, <2>1, <2>2, <2>3 DEF HfpGoesOn
  <1>8. CASE AudioRequest
    <2>1. CASE \E play \in BOOLEAN : LineIn(play)
      BY <2>1 DEF LineIn, LineInv
    <2>2. CASE Mute
      BY <1>8, <2>2, LineSame DEF AudioRequest, Mute, LineInv, mixerVars, callVars
    <2> QED BY <1>8, <2>1, <2>2 DEF AudioRequest
  <1>9. CASE AudioGoesOn
    <2>1. CASE SetLine
      BY <1>9, <2>1, LineSet DEF AudioGoesOn, SetLine, LineInv, callVars
    <2>2. CASE FinishMute
      BY <1>9, <2>2, LineLeft, LineSame DEF AudioGoesOn, FinishMute, LineInv, callVars
    <2> QED BY <1>9, <2>1, <2>2 DEF AudioGoesOn
  <1> QED BY <1>2, <1>3, <1>4, <1>5, <1>6, <1>7, <1>8, <1>9 DEF Next

(* In every order of the two clients' requests the radio's switch ends as    *)
(* set_line_in is meant to leave it: as asked for, and off during a call.    *)
THEOREM RadioSafe == Spec => []RadioFollows
  <1>1. Init => LineInv
    BY DEF Init, LineInv, LineAsAsked
  <1>2. LineInv => RadioFollows
    BY DEF LineInv, LineAsAsked, RadioFollows
  <1> QED BY <1>1, <1>2, LineStep, PTL DEF Spec

-----------------------------------------------------------------------------
(* Why a call finds the card free, whether calls overlap or not.             *)

(* Only a stream that is not in standby has the card, and none that is       *)
(* closed.                                                                   *)
OwnsInUse ==
    \A s \in Streams :
        /\ owner[DeviceOf(s)] = s => ~standby[s]
        /\ doing[s] = "closed" => standby[s]

(* What the thread of the present call has put in standby stays there.       *)
VisitedQuiet ==
    \A t \in Slots : sco_thread = t =>
        \A s \in visited[t] : standby[s] /\ doing[s] \notin {"start", "transfer"}

(* A runsco has a stream's lock only in a pass, and for a stream of the pass *)
(* that it has still to visit.                                               *)
LocksInPass ==
    \A t \in Slots :
        /\ ~InPass(t) => visited[t] = {}
        /\ \A s \in Streams : doing[s] = t =>
              InPass(t) /\ s \in Pass(thread[t]) /\ s \notin visited[t]

CardInv == TypeOK /\ OwnsInUse /\ VisitedQuiet /\ LocksInPass

(* A stream's own step, by which it never gets the card behind a call's back.*)
LEMMA StreamCard ==
  ASSUME CardInv, TypeOK', NEW s \in Streams,
         UNCHANGED <<thread, visited, sco_thread>>,
         \A r \in Streams \ {s} : /\ standby'[r] = standby[r] /\ doing'[r] = doing[r]
                                  /\ owner'[DeviceOf(r)] = r => owner[DeviceOf(r)] = r,
         owner'[DeviceOf(s)] = s => ~standby'[s],
         doing'[s] = "closed" => standby'[s],
         doing'[s] \notin Slots,
         \A t \in Slots : sco_thread = t /\ s \in visited[t]
                             => standby'[s] /\ doing'[s] \notin {"start", "transfer"}
  PROVE  CardInv'
  <1>1. OwnsInUse'
    BY DEF CardInv, OwnsInUse
  <1>2. VisitedQuiet'
    <2> SUFFICES ASSUME NEW t \in Slots, sco_thread = t, NEW r \in visited[t]
                 PROVE  standby'[r] /\ doing'[r] \notin {"start", "transfer"}
      BY DEF VisitedQuiet
    <2>1. r \in Streams
      BY DEF CardInv, TypeOK, ScoTypes
    <2> QED BY <2>1 DEF CardInv, VisitedQuiet
  <1>3. LocksInPass'
    BY DEF CardInv, LocksInPass, InPass
  <1> QED BY <1>1, <1>2, <1>3 DEF CardInv

(* One stream at a time has the device of its direction.                     *)
LEMMA StandbyOwns ==
  ASSUME CardInv, NEW s \in Streams, PutInStandby(s)
  PROVE  /\ standby'[s]
         /\ \A r \in Streams \ {s} : /\ standby'[r] = standby[r]
                                     /\ owner'[DeviceOf(r)] = r => owner[DeviceOf(r)] = r
         /\ owner'[DeviceOf(s)] # s
  <1>1. /\ standby' = [standby EXCEPT ![s] = TRUE]
        /\ standby \in [Streams -> BOOLEAN]
        /\ owner \in [Devices -> {None} \union Streams \union Slots]
    BY DEF PutInStandby, CardInv, TypeOK, StreamTypes, PcmTypes
  <1>2. \A r \in Streams : DeviceOf(r) \in Devices
    BY DEF DeviceOf, Devices
  <1>3. \A r \in Streams : r # None
    BY AudioAssumption
  <1>4. CASE standby[s]
    <2>1. owner' = owner
      BY <1>4, Zenon DEF PutInStandby
    <2> QED BY <1>1, <1>4, <2>1 DEF CardInv, OwnsInUse
  <1>5. CASE ~standby[s]
    <2>1. owner' = [owner EXCEPT ![DeviceOf(s)] = None]
      BY <1>5, Zenon DEF PutInStandby
    <2> QED BY <1>1, <1>2, <1>3, <2>1
  <1> QED BY <1>4, <1>5

LEMMA StreamKeepsCard ==
  ASSUME CardInv, TypeOK', NEW s \in Streams, StreamCall(s) \/ StreamGoesOn(s)
  PROVE  CardInv'
  <1>1. UNCHANGED <<thread, visited, sco_thread>>
    BY DEF StreamCall, StreamGoesOn, scoVars, callVars
  <1>2. /\ doing \in [Streams -> {"closed", "idle", "start", "transfer", "unlisted"} \union Slots]
        /\ standby \in [Streams -> BOOLEAN]
        /\ owner \in [Devices -> {None} \union Streams \union Slots]
    BY DEF CardInv, TypeOK, StreamTypes, PcmTypes
  <1>3. \A r \in Streams : DeviceOf(r) \in Devices /\ r # None
    BY AudioAssumption DEF DeviceOf, Devices
  <1>4. \A t \in Slots : sco_thread = t /\ s \in visited[t]
           => standby[s] /\ doing[s] \notin {"start", "transfer"}
    BY DEF CardInv, VisitedQuiet
  <1>5. CASE OpenStream(s)
    <2>1. /\ standby' = [standby EXCEPT ![s] = TRUE] /\ doing' = [doing EXCEPT ![s] = "idle"]
          /\ doing[s] = "closed" /\ UNCHANGED owner
      BY <1>5, AudioAssumption DEF OpenStream, StreamCall, StreamGoesOn, EndTransfer,
         StartStream, FreeStream, Standby, pcmVars
    <2>2. owner[DeviceOf(s)] # s
      BY <2>1 DEF CardInv, OwnsInUse
    <2> QED BY <1>1, <1>2, <2>1, <2>2, AudioAssumption, StreamCard
  <1>6. CASE SetStreamParameters(s) /\ UNCHANGED pcmVars
    <2>1. UNCHANGED <<doing, standby, owner>> /\ doing[s] = "idle"
      BY <1>6 DEF SetStreamParameters, pcmVars
    <2>2. owner[DeviceOf(s)] = s => ~standby[s]
      BY DEF CardInv, OwnsInUse
    <2> QED BY <1>1, <1>4, <2>1, <2>2, AudioAssumption, StreamCard
  <1>7. CASE BeginTransfer(s) /\ UNCHANGED pcmVars
    <2>1. /\ UNCHANGED <<standby, owner>> /\ sco_thread \notin Slots
          /\ doing' = [doing EXCEPT ![s] = IF standby[s] THEN "start" ELSE "transfer"]
      BY <1>7, AudioAssumption DEF BeginTransfer, NoCall, pcmVars
    <2>2. owner[DeviceOf(s)] = s => ~standby[s]
      BY DEF CardInv, OwnsInUse
    <2>3. doing'[s] \in {"start", "transfer"}
          /\ \A r \in Streams \ {s} : doing'[r] = doing[r]
      BY <1>2, <2>1
    <2> QED BY <1>1, <2>1, <2>2, <2>3, AudioAssumption, StreamCard
  <1>8. CASE (EndTransfer(s) \/ RemoveFromList(s)) /\ UNCHANGED pcmVars
    <2>1. /\ UNCHANGED <<standby, owner>>
          /\ doing'[s] \in {"idle", "unlisted"}
          /\ \A r \in Streams \ {s} : doing'[r] = doing[r]
      BY <1>2, <1>8 DEF EndTransfer, RemoveFromList, pcmVars
    <2>2. owner[DeviceOf(s)] = s => ~standby[s]
      BY DEF CardInv, OwnsInUse
    <2> QED BY <1>1, <1>4, <2>1, <2>2, AudioAssumption, StreamCard
  <1>9. CASE StartStream(s)
    <2>1. /\ doing[s] = "start"
          /\ doing'[s] \in {"idle", "transfer"}
          /\ \A r \in Streams \ {s} : doing'[r] = doing[r] /\ standby'[r] = standby[r]
      BY <1>2, <1>9 DEF StartStream
    <2>2. \A t \in Slots : ~(sco_thread = t /\ s \in visited[t])
      BY <1>4, <2>1
    <2>3. CASE UNCHANGED <<owner, standby>>
      <3>1. owner[DeviceOf(s)] = s => ~standby[s]
        BY DEF CardInv, OwnsInUse
      <3> QED BY <1>1, <2>1, <2>2, <2>3, <3>1, AudioAssumption, StreamCard
    <2>4. CASE /\ owner' = [owner EXCEPT ![DeviceOf(s)] = s]
               /\ standby' = [standby EXCEPT ![s] = FALSE]
      <3>1. ~standby'[s]
        BY <1>2, <2>4
      <3>2. \A r \in Streams \ {s} : owner'[DeviceOf(r)] = r => owner[DeviceOf(r)] = r
        BY <1>2, <1>3, <2>4
      <3> QED BY <1>1, <2>1, <2>2, <3>1, <3>2, AudioAssumption, StreamCard
    <2> QED BY <1>9, <2>3, <2>4 DEF StartStream
  <1>10. CASE Standby(s) \/ FreeStream(s)
    <2>1. /\ PutInStandby(s)
          /\ doing'[s] \in {"idle", "closed"}
          /\ \A r \in Streams \ {s} : doing'[r] = doing[r]
      BY <1>2, <1>10 DEF Standby, FreeStream
    <2> QED BY <1>1, <2>1, StandbyOwns, AudioAssumption, StreamCard
  <1> QED BY <1>5, <1>6, <1>7, <1>8, <1>9, <1>10 DEF StreamCall, StreamGoesOn

LEMMA VisitKeepsCard ==
  ASSUME CardInv, TypeOK', NEW t \in Slots, NEW s \in Streams, ScoVisits(t, s)
  PROVE  CardInv'
  <1>1. /\ UNCHANGED <<thread, sco_thread>>
        /\ doing \in [Streams -> {"closed", "idle", "start", "transfer", "unlisted"} \union Slots]
        /\ visited \in [Slots -> SUBSET Streams]
    BY DEF ScoVisits, callVars, CardInv, TypeOK, StreamTypes, ScoTypes
  <1>2. CASE Visit(t, s)
    <2>1. /\ InPass(t) /\ s \in Pass(thread[t]) /\ s \notin visited[t] /\ doing[s] = "idle"
          /\ UNCHANGED <<owner, standby>>
      BY <1>2 DEF Visit, pcmVars
    <2>2. CASE standby[s] /\ Visited(t, s) /\ UNCHANGED doing
      <3>1. /\ visited'[t] = visited[t] \union {s}
            /\ \A u \in Slots \ {t} : visited'[u] = visited[u]
        BY <1>1, <2>2 DEF Visited
      <3>2. OwnsInUse'
        BY <2>1, <2>2 DEF CardInv, OwnsInUse
      <3>3. VisitedQuiet'
        BY <1>1, <2>1, <2>2, <3>1 DEF CardInv, VisitedQuiet
      <3>4. LocksInPass'
        BY <1>1, <2>1, <2>2, <3>1, AudioAssumption DEF CardInv, LocksInPass, InPass
      <3> QED BY <3>2, <3>3, <3>4 DEF CardInv
    <2>3. CASE doing' = [doing EXCEPT ![s] = t] /\ UNCHANGED visited
      <3>1. doing'[s] = t /\ \A r \in Streams \ {s} : doing'[r] = doing[r]
        BY <1>1, <2>3
      <3>2. OwnsInUse'
        BY <2>1, <3>1, AudioAssumption DEF CardInv, OwnsInUse
      <3>3. VisitedQuiet'
        <4> SUFFICES ASSUME NEW u \in Slots, sco_thread = u, NEW r \in visited[u]
                     PROVE  standby[r] /\ doing'[r] \notin {"start", "transfer"}
          BY <1>1, <2>1, <2>3 DEF VisitedQuiet
        <4>1. r \in Streams
          BY <1>1
        <4> QED BY <3>1, <4>1, AudioAssumption DEF CardInv, VisitedQuiet
      <3>4. LocksInPass'
        BY <1>1, <2>1, <2>3, <3>1, AudioAssumption DEF CardInv, LocksInPass, InPass
      <3> QED BY <3>2, <3>3, <3>4 DEF CardInv
    <2> QED BY <1>2, <2>2, <2>3 DEF Visit
  <1>3. CASE FinishVisit(t, s)
    <2>1. /\ doing[s] = t /\ PutInStandby(s)
          /\ doing'[s] = "idle" /\ \A r \in Streams \ {s} : doing'[r] = doing[r]
          /\ visited'[t] = visited[t] \union {s}
          /\ \A u \in Slots \ {t} : visited'[u] = visited[u]
      BY <1>1, <1>3 DEF FinishVisit, Visited
    <2>2. /\ standby'[s]
          /\ \A r \in Streams \ {s} : /\ standby'[r] = standby[r]
                                      /\ owner'[DeviceOf(r)] = r => owner[DeviceOf(r)] = r
          /\ owner'[DeviceOf(s)] # s
      BY <2>1, StandbyOwns
    <2>3. OwnsInUse'
      BY <2>1, <2>2 DEF CardInv, OwnsInUse
    <2>4. VisitedQuiet'
      <3> SUFFICES ASSUME NEW u \in Slots, sco_thread = u, NEW r \in visited'[u]
                   PROVE  standby'[r] /\ doing'[r] \notin {"start", "transfer"}
        BY <1>1 DEF VisitedQuiet
      <3>1. r \in Streams /\ (r = s \/ r \in visited[u])
        BY <1>1, <2>1
      <3> QED BY <2>1, <2>2, <3>1 DEF CardInv, VisitedQuiet
    <2>5. LocksInPass'
      <3>1. InPass(t)
        BY <2>1 DEF CardInv, LocksInPass
      <3> QED BY <1>1, <2>1, <3>1, AudioAssumption DEF CardInv, LocksInPass, InPass
    <2> QED BY <2>3, <2>4, <2>5 DEF CardInv
  <1> QED BY <1>2, <1>3 DEF ScoVisits

(* Whatever else runsco does, the streams are as they were, and it leaves a  *)
(* pass, or begins it again, only when it has no stream's lock.              *)
LEMMA ScoCard ==
  ASSUME CardInv, TypeOK', NEW t \in Slots, UNCHANGED <<doing, standby>>,
         \A r \in Streams : owner'[DeviceOf(r)] = r => owner[DeviceOf(r)] = r,
         \A u \in Slots \ {t} : thread'[u] = thread[u] /\ visited'[u] = visited[u],
         \/ thread'[t] = thread[t] /\ visited'[t] = visited[t]
         \/ visited'[t] = {} /\ \A r \in Streams : doing[r] # t,
         \/ sco_thread' = sco_thread
         \/ sco_thread' \notin Slots
         \/ sco_thread' = t /\ visited'[t] = {}
  PROVE  CardInv'
  <1>1. OwnsInUse'
    BY DEF CardInv, OwnsInUse
  <1>2. VisitedQuiet'
    BY DEF CardInv, VisitedQuiet
  <1>3. LocksInPass'
    <2> SUFFICES ASSUME NEW u \in Slots
                 PROVE  /\ ~InPass(u)' => visited'[u] = {}
                        /\ \A s \in Streams : doing[s] = u =>
                              InPass(u)' /\ s \in Pass(thread'[u]) /\ s \notin visited'[u]
      BY DEF LocksInPass
    <2>1. CASE thread'[u] = thread[u] /\ visited'[u] = visited[u]
      BY <2>1 DEF CardInv, LocksInPass, InPass
    <2>2. CASE visited'[u] = {} /\ \A r \in Streams : doing[r] # u
      BY <2>2
    <2> QED BY <2>1, <2>2
  <1> QED BY <1>1, <1>2, <1>3 DEF CardInv

LEMMA NoLocks ==
  ASSUME CardInv, NEW t \in Slots, InPass(t) => PassDone(t)
  PROVE  \A r \in Streams : doing[r] # t
  BY DEF CardInv, LocksInPass, PassDone, listed

LEMMA PcmCard ==
  ASSUME CardInv, NEW t \in Slots,
         \/ UNCHANGED owner
         \/ \E d \in Devices : Open(t, d)
         \/ \E D : \E F : CloseFields(D, F)
  PROVE  \A r \in Streams : owner'[DeviceOf(r)] = r => owner[DeviceOf(r)] = r
  <1>1. /\ owner \in [Devices -> {None} \union Streams \union Slots]
        /\ \A r \in Streams : DeviceOf(r) \in Devices /\ r # None /\ r # t
    BY AudioAssumption DEF CardInv, TypeOK, PcmTypes, DeviceOf, Devices
  <1>2. CASE \E d \in Devices : Open(t, d)
    BY <1>1, <1>2 DEF Open
  <1>3. ASSUME NEW D, NEW F, CloseFields(D, F)
        PROVE  \A r \in Streams : owner'[DeviceOf(r)] = r => owner[DeviceOf(r)] = r
    <2>1. \A d \in Devices : owner'[d] = None \/ owner'[d] = owner[d]
      BY <1>3 DEF CloseFields
    <2> QED BY <1>1, <2>1
  <1> QED BY <1>2, <1>3

LEMMA ScoKeepsCard ==
  ASSUME CardInv, TypeOK', NEW t \in Slots, ScoGoesOn(t) \/ ScoMay(t)
  PROVE  CardInv'
  <1>1. /\ thread \in [Slots -> {"none", "outs", "ins", "far in", "far out", "setup",
                                 "loop", "close", "forget"}]
        /\ visited \in [Slots -> SUBSET Streams]
    BY DEF CardInv, TypeOK, ScoTypes
  <1>2. /\ UNCHANGED <<doing, standby>>
        /\ sco_thread' = sco_thread \/ sco_thread' \notin Slots
    BY AudioAssumption
       DEF ScoGoesOn, ScoMay, OpenCard, RetryCard, GiveUpCard, OpenFar, GiveUpFar,
           Setup, GiveUpSetup, SeeTerminate, CloseAll, Forget, Return, ReadFails,
           UseClosed, LeaveLoop, streamVars, callVars
  <1>3. \/ UNCHANGED owner
        \/ \E d \in Devices : Open(t, d)
        \/ \E D : \E F : CloseFields(D, F)
    <2>1. CASE OpenCard(t)
      <3>1. CardOf(thread[t]) \in Devices
        BY DEF CardOf, Devices
      <3> QED BY <2>1, <3>1 DEF OpenCard
    <2>2. CASE OpenFar(t)
      BY <2>2 DEF OpenFar, Devices
    <2>3. CASE GiveUpCard(t) \/ GiveUpFar(t) \/ GiveUpSetup(t) \/ CloseAll(t)
      BY <2>3 DEF GiveUpCard, GiveUpFar, GiveUpSetup, CloseAll
    <2> QED BY <2>1, <2>2, <2>3
            DEF ScoGoesOn, ScoMay, RetryCard, Setup, SeeTerminate, Forget, ReadFails,
                UseClosed, LeaveLoop, pcmVars
  <1>4. \A u \in Slots \ {t} : thread'[u] = thread[u] /\ visited'[u] = visited[u]
    BY <1>1
       DEF ScoGoesOn, ScoMay, OpenCard, RetryCard, GiveUpCard, OpenFar, GiveUpFar,
           Setup, GiveUpSetup, SeeTerminate, CloseAll, Forget, Return, ReadFails,
           UseClosed, LeaveLoop, scoVars
  <1>5. \/ thread'[t] = thread[t] /\ visited'[t] = visited[t]
        \/ visited'[t] = {} /\ \A r \in Streams : doing[r] # t
    <2>1. CASE UseClosed(t)
      BY <2>1 DEF UseClosed, scoVars
    <2>2. CASE OpenCard(t) \/ RetryCard(t) \/ GiveUpCard(t)
      <3>1. visited'[t] = {} /\ PassDone(t)
        BY <1>1, <2>2 DEF OpenCard, RetryCard, GiveUpCard, Return
      <3> QED BY <3>1, NoLocks
    <2>3. CASE ~InPass(t)
      <3>1. visited[t] = {}
        BY <2>3 DEF CardInv, LocksInPass
      <3>2. visited'[t] = {} \/ visited' = visited
        BY <1>1, <2>3
           DEF ScoGoesOn, ScoMay, OpenCard, RetryCard, GiveUpCard, OpenFar, GiveUpFar,
               Setup, GiveUpSetup, SeeTerminate, CloseAll, Forget, Return, ReadFails,
               UseClosed, LeaveLoop, scoVars
      <3> QED BY <2>3, <3>1, <3>2, NoLocks
    <2> QED BY <2>1, <2>2, <2>3
            DEF ScoGoesOn, ScoMay, OpenFar, GiveUpFar, Setup, GiveUpSetup, SeeTerminate,
                CloseAll, Forget, ReadFails, LeaveLoop, InPass
  <1>6. \A r \in Streams : owner'[DeviceOf(r)] = r => owner[DeviceOf(r)] = r
    BY <1>3, PcmCard
  <1>7. \/ sco_thread' = sco_thread
        \/ sco_thread' \notin Slots
        \/ sco_thread' = t /\ visited'[t] = {}
    BY <1>2
  <1>8. UNCHANGED <<doing, standby>>
    BY <1>2
  <1> QED BY <1>4, <1>5, <1>6, <1>7, <1>8, ScoCard

LEMMA ClientKeepsCard ==
  ASSUME CardInv, TypeOK', HfpRequest \/ HfpGoesOn \/ AudioRequest \/ AudioGoesOn
  PROVE  CardInv'
  <1>1. UNCHANGED <<doing, standby, owner>>
    BY DEF HfpRequest, HfpGoesOn, AudioRequest, AudioGoesOn, streamVars, pcmVars
  <1>2. CASE CreateThread
    <2>1. PICK t \in Slots :
             thread[t] = "none" /\ thread' = [thread EXCEPT ![t] = "outs"] /\ sco_thread' = t
      BY <1>2 DEF CreateThread
    <2>2. ~InPass(t) /\ UNCHANGED visited
      BY <1>2, <2>1 DEF CreateThread, InPass
    <2>3. visited'[t] = {} /\ \A r \in Streams : doing[r] # t
      BY <2>2, NoLocks DEF CardInv, LocksInPass
    <2>4. \A u \in Slots \ {t} : thread'[u] = thread[u]
      BY <2>1 DEF CardInv, TypeOK, ScoTypes
    <2> QED BY <1>1, <2>1, <2>2, <2>3, <2>4, ScoCard
  <1>3. CASE UNCHANGED <<thread, visited>> /\ (sco_thread' = sco_thread \/ sco_thread' = None)
    <2>1. sco_thread' = sco_thread \/ sco_thread' \notin Slots
      BY <1>3, AudioAssumption
    <2>2. OwnsInUse'
      BY <1>1 DEF CardInv, OwnsInUse
    <2>3. VisitedQuiet'
      BY <1>1, <1>3, <2>1 DEF CardInv, VisitedQuiet
    <2>4. LocksInPass'
      BY <1>1, <1>3 DEF CardInv, LocksInPass, InPass
    <2> QED BY <2>2, <2>3, <2>4 DEF CardInv
  <1>4. CASE UNCHANGED <<scoVars, callVars>>
    BY <1>3, <1>4 DEF scoVars, callVars
  <1>5. CASE HfpRequest
    <2>1. CASE Enable \/ HfpVolume
      BY <1>4, <2>1 DEF Enable, HfpVolume
    <2>2. CASE Disable
      BY <1>3, <2>2 DEF Disable, scoVars
    <2> QED BY <1>5, <2>1, <2>2 DEF HfpRequest
  <1>6. CASE HfpGoesOn
    <2>1. CASE SetMic \/ CutLine \/ RestoreLine \/ RestoreVolume \/ SetHfpVolume
      BY <1>4, <2>1 DEF SetMic, CutLine, RestoreLine, RestoreVolume, SetHfpVolume
    <2> QED BY <1>2, <1>6, <2>1 DEF HfpGoesOn
  <1>7. CASE AudioRequest \/ AudioGoesOn
    BY <1>4, <1>7 DEF AudioRequest, AudioGoesOn
  <1> QED BY <1>5, <1>6, <1>7

(* When the thread of the present call opens the card, no stream is in a     *)
(* transfer or about to start one, and none has the card but one that is     *)
(* being closed: transfers that saw no call are over by then, and later ones *)
(* see the call, in every order and also when calls overlap.                 *)
THEOREM CardFree == Spec => []CallGetsCard
  <1>1. Init => CardInv
    <2> SUFFICES ASSUME Init PROVE CardInv
      OBVIOUS
    <2>1. OwnsInUse
      BY AudioAssumption DEF Init, OwnsInUse, DeviceOf, Devices
    <2>2. VisitedQuiet /\ LocksInPass
      BY AudioAssumption DEF Init, VisitedQuiet, LocksInPass
    <2> QED BY <2>1, <2>2, InitType DEF CardInv
  <1>2. CardInv /\ [Next]_vars => CardInv'
    <2> SUFFICES ASSUME CardInv, [Next]_vars PROVE CardInv'
      OBVIOUS
    <2>1. CASE UNCHANGED vars
      BY <2>1, SameTypes
         DEF vars, streamVars, scoVars, pcmVars, callVars, CardInv, TypeOK, OwnsInUse,
             VisitedQuiet, LocksInPass, InPass
    <2>2. CASE Next
      <3>1. TypeOK'
        BY <2>2, StreamType, ScoType, ClientType DEF Next, CardInv
      <3> QED BY <2>2, <3>1, StreamKeepsCard, VisitKeepsCard, ScoKeepsCard, ClientKeepsCard
              DEF Next
    <2> QED BY <2>1, <2>2
  <1>3. CardInv => CallGetsCard
    <2> SUFFICES ASSUME CardInv, NEW t \in Slots, PassDone(t), sco_thread = t,
                        NEW s \in Pass(thread[t])
                 PROVE  /\ doing[s] \notin {"start", "transfer"}
                        /\ owner[DeviceOf(s)] = s => doing[s] = "unlisted"
      BY DEF CallGetsCard
    <2>1. s \in Streams
      BY DEF Pass, Streams
    <2>2. s \in listed => standby[s] /\ doing[s] \notin {"start", "transfer"}
      BY DEF CardInv, VisitedQuiet, PassDone
    <2>3. s \notin listed => doing[s] \in {"closed", "unlisted"}
      BY <2>1 DEF CardInv, TypeOK, StreamTypes, listed
    <2> QED BY <2>1, <2>2, <2>3 DEF CardInv, OwnsInUse
  <1> QED BY <1>1, <1>2, <1>3, PTL DEF Spec
=============================================================================
