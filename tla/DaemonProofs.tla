------------------------------ MODULE DaemonProofs ------------------------------
(***************************************************************************)
(* Proofs about the two daemons that init runs for the car.  Of swid: the   *)
(* fan controller, for every set of readings, and the backlight with the    *)
(* lights HAL in front of it, for any number of clients, calls and deaths.  *)
(* Of camd: the reaper, for a disk of any size and any number of files.     *)
(* The three share no state.                                                *)
(***************************************************************************)
EXTENDS FanControl, Backlight, Camd, SequenceTheorems, WellFoundedInduction, TLAPS

(* What the tables give: a speed of the fan, at least what the temperature   *)
(* needs, at most what it may get, and more for more heat.                   *)
LEMMA Tables ==
  ASSUME NEW t \in Int, NEW pwm \in Speeds
  PROVE  /\ increasing(t, pwm) \in Speeds
         /\ decreasing(t, pwm) \in Speeds
         /\ Least(t) \in Speeds /\ Most(t) \in Speeds
         /\ Least(t) <= Most(t)
         /\ t >= 40000 => increasing(t, pwm) = Least(t)
         /\ t < 40000 => increasing(t, pwm) = pwm /\ Least(t) = 0
         /\ t < 60000 => decreasing(t, pwm) = Most(t)
         /\ t >= 60000 => decreasing(t, pwm) = pwm /\ Most(t) = 255
  BY DEF increasing, decreasing, Least, Most, Speeds

LEMMA Monotone ==
  ASSUME NEW t \in Int, NEW u \in Int, t <= u
  PROVE  Least(t) <= Least(u) /\ Most(t) <= Most(u)
  BY DEF increasing, decreasing, Least, Most

(* The speed suits the last change too, and a repeated reading finds it      *)
(* where the controller would put it again.                                  *)
FanInv ==
    /\ TypeOK
    /\ SpeedFits
    /\ Least(lasttemp) <= lastpwm /\ lastpwm <= Most(lasttemp)
    /\ steady = 1 => lasttemp = curtemp \/ curpwm(curtemp) = lastpwm
    /\ steady \in {2, 3} => curpwm(curtemp) = lastpwm

LEMMA Reading ==
  ASSUME FanInv, NEW t \in Readings
  PROVE  /\ curpwm(t) \in Speeds
         /\ Least(t) <= curpwm(t) /\ curpwm(t) <= Most(t)
  <1> lasttemp \in Int /\ t \in Int /\ lastpwm \in Speeds
    BY FanAssumption DEF FanInv, TypeOK
  <1>s. lastpwm \in Int
    BY DEF Speeds
  <1>1. CASE t > lasttemp
    <2>1. Most(lasttemp) <= Most(t)
      BY <1>1, Monotone
    <2> QED BY <1>1, <1>s, <2>1, Tables DEF FanInv, curpwm, Speeds
  <1>2. CASE ~(t > lasttemp)
    <2>1. Least(t) <= Least(lasttemp)
      BY <1>2, Monotone
    <2> QED BY <1>2, <1>s, <2>1, Tables DEF FanInv, curpwm, Speeds
  <1> QED BY <1>1, <1>2

LEMMA InitFanInv == FanInit => FanInv
  <1> SUFFICES ASSUME FanInit PROVE FanInv
    OBVIOUS
  <1>1. Least(0) = 0 /\ Most(0) = 0
    BY DEF Least, Most, increasing, decreasing
  <1> QED BY <1>1 DEF FanInit, FanInv, TypeOK, Speeds, SpeedFits

LEMMA NextFanInv == FanInv /\ [FanNext]_fanVars => FanInv'
  <1> SUFFICES ASSUME FanInv, [FanNext]_fanVars PROVE FanInv'
    OBVIOUS
  <1>1. CASE UNCHANGED fanVars
    BY <1>1 DEF fanVars, FanInv, TypeOK, SpeedFits, curpwm
  <1>2. ASSUME NEW t \in Readings, temp_read(t) PROVE FanInv'
    <2>1. /\ lastpwm' = curpwm(t)
          /\ curtemp' = t
          /\ lasttemp' = IF curpwm(t) # lastpwm THEN t ELSE lasttemp
          /\ steady' = IF t # curtemp \/ steady = 0 THEN 1
                       ELSE IF steady < 3 THEN steady + 1 ELSE 3
      BY <1>2 DEF temp_read, Changes
    <2>t. /\ t \in Int /\ lasttemp \in Int /\ curtemp \in Int
          /\ lastpwm \in Speeds /\ curpwm(t) \in Speeds
          /\ steady \in 0 .. 3
      BY Reading, FanAssumption DEF FanInv, TypeOK
    <2>2. TypeOK'
      BY <2>1, <2>t DEF FanInv, TypeOK
    <2>3. SpeedFits'
      BY <2>1, Reading DEF SpeedFits, Least, Most
    <2>4. (Least(lasttemp) <= lastpwm /\ lastpwm <= Most(lasttemp))'
      BY <2>1, Reading DEF FanInv, Least, Most
    <2>5. lasttemp' = t \/ curpwm(t)' = lastpwm'
      <3>1. CASE curpwm(t) # lastpwm
        BY <3>1, <2>1
      <3>2. CASE curpwm(t) = lastpwm
        BY <3>2, <2>1 DEF curpwm
      <3> QED BY <3>1, <3>2
    <2>6. (steady = 1 => lasttemp = curtemp \/ curpwm(curtemp) = lastpwm)'
      BY <2>5, <2>1 DEF curpwm
    <2>7. (steady \in {2, 3} => curpwm(curtemp) = lastpwm)'
      <3> SUFFICES ASSUME steady' \in {2, 3} PROVE curpwm(curtemp)' = lastpwm'
        OBVIOUS
      <3>1. t = curtemp /\ steady \in 1 .. 3
        BY <2>1, <2>t
      <3>2. CASE curpwm(t) = lastpwm
        BY <3>2, <2>1 DEF curpwm
      <3>3. CASE curpwm(t) # lastpwm
        <4>1. steady = 1 /\ lasttemp = t
          BY <3>1, <3>3, <2>t DEF FanInv
        <4>2. lastpwm' = decreasing(t, lastpwm) /\ lasttemp' = t
          BY <4>1, <2>1, <2>t, <3>3 DEF curpwm
        <4>3. decreasing(t, decreasing(t, lastpwm)) = decreasing(t, lastpwm)
          BY <2>t, Tables
        <4> QED BY <4>2, <4>3, <2>1, <2>t DEF curpwm
      <3> QED BY <3>2, <3>3
    <2> QED BY <2>2, <2>3, <2>4, <2>6, <2>7 DEF FanInv
  <1> QED BY <1>1, <1>2 DEF FanNext

(* The variables have their types in every reachable state. *)
THEOREM TypeCorrect == FanSpec => []TypeOK
  <1>1. FanInv => TypeOK
    BY DEF FanInv
  <1> QED BY <1>1, InitFanInv, NextFanInv, PTL DEF FanSpec

(* The fan is never slower than a temperature needs nor faster than it may   *)
(* be, for any sequence of readings (temp_read).                             *)
THEOREM FanFits == FanSpec => []SpeedFits
  <1>1. FanInv => SpeedFits
    BY DEF FanInv
  <1> QED BY <1>1, InitFanInv, NextFanInv, PTL DEF FanSpec

(* From the third equal reading on, the fan is left alone.                   *)
THEOREM FanSettles == FanSpec => Settles
  <1>1. ASSUME FanInv, [FanNext]_fanVars PROVE [steady' = 3 => lastpwm' = lastpwm]_fanVars
    <2>1. ASSUME NEW t \in Readings, temp_read(t), steady' = 3
          PROVE  lastpwm' = lastpwm
      <3>1. steady \in {2, 3} /\ t = curtemp
        BY <1>1, <2>1 DEF FanInv, TypeOK, temp_read
      <3> QED BY <1>1, <2>1, <3>1 DEF FanInv, temp_read
    <2> QED BY <1>1, <2>1 DEF FanNext
  <1> QED BY <1>1, InitFanInv, NextFanInv, PTL DEF FanSpec, Settles

-----------------------------------------------------------------------------
(* The backlight: g_lock lets one call through at a time, the cached value is *)
(* that of the last call that has passed the screen, and so is what is shown *)
(* unless nothing else was asked for since the screen missed a value.        *)
CallTypes ==
    /\ calls \in 0 .. MaxCalls
    /\ client \in [Clients -> [at : {"idle", "hid", "connect", "write", "close"},
                               call : 0 .. MaxCalls]]
    /\ level \in [Calls -> Int]

OneCall ==
    /\ \A c, d \in Clients : client[c] # Idle /\ client[d] # Idle => c = d
    /\ \A c \in Clients : client[c] # Idle => client[c].call = calls /\ calls > 0

Passed == IF \E c \in Clients : client[c].at = "hid" THEN calls - 1 ELSE calls

CacheFollows ==
    /\ plugs \in Nat /\ hid_fd \in 0 .. plugs /\ screen \in 0 .. plugs
    /\ missed \in 0 .. calls
    /\ lastHID = Asked(Passed)
    /\ screen # 0 /\ hid_fd \in {0, screen} =>
          hid = lastHID \/ \A n \in missed .. Passed : Asked(n) = lastHID

(* What swid has sent on, reads and has queued are calls in their order; the  *)
(* call with the lock comes after them until it has connected, and after     *)
(* what was sent on until it has written.                                    *)
QueueTypes ==
    /\ lcd \in Nat /\ served \in Nat
    /\ queue \in Seq(Nat)
    /\ sent \subseteq Nat \ {0}

InOrder ==
    /\ lcd <= calls /\ served <= calls
    /\ served \in sent => lcd < served
    /\ \A n \in sent : n <= calls
    /\ \A i \in 1 .. Len(queue) : /\ lcd < queue[i] /\ served < queue[i] /\ queue[i] <= calls
                                  /\ \A j \in 1 .. Len(queue) : i < j => queue[i] < queue[j]

AheadOfAll ==
    \A c \in Clients :
       /\ client[c].at \in {"hid", "connect", "write"} => lcd < calls /\ calls \notin sent
       /\ client[c].at \in {"hid", "connect"} =>
             served < calls /\ \A i \in 1 .. Len(queue) : queue[i] < calls

BacklightInv ==
    /\ CallTypes
    /\ OneCall
    /\ CacheFollows
    /\ QueueTypes
    /\ InOrder
    /\ AheadOfAll

LEMMA BacklightInit == Init => BacklightInv
  <1> SUFFICES ASSUME Init PROVE BacklightInv
    OBVIOUS
  <1>1. MaxCalls \in Nat
    BY BacklightAssumption
  <1>2. CallTypes /\ OneCall /\ CacheFollows
    BY <1>1 DEF Init, Idle, CallTypes, OneCall, CacheFollows, Passed, Asked
  <1>3. queue \in Seq(Nat) /\ Len(queue) = 0
    BY EmptySeq DEF Init
  <1>4. QueueTypes /\ InOrder /\ AheadOfAll
    BY <1>3 DEF Init, Idle, QueueTypes, InOrder, AheadOfAll
  <1> QED
    BY <1>2, <1>4 DEF BacklightInv

(* What a step of a call leaves of the others                                *)
LEMMA OthersIdle ==
    ASSUME BacklightInv, NEW c \in Clients, client[c] # Idle
    PROVE  /\ calls \in Nat \ {0} /\ client[c].call = calls
           /\ \A d \in Clients : d # c => client[d] = Idle
  BY BacklightAssumption DEF BacklightInv, CallTypes, OneCall

(* A step that leaves the calls, the screen and the calls past it alone       *)
LEMMA CacheKept ==
    ASSUME BacklightInv, UNCHANGED <<calls, level, usb>>, Passed' = Passed
    PROVE  CacheFollows'
  BY DEF BacklightInv, CacheFollows, usb, Asked, new_brightness

LEMMA LockKeeps == ASSUME BacklightInv, NEW c \in Clients, Lock(c) PROVE BacklightInv'
  <1>1. /\ \A d \in Clients : client[d] = Idle
        /\ calls' = calls + 1 /\ calls < MaxCalls
        /\ client' = [client EXCEPT ![c] = [at |-> "hid", call |-> calls']]
        /\ \E b \in Levels : level' = [level EXCEPT ![calls'] = b]
        /\ UNCHANGED <<usb, queue, served, lcd, sent>>
    BY DEF Lock, LockFree, swid
  <1>2. MaxCalls \in Nat /\ calls \in Nat /\ calls' \in 1 .. MaxCalls
    BY <1>1, BacklightAssumption DEF BacklightInv, CallTypes
  <1>3. CallTypes'
    BY <1>1, <1>2, BacklightAssumption DEF BacklightInv, CallTypes, Calls
  <1>4. /\ client'[c] = [at |-> "hid", call |-> calls']
        /\ \A d \in Clients : d # c => client'[d] = Idle
    BY <1>1 DEF BacklightInv, CallTypes
  <1>5. OneCall'
    BY <1>2, <1>4 DEF OneCall, Idle
  <1>6. CacheFollows'
    <2>1. Passed = calls /\ Passed' = calls
      BY <1>1, <1>2, <1>4 DEF Passed, Idle
    <2>2. \A n \in 0 .. calls : Asked(n)' = Asked(n)
      BY <1>1, <1>2 DEF Asked, new_brightness, BacklightInv, CallTypes, Calls
    <2>3. missed \in 0 .. calls
      BY DEF BacklightInv, CacheFollows
    <2>4. lastHID' = Asked(Passed)'
      BY <1>1, <1>2, <2>1, <2>2 DEF BacklightInv, CacheFollows, usb
    <2>5. \A n \in missed .. calls : n \in 0 .. calls
      BY <1>2, <2>3
    <2> QED
      BY <1>1, <1>2, <2>1, <2>2, <2>3, <2>4, <2>5 DEF BacklightInv, CacheFollows, usb
  <1>7. QueueTypes'
    BY <1>1 DEF BacklightInv, QueueTypes
  <1>8. /\ lcd \in Nat /\ served \in Nat /\ \A i \in 1 .. Len(queue) : queue[i] \in Nat
    BY ElementOfSeq DEF BacklightInv, QueueTypes
  <1>9. InOrder'
    <2>1. \A n \in sent : n <= calls'
      BY <1>1, <1>2 DEF BacklightInv, InOrder, QueueTypes
    <2> QED
      BY <1>1, <1>2, <1>8, <2>1 DEF BacklightInv, InOrder
  <1>10. AheadOfAll'
    BY <1>1, <1>2, <1>4, <1>8 DEF BacklightInv, InOrder, AheadOfAll, Idle
  <1> QED
    BY <1>3, <1>5, <1>6, <1>7, <1>9, <1>10 DEF BacklightInv

(* A step of a call to another place, which leaves the numbers alone          *)
LEMMA Moves ==
    ASSUME BacklightInv, NEW c \in Clients, client[c] # Idle, calls' = calls, level' = level,
           NEW at \in {"hid", "connect", "write", "close"},
           client' = [client EXCEPT ![c].at = at] \/ client' = [client EXCEPT ![c] = Idle]
    PROVE  /\ CallTypes' /\ OneCall'
           /\ \A d \in Clients : d # c => client'[d].at = "idle"
           /\ client'[c].at \in {at, "idle"}
  <1>1. MaxCalls \in Nat
    BY BacklightAssumption
  <1>2. /\ calls \in Nat \ {0} /\ client[c].call = calls
        /\ \A d \in Clients : d # c => client[d] = Idle
    BY OthersIdle
  <1>3. client \in [Clients -> [at : {"idle", "hid", "connect", "write", "close"},
                               call : 0 .. MaxCalls]]
    BY DEF BacklightInv, CallTypes
  <1>4. CallTypes'
    BY <1>1, <1>3 DEF BacklightInv, CallTypes, Idle
  <1>5. /\ \A d \in Clients : d # c => client'[d] = Idle
        /\ client'[c] = Idle \/ (client'[c].at = at /\ client'[c].call = calls)
    BY <1>2, <1>3
  <1>6. OneCall'
    BY <1>2, <1>5 DEF OneCall
  <1> QED
    BY <1>4, <1>5, <1>6 DEF Idle

LEMMA SetHidKeeps == ASSUME BacklightInv, NEW c \in Clients, SetHid(c) PROVE BacklightInv'
  <1>1. /\ client[c].at = "hid" /\ client' = [client EXCEPT ![c].at = "connect"]
        /\ lastHID' = new_brightness(level[client[c].call])
        /\ UNCHANGED <<level, calls, screen, plugs, queue, served, lcd, sent>>
    BY DEF SetHid, Goes, swid
  <1>2. client[c] # Idle
    BY <1>1 DEF Idle
  <1>3. /\ CallTypes' /\ OneCall'
        /\ \A d \in Clients : d # c => client'[d].at = "idle"
        /\ client'[c].at = "connect"
    BY <1>1, <1>2, Moves DEF BacklightInv, CallTypes
  <1>4. CacheFollows'
    <2>1. calls \in Nat \ {0} /\ client[c].call = calls
      BY <1>2, OthersIdle
    <2>2. Passed = calls - 1 /\ Passed' = calls
      BY <1>1, <1>3 DEF Passed
    <2>3. \A n : Asked(n)' = Asked(n)
      BY <1>1 DEF Asked, new_brightness
    <2>4. lastHID' = Asked(calls)
      BY <1>1, <2>1 DEF Asked
    <2>5. CASE lastHID' = lastHID /\ UNCHANGED <<hid_fd, hid, missed>>
      <3>1. \A n \in missed .. calls : n = calls \/ n \in missed .. (calls - 1)
        BY <2>1 DEF BacklightInv, CacheFollows
      <3> QED
        BY <1>1, <2>1, <2>2, <2>3, <2>4, <2>5, <3>1 DEF BacklightInv, CacheFollows
    <2>6. CASE hid_fd' = openhid /\ writehid(openhid, lastHID') /\ UNCHANGED missed
      BY <1>1, <2>1, <2>2, <2>3, <2>4, <2>6
      DEF BacklightInv, CacheFollows, openhid, writehid
    <2>7. CASE hid_fd' \in {hid_fd, openhid} /\ missed' = client[c].call
      BY <1>1, <2>1, <2>2, <2>3, <2>4, <2>7 DEF BacklightInv, CacheFollows, openhid
    <2> QED
      BY <1>1, <2>5, <2>6, <2>7 DEF SetHid, FailsOnScreen
  <1>5. QueueTypes' /\ InOrder'
    BY <1>1 DEF BacklightInv, QueueTypes, InOrder
  <1>6. AheadOfAll'
    BY <1>1, <1>3 DEF BacklightInv, AheadOfAll
  <1> QED
    BY <1>3, <1>4, <1>5, <1>6 DEF BacklightInv

LEMMA ConnectKeeps == ASSUME BacklightInv, NEW c \in Clients, Connect(c) PROVE BacklightInv'
  <1>1. /\ client[c].at = "connect" /\ client' = [client EXCEPT ![c].at = "write"]
        /\ queue' = Append(queue, client[c].call)
        /\ UNCHANGED <<level, calls, usb, served, lcd, sent>>
    BY DEF Connect, Goes
  <1>2. client[c] # Idle
    BY <1>1 DEF Idle
  <1>3. /\ CallTypes' /\ OneCall'
        /\ \A d \in Clients : d # c => client'[d].at = "idle"
        /\ client'[c].at \in {"write", "idle"}
    BY <1>1, <1>2, Moves
  <1>4. CacheFollows'
    <2>1. Passed = calls /\ Passed' = calls'
      BY <1>1, <1>2, <1>3, OthersIdle DEF Passed, Idle
    <2> QED
      BY <1>1, <2>1, CacheKept
  <1>5. PICK n \in Nat \ {0}, l \in Nat : n = calls /\ l = Len(queue) /\ client[c].call = n
    BY <1>2, OthersIdle, LenProperties DEF BacklightInv, QueueTypes
  <1>6. /\ queue' \in Seq(Nat) /\ Len(queue') = l + 1 /\ queue'[l + 1] = n
        /\ \A i \in 1 .. l : queue'[i] = queue[i] /\ queue[i] \in Nat
    BY <1>1, <1>5, AppendProperties, ElementOfSeq DEF BacklightInv, QueueTypes
  <1>7. QueueTypes'
    BY <1>1, <1>6 DEF BacklightInv, QueueTypes
  <1>8. /\ lcd < n /\ served < n /\ \A i \in 1 .. l : queue[i] < n
        /\ \A i \in 1 .. l : /\ lcd < queue[i] /\ served < queue[i] /\ queue[i] <= n
                             /\ \A j \in 1 .. l : i < j => queue[i] < queue[j]
    BY <1>1, <1>5 DEF BacklightInv, AheadOfAll, InOrder
  <1>9. \A i \in 1 .. (l + 1) : i \in 1 .. l \/ i = l + 1
    BY <1>5
  <1>10. InOrder'
    <2>1. \A i \in 1 .. (l + 1) : lcd < queue'[i] /\ served < queue'[i] /\ queue'[i] <= n
      BY <1>5, <1>6, <1>8, <1>9
    <2>2. \A i, j \in 1 .. (l + 1) : i < j => queue'[i] < queue'[j]
      <3>1. \A i, j \in 1 .. (l + 1) : i < j => i \in 1 .. l
        BY <1>5
      <3> QED
        BY <3>1, <1>6, <1>8, <1>9
    <2> QED
      BY <1>1, <1>5, <1>6, <2>1, <2>2 DEF BacklightInv, InOrder
  <1>11. AheadOfAll'
    BY <1>1, <1>3, <1>5, <1>8 DEF AheadOfAll, BacklightInv
  <1> QED
    BY <1>3, <1>4, <1>7, <1>10, <1>11 DEF BacklightInv

LEMMA RefusedKeeps == ASSUME BacklightInv, NEW c \in Clients, Refused(c) PROVE BacklightInv'
  <1>1. /\ client[c].at = "connect" /\ client' = [client EXCEPT ![c] = Idle]
        /\ UNCHANGED <<level, calls, usb, queue, served, lcd, sent>>
    BY DEF Refused, Unlocked, swid
  <1>2. client[c] # Idle
    BY <1>1 DEF Idle
  <1>3. /\ CallTypes' /\ OneCall'
        /\ \A d \in Clients : client'[d].at = "idle"
    BY <1>1, <1>2, Moves DEF BacklightInv, CallTypes, Idle
  <1>4. CacheFollows'
    <2>1. Passed = calls /\ Passed' = calls'
      BY <1>1, <1>2, <1>3, OthersIdle DEF Passed, Idle
    <2> QED
      BY <1>1, <2>1, CacheKept
  <1>5. QueueTypes' /\ InOrder' /\ AheadOfAll'
    BY <1>1, <1>3 DEF BacklightInv, QueueTypes, InOrder, AheadOfAll
  <1> QED
    BY <1>3, <1>4, <1>5 DEF BacklightInv

LEMMA WriteKeeps == ASSUME BacklightInv, NEW c \in Clients, WriteByte(c) PROVE BacklightInv'
  <1>1. /\ client[c].at = "write" /\ client' = [client EXCEPT ![c].at = "close"]
        /\ sent' = sent \union {client[c].call}
        /\ UNCHANGED <<level, calls, usb, queue, served, lcd>>
    BY DEF WriteByte, Goes, swid
  <1>2. client[c] # Idle
    BY <1>1 DEF Idle
  <1>3. /\ CallTypes' /\ OneCall'
        /\ \A d \in Clients : client'[d].at \in {"close", "idle"}
    BY <1>1, <1>2, Moves
  <1>4. CacheFollows'
    <2>1. Passed = calls /\ Passed' = calls'
      BY <1>1, <1>2, <1>3, OthersIdle DEF Passed, Idle
    <2> QED
      BY <1>1, <2>1, CacheKept
  <1>5. calls \in Nat \ {0} /\ client[c].call = calls /\ lcd < calls
    BY <1>1, <1>2, OthersIdle DEF BacklightInv, AheadOfAll
  <1>6. QueueTypes' /\ InOrder'
    BY <1>1, <1>5 DEF BacklightInv, QueueTypes, InOrder
  <1>7. AheadOfAll'
    BY <1>3 DEF AheadOfAll
  <1> QED
    BY <1>3, <1>4, <1>6, <1>7 DEF BacklightInv

LEMMA CloseKeeps == ASSUME BacklightInv, NEW c \in Clients, CloseSocket(c) PROVE BacklightInv'
  <1>1. /\ client[c].at = "close" /\ client' = [client EXCEPT ![c] = Idle]
        /\ UNCHANGED <<level, calls, usb, queue, served, lcd, sent>>
    BY DEF CloseSocket, Unlocked, swid
  <1>2. client[c] # Idle
    BY <1>1 DEF Idle
  <1>3. /\ CallTypes' /\ OneCall'
        /\ \A d \in Clients : client'[d].at = "idle"
    BY <1>1, <1>2, Moves DEF BacklightInv, CallTypes, Idle
  <1>4. CacheFollows'
    <2>1. Passed = calls /\ Passed' = calls'
      BY <1>1, <1>2, <1>3, OthersIdle DEF Passed, Idle
    <2> QED
      BY <1>1, <2>1, CacheKept
  <1>5. QueueTypes' /\ InOrder' /\ AheadOfAll'
    BY <1>1, <1>3 DEF BacklightInv, QueueTypes, InOrder, AheadOfAll
  <1> QED
    BY <1>3, <1>4, <1>5 DEF BacklightInv

(* swid takes the connections in their order; when it dies they are gone.    *)
LEMMA AcceptKeeps == ASSUME BacklightInv, Accept PROVE BacklightInv'
  <1>1. /\ served = 0 /\ queue # <<>> /\ served' = Head(queue) /\ queue' = Tail(queue)
        /\ UNCHANGED <<client, level, calls, usb, lcd, sent>>
    BY DEF Accept, callers
  <1>2. CallTypes' /\ OneCall' /\ CacheFollows'
    <2>1. Passed' = Passed
      BY <1>1 DEF Passed
    <2> QED
      BY <1>1, <2>1, CacheKept DEF BacklightInv, CallTypes, OneCall
  <1>3. PICK l \in Nat : l = Len(queue)
    BY LenProperties DEF BacklightInv, QueueTypes
  <1>4. l # 0 /\ served' = queue[1] /\ queue[1] \in Nat
    BY <1>1, <1>3, EmptySeq, HeadTailProperties DEF BacklightInv, QueueTypes
  <1>5. /\ queue' \in Seq(Nat) /\ Len(queue') = l - 1
        /\ \A i \in 1 .. (l - 1) : queue'[i] = queue[i + 1]
    BY <1>1, <1>3, HeadTailProperties DEF BacklightInv, QueueTypes
  <1>6. \A i \in 1 .. (l - 1) : i + 1 \in 1 .. l /\ 1 < i + 1
    OBVIOUS
  <1>7. 1 \in 1 .. l /\ \A i, j \in 1 .. (l - 1) : i < j => i + 1 < j + 1
    BY <1>3, <1>4
  <1>8. QueueTypes'
    BY <1>1, <1>4, <1>5 DEF BacklightInv, QueueTypes
  <1>9. \A i \in 1 .. l : /\ lcd < queue[i] /\ queue[i] <= calls
                          /\ \A j \in 1 .. l : i < j => queue[i] < queue[j]
    BY <1>3 DEF BacklightInv, InOrder
  <1>10. InOrder'
    <2>1. /\ lcd' <= calls' /\ served' <= calls' /\ (served' \in sent' => lcd' < served')
      BY <1>1, <1>4, <1>7, <1>9 DEF BacklightInv, InOrder
    <2>2. \A i \in 1 .. (l - 1) : lcd < queue'[i] /\ served' < queue'[i] /\ queue'[i] <= calls
      BY <1>4, <1>5, <1>6, <1>7, <1>9
    <2>3. \A i, j \in 1 .. (l - 1) : i < j => queue'[i] < queue'[j]
      BY <1>5, <1>6, <1>7, <1>9
    <2> QED
      BY <1>1, <1>5, <2>1, <2>2, <2>3 DEF BacklightInv, InOrder
  <1>11. AheadOfAll'
    BY <1>1, <1>3, <1>4, <1>5, <1>6, <1>7 DEF BacklightInv, AheadOfAll
  <1> QED
    BY <1>2, <1>8, <1>10, <1>11 DEF BacklightInv

LEMMA ReadKeeps == ASSUME BacklightInv, ReadByte PROVE BacklightInv'
  <1>1. /\ served \in sent /\ lcd' = served /\ sent' = sent \ {served}
        /\ UNCHANGED <<client, level, calls, usb, served, queue>>
    BY DEF ReadByte, callers
  <1>2. CallTypes' /\ OneCall' /\ CacheFollows'
    <2>1. Passed' = Passed
      BY <1>1 DEF Passed
    <2> QED
      BY <1>1, <2>1, CacheKept DEF BacklightInv, CallTypes, OneCall
  <1>3. QueueTypes' /\ InOrder'
    BY <1>1 DEF BacklightInv, QueueTypes, InOrder
  <1>4. AheadOfAll'
    <2>1. lcd' <= calls /\ served \in Nat /\ calls \in Nat
      BY <1>1, BacklightAssumption DEF BacklightInv, InOrder, QueueTypes, CallTypes
    <2> QED
      BY <1>1, <2>1 DEF BacklightInv, AheadOfAll
  <1> QED
    BY <1>2, <1>3, <1>4 DEF BacklightInv

LEMMA ServiceKeeps == ASSUME BacklightInv, Eof \/ Die \/ Restart PROVE BacklightInv'
  <1>1. /\ UNCHANGED <<client, level, calls, usb, lcd, sent>>
        /\ served' \in {served, 0} /\ queue' \in {queue, <<>>}
    BY DEF Eof, Die, Restart, callers
  <1>2. CallTypes' /\ OneCall' /\ CacheFollows'
    <2>1. Passed' = Passed
      BY <1>1 DEF Passed
    <2> QED
      BY <1>1, <2>1, CacheKept DEF BacklightInv, CallTypes, OneCall
  <1>3. QueueTypes'
    <2>1. queue' \in Seq(Nat)
      BY <1>1, EmptySeq DEF BacklightInv, QueueTypes
    <2> QED
      BY <1>1, <2>1 DEF BacklightInv, QueueTypes
  <1>4. queue' = queue \/ Len(queue') = 0
    BY <1>1, EmptySeq
  <1>5. \A i \in 1 .. Len(queue) : queue[i] \in Nat
    BY ElementOfSeq DEF BacklightInv, QueueTypes
  <1>6. lcd \in Nat /\ served \in Nat /\ calls \in Nat /\ 0 \notin sent
    BY BacklightAssumption DEF BacklightInv, QueueTypes, CallTypes
  <1>7. InOrder'
    <2>1. \A i \in 1 .. Len(queue) : served' < queue[i]
      BY <1>1, <1>5, <1>6 DEF BacklightInv, InOrder
    <2> QED
      BY <1>1, <1>4, <1>6, <2>1 DEF BacklightInv, InOrder
  <1>8. AheadOfAll'
    BY <1>1, <1>4, <1>6, OthersIdle DEF BacklightInv, AheadOfAll, Idle
  <1> QED
    BY <1>2, <1>3, <1>7, <1>8 DEF BacklightInv

LEMMA PlugKeeps == ASSUME BacklightInv, PlugIn \/ PullOut PROVE BacklightInv'
  <1>1. /\ UNCHANGED <<client, level, calls, lastHID, hid_fd, queue, served, lcd, sent>>
        /\ \/ plugs' = plugs + 1 /\ screen' = plugs + 1 /\ missed' = calls
           \/ screen' = 0 /\ UNCHANGED <<plugs, missed>>
    BY DEF PlugIn, PullOut, callers, swid
  <1>2. Passed' = Passed /\ \A n : Asked(n)' = Asked(n)
    BY <1>1 DEF Passed, Asked, new_brightness
  <1>3. calls \in Nat /\ Passed \in {calls, calls - 1}
    BY BacklightAssumption DEF Passed, BacklightInv, CallTypes
  <1>4. \A n \in calls .. Passed : n = Passed
    BY <1>3
  <1>5. CacheFollows'
    BY <1>1, <1>2, <1>3, <1>4 DEF BacklightInv, CacheFollows
  <1> QED
    BY <1>1, <1>5 DEF BacklightInv, CallTypes, OneCall, QueueTypes, InOrder, AheadOfAll

LEMMA BacklightStep == BacklightInv /\ [Next]_vars => BacklightInv'
  <1> SUFFICES ASSUME BacklightInv, [Next]_vars PROVE BacklightInv'
    OBVIOUS
  <1>1. ASSUME NEW c \in Clients, SetLight(c) PROVE BacklightInv'
    BY <1>1, LockKeeps, SetHidKeeps, ConnectKeeps, RefusedKeeps, WriteKeeps, CloseKeeps
    DEF SetLight
  <1>2. CASE bl_read
    BY <1>2, AcceptKeeps, ReadKeeps, ServiceKeeps DEF bl_read
  <1>3. CASE Die \/ Restart
    BY <1>3, ServiceKeeps
  <1>4. CASE PlugIn \/ PullOut
    BY <1>4, PlugKeeps
  <1>5. CASE UNCHANGED vars
    <2>1. Passed' = Passed
      BY <1>5 DEF Passed, vars, callers
    <2> QED
      BY <1>5, <2>1, CacheKept DEF vars, callers, swid, BacklightInv, CallTypes, OneCall,
                                   QueueTypes, InOrder, AheadOfAll
  <1> QED
    BY <1>1, <1>2, <1>3, <1>4, <1>5 DEF Next

LEMMA BacklightInductive == Spec => []BacklightInv
  BY BacklightInit, BacklightStep, PTL DEF Spec

(* When no call is under way a USB screen shows the brightness of the last    *)
(* call, whichever threads made the calls (set_light_backlight, g_lock), or  *)
(* nothing else was asked for since it was plugged in or missed a value, or  *)
(* the descriptor that is kept is of a screen that is gone.                  *)
THEOREM ScreenFollowsCalls == Spec => []HidShowsLast
  <1>1. BacklightInv => HidShowsLast
    BY DEF BacklightInv, CacheFollows, Passed, HidShowsLast, Idle
  <1> QED
    BY <1>1, BacklightInductive, PTL

(* swid sends on the values in the order of the calls, none twice, also after *)
(* it has died (bl_read, accept and the socket's queue).                     *)
THEOREM LcdFollowsCalls == Spec => LcdAdvances
  <1>1. ASSUME BacklightInv, [Next]_vars PROVE [lcd' # lcd => lcd' > lcd]_vars
    <2> SUFFICES ASSUME lcd' # lcd PROVE lcd' > lcd
      OBVIOUS
    <2>1. ReadByte
      BY <1>1 DEF Next, SetLight, Lock, SetHid, Connect, Refused, WriteByte, CloseSocket,
                  PlugIn, PullOut, bl_read, Accept, Eof, Die, Restart, vars, callers, swid
    <2> QED
      BY <1>1, <2>1 DEF ReadByte, BacklightInv, InOrder, QueueTypes
  <1> QED
    BY <1>1, BacklightInductive, PTL DEF Spec, LcdAdvances

-----------------------------------------------------------------------------
(* The reaper's list *)

(* Between two files that were written without the clock being set back the   *)
(* modification times are in the order of writing.                           *)
SortedByAge(names) ==
    \A g, f \in DOMAIN names : g < f => SetBack(g, f) \/ names[g] < names[f]

(* The next file will be the youngest of those written since then.           *)
UpToNow ==
    \A g \in files : (\E b \in backs : g <= b) \/ mtime[g] <= 60 * written + wall

(* Files that the reaper has not in its list are younger than all that it     *)
(* has, but for those it could not delete.                                   *)
ListIsOlder ==
    \A g \in files \ DOMAIN namelist : g \in spared \/ \A f \in DOMAIN namelist : f < g

CamdTypes ==
    /\ written \in Nat
    /\ wall \in Int
    /\ backs \subseteq 0 .. written
    /\ files \subseteq 1 .. written
    /\ \A f \in files : mtime[f] \in Int
    /\ DOMAIN namelist \subseteq files
    /\ \A f \in DOMAIN namelist : namelist[f] \in Int

CamdInv ==
    /\ CamdTypes
    /\ SortedByAge(mtime)
    /\ SortedByAge(namelist)
    /\ UpToNow
    /\ ListIsOlder

camdState == <<written, wall, backs, mtime, namelist, spared>>

LEMMA CamdInitHolds == CamdInit => CamdInv
  BY DEF CamdInit, CamdInv, CamdTypes, SortedByAge, UpToNow, ListIsOlder, Empty, files

LEMMA CamdUnchanged == CamdInv /\ UNCHANGED camdState => CamdInv'
  BY DEF CamdInv, CamdTypes, SortedByAge, UpToNow, ListIsOlder, SetBack, files, camdState

LEMMA RecordKeeps ==
  ASSUME CamdInv, Write
  PROVE  CamdInv'
  <1>1. /\ written' = written + 1
        /\ mtime' = [f \in files \union {written + 1} |->
                        IF f = written + 1 THEN 60 * f + wall ELSE mtime[f]]
        /\ UNCHANGED <<wall, backs, namelist, spared>>
    BY DEF Write, clock, reap
  <1>2. /\ files' = files \union {written + 1} /\ written + 1 \notin files
        /\ mtime'[written + 1] = 60 * (written + 1) + wall
        /\ \A f \in files : f \in Nat /\ f < written + 1 /\ mtime'[f] = mtime[f]
    BY <1>1 DEF CamdInv, CamdTypes, files
  <1>3. CamdTypes'
    BY <1>1, <1>2 DEF CamdInv, CamdTypes
  <1>4. SortedByAge(mtime)'
    <2> SUFFICES ASSUME NEW g \in files', NEW f \in files', g < f, ~SetBack(g, f)
                 PROVE  mtime'[g] < mtime'[f]
      BY <1>1 DEF SortedByAge, SetBack, files
    <2>1. CASE f \in files /\ g \in files
      BY <1>2, <2>1 DEF CamdInv, SortedByAge, files
    <2>2. CASE f = written + 1
      <3>1. g \in files
        BY <1>2, <2>2
      <3>2. ~\E b \in backs : g <= b
        BY <2>2 DEF CamdInv, CamdTypes, SetBack
      <3>3. mtime[g] <= 60 * written + wall
        BY <3>1, <3>2 DEF CamdInv, UpToNow
      <3> QED
        BY <1>2, <2>2, <3>1, <3>3 DEF CamdInv, CamdTypes
    <2>3. ~(g = written + 1 /\ f \in files)
      <3>1. f \in files => f \in Nat /\ f < written + 1
        BY <1>2
      <3>2. written \in Nat
        BY DEF CamdInv, CamdTypes
      <3> QED
        BY <3>1, <3>2
    <2> QED
      BY <1>2, <2>1, <2>2, <2>3
  <1>5. SortedByAge(namelist)'
    BY <1>1 DEF CamdInv, SortedByAge, SetBack
  <1>6. UpToNow'
    <2> SUFFICES ASSUME NEW g \in files', ~\E b \in backs : g <= b
                 PROVE  mtime'[g] <= 60 * (written + 1) + wall
      BY <1>1 DEF UpToNow
    <2>1. CASE g \in files
      <3>1. mtime[g] <= 60 * written + wall
        BY <2>1 DEF CamdInv, UpToNow
      <3> QED
        BY <1>2, <2>1, <3>1 DEF CamdInv, CamdTypes
    <2>2. CASE g = written + 1
      BY <1>2, <2>2 DEF CamdInv, CamdTypes
    <2> QED
      BY <1>2, <2>1, <2>2
  <1>7. ListIsOlder'
    <2> SUFFICES ASSUME NEW g \in files', g \notin DOMAIN namelist, g \notin spared,
                        NEW f \in DOMAIN namelist
                 PROVE  f < g
      BY <1>1 DEF ListIsOlder
    <2>1. f \in files
      BY DEF CamdInv, CamdTypes
    <2>2. CASE g \in files
      BY <2>2 DEF CamdInv, ListIsOlder
    <2>3. CASE g = written + 1
      BY <1>2, <2>1, <2>3
    <2> QED
      BY <1>2, <2>2, <2>3
  <1> QED
    BY <1>3, <1>4, <1>5, <1>6, <1>7 DEF CamdInv

LEMMA JumpKeeps ==
  ASSUME CamdInv, Jump
  PROVE  CamdInv'
  <1>1. PICK j \in Int :
           /\ wall' = wall + j
           /\ mtime' = [f \in files |-> IF open /\ f = written THEN mtime[f] + j ELSE mtime[f]]
           /\ backs' = IF j < 0 THEN backs \union {written} ELSE backs
           /\ UNCHANGED <<written, namelist, spared>>
    BY CamdAssumption DEF Jump, reap
  <1>2. /\ files' = files
        /\ \A f \in files : f \in Nat /\ f <= written /\ mtime[f] \in Int
        /\ \A f \in files : f < written => mtime'[f] = mtime[f]
        /\ \A f \in files : mtime'[f] \in {mtime[f], mtime[f] + j}
        /\ written \in Nat /\ wall \in Int
    BY <1>1 DEF CamdInv, CamdTypes, files
  <1>3. CamdTypes'
    BY <1>1, <1>2 DEF CamdInv, CamdTypes
  <1>4. \A g, f \in files : SetBack(g, f) => SetBack(g, f)'
    BY <1>1 DEF SetBack
  <1>5. SortedByAge(mtime)'
    <2> SUFFICES ASSUME NEW g \in files, NEW f \in files, g < f, ~SetBack(g, f)'
                 PROVE  mtime'[g] < mtime'[f]
      BY <1>2 DEF SortedByAge, files
    <2>1. mtime[g] < mtime[f]
      BY <1>4 DEF CamdInv, SortedByAge, files
    <2>2. mtime'[g] = mtime[g]
      BY <1>2
    <2>3. CASE mtime'[f] = mtime[f]
      BY <2>1, <2>2, <2>3
    <2>4. CASE mtime'[f] # mtime[f]
      <3>1. f = written /\ mtime'[f] = mtime[f] + j
        BY <1>2, <2>4
      <3>2. ~(j < 0)
        BY <1>1, <1>2, <3>1 DEF SetBack
      <3> QED
        BY <1>2, <2>1, <2>2, <3>1, <3>2
    <2> QED
      BY <2>3, <2>4
  <1>6. SortedByAge(namelist)'
    BY <1>1, <1>4 DEF CamdInv, CamdTypes, SortedByAge
  <1>7. UpToNow'
    <2> SUFFICES ASSUME NEW g \in files, ~\E b \in backs' : g <= b
                 PROVE  mtime'[g] <= 60 * written + (wall + j)
      BY <1>1, <1>2 DEF UpToNow
    <2>1. ~(j < 0) /\ ~\E b \in backs : g <= b
      BY <1>1, <1>2
    <2>2. mtime[g] <= 60 * written + wall
      BY <2>1 DEF CamdInv, UpToNow
    <2> QED
      BY <1>2, <2>1, <2>2
  <1>8. ListIsOlder'
    BY <1>1, <1>2 DEF CamdInv, ListIsOlder
  <1> QED
    BY <1>3, <1>5, <1>6, <1>7, <1>8 DEF CamdInv

LEMMA ScanKeeps ==
  ASSUME CamdInv, ReapScan \/ ReapDone
  PROVE  CamdInv'
  <1>1. UNCHANGED <<written, wall, backs, mtime, spared>> /\ namelist' \in {mtime, Empty}
    BY DEF ReapScan, ReapDone, disk, clock
  <1>2. CASE namelist' = mtime
    BY <1>1, <1>2 DEF CamdInv, CamdTypes, SortedByAge, UpToNow, ListIsOlder, SetBack, files
  <1>3. CASE namelist' = Empty
    BY <1>1, <1>3 DEF CamdInv, CamdTypes, SortedByAge, UpToNow, ListIsOlder, SetBack, files,
                      Empty
  <1> QED
    BY <1>1, <1>2, <1>3

LEMMA UnlinkKeeps ==
  ASSUME CamdInv, Unlink
  PROVE  CamdInv'
  <1>1. PICK f \in DOMAIN namelist :
           /\ namelist' = Without(namelist, f)
           /\ \/ mtime' = Without(mtime, f) /\ UNCHANGED spared
              \/ spared' = spared \union {f} /\ UNCHANGED mtime
           /\ UNCHANGED <<written, wall, backs>>
    BY DEF Unlink, NextReaped, clock
  <1>2. /\ DOMAIN namelist' = DOMAIN namelist \ {f}
        /\ \A g \in DOMAIN namelist' : namelist'[g] = namelist[g]
    BY <1>1 DEF Without
  <1>3. /\ files' \subseteq files /\ \A g \in files' : mtime'[g] = mtime[g]
        /\ files' \in {files, files \ {f}}
        /\ files' = files => f \in spared' \/ f \notin files
    BY <1>1 DEF Without, files
  <1>4. CamdTypes'
    BY <1>1, <1>2, <1>3 DEF CamdInv, CamdTypes
  <1>5. SortedByAge(mtime)'
    BY <1>1, <1>3 DEF CamdInv, SortedByAge, SetBack, files
  <1>6. SortedByAge(namelist)'
    BY <1>1, <1>2 DEF CamdInv, SortedByAge, SetBack
  <1>7. UpToNow'
    BY <1>1, <1>3 DEF CamdInv, UpToNow
  <1>8. ListIsOlder'
    BY <1>1, <1>2, <1>3 DEF CamdInv, ListIsOlder
  <1> QED
    BY <1>4, <1>5, <1>6, <1>7, <1>8 DEF CamdInv

LEMMA CamdStep == CamdInv /\ [CamdNext]_camdVars => CamdInv'
  <1>1. End \/ Kill \/ Main \/ Plug \/ ReadClock \/ Compare \/ UNCHANGED camdVars
           => UNCHANGED camdState
    BY DEF Main, Top, Scan, Start, Ended, Sleep, Wake, End, Plug, ReadClock, Compare, Kill,
           Stopped, camdVars, recorder, disk, reap, clock, camdState
  <1> SUFFICES ASSUME CamdInv, [CamdNext]_camdVars PROVE CamdInv'
    OBVIOUS
  <1>2. CASE Write
    BY <1>2, RecordKeeps
  <1>3. CASE Jump
    BY <1>3, JumpKeeps
  <1>4. CASE ReapScan \/ ReapDone
    BY <1>4, ScanKeeps
  <1>5. CASE Unlink
    BY <1>5, UnlinkKeeps
  <1>6. CASE End \/ Kill \/ Main \/ Plug \/ ReadClock \/ Compare \/ UNCHANGED camdVars
    BY <1>1, <1>6, CamdUnchanged
  <1> QED
    BY <1>2, <1>3, <1>4, <1>5, <1>6 DEF CamdNext, Reaper, Watcher

(* A file is only deleted when none written before it is left, although       *)
(* ffmpeg adds files while the reaper works through its list (reap, compar), *)
(* but for those that could not be deleted and for pairs of files between    *)
(* which the clock was set back.                                             *)
THEOREM ReapsOldestFirst == CamdSpec => OldestFirst
  <1>1. ASSUME CamdInv, [CamdNext]_camdVars
        PROVE  [\A f \in files \ files' : \A g \in files' :
                   f < g \/ g \in spared \/ SetBack(g, f)]_camdVars
    <2>1. CASE Unlink
      <3> SUFFICES ASSUME NEW f \in files \ files', NEW g \in files', ~(f < g),
                          g \notin spared
                   PROVE  SetBack(g, f)
        OBVIOUS
      <3>1. g \in files /\ g # f /\ f \in DOMAIN namelist
            /\ \A h \in DOMAIN namelist : namelist[f] <= namelist[h]
        BY <2>1 DEF Unlink, NextReaped, Without, files
      <3>2. g \in Nat /\ f \in Nat
        <4>1. g \in 1 .. written /\ f \in 1 .. written /\ written \in Nat
          BY <1>1, <3>1 DEF CamdInv, CamdTypes
        <4> QED
          BY <4>1
      <3>3. g < f
        BY <3>1, <3>2
      <3>4. g \in DOMAIN namelist
        BY <1>1, <3>1 DEF CamdInv, ListIsOlder
      <3>5. ~(namelist[g] < namelist[f])
        BY <1>1, <3>1, <3>4 DEF CamdInv, CamdTypes
      <3> QED
        BY <1>1, <3>1, <3>3, <3>4, <3>5 DEF CamdInv, SortedByAge
    <2>2. CASE ~Unlink
      <3>1. files \subseteq files'
        BY <1>1, <2>2 DEF CamdNext, Reaper, Write, ReapScan, ReapDone, Main, Top, Scan, Start,
              Ended, Sleep, Wake, End, Plug, Jump, Watcher, ReadClock, Compare, Kill,
              camdVars, disk, files
      <3> QED
        BY <3>1
    <2> QED
      BY <2>1, <2>2
  <1> QED
    BY <1>1, CamdInitHolds, CamdStep, PTL DEF CamdSpec, OldestFirst
=============================================================================
