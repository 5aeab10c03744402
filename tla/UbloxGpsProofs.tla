--------------------------- MODULE UbloxGpsProofs ---------------------------
(***************************************************************************)
(* What the u-blox HAL does for its clients, for every set of modes and      *)
(* every bound on commands.                                                  *)
(*                                                                          *)
(* ReceiverStops is inductive once the commands in the pipe are known to be  *)
(* the four of gps_thread.h, so it is proved with the types (IInv).          *)
(*                                                                          *)
(* The count of clients, the status and the reasons to publish are right     *)
(* only once the pipe is empty.  What is inductive (Agreement) says how the  *)
(* engine will come from what it does now to what its callers want: by a     *)
(* path of sets of clients through the commands in the pipe, none of which   *)
(* asks for what is so already.                                              *)
(***************************************************************************)
EXTENDS UbloxGps, TLAPS

LEMMA AppendedCmd ==
    ASSUME NEW S, NEW s \in Seq(S), NEW e \in S
    PROVE  Append(s, e) \in Seq(S)
  OBVIOUS

LEMMA TakenCmd ==
    ASSUME NEW S, NEW s \in Seq(S), s # <<>>
    PROVE  /\ Head(s) \in S
           /\ Tail(s) \in Seq(S)
  OBVIOUS

LEMMA Counted == \A n \in Nat : \A b : n + OneIf(b) \in Nat
  BY DEF OneIf

LEMMA Uncounted ==
    \A n \in Nat :
       /\ (IF n > 0 THEN n - 1 ELSE 0) \in Nat
       /\ decPublish(n) \in Nat
  BY DEF decPublish

-----------------------------------------------------------------------------
(* The moves of a session. *)
MoveTypes == SessionTypes /\ CmdTypes /\ PublishTypes

LEMMA EndTyped ==
    ASSUME NEW k \in Kinds
    PROVE  MoveTypes /\ endSuplSession(k) => MoveTypes'
  <1>0. SUFFICES ASSUME MoveTypes, endSuplSession(k)
                 PROVE  MoveTypes'
    OBVIOUS
  <1>1. /\ session' \in [Kinds -> States \union {"none"}]
        /\ due' \in [Kinds -> BOOLEAN] /\ silent' \in [Kinds -> BOOLEAN]
    BY <1>0 DEF endSuplSession, MoveTypes, SessionTypes
  <1>2. CASE AsksToStop(k)
    <2>1. Append(cmdPipes, "stop ni") \in Seq(Cmds)
      BY <1>0, AppendedCmd DEF MoveTypes, CmdTypes, Cmds
    <2>2. /\ cmdPipes' \in Seq(Cmds)
          /\ early' \in BOOLEAN
          /\ PublishTypes'
      BY <1>0, <1>2, <2>1 DEF endSuplSession, MoveTypes, SessionTypes, PublishTypes
    <2> QED
      BY <1>1, <2>2 DEF MoveTypes, SessionTypes, CmdTypes
  <1>3. CASE ~AsksToStop(k)
    <2>1. /\ cmdPipes' = cmdPipes
          /\ early' = early
          /\ m_publishCount' = m_publishCount + OneIf(m_mode = "ms assisted")
          /\ assisted' = (assisted \/ m_mode = "ms assisted")
      BY <1>0, <1>3 DEF endSuplSession
    <2>2. m_publishCount' \in Nat
      <3>1. m_publishCount \in Nat
        BY <1>0 DEF MoveTypes, PublishTypes
      <3> QED
        BY <2>1, <3>1, Counted, Zenon
    <2>3. assisted' \in BOOLEAN
      BY <1>0, <2>1 DEF MoveTypes, PublishTypes
    <2> QED
      BY <1>0, <1>1, <2>1, <2>2, <2>3 DEF MoveTypes, SessionTypes, CmdTypes, PublishTypes
  <1> QED
    BY <1>2, <1>3

LEMMA MoveTyped ==
    ASSUME NEW k \in Kinds, NEW state \in States
    PROVE  MoveTypes /\ Becomes(k, state) => MoveTypes'
  <1>0. SUFFICES ASSUME MoveTypes, Becomes(k, state)
                 PROVE  MoveTypes'
    OBVIOUS
  <1>1. session' \in [Kinds -> States \union {"none"}] /\ due' \in [Kinds -> BOOLEAN]
    BY <1>0 DEF Becomes, MoveTypes, SessionTypes
  <1> QED
    BY <1>0, <1>1 DEF Becomes, MoveTypes, SessionTypes, CmdTypes, PublishTypes

LEMMA ReceiveTyped ==
    ASSUME NEW k \in Kinds
    PROVE  MoveTypes /\ Receive(k) => MoveTypes'
  <1>0. SUFFICES ASSUME MoveTypes, Receive(k)
                 PROVE  MoveTypes'
    OBVIOUS
  <1>1. CASE endSuplSession(k)
    BY <1>0, <1>1, EndTyped
  <1>2. CASE ServerResponds(k)
    BY <1>0, <1>2, MoveTyped DEF States, ServerResponds
  <1>3. CASE ServerAsks(k)
    BY <1>0, <1>3, MoveTyped DEF States, ServerAsks
  <1> QED
    BY <1>0, <1>1, <1>2, <1>3 DEF Receive

Looks(k) == suplCheckPendingActions(k) \/ suplCheckAvailable(k)

LEMMA LookTyped ==
    ASSUME NEW k \in Kinds
    PROVE  MoveTypes /\ Looks(k) => MoveTypes'
  <1>0. SUFFICES ASSUME MoveTypes, Looks(k)
                 PROVE  MoveTypes'
    OBVIOUS
  <1>1. CASE endSuplSession(k)
    BY <1>0, <1>1, EndTyped
  <1>2. CASE \E state \in States : Becomes(k, state)
    BY <1>0, <1>2, MoveTyped
  <1>3. endSuplSession(k) \/ \E state \in States : Becomes(k, state)
    <2>1. CASE k = "ni" /\ StartNi
      BY <2>1 DEF StartNi, States
    <2>2. CASE TimedOut(k)
      BY <2>2 DEF TimedOut
    <2>3. CASE PositionAvailable(k) \/ MsaResponseDue(k)
      BY <2>3 DEF PositionAvailable, MsaResponseDue, SendResponse, States
    <2>4. CASE NetworkConnected(k)
      BY <2>4 DEF NetworkConnected, States
    <2> QED
      BY <1>0, <2>1, <2>2, <2>3, <2>4 DEF Looks, suplCheckPendingActions, suplCheckAvailable
  <1> QED
    BY <1>1, <1>2, <1>3

LEMMA AuthorizeTyped == MoveTypes /\ Authorize => MoveTypes'
  <1>0. SUFFICES ASSUME MoveTypes, Authorize
                 PROVE  MoveTypes'
    OBVIOUS
  <1>1. endSuplSession("ni") \/ Becomes("ni", "RRLP")
    BY <1>0 DEF Authorize
  <1>2. "ni" \in Kinds /\ "RRLP" \in States
    BY DEF Kinds, States
  <1> QED
    BY <1>0, <1>1, <1>2, EndTyped, MoveTyped

-----------------------------------------------------------------------------
(* The engine's start and stop. *)
LEMMA StartSetTyped ==
    ASSUME SessionTypes, PublishTypes, StartSet, UNCHANGED <<timers, early>>
    PROVE  SessionTypes' /\ PublishTypes'
  <1> USE DEF SessionTypes, PublishTypes, timers
  <1>1. m_publishCount' \in Nat
    <2>1. ASSUME NEW b, incPublish(b)
          PROVE  m_publishCount' \in Nat
      <3>1. m_publishCount + 1 \in Nat
        OBVIOUS
      <3> QED
        BY <2>1, <3>1, Counted, Zenon DEF incPublish
    <2> QED
      BY <2>1 DEF StartSet
  <1>2. assisted' \in BOOLEAN
    BY DEF StartSet
  <1>3. session' \in [Kinds -> States \union {"none"}]
    BY DEF StartSet, Begun, States
  <1> QED
    BY <1>1, <1>2, <1>3

LEMMA EngineStartTyped ==
    ASSUME TypeOK, NEW si \in BOOLEAN, engineStart(si), UNCHANGED <<timers, port, early>>
    PROVE  SessionTypes' /\ EngineTypes' /\ PublishTypes'
  <1>1. EngineTypes'
    BY DEF TypeOK, EngineTypes, engineStart
  <1>2. CASE StartSet
    BY <1>1, <1>2, StartSetTyped DEF TypeOK
  <1>3. CASE UNCHANGED <<session, m_publishCount, assisted>>
    BY <1>1, <1>3 DEF TypeOK, SessionTypes, PublishTypes, timers
  <1>4. StartSet \/ UNCHANGED <<session, m_publishCount, assisted>>
    BY Zenon DEF engineStart
  <1> QED
    BY <1>1, <1>2, <1>3, <1>4

LEMMA EngineStopTyped ==
    ASSUME TypeOK, NEW si \in BOOLEAN, engineStop(si), UNCHANGED <<timers, port, early>>
    PROVE  SessionTypes' /\ EngineTypes' /\ PublishTypes'
  <1>1. EngineTypes'
    <2>1. clientCount' \in Nat
      <3>1. clientCount \in Nat
        BY DEF TypeOK, EngineTypes
      <3> QED
        BY <3>1, Uncounted, Zenon DEF engineStop
    <2>2. /\ gpsState' \in {"started", "stopping", "stopped"}
          /\ receiver' \in BOOLEAN
      BY Zenon DEF TypeOK, EngineTypes, engineStop
    <2> QED
      BY <2>1, <2>2 DEF TypeOK, EngineTypes
  <1>2. SessionTypes'
    BY DEF TypeOK, SessionTypes, engineStop, timers
  <1>3. PublishTypes'
    <2>1. m_publishCount' \in {0, m_publishCount, decPublish(m_publishCount)}
      BY Zenon DEF engineStop
    <2>2. assisted' \in BOOLEAN
      BY Zenon DEF TypeOK, PublishTypes, engineStop
    <2>3. m_publishCount \in Nat
      BY DEF TypeOK, PublishTypes
    <2> QED
      BY <2>1, <2>2, <2>3, Uncounted DEF PublishTypes
  <1> QED
    BY <1>1, <1>2, <1>3

(* Every state of the engine has its status. *)
LEMMA ToldTyped ==
    \A clients : \A state \in {"started", "stopping", "stopped"} :
       Told(clients, state) \in {"begin", "end", "off"}
  BY DEF Told

LEMMA ReportTyped ==
    ASSUME FrameworkTypes, EngineTypes'
    PROVE  ReportIfOpen \in {"begin", "end", "off"}
  BY ToldTyped DEF ReportIfOpen, FrameworkTypes, EngineTypes

-----------------------------------------------------------------------------
(* The inductive invariant. *)
IInv == TypeOK /\ ReceiverStops

LEMMA InitIInv == Init => IInv
  <1> SUFFICES ASSUME Init PROVE IInv
    OBVIOUS
  <1>1. SessionTypes
    BY Zenon DEF Init, SessionTypes
  <1>2. CmdTypes
    BY DEF Init, CmdTypes
  <1>3. clientCount \in Nat /\ m_publishCount \in Nat
    BY DEF Init
  <1>4. NiTypes /\ EngineTypes /\ PublishTypes /\ ToldTypes /\ FrameworkTypes
    BY <1>3, Zenon DEF Init, NiTypes, EngineTypes, PublishTypes, ToldTypes, FrameworkTypes
  <1>5. ReceiverStops
    BY DEF Init, ReceiverStops
  <1> QED
    BY <1>1, <1>2, <1>4, <1>5 DEF IInv, TypeOK

(* A session's move leaves the engine alone. *)
LEMMA MoveSteps ==
    ASSUME IInv, MoveTypes', NiTypes', ToldTypes',
           UNCHANGED <<engineVars, port, m_lastStatusValue, frameworkVars>>
    PROVE  IInv'
  BY DEF IInv, TypeOK, MoveTypes, EngineTypes, FrameworkTypes, ReceiverStops,
         engineVars, frameworkVars

LEMMA EngineSteps ==
    ASSUME IInv, handleCmdInput
    PROVE  IInv'
  <1>1. Head(cmdPipes) \in Cmds /\ CmdTypes'
    BY TakenCmd DEF IInv, TypeOK, CmdTypes, handleCmdInput
  <1>2. NiTypes'
    BY DEF IInv, TypeOK, NiTypes, handleCmdInput
  <1>3. \E si \in BOOLEAN : engineStart(si) \/ engineStop(si)
    BY <1>1 DEF handleCmdInput, Cmds
  <1>4. SessionTypes' /\ EngineTypes' /\ PublishTypes'
    <2>1. UNCHANGED <<timers, port, early>>
      BY DEF handleCmdInput
    <2> QED
      BY <1>3, <2>1, EngineStartTyped, EngineStopTyped DEF IInv
  <1>5. FrameworkTypes'
    <2>1. m_lastStatusValue' \in {"begin", "end", "off"}
      BY <1>4, ReportTyped DEF IInv, TypeOK, handleCmdInput
    <2> QED
      BY <2>1 DEF IInv, TypeOK, FrameworkTypes, handleCmdInput, frameworkVars
  <1>6. ReceiverStops'
    <2>1. UNCHANGED port
      BY DEF handleCmdInput
    <2>2. ASSUME NEW si \in BOOLEAN, engineStart(si)
          PROVE  ReceiverStops'
      BY <2>1, <2>2, Zenon DEF engineStart, IInv, ReceiverStops
    <2>3. ASSUME NEW si \in BOOLEAN, engineStop(si)
          PROVE  ReceiverStops'
      BY <2>1, <2>3, Zenon DEF engineStop, IInv, ReceiverStops
    <2> QED
      BY <1>3, <2>2, <2>3
  <1>7. ToldTypes'
    BY DEF handleCmdInput, IInv, TypeOK, ToldTypes
  <1> QED
    BY <1>1, <1>2, <1>4, <1>5, <1>6, <1>7 DEF IInv, TypeOK

(* The rest leaves the sessions' moves, the engine or the port alone. *)
LEMMA PortSteps ==
    ASSUME IInv, connectReceiver \/ LosePort \/ handle_device_shutdown
    PROVE  IInv'
  <1> USE DEF IInv, TypeOK, SessionTypes, NiTypes, CmdTypes, EngineTypes, PublishTypes,
              ToldTypes, FrameworkTypes, ReceiverStops, sessionVars, timers, engineVars,
              frameworkVars
  <1>1. CASE connectReceiver
    <2>1. m_lastStatusValue' \in {"begin", "end", "off"}
      BY <1>1, ToldTyped DEF connectReceiver
    <2>2. ReceiverStops'
      BY <1>1, Zenon DEF connectReceiver, runsAfterInit
    <2>3. EngineTypes'
      BY <1>1, Zenon DEF connectReceiver, runsAfterInit
    <2> QED
      BY <1>1, <2>1, <2>2, <2>3, Zenon DEF connectReceiver
  <1>2. CASE LosePort
    BY <1>2, Zenon DEF LosePort
  <1>3. CASE handle_device_shutdown
    <2>1. m_lastStatusValue' \in {"begin", "end", "off"}
      BY <1>3, ToldTyped DEF handle_device_shutdown
    <2> QED
      BY <1>3, <2>1 DEF handle_device_shutdown
  <1> QED
    BY <1>1, <1>2, <1>3

LEMMA CallSteps ==
    ASSUME IInv,
           \/ FrameworkCalls \/ NiCalls \/ UserAnswers
           \/ \E mode \in Modes : setPositionMode(mode)
    PROVE  IInv'
  <1> USE DEF IInv, TypeOK, SessionTypes, NiTypes, CmdTypes, EngineTypes, PublishTypes,
              ToldTypes, FrameworkTypes, ReceiverStops, sessionVars, timers, engineVars,
              frameworkVars
  <1>1. ASSUME NEW cmd \in Cmds, Send(cmd)
        PROVE  CmdTypes'
    BY <1>1, AppendedCmd DEF Send
  <1>2. CASE FrameworkCalls
    <2>1. CmdTypes'
      BY <1>1, <1>2 DEF FrameworkCalls, start, stop, cleanup, Cmds
    <2>2. started' \in BOOLEAN /\ cleaned' \in BOOLEAN
      BY <1>2, Zenon DEF FrameworkCalls, start, stop, cleanup
    <2> QED
      BY <1>2, <2>1, <2>2, Zenon DEF FrameworkCalls
  <1>3. CASE NiCalls
    <2>1. CmdTypes'
      BY <1>1, <1>3 DEF NiCalls, InsertNi, RequestStart, Cmds
    <2>2. session' \in [Kinds -> States \union {"none"}]
      BY <1>3 DEF NiCalls, InsertNi, RequestStart, States
    <2>3. inserted' \in BOOLEAN /\ UNCHANGED <<timers, answer>>
      BY <1>3, Zenon DEF NiCalls, InsertNi, RequestStart
    <2> QED
      BY <1>3, <2>1, <2>2, <2>3, Zenon DEF NiCalls
  <1>4. CASE UserAnswers
    BY <1>4 DEF UserAnswers, respond
  <1>5. CASE \E mode \in Modes : setPositionMode(mode)
    <2>1. PICK mode \in Modes : setPositionMode(mode)
      BY <1>5, Zenon
    <2>2. m_mode' \in Modes
      BY <2>1, Zenon DEF setPositionMode
    <2> QED
      BY <2>1, <2>2, Zenon DEF setPositionMode
  <1> QED
    BY <1>2, <1>3, <1>4, <1>5

LEMMA StepIInv == IInv /\ [Next]_vars => IInv'
  <1>0. SUFFICES ASSUME IInv, [Next]_vars
                 PROVE  IInv'
    OBVIOUS
  <1>1. MoveTypes /\ NiTypes
    BY <1>0 DEF IInv, TypeOK, MoveTypes
  <1>2. ASSUME NEW k \in Kinds, Looks(k)
        PROVE  IInv'
    <2>1. MoveTypes'
      BY <1>1, <1>2, LookTyped
    <2>2. /\ NiTypes' /\ UNCHANGED unasked
          /\ UNCHANGED <<engineVars, port, m_lastStatusValue, frameworkVars>>
      BY <1>1, <1>2 DEF Looks, suplCheckPendingActions, suplCheckAvailable, SessionOnly, NiTypes
    <2> QED
      BY <1>0, <2>1, <2>2, MoveSteps DEF IInv, TypeOK, ToldTypes
  <1>3. ASSUME NEW k \in Kinds, suplReadUplSock(k)
        PROVE  IInv'
    <2>1. MoveTypes'
      BY <1>1, <1>3, ReceiveTyped, EndTyped DEF suplReadUplSock, ReceivePosition
    <2>2. NiTypes'
      BY <1>1, <1>3 DEF suplReadUplSock, SessionOnly, NiTypes
    <2>3. ToldTypes'
      BY <1>0, <1>3, Zenon DEF suplReadUplSock, ReceivePosition, Tells, IInv, TypeOK, ToldTypes
    <2> QED
      BY <1>0, <1>3, <2>1, <2>2, <2>3, MoveSteps DEF suplReadUplSock, SessionOnly
  <1>9. ASSUME NEW k \in Kinds, TimePasses(k) \/ GoesSilent(k)
        PROVE  IInv'
    <2>1. due' \in [Kinds -> BOOLEAN] /\ silent' \in [Kinds -> BOOLEAN] /\ session' = session
      BY <1>1, <1>9 DEF TimePasses, Expires, GoesSilent, MoveTypes, SessionTypes
    <2>2. /\ UNCHANGED <<answer, inserted, cmdPipes, clientCount, gpsState, receiver>>
          /\ UNCHANGED <<m_publishCount, port, m_lastStatusValue, m_mode, started, cleaned>>
          /\ UNCHANGED <<early, assisted, unasked>>
      BY <1>9, Zenon DEF TimePasses, GoesSilent, engineVars, frameworkVars
    <2> QED
      BY <1>0, <2>1, <2>2
         DEF IInv, TypeOK, SessionTypes, NiTypes, CmdTypes, EngineTypes,
             PublishTypes, ToldTypes, FrameworkTypes, ReceiverStops
  <1>10. CASE Commit
    <2>1. ToldTypes'
      BY <1>0, <1>10, Zenon DEF Commit, Tells, IInv, TypeOK, ToldTypes
    <2> QED
      BY <1>0, <1>10, <2>1, Zenon
         DEF Commit, IInv, TypeOK, SessionTypes, NiTypes, CmdTypes, EngineTypes, PublishTypes,
             FrameworkTypes, ReceiverStops, sessionVars, timers, engineVars, frameworkVars
  <1>4. CASE GoOnAuthorized
    <2>1. MoveTypes'
      BY <1>1, <1>4, AuthorizeTyped DEF GoOnAuthorized
    <2>2. NiTypes' /\ ToldTypes'
      BY <1>0, <1>1, <1>4 DEF GoOnAuthorized, Authorize, NiTypes, IInv, TypeOK, ToldTypes
    <2> QED
      BY <1>0, <1>4, <2>1, <2>2, MoveSteps DEF GoOnAuthorized
  <1>5. CASE handleCmdInput
    BY <1>0, <1>5, EngineSteps
  <1>6. CASE connectReceiver \/ LosePort \/ handle_device_shutdown
    BY <1>0, <1>6, PortSteps
  <1>7. CASE \/ FrameworkCalls \/ NiCalls \/ UserAnswers
             \/ \E mode \in Modes : setPositionMode(mode)
    BY <1>0, <1>7, CallSteps
  <1>8. CASE UNCHANGED vars
    BY <1>0, <1>8
       DEF IInv, TypeOK, SessionTypes, NiTypes, CmdTypes, EngineTypes, PublishTypes,
           ToldTypes, FrameworkTypes, ReceiverStops, vars, sessionVars, timers, engineVars,
           frameworkVars
  <1> QED
    BY <1>0, <1>2, <1>3, <1>4, <1>5, <1>6, <1>7, <1>8, <1>9, <1>10, Zenon DEF Next, Looks

-----------------------------------------------------------------------------
(* The variables keep their types: the pipe carries only the four commands   *)
(* that handle_cmd knows, and the counts of clients and of reasons to publish *)
(* never go below zero, whatever order stops arrive in.                      *)
THEOREM TypeCorrect == Spec => []TypeOK
  <1>1. IInv => TypeOK
    BY DEF IInv
  <1> QED
    BY InitIInv, StepIInv, <1>1, PTL DEF Spec

(* A receiver that can be reached does not run once the engine is stopped or *)
(* stopping, however the stops, the sessions and the losses of the port are  *)
(* interleaved.                                                              *)
THEOREM NeverLeftRunning == Spec => []ReceiverStops
  <1>1. IInv => ReceiverStops
    BY DEF IInv
  <1> QED
    BY InitIInv, StepIInv, <1>1, PTL DEF Spec

-----------------------------------------------------------------------------
(* What the commands in the pipe will make of the engine.                    *)
(*                                                                          *)
(* on[i] are the clients the engine has when the first i commands of the     *)
(* pipe are handled.  Without a call of cleanup and a session that ended     *)
(* early, no command finds the engine already as it asks, and the last of    *)
(* these sets is what the callers want.                                      *)
StartOf == [si |-> "start si", ni |-> "start ni"]
StopOf == [si |-> "stop si", ni |-> "stop ni"]

Handled(before, cmd, after) ==
    \E k \in Kinds :
        \/ cmd = StartOf[k] /\ k \notin before /\ after = before \union {k}
        \/ cmd = StopOf[k] /\ k \in before /\ after = before \ {k}

Path(q, on) ==
    /\ on \in [0 .. Len(q) -> SUBSET Kinds]
    /\ \A i \in 1 .. Len(q) : Handled(on[i - 1], q[i], on[i])

(* Where the framework is no longer a client, it has stopped.                *)
Stopped(q, on) ==
    \A i, j \in 0 .. Len(q) :
        "si" \in on[i] /\ "si" \notin on[j] /\ i <= j
            => \E m \in 1 .. Len(q) : i < m /\ m <= j /\ q[m] = "stop si"

Size(clients) == OneIf("si" \in clients) + OneIf("ni" \in clients)
Reasons(clients) == OneIf("si" \in clients)

LEMMA HandledTyped ==
    ASSUME NEW before \in SUBSET Kinds, NEW cmd, NEW after, Handled(before, cmd, after)
    PROVE  after \in SUBSET Kinds
  BY DEF Handled

LEMMA OnlyStopped ==
    ASSUME NEW before, NEW cmd, NEW after, Handled(before, cmd, after),
           "si" \in before, "si" \notin after
    PROVE  cmd = "stop si"
  <1>1. PICK k \in Kinds :
            \/ cmd = StartOf[k] /\ k \notin before /\ after = before \union {k}
            \/ cmd = StopOf[k] /\ k \in before /\ after = before \ {k}
    BY Zenon DEF Handled
  <1>2. k = "si" /\ cmd = StopOf[k]
    BY <1>1
  <1> QED
    BY <1>2 DEF StopOf

(* A command is added that fits the end of the path. *)
LEMMA PathLonger ==
    ASSUME NEW q \in Seq(Cmds), NEW on, Path(q, on), Stopped(q, on),
           NEW cmd \in Cmds, NEW after, Handled(on[Len(q)], cmd, after)
    PROVE  \E more :
              /\ Path(Append(q, cmd), more) /\ Stopped(Append(q, cmd), more)
              /\ more[0] = on[0]
              /\ more[Len(Append(q, cmd))] = after
  <1> DEFINE n == Len(q)
             more == [i \in 0 .. n + 1 |-> IF i = n + 1 THEN after ELSE on[i]]
  <1>0. n \in Nat
    OBVIOUS
  <1>1. /\ n \in Nat
        /\ Len(Append(q, cmd)) = n + 1
        /\ Append(q, cmd)[n + 1] = cmd
        /\ \A i \in 1 .. n : Append(q, cmd)[i] = q[i]
    OBVIOUS
  <1>2. on \in [0 .. n -> SUBSET Kinds]
    BY DEF Path
  <1>3. after \in SUBSET Kinds
    <2>1. on[n] \in SUBSET Kinds
      BY <1>1, <1>2
    <2> QED
      BY <2>1, HandledTyped
  <1>4. /\ more \in [0 .. n + 1 -> SUBSET Kinds]
        /\ more[n + 1] = after
        /\ \A i \in 0 .. n : more[i] = on[i]
    BY <1>1, <1>2, <1>3
  <1> HIDE DEF n, more
  <1>5. Path(Append(q, cmd), more)
    <2>1. ASSUME NEW i \in 1 .. n
          PROVE  Handled(more[i - 1], Append(q, cmd)[i], more[i])
      <3>1. Handled(on[i - 1], q[i], on[i])
        BY DEF Path, n
      <3>2. i \in 0 .. n /\ i - 1 \in 0 .. n
        BY <1>1
      <3> QED
        BY <1>1, <1>4, <3>1, <3>2
    <2>2. Handled(more[n], Append(q, cmd)[n + 1], more[n + 1])
      <3>1. n \in 0 .. n
        BY <1>1
      <3> QED
        BY <1>1, <1>4, <3>1 DEF n
    <2>3. ASSUME NEW i \in 1 .. n + 1
          PROVE  Handled(more[i - 1], Append(q, cmd)[i], more[i])
      <3>1. CASE i \in 1 .. n
        BY <2>1, <3>1
      <3>2. CASE i = n + 1
        <4>1. i - 1 = n
          BY <1>1, <3>2
        <4> QED
          BY <2>2, <3>2, <4>1
      <3> QED
        BY <1>1, <3>1, <3>2
    <2> QED
      BY <1>1, <1>4, <2>3 DEF Path
  <1>6. Stopped(Append(q, cmd), more)
    <2> SUFFICES ASSUME NEW i \in 0 .. n + 1, NEW j \in 0 .. n + 1,
                        "si" \in more[i], "si" \notin more[j], i <= j
                 PROVE  \E m \in 1 .. n + 1 : i < m /\ m <= j /\ Append(q, cmd)[m] = "stop si"
      BY <1>1 DEF Stopped
    <2>1. CASE j \in 0 .. n
      <3>1. i \in 0 .. n
        BY <1>1, <2>1
      <3>2. "si" \in on[i] /\ "si" \notin on[j]
        BY <1>4, <2>1, <3>1
      <3>3. PICK m \in 1 .. n : i < m /\ m <= j /\ q[m] = "stop si"
        BY <2>1, <3>1, <3>2 DEF Stopped, n
      <3>4. m \in 1 .. n + 1
        BY <1>0
      <3>5. Append(q, cmd)[m] = "stop si"
        BY <1>1, <3>3, Zenon
      <3> QED
        BY <3>3, <3>4, <3>5, Zenon
    <2>2. CASE j = n + 1
      <3>1. i \in 0 .. n
        BY <1>1, <1>4, <2>2
      <3>2. CASE "si" \in on[n]
        <4>1. cmd = "stop si"
          BY <1>4, <2>2, <3>2, OnlyStopped DEF n
        <4>2. n + 1 \in 1 .. n + 1 /\ i < n + 1 /\ n + 1 <= j
          BY <1>1, <2>2, <3>1
        <4>3. Append(q, cmd)[n + 1] = "stop si"
          BY <1>1, <4>1
        <4> QED
          BY <4>2, <4>3, Zenon
      <3>3. CASE "si" \notin on[n]
        <4>1. "si" \in on[i] /\ n \in 0 .. n /\ i <= n
          BY <1>1, <1>4, <3>1
        <4>2. PICK m \in 1 .. n : i < m /\ m <= n /\ q[m] = "stop si"
          BY <3>1, <3>3, <4>1 DEF Stopped, n
        <4>3. m \in 1 .. n + 1 /\ m <= j
          BY <1>0, <2>2
        <4>4. Append(q, cmd)[m] = "stop si"
          BY <1>1, <4>2, Zenon
        <4> QED
          BY <4>2, <4>3, <4>4, Zenon
      <3> QED
        BY <3>2, <3>3
    <2>3. j \in 0 .. n \/ j = n + 1
      BY <1>1
    <2> QED
      BY <2>1, <2>2, <2>3, Zenon
  <1>7. more[0] = on[0]
    <2>1. 0 \in 0 .. n
      BY <1>1
    <2> QED
      BY <1>4, <2>1
  <1> QED
    BY <1>1, <1>4, <1>5, <1>6, <1>7

(* The first command is taken. *)
LEMMA PathTaken ==
    ASSUME NEW q \in Seq(Cmds), q # <<>>, NEW on, Path(q, on), Stopped(q, on)
    PROVE  /\ Handled(on[0], Head(q), on[1])
           /\ \E rest :
                 /\ Path(Tail(q), rest) /\ Stopped(Tail(q), rest)
                 /\ rest[0] = on[1]
                 /\ rest[Len(Tail(q))] = on[Len(q)]
  <1> DEFINE n == Len(Tail(q))
             rest == [i \in 0 .. n |-> on[i + 1]]
  <1>0. n \in Nat
    OBVIOUS
  <1>1. /\ n \in Nat
        /\ Len(q) = n + 1
        /\ Head(q) = q[1]
        /\ \A i \in 1 .. n : Tail(q)[i] = q[i + 1]
    OBVIOUS
  <1>2. on \in [0 .. n + 1 -> SUBSET Kinds]
    BY <1>1 DEF Path
  <1>3. \A i \in 1 .. n + 1 : Handled(on[i - 1], q[i], on[i])
    BY <1>1 DEF Path
  <1> HIDE DEF n
  <1>4. /\ rest \in [0 .. n -> SUBSET Kinds]
        /\ \A i \in 0 .. n : rest[i] = on[i + 1]
    BY <1>1, <1>2
  <1> HIDE DEF rest
  <1>5. Handled(on[0], Head(q), on[1])
    <2>1. Handled(on[1 - 1], q[1], on[1])
      BY <1>1, <1>3
    <2>2. 1 - 1 = 0
      OBVIOUS
    <2> QED
      BY <1>1, <2>1, <2>2
  <1>6. Path(Tail(q), rest)
    <2>1. ASSUME NEW i \in 1 .. n
          PROVE  Handled(rest[i - 1], Tail(q)[i], rest[i])
      <3>1. /\ i + 1 \in 1 .. n + 1 /\ (i + 1) - 1 = i
            /\ i - 1 \in 0 .. n /\ (i - 1) + 1 = i
            /\ i \in 0 .. n
        BY <1>1
      <3>2. Handled(on[i], q[i + 1], on[i + 1])
        BY <1>3, <3>1
      <3> QED
        BY <1>1, <1>4, <3>1, <3>2
    <2> QED
      BY <1>4, <2>1 DEF Path, n
  <1>7. Stopped(Tail(q), rest)
    <2> SUFFICES ASSUME NEW i \in 0 .. n, NEW j \in 0 .. n,
                        "si" \in rest[i], "si" \notin rest[j], i <= j
                 PROVE  \E m \in 1 .. n : i < m /\ m <= j /\ Tail(q)[m] = "stop si"
      BY DEF Stopped, n
    <2>1. /\ i + 1 \in 0 .. Len(q) /\ j + 1 \in 0 .. Len(q) /\ i + 1 <= j + 1
          /\ "si" \in on[i + 1] /\ "si" \notin on[j + 1]
      BY <1>1, <1>4
    <2>2. PICK m \in 1 .. n + 1 : i + 1 < m /\ m <= j + 1 /\ q[m] = "stop si"
      BY <1>1, <2>1 DEF Stopped
    <2>3. m - 1 \in 1 .. n /\ i < m - 1 /\ m - 1 <= j /\ (m - 1) + 1 = m
      <3>1. i + 1 < m /\ m <= j + 1
        BY <2>2
      <3> QED
        BY <1>0, <3>1
    <2>4. Tail(q)[m - 1] = "stop si"
      BY <1>1, <2>2, <2>3
    <2> QED
      BY <2>3, <2>4, Zenon
  <1>8. rest[0] = on[1] /\ rest[n] = on[Len(q)]
    <2>1. 0 \in 0 .. n /\ n \in 0 .. n /\ 0 + 1 = 1
      BY <1>1
    <2> QED
      BY <1>1, <1>4, <2>1
  <1> QED
    BY <1>5, <1>6, <1>7, <1>8 DEF n

-----------------------------------------------------------------------------
(* What holds of the engine and the framework while commands are on their    *)
(* way, as long as no session ended early and cleanup was not called: each   *)
(* of the engine's clients is one the callers will still want or whose stop  *)
(* is in the pipe; and the status is the one of the engine's state unless a  *)
(* command of the network's session is on its way.                           *)
Wanted == {k \in Kinds : IF k = "si" THEN started ELSE session["ni"] # "none" /\ ~inserted}

EngineFollows ==
    \E on :
        /\ Path(cmdPipes, on) /\ Stopped(cmdPipes, on)
        /\ on[Len(cmdPipes)] = Wanted
        /\ clientCount = Size(on[0])
        /\ ~assisted => m_publishCount <= Reasons(on[0])

EngineRuns == gpsState = "started" <=> clientCount > 0

StartOwed == inserted => session["ni"] # "none"

Settled == ~inserted /\ \A i \in 1 .. Len(cmdPipes) : cmdPipes[i] \notin {"start ni", "stop ni"}

StatusFresh == port /\ Settled => m_lastStatusValue = Told(clientCount, gpsState)

Agreement == Sound => EngineFollows /\ EngineRuns /\ StartOwed /\ StatusFresh

LEMMA WantedIs ==
    /\ Wanted \in SUBSET Kinds
    /\ "si" \in Wanted <=> started
    /\ "ni" \in Wanted <=> session["ni"] # "none" /\ ~inserted
  BY DEF Wanted, Kinds

(* Nothing that the engine or the callers want has changed. *)
LEMMA SameFollows ==
    ASSUME EngineFollows, Wanted' = Wanted, assisted => assisted',
           ~assisted' => m_publishCount' = m_publishCount,
           UNCHANGED <<cmdPipes, clientCount>>
    PROVE  EngineFollows'
  <1>1. PICK on :
           /\ Path(cmdPipes, on) /\ Stopped(cmdPipes, on)
           /\ on[Len(cmdPipes)] = Wanted
           /\ clientCount = Size(on[0])
           /\ ~assisted => m_publishCount <= Reasons(on[0])
    BY Zenon DEF EngineFollows
  <1>2. /\ Path(cmdPipes', on) /\ Stopped(cmdPipes', on)
        /\ on[Len(cmdPipes')] = Wanted'
        /\ clientCount' = Size(on[0])
    BY <1>1
  <1>3. ~assisted' => m_publishCount' <= Reasons(on[0])
    BY <1>1, Zenon
  <1> QED
    BY <1>2, <1>3, Zenon DEF EngineFollows

(* A caller wants a client more or less, and has told the pipe. *)
LEMMA AddedFollows ==
    ASSUME EngineFollows, CmdTypes, NEW cmd \in Cmds, cmdPipes' = Append(cmdPipes, cmd),
           Handled(Wanted, cmd, Wanted'),
           UNCHANGED <<clientCount, m_publishCount, assisted>>
    PROVE  EngineFollows'
  <1>1. PICK on :
           /\ Path(cmdPipes, on) /\ Stopped(cmdPipes, on)
           /\ on[Len(cmdPipes)] = Wanted
           /\ clientCount = Size(on[0])
           /\ ~assisted => m_publishCount <= Reasons(on[0])
    BY Zenon DEF EngineFollows
  <1>2. cmdPipes \in Seq(Cmds)
    BY DEF CmdTypes
  <1>3. PICK more :
           /\ Path(cmdPipes', more) /\ Stopped(cmdPipes', more)
           /\ more[0] = on[0]
           /\ more[Len(cmdPipes')] = Wanted'
    BY <1>1, <1>2, PathLonger
  <1>4. /\ clientCount' = Size(more[0])
        /\ ~assisted' => m_publishCount' <= Reasons(more[0])
    BY <1>1, <1>3, Zenon
  <1> QED
    BY <1>3, <1>4, Zenon DEF EngineFollows

LEMMA AppendedAt ==
    \A s \in Seq(Cmds) : \A e \in Cmds :
        /\ Len(Append(s, e)) \in 1 .. Len(Append(s, e))
        /\ Append(s, e)[Len(Append(s, e))] = e
  OBVIOUS

LEMMA NotSettled ==
    ASSUME CmdTypes, NEW cmd \in {"start ni", "stop ni"}, cmdPipes' = Append(cmdPipes, cmd)
    PROVE  ~Settled'
  <1>1. /\ Len(cmdPipes') \in 1 .. Len(cmdPipes')
        /\ cmdPipes'[Len(cmdPipes')] = cmd
    <2>1. cmdPipes \in Seq(Cmds) /\ cmd \in Cmds
      BY DEF CmdTypes, Cmds
    <2>2. /\ Len(Append(cmdPipes, cmd)) \in 1 .. Len(Append(cmdPipes, cmd))
          /\ Append(cmdPipes, cmd)[Len(Append(cmdPipes, cmd))] = cmd
      BY <2>1, AppendedAt, Zenon
    <2> QED
      BY <2>2, Zenon
  <1> QED
    BY <1>1 DEF Settled

LEMMA StillSettled ==
    ASSUME CmdTypes, NEW cmd, cmdPipes' = Append(cmdPipes, cmd),
           UNCHANGED inserted, Settled'
    PROVE  Settled
  <1>1. ASSUME NEW i \in 1 .. Len(cmdPipes)
        PROVE  cmdPipes[i] \notin {"start ni", "stop ni"}
    <2>1. i \in 1 .. Len(cmdPipes') /\ cmdPipes'[i] = cmdPipes[i]
      BY DEF CmdTypes
    <2> QED
      BY <2>1 DEF Settled
  <1> QED
    BY <1>1 DEF Settled

-----------------------------------------------------------------------------
(* The moves of a session. *)
MoveLeaves == UNCHANGED <<inserted, clientCount, gpsState, port, m_lastStatusValue, started, cleaned>>

(* Whatever keeps the presence of the network's session. *)
LEMMA KeptAgreement ==
    ASSUME Agreement, MoveLeaves, cmdPipes' = cmdPipes, early' = early,
           session'["ni"] # "none" <=> session["ni"] # "none",
           assisted => assisted',
           ~assisted' => m_publishCount' = m_publishCount
    PROVE  Agreement'
  <1> SUFFICES ASSUME Sound'
               PROVE  EngineFollows' /\ EngineRuns' /\ StartOwed' /\ StatusFresh'
    BY DEF Agreement
  <1>1. EngineFollows /\ EngineRuns /\ StartOwed /\ StatusFresh
    BY DEF Agreement, Sound, MoveLeaves
  <1>2. Wanted' = Wanted
    BY DEF Wanted, MoveLeaves
  <1>3. EngineFollows'
    BY <1>1, <1>2, SameFollows DEF MoveLeaves
  <1>4. EngineRuns' /\ StartOwed'
    BY <1>1, Zenon DEF EngineRuns, StartOwed, MoveLeaves
  <1>5. StatusFresh'
    <2>1. Settled' => Settled
      BY Zenon DEF Settled, MoveLeaves
    <2>2. Told(clientCount, gpsState)' = Told(clientCount, gpsState)
      BY DEF Told, OnlyNi, Count, MoveLeaves
    <2> QED
      BY <1>1, <2>1, <2>2, Zenon DEF StatusFresh, MoveLeaves
  <1> QED
    BY <1>3, <1>4, <1>5

LEMMA EndAgreement ==
    ASSUME NEW k \in Kinds, Agreement, TypeOK, MoveLeaves, session[k] # "none",
           endSuplSession(k)
    PROVE  Agreement'
  <1>1. session \in [Kinds -> States \union {"none"}]
    BY DEF TypeOK, SessionTypes
  <1>2. session'[k] = "none" /\ \A j \in Kinds \ {k} : session'[j] = session[j]
    BY <1>1 DEF endSuplSession
  <1>3. CASE k = "si"
    <2>1. ~AsksToStop(k)
      BY <1>3 DEF AsksToStop
    <2>2. /\ cmdPipes' = cmdPipes /\ early' = early
          /\ m_publishCount' = m_publishCount + OneIf(m_mode = "ms assisted")
          /\ assisted' = (assisted \/ m_mode = "ms assisted")
      BY <2>1, Zenon DEF endSuplSession
    <2>3. m_publishCount \in Nat /\ assisted \in BOOLEAN
      BY DEF TypeOK, PublishTypes
    <2>4. /\ assisted => assisted'
          /\ ~assisted' => m_publishCount' = m_publishCount
      <3>1. CASE m_mode = "ms assisted"
        BY <2>2, <3>1, Zenon
      <3>2. CASE m_mode # "ms assisted"
        <4>1. m_publishCount + 0 = m_publishCount
          BY <2>3
        <4>2. OneIf(m_mode = "ms assisted") = 0
          BY <3>2, Zenon DEF OneIf
        <4> QED
          BY <2>2, <3>2, <4>1, <4>2, Zenon
      <3> QED
        BY <3>1, <3>2, Zenon
    <2>5. session'["ni"] = session["ni"]
      BY <1>2, <1>3 DEF Kinds
    <2> QED
      BY <2>2, <2>4, <2>5, KeptAgreement
  <1>4. CASE k = "ni"
    <2>1. AsksToStop(k)
      BY <1>4 DEF AsksToStop
    <2>2. /\ cmdPipes' = Append(cmdPipes, "stop ni")
          /\ early' = (early \/ inserted)
          /\ UNCHANGED <<m_publishCount, assisted>>
      BY <2>1, Zenon DEF endSuplSession
    <2> SUFFICES ASSUME Sound'
                 PROVE  EngineFollows' /\ EngineRuns' /\ StartOwed' /\ StatusFresh'
      BY DEF Agreement
    <2>3. ~early' /\ early \in BOOLEAN /\ inserted \in BOOLEAN
      BY DEF Sound, TypeOK, SessionTypes, NiTypes
    <2>4. ~early /\ ~inserted /\ Sound
      BY <2>2, <2>3 DEF Sound, MoveLeaves
    <2>5. EngineFollows /\ EngineRuns /\ StartOwed /\ StatusFresh
      BY <2>4 DEF Agreement
    <2>6. CmdTypes /\ "stop ni" \in Cmds
      BY DEF TypeOK, Cmds
    <2>7. EngineFollows'
      <3>1. Handled(Wanted, "stop ni", Wanted')
        <4>1. "ni" \in Wanted /\ "ni" \notin Wanted'
          BY <1>2, <1>4, <2>4 DEF Wanted, Kinds
        <4>2. Wanted' = Wanted \ {"ni"}
          BY <4>1 DEF Wanted, Kinds, MoveLeaves
        <4> QED
          BY <4>1, <4>2 DEF Handled, Kinds, StopOf
      <3>2. UNCHANGED <<clientCount, m_publishCount, assisted>>
        BY <2>2 DEF MoveLeaves
      <3> QED
        BY <2>2, <2>5, <2>6, <3>1, <3>2, AddedFollows
    <2>8. EngineRuns' /\ StartOwed'
      BY <2>4, <2>5, Zenon DEF EngineRuns, StartOwed, MoveLeaves
    <2>9. StatusFresh'
      BY <2>2, <2>6, NotSettled DEF StatusFresh
    <2> QED
      BY <2>7, <2>8, <2>9
  <1> QED
    BY <1>3, <1>4 DEF Kinds

LEMMA MoveAgreement ==
    ASSUME NEW k \in Kinds, NEW state \in States, Agreement, TypeOK, MoveLeaves,
           session[k] # "none", Becomes(k, state)
    PROVE  Agreement'
  <1>1. session \in [Kinds -> States \union {"none"}]
    BY DEF TypeOK, SessionTypes
  <1>2. state # "none"
    BY DEF States
  <1>3. session'["ni"] # "none" <=> session["ni"] # "none"
    BY <1>1, <1>2 DEF Becomes, Kinds
  <1> QED
    BY <1>3, KeptAgreement DEF Becomes

LEMMA ReceiveAgreement ==
    ASSUME NEW k \in Kinds, Agreement, TypeOK, MoveLeaves, Receive(k)
    PROVE  Agreement'
  <1>1. session[k] # "none"
    BY DEF Receive
  <1>2. CASE endSuplSession(k)
    BY <1>1, <1>2, EndAgreement
  <1>3. CASE ServerResponds(k)
    BY <1>1, <1>3, MoveAgreement DEF ServerResponds, States
  <1>4. CASE ServerAsks(k)
    BY <1>1, <1>4, MoveAgreement DEF ServerAsks, States
  <1> QED
    BY <1>2, <1>3, <1>4 DEF Receive

LEMMA LookAgreement ==
    ASSUME NEW k \in Kinds, Agreement, TypeOK, MoveLeaves, Looks(k)
    PROVE  Agreement'
  <1>1. CASE session[k] # "none" /\ endSuplSession(k)
    BY <1>1, EndAgreement
  <1>2. CASE session[k] # "none" /\ \E state \in States : Becomes(k, state)
    BY <1>2, MoveAgreement
  <1>3. session[k] # "none" /\ (endSuplSession(k) \/ \E state \in States : Becomes(k, state))
    <2>1. CASE k = "ni" /\ StartNi
      BY <2>1 DEF StartNi, States
    <2>2. CASE TimedOut(k)
      BY <2>2 DEF TimedOut, HasTimeout
    <2>3. CASE PositionAvailable(k) \/ MsaResponseDue(k)
      BY <2>3 DEF PositionAvailable, MsaResponseDue, SendResponse, States
    <2>4. CASE NetworkConnected(k)
      BY <2>4 DEF NetworkConnected, States
    <2> QED
      BY <2>1, <2>2, <2>3, <2>4 DEF Looks, suplCheckPendingActions, suplCheckAvailable
  <1> QED
    BY <1>1, <1>2, <1>3

LEMMA AuthorizeAgreement ==
    ASSUME Agreement, TypeOK, MoveLeaves, Authorize
    PROVE  Agreement'
  <1>1. /\ session["ni"] # "none"
        /\ endSuplSession("ni") \/ Becomes("ni", "RRLP")
    BY DEF Authorize
  <1>2. "ni" \in Kinds /\ "RRLP" \in States
    BY DEF Kinds, States
  <1> QED
    BY <1>1, <1>2, EndAgreement, MoveAgreement

-----------------------------------------------------------------------------
(* The engine handles a command. *)
LEMMA HandledIs ==
    ASSUME NEW before \in SUBSET Kinds, NEW after, NEW cmd, Handled(before, cmd, after)
    PROVE  /\ cmd = "start si" => /\ "si" \notin before /\ "si" \in after
                                  /\ "ni" \in after <=> "ni" \in before
           /\ cmd = "start ni" => /\ "ni" \notin before /\ "ni" \in after
                                  /\ "si" \in after <=> "si" \in before
           /\ cmd = "stop si"  => /\ "si" \in before /\ "si" \notin after
                                  /\ "ni" \in after <=> "ni" \in before
           /\ cmd = "stop ni"  => /\ "ni" \in before /\ "ni" \notin after
                                  /\ "si" \in after <=> "si" \in before
  <1>1. PICK k \in Kinds :
            \/ cmd = StartOf[k] /\ k \notin before /\ after = before \union {k}
            \/ cmd = StopOf[k] /\ k \in before /\ after = before \ {k}
    BY Zenon DEF Handled
  <1>2. CASE k = "si"
    <2>1. StartOf[k] = "start si" /\ StopOf[k] = "stop si"
      BY <1>2 DEF StartOf, StopOf
    <2> QED
      BY <1>1, <1>2, <2>1
  <1>3. CASE k = "ni"
    <2>1. StartOf[k] = "start ni" /\ StopOf[k] = "stop ni"
      BY <1>3 DEF StartOf, StopOf
    <2> QED
      BY <1>1, <1>3, <2>1
  <1> QED
    BY <1>2, <1>3 DEF Kinds

LEMMA Sizes ==
    ASSUME NEW before, NEW after
    PROVE  /\ Size(before) \in 0 .. 2
           /\ "si" \notin before /\ "si" \in after /\ ("ni" \in after <=> "ni" \in before)
                 => Size(after) = Size(before) + 1
           /\ "ni" \notin before /\ "ni" \in after /\ ("si" \in after <=> "si" \in before)
                 => Size(after) = Size(before) + 1
           /\ Size(before) = 0 => "si" \notin before
  BY DEF Size, OneIf

(* The engine runs exactly for its clients, one more or one less.            *)
LEMMA CountUp ==
    ASSUME NEW before, NEW after, Size(after) = Size(before) + 1,
           clientCount = Size(before), EngineRuns,
           clientCount' = clientCount + 1,
           gpsState' = IF clientCount = 0 THEN "started" ELSE gpsState
    PROVE  clientCount' = Size(after) /\ EngineRuns'
  <1>1. Size(before) \in 0 .. 2
    BY Sizes
  <1>2. gpsState' = "started" /\ clientCount' > 0
    BY <1>1 DEF EngineRuns
  <1> QED
    BY <1>2 DEF EngineRuns

LEMMA CountDown ==
    ASSUME NEW before, NEW after, Size(before) = Size(after) + 1,
           clientCount = Size(before), EngineRuns,
           clientCount' = IF clientCount > 0 THEN clientCount - 1 ELSE 0,
           gpsState' = IF clientCount = 1 THEN "stopping" ELSE gpsState
    PROVE  clientCount' = Size(after) /\ EngineRuns'
  <1>1. Size(before) \in 0 .. 2 /\ Size(after) \in 0 .. 2
    BY Sizes
  <1>2. clientCount' = Size(after)
    BY <1>1
  <1>3. CASE clientCount = 1
    BY <1>1, <1>2, <1>3 DEF EngineRuns
  <1>4. CASE clientCount # 1
    <2>1. gpsState' = "started" /\ clientCount' > 0
      BY <1>1, <1>2, <1>4 DEF EngineRuns
    <2> QED
      BY <1>2, <2>1 DEF EngineRuns
  <1> QED
    BY <1>3, <1>4

LEMMA CountAgreement ==
    ASSUME NEW before \in SUBSET Kinds, NEW after, NEW cmd \in Cmds,
           Handled(before, cmd, after), clientCount = Size(before), EngineRuns,
           \/ cmd \in {"start si", "start ni"} /\ \E si : engineStart(si)
           \/ cmd \in {"stop si", "stop ni"} /\ \E si : engineStop(si)
    PROVE  clientCount' = Size(after) /\ EngineRuns'
  <1>1. CASE cmd \in {"start si", "start ni"} /\ \E si : engineStart(si)
    <2>1. Size(after) = Size(before) + 1
      BY <1>1, HandledIs, Sizes
    <2>2. /\ clientCount' = clientCount + 1
          /\ gpsState' = IF clientCount = 0 THEN "started" ELSE gpsState
      BY <1>1, Zenon DEF engineStart
    <2> QED
      BY <2>1, <2>2, CountUp
  <1>2. CASE cmd \in {"stop si", "stop ni"} /\ \E si : engineStop(si)
    <2>1. Size(before) = Size(after) + 1
      BY <1>2, HandledIs, Sizes
    <2>2. /\ clientCount' = IF clientCount > 0 THEN clientCount - 1 ELSE 0
          /\ gpsState' = IF clientCount = 1 THEN "stopping" ELSE gpsState
      BY <1>2, Zenon DEF engineStop
    <2> QED
      BY <2>1, <2>2, CountDown
  <1> QED
    BY <1>1, <1>2

(* There is at most one reason to publish, the framework's, unless an MS     *)
(* assisted session ended.                                                   *)
LEMMA StartSetPublishes ==
    ASSUME m_publishCount = 0, StartSet, ~assisted'
    PROVE  m_publishCount' <= 1
  <1>1. ASSUME incPublish(FALSE)
        PROVE  m_publishCount' <= 1
    <2>1. OneIf(FALSE /\ m_mode = "ms assisted") = 0
      BY Zenon DEF OneIf
    <2>2. m_publishCount' = m_publishCount + 1 + 0
      BY <1>1, <2>1, Zenon DEF incPublish
    <2> QED
      BY <2>2
  <1>2. ASSUME incPublish(TRUE), m_mode # "ms assisted"
        PROVE  m_publishCount' <= 1
    <2>1. OneIf(TRUE /\ m_mode = "ms assisted") = 0
      BY <1>2, Zenon DEF OneIf
    <2>2. m_publishCount' = m_publishCount + 1 + 0
      BY <1>2, <2>1, Zenon DEF incPublish
    <2> QED
      BY <2>2
  <1>3. \/ incPublish(FALSE)
        \/ incPublish(TRUE) /\ m_mode # "ms assisted"
        \/ m_publishCount' = m_publishCount
    BY Zenon DEF StartSet
  <1>4. m_publishCount <= 1
    OBVIOUS
  <1> QED
    BY <1>1, <1>2, <1>3, <1>4, Zenon

LEMMA ReasonsAre ==
    ASSUME NEW clients
    PROVE  /\ Reasons(clients) \in {0, 1} /\ 0 <= Reasons(clients)
           /\ "si" \in clients <=> Reasons(clients) = 1
  BY DEF Reasons, OneIf

LEMMA PublishUp ==
    ASSUME NEW before, NEW after, "si" \notin before, "si" \in after,
           m_publishCount \in Nat, ~assisted => m_publishCount <= Reasons(before),
           StartSet \/ UNCHANGED <<m_publishCount, assisted>>, ~assisted'
    PROVE  m_publishCount' <= Reasons(after)
  <1>1. Reasons(before) = 0 /\ Reasons(after) = 1
    BY ReasonsAre
  <1>2. ~assisted
    BY Zenon DEF StartSet
  <1>3. m_publishCount = 0
    BY <1>1, <1>2
  <1>4. CASE StartSet
    BY <1>1, <1>3, <1>4, StartSetPublishes
  <1>5. CASE UNCHANGED m_publishCount
    BY <1>1, <1>3, <1>5
  <1> QED
    BY <1>4, <1>5

LEMMA PublishDown ==
    ASSUME NEW before, NEW after,
           m_publishCount \in Nat, m_publishCount <= Reasons(before),
           m_publishCount' \in {0, decPublish(m_publishCount)}
    PROVE  m_publishCount' <= Reasons(after)
  <1>1. Reasons(before) \in {0, 1} /\ Reasons(after) \in {0, 1}
    BY ReasonsAre
  <1>2. m_publishCount' = 0
    BY <1>1 DEF decPublish
  <1> QED
    BY <1>1, <1>2

LEMMA PublishAgreement ==
    ASSUME NEW before \in SUBSET Kinds, NEW after, NEW cmd \in Cmds,
           Handled(before, cmd, after),
           m_publishCount \in Nat,
           ~assisted => m_publishCount <= Reasons(before),
           \/ cmd = "start si" /\ engineStart(TRUE)
           \/ cmd = "start ni" /\ engineStart(FALSE)
           \/ cmd = "stop si" /\ engineStop(TRUE)
           \/ cmd = "stop ni" /\ engineStop(FALSE),
           ~assisted'
    PROVE  m_publishCount' <= Reasons(after)
  <1>1. CASE cmd = "start si" /\ engineStart(TRUE)
    <2>1. "si" \notin before /\ "si" \in after
      BY <1>1, HandledIs
    <2>2. StartSet \/ UNCHANGED <<m_publishCount, assisted>>
      BY <1>1, Zenon DEF engineStart
    <2> QED
      BY <2>1, <2>2, PublishUp
  <1>2. CASE UNCHANGED <<m_publishCount, assisted>> /\ cmd \in {"start ni", "stop ni"}
    <2>1. "si" \in before <=> "si" \in after
      BY <1>2, HandledIs
    <2>2. Reasons(before) = Reasons(after)
      BY <2>1, Zenon DEF Reasons, OneIf
    <2> QED
      BY <1>2, <2>2, Zenon
  <1>3. CASE m_publishCount' = 0
    BY <1>3, ReasonsAre, Zenon
  <1>4. CASE m_publishCount' = decPublish(m_publishCount) /\ ~assisted
    <2>1. m_publishCount' \in {0, decPublish(m_publishCount)}
      BY <1>4
    <2> QED
      BY <1>4, <2>1, PublishDown
  <1>5. CASE cmd = "start ni" /\ engineStart(FALSE)
    BY <1>2, <1>5, Zenon DEF engineStart
  <1>6. CASE cmd = "stop si" /\ engineStop(TRUE)
    BY <1>3, <1>4, <1>6, Zenon DEF engineStop
  <1>7. CASE cmd = "stop ni" /\ engineStop(FALSE)
    BY <1>2, <1>3, <1>7, Zenon DEF engineStop
  <1> QED
    BY <1>1, <1>5, <1>6, <1>7, Zenon

LEMMA StartSetKeepsNi ==
    ASSUME session \in [Kinds -> States \union {"none"}], StartSet
    PROVE  session'["ni"] = session["ni"]
  BY DEF StartSet, Kinds

LEMMA EngineAgreement ==
    ASSUME Agreement, TypeOK, handleCmdInput
    PROVE  Agreement'
  <1> SUFFICES ASSUME Sound'
               PROVE  EngineFollows' /\ EngineRuns' /\ StartOwed' /\ StatusFresh'
    BY DEF Agreement
  <1>1. EngineFollows /\ EngineRuns /\ StartOwed /\ StatusFresh
    BY DEF Agreement, Sound, handleCmdInput, frameworkVars
  <1>2. /\ cmdPipes \in Seq(Cmds) /\ cmdPipes # <<>> /\ cmdPipes' = Tail(cmdPipes)
        /\ Head(cmdPipes) \in Cmds
        /\ UNCHANGED <<inserted, port, started>>
    <2>1. cmdPipes \in Seq(Cmds)
      BY DEF TypeOK, CmdTypes
    <2> QED
      BY <2>1, TakenCmd DEF handleCmdInput, frameworkVars
  <1>3. \/ Head(cmdPipes) = "start si" /\ engineStart(TRUE)
        \/ Head(cmdPipes) = "start ni" /\ engineStart(FALSE)
        \/ Head(cmdPipes) = "stop si" /\ engineStop(TRUE)
        \/ Head(cmdPipes) = "stop ni" /\ engineStop(FALSE)
    BY <1>2 DEF handleCmdInput, Cmds
  <1>4. session'["ni"] = session["ni"]
    <2>1. session \in [Kinds -> States \union {"none"}]
      BY DEF TypeOK, SessionTypes
    <2>2. StartSet \/ session' = session
      BY <1>3, Zenon DEF engineStart, engineStop
    <2> QED
      BY <2>1, <2>2, StartSetKeepsNi
  <1>5. Wanted' = Wanted
    BY <1>2, <1>4 DEF Wanted
  <1>6. PICK on :
           /\ Path(cmdPipes, on) /\ Stopped(cmdPipes, on)
           /\ on[Len(cmdPipes)] = Wanted
           /\ clientCount = Size(on[0])
           /\ ~assisted => m_publishCount <= Reasons(on[0])
    BY <1>1, Zenon DEF EngineFollows
  <1>7. Handled(on[0], Head(cmdPipes), on[1])
    BY <1>2, <1>6, PathTaken
  <1>8. PICK rest :
           /\ Path(cmdPipes', rest) /\ Stopped(cmdPipes', rest)
           /\ rest[0] = on[1]
           /\ rest[Len(cmdPipes')] = Wanted'
    BY <1>2, <1>5, <1>6, PathTaken
  <1>9. on[0] \in SUBSET Kinds
    <2>1. on \in [0 .. Len(cmdPipes) -> SUBSET Kinds]
      BY <1>6 DEF Path
    <2>2. 0 \in 0 .. Len(cmdPipes)
      BY <1>2
    <2> QED
      BY <2>1, <2>2
  <1>10. clientCount' = Size(on[1]) /\ EngineRuns'
    BY <1>1, <1>2, <1>3, <1>6, <1>7, <1>9, CountAgreement
  <1>11. ~assisted' => m_publishCount' <= Reasons(on[1])
    <2>1. m_publishCount \in Nat
      BY DEF TypeOK, PublishTypes
    <2> QED
      BY <1>2, <1>3, <1>6, <1>7, <1>9, <2>1, PublishAgreement
  <1>12. EngineFollows'
    BY <1>8, <1>10, <1>11, Zenon DEF EngineFollows
  <1>13. StartOwed'
    BY <1>1, <1>2, <1>4 DEF StartOwed
  <1>14. StatusFresh'
    <2>1. m_lastStatusValue' = IF port THEN Told(clientCount', gpsState') ELSE m_lastStatusValue
      BY DEF handleCmdInput, ReportIfOpen
    <2>2. Told(clientCount, gpsState)' = Told(clientCount', gpsState')
      BY <1>4 DEF Told, OnlyNi, Count
    <2> QED
      BY <1>2, <2>1, <2>2, Zenon DEF StatusFresh
  <1> QED
    BY <1>10, <1>12, <1>13, <1>14

-----------------------------------------------------------------------------
(* The receiver's port, and the framework's and the network's calls.         *)
LEMMA PortAgreement ==
    ASSUME Agreement, connectReceiver \/ LosePort \/ handle_device_shutdown
    PROVE  Agreement'
  <1> SUFFICES ASSUME Sound'
               PROVE  EngineFollows' /\ EngineRuns' /\ StartOwed' /\ StatusFresh'
    BY DEF Agreement
  <1>1. /\ UNCHANGED <<session, inserted, cmdPipes, started, clientCount,
                       m_publishCount, assisted, early, cleaned>>
        /\ gpsState' = gpsState \/ (gpsState = "stopping" /\ gpsState' = "stopped")
    <2>1. CASE connectReceiver
      BY <2>1 DEF connectReceiver, sessionVars, frameworkVars
    <2>2. CASE LosePort
      BY <2>2 DEF LosePort, sessionVars, engineVars, frameworkVars
    <2>3. CASE handle_device_shutdown
      BY <2>3 DEF handle_device_shutdown, sessionVars, frameworkVars
    <2> QED
      BY <2>1, <2>2, <2>3, Zenon
  <1>2. EngineFollows /\ EngineRuns /\ StartOwed /\ StatusFresh
    BY <1>1 DEF Agreement, Sound
  <1>3. EngineFollows'
    <2>1. Wanted' = Wanted
      BY <1>1 DEF Wanted
    <2> QED
      BY <1>1, <1>2, <2>1, SameFollows
  <1>4. EngineRuns' /\ StartOwed'
    <2>1. gpsState' = "started" <=> gpsState = "started"
      BY <1>1
    <2> QED
      BY <1>1, <1>2, <2>1, Zenon DEF EngineRuns, StartOwed
  <1>5. StatusFresh'
    <2>1. Told(clientCount, gpsState)' = Told(clientCount, gpsState')
      BY <1>1 DEF Told, OnlyNi, Count
    <2>2. CASE connectReceiver
      <3>1. port' => m_lastStatusValue' = Told(clientCount, gpsState) /\ gpsState' = gpsState
        BY <2>2, Zenon DEF connectReceiver
      <3> QED
        BY <2>1, <3>1, Zenon DEF StatusFresh
    <2>3. CASE LosePort
      BY <2>3, Zenon DEF LosePort, StatusFresh
    <2>4. CASE handle_device_shutdown
      BY <2>1, <2>4, Zenon DEF handle_device_shutdown, StatusFresh
    <2> QED
      BY <2>2, <2>3, <2>4
  <1> QED
    BY <1>3, <1>4, <1>5

LEMMA FrameworkAgreement ==
    ASSUME Agreement, TypeOK, FrameworkCalls
    PROVE  Agreement'
  <1> SUFFICES ASSUME Sound'
               PROVE  EngineFollows' /\ EngineRuns' /\ StartOwed' /\ StatusFresh'
    BY DEF Agreement
  <1>1. /\ UNCHANGED <<session, inserted, clientCount, gpsState, m_publishCount, port,
                       m_lastStatusValue, assisted, early>>
        /\ start \/ stop
        /\ cleaned' = cleaned
    BY Zenon DEF FrameworkCalls, start, stop, cleanup, sessionVars, engineVars, Sound
  <1>2. EngineFollows /\ EngineRuns /\ StartOwed /\ StatusFresh
    BY <1>1 DEF Agreement, Sound
  <1>3. CmdTypes
    BY DEF TypeOK
  <1>4. PICK cmd \in Cmds : cmdPipes' = Append(cmdPipes, cmd) /\ Handled(Wanted, cmd, Wanted')
    <2>1. CASE start
      <3>1. /\ ~started /\ started' /\ cmdPipes' = Append(cmdPipes, "start si")
        BY <2>1 DEF start, Send
      <3>2. "si" \notin Wanted /\ Wanted' = Wanted \union {"si"}
        BY <1>1, <3>1 DEF Wanted, Kinds
      <3>3. Handled(Wanted, "start si", Wanted')
        BY <3>2 DEF Handled, Kinds, StartOf
      <3> QED
        BY <3>1, <3>3 DEF Cmds
    <2>2. CASE stop
      <3>1. /\ started /\ ~started' /\ cmdPipes' = Append(cmdPipes, "stop si")
        BY <2>2 DEF stop, Send
      <3>2. "si" \in Wanted /\ Wanted' = Wanted \ {"si"}
        BY <1>1, <3>1 DEF Wanted, Kinds
      <3>3. Handled(Wanted, "stop si", Wanted')
        BY <3>2 DEF Handled, Kinds, StopOf
      <3> QED
        BY <3>1, <3>3 DEF Cmds
    <2> QED
      BY <1>1, <2>1, <2>2
  <1>5. EngineFollows'
    BY <1>1, <1>2, <1>3, <1>4, AddedFollows
  <1>6. EngineRuns' /\ StartOwed'
    BY <1>1, <1>2, Zenon DEF EngineRuns, StartOwed
  <1>7. StatusFresh'
    <2>1. Settled' => Settled
      BY <1>1, <1>3, <1>4, StillSettled
    <2>2. Told(clientCount, gpsState)' = Told(clientCount, gpsState)
      BY <1>1 DEF Told, OnlyNi, Count
    <2> QED
      BY <1>1, <1>2, <2>1, <2>2, Zenon DEF StatusFresh
  <1> QED
    BY <1>5, <1>6, <1>7

LEMMA NiAgreement ==
    ASSUME Agreement, TypeOK, NiCalls
    PROVE  Agreement'
  <1> SUFFICES ASSUME Sound'
               PROVE  EngineFollows' /\ EngineRuns' /\ StartOwed' /\ StatusFresh'
    BY DEF Agreement
  <1>1. /\ UNCHANGED <<clientCount, gpsState, m_publishCount, port, m_lastStatusValue,
                       started, cleaned, assisted, early>>
        /\ InsertNi \/ RequestStart
    BY Zenon DEF NiCalls, engineVars, frameworkVars
  <1>2. EngineFollows /\ EngineRuns /\ StartOwed /\ StatusFresh
    BY <1>1 DEF Agreement, Sound
  <1>3. EngineRuns'
    BY <1>1, <1>2, Zenon DEF EngineRuns
  <1>4. CASE InsertNi
    <2>1. /\ session["ni"] = "none" /\ session'["ni"] = "START"
          /\ inserted' /\ UNCHANGED cmdPipes
      <3>1. session \in [Kinds -> States \union {"none"}]
        BY DEF TypeOK, SessionTypes
      <3> QED
        BY <1>4, <3>1 DEF InsertNi, Kinds
    <2>2. Wanted' = Wanted
      BY <1>1, <2>1 DEF Wanted, Kinds
    <2>3. EngineFollows'
      BY <1>1, <1>2, <2>1, <2>2, SameFollows
    <2>4. StartOwed'
      BY <2>1 DEF StartOwed
    <2>5. StatusFresh'
      BY <2>1, Zenon DEF StatusFresh, Settled
    <2> QED
      BY <1>3, <2>3, <2>4, <2>5
  <1>5. CASE RequestStart
    <2>1. /\ inserted /\ ~inserted' /\ session' = session
          /\ cmdPipes' = Append(cmdPipes, "start ni")
      BY <1>5 DEF RequestStart, Send
    <2>2. CmdTypes /\ "start ni" \in Cmds
      BY DEF TypeOK, Cmds
    <2>3. Handled(Wanted, "start ni", Wanted')
      <3>1. "ni" \notin Wanted /\ Wanted' = Wanted \union {"ni"}
        BY <1>1, <1>2, <2>1 DEF Wanted, Kinds, StartOwed
      <3> QED
        BY <3>1 DEF Handled, Kinds, StartOf
    <2>4. EngineFollows'
      BY <1>1, <1>2, <2>1, <2>2, <2>3, AddedFollows
    <2>5. StartOwed'
      BY <2>1 DEF StartOwed
    <2>6. StatusFresh'
      BY <2>1, <2>2, NotSettled DEF StatusFresh
    <2> QED
      BY <1>3, <2>4, <2>5, <2>6
  <1> QED
    BY <1>1, <1>4, <1>5

-----------------------------------------------------------------------------
LEMMA InitAgreement == Init => Agreement
  <1> SUFFICES ASSUME Init PROVE Agreement
    OBVIOUS
  <1>1. /\ cmdPipes = <<>> /\ Wanted = {}
        /\ clientCount = 0 /\ m_publishCount = 0
        /\ ~port /\ gpsState = "stopped" /\ ~inserted
    BY DEF Init, Wanted, Kinds
  <1>2. EngineFollows
    <2> DEFINE on == [i \in 0 .. 0 |-> {}]
    <2>1. /\ Len(cmdPipes) = 0
          /\ on \in [0 .. 0 -> SUBSET Kinds] /\ on[0] = {}
      BY <1>1
    <2> HIDE DEF on
    <2>2. Path(cmdPipes, on)
      BY <2>1 DEF Path
    <2>3. Stopped(cmdPipes, on)
      <3>1. \A i \in 0 .. 0 : i = 0
        OBVIOUS
      <3> QED
        BY <2>1, <3>1, Zenon DEF Stopped
    <2>4. Size(on[0]) = 0
      BY <2>1 DEF Size, OneIf
    <2>5. m_publishCount <= Reasons(on[0])
      BY <1>1, ReasonsAre, Zenon
    <2> QED
      BY <1>1, <2>1, <2>2, <2>3, <2>4, <2>5, Zenon DEF EngineFollows
  <1>3. EngineRuns
    BY <1>1 DEF EngineRuns
  <1> QED
    BY <1>1, <1>2, <1>3, Zenon DEF Agreement, StartOwed, StatusFresh

LEMMA StepAgreement == IInv /\ Agreement /\ [Next]_vars => Agreement'
  <1>0. SUFFICES ASSUME IInv, Agreement, [Next]_vars
                 PROVE  Agreement'
    OBVIOUS
  <1>1. TypeOK
    BY <1>0 DEF IInv
  <1>2. ASSUME NEW k \in Kinds, Looks(k)
        PROVE  Agreement'
    <2>1. MoveLeaves
      BY <1>2, Zenon DEF Looks, suplCheckPendingActions, suplCheckAvailable, SessionOnly,
                         MoveLeaves, engineVars, frameworkVars
    <2> QED
      BY <1>0, <1>1, <1>2, <2>1, LookAgreement
  <1>3. ASSUME NEW k \in Kinds, suplReadUplSock(k)
        PROVE  Agreement'
    <2>1. MoveLeaves /\ (Receive(k) \/ ReceivePosition(k))
      BY <1>3, Zenon DEF suplReadUplSock, SessionOnly, MoveLeaves, engineVars, frameworkVars
    <2>2. CASE ReceivePosition(k)
      BY <1>0, <1>1, <2>1, <2>2, EndAgreement DEF ReceivePosition
    <2> QED
      BY <1>0, <1>1, <2>1, <2>2, ReceiveAgreement
  <1>4. CASE GoOnAuthorized
    <2>1. MoveLeaves /\ Authorize
      BY <1>4, Zenon DEF GoOnAuthorized, MoveLeaves, engineVars, frameworkVars
    <2> QED
      BY <1>0, <1>1, <2>1, AuthorizeAgreement
  <1>5. CASE handleCmdInput
    BY <1>0, <1>1, <1>5, EngineAgreement
  <1>6. CASE connectReceiver \/ LosePort \/ handle_device_shutdown
    BY <1>0, <1>6, PortAgreement
  <1>7. CASE FrameworkCalls
    BY <1>0, <1>1, <1>7, FrameworkAgreement
  <1>8. CASE NiCalls
    BY <1>0, <1>1, <1>8, NiAgreement
  <1>9. CASE \/ UserAnswers \/ (\E mode \in Modes : setPositionMode(mode)) \/ Commit
             \/ (\E k \in Kinds : TimePasses(k) \/ GoesSilent(k)) \/ UNCHANGED vars
    <2>1. /\ MoveLeaves
          /\ UNCHANGED <<session, cmdPipes, early, assisted, m_publishCount>>
      BY <1>9, Zenon DEF UserAnswers, respond, setPositionMode, Commit, TimePasses, GoesSilent,
                         MoveLeaves, vars, sessionVars, engineVars, frameworkVars
    <2> QED
      BY <1>0, <2>1, KeptAgreement
  <1> QED
    BY <1>0, <1>2, <1>3, <1>4, <1>5, <1>6, <1>7, <1>8, <1>9, Zenon DEF Next, Looks

(* With no command on its way the engine has what the callers want. *)
LEMMA QuietFollows ==
    ASSUME TypeOK, Agreement, Sound, Quiet
    PROVE  /\ clientCount = Count("ni") + OneIf(started)
           /\ gpsState = "started" <=> clientCount > 0
  <1>1. EngineFollows /\ EngineRuns
    BY DEF Agreement
  <1>2. PICK on :
           /\ Path(cmdPipes, on) /\ Stopped(cmdPipes, on)
           /\ on[Len(cmdPipes)] = Wanted
           /\ clientCount = Size(on[0])
           /\ ~assisted => m_publishCount <= Reasons(on[0])
    BY <1>1, Zenon DEF EngineFollows
  <1>3. Len(cmdPipes) = 0 /\ ~inserted
    BY DEF Quiet
  <1>4. clientCount = Size(Wanted)
    BY <1>2, <1>3
  <1>5. Size(Wanted) = OneIf(started) + OneIf(session["ni"] # "none")
    BY <1>3, WantedIs DEF Size, OneIf
  <1>6. OneIf(started) + OneIf(session["ni"] # "none") = OneIf(session["ni"] # "none") + OneIf(started)
    BY DEF OneIf
  <1> QED
    BY <1>1, <1>4, <1>5, <1>6, Zenon DEF EngineRuns, Count

-----------------------------------------------------------------------------
(* Once every command is handled, the engine counts exactly the framework    *)
(* and the network's session as its clients and runs exactly for them,       *)
(* whatever the order of their starts and stops, unless cleanup was called   *)
(* or a session ended before its start was asked for.                        *)
THEOREM CountsItsClients == Spec => []CountFollowsClients
  <1>1. IInv /\ Agreement => CountFollowsClients
    BY QuietFollows DEF IInv, CountFollowsClients
  <1> QED
    BY InitIInv, StepIInv, InitAgreement, StepAgreement, <1>1, PTL DEF Spec

(* The status tells the framework of its own start and stop only: it is      *)
(* "begin" exactly from the one to the other, however the sessions of the    *)
(* network come and go and the port is lost and opened.                      *)
THEOREM StatusIsTheFrameworks == Spec => []StatusFollowsFramework
  <1>1. ASSUME TypeOK, Agreement, Sound, Quiet, port
        PROVE  m_lastStatusValue = "begin" <=> started
    <2>1. Settled
      BY <1>1 DEF Quiet, Settled
    <2>2. m_lastStatusValue = Told(clientCount, gpsState)
      BY <1>1, <2>1 DEF Agreement, StatusFresh
    <2>3. /\ clientCount = Count("ni") + OneIf(started)
          /\ gpsState = "started" <=> clientCount > 0
      BY <1>1, QuietFollows
    <2>4. gpsState \in {"started", "stopping", "stopped"} /\ started \in BOOLEAN
      BY <1>1 DEF TypeOK, EngineTypes, FrameworkTypes
    <2>5. Count("ni") \in {0, 1}
      BY DEF Count, OneIf
    <2>6. CASE started
      <3>1. clientCount = Count("ni") + 1
        BY <2>3, <2>6, Zenon DEF OneIf
      <3>2. ~OnlyNi(clientCount) /\ gpsState = "started"
        BY <2>3, <2>5, <3>1 DEF OnlyNi
      <3> QED
        BY <2>2, <2>6, <3>2 DEF Told
    <2>7. CASE ~started
      <3>1. clientCount = Count("ni") + 0
        BY <2>3, <2>7, Zenon DEF OneIf
      <3>2. OnlyNi(clientCount) \/ gpsState # "started"
        BY <2>3, <2>5, <3>1 DEF OnlyNi
      <3> QED
        BY <2>2, <2>4, <2>7, <3>2 DEF Told
    <2> QED
      BY <2>6, <2>7
  <1>2. IInv /\ Agreement => StatusFollowsFramework
    BY <1>1 DEF IInv, StatusFollowsFramework
  <1> QED
    BY InitIInv, StepIInv, InitAgreement, StepAgreement, <1>2, PTL DEF Spec

(* The receiver's position is told only while the framework counts as asking. *)
LEMMA CountAsked ==
    ASSUME TypeOK, Agreement, Sound, m_publishCount > 0, ~assisted
    PROVE  Asked
  <1> SUFFICES ASSUME ~started
               PROVE  \E i \in 1 .. Len(cmdPipes) : cmdPipes[i] = "stop si"
    BY Zenon DEF Asked
  <1>1. PICK on :
           /\ Path(cmdPipes, on) /\ Stopped(cmdPipes, on)
           /\ on[Len(cmdPipes)] = Wanted
           /\ clientCount = Size(on[0])
           /\ ~assisted => m_publishCount <= Reasons(on[0])
    BY Zenon DEF Agreement, EngineFollows
  <1>2. "si" \in on[0]
    <2>1. m_publishCount \in Nat
      BY DEF TypeOK, PublishTypes
    <2>2. m_publishCount <= Reasons(on[0])
      BY <1>1
    <2>3. Reasons(on[0]) \in {0, 1}
      BY ReasonsAre
    <2>4. Reasons(on[0]) = 1
      BY <2>1, <2>2, <2>3
    <2> QED
      BY <2>4, ReasonsAre
  <1>3. "si" \notin on[Len(cmdPipes)]
    BY <1>1, WantedIs
  <1>4. Len(cmdPipes) \in Nat
    BY DEF TypeOK, CmdTypes
  <1>5. 0 \in 0 .. Len(cmdPipes) /\ Len(cmdPipes) \in 0 .. Len(cmdPipes) /\ 0 <= Len(cmdPipes)
    BY <1>4
  <1> QED
    BY <1>1, <1>2, <1>3, <1>5, Zenon DEF Stopped

(* No cleanup and no early end is ever forgotten. *)
LEMMA StaysUnsound == [Next]_vars /\ Sound' => Sound
  <1> SUFFICES ASSUME [Next]_vars
               PROVE  (early => early') /\ (cleaned => cleaned')
    BY Zenon DEF Sound
  <1>1. ASSUME NEW k \in Kinds, endSuplSession(k) \/ \E state \in States : Becomes(k, state)
        PROVE  early => early'
    BY <1>1, Zenon DEF endSuplSession, Becomes
  <1>2. ASSUME NEW k \in Kinds, Looks(k)
        PROVE  (early => early') /\ cleaned' = cleaned
    <2>1. endSuplSession(k) \/ \E state \in States : Becomes(k, state)
      <3>1. CASE k = "ni" /\ StartNi
        BY <3>1 DEF StartNi, States
      <3>2. CASE TimedOut(k)
        BY <3>2 DEF TimedOut
      <3>3. CASE PositionAvailable(k) \/ MsaResponseDue(k) \/ NetworkConnected(k)
        BY <3>3 DEF PositionAvailable, MsaResponseDue, SendResponse, NetworkConnected, States
      <3> QED
        BY <1>2, <3>1, <3>2, <3>3 DEF Looks, suplCheckPendingActions, suplCheckAvailable
    <2>2. cleaned' = cleaned
      BY <1>2, Zenon DEF Looks, suplCheckPendingActions, suplCheckAvailable, SessionOnly,
                         frameworkVars
    <2> QED
      BY <1>1, <2>1, <2>2
  <1>3. ASSUME NEW k \in Kinds, suplReadUplSock(k)
        PROVE  (early => early') /\ cleaned' = cleaned
    <2>1. endSuplSession(k) \/ \E state \in States : Becomes(k, state)
      BY <1>3 DEF suplReadUplSock, Receive, ReceivePosition, ServerResponds, ServerAsks, States
    <2>2. cleaned' = cleaned
      BY <1>3, Zenon DEF suplReadUplSock, SessionOnly, frameworkVars
    <2> QED
      BY <1>1, <2>1, <2>2
  <1>4. CASE GoOnAuthorized
    <2>1. endSuplSession("ni") \/ Becomes("ni", "RRLP")
      BY <1>4 DEF GoOnAuthorized, Authorize
    <2>2. "ni" \in Kinds /\ "RRLP" \in States
      BY DEF Kinds, States
    <2>3. cleaned' = cleaned
      BY <1>4, Zenon DEF GoOnAuthorized, frameworkVars
    <2> QED
      BY <1>1, <2>1, <2>2, <2>3
  <1>5. CASE FrameworkCalls
    <2>1. early' = early /\ (start \/ stop \/ cleanup)
      BY <1>5 DEF FrameworkCalls
    <2>2. cleaned => cleaned'
      BY <2>1 DEF start, stop, cleanup
    <2> QED
      BY <2>1, <2>2
  <1>6. CASE \/ handleCmdInput \/ handle_device_shutdown \/ Commit
             \/ connectReceiver \/ LosePort \/ NiCalls \/ UserAnswers
             \/ (\E k \in Kinds : TimePasses(k) \/ GoesSilent(k))
             \/ (\E mode \in Modes : setPositionMode(mode)) \/ UNCHANGED vars
    <2>1. early' = early /\ cleaned' = cleaned
      BY <1>6 DEF handleCmdInput, handle_device_shutdown, Commit, connectReceiver,
                  LosePort, NiCalls, UserAnswers, TimePasses, GoesSilent,
                  setPositionMode, vars, frameworkVars
    <2> QED
      BY <2>1
  <1> QED
    BY <1>2, <1>3, <1>4, <1>5, <1>6, Zenon DEF Next, Looks

LEMMA StepAsked ==
    IInv /\ Agreement /\ PublishOnlyWhenAsked /\ [Next]_vars => PublishOnlyWhenAsked'
  <1> SUFFICES ASSUME IInv, Agreement, PublishOnlyWhenAsked, [Next]_vars, Sound'
               PROVE  "receiver" \notin unasked'
    BY Zenon DEF PublishOnlyWhenAsked
  <1>1. Sound /\ "receiver" \notin unasked
    BY StaysUnsound DEF PublishOnlyWhenAsked
  <1>2. CASE Commit
    <2>1. m_publishCount > 0 /\ TypeOK
      BY <1>2 DEF Commit, IInv
    <2>2. Asked \/ assisted
      BY <1>1, <2>1, CountAsked, Zenon
    <2> QED
      BY <1>1, <1>2, <2>2, Zenon DEF Commit, Tells
  <1>3. CASE \E k \in Kinds : suplReadUplSock(k)
    <2>1. unasked' = unasked \/ unasked' = unasked \union {"server"}
      BY <1>3, Zenon DEF suplReadUplSock, ReceivePosition, Tells
    <2>2. "receiver" # "server"
      OBVIOUS
    <2> QED
      BY <1>1, <2>1, <2>2
  <1>4. CASE ~Commit /\ ~\E k \in Kinds : suplReadUplSock(k)
    <2>1. unasked' = unasked
      BY <1>4, Zenon DEF Next, suplCheckPendingActions, suplCheckAvailable, TimePasses,
                         GoesSilent, GoOnAuthorized, handleCmdInput, handle_device_shutdown,
                         connectReceiver, LosePort, FrameworkCalls, NiCalls, UserAnswers,
                         setPositionMode, vars
    <2> QED
      BY <1>1, <2>1
  <1> QED
    BY <1>2, <1>3, <1>4

(* The receiver's positions are told to the framework only from its start    *)
(* until its stop is handled, unless an MS assisted session ended: neither    *)
(* the network's sessions nor the losses of the port, in any order with the  *)
(* starts and stops, leave m_publishCount above zero for nobody.             *)
THEOREM PublishesWhenAsked == Spec => []PublishOnlyWhenAsked
  <1>1. Init => PublishOnlyWhenAsked
    BY DEF Init, PublishOnlyWhenAsked
  <1> QED
    BY <1>1, InitIInv, StepIInv, InitAgreement, StepAgreement, StepAsked, PTL DEF Spec
=============================================================================
