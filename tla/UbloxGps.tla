------------------------------ MODULE UbloxGps ------------------------------
(***************************************************************************)
(* The u-blox GPS HAL with SUPL (ublox_gps_hal, SUPL_ENABLED; without it     *)
(* the behaviours are those here in which no session begins): the main       *)
(* thread that runs the receiver and the SUPL sessions, the framework's      *)
(* calls, which it gets through a pipe, and the framework's thread that      *)
(* brings a network initiation (NI) and answers for the user.                *)
(*                                                                          *)
(* The main thread's loop reads the receiver, the sessions' sockets and one  *)
(* command, and then looks at every session; here each of these is a step.   *)
(* A session is the network's ("ni") or the set's own ("si"); there is at    *)
(* most one of each, as a second is not begun.  Messages, positions, aiding  *)
(* data and session ids are left out: what they decide is a choice.          *)
(***************************************************************************)
EXTENDS Naturals, Sequences

CONSTANTS
    Modes,       \* the position modes the framework asks for
    MaxCmds      \* bound: the commands in the pipe when a caller adds one

Kinds == {"si", "ni"}
States == {"START", "NO_NETWORK", "AUTH", "WAIT_RES", "RRLP",
           "RRLP_RESP position", "RRLP_RESP msa"}

ASSUME UbloxAssumption ==
    /\ Modes \subseteq {"standalone", "ms based", "ms assisted"}
    /\ MaxCmds \in Nat \ {0}

VARIABLES
    session,      \* the handlers in the list: their state, or "none"
    due,          \* the time it set for its state has come
    silent,       \* its server, which spoke to it, says no more
    answer,       \* what the user answered and CNiIf::sem was posted for, or "none"
    inserted,     \* the NI thread has inserted a session, its start is not asked for
    cmdPipes,     \* the commands on their way
    clientCount, gpsState,
    m_publishCount,
    port,         \* the receiver's serial port is open
    receiver,     \* the receiver runs
    m_lastStatusValue,
    m_mode,
    started,      \* the framework has called start and not yet stop
    early,        \* history: an NI session ended before its start was asked for
    cleaned,      \* history: cleanup was called, which stops once more
    assisted,     \* history: an MS assisted session ended since publishing was reset
    unasked       \* history: whose positions the framework was told without asking

timers == <<due, silent>>
sessionVars == <<session, timers, answer, inserted>>
engineVars == <<clientCount, gpsState, receiver>>
frameworkVars == <<m_mode, started, cleaned>>
vars == <<sessionVars, cmdPipes, engineVars, m_publishCount, port,
          m_lastStatusValue, frameworkVars, early, assisted, unasked>>

Init ==
    /\ session = [k \in Kinds |-> "none"]
    /\ due = [k \in Kinds |-> FALSE]
    /\ silent = [k \in Kinds |-> FALSE]
    /\ answer = "none"
    /\ inserted = FALSE
    /\ cmdPipes = <<>>
    /\ clientCount = 0
    /\ gpsState = "stopped"
    /\ m_publishCount = 0
    /\ port = FALSE
    /\ receiver = FALSE
    /\ m_lastStatusValue = "off"
    /\ m_mode \in Modes
    /\ started = FALSE
    /\ early = FALSE /\ cleaned = FALSE /\ assisted = FALSE
    /\ unasked = {}

-----------------------------------------------------------------------------
(* What the framework is told. *)
OneIf(b) == IF b THEN 1 ELSE 0
Count(ni) == OneIf(session[ni] # "none")

AnyNi(clients) == Count("ni") > 0
OnlyNi(clients) == clients > 0 /\ clients = Count("ni")

Told(clients, state) ==
    CASE OnlyNi(clients) -> "off"
      [] OTHER -> [started |-> "begin", stopping |-> "end", stopped |-> "off"][state]

ReportIfOpen == IF port THEN Told(clientCount', gpsState') ELSE m_lastStatusValue

-----------------------------------------------------------------------------
(* The end of a session: the engine is asked to stop for a network's; a      *)
(* set's own in MS assisted mode lets positions be published again.          *)
AskAlways(k) == k \in Kinds
AsksToStop(k) == k = "ni"

endSuplSession(k) ==
    /\ session' = [session EXCEPT ![k] = "none"]
    /\ due' = [due EXCEPT ![k] = FALSE]
    /\ silent' = [silent EXCEPT ![k] = FALSE]
    /\ IF AsksToStop(k)
          THEN /\ cmdPipes' = Append(cmdPipes, "stop ni")
               /\ early' = (early \/ inserted)
               /\ UNCHANGED <<m_publishCount, assisted>>
          ELSE /\ m_publishCount' = m_publishCount + OneIf(m_mode = "ms assisted")
               /\ assisted' = (assisted \/ m_mode = "ms assisted")
               /\ UNCHANGED <<cmdPipes, early>>

(* Every state but START and AUTH sets a time of its own when it is entered.  *)
Becomes(k, state) ==
    /\ session' = [session EXCEPT ![k] = state]
    /\ due' = [due EXCEPT ![k] = FALSE]
    /\ UNCHANGED <<silent, cmdPipes, m_publishCount, assisted, early>>

(* suplSM in START for a network's session, whose message is looked at: it   *)
(* may be one that cannot be served, and it waits for the network if there   *)
(* is none.  In AUTH the main thread waits for the user (CNiIf::sem).        *)
StartNi ==
    /\ session["ni"] = "START"
    /\ \/ endSuplSession("ni")
       \/ \E state \in {"NO_NETWORK", "AUTH"} : Becomes("ni", state)

(* NO_NETWORK, when there is one: a session that cannot be created ends.     *)
NetworkConnected(k) ==
    /\ session[k] = "NO_NETWORK"
    /\ ~due[k]
    /\ \/ Becomes(k, IF k = "ni" THEN "AUTH" ELSE "WAIT_RES")
       \/ endSuplSession(k)

(* suplHandleAuthorization, with the answer the thread has waited for.       *)
Authorize ==
    /\ session["ni"] = "AUTH"
    /\ answer # "none"
    /\ answer' = "none"
    /\ \/ answer = "grant" /\ Becomes("ni", "RRLP")
       \/ endSuplSession("ni")

(* Every wait for the network or the server has a timeout, after which the   *)
(* session ends.  A position that is owed is sent first, as good as it is.   *)
OnceConnected == {"WAIT_RES", "RRLP", "RRLP_RESP position"}
HasTimeout == {"NO_NETWORK", "WAIT_RES", "RRLP", "RRLP_RESP position"}

Expires(k) ==
    /\ session[k] \in States \ {"START", "AUTH"}
    /\ ~due[k]
    /\ due' = [due EXCEPT ![k] = TRUE]

TimedOut(k) == session[k] \in HasTimeout /\ due[k] /\ endSuplSession(k)

(* RRLP_RESP: a position that is good enough, or the measurements for the    *)
(* server at the time it set.                                                *)
SendResponse(k) == Becomes(k, "RRLP") \/ endSuplSession(k)

PositionAvailable(k) ==
    session[k] = "RRLP_RESP position" /\ ~due[k] /\ SendResponse(k)

MsaResponseDue(k) ==
    session[k] = "RRLP_RESP msa" /\ due[k] /\ SendResponse(k)

(* The server's message.  In RRLP one that is answered at once only renews    *)
(* the timeout; RRLP_RESP ignores every message.                             *)
ServerResponds(k) == session[k] = "WAIT_RES" /\ Becomes(k, "RRLP")

ServerAsks(k) ==
    /\ session[k] = "RRLP"
    /\ ~silent[k]
    /\ \E state \in {"RRLP", "RRLP_RESP position", "RRLP_RESP msa"} : Becomes(k, state)

(* What the session does not expect ends it, and so does the end of the       *)
(* connection.                                                               *)
Receive(k) ==
    /\ session[k] \in {"WAIT_RES", "RRLP", "RRLP_RESP position", "RRLP_RESP msa"}
    /\ endSuplSession(k) \/ ServerResponds(k) \/ ServerAsks(k)

(* A position is told to the framework unasked from when its stop is handled *)
(* to its next start.                                                        *)
Asked == started \/ \E i \in 1 .. Len(cmdPipes) : cmdPipes[i] = "stop si"

Tells(source, excused) ==
    unasked' = IF Asked \/ excused THEN unasked ELSE unasked \union {source}

(* The position in a SUPLEND is told whatever m_publishCount is.             *)
ReceivePosition(k) ==
    /\ session[k] = "RRLP"
    /\ ~silent[k]
    /\ endSuplSession(k)
    /\ Tells("server", FALSE)

Waits == session["ni"] = "AUTH"

SessionOnly == UNCHANGED <<answer, inserted, engineVars, port, m_lastStatusValue, frameworkVars>>

suplCheckPendingActions(k) ==
    /\ ~Waits
    /\ (k = "ni" /\ StartNi) \/ TimedOut(k) \/ MsaResponseDue(k)
    /\ UNCHANGED unasked
    /\ SessionOnly

(* ... when the network or a position is there.                              *)
suplCheckAvailable(k) ==
    /\ ~Waits
    /\ PositionAvailable(k) \/ NetworkConnected(k)
    /\ UNCHANGED unasked
    /\ SessionOnly

suplReadUplSock(k) ==
    /\ ~Waits
    /\ (Receive(k) /\ UNCHANGED unasked) \/ ReceivePosition(k)
    /\ SessionOnly

TimePasses(k) ==
    /\ Expires(k)
    /\ UNCHANGED <<session, silent, answer, inserted, cmdPipes, engineVars, m_publishCount,
                   port, m_lastStatusValue, frameworkVars, early, assisted, unasked>>

GoesSilent(k) ==
    /\ session[k] = "RRLP"
    /\ ~silent[k]
    /\ silent' = [silent EXCEPT ![k] = TRUE]
    /\ UNCHANGED <<session, due, answer, inserted, cmdPipes, engineVars, m_publishCount,
                   port, m_lastStatusValue, frameworkVars, early, assisted, unasked>>

GoOnAuthorized ==
    /\ Authorize
    /\ UNCHANGED <<inserted, engineVars, port, m_lastStatusValue, frameworkVars, unasked>>

-----------------------------------------------------------------------------
(* The engine.  The set's own session is begun with the first client, if the *)
(* mode asks for help and no session is there; without a server's address it *)
(* is not, and without a network it waits.                                   *)
Begun == {"NO_NETWORK", "WAIT_RES"}

(* A session that cannot be created has ended at once.                       *)
incPublish(ended) ==
    m_publishCount' = m_publishCount + 1 + OneIf(ended /\ m_mode = "ms assisted")

StartSet ==
    \/ /\ m_mode # "standalone"
       /\ \A k \in Kinds : session[k] = "none"
       /\ \/ /\ \E state \in Begun : session' = [session EXCEPT !["si"] = state]
             /\ IF m_mode = "ms assisted" THEN UNCHANGED m_publishCount
                                          ELSE incPublish(FALSE)
             /\ UNCHANGED assisted
          \/ /\ incPublish(TRUE)
             /\ assisted' = (assisted \/ m_mode = "ms assisted")
             /\ UNCHANGED session
    \/ incPublish(FALSE) /\ UNCHANGED <<session, assisted>>

(* onStartup reaches the receiver if the port is open.                       *)
engineStart(si) ==
    /\ clientCount' = clientCount + 1
    /\ IF clientCount = 0
          THEN /\ gpsState' = "started"
               /\ receiver' = (receiver \/ port)
               /\ IF si THEN StartSet ELSE UNCHANGED <<session, m_publishCount, assisted>>
          ELSE UNCHANGED <<gpsState, receiver, session, m_publishCount, assisted>>

keepPublish(n) == n
decPublish(n) == IF n > 0 THEN n - 1 ELSE n

(* With the last client the receiver is told to stop.                        *)
engineStop(si) ==
    /\ clientCount' = IF clientCount > 0 THEN clientCount - 1 ELSE 0
    /\ IF clientCount = 1
          THEN /\ gpsState' = "stopping"
               /\ receiver' = (receiver /\ ~port)
               /\ m_publishCount' = 0
               /\ assisted' = FALSE
          ELSE /\ m_publishCount' = IF si THEN decPublish(m_publishCount) ELSE m_publishCount
               /\ UNCHANGED <<gpsState, receiver, assisted>>
    /\ UNCHANGED session

handleCmdInput ==
    /\ ~Waits
    /\ cmdPipes # <<>>
    /\ cmdPipes' = Tail(cmdPipes)
    /\ CASE Head(cmdPipes) = "start si" -> engineStart(TRUE)
         [] Head(cmdPipes) = "start ni" -> engineStart(FALSE)
         [] Head(cmdPipes) = "stop si" -> engineStop(TRUE)
         [] Head(cmdPipes) = "stop ni" -> engineStop(FALSE)
    /\ m_lastStatusValue' = ReportIfOpen
    /\ UNCHANGED <<timers, answer, inserted, port, frameworkVars, early, unasked>>

(* The receiver has stopped, or has had the time for it.                     *)
handle_device_shutdown ==
    /\ ~Waits
    /\ gpsState = "stopping"
    /\ gpsState' = "stopped"
    /\ m_lastStatusValue' = Told(clientCount, gpsState')
    /\ UNCHANGED <<sessionVars, cmdPipes, clientCount, receiver, m_publishCount, port,
                   frameworkVars, early, assisted, unasked>>

(* CMyDatabase::Commit, with a position of the receiver.                     *)
Commit ==
    /\ ~Waits
    /\ port
    /\ gpsState = "started"
    /\ m_publishCount > 0
    /\ Tells("receiver", assisted)
    /\ UNCHANGED <<sessionVars, cmdPipes, engineVars, m_publishCount, port,
                   m_lastStatusValue, frameworkVars, early, assisted>>

(* The port is opened at the thread's start and whenever it was lost; the    *)
(* receiver is stopped then, even if the engine is started.                  *)
runsAsBefore == receiver
runsAfterInit == FALSE

connectReceiver ==
    /\ ~Waits
    /\ ~port
    /\ \/ /\ port' = TRUE
          /\ receiver' = runsAfterInit
          /\ m_lastStatusValue' = Told(clientCount, gpsState)
       \/ /\ m_lastStatusValue' = "off"
          /\ UNCHANGED <<port, receiver>>
    /\ UNCHANGED <<sessionVars, cmdPipes, clientCount, gpsState, m_publishCount,
                   frameworkVars, early, assisted, unasked>>

LosePort ==
    /\ ~Waits
    /\ port
    /\ port' = FALSE
    /\ UNCHANGED <<sessionVars, cmdPipes, engineVars, m_publishCount, m_lastStatusValue,
                   frameworkVars, early, assisted, unasked>>

-----------------------------------------------------------------------------
(* The framework.  It stops before it cleans up, and chooses the mode before *)
(* it starts.                                                                *)
Send(cmd) == Len(cmdPipes) < MaxCmds /\ cmdPipes' = Append(cmdPipes, cmd)

CleanupBound == ~cleaned     \* bound: one call of cleanup

start == ~started /\ Send("start si") /\ started' = TRUE /\ UNCHANGED cleaned
stop == started /\ Send("stop si") /\ started' = FALSE /\ UNCHANGED cleaned
cleanup == ~started /\ CleanupBound /\ Send("stop si") /\ cleaned' = TRUE /\ UNCHANGED started

FrameworkCalls ==
    /\ start \/ stop \/ cleanup
    /\ UNCHANGED <<sessionVars, engineVars, m_publishCount, port, m_lastStatusValue, m_mode,
                   early, assisted, unasked>>

setPositionMode(mode) ==
    /\ ~started
    /\ m_mode' = mode
    /\ UNCHANGED <<sessionVars, cmdPipes, engineVars, m_publishCount, port,
                   m_lastStatusValue, started, cleaned, early, assisted, unasked>>

(* A network initiation, unless there is one: the session is inserted, and   *)
(* from then on the main thread may act on it, before its start is asked.    *)
EarlyBound == ~early     \* bound: none comes after one that ended early

InsertNi ==
    /\ ~inserted
    /\ session["ni"] = "none"
    /\ EarlyBound
    /\ session' = [session EXCEPT !["ni"] = "START"]
    /\ inserted' = TRUE
    /\ UNCHANGED <<timers, answer, cmdPipes>>

RequestStart ==
    /\ inserted
    /\ Send("start ni")
    /\ inserted' = FALSE
    /\ UNCHANGED <<session, timers, answer>>

(* CNiIf::respond: the user's answer, or the framework's when there is none. *)
respond ==
    /\ Waits
    /\ answer = "none"
    /\ answer' \in {"grant", "deny"}
    /\ UNCHANGED <<session, timers, inserted, cmdPipes>>

NiCalls ==
    /\ InsertNi \/ RequestStart
    /\ UNCHANGED <<engineVars, m_publishCount, port, m_lastStatusValue, frameworkVars,
                   early, assisted, unasked>>

UserAnswers ==
    /\ respond
    /\ UNCHANGED <<engineVars, m_publishCount, port, m_lastStatusValue, frameworkVars,
                   early, assisted, unasked>>

-----------------------------------------------------------------------------
Next ==
    \/ \E k \in Kinds :
          \/ suplCheckPendingActions(k) \/ suplCheckAvailable(k) \/ suplReadUplSock(k)
          \/ TimePasses(k) \/ GoesSilent(k)
    \/ GoOnAuthorized \/ handleCmdInput \/ handle_device_shutdown \/ Commit
    \/ connectReceiver \/ LosePort
    \/ FrameworkCalls \/ NiCalls \/ UserAnswers
    \/ \E mode \in Modes : setPositionMode(mode)

Spec == Init /\ [][Next]_vars

(* The loop looks at every session on each pass; while it waits for the user *)
(* no session moves, hence SF.  A timeout that no message renews comes; in    *)
(* RRLP each may renew it.  The framework answers each notification, if need *)
(* be after its timeout.                                                     *)
Renewed(k) == session[k] = "RRLP" /\ ~silent[k]

Fairness ==
    /\ \A k \in Kinds : /\ SF_vars(suplCheckPendingActions(k))
                        /\ WF_vars(~Renewed(k) /\ TimePasses(k))
    /\ WF_vars(GoOnAuthorized)
    /\ WF_vars(UserAnswers)

LiveSpec == Spec /\ Fairness

-----------------------------------------------------------------------------
(* The types of the variables, of which the commands are the four of         *)
(* gps_thread.h.                                                             *)
Cmds == {"start si", "stop si", "start ni", "stop ni"}

SessionTypes ==
    /\ session \in [Kinds -> States \union {"none"}]
    /\ due \in [Kinds -> BOOLEAN] /\ silent \in [Kinds -> BOOLEAN]
    /\ early \in BOOLEAN

NiTypes == answer \in {"none", "grant", "deny"} /\ inserted \in BOOLEAN

CmdTypes == cmdPipes \in Seq(Cmds)

EngineTypes ==
    /\ clientCount \in Nat
    /\ gpsState \in {"started", "stopping", "stopped"}
    /\ port \in BOOLEAN /\ receiver \in BOOLEAN

PublishTypes == m_publishCount \in Nat /\ assisted \in BOOLEAN

ToldTypes == unasked \subseteq {"receiver", "server"}

FrameworkTypes ==
    /\ m_lastStatusValue \in {"begin", "end", "off"}
    /\ m_mode \in Modes
    /\ started \in BOOLEAN /\ cleaned \in BOOLEAN

TypeOK ==
    /\ SessionTypes /\ NiTypes /\ CmdTypes
    /\ EngineTypes /\ PublishTypes /\ ToldTypes /\ FrameworkTypes

Quiet == cmdPipes = <<>> /\ ~inserted
Sound == ~early /\ ~cleaned

(* The engine runs exactly for the framework and the network's sessions,     *)
(* once every command is handled, unless cleanup stopped once more or a      *)
(* session ended before its start was asked for.                             *)
CountFollowsClients ==
    Quiet /\ Sound =>
        /\ clientCount = Count("ni") + OneIf(started)
        /\ gpsState = "started" <=> clientCount > 0

(* The framework is told that the receiver works exactly while it has asked  *)
(* for that: the network's sessions are kept from it.                        *)
StatusFollowsFramework ==
    Quiet /\ Sound /\ port => (m_lastStatusValue = "begin" <=> started)

(* The receiver's positions are told to the framework only from its start    *)
(* until its stop is handled, whatever the network's sessions do, unless an  *)
(* MS assisted session ended meanwhile.  The position that a server sends    *)
(* with its SUPLEND is told at any time.                                     *)
PublishOnlyWhenAsked == Sound => "receiver" \notin unasked

(* A receiver that can be reached does not run for nobody, however often its *)
(* port was lost.                                                            *)
ReceiverStops == port /\ gpsState # "started" => ~receiver

(* Every session ends, whatever the network, the server and the user do,     *)
(* unless its server goes on sending messages that are answered at once or   *)
(* later: each renews the timeout.                                           *)
SessionsEnd ==
    \A k \in Kinds :
        (session[k] # "none" /\ ~Renewed(k)) ~> (session[k] = "none" \/ Renewed(k))
=============================================================================
