----------------------------- MODULE H4Protocol -----------------------------
(***************************************************************************)
(* The receiving side of the H4 transport: bluetooth/h4_protocol.cc and     *)
(* bluetooth/hci_packetizer.cc.  The bytes of the socket pair are cut into  *)
(* packets by a type byte, a preamble whose size depends on the type, and   *)
(* a payload whose length the preamble holds.  Each call of OnDataReady is  *)
(* one read, which returns what has arrived and not more than was asked.    *)
(***************************************************************************)
EXTENDS Integers, Sequences, SequencesExt

CONSTANTS
    Radix,      \* values of a byte of a length field (256 in the code)
    Packets,    \* the packets the controller sends: [type, bytes]
    MaxSent     \* bound: packets sent

(* hci_internals.h *)
UNKNOWN == 0
ACL_DATA == 2
SCO_DATA == 3
EVENT == 4
Types == {ACL_DATA, SCO_DATA, EVENT}

preamble_size_for_type ==
    [t \in Types |-> CASE t = ACL_DATA -> 4 [] t = SCO_DATA -> 3 [] t = EVENT -> 2]

packet_length_offset_for_type == [t \in Types |-> IF t = EVENT THEN 1 ELSE 2]

(* HciGetPacketLengthForType *)
PacketLength(type, bytes) ==
    LET offset == packet_length_offset_for_type[type] IN
    IF type # ACL_DATA
       THEN bytes[offset + 1]
       ELSE bytes[offset + 2] * Radix + bytes[offset + 1]

(* The controller's packets hold the length of their payload.                *)
ASSUME H4Assumption ==
    /\ Radix \in Nat \ {0}
    /\ MaxSent \in Nat
    /\ Packets \subseteq [type : Types, bytes : Seq(0 .. Radix - 1)]
    /\ \A p \in Packets :
          /\ preamble_size_for_type[p.type] <= Len(p.bytes)
          /\ Len(p.bytes) = preamble_size_for_type[p.type] + PacketLength(p.type, p.bytes)

VARIABLES
    sock,              \* bytes that have arrived in the socket
    hci_packet_type, state, preamble, packet, bytes_remaining, bytes_read,
    aborted,           \* a CHECK failed and the process died
    coming,            \* bytes sent that have not arrived
    sent, delivered    \* history: the packets

packetizerVars ==
    <<hci_packet_type, state, preamble, packet, bytes_remaining, bytes_read>>
vars == <<sock, packetizerVars, aborted, coming, sent, delivered>>

Init ==
    /\ sock = <<>>
    /\ hci_packet_type = UNKNOWN
    /\ state = "preamble"
    /\ preamble = <<>>
    /\ packet = <<>>
    /\ bytes_remaining = 0
    /\ bytes_read = 0
    /\ aborted = FALSE
    /\ coming = <<>>
    /\ sent = <<>>
    /\ delivered = <<>>

-----------------------------------------------------------------------------
(* The controller sends a packet; its bytes arrive in pieces. *)

ControllerSend(p) ==
    /\ Len(sent) < MaxSent
    /\ sent' = Append(sent, p)
    /\ coming' = coming \o <<p.type>> \o p.bytes
    /\ UNCHANGED <<sock, packetizerVars, aborted, delivered>>

Arrive ==
    /\ coming # <<>>
    /\ \E n \in 1 .. Len(coming) :
          /\ sock' = sock \o SubSeq(coming, 1, n)
          /\ coming' = SubSeq(coming, n + 1, Len(coming))
    /\ UNCHANGED <<packetizerVars, aborted, sent, delivered>>

-----------------------------------------------------------------------------
(* H4Protocol::OnDataReady is called when the socket has something to read.  *)

Readable == sock # <<>> /\ ~aborted

Asked == preamble_size_for_type[hci_packet_type] - bytes_read
ReadCount(n) == IF n <= Len(sock) THEN n ELSE Len(sock)
BytesOf(n) == SubSeq(sock, 1, n)
Unread(n) == SubSeq(sock, n + 1, Len(sock))

ReadType ==
    /\ Readable
    /\ hci_packet_type = UNKNOWN
    /\ hci_packet_type' = Head(sock)
    /\ sock' = Tail(sock)
    /\ UNCHANGED <<state, preamble, packet, bytes_remaining, bytes_read, aborted,
                   coming, sent, delivered>>

ReadPreamble ==
    LET n == ReadCount(Asked)
        bytes == SubSeq(preamble, 1, bytes_read) \o BytesOf(n)
        complete == bytes_read + n = preamble_size_for_type[hci_packet_type]
    IN
    /\ Readable
    /\ hci_packet_type # UNKNOWN
    /\ state = "preamble"
    /\ sock' = Unread(n)
    /\ preamble' = bytes
    /\ IF complete
          THEN /\ packet' = bytes
               /\ bytes_remaining' = PacketLength(hci_packet_type, bytes)
               /\ state' = "payload"
               /\ bytes_read' = 0
          ELSE /\ bytes_read' = bytes_read + n
               /\ UNCHANGED <<packet, bytes_remaining, state>>
    /\ UNCHANGED <<hci_packet_type, aborted, coming, sent, delivered>>

(* A read of no bytes returns 0 and fails CHECK(bytes_read > 0); the last    *)
(* read hands the packet up and both state machines start afresh.            *)
BytesReadKept(n) == bytes_read + n
BytesReadReset(n) == 0

TypeKept == hci_packet_type
NextType == UNKNOWN

ReadPayload ==
    LET n == ReadCount(bytes_remaining)
        bytes == packet \o BytesOf(n)
    IN
    /\ Readable
    /\ hci_packet_type # UNKNOWN
    /\ state = "payload"
    /\ IF n = 0
          THEN /\ aborted' = TRUE
               /\ UNCHANGED <<sock, packetizerVars, delivered>>
          ELSE /\ sock' = Unread(n)
               /\ packet' = bytes
               /\ bytes_remaining' = bytes_remaining - n
               /\ IF bytes_remaining = n
                     THEN /\ delivered' = Append(delivered,
                                 [type |-> hci_packet_type, bytes |-> bytes])
                          /\ state' = "preamble"
                          /\ bytes_read' = BytesReadReset(n)
                          /\ hci_packet_type' = NextType
                     ELSE /\ bytes_read' = bytes_read + n
                          /\ UNCHANGED <<delivered, state, hci_packet_type>>
               /\ UNCHANGED <<preamble, aborted>>
    /\ UNCHANGED <<coming, sent>>

OnDataReady == ReadType \/ ReadPreamble \/ ReadPayload

Next == Arrive \/ OnDataReady \/ \E p \in Packets : ControllerSend(p)

(* What is sent arrives, and the watcher calls OnDataReady while the socket  *)
(* has bytes (BluetoothHci).                                                 *)
Spec == Init /\ [][Next]_vars /\ WF_vars(Arrive) /\ WF_vars(OnDataReady)

-----------------------------------------------------------------------------
(* However the bytes are cut up on their way, the callbacks get exactly the  *)
(* packets sent, whole and in order.                                         *)
Stream == INSTANCE PacketStream WITH
    pending <- SubSeq(sent, Len(delivered) + 1, Len(sent))

DeliversPackets == Stream!Spec

(* The packet to be handed up next has no payload. *)
AtEmptyPacket ==
    LET next == sent[Len(delivered) + 1]
    IN  /\ Len(delivered) < Len(sent)
        /\ Len(next.bytes) = preamble_size_for_type[next.type]

(* They get them all, as long as none comes without a payload, whose end the *)
(* packetizer does not see: "CHECK(bytes_read > 0)" fails of no other.       *)
AllDelivered == delivered # sent ~> (delivered = sent \/ AtEmptyPacket)
=============================================================================
