--------------------------- MODULE H4ProtocolProofs ---------------------------
(***************************************************************************)
(* Proof that the packetizer implements PacketStream, for every radix, all  *)
(* packets that hold their own length, and any way in which the bytes are   *)
(* cut up between the controller, the socket and the reads.                 *)
(*                                                                          *)
(* The inductive invariant compares the bytes that are left with all bytes  *)
(* ever sent.  The concatenation of the packets sent would be a recursive   *)
(* function; instead the invariant says that some sequence "all" and some   *)
(* positions "pos" exist such that packet i lies in "all" after pos[i]      *)
(* bytes.  What is in the socket and on its way is the end of "all", and    *)
(* the packetizer has the part before it that belongs to the next packet.   *)
(***************************************************************************)
EXTENDS H4Protocol, SequenceTheorems, TLAPS

ReceiverTypes ==
    /\ sock \in Seq(Nat) /\ coming \in Seq(Nat)
    /\ sent \in Seq(Packets) /\ delivered \in Seq(Packets)
    /\ hci_packet_type \in Nat
    /\ state \in {"preamble", "payload"}
    /\ preamble \in Seq(Nat) /\ packet \in Seq(Nat)
    /\ bytes_remaining \in Nat /\ bytes_read \in Nat
    /\ aborted \in BOOLEAN

Handed == Len(delivered)

(* Packet i of those sent lies in all after its first pos[i] bytes.          *)
LaidOut(all, pos) ==
    /\ all \in Seq(Nat)
    /\ pos \in [Nat -> Nat]
    /\ pos[1] = 0
    /\ pos[Len(sent) + 1] = Len(all)
    /\ \A i \in 1 .. Len(sent) :
          /\ pos[i + 1] = pos[i] + 1 + Len(sent[i].bytes)
          /\ pos[i + 1] <= Len(all)
          /\ all[pos[i] + 1] = sent[i].type
          /\ \A j \in 1 .. Len(sent[i].bytes) : all[pos[i] + 1 + j] = sent[i].bytes[j]

(* All but the first taken bytes are in the socket or on their way.          *)
LeftOf(all, taken) ==
    /\ taken + Len(sock) + Len(coming) = Len(all)
    /\ \A k \in 1 .. Len(sock) : sock[k] = all[taken + k]
    /\ \A k \in 1 .. Len(coming) : coming[k] = all[taken + Len(sock) + k]

Between == hci_packet_type = UNKNOWN /\ state = "preamble" /\ bytes_read = 0

InPreamble(p) ==
    /\ hci_packet_type = p.type
    /\ state = "preamble"
    /\ bytes_read < preamble_size_for_type[p.type]
    /\ bytes_read <= Len(preamble)
    /\ \A j \in 1 .. bytes_read : preamble[j] = p.bytes[j]

InPayload(p) ==
    /\ hci_packet_type = p.type
    /\ state = "payload"
    /\ Len(packet) + bytes_remaining = Len(p.bytes)
    /\ bytes_remaining = 0 => Len(packet) = preamble_size_for_type[p.type]
    /\ \A j \in 1 .. Len(packet) : packet[j] = p.bytes[j]

Receiving ==
    \/ Between
    \/ Handed < Len(sent) /\ (InPreamble(sent[Handed + 1]) \/ InPayload(sent[Handed + 1]))

(* Bytes of the next packet, its type included, that the packetizer has.     *)
Consumed ==
    IF hci_packet_type = UNKNOWN THEN 0
    ELSE IF state = "preamble" THEN 1 + bytes_read
    ELSE 1 + Len(packet)

NothingLost ==
    \E all, pos : LaidOut(all, pos) /\ LeftOf(all, pos[Handed + 1] + Consumed)

(* A CHECK has failed at the end of a packet that the packetizer cannot see. *)
AbortedAtEnd == aborted => state = "payload" /\ bytes_remaining = 0 /\ hci_packet_type # UNKNOWN

ReceiverInv ==
    /\ ReceiverTypes
    /\ Handed <= Len(sent)
    /\ Receiving
    /\ AbortedAtEnd
    /\ NothingLost

-----------------------------------------------------------------------------
(* Tables and packets *)

LEMMA Tables ==
    /\ Types = {2, 3, 4} /\ UNKNOWN = 0 /\ ACL_DATA = 2
    /\ preamble_size_for_type[2] = 4 /\ packet_length_offset_for_type[2] = 2
    /\ preamble_size_for_type[3] = 3 /\ packet_length_offset_for_type[3] = 2
    /\ preamble_size_for_type[4] = 2 /\ packet_length_offset_for_type[4] = 1
  <1>1. Types = {2, 3, 4} /\ UNKNOWN = 0 /\ ACL_DATA = 2 /\ SCO_DATA = 3 /\ EVENT = 4
    BY DEF Types, UNKNOWN, ACL_DATA, SCO_DATA, EVENT
  <1> QED
    BY <1>1 DEF preamble_size_for_type, packet_length_offset_for_type

LEMMA PacketFacts ==
    ASSUME NEW p \in Packets
    PROVE  /\ p.type \in {2, 3, 4} /\ p.type # UNKNOWN /\ p.type \in Nat
           /\ preamble_size_for_type[p.type] \in {2, 3, 4}
           /\ p.bytes \in Seq(Nat) /\ Len(p.bytes) \in Nat
           /\ \A j \in 1 .. Len(p.bytes) : p.bytes[j] \in Nat
           /\ preamble_size_for_type[p.type] <= Len(p.bytes)
           /\ Len(p.bytes) = preamble_size_for_type[p.type] + PacketLength(p.type, p.bytes)
           /\ p = [type |-> p.type, bytes |-> p.bytes]
  <1>1. /\ p \in [type : Types, bytes : Seq(0 .. Radix - 1)]
        /\ preamble_size_for_type[p.type] <= Len(p.bytes)
        /\ Len(p.bytes) = preamble_size_for_type[p.type] + PacketLength(p.type, p.bytes)
    BY H4Assumption
  <1>2. p.type \in {2, 3, 4} /\ p.bytes \in Seq(0 .. Radix - 1)
        /\ p = [type |-> p.type, bytes |-> p.bytes]
    BY <1>1, Tables
  <1>3. p.bytes \in Seq(Nat) /\ Len(p.bytes) \in Nat
    <2>1. (0 .. Radix - 1) \subseteq Nat
      BY H4Assumption
    <2> QED
      BY <1>2, <2>1, SeqMonotonic, LenProperties
  <1>4. \A j \in 1 .. Len(p.bytes) : p.bytes[j] \in Nat
    BY <1>3, ElementOfSeq
  <1>5. p.type # UNKNOWN /\ p.type \in Nat /\ preamble_size_for_type[p.type] \in {2, 3, 4}
    BY <1>2, Tables
  <1> QED
    BY <1>1, <1>2, <1>3, <1>4, <1>5

(* The length depends on the preamble alone.                                 *)
LEMMA LengthInPreamble ==
    ASSUME NEW p \in Packets, NEW bytes,
           \A j \in 1 .. preamble_size_for_type[p.type] : bytes[j] = p.bytes[j]
    PROVE  PacketLength(p.type, bytes) = PacketLength(p.type, p.bytes)
  <1>1. p.type \in {2, 3, 4}
    BY PacketFacts
  <1>2. CASE p.type = 2
    <2>1. bytes[3] = p.bytes[3] /\ bytes[4] = p.bytes[4]
      BY <1>2, Tables
    <2> QED
      BY <1>2, <2>1, Tables DEF PacketLength
  <1>3. CASE p.type = 3
    <2>1. bytes[3] = p.bytes[3]
      BY <1>3, Tables
    <2> QED
      BY <1>3, <2>1, Tables DEF PacketLength
  <1>4. CASE p.type = 4
    <2>1. bytes[2] = p.bytes[2]
      BY <1>4, Tables
    <2> QED
      BY <1>4, <2>1, Tables DEF PacketLength
  <1> QED
    BY <1>1, <1>2, <1>3, <1>4

-----------------------------------------------------------------------------
(* Sequences of bytes *)

(* What a read of n bytes returns ...                                        *)
LEMMA FirstPart ==
    ASSUME NEW S, NEW s \in Seq(S), NEW n \in 0 .. Len(s), NEW t, t = SubSeq(s, 1, n)
    PROVE  /\ t \in Seq(S) /\ Len(t) = n
           /\ \A k \in 1 .. n : t[k] = s[k]
  <1>1. Len(s) \in Nat /\ n \in Nat /\ n <= Len(s) /\ 1 \in Int /\ n \in Int
    BY LenProperties
  <1>2. \A i \in 1 .. Len(s) : s[i] \in S
    BY ElementOfSeq
  <1>3. \A i \in 1 .. n : s[i] \in S
    BY <1>1, <1>2
  <1>4. /\ SubSeq(s, 1, n) \in Seq(S)
        /\ Len(SubSeq(s, 1, n)) = IF 1 <= n THEN n - 1 + 1 ELSE 0
        /\ \A i \in 1 .. n - 1 + 1 : SubSeq(s, 1, n)[i] = s[1 + i - 1]
    BY <1>1, <1>3, SubSeqProperties
  <1> QED
    BY <1>1, <1>4

(* ... and what it leaves.                                                   *)
LEMMA LastPart ==
    ASSUME NEW S, NEW s \in Seq(S), NEW n \in 0 .. Len(s), NEW t, t = SubSeq(s, n + 1, Len(s))
    PROVE  /\ t \in Seq(S) /\ Len(t) = Len(s) - n
           /\ \A k \in 1 .. Len(s) - n : t[k] = s[n + k]
  <1>1. Len(s) \in Nat /\ n \in Nat /\ n <= Len(s) /\ n + 1 \in Int /\ Len(s) \in Int
    BY LenProperties
  <1>2. \A i \in 1 .. Len(s) : s[i] \in S
    BY ElementOfSeq
  <1>3. \A i \in n + 1 .. Len(s) : s[i] \in S
    BY <1>1, <1>2
  <1>4. /\ SubSeq(s, n + 1, Len(s)) \in Seq(S)
        /\ Len(SubSeq(s, n + 1, Len(s))) = IF n + 1 <= Len(s) THEN Len(s) - (n + 1) + 1 ELSE 0
        /\ \A i \in 1 .. Len(s) - (n + 1) + 1 : SubSeq(s, n + 1, Len(s))[i] = s[(n + 1) + i - 1]
    BY <1>1, <1>3, SubSeqProperties
  <1> QED
    BY <1>1, <1>4

LEMMA Joined ==
    ASSUME NEW S, NEW s \in Seq(S), NEW t \in Seq(S)
    PROVE  /\ s \o t \in Seq(S) /\ Len(s \o t) = Len(s) + Len(t)
           /\ Len(s) \in Nat /\ Len(t) \in Nat
           /\ \A k \in 1 .. Len(s) : (s \o t)[k] = s[k]
           /\ \A k \in 1 .. Len(t) : (s \o t)[Len(s) + k] = t[k]
  <1>1. Len(s) \in Nat /\ Len(t) \in Nat
    BY LenProperties
  <1>2. /\ s \o t \in Seq(S) /\ Len(s \o t) = Len(s) + Len(t)
        /\ \A i \in 1 .. Len(s) + Len(t) :
              (s \o t)[i] = IF i <= Len(s) THEN s[i] ELSE t[i - Len(s)]
    BY ConcatProperties
  <1>3. \A k \in 1 .. Len(s) : (s \o t)[k] = s[k]
    BY <1>1, <1>2
  <1>4. ASSUME NEW k \in 1 .. Len(t) PROVE (s \o t)[Len(s) + k] = t[k]
    <2>1. Len(s) + k \in 1 .. Len(s) + Len(t) /\ ~(Len(s) + k <= Len(s))
          /\ (Len(s) + k) - Len(s) = k
      BY <1>1
    <2> QED
      BY <1>2, <2>1
  <1> QED
    BY <1>1, <1>2, <1>3, <1>4

(* A packet on the line: its type, then its bytes.                           *)
LEMMA OnTheLine ==
    ASSUME NEW p \in Packets, NEW s \in Seq(Nat)
    PROVE  LET t == s \o <<p.type>> \o p.bytes
           IN  /\ t \in Seq(Nat) /\ Len(t) = Len(s) + 1 + Len(p.bytes)
               /\ \A k \in 1 .. Len(s) : t[k] = s[k]
               /\ t[Len(s) + 1] = p.type
               /\ \A j \in 1 .. Len(p.bytes) : t[Len(s) + 1 + j] = p.bytes[j]
  <1>1. p.type \in Nat /\ p.bytes \in Seq(Nat)
    BY PacketFacts
  <1>2. PICK head : head = <<p.type>>
    OBVIOUS
  <1>3. head \in Seq(Nat) /\ Len(head) = 1 /\ head[1] = p.type
    BY <1>1, <1>2
  <1>4. PICK front : front = s \o head
    OBVIOUS
  <1>5. /\ front \in Seq(Nat) /\ Len(front) = Len(s) + 1 /\ Len(s) \in Nat
        /\ \A k \in 1 .. Len(s) : front[k] = s[k]
        /\ front[Len(s) + 1] = p.type
    <2>1. head \in Seq(Nat)
      BY <1>3
    <2>2. /\ front \in Seq(Nat) /\ Len(front) = Len(s) + Len(head) /\ Len(s) \in Nat
          /\ \A k \in 1 .. Len(s) : front[k] = s[k]
          /\ \A k \in 1 .. Len(head) : front[Len(s) + k] = head[k]
      BY <1>4, <2>1, Joined
    <2>3. 1 \in 1 .. Len(head)
      BY <1>3
    <2> QED
      BY <1>3, <2>2, <2>3
  <1>6. PICK rest : rest = p.bytes
    OBVIOUS
  <1>7. PICK t : t = front \o rest
    OBVIOUS
  <1>8. /\ t \in Seq(Nat) /\ Len(t) = Len(front) + Len(rest) /\ Len(rest) \in Nat
        /\ \A k \in 1 .. Len(front) : t[k] = front[k]
        /\ \A j \in 1 .. Len(rest) : t[Len(front) + j] = rest[j]
    <2>1. front \in Seq(Nat) /\ rest \in Seq(Nat)
      BY <1>1, <1>5, <1>6
    <2> QED
      BY <1>7, <2>1, Joined
  <1>9. /\ \A k \in 1 .. Len(s) : t[k] = s[k]
        /\ t[Len(s) + 1] = p.type
        /\ \A j \in 1 .. Len(rest) : t[Len(s) + 1 + j] = rest[j]
    BY <1>5, <1>8
  <1>10. t = s \o <<p.type>> \o p.bytes
    BY <1>2, <1>4, <1>6, <1>7
  <1> QED
    BY <1>5, <1>6, <1>8, <1>9, <1>10, Zenon

(* How much of what is left a step takes.                                    *)
LEMMA Consumes ==
    ASSUME ReceiverTypes, NEW all, NEW taken \in Nat, LeftOf(all, taken),
           NEW n \in 0 .. Len(sock), sock' = Unread(n), UNCHANGED coming
    PROVE  /\ LeftOf(all, taken + n)'
           /\ BytesOf(n) \in Seq(Nat) /\ Len(BytesOf(n)) = n
           /\ \A k \in 1 .. n : BytesOf(n)[k] = all[taken + k]
           /\ sock' \in Seq(Nat)
  <1>1. sock \in Seq(Nat) /\ coming \in Seq(Nat) /\ Len(sock) \in Nat /\ Len(coming) \in Nat
    BY LenProperties DEF ReceiverTypes
  <1>2. /\ BytesOf(n) \in Seq(Nat) /\ Len(BytesOf(n)) = n
        /\ \A k \in 1 .. n : BytesOf(n)[k] = sock[k]
        /\ Unread(n) \in Seq(Nat) /\ Len(Unread(n)) = Len(sock) - n
        /\ \A k \in 1 .. Len(sock) - n : Unread(n)[k] = sock[n + k]
    <2>1. PICK head, tail : head = SubSeq(sock, 1, n) /\ tail = SubSeq(sock, n + 1, Len(sock))
      OBVIOUS
    <2>2. /\ head \in Seq(Nat) /\ Len(head) = n
          /\ \A k \in 1 .. n : head[k] = sock[k]
          /\ tail \in Seq(Nat) /\ Len(tail) = Len(sock) - n
          /\ \A k \in 1 .. Len(sock) - n : tail[k] = sock[n + k]
      <3>1. sock \in Seq(Nat) /\ n \in 0 .. Len(sock)
        BY <1>1
      <3>2. head \in Seq(Nat) /\ Len(head) = n /\ \A k \in 1 .. n : head[k] = sock[k]
        BY <2>1, <3>1, FirstPart
      <3>3. /\ tail \in Seq(Nat) /\ Len(tail) = Len(sock) - n
            /\ \A k \in 1 .. Len(sock) - n : tail[k] = sock[n + k]
        BY <2>1, <3>1, LastPart
      <3> QED
        BY <3>2, <3>3
    <2>3. head = BytesOf(n) /\ tail = Unread(n)
      BY <2>1 DEF BytesOf, Unread
    <2> QED
      BY <2>2, <2>3
  <1>3. /\ taken + Len(sock) + Len(coming) = Len(all)
        /\ \A k \in 1 .. Len(sock) : sock[k] = all[taken + k]
        /\ \A k \in 1 .. Len(coming) : coming[k] = all[taken + Len(sock) + k]
    BY DEF LeftOf
  <1>4. \A k \in 1 .. n : BytesOf(n)[k] = all[taken + k]
    <2>1. \A k \in 1 .. n : k \in 1 .. Len(sock)
      BY <1>1
    <2> QED
      BY <1>2, <1>3, <2>1
  <1>5. Len(sock') = Len(sock) - n
    BY <1>2
  <1>6. (taken + n) + Len(sock') + Len(coming) = Len(all)
    <2>1. PICK a \in Nat, b \in Nat : a = Len(sock) /\ b = Len(coming)
      BY <1>1
    <2>2. taken + a + b = Len(all) /\ n \in Nat
      BY <1>3, <2>1
    <2>3. (taken + n) + (a - n) + b = taken + a + b
      BY <2>1, <2>2
    <2> QED
      BY <1>5, <2>1, <2>2, <2>3
  <1>7. ASSUME NEW k \in 1 .. Len(sock') PROVE sock'[k] = all[(taken + n) + k]
    <2>1. n + k \in 1 .. Len(sock) /\ taken + (n + k) = (taken + n) + k
      BY <1>1, <1>5
    <2>2. sock'[k] = sock[n + k]
      BY <1>2, <1>5
    <2>3. sock[n + k] = all[taken + (n + k)]
      BY <1>3, <2>1
    <2> QED
      BY <2>1, <2>2, <2>3
  <1>8. ASSUME NEW k \in 1 .. Len(coming)
        PROVE  coming[k] = all[(taken + n) + Len(sock') + k]
    <2>1. (taken + n) + Len(sock') + k = taken + Len(sock) + k
      BY <1>1, <1>5
    <2> QED
      BY <1>3, <2>1
  <1>9. LeftOf(all, taken + n)'
    BY <1>6, <1>7, <1>8 DEF LeftOf
  <1> QED
    BY <1>2, <1>4, <1>9

-----------------------------------------------------------------------------
(* What the invariant says of the packet being received *)

(* With nothing of it read, a packet follows if any byte does.               *)
LEMMA OneFollows ==
    ASSUME ReceiverTypes, Handed <= Len(sent), NEW all, NEW pos,
           LaidOut(all, pos), LeftOf(all, pos[Handed + 1]), sock # <<>>
    PROVE  Handed < Len(sent)
  <1>1. /\ Handed \in Nat /\ Len(sent) \in Nat /\ Len(coming) \in Nat
        /\ Len(sock) \in Nat \ {0}
    BY LenProperties, EmptySeq DEF ReceiverTypes, Handed
  <1>2. pos[Handed + 1] \in Nat /\ pos[Len(sent) + 1] = Len(all)
    BY <1>1 DEF LaidOut
  <1>3. pos[Handed + 1] + Len(sock) + Len(coming) = Len(all)
    BY DEF LeftOf
  <1>4. Handed # Len(sent)
    BY <1>1, <1>2, <1>3
  <1> QED
    BY <1>1, <1>4

(* The next packet, where it lies, and what the packetizer knows of it.      *)
LEMMA NextPacket ==
    ASSUME ReceiverTypes, Handed < Len(sent), NEW all, NEW pos, LaidOut(all, pos)
    PROVE  /\ Handed \in Nat /\ Handed + 1 \in 1 .. Len(sent)
           /\ sent[Handed + 1] \in Packets
           /\ pos[Handed + 1] \in Nat
           /\ pos[Handed + 1 + 1] = pos[Handed + 1] + 1 + Len(sent[Handed + 1].bytes)
           /\ all[pos[Handed + 1] + 1] = sent[Handed + 1].type
           /\ \A j \in 1 .. Len(sent[Handed + 1].bytes) :
                 all[pos[Handed + 1] + 1 + j] = sent[Handed + 1].bytes[j]
  <1>1. Handed \in Nat /\ Len(sent) \in Nat /\ sent \in Seq(Packets)
    BY LenProperties DEF ReceiverTypes, Handed
  <1>2. Handed + 1 \in 1 .. Len(sent)
    BY <1>1
  <1>3. sent[Handed + 1] \in Packets
    BY <1>1, <1>2, ElementOfSeq
  <1>4. pos[Handed + 1] \in Nat
    <2>1. Handed + 1 \in Nat
      BY <1>1
    <2>2. pos \in [Nat -> Nat]
      BY DEF LaidOut
    <2> QED
      BY <2>1, <2>2
  <1> QED
    BY <1>1, <1>2, <1>3, <1>4 DEF LaidOut

(* What is read next continues the packet that was begun.                    *)
LEMMA Continues ==
    ASSUME NEW whole,
           NEW have \in Seq(Nat), \A j \in 1 .. Len(have) : have[j] = whole[j],
           NEW got \in Seq(Nat), \A k \in 1 .. Len(got) : got[k] = whole[Len(have) + k]
    PROVE  /\ have \o got \in Seq(Nat)
           /\ Len(have \o got) = Len(have) + Len(got)
           /\ \A j \in 1 .. Len(have) + Len(got) : (have \o got)[j] = whole[j]
  <1>1. /\ have \o got \in Seq(Nat) /\ Len(have \o got) = Len(have) + Len(got)
        /\ Len(have) \in Nat /\ Len(got) \in Nat
        /\ \A k \in 1 .. Len(have) : (have \o got)[k] = have[k]
        /\ \A k \in 1 .. Len(got) : (have \o got)[Len(have) + k] = got[k]
    BY Joined
  <1>2. PICK m \in Nat : m = Len(have)
    BY <1>1
  <1>3. ASSUME NEW j \in 1 .. m + Len(got)
        PROVE  (have \o got)[j] = whole[j]
    <2>1. CASE j <= m
      <3>1. j \in 1 .. m
        BY <1>1, <2>1
      <3> QED
        BY <1>1, <1>2, <3>1
    <2>2. CASE j > m
      <3>1. j - m \in 1 .. Len(got) /\ m + (j - m) = j
        BY <1>1, <1>2, <2>2
      <3> QED
        BY <1>1, <1>2, <3>1
    <2> QED
      BY <1>1, <1>2, <2>1, <2>2
  <1> QED
    BY <1>1, <1>2, <1>3

-----------------------------------------------------------------------------
(* The invariant *)

LEMMA InitInv == Init => ReceiverInv
  <1> SUFFICES ASSUME Init PROVE ReceiverInv
    OBVIOUS
  <1>1. /\ sock = <<>> /\ coming = <<>> /\ sent = <<>> /\ delivered = <<>>
        /\ hci_packet_type = 0 /\ state = "preamble" /\ preamble = <<>> /\ packet = <<>>
        /\ bytes_remaining = 0 /\ bytes_read = 0 /\ aborted = FALSE
    BY DEF Init, UNKNOWN
  <1>2. Len(sent) = 0 /\ Len(delivered) = 0 /\ Len(sock) = 0 /\ Len(coming) = 0
    BY <1>1
  <1>3. ReceiverTypes
    BY <1>1, EmptySeq DEF ReceiverTypes
  <1>4. Receiving
    BY <1>1 DEF Receiving, Between, UNKNOWN
  <1>5. NothingLost
    <2> DEFINE all == <<>>
               pos == [n \in Nat |-> 0]
    <2>1. all \in Seq(Nat) /\ Len(all) = 0
      OBVIOUS
    <2>2. pos \in [Nat -> Nat] /\ pos[1] = 0
      OBVIOUS
    <2> HIDE DEF all, pos
    <2>3. LaidOut(all, pos)
      BY <1>2, <2>1, <2>2 DEF LaidOut
    <2>4. pos[Handed + 1] + Consumed = 0
      BY <1>1, <1>2, <2>2 DEF Handed, Consumed, UNKNOWN
    <2>5. LeftOf(all, 0)
      BY <1>2, <2>1 DEF LeftOf
    <2> QED
      BY <2>3, <2>4, <2>5 DEF NothingLost
  <1>6. Handed <= Len(sent) /\ AbortedAtEnd
    BY <1>1, <1>2 DEF Handed, AbortedAtEnd
  <1> QED
    BY <1>3, <1>4, <1>5, <1>6 DEF ReceiverInv

LEMMA SendInv ==
    ASSUME ReceiverInv, NEW p \in Packets, ControllerSend(p)
    PROVE  ReceiverInv'
  <1>0. PICK n : n = Len(sent)
    OBVIOUS
  <1>1. /\ sent' = Append(sent, p)
        /\ coming' = coming \o <<p.type>> \o p.bytes
        /\ UNCHANGED <<sock, hci_packet_type, state, preamble, packet, bytes_remaining,
                       bytes_read, aborted, delivered>>
    BY DEF ControllerSend, packetizerVars
  <1>2. /\ sent \in Seq(Packets) /\ coming \in Seq(Nat) /\ sock \in Seq(Nat)
        /\ n \in Nat /\ Handed \in Nat /\ Handed <= n /\ Len(coming) \in Nat /\ Len(sock) \in Nat
    BY <1>0, LenProperties DEF ReceiverInv, ReceiverTypes, Handed
  <1>3. /\ sent' \in Seq(Packets) /\ Len(sent') = n + 1
        /\ \A i \in 1 .. n : sent'[i] = sent[i]
        /\ sent'[n + 1] = p
    BY <1>0, <1>1, <1>2, AppendProperties
  <1>4. /\ coming' \in Seq(Nat) /\ Len(coming') = Len(coming) + 1 + Len(p.bytes)
        /\ \A k \in 1 .. Len(coming) : coming'[k] = coming[k]
        /\ coming'[Len(coming) + 1] = p.type
        /\ \A j \in 1 .. Len(p.bytes) : coming'[Len(coming) + 1 + j] = p.bytes[j]
    BY <1>1, <1>2, OnTheLine
  <1>5. Handed' = Handed /\ Consumed' = Consumed
    BY <1>1 DEF Handed, Consumed
  <1>6. ReceiverTypes'
    BY <1>1, <1>3, <1>4 DEF ReceiverInv, ReceiverTypes
  <1>7. Handed' <= Len(sent')
    BY <1>2, <1>3, <1>5
  <1>8. Receiving'
    <2>1. CASE Between
      BY <1>1, <2>1 DEF Receiving, Between
    <2>2. CASE Handed < n /\ (InPreamble(sent[Handed + 1]) \/ InPayload(sent[Handed + 1]))
      <3>1. Handed' < Len(sent') /\ sent'[Handed' + 1] = sent[Handed + 1]
        <4>1. Handed + 1 \in 1 .. n /\ Handed < n + 1
          BY <1>2, <2>2
        <4> QED
          BY <1>3, <1>5, <4>1
      <3>2. PICK q : q = sent[Handed + 1]
        OBVIOUS
      <3>3. InPreamble(q)' \/ InPayload(q)'
        BY <1>1, <2>2, <3>2 DEF InPreamble, InPayload
      <3> QED
        BY <3>1, <3>2, <3>3 DEF Receiving, InPreamble, InPayload
    <2> QED
      BY <1>0, <2>1, <2>2 DEF ReceiverInv, Receiving
  <1>9. AbortedAtEnd'
    BY <1>1 DEF ReceiverInv, AbortedAtEnd
  <1>10. NothingLost'
    <2>1. PICK all, pos : LaidOut(all, pos) /\ LeftOf(all, pos[Handed + 1] + Consumed)
      BY DEF ReceiverInv, NothingLost
    <2>2. PICK taken : taken = pos[Handed + 1] + Consumed
      OBVIOUS
    <2>3. PICK all2 : all2 = all \o <<p.type>> \o p.bytes
      OBVIOUS
    <2>4. PICK m : m = Len(p.bytes)
      OBVIOUS
    <2>5. m \in Nat
      BY <2>4, PacketFacts
    <2>6. all \in Seq(Nat) /\ Len(all) \in Nat /\ pos \in [Nat -> Nat]
      BY <2>1, LenProperties DEF LaidOut
    <2>7. /\ all2 \in Seq(Nat) /\ Len(all2) = Len(all) + 1 + m
          /\ \A k \in 1 .. Len(all) : all2[k] = all[k]
          /\ all2[Len(all) + 1] = p.type
          /\ \A j \in 1 .. m : all2[Len(all) + 1 + j] = p.bytes[j]
      BY <2>3, <2>4, <2>6, OnTheLine
    <2>8. PICK pos2 : pos2 = [pos EXCEPT ![n + 2] = Len(all2)]
      OBVIOUS
    <2>9. /\ pos2 \in [Nat -> Nat] /\ pos2[n + 2] = Len(all2)
          /\ \A i \in 1 .. n + 1 : pos2[i] = pos[i]
      <3>1. n + 2 \in Nat /\ \A i \in 1 .. n + 1 : i \in Nat /\ i # n + 2
        BY <1>2
      <3>2. Len(all2) \in Nat
        BY <2>7, LenProperties
      <3> QED
        BY <2>6, <2>8, <3>1, <3>2
    <2>10. pos2[1] = 0 /\ pos2[n + 1] = Len(all) /\ n + 1 \in 1 .. n + 1
      <3>1. 1 \in 1 .. n + 1 /\ n + 1 \in 1 .. n + 1
        BY <1>2
      <3>2. pos[1] = 0 /\ pos[n + 1] = Len(all)
        BY <1>0, <2>1 DEF LaidOut
      <3> QED
        BY <2>9, <3>1, <3>2
    <2>11. ASSUME NEW i \in 1 .. n + 1
           PROVE  /\ pos2[i + 1] = pos2[i] + 1 + Len(sent'[i].bytes)
                  /\ pos2[i + 1] <= Len(all2)
                  /\ all2[pos2[i] + 1] = sent'[i].type
                  /\ \A j \in 1 .. Len(sent'[i].bytes) :
                        all2[pos2[i] + 1 + j] = sent'[i].bytes[j]
      <3>1. CASE i = n + 1
        <4>1. sent'[i] = p /\ i + 1 = n + 2 /\ pos2[i] = Len(all)
          BY <1>2, <1>3, <2>10, <3>1
        <4>2. pos2[i + 1] = Len(all) + 1 + m
          BY <2>7, <2>9, <4>1
        <4>3. /\ all2[Len(all) + 1] = p.type
              /\ \A j \in 1 .. m : all2[Len(all) + 1 + j] = p.bytes[j]
          BY <2>7
        <4>4. Len(all2) <= Len(all2) /\ Len(all2) = Len(all) + 1 + m
          BY <2>5, <2>6, <2>7
        <4> QED
          BY <2>4, <4>1, <4>2, <4>3, <4>4
      <3>2. CASE i # n + 1
        <4>1. i \in 1 .. n /\ i \in 1 .. n + 1 /\ i + 1 \in 1 .. n + 1
          BY <1>2, <3>2
        <4>2. PICK q : q = sent[i]
          OBVIOUS
        <4>3. q \in Packets /\ sent'[i] = q
          BY <1>2, <1>3, <4>1, <4>2, ElementOfSeq
        <4>4. Len(q.bytes) \in Nat
          BY <4>3, PacketFacts
        <4>5. /\ pos[i + 1] = pos[i] + 1 + Len(q.bytes)
              /\ pos[i + 1] <= Len(all)
              /\ all[pos[i] + 1] = q.type
              /\ \A j \in 1 .. Len(q.bytes) : all[pos[i] + 1 + j] = q.bytes[j]
          BY <1>0, <2>1, <4>1, <4>2 DEF LaidOut
        <4>6. pos2[i] = pos[i] /\ pos2[i + 1] = pos[i + 1] /\ pos[i] \in Nat
          BY <2>6, <2>9, <4>1
        <4>7. pos[i] + 1 \in 1 .. Len(all)
              /\ \A j \in 1 .. Len(q.bytes) : pos[i] + 1 + j \in 1 .. Len(all)
          <5>1. PICK a \in Nat, b \in Nat, c \in Nat : a = pos[i] /\ b = Len(q.bytes) /\ c = Len(all)
            BY <2>6, <4>4, <4>6
          <5>2. a + 1 + b <= c
            BY <4>5, <5>1
          <5>3. a + 1 \in 1 .. c /\ \A j \in 1 .. b : a + 1 + j \in 1 .. c
            BY <5>2
          <5> QED
            BY <5>1, <5>3
        <4>9. all2[pos[i] + 1] = q.type
              /\ \A j \in 1 .. Len(q.bytes) : all2[pos[i] + 1 + j] = q.bytes[j]
          BY <2>7, <4>5, <4>7
        <4>10. pos[i + 1] <= Len(all2)
          BY <2>5, <2>6, <2>7, <4>4, <4>5, <4>6
        <4> QED
          BY <4>3, <4>5, <4>6, <4>9, <4>10
      <3> QED
        BY <3>1, <3>2
    <2>12. LaidOut(all2, pos2)'
      <3>1. pos2[Len(sent') + 1] = Len(all2)
        <4>1. (n + 1) + 1 = n + 2
          BY <1>2
        <4> QED
          BY <1>3, <2>9, <4>1
      <3> QED
        BY <1>3, <2>7, <2>9, <2>10, <2>11, <3>1 DEF LaidOut
    <2>13. LeftOf(all2, taken)'
      <3>1. /\ taken + Len(sock) + Len(coming) = Len(all)
            /\ \A k \in 1 .. Len(sock) : sock[k] = all[taken + k]
            /\ \A k \in 1 .. Len(coming) : coming[k] = all[taken + Len(sock) + k]
        BY <2>1, <2>2 DEF LeftOf
      <3>2. taken \in Nat
        <4>0. Handed + 1 \in Nat
          BY <1>2
        <4>1. pos[Handed + 1] \in Nat
          BY <2>6, <4>0
        <4>2. Consumed \in Nat
          BY LenProperties DEF Consumed, ReceiverInv, ReceiverTypes
        <4> QED
          BY <2>2, <4>1, <4>2
      <3>3. taken + Len(sock) + Len(coming') = Len(all2)
        <4>1. Len(coming') = Len(coming) + 1 + m /\ Len(all2) = Len(all) + 1 + m
          BY <1>4, <2>4, <2>7
        <4>2. PICK a \in Nat, b \in Nat, c \in Nat :
                 a = Len(sock) /\ b = Len(coming) /\ c = Len(all)
          BY <1>2, <2>6
        <4>3. taken + a + b = c
          BY <3>1, <4>2
        <4>4. taken + a + (b + 1 + m) = c + 1 + m
          BY <2>5, <3>2, <4>3
        <4> QED
          BY <4>1, <4>2, <4>4
      <3>4. \A k \in 1 .. Len(sock) : sock[k] = all2[taken + k]
        <4>1. \A k \in 1 .. Len(sock) : taken + k \in 1 .. Len(all)
          BY <1>2, <3>1, <3>2
        <4> QED
          BY <2>7, <3>1, <4>1
      <3>5. ASSUME NEW k \in 1 .. Len(coming')
            PROVE  coming'[k] = all2[taken + Len(sock) + k]
        <4>1. CASE k <= Len(coming)
          <5>1. k \in 1 .. Len(coming) /\ taken + Len(sock) + k \in 1 .. Len(all)
            BY <1>2, <3>1, <3>2, <4>1
          <5> QED
            BY <1>4, <2>7, <3>1, <5>1
        <4>2. CASE k = Len(coming) + 1
          <5>1. taken + Len(sock) + k = Len(all) + 1
            BY <1>2, <3>1, <3>2, <4>2
          <5> QED
            BY <1>4, <2>7, <4>2, <5>1
        <4>3. CASE k > Len(coming) + 1
          <5>1. PICK j : j = k - (Len(coming) + 1)
            OBVIOUS
          <5>2. /\ j \in 1 .. m
                /\ Len(coming) + 1 + j = k
                /\ taken + Len(sock) + k = Len(all) + 1 + j
            <6>1. PICK a \in Nat, b \in Nat, c \in Nat :
                     a = Len(sock) /\ b = Len(coming) /\ c = Len(all)
              BY <1>2, <2>6
            <6>2. taken + a + b = c /\ j = k - (b + 1) /\ k > b + 1
              BY <3>1, <4>3, <5>1, <6>1
            <6>3. Len(coming') = b + 1 + m
              BY <1>4, <2>4, <6>1
            <6>4. k \in 1 .. b + 1 + m
              BY <6>3
            <6>5. j \in 1 .. m /\ b + 1 + j = k /\ taken + a + k = c + 1 + j
              BY <2>5, <3>2, <6>2, <6>4
            <6> QED
              BY <6>1, <6>5
          <5> QED
            BY <1>4, <2>4, <2>7, <5>2
        <4> QED
          <5>1. Len(coming') = Len(coming) + 1 + m /\ k \in Nat
            BY <1>4, <2>4
          <5>2. k <= Len(coming) \/ k = Len(coming) + 1 \/ k > Len(coming) + 1
            BY <1>2, <5>1
          <5> QED
            BY <4>1, <4>2, <4>3, <5>2
      <3> QED
        BY <1>1, <3>3, <3>4, <3>5 DEF LeftOf
    <2>14. pos2[Handed' + 1] + Consumed' = taken
      <3>1. Handed + 1 \in 1 .. n + 1
        BY <1>2
      <3> QED
        BY <1>5, <2>2, <2>9, <3>1
    <2> QED
      BY <2>12, <2>13, <2>14 DEF NothingLost
  <1> QED
    BY <1>6, <1>7, <1>8, <1>9, <1>10 DEF ReceiverInv

LEMMA ArriveInv ==
    ASSUME ReceiverInv, Arrive
    PROVE  ReceiverInv'
  <1>1. PICK n \in 1 .. Len(coming) :
           /\ sock' = sock \o SubSeq(coming, 1, n)
           /\ coming' = SubSeq(coming, n + 1, Len(coming))
    BY DEF Arrive
  <1>2. UNCHANGED <<hci_packet_type, state, preamble, packet, bytes_remaining,
                    bytes_read, aborted, sent, delivered>>
    BY DEF Arrive, packetizerVars
  <1>3. /\ coming \in Seq(Nat) /\ sock \in Seq(Nat)
        /\ Len(coming) \in Nat /\ Len(sock) \in Nat /\ n \in 0 .. Len(coming)
    BY LenProperties DEF ReceiverInv, ReceiverTypes
  <1>4. PICK head : head = SubSeq(coming, 1, n)
    OBVIOUS
  <1>5. /\ head \in Seq(Nat) /\ Len(head) = n
        /\ \A k \in 1 .. n : head[k] = coming[k]
        /\ coming' \in Seq(Nat) /\ Len(coming') = Len(coming) - n
        /\ \A k \in 1 .. Len(coming) - n : coming'[k] = coming[n + k]
    <2>1. PICK tail : tail = SubSeq(coming, n + 1, Len(coming))
      OBVIOUS
    <2>2. /\ head \in Seq(Nat) /\ Len(head) = n
          /\ \A k \in 1 .. n : head[k] = coming[k]
          /\ tail \in Seq(Nat) /\ Len(tail) = Len(coming) - n
          /\ \A k \in 1 .. Len(coming) - n : tail[k] = coming[n + k]
      <3>1. coming \in Seq(Nat) /\ n \in 0 .. Len(coming)
        BY <1>3
      <3>2. head \in Seq(Nat) /\ Len(head) = n /\ \A k \in 1 .. n : head[k] = coming[k]
        BY <1>4, <3>1, FirstPart
      <3>3. /\ tail \in Seq(Nat) /\ Len(tail) = Len(coming) - n
            /\ \A k \in 1 .. Len(coming) - n : tail[k] = coming[n + k]
        BY <2>1, <3>1, LastPart
      <3> QED
        BY <3>2, <3>3
    <2> QED
      BY <1>1, <2>1, <2>2
  <1>6. /\ sock' \in Seq(Nat) /\ Len(sock') = Len(sock) + n
        /\ \A k \in 1 .. Len(sock) : sock'[k] = sock[k]
        /\ \A k \in 1 .. n : sock'[Len(sock) + k] = head[k]
    <2>1. /\ sock' \in Seq(Nat) /\ Len(sock') = Len(sock) + Len(head)
          /\ \A k \in 1 .. Len(sock) : sock'[k] = sock[k]
          /\ \A k \in 1 .. Len(head) : sock'[Len(sock) + k] = head[k]
      <3>1. head \in Seq(Nat) /\ sock' = sock \o head
        BY <1>1, <1>4, <1>5
      <3> QED
        BY <1>3, <3>1, Joined
    <2> QED
      BY <1>5, <2>1
  <1>7. Handed' = Handed /\ Consumed' = Consumed
    BY <1>2 DEF Handed, Consumed
  <1>8. ReceiverTypes'
    BY <1>2, <1>5, <1>6 DEF ReceiverInv, ReceiverTypes
  <1>9. Handed' <= Len(sent') /\ AbortedAtEnd' /\ Receiving'
    BY <1>2, <1>7 DEF ReceiverInv, AbortedAtEnd, Receiving, Between, InPreamble, InPayload
  <1>10. NothingLost'
    <2>1. PICK all, pos : LaidOut(all, pos) /\ LeftOf(all, pos[Handed + 1] + Consumed)
      BY DEF ReceiverInv, NothingLost
    <2>2. PICK taken : taken = pos[Handed + 1] + Consumed
      OBVIOUS
    <2>3. taken \in Nat
      <3>1. pos[Handed + 1] \in Nat
        BY <2>1, LenProperties DEF LaidOut, Handed, ReceiverInv, ReceiverTypes
      <3>2. Consumed \in Nat
        BY LenProperties DEF Consumed, ReceiverInv, ReceiverTypes
      <3> QED
        BY <2>2, <3>1, <3>2
    <2>4. LaidOut(all, pos)'
      BY <1>2, <2>1 DEF LaidOut
    <2>5. /\ taken + Len(sock) + Len(coming) = Len(all)
          /\ \A k \in 1 .. Len(sock) : sock[k] = all[taken + k]
          /\ \A k \in 1 .. Len(coming) : coming[k] = all[taken + Len(sock) + k]
      BY <2>1, <2>2 DEF LeftOf
    <2>6. taken + Len(sock') + Len(coming') = Len(all)
      <3>1. PICK a \in Nat, b \in Nat : a = Len(sock) /\ b = Len(coming)
        BY <1>3
      <3>2. taken + a + b = Len(all) /\ n \in Nat
        BY <1>3, <2>5, <3>1
      <3>3. taken + (a + n) + (b - n) = taken + a + b
        BY <2>3, <3>1, <3>2
      <3>4. Len(sock') = a + n /\ Len(coming') = b - n
        BY <1>5, <1>6, <3>1
      <3> QED
        BY <3>2, <3>3, <3>4
    <2>7. ASSUME NEW k \in 1 .. Len(sock') PROVE sock'[k] = all[taken + k]
      <3>1. CASE k <= Len(sock)
        <4>1. k \in 1 .. Len(sock)
          BY <1>3, <3>1
        <4> QED
          BY <1>6, <2>5, <4>1
      <3>2. CASE k > Len(sock)
        <4>1. PICK j : j = k - Len(sock)
          OBVIOUS
        <4>2. /\ j \in 1 .. n /\ j \in 1 .. Len(coming) /\ Len(sock) + j = k
              /\ taken + k = taken + Len(sock) + j
          BY <1>3, <1>6, <2>3, <3>2, <4>1
        <4>3. sock'[Len(sock) + j] = coming[j]
          BY <1>5, <1>6, <4>2
        <4>4. coming[j] = all[taken + Len(sock) + j]
          BY <2>5, <4>2
        <4> QED
          BY <4>2, <4>3, <4>4
      <3> QED
        BY <1>3, <1>6, <3>1, <3>2
    <2>8. ASSUME NEW k \in 1 .. Len(coming') PROVE coming'[k] = all[taken + Len(sock') + k]
      <3>1. n + k \in 1 .. Len(coming) /\ k \in 1 .. Len(coming) - n
        BY <1>3, <1>5
      <3>2. taken + Len(sock') + k = taken + Len(sock) + (n + k)
        BY <1>3, <1>6, <2>3
      <3> QED
        BY <1>5, <2>5, <3>1, <3>2
    <2>9. LeftOf(all, taken)'
      BY <2>6, <2>7, <2>8 DEF LeftOf
    <2>10. pos[Handed' + 1] + Consumed' = taken
      BY <1>7, <2>2
    <2> QED
      BY <2>4, <2>9, <2>10 DEF NothingLost
  <1> QED
    BY <1>8, <1>9, <1>10 DEF ReceiverInv

(* A step of the packetizer that takes n bytes keeps the rest in its place.   *)
LEMMA TakesBytes ==
    ASSUME ReceiverTypes, NEW all, NEW pos, LaidOut(all, pos),
           NEW taken \in Nat, LeftOf(all, taken),
           NEW n \in 0 .. Len(sock), sock' = Unread(n), UNCHANGED <<coming, sent>>,
           pos[Handed' + 1] + Consumed' = taken + n
    PROVE  NothingLost'
  <1>1. LeftOf(all, taken + n)'
    BY Consumes
  <1>2. LaidOut(all, pos)'
    BY DEF LaidOut
  <1>3. PICK now : now = taken + n
    OBVIOUS
  <1>4. LeftOf(all, now)'
    BY <1>1, <1>3
  <1> QED
    BY <1>2, <1>3, <1>4 DEF NothingLost

LEMMA ReadTypeInv ==
    ASSUME ReceiverInv, ReadType
    PROVE  ReceiverInv'
  <1>1. /\ sock # <<>> /\ ~aborted /\ hci_packet_type = UNKNOWN
        /\ hci_packet_type' = Head(sock) /\ sock' = Tail(sock)
        /\ UNCHANGED <<state, preamble, packet, bytes_remaining, bytes_read, aborted,
                       coming, sent, delivered>>
    BY DEF ReadType, Readable
  <1>2. /\ ReceiverTypes /\ Handed <= Len(sent)
        /\ sock \in Seq(Nat) /\ Len(sock) \in Nat \ {0}
    BY <1>1, LenProperties, EmptySeq DEF ReceiverInv, ReceiverTypes
  <1>3. Between
    <2>1. CASE Handed < Len(sent) /\ (InPreamble(sent[Handed + 1]) \/ InPayload(sent[Handed + 1]))
      <3>1. Handed + 1 \in 1 .. Len(sent)
        BY <2>1, LenProperties DEF ReceiverInv, ReceiverTypes, Handed
      <3>2. sent[Handed + 1] \in Packets
        BY <3>1, ElementOfSeq DEF ReceiverInv, ReceiverTypes
      <3>3. sent[Handed + 1].type # UNKNOWN
        BY <3>2, PacketFacts
      <3> QED
        BY <1>1, <2>1, <3>3 DEF InPreamble, InPayload
    <2> QED
      BY <2>1 DEF ReceiverInv, Receiving
  <1>4. PICK all, pos : LaidOut(all, pos) /\ LeftOf(all, pos[Handed + 1] + Consumed)
    BY DEF ReceiverInv, NothingLost
  <1>5. PICK at : at = pos[Handed + 1]
    OBVIOUS
  <1>6. at \in Nat
    <2>1. Handed + 1 \in Nat
      BY <1>2, LenProperties DEF ReceiverTypes, Handed
    <2> QED
      BY <1>4, <1>5, <2>1 DEF LaidOut
  <1>7. Consumed = 0 /\ at + Consumed = at
    BY <1>3, <1>6 DEF Consumed, Between
  <1>8. LeftOf(all, at)
    BY <1>4, <1>5, <1>7
  <1>9. Handed < Len(sent)
    BY <1>1, <1>2, <1>4, <1>5, <1>8, OneFollows
  <1>10. PICK p : p = sent[Handed + 1]
    OBVIOUS
  <1>11. /\ Handed \in Nat /\ p \in Packets /\ all[at + 1] = p.type
    BY <1>2, <1>4, <1>5, <1>9, <1>10, NextPacket
  <1>12. hci_packet_type' = p.type
    <2>1. 1 \in 1 .. Len(sock) /\ Head(sock) = sock[1]
      BY <1>1, <1>2
    <2>2. sock[1] = all[at + 1]
      BY <1>8, <2>1 DEF LeftOf
    <2> QED
      BY <1>1, <1>11, <2>1, <2>2
  <1>13. sock' = Unread(1) /\ 1 \in 0 .. Len(sock)
    <2>1. Tail(sock) = SubSeq(sock, 2, Len(sock)) /\ 1 + 1 = 2
      BY <1>1, <1>2, TailIsSubSeq
    <2> QED
      BY <1>1, <1>2, <2>1 DEF Unread
  <1>14. p.type \in Nat /\ p.type # UNKNOWN /\ preamble_size_for_type[p.type] \in {2, 3, 4}
    BY <1>11, PacketFacts
  <1>15. Handed' = Handed /\ Consumed' = 1
    BY <1>1, <1>3, <1>12, <1>14 DEF Handed, Consumed, Between
  <1>16. ReceiverTypes'
    <2>1. sock' \in Seq(Nat)
      BY <1>2, <1>6, <1>8, <1>13, <1>1, Consumes
    <2> QED
      BY <1>1, <1>2, <1>12, <1>14, <2>1 DEF ReceiverTypes
  <1>17. Receiving'
    <2>1. InPreamble(p)'
      <3>1. bytes_read = 0 /\ 0 <= Len(preamble) /\ 0 < preamble_size_for_type[p.type]
        BY <1>2, <1>3, <1>14, LenProperties DEF Between, ReceiverTypes
      <3> QED
        BY <1>1, <1>3, <1>12, <3>1 DEF InPreamble, Between
    <2>2. Handed' < Len(sent') /\ p = sent'[Handed' + 1]
      BY <1>1, <1>9, <1>10, <1>15
    <2> QED
      BY <2>1, <2>2 DEF Receiving, InPreamble
  <1>18. NothingLost'
    <2>1. pos[Handed' + 1] + Consumed' = at + 1
      BY <1>5, <1>15
    <2> QED
      BY <1>1, <1>2, <1>4, <1>6, <1>8, <1>13, <2>1, TakesBytes
  <1>19. AbortedAtEnd' /\ Handed' <= Len(sent')
    BY <1>1, <1>2, <1>15 DEF AbortedAtEnd
  <1> QED
    BY <1>16, <1>17, <1>18, <1>19 DEF ReceiverInv

(* The packetizer is inside the next packet, after at bytes of all.          *)
LEMMA Inside ==
    ASSUME ReceiverInv, hci_packet_type # UNKNOWN
    PROVE  /\ Handed < Len(sent) /\ Handed \in Nat /\ sent[Handed + 1] \in Packets
           /\ \/ state = "preamble" /\ InPreamble(sent[Handed + 1])
              \/ state = "payload" /\ InPayload(sent[Handed + 1])
  <1>1. Handed < Len(sent) /\ (InPreamble(sent[Handed + 1]) \/ InPayload(sent[Handed + 1]))
    BY DEF ReceiverInv, Receiving, Between
  <1>2. Handed \in Nat /\ Handed + 1 \in 1 .. Len(sent)
    BY <1>1, LenProperties DEF ReceiverInv, ReceiverTypes, Handed
  <1>3. sent[Handed + 1] \in Packets
    BY <1>2, ElementOfSeq DEF ReceiverInv, ReceiverTypes
  <1> QED
    BY <1>1, <1>2, <1>3 DEF InPreamble, InPayload

(* A read returns what was asked for or what there is.                       *)
LEMMA Reads ==
    ASSUME sock \in Seq(Nat), sock # <<>>, NEW asked \in Nat
    PROVE  /\ ReadCount(asked) \in 0 .. Len(sock)
           /\ ReadCount(asked) \in Nat /\ ReadCount(asked) <= asked
           /\ ReadCount(asked) = 0 <=> asked = 0
  <1>1. Len(sock) \in Nat \ {0}
    BY LenProperties, EmptySeq
  <1> QED
    BY <1>1 DEF ReadCount

LEMMA ReadPreambleInv ==
    ASSUME ReceiverInv, ReadPreamble
    PROVE  ReceiverInv'
  <1>1. PICK n : n = ReadCount(Asked)
    OBVIOUS
  <1>2. PICK bytes : bytes = SubSeq(preamble, 1, bytes_read) \o BytesOf(n)
    OBVIOUS
  <1>3. /\ sock # <<>> /\ ~aborted /\ hci_packet_type # UNKNOWN /\ state = "preamble"
        /\ sock' = Unread(n)
        /\ preamble' = bytes
        /\ IF bytes_read + n = preamble_size_for_type[hci_packet_type]
              THEN /\ packet' = bytes
                   /\ bytes_remaining' = PacketLength(hci_packet_type, bytes)
                   /\ state' = "payload"
                   /\ bytes_read' = 0
              ELSE /\ bytes_read' = bytes_read + n
                   /\ UNCHANGED <<packet, bytes_remaining, state>>
        /\ UNCHANGED <<hci_packet_type, aborted, coming, sent, delivered>>
    BY <1>1, <1>2, Zenon DEF ReadPreamble, Readable
  <1>4. PICK p : p = sent[Handed + 1]
    OBVIOUS
  <1>5. /\ Handed < Len(sent) /\ Handed \in Nat /\ p \in Packets /\ InPreamble(p)
    BY <1>3, <1>4, Inside
  <1>6. PICK size : size = preamble_size_for_type[p.type]
    OBVIOUS
  <1>7. /\ size \in {2, 3, 4} /\ p.type \in Nat /\ p.type # UNKNOWN
        /\ size <= Len(p.bytes) /\ Len(p.bytes) \in Nat
        /\ Len(p.bytes) = size + PacketLength(p.type, p.bytes)
    BY <1>5, <1>6, PacketFacts
  <1>8. /\ ReceiverTypes /\ sock \in Seq(Nat) /\ preamble \in Seq(Nat)
        /\ bytes_read \in Nat /\ Len(preamble) \in Nat /\ Len(sock) \in Nat
    BY LenProperties DEF ReceiverInv, ReceiverTypes
  <1>9. /\ hci_packet_type = p.type /\ bytes_read < size /\ bytes_read <= Len(preamble)
        /\ \A j \in 1 .. bytes_read : preamble[j] = p.bytes[j]
    BY <1>5, <1>6 DEF InPreamble
  <1>10. Asked \in Nat /\ Asked = size - bytes_read
    BY <1>6, <1>7, <1>8, <1>9 DEF Asked
  <1>11. n \in 0 .. Len(sock) /\ n \in Nat /\ n <= Asked
    BY <1>1, <1>3, <1>8, <1>10, Reads
  <1>12. bytes_read + n <= size
    BY <1>7, <1>8, <1>10, <1>11
  <1>13. PICK all, pos : LaidOut(all, pos) /\ LeftOf(all, pos[Handed + 1] + Consumed)
    BY DEF ReceiverInv, NothingLost
  <1>14. PICK at : at = pos[Handed + 1]
    OBVIOUS
  <1>15. at \in Nat /\ \A j \in 1 .. Len(p.bytes) : all[at + 1 + j] = p.bytes[j]
    BY <1>4, <1>5, <1>8, <1>13, <1>14, NextPacket
  <1>16. PICK taken : taken = at + (1 + bytes_read)
    OBVIOUS
  <1>17. taken \in Nat /\ LeftOf(all, taken)
    <2>1. Consumed = 1 + bytes_read
      BY <1>3 DEF Consumed
    <2> QED
      BY <1>8, <1>13, <1>14, <1>15, <1>16, <2>1
  <1>18. /\ BytesOf(n) \in Seq(Nat) /\ Len(BytesOf(n)) = n
         /\ \A k \in 1 .. n : BytesOf(n)[k] = all[taken + k]
         /\ sock' \in Seq(Nat)
    BY <1>3, <1>8, <1>11, <1>17, Consumes
  <1>19. /\ bytes \in Seq(Nat) /\ Len(bytes) = bytes_read + n
         /\ \A j \in 1 .. bytes_read + n : bytes[j] = p.bytes[j]
    <2>1. PICK have : have = SubSeq(preamble, 1, bytes_read)
      OBVIOUS
    <2>2. PICK got : got = BytesOf(n)
      OBVIOUS
    <2>3. /\ have \in Seq(Nat) /\ Len(have) = bytes_read
          /\ \A j \in 1 .. bytes_read : have[j] = preamble[j]
      <3>1. bytes_read \in 0 .. Len(preamble)
        BY <1>8, <1>9
      <3> QED
        BY <1>8, <2>1, <3>1, FirstPart
    <2>4. \A j \in 1 .. Len(have) : have[j] = p.bytes[j]
      BY <1>9, <2>3
    <2>5. got \in Seq(Nat) /\ Len(got) = n
      BY <1>18, <2>2
    <2>6. ASSUME NEW k \in 1 .. Len(got) PROVE got[k] = p.bytes[Len(have) + k]
      <3>1. bytes_read + k \in 1 .. Len(p.bytes)
        BY <1>7, <1>8, <1>11, <1>12, <2>5
      <3>2. taken + k = at + 1 + (bytes_read + k)
        BY <1>8, <1>11, <1>15, <1>16, <2>5
      <3>3. got[k] = all[taken + k]
        BY <1>18, <2>2, <2>5
      <3>4. all[at + 1 + (bytes_read + k)] = p.bytes[bytes_read + k]
        BY <1>15, <3>1
      <3> QED
        BY <2>3, <3>2, <3>3, <3>4
    <2>7. /\ have \o got \in Seq(Nat)
          /\ Len(have \o got) = Len(have) + Len(got)
          /\ \A j \in 1 .. Len(have) + Len(got) : (have \o got)[j] = p.bytes[j]
      <3>1. have \in Seq(Nat) /\ got \in Seq(Nat)
        BY <2>3, <2>5
      <3> QED
        BY <2>4, <2>6, <3>1, Continues
    <2> QED
      BY <1>2, <2>1, <2>2, <2>3, <2>5, <2>7
  <1>20. taken + n = at + (1 + (bytes_read + n))
    BY <1>8, <1>11, <1>15, <1>16
  <1>21. Handed' = Handed /\ Handed' < Len(sent') /\ p = sent'[Handed' + 1]
    BY <1>3, <1>4, <1>5 DEF Handed
  <1>22. AbortedAtEnd' /\ Handed' <= Len(sent')
    BY <1>3, <1>21 DEF AbortedAtEnd, ReceiverInv
  <1>23. CASE bytes_read + n = size
    <2>1. /\ packet' = bytes /\ state' = "payload" /\ bytes_read' = 0
          /\ bytes_remaining' = PacketLength(p.type, bytes)
      BY <1>3, <1>6, <1>9, <1>23
    <2>2. PacketLength(p.type, bytes) = PacketLength(p.type, p.bytes)
      BY <1>5, <1>6, <1>19, <1>23, LengthInPreamble
    <2>3. size + bytes_remaining' = Len(p.bytes) /\ bytes_remaining' \in Nat
      <3>1. PacketLength(p.type, p.bytes) \in Nat
        <4>1. \A j \in 1 .. Len(p.bytes) : p.bytes[j] \in Nat
          BY <1>5, PacketFacts
        <4>2. p.type \in {2, 3, 4} /\ Radix \in Nat
          BY <1>5, PacketFacts, H4Assumption
        <4>3. CASE p.type = 2
          <5>1. size = 4 /\ p.bytes[3] \in Nat /\ p.bytes[4] \in Nat
            BY <1>6, <1>7, <4>1, <4>3, Tables
          <5>2. p.bytes[4] * Radix + p.bytes[3] \in Nat
            BY <4>2, <5>1
          <5> QED
            BY <4>3, <5>2, Tables DEF PacketLength
        <4>4. CASE p.type = 3
          <5>1. size = 3 /\ p.bytes[3] \in Nat
            BY <1>6, <1>7, <4>1, <4>4, Tables
          <5> QED
            BY <4>4, <5>1, Tables DEF PacketLength
        <4>5. CASE p.type = 4
          <5>1. size = 2 /\ p.bytes[2] \in Nat
            BY <1>6, <1>7, <4>1, <4>5, Tables
          <5> QED
            BY <4>5, <5>1, Tables DEF PacketLength
        <4> QED
          BY <4>2, <4>3, <4>4, <4>5
      <3> QED
        BY <1>7, <2>1, <2>2, <3>1
    <2>4. Len(packet') = size
      BY <1>19, <1>23, <2>1
    <2>5. InPayload(p)'
      BY <1>3, <1>6, <1>9, <1>19, <1>23, <2>1, <2>3, <2>4 DEF InPayload
    <2>6. Receiving'
      BY <1>21, <2>5 DEF Receiving, InPayload
    <2>7. Consumed' = 1 + (bytes_read + n)
      BY <1>3, <1>23, <2>1, <2>4 DEF Consumed
    <2>8. ReceiverTypes'
      BY <1>3, <1>8, <1>18, <1>19, <2>1, <2>3 DEF ReceiverTypes
    <2>9. NothingLost'
      <3>1. pos[Handed' + 1] + Consumed' = taken + n
        BY <1>14, <1>20, <1>21, <2>7
      <3> QED
        BY <1>3, <1>8, <1>11, <1>13, <1>17, <3>1, TakesBytes
    <2> QED
      BY <1>22, <2>6, <2>8, <2>9 DEF ReceiverInv
  <1>24. CASE bytes_read + n # size
    <2>1. bytes_read' = bytes_read + n /\ UNCHANGED <<packet, bytes_remaining, state>>
      BY <1>3, <1>6, <1>9, <1>24
    <2>2. InPreamble(p)'
      <3>1. bytes_read' < size /\ bytes_read' <= Len(preamble')
        BY <1>3, <1>7, <1>8, <1>11, <1>12, <1>19, <1>24, <2>1
      <3> QED
        BY <1>3, <1>6, <1>9, <1>19, <2>1, <3>1 DEF InPreamble
    <2>3. Receiving'
      BY <1>21, <2>2 DEF Receiving, InPreamble
    <2>4. Consumed' = 1 + (bytes_read + n)
      BY <1>3, <2>1 DEF Consumed
    <2>5. ReceiverTypes'
      <3>1. bytes_read' \in Nat
        BY <1>8, <1>11, <2>1
      <3> QED
        BY <1>3, <1>8, <1>18, <1>19, <2>1, <3>1 DEF ReceiverTypes
    <2>6. NothingLost'
      <3>1. pos[Handed' + 1] + Consumed' = taken + n
        BY <1>14, <1>20, <1>21, <2>4
      <3> QED
        BY <1>3, <1>8, <1>11, <1>13, <1>17, <3>1, TakesBytes
    <2> QED
      BY <1>22, <2>3, <2>5, <2>6 DEF ReceiverInv
  <1> QED
    BY <1>23, <1>24

(* What a read of payload leads to: at the end of the packet it is whole, and *)
(* is the packet that was sent.                                              *)
LEMMA PayloadRead ==
    ASSUME ReceiverInv, ReadPayload
    PROVE  LET n == ReadCount(bytes_remaining)
               bytes == packet \o BytesOf(n)
               p == sent[Handed + 1]
           IN  /\ n \in 0 .. Len(sock) /\ n \in Nat /\ n <= bytes_remaining
               /\ n = 0 <=> bytes_remaining = 0
               /\ Handed < Len(sent) /\ Handed \in Nat /\ p \in Packets /\ InPayload(p)
               /\ bytes \in Seq(Nat) /\ Len(bytes) = Len(packet) + n
               /\ \A j \in 1 .. Len(packet) + n : bytes[j] = p.bytes[j]
               /\ bytes_remaining = n => [type |-> hci_packet_type, bytes |-> bytes] = p
  <1>1. PICK n : n = ReadCount(bytes_remaining)
    OBVIOUS
  <1>2. PICK got : got = BytesOf(n)
    OBVIOUS
  <1>3. PICK p : p = sent[Handed + 1]
    OBVIOUS
  <1>4. sock # <<>> /\ hci_packet_type # UNKNOWN /\ state = "payload"
    BY Zenon DEF ReadPayload, Readable
  <1>5. /\ ReceiverTypes /\ sock \in Seq(Nat) /\ packet \in Seq(Nat)
        /\ bytes_remaining \in Nat /\ Len(packet) \in Nat /\ Len(sock) \in Nat
    BY LenProperties DEF ReceiverInv, ReceiverTypes
  <1>6. /\ Handed < Len(sent) /\ Handed \in Nat /\ p \in Packets /\ InPayload(p)
    BY <1>3, <1>4, Inside
  <1>7. /\ n \in 0 .. Len(sock) /\ n \in Nat /\ n <= bytes_remaining
        /\ n = 0 <=> bytes_remaining = 0
    BY <1>1, <1>4, <1>5, Reads
  <1>8. /\ hci_packet_type = p.type /\ Len(packet) + bytes_remaining = Len(p.bytes)
        /\ \A j \in 1 .. Len(packet) : packet[j] = p.bytes[j]
    BY <1>6 DEF InPayload
  <1>9. PICK all, pos : LaidOut(all, pos) /\ LeftOf(all, pos[Handed + 1] + Consumed)
    BY DEF ReceiverInv, NothingLost
  <1>10. PICK at : at = pos[Handed + 1]
    OBVIOUS
  <1>11. at \in Nat /\ \A j \in 1 .. Len(p.bytes) : all[at + 1 + j] = p.bytes[j]
    BY <1>3, <1>5, <1>6, <1>9, <1>10, NextPacket
  <1>12. PICK m \in Nat : m = Len(packet)
    BY <1>5
  <1>13. PICK taken : taken = at + (1 + m)
    OBVIOUS
  <1>14. taken \in Nat /\ LeftOf(all, taken)
    <2>1. Consumed = 1 + m
      BY <1>4, <1>12 DEF Consumed
    <2> QED
      BY <1>9, <1>10, <1>11, <1>13, <2>1
  <1>15. /\ got \in Seq(Nat) /\ Len(got) = n
         /\ \A k \in 1 .. n : got[k] = sock[k]
    BY <1>2, <1>5, <1>7, FirstPart DEF BytesOf
  <1>16. ASSUME NEW k \in 1 .. Len(got) PROVE got[k] = p.bytes[Len(packet) + k]
    <2>1. k \in 1 .. Len(sock) /\ k \in 1 .. n
      BY <1>5, <1>7, <1>15
    <2>2. m + k \in 1 .. Len(p.bytes)
      BY <1>5, <1>7, <1>8, <1>12, <2>1
    <2>3. taken + k = at + 1 + (m + k)
      BY <1>11, <1>13, <2>1
    <2>4. sock[k] = all[taken + k]
      BY <1>14, <2>1 DEF LeftOf
    <2>5. all[at + 1 + (m + k)] = p.bytes[m + k]
      BY <1>11, <2>2
    <2> QED
      BY <1>12, <1>15, <2>1, <2>3, <2>4, <2>5
  <1>17. PICK bytes : bytes = packet \o got
    OBVIOUS
  <1>18. /\ bytes \in Seq(Nat) /\ Len(bytes) = Len(packet) + Len(got)
         /\ \A j \in 1 .. Len(packet) + Len(got) : bytes[j] = p.bytes[j]
    <2>1. packet \in Seq(Nat) /\ got \in Seq(Nat)
      BY <1>5, <1>15
    <2>2. \A j \in 1 .. Len(packet) : packet[j] = p.bytes[j]
      BY <1>8
    <2> QED
      BY <1>16, <1>17, <2>1, <2>2, Continues
  <1>19. ASSUME bytes_remaining = n
         PROVE  [type |-> hci_packet_type, bytes |-> bytes] = p
    <2>1. Len(bytes) = Len(p.bytes) /\ p.bytes \in Seq(Nat)
      BY <1>5, <1>6, <1>8, <1>15, <1>18, <1>19, PacketFacts
    <2>2. \A j \in 1 .. Len(bytes) : bytes[j] = p.bytes[j]
      BY <1>18
    <2>3. bytes = p.bytes
      BY <1>18, <2>1, <2>2, SeqEqual
    <2>4. p = [type |-> p.type, bytes |-> p.bytes]
      BY <1>6, PacketFacts
    <2> QED
      BY <1>8, <2>3, <2>4
  <1>20. /\ Len(bytes) = Len(packet) + n
         /\ \A j \in 1 .. Len(packet) + n : bytes[j] = p.bytes[j]
    BY <1>15, <1>18
  <1> QED
    BY <1>1, <1>2, <1>3, <1>6, <1>7, <1>17, <1>18, <1>19, <1>20, Zenon

LEMMA ReadPayloadInv ==
    ASSUME ReceiverInv, ReadPayload
    PROVE  ReceiverInv'
  <1>1. PICK n : n = ReadCount(bytes_remaining)
    OBVIOUS
  <1>2. PICK bytes : bytes = packet \o BytesOf(n)
    OBVIOUS
  <1>3. PICK p : p = sent[Handed + 1]
    OBVIOUS
  <1>4. /\ n \in 0 .. Len(sock) /\ n \in Nat /\ n <= bytes_remaining
        /\ n = 0 <=> bytes_remaining = 0
        /\ Handed < Len(sent) /\ Handed \in Nat /\ p \in Packets /\ InPayload(p)
        /\ bytes \in Seq(Nat) /\ Len(bytes) = Len(packet) + n
        /\ \A j \in 1 .. Len(packet) + n : bytes[j] = p.bytes[j]
        /\ bytes_remaining = n => [type |-> hci_packet_type, bytes |-> bytes] = p
    BY <1>1, <1>2, <1>3, PayloadRead, Zenon
  <1>5. /\ ~aborted /\ hci_packet_type # UNKNOWN /\ state = "payload"
        /\ IF n = 0
              THEN /\ aborted' = TRUE
                   /\ UNCHANGED <<sock, packetizerVars, delivered>>
              ELSE /\ sock' = Unread(n)
                   /\ packet' = bytes
                   /\ bytes_remaining' = bytes_remaining - n
                   /\ IF bytes_remaining = n
                         THEN /\ delivered' = Append(delivered,
                                     [type |-> hci_packet_type, bytes |-> bytes])
                              /\ state' = "preamble"
                              /\ bytes_read' = 0
                              /\ hci_packet_type' = UNKNOWN
                         ELSE /\ bytes_read' = bytes_read + n
                              /\ UNCHANGED <<delivered, state, hci_packet_type>>
                   /\ UNCHANGED <<preamble, aborted>>
        /\ UNCHANGED <<coming, sent>>
    BY <1>1, <1>2, Zenon DEF ReadPayload, Readable, BytesReadReset, NextType
  <1>6. /\ ReceiverTypes /\ sock \in Seq(Nat) /\ packet \in Seq(Nat) /\ delivered \in Seq(Packets)
        /\ bytes_remaining \in Nat /\ bytes_read \in Nat /\ Len(packet) \in Nat /\ Len(sent) \in Nat
    BY LenProperties DEF ReceiverInv, ReceiverTypes
  <1>7. /\ hci_packet_type = p.type /\ p.type \in Nat
        /\ Len(packet) + bytes_remaining = Len(p.bytes)
        /\ bytes_remaining = 0 => Len(packet) = preamble_size_for_type[p.type]
    BY <1>4, PacketFacts DEF InPayload
  <1>8. PICK all, pos : LaidOut(all, pos) /\ LeftOf(all, pos[Handed + 1] + Consumed)
    BY DEF ReceiverInv, NothingLost
  <1>9. PICK at : at = pos[Handed + 1]
    OBVIOUS
  <1>10. at \in Nat /\ pos[Handed + 1 + 1] = at + 1 + Len(p.bytes)
    BY <1>3, <1>4, <1>6, <1>8, <1>9, NextPacket
  <1>11. PICK m \in Nat : m = Len(packet)
    BY <1>6
  <1>12. PICK taken : taken = at + (1 + m)
    OBVIOUS
  <1>13. taken \in Nat /\ LeftOf(all, taken)
    <2>1. Consumed = 1 + m
      BY <1>5, <1>11 DEF Consumed
    <2> QED
      BY <1>8, <1>9, <1>10, <1>12, <2>1
  <1>14. CASE n = 0
    <2>1. /\ aborted' = TRUE /\ bytes_remaining = 0
          /\ UNCHANGED <<sock, hci_packet_type, state, preamble, packet, bytes_remaining,
                         bytes_read, delivered, coming, sent>>
      BY <1>4, <1>5, <1>14 DEF packetizerVars
    <2>2. ReceiverTypes' /\ Handed' = Handed /\ Consumed' = Consumed
      BY <1>6, <2>1 DEF ReceiverTypes, Handed, Consumed
    <2>3. Receiving' /\ AbortedAtEnd'
      BY <1>5, <2>1, <2>2 DEF ReceiverInv, Receiving, Between, InPreamble, InPayload, AbortedAtEnd
    <2>4. NothingLost'
      <3>1. LaidOut(all, pos)' /\ LeftOf(all, taken)'
        BY <1>8, <1>13, <2>1 DEF LaidOut, LeftOf
      <3>2. Consumed = 1 + m
        BY <1>5, <1>11 DEF Consumed
      <3>3. pos[Handed' + 1] + Consumed' = taken
        BY <1>9, <1>12, <2>2, <3>2
      <3> QED
        BY <3>1, <3>3 DEF NothingLost
    <2>5. Handed' <= Len(sent')
      BY <1>4, <1>6, <2>1, <2>2
    <2> QED
      BY <2>2, <2>3, <2>4, <2>5 DEF ReceiverInv
  <1>15. CASE n # 0 /\ bytes_remaining = n
    <2>1. /\ sock' = Unread(n) /\ packet' = bytes /\ bytes_remaining' = bytes_remaining - n
          /\ delivered' = Append(delivered, p) /\ state' = "preamble" /\ bytes_read' = 0
          /\ hci_packet_type' = UNKNOWN
          /\ UNCHANGED <<preamble, aborted, coming, sent>>
      BY <1>4, <1>5, <1>15
    <2>2. delivered' \in Seq(Packets) /\ Handed' = Handed + 1
      BY <1>4, <1>6, <2>1, AppendProperties DEF Handed
    <2>3. sock' \in Seq(Nat)
      BY <1>4, <1>5, <1>6, <1>13, <2>1, Consumes
    <2>4. bytes_remaining' \in Nat
      BY <1>15, <1>4, <2>1
    <2>5. ReceiverTypes'
      BY <1>4, <1>6, <2>1, <2>2, <2>3, <2>4 DEF ReceiverTypes, UNKNOWN
    <2>6. Receiving' /\ AbortedAtEnd'
      BY <1>5, <2>1 DEF Receiving, Between, AbortedAtEnd
    <2>7. Handed' <= Len(sent')
      BY <1>4, <1>6, <2>1, <2>2
    <2>8. Consumed' = 0
      BY <2>1 DEF Consumed
    <2>9. pos[Handed' + 1] + Consumed' = taken + n
      <3>1. at + 1 + (m + n) = taken + n /\ taken + n + 0 = taken + n
        BY <1>4, <1>10, <1>12
      <3> QED
        BY <1>7, <1>10, <1>11, <1>15, <2>2, <2>8, <3>1
    <2>10. NothingLost'
      BY <1>4, <1>6, <1>8, <1>13, <2>1, <2>9, TakesBytes
    <2> QED
      BY <2>5, <2>6, <2>7, <2>10 DEF ReceiverInv
  <1>16. CASE n # 0 /\ bytes_remaining # n
    <2>1. /\ sock' = Unread(n) /\ packet' = bytes /\ bytes_remaining' = bytes_remaining - n
          /\ bytes_read' = bytes_read + n
          /\ UNCHANGED <<delivered, state, hci_packet_type, preamble, aborted, coming, sent>>
      BY <1>5, <1>16
    <2>2. Handed' = Handed /\ Handed' < Len(sent') /\ p = sent'[Handed' + 1]
      BY <1>3, <1>4, <2>1 DEF Handed
    <2>3. sock' \in Seq(Nat)
      BY <1>4, <1>5, <1>6, <1>13, <2>1, Consumes
    <2>4. bytes_remaining' \in Nat /\ bytes_remaining' # 0 /\ bytes_read' \in Nat
      BY <1>16, <1>4, <1>6, <2>1
    <2>5. ReceiverTypes'
      BY <1>4, <1>6, <2>1, <2>3, <2>4 DEF ReceiverTypes
    <2>6. InPayload(p)'
      <3>1. Len(packet') + bytes_remaining' = Len(p.bytes)
        <4>1. (m + n) + (bytes_remaining - n) = m + bytes_remaining
          BY <1>4, <1>6
        <4> QED
          BY <1>4, <1>7, <1>11, <2>1, <4>1
      <3>2. \A j \in 1 .. Len(packet') : packet'[j] = p.bytes[j]
        BY <1>4, <2>1
      <3> QED
        BY <1>5, <1>7, <2>1, <2>4, <3>1, <3>2 DEF InPayload
    <2>7. Receiving' /\ AbortedAtEnd'
      BY <1>5, <2>1, <2>2, <2>6 DEF Receiving, InPayload, AbortedAtEnd
    <2>8. Handed' <= Len(sent')
      BY <1>4, <1>6, <2>1, <2>2
    <2>9. Consumed' = 1 + (m + n)
      BY <1>4, <1>5, <1>11, <2>1 DEF Consumed
    <2>10. pos[Handed' + 1] + Consumed' = taken + n
      <3>1. at + (1 + (m + n)) = taken + n
        BY <1>4, <1>10, <1>12
      <3> QED
        BY <1>9, <2>2, <2>9, <3>1
    <2>11. NothingLost'
      BY <1>4, <1>6, <1>8, <1>13, <2>1, <2>10, TakesBytes
    <2> QED
      BY <2>5, <2>7, <2>8, <2>11 DEF ReceiverInv
  <1> QED
    BY <1>14, <1>15, <1>16

-----------------------------------------------------------------------------
(* In every reachable state the bytes under way are the rest of the packet    *)
(* that is assembled and the packets after it (H4Protocol, HciPacketizer).   *)
THEOREM Invariance == Spec => []ReceiverInv
  <1>1. ReceiverInv /\ [Next]_vars => ReceiverInv'
    <2> SUFFICES ASSUME ReceiverInv, [Next]_vars PROVE ReceiverInv'
      OBVIOUS
    <2>1. CASE Next
      BY <2>1, SendInv, ArriveInv, ReadTypeInv, ReadPreambleInv, ReadPayloadInv
         DEF Next, OnDataReady
    <2>2. CASE UNCHANGED vars
      <3>1. UNCHANGED <<sock, hci_packet_type, state, preamble, packet, bytes_remaining,
                        bytes_read, aborted, coming, sent, delivered>>
        BY <2>2 DEF vars, packetizerVars
      <3>2. ReceiverTypes' /\ Handed' = Handed /\ Consumed' = Consumed
        BY <3>1 DEF ReceiverInv, ReceiverTypes, Handed, Consumed
      <3>3. Receiving' /\ AbortedAtEnd' /\ Handed' <= Len(sent')
        BY <3>1, <3>2 DEF ReceiverInv, Receiving, Between, InPreamble, InPayload, AbortedAtEnd
      <3>4. NothingLost'
        <4>1. PICK all, pos : LaidOut(all, pos) /\ LeftOf(all, pos[Handed + 1] + Consumed)
          BY DEF ReceiverInv, NothingLost
        <4>2. PICK taken : taken = pos[Handed + 1] + Consumed
          OBVIOUS
        <4>3. LaidOut(all, pos)' /\ LeftOf(all, taken)'
          BY <3>1, <4>1, <4>2 DEF LaidOut, LeftOf
        <4> QED
          BY <3>2, <4>2, <4>3 DEF NothingLost
      <3> QED
        BY <3>2, <3>3, <3>4 DEF ReceiverInv
    <2> QED
      BY <2>1, <2>2
  <1> QED
    BY InitInv, <1>1, PTL DEF Spec

(* What is pending is the end of what was sent.                              *)
LEMMA PendingGrows ==
    ASSUME NEW s \in Seq(Packets), NEW p \in Packets, NEW d \in 0 .. Len(s)
    PROVE  SubSeq(Append(s, p), d + 1, Len(Append(s, p))) = Append(SubSeq(s, d + 1, Len(s)), p)
  <1>1. PICK n \in Nat : n = Len(s)
    BY LenProperties
  <1>2. PICK t : t = Append(s, p)
    OBVIOUS
  <1>3. /\ t \in Seq(Packets) /\ Len(t) = n + 1 /\ t[n + 1] = p
        /\ \A i \in 1 .. n : t[i] = s[i]
    BY <1>1, <1>2, AppendProperties
  <1>4. d \in 0 .. n + 1 /\ d \in 0 .. n
    BY <1>1
  <1>5. PICK u : u = SubSeq(t, d + 1, Len(t))
    OBVIOUS
  <1>6. /\ u \in Seq(Packets) /\ Len(u) = n + 1 - d
        /\ \A k \in 1 .. n + 1 - d : u[k] = t[d + k]
    <2>1. t \in Seq(Packets) /\ d \in 0 .. Len(t)
      BY <1>3, <1>4
    <2>2. /\ u \in Seq(Packets) /\ Len(u) = Len(t) - d
          /\ \A k \in 1 .. Len(t) - d : u[k] = t[d + k]
      BY <1>5, <2>1, LastPart
    <2> QED
      BY <1>3, <2>2
  <1>7. PICK v : v = SubSeq(s, d + 1, Len(s))
    OBVIOUS
  <1>8. /\ v \in Seq(Packets) /\ Len(v) = n - d
        /\ \A k \in 1 .. n - d : v[k] = s[d + k]
    BY <1>1, <1>4, <1>7, LastPart
  <1>9. PICK w : w = Append(v, p)
    OBVIOUS
  <1>10. /\ w \in Seq(Packets) /\ Len(w) = n - d + 1 /\ w[n - d + 1] = p
         /\ \A k \in 1 .. n - d : w[k] = v[k]
    BY <1>8, <1>9, AppendProperties
  <1>11. ASSUME NEW k \in 1 .. n + 1 - d PROVE u[k] = w[k]
    <2>1. CASE k = n - d + 1
      <3>1. d + k = n + 1
        BY <1>4, <2>1
      <3> QED
        BY <1>3, <1>6, <1>10, <2>1, <3>1
    <2>2. CASE k # n - d + 1
      <3>1. k \in 1 .. n - d /\ d + k \in 1 .. n
        BY <1>4, <2>2
      <3> QED
        BY <1>3, <1>6, <1>8, <1>10, <3>1
    <2> QED
      BY <2>1, <2>2
  <1>12. Len(u) = Len(w) /\ \A k \in 1 .. Len(u) : u[k] = w[k]
    <2>1. n + 1 - d = n - d + 1
      BY <1>4
    <2> QED
      BY <1>6, <1>10, <1>11, <2>1
  <1>13. u = w
    BY <1>6, <1>10, <1>12, SeqEqual
  <1> QED
    BY <1>2, <1>5, <1>7, <1>9, <1>13

LEMMA PendingShrinks ==
    ASSUME NEW s \in Seq(Packets), NEW d \in Nat, d < Len(s)
    PROVE  /\ SubSeq(s, d + 1, Len(s)) # <<>>
           /\ Head(SubSeq(s, d + 1, Len(s))) = s[d + 1]
           /\ Tail(SubSeq(s, d + 1, Len(s))) = SubSeq(s, d + 1 + 1, Len(s))
  <1>1. PICK n \in Nat : n = Len(s)
    BY LenProperties
  <1>2. d \in 0 .. n /\ d + 1 \in 0 .. n
    BY <1>1
  <1>3. PICK u : u = SubSeq(s, d + 1, Len(s))
    OBVIOUS
  <1>4. /\ u \in Seq(Packets) /\ Len(u) = n - d
        /\ \A k \in 1 .. n - d : u[k] = s[d + k]
    BY <1>1, <1>2, <1>3, LastPart
  <1>5. PICK v : v = SubSeq(s, d + 1 + 1, Len(s))
    OBVIOUS
  <1>6. /\ v \in Seq(Packets) /\ Len(v) = n - (d + 1)
        /\ \A k \in 1 .. n - (d + 1) : v[k] = s[(d + 1) + k]
    <2>1. PICK e : e = d + 1
      OBVIOUS
    <2>2. e \in 0 .. Len(s) /\ v = SubSeq(s, e + 1, Len(s))
      BY <1>1, <1>2, <1>5, <2>1
    <2>3. v \in Seq(Packets) /\ Len(v) = Len(s) - e /\ \A k \in 1 .. Len(s) - e : v[k] = s[e + k]
      BY <2>2, LastPart
    <2> QED
      BY <1>1, <2>1, <2>3
  <1>7. u # <<>>
    <2>1. n - d # 0
      BY <1>2
    <2> QED
      BY <1>4, <2>1, EmptySeq
  <1>8. /\ Head(u) \in Packets /\ Head(u) = u[1] /\ Tail(u) \in Seq(Packets)
        /\ Len(Tail(u)) = Len(u) - 1
        /\ \A k \in 1 .. Len(Tail(u)) : Tail(u)[k] = u[k + 1]
    BY <1>4, <1>7, HeadTailProperties
  <1>9. Head(u) = s[d + 1]
    <2>1. 1 \in 1 .. n - d
      BY <1>2
    <2> QED
      BY <1>4, <1>8, <2>1
  <1>10. Tail(u) = v
    <2>1. Len(Tail(u)) = Len(v)
      BY <1>2, <1>4, <1>6, <1>8
    <2>2. ASSUME NEW k \in 1 .. Len(v) PROVE Tail(u)[k] = v[k]
      <3>1. k + 1 \in 1 .. n - d /\ d + (k + 1) = (d + 1) + k
        BY <1>2, <1>6
      <3> QED
        BY <1>4, <1>6, <1>8, <2>1, <3>1
    <2> QED
      BY <1>6, <1>8, <2>1, <2>2, SeqEqual
  <1> QED
    BY <1>3, <1>5, <1>7, <1>9, <1>10

(* However the bytes are cut up on their way, the callbacks get exactly the  *)
(* packets sent, each once, whole, in order and under its own type.          *)
THEOREM ImplementsPacketStream == Spec => DeliversPackets
  <1> DEFINE Pending == SubSeq(sent, Len(delivered) + 1, Len(sent))
  <1>1. Init => Stream!Init
    BY DEF Init, Stream!Init
  <1>2. ReceiverInv /\ [Next]_vars => [Stream!Next]_(Stream!vars)
    <2> SUFFICES ASSUME ReceiverInv, [Next]_vars PROVE [Stream!Next]_(Stream!vars)
      OBVIOUS
    <2>1. /\ sent \in Seq(Packets) /\ delivered \in Seq(Packets)
          /\ Handed \in Nat /\ Handed <= Len(sent) /\ Len(sent) \in Nat
      BY LenProperties DEF ReceiverInv, ReceiverTypes, Handed
    <2>2. ASSUME UNCHANGED <<sent, delivered>> PROVE UNCHANGED Stream!vars
      BY <2>2 DEF Stream!vars
    <2>3. ASSUME NEW p \in Packets, ControllerSend(p) PROVE Stream!Send(p)
      <3>1. sent' = Append(sent, p) /\ UNCHANGED delivered
        BY <2>3 DEF ControllerSend
      <3>2. Handed \in 0 .. Len(sent)
        BY <2>1
      <3>3. SubSeq(Append(sent, p), Handed + 1, Len(Append(sent, p)))
               = Append(SubSeq(sent, Handed + 1, Len(sent)), p)
        BY <2>1, <3>2, PendingGrows
      <3>4. Pending' = Append(Pending, p)
        BY <3>1, <3>3 DEF Handed
      <3> QED
        BY <3>1, <3>4 DEF Stream!Send
    <2>4. CASE ReadPayload
      <3>1. PICK n : n = ReadCount(bytes_remaining)
        OBVIOUS
      <3>2. PICK bytes : bytes = packet \o BytesOf(n)
        OBVIOUS
      <3>3. /\ Handed < Len(sent)
            /\ bytes_remaining = n => [type |-> hci_packet_type, bytes |-> bytes] = sent[Handed + 1]
        BY <2>4, <3>1, <3>2, PayloadRead, Zenon
      <3>4. /\ sent' = sent
            /\ \/ UNCHANGED delivered
               \/ /\ bytes_remaining = n
                  /\ delivered' = Append(delivered, [type |-> hci_packet_type, bytes |-> bytes])
        BY <2>4, <3>1, <3>2, Zenon DEF ReadPayload
      <3>5. CASE UNCHANGED delivered
        BY <2>2, <3>4, <3>5
      <3>6. CASE /\ bytes_remaining = n
                 /\ delivered' = Append(delivered, [type |-> hci_packet_type, bytes |-> bytes])
        <4>1. PICK p : p = sent[Handed + 1]
          OBVIOUS
        <4>2. delivered' = Append(delivered, p)
          BY <3>3, <3>6, <4>1
        <4>3. p \in Packets
          <5>1. Handed + 1 \in 1 .. Len(sent)
            BY <2>1, <3>3
          <5> QED
            BY <2>1, <4>1, <5>1, ElementOfSeq
        <4>4. Len(delivered') = Handed + 1
          BY <2>1, <4>2, <4>3, AppendProperties DEF Handed
        <4>5. /\ Pending # <<>> /\ Head(Pending) = p
              /\ Tail(Pending) = SubSeq(sent, Handed + 1 + 1, Len(sent))
          BY <2>1, <3>3, <4>1, PendingShrinks DEF Handed
        <4>6. Pending' = Tail(Pending)
          BY <3>4, <4>4, <4>5
        <4>7. Stream!Deliver
          BY <4>2, <4>5, <4>6 DEF Stream!Deliver
        <4> QED
          BY <4>7 DEF Stream!Next
      <3> QED
        BY <3>4, <3>5, <3>6
    <2>5. CASE Arrive \/ ReadType \/ ReadPreamble
      <3>1. UNCHANGED <<sent, delivered>>
        BY <2>5, Zenon DEF Arrive, ReadType, ReadPreamble
      <3> QED
        BY <2>2, <3>1
    <2>6. CASE UNCHANGED vars
      BY <2>2, <2>6 DEF vars
    <2> QED
      BY <2>3, <2>4, <2>5, <2>6 DEF Next, OnDataReady, Stream!Next
  <1> QED
    BY <1>1, <1>2, Invariance, PTL DEF Spec, DeliversPackets, Stream!Spec

(* "CHECK(bytes_read > 0)" in hci_packetizer.cc only ever fails of a packet   *)
(* without a payload.                                                        *)
THEOREM CheckFailsOfEmptyPacket == Spec => [](aborted => AtEmptyPacket)
  <1>1. ReceiverInv => (aborted => AtEmptyPacket)
    <2> SUFFICES ASSUME ReceiverInv, aborted PROVE AtEmptyPacket
      OBVIOUS
    <2>1. state = "payload" /\ bytes_remaining = 0 /\ hci_packet_type # UNKNOWN
      BY DEF ReceiverInv, AbortedAtEnd
    <2>2. Handed < Len(sent) /\ InPayload(sent[Handed + 1])
      BY <2>1, Inside
    <2>3. Len(packet) \in Nat
      BY LenProperties DEF ReceiverInv, ReceiverTypes
    <2>4. Len(sent[Handed + 1].bytes) = preamble_size_for_type[sent[Handed + 1].type]
      BY <2>1, <2>2, <2>3 DEF InPayload
    <2> QED
      BY <2>2, <2>4 DEF AtEmptyPacket, Handed
  <1> QED
    BY <1>1, Invariance, PTL
=============================================================================
