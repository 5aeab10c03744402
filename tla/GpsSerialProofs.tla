--------------------------- MODULE GpsSerialProofs ---------------------------
(***************************************************************************)
(* Proofs about the serial GPS HAL, for any numbers of calls, epochs,       *)
(* epochs per day, time zones and sentences in the tty.                     *)
(*                                                                          *)
(* What a location says depends on which sentence is read next, and that on *)
(* all that was sent before it.  The sentences of all epochs are numbered,  *)
(* sentence k of epoch e being 4 e + k.  Some may be lost, but those in the  *)
(* line are in the order of their numbers and before the one that is sent   *)
(* next (Ordered); so what was gathered, dated and reported lies before all *)
(* that comes (Newer, Dated, FixTimed).                                     *)
(***************************************************************************)
EXTENDS GpsSerial, SequenceTheorems, TLAPS

Sentence ==
    [kind : {"RMC", "VTG", "GGA", "GSA", "unknown"}, part : 1 .. 4, epoch : Nat \ {0},
     valid : BOOLEAN]

Location == [has_latlong : BOOLEAN, latlong : Nat, time : Int, dated : Nat, shift : Int]

Nr(s) == 4 * s.epoch + s.part
Now == 4 * epoch + part

Comes == {line[i] : i \in 1 .. Len(line)}

ReaderTypes ==
    /\ line \in Seq(Sentence)
    /\ epoch \in Nat \ {0} /\ part \in 1 .. 4 /\ valid \in BOOLEAN
    /\ zone \in Int /\ utc_day \in Int /\ utc_diff \in Int /\ fix \in Location
    /\ told \in Location /\ told_in \in Sentence \union {NoSentence}
    /\ placed \in Nat /\ dated \in Nat

Ordered ==
    /\ \A s \in Comes : /\ Nr(s) < Now /\ s.epoch <= epoch
                        /\ s.kind = Kinds[s.part] \/ s.kind = "unknown"
    /\ \A i, j \in 1 .. Len(line) : i < j => Nr(line[i]) < Nr(line[j])

NotAfter(e) == e <= epoch /\ \A s \in Comes : e <= s.epoch

(* A position that waits to be reported is newer than the last one that was,  *)
(* and so are those that come: the last one was reported by its GGA or later. *)
Newer ==
    /\ fix.has_latlong => placed < fix.latlong
    /\ NotAfter(fix.latlong)
    /\ 4 * placed + 3 < Now /\ \A s \in Comes : 4 * placed + 3 < Nr(s)

Dated == dated # 0 => utc_day = Day(dated) /\ NotAfter(dated)

(* A time is that of some epoch t on the day of the last RMC before it.       *)
TimeOf(loc, t) == loc.dated <= t /\ loc.time = Day(loc.dated) * EpochsPerDay + TimeOfDay(t)

FixTimed == fix.dated # 0 /\ fix.shift = 0 => \E t \in Nat : TimeOf(fix, t) /\ NotAfter(t)
ToldTimed == told.dated # 0 /\ told.shift = 0 => \E t \in Nat : TimeOf(told, t) /\ t <= told_in.epoch

GpsInv ==
    /\ ReaderTypes
    /\ Ordered
    /\ Newer
    /\ Dated
    /\ FixTimed
    /\ ToldTimed

-----------------------------------------------------------------------------
(* Days and kinds *)

LEMMA Days == \A e \in Nat : Day(e) \in Nat /\ Day(e) # NoDay /\ TimeOfDay(e) \in Nat
  <1>1. EpochsPerDay \in Nat \ {0}
    BY GpsAssumption
  <1>2. \A e \in Nat : e \div EpochsPerDay \in Nat /\ e % EpochsPerDay \in Nat
    BY <1>1
  <1> QED
    BY <1>2 DEF Day, NoDay, TimeOfDay

(* A time of day on an earlier day is earlier, and on that day.              *)
LEMMA Clock ==
    ASSUME NEW d \in Nat, NEW t \in Nat, d <= t
    PROVE  LET x == Day(d) * EpochsPerDay + TimeOfDay(t)
           IN  x \in Nat /\ x <= t /\ Day(x) = Day(d) /\ (d = t => x = t)
  <1> DEFINE K == EpochsPerDay
  <1>1. K \in Nat \ {0}
    BY GpsAssumption
  <1>2. PICK q \in Nat, r \in Nat : q = t \div K /\ r = t % K /\ t = K * q + r /\ r < K
    BY <1>1
  <1>3. PICK p \in Nat, u \in Nat : p = d \div K /\ u = d % K /\ d = K * p + u /\ u < K
    BY <1>1
  <1>4. p <= q
    <2> SUFFICES ASSUME q + 1 <= p PROVE FALSE
      OBVIOUS
    <2>1. PICK m \in Nat : p = (q + 1) + m
      <3>1. p - (q + 1) \in Nat /\ p = (q + 1) + (p - (q + 1))
        OBVIOUS
      <3> QED
        BY <3>1
    <2>2. K * p = K * q + K + K * m
      BY <1>1, <2>1
    <2>3. K * m \in Nat /\ K * q \in Nat /\ K * p \in Nat
      BY <1>1
    <2> QED
      BY <1>1, <1>2, <1>3, <2>2, <2>3
  <1>5. K * p <= K * q
    <2>1. PICK m \in Nat : q = p + m
      <3>1. q - p \in Nat /\ q = p + (q - p)
        BY <1>4
      <3> QED
        BY <3>1
    <2>2. K * q = K * p + K * m /\ K * m \in Nat /\ K * p \in Nat
      BY <1>1, <2>1
    <2> QED
      BY <2>2
  <1>6. p * K = K * p /\ K * p \in Nat /\ K * q \in Nat
    BY <1>1
  <1>7. (K * p + r) \div K = p
    BY <1>1, <1>2
  <1> QED
    BY <1>2, <1>3, <1>5, <1>6, <1>7 DEF Day, TimeOfDay

LEMMA KindOrder ==
    \A k \in 1 .. 4 : /\ Kinds[k] = "RMC" <=> k = 1
                      /\ Kinds[k] = "GGA" <=> k = 3
                      /\ Kinds[k] = "GSA" <=> k = 4
                      /\ Kinds[k] \in {"RMC", "VTG", "GGA", "GSA"}
  <1>1. Kinds[1] = "RMC" /\ Kinds[2] = "VTG" /\ Kinds[3] = "GGA" /\ Kinds[4] = "GSA"
    BY DEF Kinds
  <1>2. \A k \in 1 .. 4 : k = 1 \/ k = 2 \/ k = 3 \/ k = 4
    OBVIOUS
  <1> QED
    BY <1>1, <1>2

LEMMA Numbers ==
    ASSUME ReaderTypes
    PROVE  /\ Now \in Nat /\ Len(line) \in Nat
           /\ Comes \subseteq Sentence
           /\ \A s \in Sentence : Nr(s) \in Nat /\ s.epoch \in Nat \ {0} /\ s.part \in 1 .. 4
  <1>1. Len(line) \in Nat
    BY LenProperties DEF ReaderTypes
  <1>2. Now \in Nat
    BY DEF ReaderTypes, Now
  <1>3. Comes \subseteq Sentence
    BY ElementOfSeq DEF ReaderTypes, Comes
  <1> QED
    BY <1>1, <1>2, <1>3 DEF Sentence, Nr

LEMMA NumbersNext ==
    ASSUME ReaderTypes'
    PROVE  Now' \in Nat /\ Comes' \subseteq Sentence
  <1>1. line' \in Seq(Sentence) /\ epoch' \in Nat /\ part' \in 1 .. 4
    BY DEF ReaderTypes
  <1>2. \A i \in 1 .. Len(line') : line'[i] \in Sentence
    BY <1>1, ElementOfSeq
  <1>3. Now' \in Nat
    <2>1. Now' = 4 * epoch' + part'
      BY DEF Now
    <2>2. \A e \in Nat, p \in 1 .. 4 : 4 * e + p \in Nat
      OBVIOUS
    <2> QED
      BY <1>1, <2>1, <2>2
  <1>4. Comes' \subseteq Sentence
    BY <1>2 DEF Comes
  <1> QED
    BY <1>3, <1>4

-----------------------------------------------------------------------------
(* Steps that do not read *)

(* What comes later still comes later when sentences are sent or dropped.    *)
LEMMA Later ==
    ASSUME GpsInv, ReaderTypes', Ordered',
           UNCHANGED <<utc_day, fix, told, told_in, placed, dated>>,
           epoch <= epoch', Now <= Now',
           \A s \in Comes' : s \in Comes \/ (s.epoch = epoch /\ Nr(s) = Now)
    PROVE  GpsInv'
  <1>1. /\ epoch \in Nat /\ epoch' \in Nat /\ Now \in Nat /\ Now' \in Nat /\ Comes' \subseteq Sentence
        /\ placed \in Nat /\ dated \in Nat /\ fix.latlong \in Nat
    <2>1. ReaderTypes => Now \in Nat /\ Comes \subseteq Sentence
      BY Numbers
    <2>2. Now' \in Nat /\ Comes' \subseteq Sentence
      BY NumbersNext
    <2> QED
      BY <2>1, <2>2 DEF GpsInv, ReaderTypes, Location
  <1>2. \A e \in Nat : NotAfter(e) => e <= epoch' /\ \A s \in Comes' : e <= s.epoch
    BY <1>1 DEF NotAfter
  <1>3. Newer'
    BY <1>1, <1>2 DEF GpsInv, Newer, NotAfter
  <1>4. Dated'
    BY <1>1, <1>2 DEF GpsInv, Dated, NotAfter, Day
  <1>5. FixTimed'
    BY <1>2 DEF GpsInv, FixTimed, NotAfter, TimeOf, Day, TimeOfDay
  <1>6. ToldTimed'
    BY DEF GpsInv, ToldTimed, TimeOf, Day, TimeOfDay
  <1> QED
    BY <1>3, <1>4, <1>5, <1>6 DEF GpsInv

LEMMA InitHolds == ASSUME Init PROVE GpsInv
  <1>1. MaxEpochs \in Nat \ {0} /\ Home \in Int
    BY GpsAssumption
  <1>2. line = <<>> /\ Len(line) = 0 /\ line \in Seq(Sentence)
    BY EmptySeq DEF Init
  <1>3. Comes = {}
    BY <1>2 DEF Comes
  <1>4. ReaderTypes
    BY <1>1, <1>2 DEF Init, ReaderTypes, NoDay, NoFix, NoSentence, Location, Sentence
  <1>5. Ordered
    BY <1>2, <1>3 DEF Ordered
  <1>6. Newer /\ Dated /\ FixTimed /\ ToldTimed
    BY <1>3 DEF Init, Newer, Dated, FixTimed, ToldTimed, NoFix, NotAfter, Now
  <1> QED
    BY <1>4, <1>5, <1>6 DEF GpsInv

(* Calls, the thread's waiting and the receiver's cable touch neither the     *)
(* reader nor the line, or empty it.                                         *)
LEMMA Quiet ==
    ASSUME GpsInv, zone' \in Int, line' = line \/ line' = <<>>,
           UNCHANGED <<epoch, part, valid, reader>>
    PROVE  GpsInv'
  <1>1. UNCHANGED <<utc_day, utc_diff, fix, told, told_in, placed, dated>>
    BY DEF reader
  <1>2. <<>> \in Seq(Sentence) /\ Len(<<>>) = 0
    BY EmptySeq
  <1>3. ReaderTypes'
    BY <1>1, <1>2 DEF GpsInv, ReaderTypes
  <1>4. Comes' \subseteq Comes
    BY <1>2 DEF Comes
  <1>5. Now' = Now /\ Now \in Nat
    BY Numbers DEF GpsInv, Now
  <1>6. Ordered'
    BY <1>2, <1>4, <1>5 DEF GpsInv, Ordered
  <1>7. epoch <= epoch'
    BY DEF GpsInv, ReaderTypes
  <1> QED
    BY <1>1, <1>3, <1>4, <1>5, <1>6, <1>7, Later

LEMMA SilentKeeps == ASSUME GpsInv, Silent PROVE GpsInv'
  <1>1. /\ UNCHANGED <<line, zone, utc_day, utc_diff, fix, told, told_in, placed, dated>>
        /\ epoch' = epoch + 1 /\ part' = 1 /\ valid' \in BOOLEAN
    BY DEF Silent, NextEpoch, local, reader
  <1>2. PICK e \in Nat \ {0}, p \in 1 .. 4 : e = epoch /\ p = part
    BY DEF GpsInv, ReaderTypes
  <1>3. ReaderTypes'
    BY <1>1, <1>2 DEF GpsInv, ReaderTypes
  <1>4. Comes' = Comes
    BY <1>1 DEF Comes
  <1>5. Now = 4 * e + p /\ Now' = 4 * (e + 1) + 1
    BY <1>1, <1>2 DEF Now
  <1>6. Ordered'
    BY <1>1, <1>2, <1>4, <1>5, Numbers DEF GpsInv, Ordered
  <1>7. epoch <= epoch' /\ Now <= Now'
    BY <1>1, <1>2, <1>5
  <1> QED
    BY <1>1, <1>3, <1>4, <1>6, <1>7, Later

LEMMA SendKeeps == ASSUME GpsInv, Send PROVE GpsInv'
  <1>1. /\ UNCHANGED <<zone, utc_day, utc_diff, fix, told, told_in, placed, dated>>
        /\ \/ part < 4 /\ part' = part + 1 /\ epoch' = epoch /\ valid' = valid
           \/ part = 4 /\ epoch' = epoch + 1 /\ part' = 1 /\ valid' \in BOOLEAN
    BY DEF Send, NextEpoch, local, reader
  <1>2. PICK e \in Nat \ {0}, p \in 1 .. 4, l \in Nat : e = epoch /\ p = part /\ l = Len(line)
    BY Numbers DEF GpsInv, ReaderTypes
  <1>3. /\ epoch' \in Nat \ {0} /\ part' \in 1 .. 4 /\ valid' \in BOOLEAN /\ epoch <= epoch'
        /\ Now = 4 * e + p /\ Now' = Now + 1
    <2>1. CASE p < 4 /\ part' = p + 1 /\ epoch' = e /\ valid' = valid
      BY <1>2, <2>1 DEF Now, GpsInv, ReaderTypes
    <2>2. CASE p = 4 /\ epoch' = e + 1 /\ part' = 1 /\ valid' \in BOOLEAN
      BY <1>2, <2>2 DEF Now
    <2> QED
      BY <1>1, <1>2, <2>1, <2>2
  <1>4. line' = line \/ \E s \in Sentence :
           /\ line' = Append(line, s)
           /\ s.epoch = e /\ s.part = p /\ (s.kind = Kinds[p] \/ s.kind = "unknown")
    <2>1. PICK kind \in {Kinds[part]} \union (IF cut THEN {"unknown"} ELSE {}) :
             line' = IF Hears /\ ~Full
                        THEN Append(line, [kind |-> kind, part |-> part, epoch |-> epoch,
                                           valid |-> valid])
                        ELSE line
      BY DEF Send
    <2>2. [kind |-> kind, part |-> part, epoch |-> epoch, valid |-> valid] \in Sentence
      BY <1>2, KindOrder DEF GpsInv, ReaderTypes, Sentence
    <2> QED
      BY <1>2, <2>1, <2>2
  <1>5. CASE line' = line
    <2>1. ReaderTypes' /\ Comes' = Comes
      BY <1>1, <1>3, <1>5 DEF GpsInv, ReaderTypes, Comes
    <2>2. Ordered'
      BY <1>2, <1>3, <1>5, <2>1, Numbers DEF GpsInv, Ordered
    <2> QED
      BY <1>1, <1>3, <2>1, <2>2, Later, Numbers DEF GpsInv
  <1>6. ASSUME NEW s \in Sentence, line' = Append(line, s), s.epoch = e, s.part = p,
               s.kind = Kinds[p] \/ s.kind = "unknown"
        PROVE  GpsInv'
    <2>1. /\ line' \in Seq(Sentence) /\ Len(line') = l + 1 /\ line'[l + 1] = s
          /\ \A i \in 1 .. l : line'[i] = line[i]
      BY <1>2, <1>6, AppendProperties DEF GpsInv, ReaderTypes
    <2>2. ReaderTypes'
      BY <1>1, <1>3, <2>1 DEF GpsInv, ReaderTypes
    <2>3. \A i \in 1 .. (l + 1) : i \in 1 .. l \/ i = l + 1
      OBVIOUS
    <2>4. \A t \in Comes' : t \in Comes \/ t = s
      BY <1>2, <2>1, <2>3 DEF Comes
    <2>5. Nr(s) = Now
      BY <1>3, <1>6 DEF Nr
    <2>6. \A i \in 1 .. l : Nr(line[i]) < Now
      BY <1>2 DEF GpsInv, Ordered, Comes
    <2>7. Ordered'
      <3>1. \A i, j \in 1 .. (l + 1) : i < j => i \in 1 .. l
        OBVIOUS
      <3>2. \A i, j \in 1 .. (l + 1) : i < j => Nr(line'[i]) < Nr(line'[j])
        BY <1>2, <2>1, <2>3, <2>5, <2>6, <3>1 DEF GpsInv, Ordered
      <3>3. \A t \in Comes' : Nr(t) < Now' /\ t.epoch <= epoch'
                               /\ (t.kind = Kinds[t.part] \/ t.kind = "unknown")
        BY <1>2, <1>3, <1>6, <2>4, <2>5, Numbers DEF GpsInv, Ordered
      <3> QED
        BY <2>1, <3>2, <3>3 DEF Ordered
    <2> QED
      BY <1>1, <1>2, <1>3, <1>6, <2>2, <2>4, <2>5, <2>7, Later, Numbers DEF GpsInv
  <1> QED
    BY <1>4, <1>5, <1>6

(* The thread begins with an empty reader and leaves none behind.            *)
LEMMA FreshKeeps ==
    ASSUME GpsInv, nmea_reader_init, utc_diff' \in Int,
           UNCHANGED <<line, epoch, part, valid, zone, placed>>,
           \/ UNCHANGED <<told, told_in>>
           \/ told' = NoFix /\ told_in' = NoSentence
    PROVE  GpsInv'
  <1>1. utc_day' = NoDay /\ fix' = NoFix /\ dated' = 0
    BY DEF nmea_reader_init
  <1>2. NoFix \in Location
    BY DEF NoFix, Location
  <1>3. ReaderTypes'
    BY <1>1, <1>2 DEF GpsInv, ReaderTypes, NoDay
  <1>4. Now' = Now /\ Comes' = Comes
    BY DEF Now, Comes
  <1>5. Ordered'
    BY <1>4 DEF GpsInv, Ordered
  <1>6. NotAfter(0)'
    BY <1>3, NumbersNext DEF NotAfter, ReaderTypes, Sentence
  <1>7. Newer' /\ Dated' /\ FixTimed'
    BY <1>1, <1>4, <1>6 DEF GpsInv, Newer, Dated, FixTimed, NoFix, NotAfter
  <1>8. ToldTimed'
    BY DEF GpsInv, ToldTimed, TimeOf, Day, TimeOfDay, NoFix
  <1> QED
    BY <1>3, <1>5, <1>7, <1>8 DEF GpsInv

LEMMA BeginsKeeps == ASSUME GpsInv, Begins PROVE GpsInv'
  <1>1. utc_diff' \in Int
    BY GpsAssumption DEF Begins, update_utc_diff, GpsInv, ReaderTypes
  <1> QED
    BY <1>1, FreshKeeps DEF Begins, receiver, local

LEMMA ReturnsKeeps ==
    ASSUME GpsInv, Returns, UNCHANGED <<line, receiver, local>> PROVE GpsInv'
  BY FreshKeeps DEF Returns, receiver, local

-----------------------------------------------------------------------------
(* The thread reads a sentence: it comes before all that are left.           *)

LEMMA NextSentence ==
    ASSUME GpsInv, Reads
    PROVE  /\ UNCHANGED <<epoch, part, valid, zone, utc_diff>>
           /\ line' \in Seq(Sentence)
           /\ Comes' \subseteq Comes
           /\ \A i, j \in 1 .. Len(line') : i < j => Nr(line'[i]) < Nr(line'[j])
           /\ \E s \in Comes :
                 /\ nmea_reader_parse(s)
                 /\ \A t \in Comes' : Nr(s) < Nr(t) /\ s.epoch <= t.epoch
  <1>1. /\ UNCHANGED <<epoch, part, valid, zone, utc_diff>>
        /\ line # <<>> /\ nmea_reader_parse(Head(line)) /\ line' = Tail(line)
    BY DEF Reads, nmea_reader_parse, receiver, local
  <1>2. line \in Seq(Sentence)
    BY DEF GpsInv, ReaderTypes
  <1>3. PICK l \in Nat : l = Len(line) /\ l # 0
    BY <1>1, <1>2, EmptySeq, LenProperties
  <1>4. /\ Head(line) = line[1]
        /\ line' \in Seq(Sentence) /\ Len(line') = l - 1
        /\ \A i \in 1 .. (l - 1) : line'[i] = line[i + 1]
    BY <1>1, <1>2, <1>3, HeadTailProperties
  <1>5. /\ 1 \in 1 .. l
        /\ \A i \in 1 .. (l - 1) : i + 1 \in 1 .. l /\ 1 < i + 1
        /\ \A i, j \in 1 .. (l - 1) : i < j => i + 1 < j + 1
    BY <1>3
  <1>6. \A i \in 1 .. (l - 1) : line'[i] \in Comes /\ Nr(line[1]) < Nr(line'[i])
    BY <1>3, <1>4, <1>5 DEF GpsInv, Ordered, Comes
  <1>7. \A t \in Comes' : t \in Comes /\ Nr(line[1]) < Nr(t)
    BY <1>4, <1>6 DEF Comes
  <1>8. line[1] \in Comes
    BY <1>3, <1>5 DEF Comes
  <1>9. \A t \in Comes' : line[1].epoch <= t.epoch
    <2> SUFFICES ASSUME NEW t \in Comes' PROVE line[1].epoch <= t.epoch
      OBVIOUS
    <2>1. PICK e \in Nat, p \in 1 .. 4 : e = line[1].epoch /\ p = line[1].part
      BY <1>8, Numbers DEF GpsInv
    <2>2. PICK f \in Nat, q \in 1 .. 4 : f = t.epoch /\ q = t.part
      BY <1>7, Numbers DEF GpsInv
    <2>3. 4 * e + p < 4 * f + q
      BY <1>7, <2>1, <2>2 DEF Nr
    <2> QED
      BY <2>1, <2>2, <2>3
  <1>10. \A i, j \in 1 .. (l - 1) : i < j => Nr(line'[i]) < Nr(line'[j])
    BY <1>3, <1>4, <1>5 DEF GpsInv, Ordered
  <1> QED
    BY <1>1, <1>4, <1>7, <1>8, <1>9, <1>10

(* What the thread makes of the sentence that it reads                       *)
LEMMA Parsed ==
    ASSUME GpsInv, NEW s \in Sentence, nmea_reader_parse(s)
    PROVE  /\ utc_day' \in Int /\ dated' \in Nat
           /\ FixWith(s) \in Location
           /\ \/ /\ fixvalid(s) /\ told' = FixWith(s) /\ told_in' = s
                 /\ fix' = [FixWith(s) EXCEPT !.has_latlong = FALSE]
                 /\ placed' = IF FixWith(s).has_latlong THEN FixWith(s).latlong ELSE placed
              \/ ~fixvalid(s) /\ fix' = FixWith(s) /\ UNCHANGED <<told, told_in, placed>>
  <1>1. s.epoch \in Nat \ {0} /\ EpochsPerDay \in Int /\ MaxEpochs \in Nat
    BY GpsAssumption DEF Sentence
  <1>2. Day(s.epoch) \in Int /\ TimeOfDay(s.epoch) \in Int /\ Day(MaxEpochs) \in Int
    BY <1>1, Days
  <1>3. utc_day' \in Int
    <2>1. DateOf(s) \in Int
      BY <1>2 DEF DateOf, GpsInv, ReaderTypes
    <2>2. utc_day' \in 0 .. Day(MaxEpochs) \/ utc_day' = DateOf(s)
      BY Zenon DEF nmea_reader_parse
    <2> QED
      BY <1>2, <2>1, <2>2
  <1>4. dated' \in Nat
    BY <1>1 DEF nmea_reader_parse, GpsInv, ReaderTypes
  <1>5. FixWith(s) \in Location
    <2>1. fix \in Location /\ zone \in Int /\ utc_diff \in Int
      BY DEF GpsInv, ReaderTypes
    <2>2. mktime(utc_day', TimeOfDay(s.epoch)) \in Int
      BY <1>1, <1>2, <1>3, <2>1 DEF mktime
    <2>3. /\ mktime(utc_day', TimeOfDay(s.epoch)) + utc_diff \in Int /\ utc_diff - zone \in Int
          /\ fix.has_latlong \/ Located(s) \in BOOLEAN
      BY <2>1, <2>2 DEF Location, Located
    <2> QED
      BY <1>1, <1>4, <2>1, <2>3 DEF FixWith, Location
  <1>6. \/ /\ fixvalid(s) /\ told' = FixWith(s) /\ told_in' = s
           /\ fix' = Unflagged(FixWith(s))
           /\ placed' = IF told'.has_latlong THEN told'.latlong ELSE placed
        \/ ~fixvalid(s) /\ fix' = FixWith(s) /\ UNCHANGED <<told, told_in, placed>>
    BY Zenon DEF nmea_reader_parse
  <1> QED
    BY <1>3, <1>4, <1>5, <1>6 DEF Unflagged

LEMMA ReadKeepsTypes == ASSUME GpsInv, Reads PROVE ReaderTypes' /\ Ordered'
  <1>1. PICK s \in Comes : nmea_reader_parse(s)
    BY NextSentence
  <1>2. s \in Sentence
    BY <1>1, Numbers DEF GpsInv
  <1>3. FixWith(s) \in Location /\ [FixWith(s) EXCEPT !.has_latlong = FALSE] \in Location
    BY <1>1, <1>2, Parsed DEF Location
  <1>4. fix' \in Location /\ told' \in Location /\ placed' \in Nat
        /\ told_in' \in Sentence \union {NoSentence}
    BY <1>1, <1>2, <1>3, Parsed DEF GpsInv, ReaderTypes, Location
  <1>5. ReaderTypes'
    BY <1>1, <1>2, <1>4, Parsed, NextSentence DEF GpsInv, ReaderTypes
  <1>6. Now' = Now
    BY NextSentence DEF Now
  <1>7. Ordered'
    BY <1>6, NextSentence DEF GpsInv, Ordered
  <1> QED
    BY <1>5, <1>7

(* A reported position is newer than the last one and not of a later epoch   *)
(* than the sentence.                                                        *)
LEMMA ReadKeepsNewer ==
    ASSUME GpsInv, Reads
    PROVE  /\ Newer'
           /\ told_in' # told_in /\ told'.has_latlong
                 => placed < told'.latlong /\ told'.latlong <= told_in'.epoch
  <1>1. PICK s \in Comes : /\ nmea_reader_parse(s)
                           /\ \A t \in Comes' : Nr(s) < Nr(t) /\ s.epoch <= t.epoch
    BY NextSentence
  <1>2. s \in Sentence /\ Comes' \subseteq Sentence
    BY <1>1, Numbers, NextSentence DEF GpsInv
  <1>3. PICK e \in Nat, k \in 1 .. 4, n \in Nat, a \in Nat, now \in Nat :
           /\ e = s.epoch /\ k = s.part /\ n = Nr(s) /\ n = 4 * e + k
           /\ a = placed /\ now = Now /\ now = Now' /\ e <= epoch /\ n < now
    <2>1. Now' = Now /\ Now \in Nat /\ s.epoch <= epoch /\ Nr(s) < Now
      BY NextSentence, Numbers DEF Now, GpsInv, Ordered
    <2>2. s.epoch \in Nat /\ s.part \in 1 .. 4 /\ Nr(s) \in Nat /\ Nr(s) = 4 * s.epoch + s.part
      BY <1>2, Numbers DEF GpsInv, Nr
    <2> QED
      BY <2>1, <2>2 DEF GpsInv, ReaderTypes
  <1>4. /\ Located(s) => k <= 3
        /\ fixvalid(s) => k \in {3, 4}
    BY <1>1, <1>3, KindOrder DEF GpsInv, Ordered, Located, fixvalid
  <1>5. 4 * a + 3 < n /\ a <= e /\ (k <= 3 => a < e)
    <2>1. 4 * a + 3 < 4 * e + k
      BY <1>1, <1>3 DEF GpsInv, Newer
    <2> QED
      BY <1>3, <2>1
  <1>6. PICK f \in Nat, g \in BOOLEAN :
           /\ f = FixWith(s).latlong /\ g = FixWith(s).has_latlong
           /\ f <= e
           /\ g => a < f
    <2>1. FixWith(s).latlong \in Nat /\ FixWith(s).has_latlong \in BOOLEAN
      BY <1>1, <1>2, Parsed DEF Location
    <2>2. CASE Located(s)
      <3>1. FixWith(s).latlong = s.epoch
        BY <2>2 DEF FixWith
      <3> QED
        BY <1>3, <1>4, <1>5, <2>1, <2>2, <3>1
    <2>3. CASE ~Located(s)
      <3>1. FixWith(s).latlong = fix.latlong /\ FixWith(s).has_latlong = fix.has_latlong
        BY <2>3 DEF FixWith, GpsInv, ReaderTypes, Location
      <3>2. fix.latlong <= s.epoch /\ (fix.has_latlong => placed < fix.latlong)
        BY <1>1 DEF GpsInv, Newer, NotAfter
      <3> QED
        BY <1>3, <2>1, <3>1, <3>2
    <2> QED
      BY <2>2, <2>3
  <1>7. \A t \in Comes' : n < Nr(t) /\ e <= t.epoch /\ Nr(t) \in Nat /\ t.epoch \in Nat
    BY <1>1, <1>2, <1>3, Numbers DEF GpsInv
  <1>8. epoch' = epoch /\ epoch \in Nat
    BY NextSentence DEF GpsInv, ReaderTypes
  <1>9. CASE fixvalid(s)
    <2>1. /\ told' = FixWith(s) /\ told_in' = s /\ k \in {3, 4}
          /\ fix' = [FixWith(s) EXCEPT !.has_latlong = FALSE]
          /\ placed' = IF g THEN f ELSE a
      BY <1>1, <1>2, <1>3, <1>4, <1>6, <1>9, Parsed
    <2>2. fix'.latlong = f /\ fix'.has_latlong = FALSE
      BY <1>1, <1>2, <1>6, <2>1, Parsed DEF Location
    <2>3. PICK b \in Nat : b = placed' /\ 4 * b + 3 <= n
      <3>1. 4 * f + 3 <= 4 * e + k
        BY <1>6, <2>1
      <3> QED
        BY <1>3, <1>5, <2>1, <3>1
    <2>4. NotAfter(f)'
      BY <1>2, <1>3, <1>6, <1>7, <1>8 DEF NotAfter
    <2>5. 4 * b + 3 < now /\ \A t \in Comes' : 4 * b + 3 < Nr(t)
      <3>1. PICK m \in Nat : m = 4 * b + 3 /\ m <= n
        <4>1. 4 * b + 3 \in Nat
          OBVIOUS
        <4> QED
          BY <2>3, <4>1
      <3>2. \A t \in Comes' : m < Nr(t)
        BY <1>7, <3>1
      <3> QED
        BY <1>3, <3>1, <3>2
    <2>6. Newer'
      BY <1>3, <2>2, <2>3, <2>4, <2>5 DEF Newer, NotAfter
    <2> QED
      BY <1>3, <1>6, <2>1, <2>6
  <1>10. CASE ~fixvalid(s)
    <2>1. fix' = FixWith(s) /\ placed' = a /\ told_in' = told_in
      BY <1>1, <1>2, <1>3, <1>10, Parsed
    <2>2. Newer'
      BY <1>3, <1>5, <1>6, <1>7, <1>8, <2>1 DEF Newer, NotAfter
    <2> QED
      BY <2>1, <2>2
  <1> QED
    BY <1>9, <1>10

(* A time that is told now is of this epoch and on the day of the last RMC.  *)
LEMMA ReadKeepsDate == ASSUME GpsInv, Reads PROVE Dated' /\ FixTimed' /\ ToldTimed'
  <1>1. PICK s \in Comes : /\ nmea_reader_parse(s)
                           /\ \A t \in Comes' : Nr(s) < Nr(t) /\ s.epoch <= t.epoch
    BY NextSentence
  <1>2. s \in Sentence /\ s.epoch \in Nat \ {0} /\ s.epoch <= epoch /\ epoch' = epoch
        /\ epoch \in Nat /\ Comes' \subseteq Sentence
    BY <1>1, Numbers, NextSentence DEF GpsInv, Ordered, Sentence, ReaderTypes
  <1>3. \A t \in Nat : t <= s.epoch => NotAfter(t)'
    BY <1>1, <1>2, Numbers DEF NotAfter, GpsInv
  <1>4. /\ s.kind = "RMC" /\ s.valid => dated' = s.epoch
        /\ ~(s.kind = "RMC" /\ s.valid) => dated' = dated
        /\ utc_day # NoDay \/ s.kind # "GGA" => utc_day' = DateOf(s)
    BY <1>1 DEF nmea_reader_parse
  <1>5. dated' # 0 => utc_day' = Day(dated') /\ dated' \in Nat /\ dated' <= s.epoch
    <2>1. CASE s.kind = "RMC" /\ s.valid
      BY <1>2, <1>4, <2>1 DEF DateOf
    <2>2. CASE ~(s.kind = "RMC" /\ s.valid)
      <3> SUFFICES ASSUME dated' # 0
                   PROVE  utc_day' = Day(dated') /\ dated' \in Nat /\ dated' <= s.epoch
        OBVIOUS
      <3>1. dated' = dated /\ utc_day = Day(dated) /\ dated \in Nat /\ dated <= s.epoch
        BY <1>1, <1>4, <2>2 DEF GpsInv, Dated, NotAfter, ReaderTypes
      <3>2. utc_day # NoDay
        BY <3>1, Days
      <3> QED
        BY <1>4, <2>2, <3>1, <3>2 DEF DateOf
    <2> QED
      BY <2>1, <2>2
  <1>6. Dated'
    BY <1>3, <1>5 DEF Dated, Day
  <1>7. FixWith(s).dated # 0 /\ FixWith(s).shift = 0
           => \E t \in Nat : TimeOf(FixWith(s), t) /\ t <= s.epoch
    <2> SUFFICES ASSUME FixWith(s).dated # 0, FixWith(s).shift = 0
                 PROVE  \E t \in Nat : TimeOf(FixWith(s), t) /\ t <= s.epoch
      OBVIOUS
    <2>1. CASE Timed(s)
      <3>1. /\ FixWith(s).dated = dated' /\ utc_diff - zone = 0
            /\ FixWith(s).time =
                  utc_day' * EpochsPerDay + TimeOfDay(s.epoch) - zone + utc_diff
        BY <2>1 DEF FixWith, mktime
      <3>2. PICK x \in Int, y \in Int, z \in Int, d \in Int :
               /\ x = utc_day' * EpochsPerDay /\ y = TimeOfDay(s.epoch)
               /\ z = zone /\ d = utc_diff
        <4>1. utc_day' \in Int /\ EpochsPerDay \in Int
          BY <1>1, <1>2, Parsed, GpsAssumption
        <4>2. utc_day' * EpochsPerDay \in Int
          BY <4>1
        <4>3. TimeOfDay(s.epoch) \in Int
          BY <1>2, Days
        <4> QED
          BY <4>2, <4>3 DEF GpsInv, ReaderTypes
      <3>3. x + y - z + d = x + y
        BY <3>1, <3>2
      <3>4. TimeOf(FixWith(s), s.epoch)
        BY <1>5, <3>1, <3>2, <3>3 DEF TimeOf
      <3> QED
        BY <1>2, <3>4
    <2>2. CASE ~Timed(s)
      <3>1. /\ FixWith(s).time = fix.time /\ FixWith(s).dated = fix.dated
            /\ FixWith(s).shift = fix.shift
        BY <2>2 DEF FixWith
      <3> QED
        BY <1>1, <3>1 DEF GpsInv, FixTimed, NotAfter, TimeOf
    <2> QED
      BY <2>1, <2>2
  <1>8. fix'.time = FixWith(s).time /\ fix'.dated = FixWith(s).dated
        /\ fix'.shift = FixWith(s).shift
    BY <1>1, <1>2, Parsed DEF Location
  <1>9. FixTimed'
    BY <1>3, <1>7, <1>8 DEF FixTimed, TimeOf, Day, TimeOfDay
  <1>10. ToldTimed'
    <2>1. CASE told' = FixWith(s) /\ told_in' = s
      BY <1>7, <2>1 DEF ToldTimed, TimeOf, Day, TimeOfDay
    <2>2. CASE UNCHANGED <<told, told_in>>
      BY <2>2 DEF GpsInv, ToldTimed, TimeOf, Day, TimeOfDay
    <2> QED
      BY <1>1, <1>2, <2>1, <2>2, Parsed
  <1> QED
    BY <1>6, <1>9, <1>10

-----------------------------------------------------------------------------
LEMMA Step == GpsInv /\ [Next]_vars => GpsInv'
  <1> SUFFICES ASSUME GpsInv, [Next]_vars PROVE GpsInv'
    OBVIOUS
  <1>1. CASE Framework \/ Done \/ Unplug \/ Plug
    <2>1. UNCHANGED <<epoch, part, valid, zone, reader>> /\ (line' = line \/ line' = <<>>)
      BY <1>1 DEF Framework, serial_gps_init, serial_gps_start, serial_gps_stop,
                  serial_gps_cleanup, Done, Unplug, Plug, receiver, local
    <2> QED
      BY <2>1, Quiet DEF GpsInv, ReaderTypes
  <1>2. CASE Move
    <2>1. UNCHANGED <<line, epoch, part, valid, reader>> /\ zone' \in Zones
      BY <1>2 DEF Move, receiver
    <2> QED
      BY <2>1, Quiet, GpsAssumption
  <1>3. CASE HearsCommand \/ HangsUp \/ HasData \/ Drained
    <2>1. UNCHANGED <<line, receiver, local>> /\ (Returns \/ UNCHANGED reader)
      BY <1>3 DEF HearsCommand, HangsUp, HasData, Drained
    <2>2. CASE UNCHANGED reader
      BY <2>1, <2>2, Quiet DEF GpsInv, ReaderTypes, receiver, local
    <2> QED
      BY <2>1, <2>2, ReturnsKeeps
  <1>4. CASE Reads
    BY <1>4, ReadKeepsTypes, ReadKeepsNewer, ReadKeepsDate DEF GpsInv
  <1>5. CASE UNCHANGED vars
    <2>1. UNCHANGED <<line, epoch, part, valid, zone, reader>>
      BY <1>5 DEF vars, receiver, local
    <2> QED
      BY <2>1, Quiet DEF GpsInv, ReaderTypes
  <1> QED
    BY <1>1, <1>2, <1>3, <1>4, <1>5, SendKeeps, SilentKeeps, BeginsKeeps DEF Next, Thread

LEMMA Inductive == Spec => []GpsInv
  BY InitHolds, Step, PTL DEF Spec

(* A location has the right time of day and is of the day of the last RMC,    *)
(* and so never of the future, as long as utc_diff is the time zone's: also  *)
(* when the RMC after midnight was lost (nmea_reader_update_time).           *)
THEOREM RightDay == Spec => []FixOfItsDay
  <1>1. ASSUME GpsInv PROVE FixOfItsDay
    <2> SUFFICES ASSUME told.dated # 0, told.shift = 0
                 PROVE  /\ told.time <= told_in.epoch
                        /\ Day(told.time) = Day(told.dated)
                        /\ told.dated = told_in.epoch => told.time = told_in.epoch
      BY DEF FixOfItsDay
    <2>1. PICK t \in Nat : TimeOf(told, t) /\ t <= told_in.epoch
      BY <1>1 DEF GpsInv, ToldTimed
    <2>2. PICK d \in Nat, e \in Nat, x \in Int :
             d = told.dated /\ e = told_in.epoch /\ x = told.time
      BY <1>1 DEF GpsInv, ReaderTypes, Location, Sentence, NoSentence
    <2>3. d <= t /\ t <= e /\ x = Day(d) * EpochsPerDay + TimeOfDay(t)
      BY <2>1, <2>2 DEF TimeOf
    <2>4. x <= t /\ Day(x) = Day(d) /\ (d = t => x = t)
      BY <2>3, Clock
    <2> QED
      BY <2>2, <2>3, <2>4
  <1> QED
    BY <1>1, Inductive, PTL

(* A position is reported once, after every older one, and not in a sentence  *)
(* of an earlier epoch: the flag is set by RMC or GGA and cleared when the    *)
(* location is sent, whatever was lost between (nmea_reader_parse).          *)
THEOREM PositionsMoveOn == Spec => PositionsNewer
  <1>1. ASSUME GpsInv, [Next]_vars
        PROVE  [told_in' # told_in /\ told'.has_latlong
                  => placed < told'.latlong /\ told'.latlong <= told_in'.epoch]_vars
    <2>1. CASE Reads
      BY <1>1, <2>1, ReadKeepsNewer
    <2>2. CASE HearsCommand \/ HangsUp
      <3>1. Returns \/ UNCHANGED reader
        BY <2>2 DEF HearsCommand, HangsUp
      <3>2. told' = NoFix \/ UNCHANGED <<told, told_in, placed>>
        BY <3>1 DEF Returns, reader
      <3>3. NoFix.has_latlong = FALSE
        BY DEF NoFix
      <3> QED
        BY <3>2, <3>3
    <2>3. CASE ~Reads /\ ~HearsCommand /\ ~HangsUp
      <3>1. told_in' = told_in
        BY <1>1, <2>3 DEF Next, Framework, serial_gps_init, serial_gps_start, serial_gps_stop,
              serial_gps_cleanup, Done, Unplug, Plug, Send, Silent, Move, Thread, Begins,
              HasData, Drained, vars, reader
      <3> QED
        BY <3>1
    <2> QED
      BY <2>1, <2>2, <2>3
  <1> QED
    BY <1>1, Inductive, PTL DEF Spec, PositionsNewer
=============================================================================
