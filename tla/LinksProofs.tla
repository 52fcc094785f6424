---------------------------- MODULE LinksProofs ----------------------------
(***************************************************************************)
(* Proofs about the connections of MCLinks.  TcpFraming: for every list of *)
(* packets and all sizes of reads and socket buffers, packets arrive in    *)
(* order and at most once, and all of them while each read returns exactly *)
(* one.  Actor: for any number of packets and commands and any size of a   *)
(* batch, packets keep their order through the three channels and the      *)
(* counters agree.  LockFreeConnection: for every set of handles, any      *)
(* number of threads and of calls, commands take effect in order and at    *)
(* most once.  For AdapterLink the theorems of AdapterLinkProofs are       *)
(* carried over to the composition.                                        *)
(***************************************************************************)
EXTENDS MCLinks, Integers, TLAPS

-----------------------------------------------------------------------------
(* The inductive invariant                                                 *)

(* Nothing of the packet that was taken last has been written.              *)
Untouched == rest > 0 /\ rest = Sizes[taken]

(* The units on the wire are in the order of the packets, and a packet      *)
(* begins with its first unit.                                              *)
WireInv ==
  /\ \A i \in 1..Len(wire) : wire[i].packet <= taken /\ (Untouched => wire[i].packet < taken)
  /\ \A i, j \in 1..Len(wire) : i < j =>
       /\ wire[i].packet <= wire[j].packet
       /\ wire[j].first => wire[i].packet < wire[j].packet

(* What was delivered is older than any packet that is still complete.      *)
DeliveredInv ==
  \A i \in 1..Len(delivered) : delivered[i] # Garbage =>
    /\ delivered[i] <= taken /\ (Untouched => delivered[i] < taken)
    /\ \A j \in 1..Len(wire) :
         /\ delivered[i] <= wire[j].packet
         /\ wire[j].first => delivered[i] < wire[j].packet
    /\ \A j \in 1..Len(delivered) : i < j /\ delivered[j] # Garbage => delivered[i] < delivered[j]

(* The units of a packet that begins at i end at EndOf(i), which may not    *)
(* have been written yet.                                                   *)
EndOf(i) == i + Sizes[wire[i].packet] - 1

(* Packet p has been written to its end, and nothing after it.              *)
WrittenUpTo(p) == (rest = 0 /\ taken = p) \/ (Untouched /\ taken = p + 1)

(* After a packet comes the next one.                                       *)
FramedInv ==
  \A i \in 1..Len(wire) : wire[i].first =>
    /\ EndOf(i) < Len(wire) => /\ wire[EndOf(i) + 1].first
                               /\ wire[EndOf(i) + 1].packet = wire[i].packet + 1
    /\ EndOf(i) = Len(wire) => WrittenUpTo(wire[i].packet)
    /\ EndOf(i) > Len(wire) => taken = wire[i].packet /\ rest = EndOf(i) - Len(wire)

(* As long as reads are aligned, the wire begins with the next packet.      *)
AlignedInv ==
  aligned =>
    /\ \A i \in 1..Len(delivered) : delivered[i] = i
    /\ wire = <<>> => WrittenUpTo(Len(delivered))
    /\ wire # <<>> => wire[1].first /\ wire[1].packet = Len(delivered) + 1
    /\ receiver # "open" => ~sender

IInv == TypeOK /\ WireInv /\ DeliveredInv /\ FramedInv /\ AlignedInv

-----------------------------------------------------------------------------
(* Sequences                                                               *)

LEMMA Cut ==
  ASSUME NEW S, NEW s \in Seq(S), NEW n \in 1..Len(s)
  PROVE  /\ Head(SubSeq(s, 1, n)) = s[1] /\ Len(SubSeq(s, 1, n)) = n
         /\ SubSeq(s, n + 1, Len(s)) \in Seq(S)
         /\ Len(SubSeq(s, n + 1, Len(s))) = Len(s) - n
         /\ \A i \in 1..(Len(s) - n) : SubSeq(s, n + 1, Len(s))[i] = s[i + n]
  OBVIOUS

LEMMA Joined ==
  ASSUME NEW S, NEW s \in Seq(S), NEW n \in Nat, NEW t \in [1..n -> S]
  PROVE  /\ s \o t \in Seq(S) /\ Len(s \o t) = Len(s) + n
         /\ \A i \in 1..Len(s) : (s \o t)[i] = s[i]
         /\ \A i \in 1..n : (s \o t)[Len(s) + i] = t[i]
  OBVIOUS

LEMMA Appended ==
  ASSUME NEW S, NEW s \in Seq(S), NEW e \in S
  PROVE  /\ Append(s, e) \in Seq(S) /\ Len(Append(s, e)) = Len(s) + 1
         /\ Append(s, e)[Len(s) + 1] = e
         /\ \A i \in 1..Len(s) : Append(s, e)[i] = s[i]
  OBVIOUS

-----------------------------------------------------------------------------
(* What writes and reads do to the wire                                    *)

Units == [packet : Packets, first : BOOLEAN]

Written(n) ==
  /\ n \in 1..rest /\ rest' = rest - n
  /\ wire' \in Seq(Units) /\ Len(wire') = Len(wire) + n /\ Len(wire') <= WireCapacity
  /\ \A i \in 1..Len(wire) : wire'[i] = wire[i]
  /\ \A i \in (Len(wire) + 1)..(Len(wire) + n) :
       /\ wire'[i].packet = taken
       /\ wire'[i].first <=> Untouched /\ i = Len(wire) + 1

LEMMA WriteEffect ==
  ASSUME TypeOK, WriteSome
  PROVE  \E n \in Nat : Written(n)
<1>1. PICK n \in 1..Least(rest, WireCapacity - Len(wire)) :
        /\ wire' = wire \o [i \in 1..n |-> [packet |-> taken,
                                            first |-> rest = Sizes[taken] /\ i = 1]]
        /\ rest' = rest - n
  BY DEF WriteSome
<1>2. /\ rest \in Nat /\ rest > 0 /\ taken \in Packets
      /\ wire \in Seq(Units) /\ Len(wire) \in Nat /\ Len(wire) <= WireCapacity
  BY TcpFramingAssumption DEF WriteSome, TypeOK, Packets, Units
<1>3. n \in 1..rest /\ n \in Nat /\ Len(wire) + n <= WireCapacity
  BY <1>1, <1>2, TcpFramingAssumption DEF Least
<1> DEFINE new == [i \in 1..n |-> [packet |-> taken, first |-> rest = Sizes[taken] /\ i = 1]]
<1>4. new \in [1..n -> Units]
  BY <1>2 DEF Units
<1>5. \A i \in 1..n : new[i].packet = taken /\ (new[i].first <=> Untouched /\ i = 1)
  BY <1>2 DEF Untouched
<1>6. wire' = wire \o new
  BY <1>1
<1> HIDE DEF new
<1>7. /\ wire' \in Seq(Units) /\ Len(wire') = Len(wire) + n
      /\ \A i \in 1..Len(wire) : wire'[i] = wire[i]
      /\ \A i \in 1..n : wire'[Len(wire) + i] = new[i]
  <2>1. /\ wire \o new \in Seq(Units) /\ Len(wire \o new) = Len(wire) + n
        /\ \A i \in 1..Len(wire) : (wire \o new)[i] = wire[i]
        /\ \A i \in 1..n : (wire \o new)[Len(wire) + i] = new[i]
    BY <1>2, <1>3, <1>4, Joined
  <2> QED
    BY <1>6, <2>1
<1>8. ASSUME NEW i \in (Len(wire) + 1)..(Len(wire) + n)
      PROVE  wire'[i].packet = taken /\ (wire'[i].first <=> Untouched /\ i = Len(wire) + 1)
  <2>1. i - Len(wire) \in 1..n /\ i = Len(wire) + (i - Len(wire))
    BY <1>2, <1>3
  <2>2. wire'[i] = new[i - Len(wire)]
    BY <1>7, <2>1
  <2>3. i - Len(wire) = 1 <=> i = Len(wire) + 1
    BY <1>2
  <2> QED
    BY <1>5, <2>1, <2>2, <2>3
<1> QED
  BY <1>1, <1>3, <1>7, <1>8 DEF Written

\* The first packet of what was read, a packet made up, or the end.
Received(n) ==
  /\ n \in 1..Len(wire)
  /\ wire' \in Seq(Units) /\ Len(wire') = Len(wire) - n
  /\ \A i \in 1..Len(wire') : wire'[i] = wire[i + n]
  /\ \/ UNCHANGED delivered /\ receiver' \in {"normal", "error"} /\ ~aligned'
     \/ UNCHANGED receiver /\ delivered' = Append(delivered, Garbage) /\ ~aligned'
     \/ /\ UNCHANGED receiver
        /\ wire[1].first /\ delivered' = Append(delivered, wire[1].packet)
        /\ aligned' => aligned /\ n = Sizes[wire[1].packet]

LEMMA ReadEffect ==
  ASSUME TypeOK, Read
  PROVE  \E n \in Nat : Received(n)
<1>1. PICK n \in 1..Least(Len(wire), ReadCapacity) :
        LET buffer == SubSeq(wire, 1, n)
        IN  /\ \E outcome \in Parse(buffer) : React(outcome)
            /\ wire' = SubSeq(wire, n + 1, Len(wire))
            /\ aligned' = (aligned /\ Head(buffer).first /\ n = Sizes[Head(buffer).packet])
  BY DEF Read
<1>2. wire \in Seq(Units) /\ Len(wire) \in Nat
  BY DEF TypeOK, Units
<1>3. n \in 1..Len(wire) /\ n \in Nat
  BY <1>1, <1>2, TcpFramingAssumption DEF Least
<1> DEFINE buffer == SubSeq(wire, 1, n)
<1>4. /\ Head(buffer) = wire[1] /\ Len(buffer) = n
      /\ wire' \in Seq(Units) /\ Len(wire') = Len(wire) - n
      /\ \A i \in 1..Len(wire') : wire'[i] = wire[i + n]
  BY <1>1, <1>2, <1>3, Cut
<1>5. PICK outcome \in Parse(buffer) : React(outcome)
  BY <1>1
<1>6. aligned' <=> aligned /\ wire[1].first /\ n = Sizes[wire[1].packet]
  BY <1>1, <1>4
<1> HIDE DEF buffer
<1>7. wire[1].packet \in Packets
  <2>1. wire[1] \in Units
    BY <1>2, <1>3
  <2> QED
    BY <2>1 DEF Units
<1>8. Sizes[wire[1].packet] \in Nat
  BY <1>7, TcpFramingAssumption DEF Packets
<1>9. CASE wire[1].first /\ n >= Sizes[wire[1].packet]
  <2>1. outcome = wire[1].packet
    BY <1>4, <1>5, <1>9 DEF Parse
  <2>2. outcome # Incomplete /\ outcome # Invalid
    BY <1>7, <2>1, TcpFramingAssumption
  <2>3. delivered' = Append(delivered, wire[1].packet) /\ UNCHANGED receiver
    BY <1>5, <2>1, <2>2 DEF React
  <2> QED
    BY <1>3, <1>4, <1>6, <1>9, <2>3 DEF Received
<1>10. CASE ~(wire[1].first /\ n >= Sizes[wire[1].packet])
  <2>1. outcome \in {Incomplete, Invalid, Garbage}
    BY <1>4, <1>5, <1>10 DEF Parse
  <2>2. ~aligned'
    BY <1>6, <1>8, <1>3, <1>10
  <2>3. \/ UNCHANGED delivered /\ receiver' \in {"normal", "error"}
        \/ UNCHANGED receiver /\ delivered' = Append(delivered, Garbage)
    BY <1>5, <2>1, TcpFramingAssumption DEF React
  <2> QED
    BY <1>3, <1>4, <2>2, <2>3 DEF Received
<1> QED
  BY <1>9, <1>10

-----------------------------------------------------------------------------
(* Type correctness                                                        *)

LEMMA TypeInit == Init => TypeOK
  BY TcpFramingAssumption DEF Init, TypeOK

LEMMA TypeStep == TypeOK /\ [Next]_vars => TypeOK'
<1> SUFFICES ASSUME TypeOK, [Next]_vars PROVE TypeOK'
  OBVIOUS
<1>0. /\ accepted \in 0..Len(Sizes) /\ taken \in 0..accepted /\ Len(Sizes) \in Nat
      /\ wire \in Seq(Units) /\ Len(wire) \in Nat /\ Len(wire) <= WireCapacity
      /\ rest \in Nat /\ \A p \in Packets : Sizes[p] \in Nat
  BY TcpFramingAssumption DEF TypeOK, Units, Packets
<1>1. CASE Send \/ SenderSeesClose \/ Shutdown \/ EndOfStream \/ UNCHANGED vars
  <2>1. CASE Send
    <3>1. accepted' \in 0..Len(Sizes) /\ taken \in 0..accepted'
      BY <1>0, <2>1 DEF Send
    <3> QED
      BY <2>1, <3>1 DEF TypeOK, Send
  <2>2. CASE SenderSeesClose \/ Shutdown \/ EndOfStream
    BY <2>2 DEF TypeOK, SenderSeesClose, Shutdown, EndOfStream
  <2>3. CASE UNCHANGED vars
    BY <2>3 DEF TypeOK, vars
  <2> QED
    BY <1>1, <2>1, <2>2, <2>3
<1>2. CASE Take
  <2>1. taken' = taken + 1 /\ taken + 1 \in Packets /\ rest' = Sizes[taken + 1] /\ taken' \in 0..accepted
    BY <1>0, <1>2 DEF Take, Packets
  <2>2. rest' \in 0..Sizes[taken'] /\ taken' # 0
    BY <1>0, <2>1
  <2> QED
    BY <1>2, <2>1, <2>2 DEF TypeOK, Take
<1>3. CASE WriteSome
  <2>1. PICK n \in Nat : Written(n)
    BY <1>3, WriteEffect
  <2>2. wire' \in Seq(Units) /\ Len(wire') <= WireCapacity
    BY <2>1 DEF Written
  <2>3. rest' \in 0..(IF taken = 0 THEN 0 ELSE Sizes[taken])
    <3>1. rest' = rest - n /\ n \in 1..rest
      BY <2>1 DEF Written
    <3>2. /\ rest \in Nat
          /\ taken = 0 => rest = 0
          /\ taken # 0 => Sizes[taken] \in Nat /\ rest <= Sizes[taken]
      BY <1>0, TcpFramingAssumption DEF TypeOK, Packets
    <3>3. taken # 0 => rest' \in 0..Sizes[taken]
      BY <3>1, <3>2
    <3> QED
      BY <3>1, <3>2, <3>3
  <2> QED
    BY <1>3, <2>2, <2>3 DEF TypeOK, WriteSome, Units
<1>4. CASE Read
  <2>1. PICK n \in Nat : Received(n)
    BY <1>4, ReadEffect
  <2>2. wire' \in Seq(Units) /\ Len(wire') <= WireCapacity
    BY <1>0, <2>1, TcpFramingAssumption DEF Received
  <2>3. wire[1].packet \in Packets
    <3>1. wire[1] \in Units
      BY <1>0, <2>1 DEF Received
    <3> QED
      BY <3>1 DEF Units
  <2>4. delivered' \in Seq(Packets \cup {Garbage}) /\ receiver' \in {"open", "normal", "error"}
    <3>1. /\ Append(delivered, Garbage) \in Seq(Packets \cup {Garbage})
          /\ Append(delivered, wire[1].packet) \in Seq(Packets \cup {Garbage})
      BY <2>3, Appended DEF TypeOK
    <3> QED
      BY <2>1, <3>1 DEF Received, TypeOK
  <2>5. aligned' \in BOOLEAN
    BY <1>4 DEF Read, TypeOK
  <2> QED
    BY <1>4, <2>2, <2>4, <2>5 DEF TypeOK, Read, Units
<1> QED
  BY <1>1, <1>2, <1>3, <1>4 DEF Next

-----------------------------------------------------------------------------
(* Order                                                                   *)

\* Facts about indices that every step needs.
Indices ==
  /\ taken \in Nat /\ rest \in Nat /\ Len(wire) \in Nat /\ Len(delivered) \in Nat
  /\ \A i \in 1..Len(wire) : wire[i].packet \in Packets
  /\ \A i \in 1..Len(delivered) : delivered[i] # Garbage => delivered[i] \in Packets
  /\ \A p \in Packets : p \in Nat /\ p >= 1 /\ Sizes[p] \in Nat /\ Sizes[p] >= 2
  /\ taken # 0 => taken \in Packets /\ rest <= Sizes[taken]
  /\ taken = 0 => rest = 0
  /\ Garbage \notin Packets

LEMMA IndicesTyped == TypeOK => Indices
<1> SUFFICES ASSUME TypeOK PROVE Indices
  OBVIOUS
<1>1. Len(Sizes) \in Nat /\ \A p \in Packets : Sizes[p] \in Nat /\ Sizes[p] >= 2
  BY TcpFramingAssumption DEF Packets
<1>2. taken \in Nat /\ rest \in Nat /\ Len(wire) \in Nat /\ Len(delivered) \in Nat
  BY <1>1 DEF TypeOK, Packets
<1>3. \A i \in 1..Len(wire) : wire[i].packet \in Packets
  <2>1. wire \in Seq(Units)
    BY DEF TypeOK, Units
  <2>2. \A i \in 1..Len(wire) : wire[i] \in Units
    BY <2>1
  <2> QED
    BY <2>2 DEF Units
<1>4. \A i \in 1..Len(delivered) : delivered[i] # Garbage => delivered[i] \in Packets
  BY DEF TypeOK
<1>5. /\ taken # 0 => taken \in Packets /\ rest <= Sizes[taken]
      /\ taken = 0 => rest = 0
  BY <1>1 DEF TypeOK, Packets
<1> QED
  BY <1>1, <1>2, <1>3, <1>4, <1>5, TcpFramingAssumption DEF Indices, Packets

\* Taking a packet: all that was seen before is older.
LEMMA TakeEffect ==
  ASSUME TypeOK, Take
  PROVE  /\ taken' = taken + 1 /\ taken' \in Packets /\ rest = 0 /\ rest' = Sizes[taken'] /\ rest' > 0
         /\ UNCHANGED <<wire, sender, receiver, delivered, aligned>> /\ Untouched'
<1>1. taken' = taken + 1 /\ taken' \in Packets /\ rest = 0 /\ rest' = Sizes[taken']
  BY TcpFramingAssumption DEF TypeOK, Take, Packets
<1>2. Sizes[taken'] \in Nat /\ Sizes[taken'] > 0
  BY <1>1, TcpFramingAssumption DEF Packets
<1> QED
  BY <1>1, <1>2 DEF Take, Untouched

LEMMA OrderStep == IInv /\ [Next]_vars => WireInv' /\ DeliveredInv'
<1> SUFFICES ASSUME IInv, [Next]_vars PROVE WireInv' /\ DeliveredInv'
  OBVIOUS
<1>0. TypeOK /\ WireInv /\ DeliveredInv /\ Indices
  BY IndicesTyped DEF IInv
<1>1. CASE Send \/ SenderSeesClose \/ Shutdown \/ EndOfStream \/ UNCHANGED vars
  <2>1. UNCHANGED <<wire, taken, rest, delivered>>
    BY <1>1 DEF Send, SenderSeesClose, Shutdown, EndOfStream, vars
  <2> QED
    BY <1>0, <2>1 DEF WireInv, DeliveredInv, Untouched
<1>2. CASE Take
  <2>1. taken' = taken + 1 /\ UNCHANGED <<wire, delivered>>
    BY <1>0, <1>2, TakeEffect
  <2>2. taken \in Nat /\ \A i \in 1..Len(wire) : wire[i].packet \in Nat
    BY <1>0, TcpFramingAssumption DEF Indices, Packets
  <2>3. WireInv'
    BY <1>0, <2>1, <2>2 DEF WireInv
  <2>4. DeliveredInv'
    <3>1. ASSUME NEW i \in 1..Len(delivered), delivered[i] # Garbage
          PROVE  delivered[i] \in Nat /\ delivered[i] <= taken'
      BY <1>0, <2>1, <2>2, <3>1 DEF DeliveredInv, Indices, Packets
    <3>2. ASSUME NEW i \in 1..Len(delivered), delivered[i] # Garbage
          PROVE  delivered[i] < taken'
      BY <1>0, <2>1, <2>2, <3>1, <3>2 DEF DeliveredInv
    <3> QED
      BY <1>0, <2>1, <3>1, <3>2 DEF DeliveredInv
  <2> QED
    BY <2>3, <2>4
<1>3. CASE WriteSome
  <2>1. PICK n \in Nat : Written(n)
    BY <1>0, <1>3, WriteEffect
  <2>2. UNCHANGED <<taken, delivered>>
    BY <1>3 DEF WriteSome
  <2>3. ~Untouched'
    <3>1. taken # 0 /\ rest' < Sizes[taken]
      BY <1>0, <2>1 DEF Written, Indices
    <3> QED
      BY <2>2, <3>1, <1>0 DEF Untouched, Indices
  <2>4. \A i \in 1..Len(wire') : i \in 1..Len(wire) \/ i \in (Len(wire) + 1)..(Len(wire) + n)
    BY <1>0, <2>1 DEF Written, Indices
  <2>5. WireInv'
    <3>1. \A i \in 1..Len(wire') :
            \/ i \in 1..Len(wire) /\ wire'[i] = wire[i]
            \/ i > Len(wire) /\ wire'[i].packet = taken
               /\ (wire'[i].first => Untouched /\ i = Len(wire) + 1)
      BY <1>0, <2>1, <2>4 DEF Written, Indices
    <3>2. \A i \in 1..Len(wire') : wire'[i].packet <= taken
      BY <1>0, <3>1 DEF WireInv, Indices
    <3>3. ASSUME NEW i \in 1..Len(wire'), NEW j \in 1..Len(wire'), i < j
          PROVE  /\ wire'[i].packet <= wire'[j].packet
                 /\ wire'[j].first => wire'[i].packet < wire'[j].packet
      <4>1. CASE j \in 1..Len(wire) /\ wire'[j] = wire[j]
        <5>1. i \in 1..Len(wire) /\ wire'[i] = wire[i]
          BY <3>1, <3>3, <4>1
        <5> QED
          BY <1>0, <3>3, <4>1, <5>1 DEF WireInv
      <4>2. CASE j > Len(wire) /\ wire'[j].packet = taken
                 /\ (wire'[j].first => Untouched /\ j = Len(wire) + 1)
        <5>1. wire'[j].first => i \in 1..Len(wire) /\ wire'[i] = wire[i]
          BY <1>0, <3>1, <3>3, <4>2 DEF Indices
        <5> QED
          BY <1>0, <3>2, <4>2, <5>1 DEF WireInv
      <4> QED
        BY <3>1, <4>1, <4>2
    <3> QED
      BY <2>2, <2>3, <3>2, <3>3 DEF WireInv
  <2>6. DeliveredInv'
    <3>1. \A j \in 1..Len(wire') :
            \/ j \in 1..Len(wire) /\ wire'[j] = wire[j]
            \/ wire'[j].packet = taken /\ (wire'[j].first => Untouched)
      BY <1>0, <2>1, <2>4 DEF Written, Indices
    <3>2. \A i \in 1..Len(delivered) : delivered[i] # Garbage =>
            /\ delivered[i] <= taken /\ (Untouched => delivered[i] < taken)
            /\ \A j \in 1..Len(wire) : /\ delivered[i] <= wire[j].packet
                                       /\ wire[j].first => delivered[i] < wire[j].packet
            /\ \A j \in 1..Len(delivered) :
                 i < j /\ delivered[j] # Garbage => delivered[i] < delivered[j]
      BY <1>0 DEF DeliveredInv
    <3> QED
      BY <2>2, <2>3, <3>1, <3>2 DEF DeliveredInv
  <2> QED
    BY <2>5, <2>6
<1>4. CASE Read
  <2>1. PICK n \in Nat : Received(n)
    BY <1>0, <1>4, ReadEffect
  <2>2. UNCHANGED <<taken, rest>>
    BY <1>4 DEF Read
  <2>3. /\ Len(wire') = Len(wire) - n /\ n \in 1..Len(wire)
        /\ \A i \in 1..Len(wire') : wire'[i] = wire[i + n] /\ i + n \in 1..Len(wire) /\ 1 < i + n
    BY <1>0, <2>1 DEF Received, Indices
  <2>u. Untouched' <=> Untouched
    BY <2>2 DEF Untouched
  <2>4. WireInv'
    <3>1. \A i \in 1..Len(wire') : wire'[i].packet <= taken /\ (Untouched => wire'[i].packet < taken)
      BY <1>0, <2>3 DEF WireInv
    <3>2. ASSUME NEW i \in 1..Len(wire'), NEW j \in 1..Len(wire'), i < j
          PROVE  /\ wire'[i].packet <= wire'[j].packet
                 /\ wire'[j].first => wire'[i].packet < wire'[j].packet
      <4>1. i + n \in 1..Len(wire) /\ j + n \in 1..Len(wire) /\ i + n < j + n
        BY <1>0, <2>3, <3>2 DEF Indices
      <4> QED
        BY <1>0, <2>3, <4>1 DEF WireInv
    <3> QED
      BY <2>2, <2>u, <3>1, <3>2 DEF WireInv
  <2>w. \A i \in 1..Len(delivered) : delivered[i] # Garbage =>
          /\ delivered[i] <= taken /\ (Untouched => delivered[i] < taken)
          /\ \A j \in 1..Len(wire') :
               delivered[i] <= wire'[j].packet /\ (wire'[j].first => delivered[i] < wire'[j].packet)
          /\ \A j \in 1..Len(delivered) : i < j /\ delivered[j] # Garbage => delivered[i] < delivered[j]
    BY <1>0, <2>3 DEF DeliveredInv
  <2>5. CASE UNCHANGED delivered
    BY <2>2, <2>4, <2>5, <2>u, <2>w DEF DeliveredInv
  <2>6. ASSUME NEW p \in Packets \cup {Garbage}, delivered' = Append(delivered, p),
               p # Garbage => wire[1].first /\ p = wire[1].packet
        PROVE  DeliveredInv'
    <3>1. /\ Len(delivered') = Len(delivered) + 1 /\ delivered'[Len(delivered) + 1] = p
          /\ \A i \in 1..Len(delivered) : delivered'[i] = delivered[i]
      BY <1>0, <2>6, Appended DEF TypeOK
    <3>2. ASSUME p # Garbage
          PROVE  /\ p <= taken /\ (Untouched => p < taken)
                 /\ \A j \in 1..Len(wire') : p <= wire'[j].packet /\ (wire'[j].first => p < wire'[j].packet)
                 /\ \A i \in 1..Len(delivered) : delivered[i] # Garbage => delivered[i] < p
      <4>1. 1 \in 1..Len(wire) /\ wire[1].first /\ p = wire[1].packet
        BY <1>0, <2>3, <2>6, <3>2 DEF Indices
      <4>2. p <= taken /\ (Untouched => p < taken)
        BY <1>0, <4>1 DEF WireInv
      <4>3. \A j \in 1..Len(wire') : p <= wire'[j].packet /\ (wire'[j].first => p < wire'[j].packet)
        BY <1>0, <2>3, <4>1 DEF WireInv
      <4>4. \A i \in 1..Len(delivered) : delivered[i] # Garbage => delivered[i] < p
        BY <1>0, <4>1 DEF DeliveredInv
      <4> QED
        BY <4>2, <4>3, <4>4
    <3>3. \A i \in 1..Len(delivered') :
            \/ i \in 1..Len(delivered) /\ delivered'[i] = delivered[i]
            \/ i = Len(delivered) + 1 /\ delivered'[i] = p
      BY <1>0, <3>1 DEF Indices
    <3>4. ASSUME NEW i \in 1..Len(delivered'), delivered'[i] # Garbage
          PROVE  /\ delivered'[i] <= taken /\ (Untouched => delivered'[i] < taken)
                 /\ \A j \in 1..Len(wire') :
                      delivered'[i] <= wire'[j].packet /\ (wire'[j].first => delivered'[i] < wire'[j].packet)
      BY <2>w, <3>2, <3>3, <3>4
    <3>5. ASSUME NEW i \in 1..Len(delivered'), NEW j \in 1..Len(delivered'),
                 delivered'[i] # Garbage, delivered'[j] # Garbage, i < j
          PROVE  delivered'[i] < delivered'[j]
      <4>1. i \in 1..Len(delivered) /\ delivered'[i] = delivered[i]
        BY <1>0, <3>1, <3>3, <3>5 DEF Indices
      <4> QED
        BY <2>w, <3>2, <3>3, <3>5, <4>1
    <3> QED
      BY <2>2, <2>u, <3>4, <3>5 DEF DeliveredInv
  <2>7. wire[1].packet \in Packets
    BY <1>0, <2>3 DEF Indices
  <2> QED
    BY <1>0, <2>1, <2>4, <2>5, <2>6, <2>7 DEF Received, Indices
<1> QED
  BY <1>1, <1>2, <1>3, <1>4 DEF Next

-----------------------------------------------------------------------------
(* Frames                                                                  *)

LEMMA FramedStep == IInv /\ [Next]_vars => FramedInv'
<1> SUFFICES ASSUME IInv, [Next]_vars PROVE FramedInv'
  OBVIOUS
<1>0. TypeOK /\ WireInv /\ FramedInv /\ Indices
  BY IndicesTyped DEF IInv
<1>1. CASE Send \/ SenderSeesClose \/ Shutdown \/ EndOfStream \/ UNCHANGED vars
  <2>1. UNCHANGED <<wire, taken, rest>>
    BY <1>1 DEF Send, SenderSeesClose, Shutdown, EndOfStream, vars
  <2>2. /\ \A p : WrittenUpTo(p)' <=> WrittenUpTo(p)
        /\ \A i : EndOf(i)' = EndOf(i)
    BY <2>1 DEF WrittenUpTo, Untouched, EndOf
  <2> QED
    BY <1>0, <2>1, <2>2 DEF FramedInv
<1>2. CASE Take
  <2>1. taken' = taken + 1 /\ UNCHANGED wire /\ rest = 0 /\ Untouched'
    BY <1>0, <1>2, TakeEffect
  <2> SUFFICES ASSUME NEW i \in 1..Len(wire), wire[i].first
               PROVE  /\ EndOf(i) < Len(wire) => /\ wire[EndOf(i) + 1].first
                                                 /\ wire[EndOf(i) + 1].packet = wire[i].packet + 1
                      /\ EndOf(i) = Len(wire) => WrittenUpTo(wire[i].packet)'
                      /\ ~(EndOf(i) > Len(wire))
    BY <2>1 DEF FramedInv, EndOf, WrittenUpTo
  <2>2. EndOf(i) \in Nat
    BY <1>0 DEF EndOf, Indices
  <2>3. EndOf(i) > Len(wire) => rest > 0
    BY <1>0, <2>2 DEF FramedInv, Indices
  <2>4. EndOf(i) = Len(wire) => taken = wire[i].packet
    BY <1>0, <2>1 DEF FramedInv, WrittenUpTo, Untouched
  <2> QED
    BY <1>0, <2>1, <2>3, <2>4 DEF FramedInv, WrittenUpTo, Indices
<1>3. CASE WriteSome
  <2>1. PICK n \in Nat : Written(n)
    BY <1>0, <1>3, WriteEffect
  <2>2. UNCHANGED taken /\ rest > 0 /\ taken # 0
    BY <1>0, <1>3 DEF WriteSome, Indices
  <2>3. rest' = rest - n /\ n \in 1..rest /\ Len(wire') = Len(wire) + n
    BY <2>1 DEF Written
  <2> SUFFICES ASSUME NEW i \in 1..Len(wire'), wire'[i].first
               PROVE  /\ EndOf(i)' < Len(wire') => /\ wire'[EndOf(i)' + 1].first
                                                   /\ wire'[EndOf(i)' + 1].packet = wire'[i].packet + 1
                      /\ EndOf(i)' = Len(wire') => rest' = 0 /\ taken = wire'[i].packet
                      /\ EndOf(i)' > Len(wire') => taken = wire'[i].packet /\ rest' = EndOf(i)' - Len(wire')
    BY <2>2 DEF FramedInv, WrittenUpTo
  <2>e. PICK last : last = EndOf(i)' /\ last = i + Sizes[wire'[i].packet] - 1
    BY DEF EndOf
  <2> SUFFICES
        /\ last < Len(wire') => wire'[last + 1].first /\ wire'[last + 1].packet = wire'[i].packet + 1
        /\ ~(last < Len(wire')) => taken = wire'[i].packet /\ rest' = last - Len(wire')
    <3>1. Len(wire') \in Nat
      BY <1>0, <2>3 DEF Indices
    <3>2. last \in Int
      <4>1. wire'[i] \in Units
        BY <2>1 DEF Written
      <4>2. wire'[i].packet \in Packets
        BY <4>1 DEF Units
      <4>3. Sizes[wire'[i].packet] \in Nat /\ i \in Nat
        BY <1>0, <3>1, <4>2 DEF Indices
      <4> QED
        BY <2>e, <4>3
    <3> QED
      BY <2>e, <3>1, <3>2
  <2>4. CASE i \in 1..Len(wire)
    <3>1. wire'[i] = wire[i] /\ last = EndOf(i) /\ last \in Nat
      <4>1. wire'[i] = wire[i]
        BY <2>1, <2>4 DEF Written
      <4>2. Sizes[wire[i].packet] \in Nat /\ Sizes[wire[i].packet] >= 2 /\ i \in Nat
        BY <1>0, <2>4 DEF Indices
      <4> QED
        BY <2>e, <4>1, <4>2 DEF EndOf
    <3>2. CASE last < Len(wire)
      <4>1. last + 1 \in 1..Len(wire)
        BY <1>0, <3>1, <3>2 DEF Indices
      <4>2. wire'[last + 1] = wire[last + 1] /\ last < Len(wire')
        BY <1>0, <2>1, <2>3, <3>1, <3>2, <4>1 DEF Written, Indices
      <4>3. wire[last + 1].first /\ wire[last + 1].packet = wire[i].packet + 1
        BY <1>0, <2>4, <3>1, <3>2 DEF FramedInv
      <4> QED
        BY <3>1, <4>2, <4>3
    <3>3. CASE last = Len(wire)
      <4>1. Untouched /\ taken = wire[i].packet + 1
        <5>1. wire[i].first /\ EndOf(i) = Len(wire)
          BY <3>1, <3>3
        <5> QED
          BY <1>0, <2>2, <2>4, <5>1 DEF FramedInv, WrittenUpTo
      <4>2. last + 1 \in (Len(wire) + 1)..(Len(wire) + n) /\ last < Len(wire')
        BY <1>0, <2>3, <3>1, <3>3 DEF Indices
      <4> QED
        BY <2>1, <3>1, <3>3, <4>1, <4>2, <2>3, <1>0 DEF Written, Indices
    <3>4. CASE last > Len(wire)
      <4>1. taken = wire[i].packet /\ rest = last - Len(wire)
        BY <1>0, <2>4, <3>1, <3>4 DEF FramedInv
      <4>2. ~(last < Len(wire')) /\ rest' = last - Len(wire')
        BY <1>0, <2>3, <3>1, <4>1 DEF Indices
      <4> QED
        BY <3>1, <4>1, <4>2
    <3> QED
      BY <1>0, <3>1, <3>2, <3>3, <3>4 DEF Indices
  <2>5. CASE i \notin 1..Len(wire)
    <3>1. i \in (Len(wire) + 1)..(Len(wire) + n)
      BY <1>0, <2>3, <2>5 DEF Indices
    <3>2. i = Len(wire) + 1 /\ rest = Sizes[taken] /\ wire'[i].packet = taken
      BY <2>1, <3>1 DEF Written, Untouched
    <3>3. last = Len(wire) + rest
      <4>1. rest \in Nat /\ Len(wire) \in Nat
        BY <1>0 DEF Indices
      <4>2. Sizes[wire'[i].packet] = rest /\ i = Len(wire) + 1
        BY <3>2
      <4>3. last = i + Sizes[wire'[i].packet] - 1
        BY <2>e
      <4>4. last = Len(wire) + 1 + rest - 1
        BY <4>2, <4>3, Zenon
      <4> QED
        BY <4>1, <4>4
    <3>4. ~(last < Len(wire')) /\ rest' = last - Len(wire')
      BY <1>0, <2>3, <3>3 DEF Indices
    <3> QED
      BY <3>2, <3>4
  <2> QED
    BY <2>4, <2>5
<1>4. CASE Read
  <2>1. PICK n \in Nat : Received(n)
    BY <1>0, <1>4, ReadEffect
  <2>2. UNCHANGED <<taken, rest>>
    BY <1>4 DEF Read
  <2>3. /\ Len(wire') = Len(wire) - n /\ n \in 1..Len(wire)
        /\ \A i \in 1..Len(wire') : wire'[i] = wire[i + n]
    BY <2>1 DEF Received
  <2> SUFFICES ASSUME NEW i \in 1..Len(wire'), wire'[i].first
               PROVE  /\ EndOf(i)' < Len(wire') => /\ wire'[EndOf(i)' + 1].first
                                                   /\ wire'[EndOf(i)' + 1].packet = wire'[i].packet + 1
                      /\ EndOf(i)' = Len(wire') => WrittenUpTo(wire'[i].packet)
                      /\ EndOf(i)' > Len(wire') => taken = wire'[i].packet /\ rest = EndOf(i)' - Len(wire')
    BY <2>2 DEF FramedInv, WrittenUpTo, Untouched
  <2>e. PICK last : last = EndOf(i)' /\ last = i + Sizes[wire'[i].packet] - 1
    BY DEF EndOf
  <2>4. i + n \in 1..Len(wire) /\ wire'[i] = wire[i + n]
    BY <1>0, <2>3 DEF Indices
  <2>5. EndOf(i + n) = last + n /\ last \in Nat
    <3>1. i \in Nat /\ n \in Nat /\ wire'[i] = wire[i + n]
      BY <1>0, <2>3, <2>4 DEF Indices
    <3>2. Sizes[wire[i + n].packet] \in Nat /\ Sizes[wire[i + n].packet] >= 2
      BY <1>0, <2>4 DEF Indices
    <3> QED
      BY SMTT(20), <2>e, <3>1, <3>2 DEF EndOf
  <2>6. last < Len(wire') => /\ last + 1 \in 1..Len(wire') /\ wire'[last + 1] = wire[EndOf(i + n) + 1]
                             /\ EndOf(i + n) < Len(wire)
    <3>1. last < Len(wire') => last + 1 \in 1..Len(wire') /\ EndOf(i + n) < Len(wire)
      BY <1>0, <2>3, <2>5 DEF Indices
    <3>2. last < Len(wire') => wire'[last + 1] = wire[(last + 1) + n]
      BY <2>3, <3>1
    <3>3. (last + 1) + n = EndOf(i + n) + 1
      BY <2>5
    <3> QED
      BY <3>1, <3>2, <3>3
  <2>7. /\ last = Len(wire') => EndOf(i + n) = Len(wire)
        /\ last > Len(wire') => EndOf(i + n) > Len(wire)
        /\ last - Len(wire') = EndOf(i + n) - Len(wire)
    BY <1>0, <2>3, <2>5 DEF Indices
  <2> QED
    BY <1>0, <2>4, <2>6, <2>7, <2>e DEF FramedInv
<1> QED
  BY <1>1, <1>2, <1>3, <1>4 DEF Next

-----------------------------------------------------------------------------
(* Aligned reads                                                           *)

LEMMA AlignedStep == IInv /\ [Next]_vars => AlignedInv'
<1> SUFFICES ASSUME IInv, [Next]_vars PROVE AlignedInv'
  OBVIOUS
<1>0. TypeOK /\ FramedInv /\ AlignedInv /\ Indices
  BY IndicesTyped DEF IInv
<1>1. CASE Send \/ SenderSeesClose \/ Shutdown \/ EndOfStream \/ UNCHANGED vars
  <2>1. UNCHANGED <<wire, taken, rest, delivered, aligned>>
    BY <1>1 DEF Send, SenderSeesClose, Shutdown, EndOfStream, vars
  <2>2. receiver' # "open" => ~sender' \/ (receiver # "open" /\ (~sender => ~sender'))
    BY <1>1 DEF Send, SenderSeesClose, Shutdown, EndOfStream, vars
  <2> QED
    BY <1>0, <2>1, <2>2 DEF AlignedInv, WrittenUpTo, Untouched
<1>2. CASE Take
  <2>1. /\ taken' = taken + 1 /\ rest = 0 /\ Untouched'
        /\ UNCHANGED <<wire, sender, receiver, delivered, aligned>>
    BY <1>0, <1>2, TakeEffect
  <2>2. aligned /\ wire = <<>> => taken = Len(delivered)
    BY <1>0, <2>1 DEF AlignedInv, WrittenUpTo, Untouched
  <2> QED
    BY <1>0, <2>1, <2>2 DEF AlignedInv, WrittenUpTo
<1>3. CASE WriteSome
  <2>1. PICK n \in Nat : Written(n)
    BY <1>0, <1>3, WriteEffect
  <2>2. UNCHANGED <<taken, sender, receiver, delivered, aligned>> /\ rest > 0
    BY <1>3 DEF WriteSome
  <2>3. n >= 1 /\ Len(wire') >= 1 /\ wire' # <<>>
    BY <1>0, <2>1 DEF Written, Indices
  <2>4. CASE wire = <<>>
    <3>1. aligned => Untouched /\ taken = Len(delivered) + 1
      BY <1>0, <2>2, <2>4 DEF AlignedInv, WrittenUpTo
    <3>2. 1 \in (Len(wire) + 1)..(Len(wire) + n) /\ Len(wire) + 1 = 1
      BY <2>3, <2>4
    <3>3. aligned => wire'[1].first /\ wire'[1].packet = Len(delivered) + 1
      BY <2>1, <3>1, <3>2 DEF Written
    <3> QED
      BY <1>0, <2>2, <2>3, <3>3 DEF AlignedInv
  <2>5. CASE wire # <<>>
    <3>1. 1 \in 1..Len(wire)
      BY <1>0, <2>5 DEF TypeOK, Indices
    <3>2. wire'[1] = wire[1]
      BY <2>1, <3>1 DEF Written
    <3> QED
      BY <1>0, <2>2, <2>3, <2>5, <3>2 DEF AlignedInv
  <2> QED
    BY <2>4, <2>5
<1>4. CASE Read
  <2>1. PICK n \in Nat : Received(n)
    BY <1>0, <1>4, ReadEffect
  <2>2. UNCHANGED <<taken, rest, sender>>
    BY <1>4 DEF Read
  <2> SUFFICES ASSUME aligned'
               PROVE  /\ \A i \in 1..Len(delivered') : delivered'[i] = i
                      /\ wire' = <<>> => WrittenUpTo(Len(delivered))'
                      /\ wire' # <<>> => wire'[1].first /\ wire'[1].packet = Len(delivered') + 1
                      /\ receiver' # "open" => ~sender'
    BY DEF AlignedInv
  <2>3. /\ n \in 1..Len(wire) /\ Len(wire') = Len(wire) - n /\ wire' \in Seq(Units)
        /\ \A i \in 1..Len(wire') : wire'[i] = wire[i + n]
        /\ aligned /\ wire[1].first /\ n = Sizes[wire[1].packet]
        /\ delivered' = Append(delivered, wire[1].packet) /\ UNCHANGED receiver
    BY <2>1 DEF Received
  <2>4. wire # <<>> /\ 1 \in 1..Len(wire)
    BY <1>0, <2>3 DEF Indices
  <2>5. /\ wire[1].packet = Len(delivered) + 1 /\ wire[1].packet \in Packets
        /\ \A i \in 1..Len(delivered) : delivered[i] = i
        /\ receiver # "open" => ~sender
    BY <1>0, <2>3, <2>4 DEF AlignedInv, Indices
  <2>6. /\ Len(delivered') = Len(delivered) + 1
        /\ delivered'[Len(delivered) + 1] = wire[1].packet
        /\ \A i \in 1..Len(delivered) : delivered'[i] = delivered[i]
    BY <1>0, <2>3, <2>5, Appended DEF TypeOK
  <2>7. \A i \in 1..Len(delivered') : delivered'[i] = i
    <3>1. \A i \in 1..Len(delivered') : i \in 1..Len(delivered) \/ i = Len(delivered) + 1
      BY <1>0, <2>6 DEF Indices
    <3> QED
      BY <2>5, <2>6, <3>1
  <2>8. EndOf(1) = n
    BY <2>3 DEF EndOf
  <2>9. ASSUME wire' = <<>> PROVE WrittenUpTo(Len(delivered))'
    <3>1. EndOf(1) = Len(wire)
      BY <1>0, <2>3, <2>8, <2>9 DEF Indices
    <3>2. WrittenUpTo(wire[1].packet)
      BY <1>0, <2>3, <2>4, <3>1 DEF FramedInv
    <3> QED
      BY <2>2, <2>5, <2>6, <3>2 DEF WrittenUpTo, Untouched
  <2>10. ASSUME wire' # <<>> PROVE wire'[1].first /\ wire'[1].packet = Len(delivered') + 1
    <3>1. EndOf(1) < Len(wire) /\ wire'[1] = wire[EndOf(1) + 1]
      <4>1. Len(wire') \in Nat /\ Len(wire') # 0
        BY <2>3, <2>10
      <4>2. 1 \in 1..Len(wire') /\ 1 + n = n + 1 /\ n < Len(wire)
        BY SMTT(20), <1>0, <2>3, <4>1 DEF Indices
      <4>3. wire'[1] = wire[1 + n]
        BY <2>3, <4>2
      <4> QED
        BY <2>8, <4>2, <4>3
    <3> QED
      BY <1>0, <2>3, <2>4, <2>5, <2>6, <3>1 DEF FramedInv
  <2> QED
    BY <2>2, <2>3, <2>5, <2>7, <2>9, <2>10
<1> QED
  BY <1>1, <1>2, <1>3, <1>4 DEF Next

-----------------------------------------------------------------------------
(* Theorems                                                                *)

LEMMA IInvInit == Init => IInv
  BY TypeInit DEF Init, IInv, WireInv, DeliveredInv, FramedInv, AlignedInv, WrittenUpTo

LEMMA IInvStep == IInv /\ [Next]_vars => IInv'
  BY TypeStep, OrderStep, FramedStep, AlignedStep DEF IInv

LEMMA Invariance == Spec => []IInv
  BY IInvInit, IInvStep, PTL DEF Spec

(* Every variable keeps its type: the counters of the send queue stay in    *)
(* order and the socket buffers within their size.                          *)
THEOREM TypeCorrect == Spec => []TypeOK
<1>1. IInv => TypeOK
  BY DEF IInv
<1> QED
  BY <1>1, Invariance, PTL

(* However the stream is cut into reads, packets that arrive were sent, in  *)
(* this order and at most once; and none is lost, made up, or cut off by    *)
(* the receiver while every read returns exactly one packet.                *)
THEOREM PacketsFramedTheorem == Spec => []PacketsFramed
<1>1. IInv => PacketsFramed
  <2> SUFFICES ASSUME IInv PROVE PacketsFramed
    OBVIOUS
  <2>1. DOMAIN delivered = 1..Len(delivered)
    BY DEF IInv, TypeOK
  <2>2. OrderKept
    BY <2>1 DEF IInv, DeliveredInv, OrderKept
  <2>3. IntactIfAligned
    BY <2>1 DEF IInv, AlignedInv, IntactIfAligned
  <2> QED
    BY <2>2, <2>3 DEF PacketsFramed
<1> QED
  BY <1>1, Invariance, PTL

-----------------------------------------------------------------------------
(* Actor: its inductive invariant                                          *)

(* The packet in a command, or 0, and those in the commands of a channel.   *)
PacketIn(c) == IF c.kind \in {"send", "packet"} THEN c.packet ELSE 0
Carried(channel) == [i \in 1..Len(channel) |-> PacketIn(channel[i])]

(* Of two packets that came the same way, as v says, p was handed over      *)
(* first.                                                                   *)
Older(v, p, q) == p # 0 /\ q # 0 /\ v[p] = v[q] => p < q

Sorted(v, s) == \A i, j \in 1..Len(s) : i < j => Older(v, s[i], s[j])
Ahead(v, s, t) == \A i \in 1..Len(s), j \in 1..Len(t) : Older(v, s[i], t[j])

Commanded(v) == {p \in 0..Len(v) : p = 0 \/ v[p] = "command"}

(* Five stages one behind the other, a being the last one that packets      *)
(* reach, d and e those that hold commands.                                 *)
Pipeline(v, a, b, c, d, e) ==
  /\ Sorted(v, a) /\ Sorted(v, b) /\ Sorted(v, c) /\ Sorted(v, d) /\ Sorted(v, e)
  /\ Ahead(v, a, b) /\ Ahead(v, a, c) /\ Ahead(v, a, d) /\ Ahead(v, a, e)
  /\ Ahead(v, b, c) /\ Ahead(v, b, d) /\ Ahead(v, b, e)
  /\ Ahead(v, c, d) /\ Ahead(v, c, e) /\ Ahead(v, d, e)
  /\ \A i \in 1..Len(a) : a[i] \in 1..Len(v)
  /\ \A i \in 1..Len(b) : b[i] \in 1..Len(v)
  /\ \A i \in 1..Len(c) : c[i] \in 1..Len(v)
  /\ \A i \in 1..Len(d) : d[i] \in Commanded(v)
  /\ \A i \in 1..Len(e) : e[i] \in Commanded(v)

PipelineInv == Pipeline(via, sent, batch, data, Carried(internal), Carried(commands))

ActorCommands == {Agent!Send(p) : p \in Agent!Packets} \cup {Agent!Close, Agent!Query}
InternalCommands == {Agent!SendPacket(p) : p \in Agent!Packets} \cup {Agent!Shutdown}

(* The counters fall behind by the part of the batch that has been tried.   *)
CountersInv ==
  /\ stats \in [packets_sent : Nat, error_count : Nat, total_batch_packets : Nat]
  /\ batch_size \in Nat /\ Len(batch) <= batch_size
  /\ LET attempts == stats.packets_sent + stats.error_count
     IN  IF Agent!Running("data_pipeline")
         THEN attempts = stats.total_batch_packets
                           + (IF batch = <<>> THEN 0 ELSE batch_size - Len(batch))
         ELSE batch = <<>> /\ attempts >= stats.total_batch_packets

(* Shutdown is served once.                                                 *)
ClosedInv == closed = (IF Agent!Running("command_pipeline") THEN 0 ELSE 1)

ActorTypes ==
  /\ commands \in Seq(ActorCommands) /\ internal \in Seq(InternalCommands)
  /\ data \in Seq(Agent!Packets) /\ batch \in Seq(Agent!Packets)

ActorInv == Agent!TypeOK /\ ActorTypes /\ PipelineInv /\ CountersInv /\ ClosedInv

-----------------------------------------------------------------------------
(* Actor: packets that move along the stages                               *)

\* t is s with e behind it; t is s without its first k elements and perhaps some
\* of the last ones.
Followed(t, s, e) ==
  Len(t) = Len(s) + 1 /\ t[Len(s) + 1] = e /\ \A i \in 1..Len(s) : t[i] = s[i]
PartOf(t, s, k) == Len(t) + k <= Len(s) /\ \A i \in 1..Len(t) : t[i] = s[i + k]

(* What follows is by pairs of stages: a part of a stage keeps its order    *)
(* and its place.                                                           *)
LEMMA PartKept ==
  ASSUME NEW v, NEW S, NEW s \in Seq(S), NEW t \in Seq(S), NEW k \in Nat, PartOf(t, s, k)
  PROVE  /\ Sorted(v, s) => Sorted(v, t)
         /\ \A u \in Seq(S) : /\ Ahead(v, s, u) => Ahead(v, t, u)
                              /\ Ahead(v, u, s) => Ahead(v, u, t)
<1>1. \A i \in 1..Len(t) : i + k \in 1..Len(s) /\ t[i] = s[i + k]
  BY DEF PartOf
<1>2. ASSUME Sorted(v, s) PROVE Sorted(v, t)
  BY <1>1, <1>2 DEF Sorted
<1> QED
  BY <1>1, <1>2 DEF Ahead

(* A packet that comes last, behind all of its stage.                       *)
LEMMA FollowedKept ==
  ASSUME NEW v, NEW S, NEW s \in Seq(S), NEW t \in Seq(S), NEW e, Followed(t, s, e)
  PROVE  /\ Sorted(v, s) /\ (\A i \in 1..Len(s) : Older(v, s[i], e)) => Sorted(v, t)
         /\ \A u \in Seq(S) :
              /\ Ahead(v, s, u) /\ (\A j \in 1..Len(u) : Older(v, e, u[j])) => Ahead(v, t, u)
              /\ Ahead(v, u, s) /\ (\A j \in 1..Len(u) : Older(v, u[j], e)) => Ahead(v, u, t)
<1>1. \A i \in 1..Len(t) : (i \in 1..Len(s) /\ t[i] = s[i]) \/ (i = Len(t) /\ t[i] = e)
  BY DEF Followed
<1>2. ASSUME Sorted(v, s), \A i \in 1..Len(s) : Older(v, s[i], e) PROVE Sorted(v, t)
  BY <1>1, <1>2 DEF Sorted, Followed
<1>3. ASSUME NEW u \in Seq(S), Ahead(v, s, u), \A j \in 1..Len(u) : Older(v, e, u[j])
      PROVE  Ahead(v, t, u)
  BY <1>1, <1>3 DEF Ahead
<1>4. ASSUME NEW u \in Seq(S), Ahead(v, u, s), \A j \in 1..Len(u) : Older(v, u[j], e)
      PROVE  Ahead(v, u, t)
  BY <1>1, <1>4 DEF Ahead
<1> QED
  BY <1>2, <1>3, <1>4

LEMMA PartIndices ==
  ASSUME NEW s \in Seq(Nat), NEW t \in Seq(Nat), NEW k \in Nat, PartOf(t, s, k)
  PROVE  \A i \in 1..Len(t) : i + k \in 1..Len(s) /\ t[i] = s[i + k]
<1> SUFFICES ASSUME NEW i \in 1..Len(t) PROVE i + k \in 1..Len(s) /\ t[i] = s[i + k]
  OBVIOUS
<1>1. Len(s) \in Nat /\ Len(t) \in Nat /\ Len(t) + k <= Len(s)
  BY DEF PartOf
<1>2. t[i] = s[i + k]
  BY DEF PartOf
<1> QED
  BY <1>1, <1>2

LEMMA PartRange ==
  ASSUME NEW s \in Seq(Nat), NEW t \in Seq(Nat), NEW k \in Nat, PartOf(t, s, k),
         NEW R, \A i \in 1..Len(s) : s[i] \in R
  PROVE  \A i \in 1..Len(t) : t[i] \in R
  BY PartIndices

LEMMA FollowedRange ==
  ASSUME NEW s \in Seq(Nat), NEW t \in Seq(Nat), NEW e, Followed(t, s, e),
         NEW R, e \in R, \A i \in 1..Len(s) : s[i] \in R
  PROVE  \A i \in 1..Len(t) : t[i] \in R
<1>1. /\ Len(s) \in Nat /\ Len(t) = Len(s) + 1 /\ t[Len(s) + 1] = e
      /\ \A i \in 1..Len(s) : t[i] = s[i]
  BY DEF Followed
<1>2. \A i \in 1..Len(t) : i \in 1..Len(s) \/ i = Len(s) + 1
  BY <1>1
<1> QED
  BY <1>1, <1>2

LEMMA PipelineShrinks ==
  ASSUME NEW v, NEW a \in Seq(Nat), NEW b \in Seq(Nat), NEW c \in Seq(Nat), NEW d \in Seq(Nat),
         NEW e \in Seq(Nat), Pipeline(v, a, b, c, d, e), Len(v) \in Nat,
         NEW b1 \in Seq(Nat), NEW c1 \in Seq(Nat), NEW d1 \in Seq(Nat), NEW e1 \in Seq(Nat),
         NEW kb \in Nat, NEW kc \in Nat, NEW kd \in Nat, NEW ke \in Nat,
         PartOf(b1, b, kb), PartOf(c1, c, kc), PartOf(d1, d, kd), PartOf(e1, e, ke)
  PROVE  Pipeline(v, a, b1, c1, d1, e1)
<1>1. /\ Sorted(v, a) /\ Sorted(v, b) /\ Sorted(v, c) /\ Sorted(v, d) /\ Sorted(v, e)
      /\ Ahead(v, a, b) /\ Ahead(v, a, c) /\ Ahead(v, a, d) /\ Ahead(v, a, e)
      /\ Ahead(v, b, c) /\ Ahead(v, b, d) /\ Ahead(v, b, e)
      /\ Ahead(v, c, d) /\ Ahead(v, c, e) /\ Ahead(v, d, e)
  BY DEF Pipeline
<1>2. /\ Sorted(v, b1) /\ \A u \in Seq(Nat) : /\ Ahead(v, b, u) => Ahead(v, b1, u)
                                              /\ Ahead(v, u, b) => Ahead(v, u, b1)
  BY <1>1, PartKept
<1>3. /\ Sorted(v, c1) /\ \A u \in Seq(Nat) : /\ Ahead(v, c, u) => Ahead(v, c1, u)
                                              /\ Ahead(v, u, c) => Ahead(v, u, c1)
  BY <1>1, PartKept
<1>4. /\ Sorted(v, d1) /\ \A u \in Seq(Nat) : /\ Ahead(v, d, u) => Ahead(v, d1, u)
                                              /\ Ahead(v, u, d) => Ahead(v, u, d1)
  BY <1>1, PartKept
<1>5. /\ Sorted(v, e1) /\ \A u \in Seq(Nat) : /\ Ahead(v, e, u) => Ahead(v, e1, u)
                                              /\ Ahead(v, u, e) => Ahead(v, u, e1)
  BY <1>1, PartKept
<1>6. /\ Ahead(v, a, b1) /\ Ahead(v, a, c1) /\ Ahead(v, a, d1) /\ Ahead(v, a, e1)
  BY <1>1, <1>2, <1>3, <1>4, <1>5
<1>7. /\ Ahead(v, b1, c1) /\ Ahead(v, b1, d1) /\ Ahead(v, b1, e1)
  BY <1>1, <1>2, <1>3, <1>4, <1>5
<1>8. Ahead(v, c1, d1) /\ Ahead(v, c1, e1) /\ Ahead(v, d1, e1)
  BY <1>1, <1>3, <1>4, <1>5
<1>9. /\ \A i \in 1..Len(a) : a[i] \in 1..Len(v)
      /\ \A i \in 1..Len(b) : b[i] \in 1..Len(v)
      /\ \A i \in 1..Len(c) : c[i] \in 1..Len(v)
      /\ \A i \in 1..Len(d) : d[i] \in Commanded(v)
      /\ \A i \in 1..Len(e) : e[i] \in Commanded(v)
  BY DEF Pipeline
<1>10. \A i \in 1..Len(b1) : b1[i] \in 1..Len(v)
  BY <1>9, PartRange
<1>11. \A i \in 1..Len(c1) : c1[i] \in 1..Len(v)
  BY <1>9, PartRange
<1>12. \A i \in 1..Len(d1) : d1[i] \in Commanded(v)
  BY <1>9, PartRange
<1>13. \A i \in 1..Len(e1) : e1[i] \in Commanded(v)
  BY <1>9, PartRange
<1> QED
  BY <1>1, <1>2, <1>3, <1>4, <1>5, <1>6, <1>7, <1>8, <1>9, <1>10, <1>11, <1>12, <1>13 DEF Pipeline

LEMMA PartItself ==
  ASSUME NEW s \in Seq(Nat)
  PROVE  PartOf(s, s, 0)
  BY DEF PartOf

(* The head of a stage goes to the end of the next one.                     *)
LEMMA HeadKept ==
  ASSUME NEW v, NEW s \in Seq(Nat), NEW t \in Seq(Nat), NEW s1 \in Seq(Nat), NEW t1 \in Seq(Nat),
         t # <<>>, Followed(s1, s, t[1]), PartOf(t1, t, 1),
         Sorted(v, s), Sorted(v, t), Ahead(v, s, t)
  PROVE  /\ Sorted(v, s1) /\ Sorted(v, t1) /\ Ahead(v, s1, t1)
         /\ \A u \in Seq(Nat) :
              /\ Ahead(v, s, u) /\ Ahead(v, t, u) => Ahead(v, s1, u) /\ Ahead(v, t1, u)
              /\ Ahead(v, u, s) /\ Ahead(v, u, t) => Ahead(v, u, s1) /\ Ahead(v, u, t1)
<1>1. 1 \in 1..Len(t) /\ \A i \in 1..Len(s) : Older(v, s[i], t[1])
  BY DEF Ahead
<1>2. Sorted(v, s1) /\ Sorted(v, t1) /\ Ahead(v, s, t1)
  BY <1>1, FollowedKept, PartKept
<1>3. \A j \in 1..Len(t1) : Older(v, t[1], t1[j])
  <2>1. \A j \in 1..Len(t1) : j + 1 \in 1..Len(t) /\ t1[j] = t[j + 1]
    BY PartIndices
  <2> QED
    BY <1>1, <2>1 DEF Sorted
<1>4. Ahead(v, s1, t1)
  BY <1>2, <1>3, FollowedKept
<1>5. ASSUME NEW u \in Seq(Nat), Ahead(v, s, u), Ahead(v, t, u)
      PROVE  Ahead(v, s1, u) /\ Ahead(v, t1, u)
  <2>1. \A j \in 1..Len(u) : Older(v, t[1], u[j])
    BY <1>1, <1>5 DEF Ahead
  <2> QED
    BY <2>1, <1>5, FollowedKept, PartKept
<1>6. ASSUME NEW u \in Seq(Nat), Ahead(v, u, s), Ahead(v, u, t)
      PROVE  Ahead(v, u, s1) /\ Ahead(v, u, t1)
  <2>1. \A j \in 1..Len(u) : Older(v, u[j], t[1])
    BY <1>1, <1>6 DEF Ahead
  <2> QED
    BY <2>1, <1>6, FollowedKept, PartKept
<1> QED
  BY <1>2, <1>4, <1>5, <1>6

LEMMA SendingKeepsOrder ==
  ASSUME NEW v, NEW a \in Seq(Nat), NEW b \in Seq(Nat), NEW c \in Seq(Nat), NEW d \in Seq(Nat),
         NEW e \in Seq(Nat), Pipeline(v, a, b, c, d, e),
         NEW a1 \in Seq(Nat), NEW b1 \in Seq(Nat),
         b # <<>>, Followed(a1, a, b[1]), PartOf(b1, b, 1)
  PROVE  Pipeline(v, a1, b1, c, d, e)
<1>1. /\ Sorted(v, a) /\ Sorted(v, b) /\ Sorted(v, c) /\ Sorted(v, d) /\ Sorted(v, e)
      /\ Ahead(v, a, b) /\ Ahead(v, a, c) /\ Ahead(v, a, d) /\ Ahead(v, a, e)
      /\ Ahead(v, b, c) /\ Ahead(v, b, d) /\ Ahead(v, b, e)
      /\ Ahead(v, c, d) /\ Ahead(v, c, e) /\ Ahead(v, d, e)
  BY DEF Pipeline
<1>2. Sorted(v, a1) /\ Sorted(v, b1) /\ Ahead(v, a1, b1)
  BY <1>1, HeadKept
<1>3. \A u \in Seq(Nat) :
        Ahead(v, a, u) /\ Ahead(v, b, u) => Ahead(v, a1, u) /\ Ahead(v, b1, u)
  BY <1>1, HeadKept
<1>4. /\ Ahead(v, a1, c) /\ Ahead(v, a1, d) /\ Ahead(v, a1, e)
      /\ Ahead(v, b1, c) /\ Ahead(v, b1, d) /\ Ahead(v, b1, e)
  BY <1>1, <1>3
<1>5. /\ \A i \in 1..Len(a) : a[i] \in 1..Len(v)
      /\ \A i \in 1..Len(b) : b[i] \in 1..Len(v)
      /\ b[1] \in 1..Len(v)
  BY DEF Pipeline
<1>6. \A i \in 1..Len(a1) : a1[i] \in 1..Len(v)
  BY <1>5, FollowedRange
<1>7. \A i \in 1..Len(b1) : b1[i] \in 1..Len(v)
  BY <1>5, PartRange
<1> QED
  BY <1>1, <1>2, <1>4, <1>6, <1>7 DEF Pipeline

LEMMA ForwardingKeepsOrder ==
  ASSUME NEW v, NEW a \in Seq(Nat), NEW b \in Seq(Nat), NEW c \in Seq(Nat), NEW d \in Seq(Nat),
         NEW e \in Seq(Nat), Pipeline(v, a, b, c, d, e),
         NEW c1 \in Seq(Nat), NEW d1 \in Seq(Nat),
         d # <<>>, d[1] # 0, Followed(c1, c, d[1]), PartOf(d1, d, 1)
  PROVE  Pipeline(v, a, b, c1, d1, e)
<1>1. /\ Sorted(v, a) /\ Sorted(v, b) /\ Sorted(v, c) /\ Sorted(v, d) /\ Sorted(v, e)
      /\ Ahead(v, a, b) /\ Ahead(v, a, c) /\ Ahead(v, a, d) /\ Ahead(v, a, e)
      /\ Ahead(v, b, c) /\ Ahead(v, b, d) /\ Ahead(v, b, e)
      /\ Ahead(v, c, d) /\ Ahead(v, c, e) /\ Ahead(v, d, e)
  BY DEF Pipeline
<1>2. Sorted(v, c1) /\ Sorted(v, d1) /\ Ahead(v, c1, d1)
  BY <1>1, HeadKept
<1>3. \A u \in Seq(Nat) :
        /\ Ahead(v, c, u) /\ Ahead(v, d, u) => Ahead(v, c1, u) /\ Ahead(v, d1, u)
        /\ Ahead(v, u, c) /\ Ahead(v, u, d) => Ahead(v, u, c1) /\ Ahead(v, u, d1)
  BY <1>1, HeadKept
<1>4. /\ Ahead(v, c1, e) /\ Ahead(v, d1, e)
      /\ Ahead(v, a, c1) /\ Ahead(v, a, d1) /\ Ahead(v, b, c1) /\ Ahead(v, b, d1)
  BY <1>1, <1>3
<1>5. /\ \A i \in 1..Len(c) : c[i] \in 1..Len(v)
      /\ \A i \in 1..Len(d) : d[i] \in Commanded(v)
      /\ d[1] \in Commanded(v)
  BY DEF Pipeline
<1>6. d[1] \in 1..Len(v)
  BY <1>5 DEF Commanded
<1>7. \A i \in 1..Len(c1) : c1[i] \in 1..Len(v)
  BY <1>5, <1>6, FollowedRange
<1>8. \A i \in 1..Len(d1) : d1[i] \in Commanded(v)
  BY <1>5, PartRange
<1> QED
  BY <1>1, <1>2, <1>4, <1>7, <1>8 DEF Pipeline

LEMMA CollectingKeepsOrder ==
  ASSUME NEW v, NEW a \in Seq(Nat), NEW b \in Seq(Nat), NEW c \in Seq(Nat), NEW d \in Seq(Nat),
         NEW e \in Seq(Nat), Pipeline(v, a, b, c, d, e), Len(v) \in Nat,
         NEW b1 \in Seq(Nat), NEW c1 \in Seq(Nat), NEW n \in Nat,
         Len(b1) = n, n <= Len(c), \A i \in 1..n : b1[i] = c[i], PartOf(c1, c, n)
  PROVE  Pipeline(v, a, b1, c1, d, e)
<1>1. /\ Sorted(v, a) /\ Sorted(v, c) /\ Sorted(v, d) /\ Sorted(v, e)
      /\ Ahead(v, a, c) /\ Ahead(v, a, d) /\ Ahead(v, a, e)
      /\ Ahead(v, c, d) /\ Ahead(v, c, e) /\ Ahead(v, d, e)
  BY DEF Pipeline
<1>2. PartOf(b1, c, 0)
  BY DEF PartOf
<1>3. /\ Sorted(v, b1) /\ \A u \in Seq(Nat) : /\ Ahead(v, c, u) => Ahead(v, b1, u)
                                              /\ Ahead(v, u, c) => Ahead(v, u, b1)
  BY <1>1, <1>2, PartKept
<1>4. /\ Sorted(v, c1) /\ \A u \in Seq(Nat) : /\ Ahead(v, c, u) => Ahead(v, c1, u)
                                              /\ Ahead(v, u, c) => Ahead(v, u, c1)
  BY <1>1, PartKept
<1>5. Ahead(v, b1, c1)
  <2>1. \A j \in 1..Len(c1) : j + n \in 1..Len(c) /\ c1[j] = c[j + n]
    BY PartIndices
  <2>2. \A i \in 1..Len(b1) : i \in 1..Len(c) /\ i <= n /\ b1[i] = c[i]
    OBVIOUS
  <2>3. \A i \in 1..Len(b1), j \in 1..Len(c1) : Older(v, c[i], c[j + n])
    BY <1>1, <2>1, <2>2 DEF Sorted
  <2> QED
    BY <2>1, <2>2, <2>3 DEF Ahead
<1>6. /\ Ahead(v, a, b1) /\ Ahead(v, a, c1) /\ Ahead(v, b1, d) /\ Ahead(v, b1, e)
      /\ Ahead(v, c1, d) /\ Ahead(v, c1, e)
  BY <1>1, <1>3, <1>4
<1>7. \A i \in 1..Len(c) : c[i] \in 1..Len(v)
  BY DEF Pipeline
<1>8. \A i \in 1..Len(b1) : b1[i] \in 1..Len(v)
  BY <1>2, <1>7, PartRange
<1>9. \A i \in 1..Len(c1) : c1[i] \in 1..Len(v)
  BY <1>7, PartRange
<1> QED
  BY <1>1, <1>3, <1>4, <1>5, <1>6, <1>8, <1>9 DEF Pipeline

LEMMA AnsweringKeepsOrder ==
  ASSUME NEW v, NEW a \in Seq(Nat), NEW b \in Seq(Nat), NEW c \in Seq(Nat), NEW d \in Seq(Nat),
         NEW e \in Seq(Nat), Pipeline(v, a, b, c, d, e),
         NEW d1 \in Seq(Nat), NEW e1 \in Seq(Nat),
         e # <<>>, Followed(d1, d, e[1]), PartOf(e1, e, 1)
  PROVE  Pipeline(v, a, b, c, d1, e1)
<1>1. /\ Sorted(v, a) /\ Sorted(v, b) /\ Sorted(v, c) /\ Sorted(v, d) /\ Sorted(v, e)
      /\ Ahead(v, a, b) /\ Ahead(v, a, c) /\ Ahead(v, a, d) /\ Ahead(v, a, e)
      /\ Ahead(v, b, c) /\ Ahead(v, b, d) /\ Ahead(v, b, e)
      /\ Ahead(v, c, d) /\ Ahead(v, c, e) /\ Ahead(v, d, e)
  BY DEF Pipeline
<1>2. Sorted(v, d1) /\ Sorted(v, e1) /\ Ahead(v, d1, e1)
  BY <1>1, HeadKept
<1>3. \A u \in Seq(Nat) :
        Ahead(v, u, d) /\ Ahead(v, u, e) => Ahead(v, u, d1) /\ Ahead(v, u, e1)
  BY <1>1, HeadKept
<1>4. /\ Ahead(v, a, d1) /\ Ahead(v, a, e1) /\ Ahead(v, b, d1) /\ Ahead(v, b, e1)
      /\ Ahead(v, c, d1) /\ Ahead(v, c, e1)
  BY <1>1, <1>3
<1>5. /\ \A i \in 1..Len(d) : d[i] \in Commanded(v)
      /\ \A i \in 1..Len(e) : e[i] \in Commanded(v)
      /\ e[1] \in Commanded(v)
  BY DEF Pipeline
<1>6. \A i \in 1..Len(d1) : d1[i] \in Commanded(v)
  BY <1>5, FollowedRange
<1>7. \A i \in 1..Len(e1) : e1[i] \in Commanded(v)
  BY <1>5, PartRange
<1> QED
  BY <1>1, <1>2, <1>4, <1>6, <1>7 DEF Pipeline

(* A packet handed over, or a command without one, comes last of its way.   *)
Newest(v, p, s) == \A i \in 1..Len(s) : Older(v, s[i], p)

LEMMA NewCommandKeepsOrder ==
  ASSUME NEW v, NEW a \in Seq(Nat), NEW b \in Seq(Nat), NEW c \in Seq(Nat), NEW d \in Seq(Nat),
         NEW e \in Seq(Nat), Pipeline(v, a, b, c, d, e),
         NEW p \in Commanded(v), NEW e1 \in Seq(Nat), Followed(e1, e, p),
         Newest(v, p, a), Newest(v, p, b), Newest(v, p, c), Newest(v, p, d), Newest(v, p, e)
  PROVE  Pipeline(v, a, b, c, d, e1)
<1>1. /\ Sorted(v, e) /\ Ahead(v, a, e) /\ Ahead(v, b, e) /\ Ahead(v, c, e) /\ Ahead(v, d, e)
      /\ \A i \in 1..Len(e) : e[i] \in Commanded(v)
  BY DEF Pipeline
<1>2. Sorted(v, e1)
  BY <1>1, FollowedKept DEF Newest
<1>3. \A u \in Seq(Nat) : Ahead(v, u, e) /\ Newest(v, p, u) => Ahead(v, u, e1)
  BY FollowedKept DEF Newest
<1>4. Ahead(v, a, e1) /\ Ahead(v, b, e1) /\ Ahead(v, c, e1) /\ Ahead(v, d, e1)
  BY <1>1, <1>3
<1>5. \A i \in 1..Len(e1) : e1[i] \in Commanded(v)
  BY <1>1, FollowedRange
<1> QED
  BY <1>2, <1>4, <1>5 DEF Pipeline

\* Commands, which came the other way, do not hold up a packet of the data channel.
LEMMA NewDataKeepsOrder ==
  ASSUME NEW v, NEW a \in Seq(Nat), NEW b \in Seq(Nat), NEW c \in Seq(Nat), NEW d \in Seq(Nat),
         NEW e \in Seq(Nat), Pipeline(v, a, b, c, d, e),
         NEW p \in 1..Len(v), v[p] = "data", NEW c1 \in Seq(Nat), Followed(c1, c, p),
         Newest(v, p, a), Newest(v, p, b), Newest(v, p, c)
  PROVE  Pipeline(v, a, b, c1, d, e)
<1>1. /\ Sorted(v, c) /\ Ahead(v, a, c) /\ Ahead(v, b, c) /\ Ahead(v, c, d) /\ Ahead(v, c, e)
      /\ \A i \in 1..Len(c) : c[i] \in 1..Len(v)
      /\ \A i \in 1..Len(d) : d[i] \in Commanded(v)
      /\ \A i \in 1..Len(e) : e[i] \in Commanded(v)
  BY DEF Pipeline
<1>2. Sorted(v, c1)
  BY <1>1, FollowedKept DEF Newest
<1>3. \A u \in Seq(Nat) : Ahead(v, u, c) /\ Newest(v, p, u) => Ahead(v, u, c1)
  BY FollowedKept DEF Newest
<1>4. Ahead(v, a, c1) /\ Ahead(v, b, c1)
  BY <1>1, <1>3
<1>5. \A q \in Commanded(v) : Older(v, p, q)
  BY DEF Commanded, Older
<1>6. ASSUME NEW u \in Seq(Nat), Ahead(v, c, u), \A i \in 1..Len(u) : u[i] \in Commanded(v)
      PROVE  Ahead(v, c1, u)
  <2>1. \A j \in 1..Len(u) : Older(v, p, u[j])
    BY <1>5, <1>6
  <2> QED
    BY <2>1, <1>6, FollowedKept
<1>7. Ahead(v, c1, d) /\ Ahead(v, c1, e)
  BY <1>1, <1>6
<1>8. \A i \in 1..Len(c1) : c1[i] \in 1..Len(v)
  BY <1>1, FollowedRange
<1> QED
  BY <1>2, <1>4, <1>7, <1>8 DEF Pipeline

LEMMA HandedOverLater ==
  ASSUME NEW T, NEW v \in Seq(T), NEW x \in T, NEW s \in Seq(Nat), NEW t \in Seq(Nat)
  PROVE  LET w == Append(v, x)
         IN  /\ (\A i \in 1..Len(s) : s[i] \in 0..Len(v)) =>
                  /\ Newest(w, Len(w), s)
                  /\ Sorted(v, s) => Sorted(w, s)
                  /\ (\A i \in 1..Len(t) : t[i] \in 0..Len(v)) /\ Ahead(v, s, t) => Ahead(w, s, t)
             /\ \A p \in 1..Len(v) : w[p] = v[p] /\ p \in 1..Len(w)
             /\ Commanded(v) \subseteq Commanded(w)
<1> DEFINE w == Append(v, x)
<1>1. Len(w) = Len(v) + 1 /\ Len(v) \in Nat /\ \A p \in 1..Len(v) : w[p] = v[p] /\ p \in 1..Len(w)
  OBVIOUS
<1> HIDE DEF w
<1>2. Commanded(v) \subseteq Commanded(w)
  BY <1>1 DEF Commanded
<1>3. \A p, q \in 0..Len(v) : Older(v, p, q) => Older(w, p, q)
  BY <1>1 DEF Older
<1>4. \A p \in 0..Len(v) : Older(w, p, Len(w))
  BY <1>1 DEF Older
<1>5. ASSUME \A i \in 1..Len(s) : s[i] \in 0..Len(v)
      PROVE  /\ Newest(w, Len(w), s)
             /\ Sorted(v, s) => Sorted(w, s)
             /\ (\A i \in 1..Len(t) : t[i] \in 0..Len(v)) /\ Ahead(v, s, t) => Ahead(w, s, t)
  <2>1. Newest(w, Len(w), s)
    BY <1>4, <1>5 DEF Newest
  <2>2. ASSUME Sorted(v, s) PROVE Sorted(w, s)
    BY <1>3, <1>5, <2>2 DEF Sorted
  <2>3. ASSUME \A i \in 1..Len(t) : t[i] \in 0..Len(v), Ahead(v, s, t) PROVE Ahead(w, s, t)
    BY <1>3, <1>5, <2>3 DEF Ahead
  <2> QED
    BY <2>1, <2>2, <2>3
<1> QED
  BY <1>1, <1>2, <1>5 DEF w

LEMMA PipelineLater ==
  ASSUME NEW T, NEW v \in Seq(T), NEW x \in T, NEW a \in Seq(Nat), NEW b \in Seq(Nat),
         NEW c \in Seq(Nat), NEW d \in Seq(Nat), NEW e \in Seq(Nat), Pipeline(v, a, b, c, d, e),
         NEW w, w = Append(v, x)
  PROVE  /\ Pipeline(w, a, b, c, d, e)
         /\ Newest(w, Len(w), a) /\ Newest(w, Len(w), b) /\ Newest(w, Len(w), c)
         /\ Newest(w, Len(w), d) /\ Newest(w, Len(w), e)
<1> DEFINE Held(s) == \A i \in 1..Len(s) : s[i] \in 0..Len(v)
<1>1. \A s, t \in Seq(Nat) :
        /\ Held(s) => /\ Newest(w, Len(w), s)
                      /\ Sorted(v, s) => Sorted(w, s)
                      /\ Held(t) /\ Ahead(v, s, t) => Ahead(w, s, t)
  BY HandedOverLater
<1>2. /\ \A p \in 1..Len(v) : w[p] = v[p] /\ p \in 1..Len(w)
      /\ Commanded(v) \subseteq Commanded(w)
  BY HandedOverLater
<1>3. /\ Sorted(v, a) /\ Sorted(v, b) /\ Sorted(v, c) /\ Sorted(v, d) /\ Sorted(v, e)
      /\ Ahead(v, a, b) /\ Ahead(v, a, c) /\ Ahead(v, a, d) /\ Ahead(v, a, e)
      /\ Ahead(v, b, c) /\ Ahead(v, b, d) /\ Ahead(v, b, e)
      /\ Ahead(v, c, d) /\ Ahead(v, c, e) /\ Ahead(v, d, e)
  BY DEF Pipeline
<1>4. /\ \A i \in 1..Len(a) : a[i] \in 1..Len(v)
      /\ \A i \in 1..Len(b) : b[i] \in 1..Len(v)
      /\ \A i \in 1..Len(c) : c[i] \in 1..Len(v)
      /\ \A i \in 1..Len(d) : d[i] \in Commanded(v)
      /\ \A i \in 1..Len(e) : e[i] \in Commanded(v)
  BY DEF Pipeline
<1>5. Held(a) /\ Held(b) /\ Held(c) /\ Held(d) /\ Held(e)
  <2>1. Commanded(v) \subseteq 0..Len(v) /\ 1..Len(v) \subseteq 0..Len(v)
    BY DEF Commanded
  <2> QED
    BY <1>4, <2>1
<1> HIDE DEF Held
<1>6. /\ Sorted(w, a) /\ Sorted(w, b) /\ Sorted(w, c) /\ Sorted(w, d) /\ Sorted(w, e)
      /\ Newest(w, Len(w), a) /\ Newest(w, Len(w), b) /\ Newest(w, Len(w), c)
      /\ Newest(w, Len(w), d) /\ Newest(w, Len(w), e)
  BY <1>1, <1>3, <1>5
<1>7. /\ Ahead(w, a, b) /\ Ahead(w, a, c) /\ Ahead(w, a, d) /\ Ahead(w, a, e)
      /\ Ahead(w, b, c) /\ Ahead(w, b, d) /\ Ahead(w, b, e)
      /\ Ahead(w, c, d) /\ Ahead(w, c, e) /\ Ahead(w, d, e)
  BY <1>1, <1>3, <1>5
<1>8. /\ \A i \in 1..Len(a) : a[i] \in 1..Len(w)
      /\ \A i \in 1..Len(b) : b[i] \in 1..Len(w)
      /\ \A i \in 1..Len(c) : c[i] \in 1..Len(w)
      /\ \A i \in 1..Len(d) : d[i] \in Commanded(w)
      /\ \A i \in 1..Len(e) : e[i] \in Commanded(w)
  BY <1>2, <1>4
<1>9. Pipeline(w, a, b, c, d, e)
  BY <1>6, <1>7, <1>8 DEF Pipeline
<1> QED
  BY <1>6, <1>9

-----------------------------------------------------------------------------
(* Actor: the channels                                                     *)

LEMMA Sent ==
  ASSUME NEW S, NEW s \in Seq(S), NEW e \in S
  PROVE  Append(s, e) \in Seq(S) /\ Followed(Append(s, e), s, e)
  BY DEF Followed

LEMMA HeadTaken ==
  ASSUME NEW S, NEW s \in Seq(S), s # <<>>
  PROVE  /\ Len(s) \in Nat /\ Len(s) > 0 /\ Head(s) = s[1] /\ Head(s) \in S
         /\ Tail(s) \in Seq(S) /\ Len(Tail(s)) = Len(s) - 1 /\ PartOf(Tail(s), s, 1)
<1>1. Len(s) \in Nat /\ Len(s) > 0 /\ Head(s) = s[1] /\ Head(s) \in S
  OBVIOUS
<1>2. Tail(s) \in Seq(S) /\ Len(Tail(s)) = Len(s) - 1
  OBVIOUS
<1>3. PartOf(Tail(s), s, 1)
  BY <1>1, <1>2 DEF PartOf
<1> QED
  BY <1>1, <1>2, <1>3

LEMMA CarriedIsSeq ==
  ASSUME NEW S, \A x \in S : PacketIn(x) \in Nat, NEW s \in Seq(S)
  PROVE  Carried(s) \in Seq(Nat) /\ Len(Carried(s)) = Len(s)
<1> DEFINE n == Len(s)
<1>1. n \in Nat /\ \A i \in 1..n : s[i] \in S
  OBVIOUS
<1>2. Carried(s) \in [1..n -> Nat]
  BY <1>1 DEF Carried
<1> QED
  BY <1>1, <1>2

LEMMA CarriedSent ==
  ASSUME NEW S, \A x \in S : PacketIn(x) \in Nat, NEW s \in Seq(S), NEW e \in S
  PROVE  Followed(Carried(Append(s, e)), Carried(s), PacketIn(e))
<1>1. Append(s, e) \in Seq(S) /\ Followed(Append(s, e), s, e)
  BY Sent
<1>2. Len(Carried(s)) = Len(s) /\ Len(Carried(Append(s, e))) = Len(s) + 1 /\ Len(s) \in Nat
  <2>1. Len(Carried(s)) = Len(s)
    BY CarriedIsSeq
  <2>2. Len(Carried(Append(s, e))) = Len(Append(s, e))
    BY <1>1, CarriedIsSeq
  <2> QED
    BY <2>1, <2>2, <1>1 DEF Followed
<1> HIDE DEF PacketIn
<1>3. Carried(Append(s, e))[Len(s) + 1] = PacketIn(e)
  BY <1>1, <1>2 DEF Carried, Followed
<1>4. \A i \in 1..Len(s) : Carried(Append(s, e))[i] = Carried(s)[i]
  BY <1>1, <1>2 DEF Carried, Followed
<1> QED
  BY <1>2, <1>3, <1>4 DEF Followed

LEMMA CarriedTaken ==
  ASSUME NEW S, \A x \in S : PacketIn(x) \in Nat, NEW s \in Seq(S), s # <<>>
  PROVE  /\ PartOf(Carried(Tail(s)), Carried(s), 1)
         /\ Carried(s) # <<>> /\ Carried(s)[1] = PacketIn(Head(s))
<1>1. /\ Tail(s) \in Seq(S) /\ PartOf(Tail(s), s, 1) /\ Head(s) = s[1]
      /\ Len(Tail(s)) = Len(s) - 1 /\ Len(s) \in Nat /\ Len(s) > 0
  BY HeadTaken
<1>2. /\ Len(Carried(s)) = Len(s) /\ Len(Carried(Tail(s))) = Len(s) - 1
      /\ Carried(s) \in Seq(Nat)
  BY <1>1, CarriedIsSeq
<1>3. \A i \in 1..(Len(s) - 1) : Carried(Tail(s))[i] = Carried(s)[i + 1]
  BY <1>1, <1>2 DEF Carried, PartOf
<1>4. Carried(s)[1] = PacketIn(Head(s)) /\ Carried(s) # <<>>
  BY <1>1, <1>2 DEF Carried
<1> QED
  BY <1>1, <1>2, <1>3, <1>4 DEF PartOf

LEMMA CommandPackets ==
  ASSUME LinksAssumption
  PROVE  /\ \A x \in ActorCommands :
              /\ PacketIn(x) \in Nat
              /\ x.kind = "send" => PacketIn(x) = x.packet /\ x.packet \in Agent!Packets
              /\ x.kind = "close" => PacketIn(x) = 0
         /\ \A x \in InternalCommands :
              /\ PacketIn(x) \in Nat
              /\ x.kind = "packet" => /\ PacketIn(x) = x.packet /\ x.packet \in Agent!Packets
                                      /\ x.packet # 0
         /\ PacketIn(Agent!Close) = 0 /\ PacketIn(Agent!Query) = 0 /\ PacketIn(Agent!Shutdown) = 0
         /\ \A p \in Agent!Packets : PacketIn(Agent!Send(p)) = p /\ PacketIn(Agent!SendPacket(p)) = p
  BY DEF LinksAssumption, ActorCommands, InternalCommands, PacketIn, Agent!Packets, Agent!Send,
         Agent!Close, Agent!Query, Agent!SendPacket, Agent!Shutdown

-----------------------------------------------------------------------------
(* Actor: the steps                                                        *)

LEMMA ActorInitially ==
  ASSUME LinksAssumption, Agent!Init
  PROVE  ActorInv
<1>1. Agent!TypeOK
  BY DEF LinksAssumption, Agent!Init, Agent!TypeOK, Agent!Packets
<1>2. ActorTypes
  BY DEF Agent!Init, ActorTypes
<1>3. sent = <<>> /\ batch = <<>> /\ data = <<>> /\ internal = <<>> /\ commands = <<>>
  BY DEF Agent!Init
<1>4. Carried(<<>>) = <<>>
  BY DEF Carried
<1>5. PipelineInv
  BY <1>3, <1>4 DEF PipelineInv, Pipeline, Sorted, Ahead
<1>6. \A t \in Agent!Tasks : Agent!Running(t)
  BY DEF Agent!Init, Agent!Running
<1>7. /\ stats = [packets_sent |-> 0, error_count |-> 0, total_batch_packets |-> 0]
      /\ batch = <<>> /\ batch_size = 0 /\ closed = 0
  BY DEF Agent!Init
<1>8. CountersInv
  <2>1. Len(batch) = 0
    BY <1>7
  <2>2. stats \in [packets_sent : Nat, error_count : Nat, total_batch_packets : Nat]
    BY <1>7
  <2>3. stats.packets_sent = 0 /\ stats.error_count = 0 /\ stats.total_batch_packets = 0
    BY <1>7
  <2>4. Agent!Running("data_pipeline")
    BY <1>6 DEF Agent!Tasks
  <2> QED
    BY <1>7, <2>1, <2>2, <2>3, <2>4 DEF CountersInv, Agent!Running
<1>9. ClosedInv
  BY <1>6, <1>7 DEF ClosedInv, Agent!Tasks
<1> QED
  BY <1>1, <1>2, <1>5, <1>8, <1>9 DEF ActorInv

LEMMA ActorTypesKept ==
  ASSUME LinksAssumption, ActorInv, Agent!Next
  PROVE  Agent!TypeOK' /\ ActorTypes'
<1>0. Agent!TypeOK /\ ActorTypes /\ ClosedInv
  BY DEF ActorInv
<1>1. /\ commands \in Seq(ActorCommands) /\ internal \in Seq(InternalCommands)
      /\ data \in Seq(Agent!Packets) /\ batch \in Seq(Agent!Packets)
      /\ sent \in Seq(Agent!Packets) /\ Len(batch) <= max_batch_size
      /\ via \in Seq({"command", "data"}) /\ Len(via) <= ActorPackets
  BY <1>0 DEF Agent!TypeOK, ActorTypes
<1>2. /\ Agent!Packets = 1..ActorPackets /\ ActorPackets \in Nat
      /\ max_batch_size \in Nat /\ Len(via) \in Nat /\ Len(batch) \in Nat
  BY <1>1 DEF LinksAssumption, Agent!Packets
<1>3. /\ \A p \in Agent!Packets : Agent!Send(p) \in ActorCommands
      /\ \A p \in Agent!Packets : Agent!SendPacket(p) \in InternalCommands
      /\ {Agent!Close, Agent!Query} \subseteq ActorCommands /\ Agent!Shutdown \in InternalCommands
  BY DEF ActorCommands, InternalCommands
<1> DEFINE Typed ==
      /\ commands' \in Seq(ActorCommands) /\ internal' \in Seq(InternalCommands)
      /\ data' \in Seq(Agent!Packets) /\ batch' \in Seq(Agent!Packets)
      /\ sent' \in Seq(Agent!Packets) /\ Len(batch') <= max_batch_size
      /\ via' \in Seq({"command", "data"}) /\ Len(via') <= ActorPackets
<1>a. ASSUME Typed,
             UNCHANGED <<tasks, application, tried, connected, closed, failed>>
      PROVE  Agent!TypeOK' /\ ActorTypes'
  <2>1. \A i \in DOMAIN data' : data'[i] \in Agent!Packets
    BY <1>a
  <2> QED
    BY <1>0, <1>a, <2>1 DEF Agent!TypeOK, ActorTypes
<1>b. ASSUME Typed,
             tasks' \in [Agent!Tasks -> {"running", "ended"}], application' \in BOOLEAN,
             tried' \in [Agent!Packets -> {"none", "ok", "error"}],
             connected' \in BOOLEAN, closed' \in 0..1, failed' \subseteq Agent!Packets
      PROVE  Agent!TypeOK' /\ ActorTypes'
  <2>1. \A i \in DOMAIN data' : data'[i] \in Agent!Packets
    BY <1>b
  <2> QED
    BY <1>b, <2>1 DEF Agent!TypeOK, ActorTypes
<1>c. /\ tasks \in [Agent!Tasks -> {"running", "ended"}] /\ application \in BOOLEAN
      /\ tried \in [Agent!Packets -> {"none", "ok", "error"}]
      /\ connected \in BOOLEAN /\ closed \in 0..1 /\ failed \subseteq Agent!Packets
  BY <1>0 DEF Agent!TypeOK
<1>d. \A t \in Agent!Tasks : Agent!End(t) => tasks' \in [Agent!Tasks -> {"running", "ended"}]
  BY <1>c DEF Agent!End
<1>4. CASE Agent!Submit
  <2>1. Len(via) < ActorPackets /\ commands' = Append(commands, Agent!Send(Len(via) + 1))
    BY <1>4 DEF Agent!Submit
  <2>0. Len(via) + 1 \in Agent!Packets
    BY <1>2, <2>1
  <2>2. Agent!Send(Len(via) + 1) \in ActorCommands
    BY <1>3, <2>0
  <2>3. commands' \in Seq(ActorCommands)
    BY <1>1, <2>1, <2>2, Sent
  <2>4. via' = Append(via, "command")
    BY <1>4 DEF Agent!Submit
  <2>5. via' \in Seq({"command", "data"}) /\ Len(via') <= ActorPackets
    BY <1>1, <1>2, <2>1, <2>4
  <2>6. UNCHANGED <<internal, data, batch, sent, tasks, application, tried, connected, closed, failed>>
    BY <1>4 DEF Agent!Submit
  <2> QED
    BY <1>1, <2>3, <2>5, <2>6, <1>a
<1>5. CASE Agent!SubmitOther
  <2>1. commands' \in Seq(ActorCommands)
    BY <1>1, <1>3, <1>5, Sent DEF Agent!SubmitOther
  <2>2. UNCHANGED <<via, internal, data, batch, sent, tasks, application, tried, connected, closed, failed>>
    BY <1>5 DEF Agent!SubmitOther
  <2> QED
    BY <1>1, <2>1, <2>2, <1>a
<1>6. CASE Agent!Push
  <2>1. Len(via) + 1 \in Agent!Packets
    BY <1>2, <1>6 DEF Agent!Push
  <2>2. data' \in Seq(Agent!Packets)
    BY <1>1, <1>6, <2>1, Sent DEF Agent!Push
  <2>3. via' = Append(via, "data")
    BY <1>6 DEF Agent!Push
  <2>4. via' \in Seq({"command", "data"}) /\ Len(via') <= ActorPackets
    BY <1>1, <1>2, <2>1, <2>3
  <2>5. UNCHANGED <<commands, internal, batch, sent, tasks, application, tried, connected, closed, failed>>
    BY <1>6 DEF Agent!Push
  <2> QED
    BY <1>1, <2>2, <2>4, <2>5, <1>a
<1>7. CASE Agent!DropSender
  <2>1. UNCHANGED <<via, commands, internal, data, batch, sent, tasks, tried, connected, closed, failed>>
        /\ application' = FALSE
    BY <1>7 DEF Agent!DropSender, Agent!channels
  <2> QED
    BY <1>1, <1>c, <2>1, <1>b
<1>8. CASE Agent!ConnectionEnds
  <2>1. UNCHANGED <<via, commands, internal, data, batch, sent, tasks, application, tried, closed, failed>>
        /\ connected' = FALSE
    BY <1>8 DEF Agent!ConnectionEnds, Agent!channels, Agent!app
  <2> QED
    BY <1>1, <1>c, <2>1, <1>b
<1>9. CASE Agent!Forward
  <2> DEFINE c == Head(commands)
  <2>1. c \in ActorCommands /\ commands' \in Seq(ActorCommands)
    BY <1>1, <1>9, HeadTaken DEF Agent!Forward
  <2>2. c.kind = "send" => c.packet \in Agent!Packets
    BY <2>1, CommandPackets
  <2>3. /\ tasks' \in [Agent!Tasks -> {"running", "ended"}]
        /\ tried' \in [Agent!Packets -> {"none", "ok", "error"}]
        /\ internal' \in Seq(InternalCommands)
    <3>1. CASE c.kind = "send" /\ Agent!Running("command_pipeline")
      <4>1. /\ internal' = Append(internal, Agent!SendPacket(c.packet)) /\ UNCHANGED tasks
            /\ tried' = [tried EXCEPT ![c.packet] = "ok"]
        BY <1>9, <3>1 DEF Agent!Forward
      <4>2. internal' \in Seq(InternalCommands)
        BY <1>1, <1>3, <2>2, <3>1, <4>1, Sent
      <4> QED
        BY <1>c, <4>1, <4>2
    <3>2. CASE c.kind = "send" /\ ~Agent!Running("command_pipeline")
      <4>1. /\ Agent!End("command_adapter") /\ UNCHANGED internal
            /\ tried' = [tried EXCEPT ![c.packet] = "error"]
        BY <1>9, <3>2 DEF Agent!Forward
      <4> QED
        BY <1>1, <1>c, <1>d, <4>1 DEF Agent!Tasks
    <3>3. CASE c.kind = "close"
      <4>1. /\ Agent!End("command_adapter") /\ UNCHANGED tried
            /\ internal' = Append(internal, Agent!Shutdown) \/ internal' = internal
        BY <1>9, <3>3 DEF Agent!Forward
      <4>2. internal' \in Seq(InternalCommands)
        BY <1>1, <1>3, <4>1, Sent
      <4> QED
        BY <1>c, <1>d, <4>1, <4>2 DEF Agent!Tasks
    <3>4. CASE c.kind # "send" /\ c.kind # "close"
      <4>1. UNCHANGED <<internal, tried, tasks>>
        BY <1>9, <3>4 DEF Agent!Forward
      <4> QED
        BY <1>1, <1>c, <4>1
    <3> QED
      BY <3>1, <3>2, <3>3, <3>4
  <2>4. UNCHANGED <<via, data, batch, sent, application, connected, closed, failed>>
    BY <1>9 DEF Agent!Forward, Agent!app
  <2> QED
    BY <1>1, <1>c, <2>1, <2>3, <2>4, <1>b
<1>10. CASE Agent!CommandsEnd
  <2>1. /\ UNCHANGED <<via, commands, internal, data, batch, sent, application, tried, connected,
                      closed, failed>>
        /\ Agent!End("command_adapter")
    BY <1>10 DEF Agent!CommandsEnd, Agent!channels, Agent!app
  <2>2. tasks' \in [Agent!Tasks -> {"running", "ended"}]
    BY <1>d, <2>1 DEF Agent!Tasks
  <2> QED
    BY <1>1, <1>c, <2>1, <2>2, <1>b
<1>11. CASE Agent!ForwardPacket
  <2>1. /\ Head(internal) \in InternalCommands /\ internal' \in Seq(InternalCommands)
        /\ Head(internal).kind = "packet" /\ data' = Append(data, Head(internal).packet)
    BY <1>1, <1>11, HeadTaken DEF Agent!ForwardPacket
  <2>2. Head(internal).packet \in Agent!Packets
    BY <2>1, CommandPackets
  <2>3. data' \in Seq(Agent!Packets)
    BY <1>1, <2>1, <2>2, Sent
  <2>4. UNCHANGED <<via, commands, batch, sent, tasks, application, tried, connected, closed, failed>>
    BY <1>11 DEF Agent!ForwardPacket, Agent!app
  <2> QED
    BY <1>1, <2>1, <2>3, <2>4, <1>a
<1>12. CASE Agent!Stop
  <2>1. internal' \in Seq(InternalCommands)
    BY <1>1, <1>12, HeadTaken DEF Agent!Stop
  <2>2. closed' = 1
    <3>1. closed = 0
      BY <1>0, <1>12 DEF Agent!Stop, ClosedInv
    <3> QED
      BY <1>12, <3>1 DEF Agent!Stop, Agent!End, Agent!Running
  <2>3. /\ UNCHANGED <<via, commands, data, batch, sent, application, tried, connected, failed>>
        /\ Agent!End("command_pipeline")
    BY <1>12 DEF Agent!Stop, Agent!app
  <2>4. tasks' \in [Agent!Tasks -> {"running", "ended"}]
    BY <1>d, <2>3 DEF Agent!Tasks
  <2> QED
    BY <1>1, <1>c, <2>1, <2>2, <2>3, <2>4, <1>b DEF Agent!End
<1>13. CASE Agent!Collect
  <2>1. PICK n \in 1..max_batch_size :
          /\ n <= Len(data) /\ batch' = SubSeq(data, 1, n)
          /\ data' = SubSeq(data, n + 1, Len(data))
    BY <1>13 DEF Agent!Collect
  <2>2. n \in 1..Len(data) /\ n <= max_batch_size
    BY <1>1, <1>2, <2>1
  <2>3. batch' \in Seq(Agent!Packets) /\ Len(batch') = n /\ data' \in Seq(Agent!Packets)
    <3>1. SubSeq(data, 1, n) \in Seq(Agent!Packets) /\ Len(SubSeq(data, 1, n)) = n
      BY <1>1, <2>2
    <3> QED
      BY <1>1, <2>1, <2>2, <3>1, Cut
  <2>4. UNCHANGED <<via, commands, internal, sent, tasks, application, tried, connected, closed, failed>>
    BY <1>13 DEF Agent!Collect, Agent!app
  <2> QED
    BY <1>1, <2>2, <2>3, <2>4, <1>a
<1>14. CASE Agent!SendNext
  <2>1. /\ Head(batch) \in Agent!Packets /\ batch' \in Seq(Agent!Packets)
        /\ Len(batch') = Len(batch) - 1
    BY <1>1, <1>14, HeadTaken DEF Agent!SendNext
  <2>2. sent' \in Seq(Agent!Packets)
    BY <1>1, <1>14, <2>1, Sent DEF Agent!SendNext
  <2>3. UNCHANGED <<via, commands, internal, data, tasks, application, tried, connected, closed, failed>>
    BY <1>14 DEF Agent!SendNext, Agent!channels, Agent!app
  <2>4. Len(batch') <= max_batch_size
    BY <1>1, <1>2, <2>1
  <2> QED
    BY <1>1, <2>1, <2>2, <2>3, <2>4, <1>a
<1>15. CASE Agent!SendFails
  <2>1. /\ Head(batch) \in Agent!Packets /\ batch' \in Seq(Agent!Packets)
        /\ Len(batch') = Len(batch) - 1
    BY <1>1, <1>15, HeadTaken DEF Agent!SendFails
  <2>2. failed' \subseteq Agent!Packets
    BY <1>c, <1>15, <2>1 DEF Agent!SendFails
  <2>3. UNCHANGED <<via, commands, internal, data, sent, tasks, application, tried, connected, closed>>
    BY <1>15 DEF Agent!SendFails, Agent!channels, Agent!app
  <2>4. Len(batch') <= max_batch_size
    BY <1>1, <1>2, <2>1
  <2> QED
    BY <1>1, <1>c, <2>1, <2>2, <2>3, <2>4, <1>b
<1>16. CASE Agent!DataStops
  <2>1. /\ UNCHANGED <<via, commands, internal, data, sent, application, tried, connected, closed, failed>>
        /\ Agent!End("data_pipeline") /\ batch' = <<>>
    BY <1>16 DEF Agent!DataStops, Agent!channels, Agent!app
  <2>2. tasks' \in [Agent!Tasks -> {"running", "ended"}]
    BY <1>d, <2>1 DEF Agent!Tasks
  <2>3. batch' \in Seq(Agent!Packets) /\ Len(batch') <= max_batch_size
    <3>1. <<>> \in Seq(Agent!Packets) /\ Len(<<>>) = 0
      OBVIOUS
    <3> QED
      BY <1>2, <2>1, <3>1 DEF Agent!End
  <2> QED
    BY <1>1, <1>c, <2>1, <2>2, <2>3, <1>b
<1>17. CASE Agent!ReceiveStops
  <2>1. /\ UNCHANGED <<via, commands, internal, data, batch, sent, application, tried, connected,
                      closed, failed>>
        /\ Agent!End("receive_pipeline")
    BY <1>17 DEF Agent!ReceiveStops, Agent!channels, Agent!app
  <2>2. tasks' \in [Agent!Tasks -> {"running", "ended"}]
    BY <1>d, <2>1 DEF Agent!Tasks
  <2> QED
    BY <1>1, <1>c, <2>1, <2>2, <1>b
<1> QED
  BY <1>4, <1>5, <1>6, <1>7, <1>8, <1>9, <1>10, <1>11, <1>12, <1>13, <1>14, <1>15, <1>16, <1>17
     DEF Agent!Next

LEMMA ActorPipelineKept ==
  ASSUME LinksAssumption, ActorInv, ActorTypes', Agent!TypeOK', Agent!Next
  PROVE  PipelineInv'
<1>1. /\ \A s \in Seq(Agent!Packets) : s \in Seq(Nat)
      /\ \A c \in Seq(ActorCommands) \cup Seq(InternalCommands) : Carried(c) \in Seq(Nat)
  <2>1. Agent!Packets \subseteq Nat
    BY DEF LinksAssumption, Agent!Packets
  <2>2. ASSUME NEW s \in Seq(Agent!Packets) PROVE s \in Seq(Nat)
    <3>1. Len(s) \in Nat /\ s \in [1..Len(s) -> Agent!Packets]
      OBVIOUS
    <3>2. s \in [1..Len(s) -> Nat]
      BY <2>1, <3>1
    <3> QED
      BY <3>1, <3>2
  <2>3. \A c \in Seq(ActorCommands) : Carried(c) \in Seq(Nat)
    BY CommandPackets, CarriedIsSeq
  <2>4. \A c \in Seq(InternalCommands) : Carried(c) \in Seq(Nat)
    BY CommandPackets, CarriedIsSeq
  <2> QED
    BY <2>2, <2>3, <2>4
<1>2. /\ commands \in Seq(ActorCommands) /\ internal \in Seq(InternalCommands)
      /\ data \in Seq(Agent!Packets) /\ batch \in Seq(Agent!Packets)
      /\ sent \in Seq(Agent!Packets) /\ via \in Seq({"command", "data"})
  BY DEF ActorInv, ActorTypes, Agent!TypeOK
<1>3. /\ commands' \in Seq(ActorCommands) /\ internal' \in Seq(InternalCommands)
      /\ data' \in Seq(Agent!Packets) /\ batch' \in Seq(Agent!Packets)
      /\ sent' \in Seq(Agent!Packets)
  BY DEF ActorTypes, Agent!TypeOK
<1>4. /\ sent \in Seq(Nat) /\ batch \in Seq(Nat) /\ data \in Seq(Nat)
      /\ Carried(internal) \in Seq(Nat) /\ Carried(commands) \in Seq(Nat)
      /\ sent' \in Seq(Nat) /\ batch' \in Seq(Nat) /\ data' \in Seq(Nat)
      /\ Carried(internal') \in Seq(Nat) /\ Carried(commands') \in Seq(Nat)
  BY <1>1, <1>2, <1>3
<1>5. Pipeline(via, sent, batch, data, Carried(internal), Carried(commands)) /\ Len(via) \in Nat
  BY <1>2 DEF ActorInv, PipelineInv
<1> SUFFICES Pipeline(via', sent', batch', data', Carried(internal'), Carried(commands'))
  BY DEF PipelineInv, Carried
<1>6. /\ PartOf(batch, batch, 0) /\ PartOf(data, data, 0)
      /\ PartOf(Carried(internal), Carried(internal), 0)
      /\ PartOf(Carried(commands), Carried(commands), 0)
  BY <1>4, PartItself
<1>7. /\ \A x \in ActorCommands : PacketIn(x) \in Nat
      /\ \A x \in InternalCommands : PacketIn(x) \in Nat
  BY CommandPackets
<1>8. CASE UNCHANGED <<via, sent, batch, data, internal, commands>>
  BY <1>5, <1>8
<1>9. CASE Agent!Submit \/ Agent!SubmitOther
  <2>1. PICK x, p :
          /\ x \in ActorCommands /\ PacketIn(x) = p /\ commands' = Append(commands, x)
          /\ UNCHANGED <<sent, batch, data, internal>>
          /\ \/ via' = Append(via, "command") /\ p = Len(via) + 1
             \/ via' = via /\ p = 0
    <3>1. CASE Agent!Submit
      <4>1. Len(via) < ActorPackets /\ commands' = Append(commands, Agent!Send(Len(via) + 1))
        BY <3>1 DEF Agent!Submit
      <4>2. Len(via) + 1 \in Agent!Packets
        BY <1>5, <4>1 DEF LinksAssumption, Agent!Packets
      <4>3. Agent!Send(Len(via) + 1) \in ActorCommands /\ PacketIn(Agent!Send(Len(via) + 1)) = Len(via) + 1
        BY <4>2, CommandPackets DEF ActorCommands
      <4>4. UNCHANGED <<sent, batch, data, internal>> /\ via' = Append(via, "command")
        BY <3>1 DEF Agent!Submit
      <4> QED
        BY <4>1, <4>3, <4>4
    <3>2. CASE Agent!SubmitOther
      <4>1. PICK x \in {Agent!Close, Agent!Query} : commands' = Append(commands, x)
        BY <3>2 DEF Agent!SubmitOther
      <4>2. x \in ActorCommands /\ PacketIn(x) = 0
        BY <4>1, CommandPackets DEF ActorCommands
      <4>3. UNCHANGED <<sent, batch, data, internal, via>>
        BY <3>2 DEF Agent!SubmitOther
      <4> QED
        BY <4>1, <4>2, <4>3
    <3> QED
      BY <1>9, <3>1, <3>2
  <2>2. Followed(Carried(commands'), Carried(commands), p)
    BY <1>2, <1>7, <2>1, CarriedSent
  <2>3. CASE via' = Append(via, "command") /\ p = Len(via) + 1
    <3>1. Len(via') = p /\ p \in Commanded(via')
      BY <1>2, <1>5, <2>3 DEF Commanded
    <3>2. /\ Pipeline(via', sent, batch, data, Carried(internal), Carried(commands))
          /\ Newest(via', p, sent) /\ Newest(via', p, batch) /\ Newest(via', p, data)
          /\ Newest(via', p, Carried(internal)) /\ Newest(via', p, Carried(commands))
      <4>1. "command" \in {"command", "data"} /\ via' = Append(via, "command")
        BY <2>3
      <4>2. /\ Pipeline(via', sent, batch, data, Carried(internal), Carried(commands))
            /\ Newest(via', Len(via'), sent) /\ Newest(via', Len(via'), batch)
            /\ Newest(via', Len(via'), data) /\ Newest(via', Len(via'), Carried(internal))
            /\ Newest(via', Len(via'), Carried(commands))
        BY <1>2, <1>4, <1>5, <4>1, PipelineLater
      <4> QED
        BY <3>1, <4>2
    <3>3. Pipeline(via', sent, batch, data, Carried(internal), Carried(commands'))
      BY <1>4, <2>2, <3>1, <3>2, NewCommandKeepsOrder
    <3> QED
      BY <2>1, <3>3
  <2>4. CASE via' = via /\ p = 0
    <3>1. p \in Commanded(via) /\ \A s : Newest(via, p, s)
      BY <1>5, <2>4 DEF Commanded, Newest, Older
    <3>2. Pipeline(via, sent, batch, data, Carried(internal), Carried(commands'))
      BY <1>4, <1>5, <2>2, <3>1, NewCommandKeepsOrder
    <3> QED
      BY <2>1, <2>4, <3>2
  <2> QED
    BY <2>1, <2>3, <2>4
<1>10. CASE Agent!Push
  <2> DEFINE p == Len(via) + 1
  <2>1. /\ data' = Append(data, p) /\ via' = Append(via, "data")
        /\ UNCHANGED <<sent, batch, internal, commands>> /\ Len(via) < ActorPackets
    BY <1>10 DEF Agent!Push
  <2>2. p \in Nat /\ Followed(data', data, p)
    BY <1>4, <1>5, <2>1, Sent
  <2>3. p \in 1..Len(via') /\ via'[p] = "data" /\ Len(via') = p
    BY <1>2, <1>5, <2>1
  <2>4. /\ Pipeline(via', sent, batch, data, Carried(internal), Carried(commands))
        /\ Newest(via', p, sent) /\ Newest(via', p, batch) /\ Newest(via', p, data)
    <3>1. "data" \in {"command", "data"} /\ via' = Append(via, "data")
      BY <2>1
    <3>2. /\ Pipeline(via', sent, batch, data, Carried(internal), Carried(commands))
          /\ Newest(via', Len(via'), sent) /\ Newest(via', Len(via'), batch)
          /\ Newest(via', Len(via'), data)
      BY <1>2, <1>4, <1>5, <3>1, PipelineLater
    <3> QED
      BY <2>3, <3>2
  <2> HIDE DEF p
  <2>5. Pipeline(via', sent, batch, data', Carried(internal), Carried(commands))
    BY <1>4, <2>2, <2>3, <2>4, NewDataKeepsOrder
  <2> QED
    BY <2>1, <2>5
<1>11. CASE Agent!Forward
  <2> DEFINE c == Head(commands)
  <2>1. /\ commands # <<>> /\ commands' = Tail(commands) /\ UNCHANGED <<via, sent, batch, data>>
    BY <1>11 DEF Agent!Forward, Agent!app
  <2>2. /\ PartOf(Carried(commands'), Carried(commands), 1)
        /\ Carried(commands) # <<>> /\ Carried(commands)[1] = PacketIn(c)
    BY <1>2, <1>7, <2>1, CarriedTaken
  <2>3. c \in ActorCommands
    BY <1>2, <2>1, HeadTaken
  <2>4. \/ internal' = internal
        \/ \E x \in InternalCommands : internal' = Append(internal, x) /\ PacketIn(x) = PacketIn(c)
    <3>1. CASE c.kind = "send" /\ Agent!Running("command_pipeline")
      <4>1. internal' = Append(internal, Agent!SendPacket(c.packet))
        BY <1>11, <3>1 DEF Agent!Forward
      <4>2. c.packet \in Agent!Packets /\ PacketIn(c) = c.packet
        BY <2>3, <3>1, CommandPackets
      <4>3. /\ Agent!SendPacket(c.packet) \in InternalCommands
            /\ PacketIn(Agent!SendPacket(c.packet)) = c.packet
        BY <4>2, CommandPackets DEF InternalCommands
      <4> QED
        BY <4>1, <4>2, <4>3
    <3>2. CASE c.kind = "send" /\ ~Agent!Running("command_pipeline")
      BY <1>11, <3>2 DEF Agent!Forward
    <3>3. CASE c.kind = "close"
      <4>1. internal' = Append(internal, Agent!Shutdown) \/ internal' = internal
        BY <1>11, <3>3 DEF Agent!Forward
      <4>2. PacketIn(c) = 0 /\ PacketIn(Agent!Shutdown) = 0 /\ Agent!Shutdown \in InternalCommands
        BY <2>3, <3>3, CommandPackets DEF InternalCommands
      <4> QED
        BY <4>1, <4>2
    <3>4. CASE c.kind # "send" /\ c.kind # "close"
      BY <1>11, <3>4 DEF Agent!Forward
    <3> QED
      BY <3>1, <3>2, <3>3, <3>4
  <2>5. CASE internal' = internal
    <3>1. Pipeline(via, sent, batch, data, Carried(internal), Carried(commands'))
      BY <1>4, <1>5, <1>6, <2>2, PipelineShrinks
    <3> QED
      BY <2>1, <2>5, <3>1
  <2>6. CASE \E x \in InternalCommands : internal' = Append(internal, x) /\ PacketIn(x) = PacketIn(c)
    <3>1. Followed(Carried(internal'), Carried(internal), PacketIn(c))
      BY <1>2, <1>7, <2>6, CarriedSent
    <3>2. Pipeline(via, sent, batch, data, Carried(internal'), Carried(commands'))
      BY <1>4, <1>5, <2>2, <3>1, AnsweringKeepsOrder
    <3> QED
      BY <2>1, <3>2
  <2> QED
    BY <2>4, <2>5, <2>6
<1>12. CASE Agent!ForwardPacket
  <2> DEFINE c == Head(internal)
  <2>1. /\ internal # <<>> /\ internal' = Tail(internal) /\ c.kind = "packet"
        /\ data' = Append(data, c.packet) /\ UNCHANGED <<via, sent, batch, commands>>
    BY <1>12 DEF Agent!ForwardPacket, Agent!app
  <2>2. c \in InternalCommands
    BY <1>2, <2>1, HeadTaken
  <2>3. PacketIn(c) = c.packet /\ c.packet # 0 /\ c.packet \in Nat
    BY <2>1, <2>2, CommandPackets
  <2>4. /\ PartOf(Carried(internal'), Carried(internal), 1)
        /\ Carried(internal) # <<>> /\ Carried(internal)[1] = PacketIn(c)
    BY <1>2, <1>7, <2>1, CarriedTaken
  <2>5. Followed(data', data, c.packet)
    BY <1>4, <2>1, <2>3, Sent
  <2>6. Pipeline(via, sent, batch, data', Carried(internal'), Carried(commands))
    BY <1>4, <1>5, <2>3, <2>4, <2>5, ForwardingKeepsOrder
  <2> QED
    BY <2>1, <2>6
<1>13. CASE Agent!Stop
  <2>1. /\ internal # <<>> /\ internal' = Tail(internal)
        /\ UNCHANGED <<via, sent, batch, data, commands>>
    BY <1>13 DEF Agent!Stop, Agent!app
  <2>2. PartOf(Carried(internal'), Carried(internal), 1)
    BY <1>2, <1>7, <2>1, CarriedTaken
  <2>3. Pipeline(via, sent, batch, data, Carried(internal'), Carried(commands))
    BY <1>4, <1>5, <1>6, <2>2, PipelineShrinks
  <2> QED
    BY <2>1, <2>3
<1>14. CASE Agent!Collect
  <2>1. PICK n \in 1..max_batch_size :
          /\ n <= Len(data) /\ batch' = SubSeq(data, 1, n)
          /\ data' = SubSeq(data, n + 1, Len(data))
    BY <1>14 DEF Agent!Collect
  <2>2. batch = <<>> /\ UNCHANGED <<via, sent, internal, commands>>
    BY <1>14 DEF Agent!Collect, Agent!app
  <2>3. n \in 1..Len(data) /\ n \in Nat
    BY <1>4, <2>1 DEF LinksAssumption
  <2>4. PartOf(data', data, n)
    BY <1>4, <2>1, <2>3, Cut DEF PartOf
  <2>5. /\ Len(batch') = n /\ \A i \in 1..n : batch'[i] = data[i]
    BY <1>4, <2>1, <2>3
  <2>6. Pipeline(via, sent, batch', data', Carried(internal), Carried(commands))
    <3>1. n <= Len(data) /\ Len(batch') = n /\ \A i \in 1..n : batch'[i] = data[i]
      BY <2>1, <2>5
    <3> QED
      BY <1>4, <1>5, <2>3, <2>4, <3>1, CollectingKeepsOrder
  <2> QED
    BY <2>2, <2>6
<1>15. CASE Agent!SendNext
  <2>1. /\ batch # <<>> /\ batch' = Tail(batch) /\ sent' = Append(sent, Head(batch))
        /\ UNCHANGED <<via, data, internal, commands>>
    BY <1>15 DEF Agent!SendNext, Agent!channels, Agent!app
  <2>2. PartOf(batch', batch, 1) /\ Head(batch) = batch[1] /\ Head(batch) \in Nat
    BY <1>4, <2>1, HeadTaken
  <2>3. Followed(sent', sent, batch[1])
    BY <1>4, <2>1, <2>2, Sent
  <2>4. Pipeline(via, sent', batch', data, Carried(internal), Carried(commands))
    BY <1>4, <1>5, <2>1, <2>2, <2>3, SendingKeepsOrder
  <2> QED
    BY <2>1, <2>4
<1>16. CASE Agent!SendFails \/ Agent!DataStops
  <2>1. UNCHANGED <<via, sent, data, internal, commands>>
    BY <1>16 DEF Agent!SendFails, Agent!DataStops, Agent!channels, Agent!app
  <2>2. (batch # <<>> /\ batch' = Tail(batch)) \/ batch' = <<>>
    BY <1>16 DEF Agent!SendFails, Agent!DataStops
  <2>3. PartOf(batch', batch, 1) \/ PartOf(batch', batch, 0)
    <3>1. CASE batch # <<>> /\ batch' = Tail(batch)
      BY <1>4, <3>1, HeadTaken
    <3>2. CASE batch' = <<>>
      BY <1>4, <3>2 DEF PartOf
    <3> QED
      BY <2>2, <3>1, <3>2
  <2>4. Pipeline(via, sent, batch', data, Carried(internal), Carried(commands))
    BY <1>4, <1>5, <1>6, <2>3, PipelineShrinks
  <2> QED
    BY <2>1, <2>4
<1>17. CASE Agent!DropSender \/ Agent!ConnectionEnds \/ Agent!CommandsEnd \/ Agent!ReceiveStops
  <2>1. UNCHANGED <<via, sent, batch, data, internal, commands>>
    BY <1>17 DEF Agent!DropSender, Agent!ConnectionEnds, Agent!CommandsEnd, Agent!ReceiveStops,
                 Agent!channels, Agent!app
  <2> QED
    BY <1>8, <2>1
<1> QED
  BY <1>9, <1>10, <1>11, <1>12, <1>13, <1>14, <1>15, <1>16, <1>17 DEF Agent!Next

(* A packet was tried: the counter of its outcome moves, and that of the    *)
(* batches with the last packet of a batch.                                 *)
LEMMA Counted ==
  ASSUME ActorInv, ActorTypes', NEW field \in {"packets_sent", "error_count"},
         batch # <<>>, batch' = Tail(batch), Agent!Count(field),
         Agent!Running("data_pipeline"), UNCHANGED <<batch_size, tasks>>
  PROVE  CountersInv'
<1> DEFINE sentNow == stats.packets_sent
           failedNow == stats.error_count
           total == stats.total_batch_packets
<1>1. /\ stats \in [packets_sent : Nat, error_count : Nat, total_batch_packets : Nat]
      /\ batch_size \in Nat /\ Len(batch) <= batch_size
      /\ sentNow + failedNow = total + (batch_size - Len(batch))
  BY DEF ActorInv, CountersInv
<1>2. sentNow \in Nat /\ failedNow \in Nat /\ total \in Nat
  BY <1>1
<1>3. Len(batch) \in Nat \ {0} /\ Len(batch') = Len(batch) - 1
  BY HeadTaken DEF ActorInv, ActorTypes
<1>4. batch' = <<>> <=> Len(batch) = 1
  <2>1. batch' \in Seq(Agent!Packets)
    BY DEF ActorTypes
  <2>2. ASSUME NEW S, NEW s \in Seq(S) PROVE s = <<>> <=> Len(s) = 0
    OBVIOUS
  <2>3. batch' = <<>> <=> Len(batch') = 0
    BY <2>1, <2>2
  <2> QED
    BY <2>3, <1>3
<1>5. stats' = [stats EXCEPT ![field] = @ + 1,
                             !.total_batch_packets = IF Len(batch) = 1 THEN @ + batch_size ELSE @]
  BY DEF Agent!Count
<1>6. stats'.total_batch_packets = IF Len(batch) = 1 THEN total + batch_size ELSE total
  BY <1>1, <1>5
<1>7. /\ stats'.packets_sent \in Nat /\ stats'.error_count \in Nat
      /\ stats'.packets_sent + stats'.error_count = sentNow + failedNow + 1
  <2>1. CASE field = "packets_sent"
    <3>1. stats'.packets_sent = sentNow + 1 /\ stats'.error_count = failedNow
      BY <1>1, <1>5, <2>1
    <3> QED
      BY <3>1, <1>2
  <2>2. CASE field = "error_count"
    <3>1. stats'.packets_sent = sentNow /\ stats'.error_count = failedNow + 1
      BY <1>1, <1>5, <2>2
    <3> QED
      BY <3>1, <1>2
  <2> QED
    BY <2>1, <2>2
<1>8. stats'.total_batch_packets \in Nat
  BY <1>1, <1>2, <1>6
<1>9. stats' \in [packets_sent : Nat, error_count : Nat, total_batch_packets : Nat]
  <2>1. stats' = [[stats EXCEPT ![field] = stats'[field]]
                    EXCEPT !.total_batch_packets = stats'.total_batch_packets]
    BY <1>1, <1>5
  <2>2. stats'[field] \in Nat
    BY <1>7
  <2> QED
    BY <1>1, <1>8, <2>1, <2>2
<1>10. stats'.packets_sent + stats'.error_count
         = stats'.total_batch_packets + (IF batch' = <<>> THEN 0 ELSE batch_size - Len(batch'))
  <2>1. CASE Len(batch) = 1
    <3>1. batch' = <<>> /\ stats'.total_batch_packets = total + batch_size
      BY <1>4, <1>6, <2>1
    <3>2. sentNow + failedNow + 1 = total + batch_size
      BY <1>1, <1>2, <2>1
    <3>3. stats'.packets_sent + stats'.error_count = total + batch_size
      BY <1>7, <3>2
    <3>4. total + batch_size = stats'.total_batch_packets + 0
      BY <1>1, <1>2, <3>1
    <3> QED
      BY <3>1, <3>3, <3>4
  <2>2. CASE Len(batch) # 1
    <3>1. batch' # <<>> /\ stats'.total_batch_packets = total
      BY <1>4, <1>6, <2>2
    <3>2. sentNow + failedNow + 1 = total + (batch_size - Len(batch'))
      BY <1>1, <1>2, <1>3
    <3>3. stats'.packets_sent + stats'.error_count = total + (batch_size - Len(batch'))
      BY <1>7, <3>2
    <3> QED
      BY <3>1, <3>3
  <2> QED
    BY <2>1, <2>2
<1>11. batch_size' \in Nat /\ Len(batch') <= batch_size' /\ Agent!Running("data_pipeline")'
  BY <1>1, <1>3 DEF Agent!Running
<1> QED
  BY <1>9, <1>10, <1>11 DEF CountersInv

LEMMA ActorCountersKept ==
  ASSUME LinksAssumption, ActorInv, ActorTypes', Agent!Next
  PROVE  CountersInv'
<1>1. CountersInv /\ tasks \in [Agent!Tasks -> {"running", "ended"}]
  BY DEF ActorInv, Agent!TypeOK
<1>2. ASSUME UNCHANGED <<batch, batch_size, stats>>,
             tasks'["data_pipeline"] = tasks["data_pipeline"]
      PROVE  CountersInv'
  BY <1>1, <1>2 DEF CountersInv, Agent!Running
<1>3. ASSUME NEW t \in Agent!Tasks \ {"data_pipeline"}, Agent!End(t)
      PROVE  tasks'["data_pipeline"] = tasks["data_pipeline"]
  BY <1>1, <1>3 DEF Agent!End, Agent!Tasks
<1>4. CASE Agent!Submit \/ Agent!SubmitOther \/ Agent!Push \/ Agent!DropSender
             \/ Agent!ConnectionEnds \/ Agent!ForwardPacket
  <2>1. UNCHANGED <<batch, batch_size, stats, tasks>>
    BY <1>4 DEF Agent!Submit, Agent!SubmitOther, Agent!Push, Agent!DropSender,
                Agent!ConnectionEnds, Agent!ForwardPacket
  <2> QED
    BY <2>1, <1>2
<1>5. CASE Agent!Forward
  <2> DEFINE c == Head(commands)
  <2>1. UNCHANGED <<batch, batch_size, stats>>
    BY <1>5 DEF Agent!Forward
  <2>2. UNCHANGED tasks \/ Agent!End("command_adapter")
    <3>1. CASE c.kind = "send" /\ Agent!Running("command_pipeline")
      BY <1>5, <3>1 DEF Agent!Forward
    <3>2. CASE c.kind = "send" /\ ~Agent!Running("command_pipeline")
      BY <1>5, <3>2 DEF Agent!Forward
    <3>3. CASE c.kind = "close"
      BY <1>5, <3>3 DEF Agent!Forward
    <3>4. CASE c.kind # "send" /\ c.kind # "close"
      BY <1>5, <3>4 DEF Agent!Forward
    <3> QED
      BY <3>1, <3>2, <3>3, <3>4
  <2>3. "command_adapter" \in Agent!Tasks \ {"data_pipeline"}
    BY DEF Agent!Tasks
  <2> QED
    BY <2>1, <2>2, <2>3, <1>2, <1>3
<1>6. CASE Agent!CommandsEnd \/ Agent!Stop \/ Agent!ReceiveStops
  <2>1. UNCHANGED <<batch, batch_size, stats>>
    BY <1>6 DEF Agent!CommandsEnd, Agent!Stop, Agent!ReceiveStops
  <2>2. PICK t \in {"command_adapter", "command_pipeline", "receive_pipeline"} : Agent!End(t)
    BY <1>6 DEF Agent!CommandsEnd, Agent!Stop, Agent!ReceiveStops
  <2>3. t \in Agent!Tasks \ {"data_pipeline"}
    BY DEF Agent!Tasks
  <2> QED
    BY <2>1, <2>2, <2>3, <1>2, <1>3
<1>7. CASE Agent!Collect
  <2>1. PICK n \in 1..max_batch_size :
          /\ n <= Len(data) /\ batch' = SubSeq(data, 1, n) /\ batch_size' = n
    BY <1>7 DEF Agent!Collect
  <2>2. /\ batch = <<>> /\ UNCHANGED <<stats, tasks>> /\ Agent!Running("data_pipeline")
    BY <1>7 DEF Agent!Collect
  <2>3. n \in Nat /\ n > 0 /\ Len(batch') = n /\ batch' # <<>>
    <3>1. n \in 1..Len(data) /\ data \in Seq(Agent!Packets)
      BY <2>1 DEF LinksAssumption, ActorInv, ActorTypes
    <3>2. Len(SubSeq(data, 1, n)) = n /\ SubSeq(data, 1, n) # <<>>
      BY <3>1
    <3> QED
      BY <2>1, <3>1, <3>2
  <2>4. Agent!Running("data_pipeline")'
    BY <2>2 DEF Agent!Running
  <2>5. /\ stats \in [packets_sent : Nat, error_count : Nat, total_batch_packets : Nat]
        /\ stats.packets_sent + stats.error_count = stats.total_batch_packets
    BY <1>1, <2>2 DEF CountersInv
  <2>6. stats'.packets_sent + stats'.error_count
          = stats'.total_batch_packets + (batch_size' - Len(batch'))
    BY <2>1, <2>2, <2>3, <2>5
  <2> QED
    BY <2>1, <2>2, <2>3, <2>4, <2>5, <2>6 DEF CountersInv
<1>8. CASE Agent!SendNext
  <2>1. /\ batch # <<>> /\ batch' = Tail(batch) /\ Agent!Count("packets_sent")
        /\ Agent!Running("data_pipeline") /\ UNCHANGED <<batch_size, tasks>>
    BY <1>8 DEF Agent!SendNext
  <2> QED
    BY <2>1, Counted
<1>9. CASE Agent!SendFails
  <2>1. /\ batch # <<>> /\ batch' = Tail(batch) /\ Agent!Count("error_count")
        /\ Agent!Running("data_pipeline") /\ UNCHANGED <<batch_size, tasks>>
    BY <1>9 DEF Agent!SendFails
  <2> QED
    BY <2>1, Counted
<1>10. CASE Agent!DataStops
  <2>1. /\ batch # <<>> /\ batch' = <<>> /\ Agent!Running("data_pipeline")
        /\ Agent!End("data_pipeline") /\ UNCHANGED batch_size
    BY <1>10 DEF Agent!DataStops
  <2>2. PICK errors \in 0..1 : stats' = [stats EXCEPT !.error_count = @ + errors]
    BY <1>10 DEF Agent!DataStops
  <2>3. /\ stats \in [packets_sent : Nat, error_count : Nat, total_batch_packets : Nat]
        /\ batch_size \in Nat /\ Len(batch) <= batch_size
        /\ stats.packets_sent + stats.error_count
             = stats.total_batch_packets + (batch_size - Len(batch))
    BY <1>1, <2>1 DEF CountersInv
  <2>4. Len(batch) \in Nat
    BY DEF ActorInv, ActorTypes
  <2>5. /\ stats' \in [packets_sent : Nat, error_count : Nat, total_batch_packets : Nat]
        /\ stats'.packets_sent = stats.packets_sent
        /\ stats'.error_count = stats.error_count + errors
        /\ stats'.total_batch_packets = stats.total_batch_packets
    <3>1. errors \in Nat /\ stats.error_count + errors \in Nat
      BY <2>2, <2>3
    <3> QED
      BY <2>2, <2>3, <3>1
  <2>6. stats'.packets_sent + stats'.error_count >= stats'.total_batch_packets
    <3>1. /\ stats.packets_sent \in Nat /\ stats.error_count \in Nat
          /\ stats.total_batch_packets \in Nat /\ errors \in Nat
      BY <2>2, <2>3
    <3>2. stats.packets_sent + stats.error_count >= stats.total_batch_packets
      BY <2>3, <2>4, <3>1
    <3>3. stats.packets_sent + (stats.error_count + errors) >= stats.total_batch_packets
      BY <3>1, <3>2
    <3> QED
      BY <2>5, <3>3
  <2>7. ~Agent!Running("data_pipeline")'
    BY <1>1, <2>1 DEF Agent!End, Agent!Running, Agent!Tasks
  <2>8. Len(<<>>) = 0
    OBVIOUS
  <2>9. batch_size' \in Nat /\ Len(batch') <= batch_size'
    BY <2>1, <2>3, <2>8
  <2> QED
    BY <2>1, <2>5, <2>6, <2>7, <2>9 DEF CountersInv
<1> QED
  BY <1>4, <1>5, <1>6, <1>7, <1>8, <1>9, <1>10 DEF Agent!Next

LEMMA ActorClosedKept ==
  ASSUME ActorInv, Agent!Next
  PROVE  ClosedInv'
<1>1. ClosedInv /\ tasks \in [Agent!Tasks -> {"running", "ended"}]
  BY DEF ActorInv, Agent!TypeOK
<1>2. ASSUME UNCHANGED closed, tasks'["command_pipeline"] = tasks["command_pipeline"]
      PROVE  ClosedInv'
  BY <1>1, <1>2 DEF ClosedInv, Agent!Running
<1>3. ASSUME NEW t \in Agent!Tasks \ {"command_pipeline"}, Agent!End(t)
      PROVE  tasks'["command_pipeline"] = tasks["command_pipeline"]
  BY <1>1, <1>3 DEF Agent!End, Agent!Tasks
<1>4. CASE Agent!Submit \/ Agent!SubmitOther \/ Agent!Push \/ Agent!DropSender
             \/ Agent!ConnectionEnds \/ Agent!ForwardPacket \/ Agent!Collect
             \/ Agent!SendNext \/ Agent!SendFails
  <2>1. UNCHANGED <<closed, tasks>>
    BY <1>4 DEF Agent!Submit, Agent!SubmitOther, Agent!Push, Agent!DropSender,
                Agent!ConnectionEnds, Agent!ForwardPacket, Agent!Collect, Agent!SendNext,
                Agent!SendFails
  <2> QED
    BY <2>1, <1>2
<1>5. CASE Agent!Forward
  <2> DEFINE c == Head(commands)
  <2>1. UNCHANGED closed
    BY <1>5 DEF Agent!Forward
  <2>2. UNCHANGED tasks \/ Agent!End("command_adapter")
    <3>1. CASE c.kind = "send" /\ Agent!Running("command_pipeline")
      BY <1>5, <3>1 DEF Agent!Forward
    <3>2. CASE c.kind = "send" /\ ~Agent!Running("command_pipeline")
      BY <1>5, <3>2 DEF Agent!Forward
    <3>3. CASE c.kind = "close"
      BY <1>5, <3>3 DEF Agent!Forward
    <3>4. CASE c.kind # "send" /\ c.kind # "close"
      BY <1>5, <3>4 DEF Agent!Forward
    <3> QED
      BY <3>1, <3>2, <3>3, <3>4
  <2>3. "command_adapter" \in Agent!Tasks \ {"command_pipeline"}
    BY DEF Agent!Tasks
  <2> QED
    BY <2>1, <2>2, <2>3, <1>2, <1>3
<1>6. CASE Agent!CommandsEnd \/ Agent!DataStops \/ Agent!ReceiveStops
  <2>1. UNCHANGED closed
    BY <1>6 DEF Agent!CommandsEnd, Agent!DataStops, Agent!ReceiveStops
  <2>2. PICK t \in {"command_adapter", "data_pipeline", "receive_pipeline"} : Agent!End(t)
    BY <1>6 DEF Agent!CommandsEnd, Agent!DataStops, Agent!ReceiveStops
  <2>3. t \in Agent!Tasks \ {"command_pipeline"}
    BY DEF Agent!Tasks
  <2> QED
    BY <2>1, <2>2, <2>3, <1>2, <1>3
<1>7. CASE Agent!Stop
  BY <1>1, <1>7 DEF Agent!Stop, Agent!End, Agent!Running, Agent!Tasks, ClosedInv
<1> QED
  BY <1>4, <1>5, <1>6, <1>7 DEF Agent!Next

LEMMA ActorStays ==
  ASSUME ActorInv, UNCHANGED actorVars
  PROVE  ActorInv'
<1>1. Agent!TypeOK' /\ ActorTypes'
  BY DEF actorVars, ActorInv, Agent!TypeOK, ActorTypes
<1>2. PipelineInv'
  BY DEF actorVars, ActorInv, PipelineInv, Carried
<1>3. CountersInv' /\ ClosedInv'
  BY DEF actorVars, ActorInv, CountersInv, ClosedInv, Agent!Running
<1> QED
  BY <1>1, <1>2, <1>3 DEF ActorInv

LEMMA ActorKept ==
  ASSUME LinksAssumption, ActorInv, Agent!Next
  PROVE  ActorInv'
<1>1. Agent!TypeOK' /\ ActorTypes'
  BY ActorTypesKept
<1>2. PipelineInv'
  BY <1>1, ActorPipelineKept
<1>3. CountersInv' /\ ClosedInv'
  BY <1>1, ActorCountersKept, ActorClosedKept
<1> QED
  BY <1>1, <1>2, <1>3 DEF ActorInv

(* What the invariant says of the packets that were sent and of the counters *)
(* is what the run checks.                                                   *)
LEMMA ActorPromises ==
  ASSUME ActorInv
  PROVE  Agent!OrderKept /\ Agent!CountersAgree
<1>1. Agent!OrderKept
  <2>1. /\ Sorted(via, sent) /\ \A i \in 1..Len(sent) : sent[i] \in 1..Len(via)
        /\ sent \in Seq(Agent!Packets) /\ via \in Seq({"command", "data"})
    BY DEF ActorInv, PipelineInv, Pipeline, Agent!TypeOK
  <2>2. DOMAIN sent = 1..Len(sent) /\ Len(via) \in Nat
    BY <2>1
  <2>3. \A i \in 1..Len(sent) : sent[i] # 0
    BY <2>1, <2>2
  <2> QED
    BY <2>1, <2>2, <2>3 DEF Agent!OrderKept, Sorted, Older
<1>2. Agent!CountersAgree
  BY DEF ActorInv, CountersInv, Agent!CountersAgree
<1> QED
  BY <1>1, <1>2

-----------------------------------------------------------------------------
(* LockFreeConnection                                                      *)

(* The queue holds calls in the order they were made, the worker serves an  *)
(* older one, and none of them has been answered.  A worker that has ended  *)
(* leaves no queue behind.                                                  *)
CallQueueInv ==
  /\ \A i, j \in 1..Len(queue) : i < j => queue[i] < queue[j]
  /\ \A i \in 1..Len(queue) : queue[i] <= Len(asked) /\ answer[queue[i]] = "pending"
  /\ worker = "work" =>
       /\ command \in 1..Len(asked) /\ answer[command] = "pending"
       /\ \A i \in 1..Len(queue) : command < queue[i]
  /\ worker # "work" => command = Connection!NoCall
  /\ worker = "ended" => queue = <<>>
  /\ \A c \in Connection!Calls : c > Len(asked) => answer[c] = "pending"

(* What was written is older than what waits.                               *)
CallsWrittenInv ==
  /\ \A i \in 1..Len(written) :
       /\ written[i] <= Len(asked)
       /\ \A j \in 1..Len(queue) : written[i] < queue[j]
       /\ worker = "work" => written[i] < command
  /\ \A i, j \in 1..Len(written) : i < j => written[i] < written[j]
  /\ \A c \in 1..Len(asked) :
       asked[c] = "send" /\ answer[c] = "ok" => \E i \in 1..Len(written) : written[i] = c

(* A close that returned Ok was the last thing the worker did.              *)
CallsCloseInv ==
  /\ closedEvents # 0 => worker = "ended"
  /\ \A h \in Handles : call[h] <= Len(asked)
  /\ \A c \in 1..Len(asked) : asked[c] = "close" /\ answer[c] = "ok" => ~link /\ worker = "ended"
  /\ Connection!FalseMeansClosed

ConnectionInv == Connection!TypeOK /\ CallQueueInv /\ CallsWrittenInv /\ CallsCloseInv

-----------------------------------------------------------------------------
(* Sequences                                                               *)

LEMMA CallAppended ==
  ASSUME NEW S, NEW s \in Seq(S), NEW e \in S
  PROVE  /\ Append(s, e) \in Seq(S) /\ Len(Append(s, e)) = Len(s) + 1
         /\ Append(s, e)[Len(s) + 1] = e
         /\ \A i \in 1..Len(s) : Append(s, e)[i] = s[i]
  OBVIOUS

LEMMA CallDequeued ==
  ASSUME NEW S, NEW s \in Seq(S), s # <<>>
  PROVE  /\ Head(s) = s[1] /\ Head(s) \in S /\ Len(s) >= 1
         /\ Tail(s) \in Seq(S) /\ Len(Tail(s)) = Len(s) - 1
         /\ \A i \in 1..Len(Tail(s)) : Tail(s)[i] = s[i + 1]
  OBVIOUS

-----------------------------------------------------------------------------
(* Type correctness                                                        *)

LEMMA ConnectionTypeInit == ASSUME MaxCalls \in Nat, Connection!Init PROVE Connection!TypeOK
  BY DEF Connection!Init, Connection!TypeOK, Connection!NoCall

LEMMA CommandServed ==
  ASSUME MaxCalls \in Nat, ConnectionInv, worker = "work"
  PROVE  command \in Connection!Calls /\ command \in 1..Len(asked) /\ closedEvents = 0
<1>1. command \in 1..Len(asked) /\ closedEvents \in 0..1 /\ (closedEvents # 0 => worker = "ended")
  BY DEF ConnectionInv, Connection!TypeOK, CallQueueInv, CallsCloseInv
<1>2. closedEvents = 0
  BY <1>1
<1>3. Len(asked) \in Nat /\ Len(asked) <= MaxCalls
  BY DEF ConnectionInv, Connection!TypeOK
<1> QED
  BY <1>1, <1>2, <1>3 DEF Connection!Calls

LEMMA WorkerEnded ==
  ASSUME Connection!TypeOK, command \in Connection!Calls, NEW what \in {"ok", "error"},
         Connection!ReplyAndEnd(what)
  PROVE  /\ answer' \in [Connection!Calls -> {"pending", "ok", "error", "dropped"}]
         /\ answer'[command] = what
         /\ \A c \in Connection!Calls \ {command} : answer'[c] \in {answer[c], "dropped"}
  BY DEF Connection!TypeOK, Connection!ReplyAndEnd

\* At most one caller is in the slot of the worker's thread.
LEMMA AtMostOneBound ==
  ASSUME Connection!TypeOK, NEW what, Connection!Reply(what)
  PROVE  bound' = {} \/ \E h \in Handles : bound' = {h}
<1>1. bound' = bound \/ \E h \in Handles : bound' = {h}
  BY DEF Connection!Reply, Connection!Awaiting
<1>2. bound = {} \/ \E h \in Handles : bound = {h}
  BY DEF Connection!TypeOK
<1> QED
  BY <1>1, <1>2

LEMMA ConnectionTypeStep ==
  ASSUME MaxCalls \in Nat, ConnectionInv, [Connection!Next]_connectionVars
  PROVE  Connection!TypeOK'
<1> USE DEF ConnectionInv, Connection!TypeOK, Connection!workerVars, Connection!callVars,
            Connection!Calls, Connection!NoCall
<1>1. ASSUME NEW h \in Handles, NEW k \in Connection!Kinds, Connection!Call(h, k)
      PROVE  Connection!TypeOK'
  <2>1. Len(asked) + 1 \in Connection!Calls
    BY <1>1 DEF Connection!Call
  <2>2. /\ asked' \in Seq(Connection!Kinds) /\ Len(asked') <= MaxCalls
        /\ queue' \in Seq(Connection!Calls)
    BY <1>1, <2>1, CallAppended DEF Connection!Call
  <2> QED
    BY <1>1, <2>1, <2>2 DEF Connection!Call
<1>2. ASSUME NEW h \in Handles,
             Connection!Return(h) \/ Connection!Cancel(h) \/ Connection!DropHandle(h)
      PROVE  Connection!TypeOK'
  BY <1>2 DEF Connection!Return, Connection!Cancel, Connection!DropHandle
<1>3. ASSUME NEW h \in Handles, NEW g \in Handles, Connection!CloneHandle(h, g)
      PROVE  Connection!TypeOK'
  BY <1>3 DEF Connection!CloneHandle
<1>4. CASE Connection!Start \/ Connection!WorkerDone \/ Connection!LinkFails \/ Connection!Displace
  BY <1>4 DEF Connection!Start, Connection!WorkerDone, Connection!LinkFails, Connection!Displace
<1>5. CASE Connection!Receive
  <2>1. Head(queue) \in Connection!Calls /\ Tail(queue) \in Seq(Connection!Calls)
    BY <1>5, CallDequeued DEF Connection!Receive
  <2> QED
    BY <1>5, <2>1 DEF Connection!Receive
<1>6. CASE Connection!Send
  <2>1. command \in Connection!Calls
    BY <1>6, CommandServed DEF Connection!Send, Connection!Serving
  <2>2. written' \in {written, Append(written, command)}
    BY <1>6 DEF Connection!Send
  <2>4. written' \in Seq(Connection!Calls)
    <3>1. Append(written, command) \in Seq(Connection!Calls)
      BY <2>1, CallAppended
    <3> QED
      BY <2>2, <3>1
  <2>3. PICK what \in {"ok", "error"} : Connection!Reply(what)
    BY <1>6 DEF Connection!Send
  <2>5. bound' = {} \/ \E h \in Handles : bound' = {h}
    BY <2>3, AtMostOneBound
  <2>6. UNCHANGED <<asked, call, connectedFlags, reported, link, closedEvents>>
    BY <1>6 DEF Connection!Send
  <2>7. /\ answer' \in [Connection!Calls -> {"pending", "ok", "error", "dropped"}]
        /\ worker' = "recv" /\ command' = 0 /\ queue' = queue
    BY <2>1, <2>3 DEF Connection!Reply
  <2> QED
    BY <2>4, <2>5, <2>6, <2>7
<1>7. CASE Connection!Flush \/ Connection!CloseFails
  <2>1. PICK what \in {"ok", "error"} : Connection!Reply(what)
    BY <1>7 DEF Connection!Flush, Connection!CloseFails
  <2>2. bound' = {} \/ \E h \in Handles : bound' = {h}
    BY <2>1, AtMostOneBound
  <2>3. UNCHANGED <<asked, call, connectedFlags, reported, link, closedEvents, written>>
    BY <1>7 DEF Connection!Flush, Connection!CloseFails
  <2>4. /\ answer' \in [Connection!Calls -> {"pending", "ok", "error", "dropped"}]
        /\ worker' = "recv" /\ command' = 0 /\ queue' = queue
    BY <2>1 DEF Connection!Reply
  <2> QED
    BY <2>2, <2>3, <2>4
<1>8. CASE Connection!CloseOk \/ Connection!CloseTimeout
  <2>1. command \in Connection!Calls /\ closedEvents = 0
    BY <1>8, CommandServed DEF Connection!CloseOk, Connection!CloseTimeout, Connection!Serving
  <2>2. PICK what \in {"ok", "error"} : Connection!ReplyAndEnd(what)
    BY <1>8 DEF Connection!CloseOk, Connection!CloseTimeout
  <2>3. answer' \in [Connection!Calls -> {"pending", "ok", "error", "dropped"}]
    BY <2>1, <2>2, WorkerEnded
  <2>4. /\ queue' \in Seq(Connection!Calls) /\ command' = Connection!NoCall /\ worker' = "ended"
        /\ bound' = {}
    BY <2>2 DEF Connection!ReplyAndEnd
  <2>5. UNCHANGED <<asked, call, connectedFlags, reported, written>>
    BY <1>8 DEF Connection!CloseOk, Connection!CloseTimeout
  <2>7. closedEvents' = closedEvents + 1 \/ closedEvents' = closedEvents
    BY <1>8 DEF Connection!CloseOk, Connection!CloseTimeout
  <2>8. closedEvents' \in 0..1
    BY <2>1, <2>7
  <2>6. link' \in BOOLEAN
    BY <1>8 DEF Connection!CloseOk, Connection!CloseTimeout
  <2> QED
    BY <2>3, <2>4, <2>5, <2>6, <2>8
<1>9. CASE UNCHANGED connectionVars
  BY <1>9 DEF connectionVars
<1> QED
  BY <1>1, <1>2, <1>3, <1>4, <1>5, <1>6, <1>7, <1>8, <1>9 DEF Connection!Next, Connection!WorkerStep

-----------------------------------------------------------------------------
(* The order of commands                                                   *)

(* A step that leaves queue, calls and worker alone.                        *)
LEMMA CallQueueUntouched ==
  ASSUME CallQueueInv, UNCHANGED <<queue, asked, answer, command>>,
         worker' = worker \/ (worker # "work" /\ worker' # "work" /\ (worker' = "ended" => queue = <<>>))
  PROVE  CallQueueInv'
  BY DEF CallQueueInv, Connection!Calls

LEMMA CallQueueStep ==
  ASSUME MaxCalls \in Nat, ConnectionInv, [Connection!Next]_connectionVars
  PROVE  CallQueueInv'
<1>0. Connection!TypeOK /\ CallQueueInv
  BY DEF ConnectionInv
<1>1. ASSUME NEW h \in Handles, NEW k \in Connection!Kinds, Connection!Call(h, k)
      PROVE  CallQueueInv'
  <2>1. Len(asked) \in Nat /\ Len(asked) + 1 \in Connection!Calls
    BY <1>0, <1>1 DEF Connection!Call, Connection!TypeOK, Connection!Calls
  <2>2. /\ Len(asked') = Len(asked) + 1
        /\ Len(queue') = Len(queue) + 1 /\ queue'[Len(queue) + 1] = Len(asked) + 1
        /\ \A i \in 1..Len(queue) : queue'[i] = queue[i]
    BY <1>0, <1>1, <2>1, CallAppended DEF Connection!Call, Connection!TypeOK
  <2>3. /\ worker # "ended" /\ UNCHANGED <<worker, command, answer>>
        /\ Len(queue) \in Nat /\ \A i \in 1..Len(queue) : queue[i] \in Connection!Calls
    BY <1>0, <1>1 DEF Connection!Call, Connection!TypeOK
  <2>4. \A i \in 1..Len(queue') : i \in 1..Len(queue) \/ i = Len(queue) + 1
    BY <2>2, <2>3
  <2>5. \A i, j \in 1..Len(queue') : i < j => queue'[i] < queue'[j]
    BY <1>0, <2>1, <2>2, <2>3, <2>4 DEF CallQueueInv, Connection!Calls
  <2>6. \A i \in 1..Len(queue') : queue'[i] <= Len(asked') /\ answer[queue'[i]] = "pending"
    BY <1>0, <2>1, <2>2, <2>3, <2>4 DEF CallQueueInv, Connection!Calls
  <2>7. worker = "work" => /\ command \in 1..Len(asked') /\ answer[command] = "pending"
                           /\ \A i \in 1..Len(queue') : command < queue'[i]
    BY SMTT(20), <1>0, <2>1, <2>2, <2>3, <2>4 DEF CallQueueInv, Connection!Calls
  <2>8. \A c \in Connection!Calls : c > Len(asked') => answer[c] = "pending"
    BY <1>0, <2>1, <2>2 DEF CallQueueInv, Connection!Calls
  <2> QED
    BY <1>0, <2>3, <2>5, <2>6, <2>7, <2>8 DEF CallQueueInv
<1>2. CASE \/ \E h \in Handles : Connection!Return(h) \/ Connection!Cancel(h) \/ Connection!DropHandle(h)
           \/ \E h, g \in Handles : Connection!CloneHandle(h, g)
           \/ Connection!Start \/ Connection!WorkerDone \/ Connection!LinkFails \/ Connection!Displace
           \/ UNCHANGED connectionVars
  <2>1. /\ UNCHANGED <<queue, asked, answer, command>>
        /\ \/ worker' = worker
           \/ worker # "work" /\ worker' # "work" /\ (worker' = "ended" => queue = <<>>)
    BY <1>2 DEF Connection!Return, Connection!Cancel, Connection!DropHandle,
                Connection!CloneHandle, Connection!Start, Connection!WorkerDone,
                Connection!LinkFails, Connection!Displace, connectionVars,
                Connection!workerVars, Connection!callVars
  <2> QED
    BY <1>0, <2>1, CallQueueUntouched
<1>3. CASE Connection!Receive
  <2>1. /\ queue # <<>> /\ command' = Head(queue) /\ queue' = Tail(queue) /\ worker' = "work"
        /\ UNCHANGED <<asked, answer>>
    BY <1>3 DEF Connection!Receive, Connection!callVars
  <2>2. /\ queue \in Seq(Connection!Calls) /\ Len(queue) \in Nat /\ Len(queue) >= 1
        /\ command' = queue[1] /\ Len(queue') = Len(queue) - 1
        /\ \A i \in 1..Len(queue') : queue'[i] = queue[i + 1]
    BY <1>0, <2>1, CallDequeued DEF Connection!TypeOK
  <2>3. command' \in 1..Len(asked)
    BY <1>0, <2>2, 1 \in 1..Len(queue) DEF Connection!TypeOK, CallQueueInv, Connection!Calls
  <2> QED
    BY <1>0, <2>1, <2>2, <2>3 DEF CallQueueInv, Connection!Calls
<1>4. CASE Connection!Send \/ Connection!Flush \/ Connection!CloseFails
  <2>1. worker = "work" /\ UNCHANGED asked
    BY <1>4 DEF Connection!Send, Connection!Flush, Connection!CloseFails, Connection!Serving
  <2>2. PICK what \in {"ok", "error"} : Connection!Reply(what)
    BY <1>4 DEF Connection!Send, Connection!Flush, Connection!CloseFails
  <2>3. \A c \in Connection!Calls : c # command => answer'[c] = answer[c]
    BY <1>0, <2>2 DEF Connection!Reply, Connection!TypeOK
  <2>4. UNCHANGED queue /\ worker' = "recv" /\ command' = Connection!NoCall
    BY <2>2 DEF Connection!Reply
  <2>5. \A i \in 1..Len(queue) : queue[i] \in Connection!Calls
    BY <1>0 DEF Connection!TypeOK
  <2>6. /\ command \in 1..Len(asked)
        /\ \A i \in 1..Len(queue) : command < queue[i]
    BY <1>0, <2>1 DEF CallQueueInv
  <2> QED
    BY <1>0, <2>1, <2>3, <2>4, <2>5, <2>6 DEF CallQueueInv, Connection!Calls
<1>5. CASE Connection!CloseOk \/ Connection!CloseTimeout
  <2>1. worker = "work" /\ UNCHANGED asked
    BY <1>5 DEF Connection!CloseOk, Connection!CloseTimeout, Connection!Serving
  <2>2. PICK what \in {"ok", "error"} : Connection!ReplyAndEnd(what)
    BY <1>5 DEF Connection!CloseOk, Connection!CloseTimeout
  <2>3. command \in 1..Len(asked) /\ command \in Connection!Calls
    BY <2>1, CommandServed
  <2>4. queue' = <<>> /\ worker' = "ended" /\ command' = Connection!NoCall
    BY <2>2 DEF Connection!ReplyAndEnd
  <2>5. \A c \in Connection!Calls : c > Len(asked) => answer'[c] = "pending"
    <3> SUFFICES ASSUME NEW c \in Connection!Calls, c > Len(asked) PROVE answer'[c] = "pending"
      OBVIOUS
    <3>1. answer[c] = "pending" /\ c # command
      BY <1>0, <2>3 DEF CallQueueInv, Connection!Calls, Connection!TypeOK
    <3>2. ~Connection!Contains(queue, c)
      BY <1>0 DEF CallQueueInv, Connection!Contains, Connection!Calls, Connection!TypeOK
    <3> QED
      BY <2>2, <3>1, <3>2 DEF Connection!ReplyAndEnd
  <2>6. Len(queue') = 0
    BY <2>4
  <2> QED
    BY <2>1, <2>4, <2>5, <2>6 DEF CallQueueInv
<1> QED
  BY <1>1, <1>2, <1>3, <1>4, <1>5 DEF Connection!Next, Connection!WorkerStep

(* An answer other than Ok to the command, or Ok to a send that was written,*)
(* needs nothing more.                                                      *)
LEMMA CallsWrittenKept ==
  ASSUME MaxCalls \in Nat, Connection!TypeOK, CallsWrittenInv, UNCHANGED <<written, asked>>,
         Len(queue') <= Len(queue) /\ \A i \in 1..Len(queue') : queue'[i] = queue[i],
         worker' # "work" \/ UNCHANGED <<worker, command>>,
         \A c \in 1..Len(asked) : asked[c] = "send" /\ answer'[c] = "ok" => answer[c] = "ok"
  PROVE  CallsWrittenInv'
<1>1. Len(queue') \in Nat => \A i \in 1..Len(queue') : i \in 1..Len(queue)
  BY DEF Connection!TypeOK
<1> QED
  BY <1>1 DEF CallsWrittenInv, Connection!TypeOK

LEMMA CallsWrittenStep ==
  ASSUME MaxCalls \in Nat, ConnectionInv, [Connection!Next]_connectionVars
  PROVE  CallsWrittenInv'
<1>0. /\ Connection!TypeOK /\ CallQueueInv /\ CallsWrittenInv
      /\ Len(queue) \in Nat /\ \A i \in 1..Len(queue) : queue[i] \in Connection!Calls
      /\ Len(written) \in Nat /\ \A i \in 1..Len(written) : written[i] \in Connection!Calls
      /\ Len(asked) \in Nat
  BY DEF ConnectionInv, Connection!TypeOK
<1>1. ASSUME NEW h \in Handles, NEW k \in Connection!Kinds, Connection!Call(h, k)
      PROVE  CallsWrittenInv'
  <2>1. Len(asked) + 1 \in Connection!Calls
    BY <1>0, <1>1 DEF Connection!Call, Connection!Calls
  <2>2. /\ Len(asked') = Len(asked) + 1 /\ \A c \in 1..Len(asked) : asked'[c] = asked[c]
        /\ Len(queue') = Len(queue) + 1 /\ queue'[Len(queue) + 1] = Len(asked) + 1
        /\ \A i \in 1..Len(queue) : queue'[i] = queue[i]
        /\ UNCHANGED <<worker, command, answer, written>>
    BY <1>0, <1>1, <2>1, CallAppended DEF Connection!Call, Connection!TypeOK
  <2>3. \A i \in 1..Len(written) : /\ written[i] <= Len(asked')
                                   /\ worker = "work" => written[i] < command
    BY <1>0, <2>2 DEF CallsWrittenInv, Connection!Calls
  <2>4. \A i \in 1..Len(written) : \A j \in 1..Len(queue') : written[i] < queue'[j]
    BY <1>0, <2>2 DEF CallsWrittenInv, Connection!Calls
  <2>5. \A c \in 1..Len(asked') :
          asked'[c] = "send" /\ answer[c] = "ok" => \E i \in 1..Len(written) : written[i] = c
    <3>1. answer[Len(asked) + 1] = "pending"
      BY <1>0, <2>1 DEF CallQueueInv
    <3> QED
      BY <1>0, <2>2, <3>1 DEF CallsWrittenInv
  <2> QED
    BY <1>0, <2>2, <2>3, <2>4, <2>5 DEF CallsWrittenInv
<1>2. CASE \/ \E h \in Handles : Connection!Return(h) \/ Connection!Cancel(h) \/ Connection!DropHandle(h)
           \/ \E h, g \in Handles : Connection!CloneHandle(h, g)
           \/ Connection!Start \/ Connection!WorkerDone \/ Connection!LinkFails \/ Connection!Displace
           \/ UNCHANGED connectionVars
  <2>1. /\ UNCHANGED <<queue, asked, answer, written>>
        /\ worker' # "work" \/ UNCHANGED <<worker, command>>
    BY <1>2 DEF Connection!Return, Connection!Cancel, Connection!DropHandle,
                Connection!CloneHandle, Connection!Start, Connection!WorkerDone,
                Connection!LinkFails, Connection!Displace, connectionVars,
                Connection!workerVars, Connection!callVars
  <2>2. Len(queue') <= Len(queue) /\ \A i \in 1..Len(queue') : queue'[i] = queue[i]
    BY <1>0, <2>1
  <2> QED
    BY <1>0, <2>1, <2>2, CallsWrittenKept
<1>3. CASE Connection!Receive
  <2>1. /\ queue # <<>> /\ command' = Head(queue) /\ queue' = Tail(queue)
        /\ UNCHANGED <<asked, answer, written>>
    BY <1>3 DEF Connection!Receive, Connection!callVars
  <2>2. /\ Len(queue) >= 1
        /\ command' = queue[1] /\ Len(queue') = Len(queue) - 1
        /\ \A i \in 1..Len(queue') : queue'[i] = queue[i + 1]
    BY <1>0, <2>1, CallDequeued DEF Connection!TypeOK
  <2> QED
    BY <1>0, <2>1, <2>2 DEF CallsWrittenInv
<1>4. CASE Connection!Send
  <2>1. worker = "work" /\ UNCHANGED <<asked, queue>>
    BY <1>4 DEF Connection!Send, Connection!Serving, Connection!Reply
  <2>2. /\ command \in Connection!Calls /\ command \in 1..Len(asked)
        /\ answer \in [Connection!Calls -> {"pending", "ok", "error", "dropped"}]
    BY <1>0, <2>1, CommandServed DEF Connection!TypeOK
  <2>3. worker' = "recv" /\ \A c \in Connection!Calls : c # command => answer'[c] = answer[c]
    BY <1>4, <2>2 DEF Connection!Send, Connection!Reply
  <2>4. CASE UNCHANGED written /\ Connection!Reply("error")
    <3>1. answer'[command] = "error"
      BY <2>2, <2>4 DEF Connection!Reply
    <3>2. \A c \in 1..Len(asked) : c \in Connection!Calls
      BY <1>0 DEF Connection!TypeOK, Connection!Calls
    <3> QED
      BY <1>0, <2>1, <2>2, <2>3, <2>4, <3>1, <3>2, CallsWrittenKept
  <2>5. CASE written' = Append(written, command)
    <3>1. /\ Len(written') = Len(written) + 1 /\ written'[Len(written) + 1] = command
          /\ \A i \in 1..Len(written) : written'[i] = written[i]
      BY <1>0, <2>2, <2>5, CallAppended DEF Connection!TypeOK
    <3>2. \A i \in 1..Len(written') : i \in 1..Len(written) \/ i = Len(written) + 1
      BY <1>0, <3>1
    <3>3. \A i \in 1..Len(written') : /\ written'[i] <= Len(asked)
                                      /\ \A j \in 1..Len(queue) : written'[i] < queue[j]
      BY <1>0, <2>1, <2>2, <3>1, <3>2 DEF CallsWrittenInv, CallQueueInv
    <3>4. \A i, j \in 1..Len(written') : i < j => written'[i] < written'[j]
      BY <1>0, <2>1, <2>2, <3>1, <3>2 DEF CallsWrittenInv
    <3>5. \A c \in 1..Len(asked) :
            asked[c] = "send" /\ answer'[c] = "ok" => \E i \in 1..Len(written') : written'[i] = c
      <4> SUFFICES ASSUME NEW c \in 1..Len(asked), asked[c] = "send", answer'[c] = "ok"
                   PROVE  \E i \in 1..Len(written') : written'[i] = c
        OBVIOUS
      <4>1. CASE c = command
        BY <1>0, <3>1, <4>1
      <4>2. CASE c # command
        <5>1. c \in Connection!Calls /\ answer[c] = "ok"
          BY <1>0, <2>3, <4>2 DEF Connection!TypeOK, Connection!Calls
        <5>2. PICK i \in 1..Len(written) : written[i] = c
          BY <1>0, <5>1 DEF CallsWrittenInv
        <5> QED
          BY <1>0, <3>1, <5>2
      <4> QED
        BY <4>1, <4>2
    <3> QED
      BY <2>1, <2>3, <3>3, <3>4, <3>5 DEF CallsWrittenInv
  <2> QED
    BY <1>4, <2>4, <2>5 DEF Connection!Send
<1>5. CASE Connection!Flush \/ Connection!CloseFails
  <2>1. worker = "work" /\ UNCHANGED <<asked, queue,
  written>> /\ worker' = "recv" /\ asked[command] # "send"
    BY <1>5 DEF Connection!Flush, Connection!CloseFails, Connection!Serving, Connection!Reply
  <2>2. command \in Connection!Calls /\ answer \in [Connection!Calls -> {"pending", "ok", "error",
  "dropped"}]
    BY <1>0, <2>1, CommandServed DEF Connection!TypeOK
  <2>3. \A c \in Connection!Calls : c # command => answer'[c] = answer[c]
    BY <1>5, <2>2 DEF Connection!Flush, Connection!CloseFails, Connection!Reply
  <2>4. \A c \in 1..Len(asked) : c \in Connection!Calls
    BY <1>0 DEF Connection!TypeOK, Connection!Calls
  <2> QED
    BY <1>0, <2>1, <2>3, <2>4, CallsWrittenKept
<1>6. CASE Connection!CloseOk \/ Connection!CloseTimeout
  <2>1. worker = "work" /\ UNCHANGED <<asked, written>> /\ asked[command] # "send"
    BY <1>6 DEF Connection!CloseOk, Connection!CloseTimeout, Connection!Serving
  <2>2. PICK what \in {"ok", "error"} : Connection!ReplyAndEnd(what)
    BY <1>6 DEF Connection!CloseOk, Connection!CloseTimeout
  <2>3. command \in Connection!Calls
    BY <2>1, CommandServed
  <2>4. \A c \in Connection!Calls \ {command} : answer'[c] \in {answer[c], "dropped"}
    BY <1>0, <2>2, <2>3, WorkerEnded
  <2>5. queue' = <<>> /\ worker' = "ended"
    BY <2>2 DEF Connection!ReplyAndEnd
  <2>6. \A c \in 1..Len(asked) : c \in Connection!Calls
    BY <1>0 DEF Connection!TypeOK, Connection!Calls
  <2>7. Len(queue') <= Len(queue) /\ \A i \in 1..Len(queue') : queue'[i] = queue[i]
    BY <1>0, <2>5
  <2> QED
    BY <1>0, <2>1, <2>4, <2>5, <2>6, <2>7, CallsWrittenKept
<1> QED
  BY <1>1, <1>2, <1>3, <1>4, <1>5, <1>6 DEF Connection!Next, Connection!WorkerStep

-----------------------------------------------------------------------------
(* What a close leaves behind                                              *)

\* A worker that has ended and a connection that is closed stay so.
LEMMA WorkerEndStays ==
  ASSUME CallQueueInv, [Connection!Next]_connectionVars
  PROVE  (worker = "ended" => worker' = "ended") /\ (~link => ~link')
<1> USE DEF Connection!workerVars, Connection!callVars
<1>1. CASE \/ \E h \in Handles : Connection!Return(h) \/ Connection!Cancel(h) \/ Connection!DropHandle(h)
           \/ \E h \in Handles, k \in Connection!Kinds : Connection!Call(h, k)
           \/ \E h, g \in Handles : Connection!CloneHandle(h, g)
           \/ UNCHANGED connectionVars
  BY <1>1 DEF Connection!Return, Connection!Cancel, Connection!DropHandle, Connection!Call,
              Connection!CloneHandle, connectionVars
<1>2. CASE Connection!Start \/ Connection!Receive \/ Connection!WorkerDone \/ Connection!LinkFails \/ Connection!Displace
  BY <1>2 DEF Connection!Start, Connection!Receive, Connection!WorkerDone, Connection!LinkFails, Connection!Displace
<1>3. CASE Connection!Send \/ Connection!Flush \/ Connection!CloseFails
  BY <1>3 DEF Connection!Send, Connection!Flush, Connection!CloseFails, Connection!Serving
<1>4. CASE Connection!CloseOk \/ Connection!CloseTimeout
  <2>1. worker = "work"
    BY <1>4 DEF Connection!CloseOk, Connection!CloseTimeout, Connection!Serving
  <2>2. link' = link \/ link' = FALSE
    BY <1>4 DEF Connection!CloseOk, Connection!CloseTimeout
  <2> QED
    BY <2>1, <2>2
<1> QED
  BY <1>1, <1>2, <1>3, <1>4 DEF Connection!Next, Connection!WorkerStep

\* Only the worker answers calls, and Ok to a close once it has ended.
LEMMA AnswersStay ==
  ASSUME MaxCalls \in Nat, ConnectionInv, [Connection!Next]_connectionVars,
         NEW c \in 1..Len(asked), asked[c] = "close", answer'[c] = "ok"
  PROVE  answer[c] = "ok" \/ (~link' /\ worker' = "ended")
<1>0. Connection!TypeOK /\ c \in Connection!Calls
  BY DEF ConnectionInv, Connection!TypeOK, Connection!Calls
<1> USE DEF Connection!workerVars, Connection!callVars
<1>1. CASE UNCHANGED answer
  BY <1>1
<1>2. CASE Connection!Send \/ Connection!Flush \/ Connection!CloseFails
  <2>1. PICK what \in {"ok", "error"} :
          Connection!Reply(what) /\ worker = "work" /\ (asked[command] = "close" => what = "error")
    BY <1>2 DEF Connection!Send, Connection!Flush, Connection!CloseFails, Connection!Serving
  <2>2. command \in Connection!Calls
    BY <2>1, CommandServed
  <2> QED
    BY <1>0, <2>1, <2>2 DEF Connection!Reply, Connection!TypeOK
<1>3. CASE Connection!CloseOk \/ Connection!CloseTimeout
  <2>1. command \in Connection!Calls
    BY <1>3, CommandServed DEF Connection!CloseOk, Connection!CloseTimeout, Connection!Serving
  <2>2. CASE Connection!CloseOk
    BY <2>2 DEF Connection!CloseOk, Connection!ReplyAndEnd
  <2>3. CASE Connection!CloseTimeout
    BY <1>0, <2>1, <2>3, WorkerEnded DEF Connection!CloseTimeout
  <2> QED
    BY <1>3, <2>2, <2>3
<1> QED
  BY <1>1, <1>2, <1>3 DEF Connection!Next, Connection!WorkerStep, Connection!Return,
                          Connection!Cancel, Connection!DropHandle, Connection!Call,
                          Connection!CloneHandle, connectionVars,
                          Connection!Start, Connection!Receive, Connection!WorkerDone,
                          Connection!LinkFails, Connection!Displace

LEMMA CallsCloseStep ==
  ASSUME MaxCalls \in Nat, ConnectionInv, [Connection!Next]_connectionVars
  PROVE  CallsCloseInv'
<1>0. /\ Connection!TypeOK /\ CallQueueInv /\ CallsCloseInv /\ Connection!TypeOK'
      /\ (worker = "ended" => worker' = "ended") /\ (~link => ~link')
      /\ Len(asked) \in Nat
  BY ConnectionTypeStep, WorkerEndStays DEF ConnectionInv, Connection!TypeOK
<1>1. closedEvents' # 0 => worker' = "ended"
  <2>1. closedEvents' = closedEvents \/ (worker' = "ended")
    BY DEF Connection!Next, Connection!WorkerStep, Connection!Return, Connection!Cancel,
           Connection!DropHandle, Connection!Call, Connection!CloneHandle, connectionVars,
           Connection!Start, Connection!Receive,
           Connection!WorkerDone, Connection!LinkFails, Connection!Displace, Connection!Send, Connection!Flush,
           Connection!CloseFails, Connection!CloseOk, Connection!CloseTimeout,
           Connection!ReplyAndEnd
  <2> QED
    BY <1>0, <2>1 DEF CallsCloseInv
<1>2. /\ asked' = asked \/ \E k \in Connection!Kinds : asked' = Append(asked, k)
      /\ \A h \in Handles : call'[h] \in {call[h], Connection!NoCall, Len(asked')}
  <2>1. ASSUME NEW h \in Handles, NEW k \in Connection!Kinds, Connection!Call(h, k)
        PROVE  asked' = Append(asked, k) /\ \A g \in Handles : call'[g] \in {call[g], Len(asked')}
    BY <1>0, <2>1, CallAppended DEF Connection!Call, Connection!TypeOK
  <2>2. ASSUME NEW h \in Handles,
               Connection!Return(h) \/ Connection!Cancel(h) \/ Connection!DropHandle(h)
        PROVE  UNCHANGED asked /\ \A g \in Handles : call'[g] \in {call[g], Connection!NoCall}
    BY <1>0, <2>2 DEF Connection!Return, Connection!Cancel, Connection!DropHandle, Connection!TypeOK
  <2>3. CASE UNCHANGED <<asked, call>>
    BY <2>3
  <2> QED
    BY <2>1, <2>2, <2>3
    DEF Connection!Next, Connection!WorkerStep, Connection!CloneHandle, connectionVars,
        Connection!callVars, Connection!Start, Connection!Receive, Connection!WorkerDone,
        Connection!LinkFails, Connection!Displace, Connection!Send,
        Connection!Flush, Connection!CloseFails, Connection!CloseOk, Connection!CloseTimeout
<1>3. /\ Len(asked') \in Nat /\ Len(asked') >= Len(asked)
      /\ \A c \in 1..Len(asked) : asked'[c] = asked[c]
      /\ \A c \in 1..Len(asked') : c \in 1..Len(asked) \/ (c = Len(asked) + 1 /\ asked' # asked)
  <2>1. CASE asked' = asked
    BY <1>0, <2>1
  <2>2. ASSUME NEW k \in Connection!Kinds, asked' = Append(asked, k)
        PROVE  Len(asked') = Len(asked) + 1 /\ \A c \in 1..Len(asked) : asked'[c] = asked[c]
    BY <1>0, <2>2, CallAppended DEF Connection!TypeOK
  <2> QED
    BY <1>0, <1>2, <2>1, <2>2
<1>4. \A h \in Handles : call'[h] <= Len(asked')
  <2> SUFFICES ASSUME NEW h \in Handles PROVE call'[h] <= Len(asked')
    OBVIOUS
  <2>1. call[h] <= Len(asked) /\ call[h] \in Nat
    BY <1>0 DEF CallsCloseInv, Connection!TypeOK, Connection!Calls, Connection!NoCall
  <2>2. call'[h] \in {call[h], 0, Len(asked')}
    BY <1>2 DEF Connection!NoCall
  <2> QED
    BY <1>0, <1>3, <2>1, <2>2
<1>5. ASSUME NEW c \in 1..Len(asked'), asked'[c] = "close", answer'[c] = "ok"
      PROVE  ~link' /\ worker' = "ended"
  <2>1. CASE c \in 1..Len(asked)
    BY <1>0, <1>3, <1>5, <2>1, AnswersStay DEF CallsCloseInv
  <2>2. CASE asked' # asked /\ c = Len(asked) + 1
    <3>1. UNCHANGED answer
      BY <2>2 DEF Connection!Next, Connection!WorkerStep, Connection!Return, Connection!Cancel,
                  Connection!DropHandle, Connection!Call, Connection!CloneHandle, connectionVars,
                  Connection!callVars,
            Connection!Start, Connection!Receive, Connection!WorkerDone, Connection!LinkFails, Connection!Displace,
            Connection!Send, Connection!Flush, Connection!CloseFails, Connection!CloseOk,
            Connection!CloseTimeout
    <3>2. c \in Connection!Calls
      BY <1>0, <1>3, <2>2 DEF Connection!TypeOK, Connection!Calls
    <3>3. c > Len(asked)
      BY <1>0, <2>2
    <3>4. answer[c] = "pending"
      BY <1>0, <3>2, <3>3 DEF CallQueueInv
    <3> QED
      BY <1>5, <3>1, <3>4
  <2> QED
    BY <1>3, <2>1, <2>2
<1>r. reported' = reported
  BY DEF Connection!Next, Connection!WorkerStep, Connection!Return, Connection!Cancel,
         Connection!DropHandle, Connection!Call, Connection!CloneHandle, connectionVars,
         Connection!callVars, Connection!Start, Connection!Receive, Connection!WorkerDone,
         Connection!LinkFails, Connection!Displace, Connection!Send, Connection!Flush,
         Connection!CloseFails, Connection!CloseOk, Connection!CloseTimeout
<1>6. ASSUME NEW g \in Handles, connectedFlags'[g] = "false", reported
      PROVE  ~link' /\ worker' = "ended"
  <2>1. CASE \E h \in Handles : connectedFlags[h] = "false"
    <3>1. ~link /\ worker = "ended"
      BY <1>6, <2>1, <1>0 DEF CallsCloseInv, Connection!FalseMeansClosed
    <3> QED
      BY <1>0, <3>1
  <2>2. ASSUME NEW h \in Handles, Connection!Return(h), connectedFlags[g] # "false"
        PROVE  ~link' /\ worker' = "ended"
    <3>1. call[h] \in 1..Len(asked) /\ asked[call[h]] = "close" /\ answer[call[h]] = "ok"
      BY <1>0, <1>6, <2>2 DEF Connection!Return, Connection!TypeOK, CallsCloseInv,
                              Connection!Calls, Connection!NoCall
    <3> QED
      BY <1>0, <3>1 DEF CallsCloseInv
  <2>3. ASSUME NEW h \in Handles, NEW f \in Handles, Connection!CloneHandle(h, f)
        PROVE  connectedFlags[g] = "false" \/ connectedFlags[h] = "false"
    BY <1>0, <1>6, <2>3 DEF Connection!CloneHandle, Connection!TypeOK
  <2>4. ASSUME NEW h \in Handles, Connection!DropHandle(h)
        PROVE  connectedFlags[g] = "false"
    BY <1>0, <1>6, <2>4 DEF Connection!DropHandle, Connection!TypeOK
  <2> QED
    BY <1>6, <2>1, <2>2, <2>3, <2>4
    DEF Connection!Next, Connection!WorkerStep, Connection!Cancel, Connection!Call, connectionVars,
        Connection!callVars, Connection!Start, Connection!Receive, Connection!WorkerDone,
        Connection!LinkFails, Connection!Displace, Connection!Send,
        Connection!Flush, Connection!CloseFails, Connection!CloseOk, Connection!CloseTimeout
<1>7. ASSUME NEW g \in Handles, connectedFlags'[g] = "true" PROVE reported
  <2>1. CASE \E h \in Handles : connectedFlags[h] = "true"
    BY <1>0, <2>1 DEF CallsCloseInv, Connection!FalseMeansClosed
  <2>2. ASSUME NEW h \in Handles, Connection!Return(h) \/ Connection!DropHandle(h)
        PROVE  connectedFlags[g] = "true"
    BY <1>0, <1>7, <2>2 DEF Connection!Return, Connection!DropHandle, Connection!TypeOK
  <2>3. ASSUME NEW h \in Handles, NEW f \in Handles, Connection!CloneHandle(h, f)
        PROVE  connectedFlags[g] = "true" \/ connectedFlags[h] = "true"
    BY <1>0, <1>7, <2>3 DEF Connection!CloneHandle, Connection!TypeOK
  <2> QED
    BY <1>7, <2>1, <2>2, <2>3
    DEF Connection!Next, Connection!WorkerStep, Connection!Cancel, Connection!Call, connectionVars,
        Connection!callVars, Connection!Start, Connection!Receive, Connection!WorkerDone,
        Connection!LinkFails, Connection!Displace, Connection!Send,
        Connection!Flush, Connection!CloseFails, Connection!CloseOk, Connection!CloseTimeout
<1>8. Connection!FalseMeansClosed'
  BY <1>r, <1>6, <1>7 DEF Connection!FalseMeansClosed
<1> QED
  BY <1>1, <1>4, <1>5, <1>8 DEF CallsCloseInv

-----------------------------------------------------------------------------
(* Theorems                                                                *)

LEMMA ConnectionInitially == ASSUME MaxCalls \in Nat, Connection!Init PROVE ConnectionInv
<1>1. Connection!TypeOK
  BY ConnectionTypeInit
<1>2. CallQueueInv /\ CallsWrittenInv /\ CallsCloseInv
  BY DEF Connection!Init, CallQueueInv, CallsWrittenInv, CallsCloseInv,
         Connection!FalseMeansClosed, Connection!NoCall
<1> QED
  BY <1>1, <1>2 DEF ConnectionInv


-----------------------------------------------------------------------------
(* The four connections of MCLinks                                         *)

\* The theorems of two of them, about the variables of MCLinks.
LinkTheorems == INSTANCE AdapterLinkProofs WITH
  Kinds <- LinkKinds, Capacity <- LinkCapacity, MaxPackets <- LinkPackets,
  kind <- protocol, accepted <- queued, taken <- sending, wire <- line, delivered <- arrived

(* Both instances of AdapterLink say the same.                              *)
LEMMA LinkInstances ==
  /\ Link!Init => LinkTheorems!Init
  /\ Link!Next => LinkTheorems!Next
  /\ LinkTheorems!TypeOK => Link!TypeOK
  /\ LinkTheorems!InOrder /\ LinkTheorems!AnnouncedOnce => Link!InOrder /\ Link!AnnouncedOnce
<1>1. Link!Init => LinkTheorems!Init
  BY DEF Link!Init, LinkTheorems!Init, Link!Ends, LinkTheorems!Ends, Link!Other, LinkTheorems!Other
<1>2. Link!Next => LinkTheorems!Next
  BY DEF Link!Ends, LinkTheorems!Ends, Link!Other, LinkTheorems!Other, Link!Packets,
         LinkTheorems!Packets, Link!Messages, LinkTheorems!Messages, Link!Ended,
         LinkTheorems!Ended, Link!Full, LinkTheorems!Full, Link!Announce,
         LinkTheorems!Announce, Link!HangUp, LinkTheorems!HangUp, Link!Send,
         LinkTheorems!Send, Link!Close, LinkTheorems!Close, Link!CloseReturns,
         LinkTheorems!CloseReturns, Link!Drop, LinkTheorems!Drop, Link!Take,
         LinkTheorems!Take, Link!Write, LinkTheorems!Write, Link!WebSocketWriteFails,
         LinkTheorems!WebSocketWriteFails, Link!QuicWriteFails,
         LinkTheorems!QuicWriteFails, Link!Incoming, LinkTheorems!Incoming,
         Link!Unreadable, LinkTheorems!Unreadable, Link!Reading, LinkTheorems!Reading,
         Link!Consume, LinkTheorems!Consume, Link!WebSocketMessage,
         LinkTheorems!WebSocketMessage, Link!WebSocketClosed,
         LinkTheorems!WebSocketClosed, Link!ClearFlag, LinkTheorems!ClearFlag,
         Link!QuicStream, LinkTheorems!QuicStream, Link!QuicClosed,
         LinkTheorems!QuicClosed, Link!WebSocketShutdown, LinkTheorems!WebSocketShutdown,
         Link!CloseFrame, LinkTheorems!CloseFrame, Link!QuicShutdown,
         LinkTheorems!QuicShutdown, Link!ForeignMessage, LinkTheorems!ForeignMessage,
         Link!LoopStep, LinkTheorems!LoopStep, Link!handleVars, LinkTheorems!handleVars,
         Link!loopVars, LinkTheorems!loopVars, Link!Next, LinkTheorems!Next
<1>3. LinkTheorems!TypeOK => Link!TypeOK
  BY DEF Link!TypeOK, LinkTheorems!TypeOK, Link!Ends, LinkTheorems!Ends, Link!Messages,
         LinkTheorems!Messages, Link!Packets, LinkTheorems!Packets
<1>4. LinkTheorems!InOrder => Link!InOrder
  BY DEF Link!InOrder, LinkTheorems!InOrder, Link!Ends, LinkTheorems!Ends, Link!Other,
         LinkTheorems!Other
<1>5. LinkTheorems!AnnouncedOnce => Link!AnnouncedOnce
  BY DEF Link!AnnouncedOnce, LinkTheorems!AnnouncedOnce, Link!Ends, LinkTheorems!Ends,
         Link!Ended, LinkTheorems!Ended
<1> QED
  BY <1>1, <1>2, <1>3, <1>4, <1>5

Subject == subject \in {"framing", "link", "connection", "actor"}

(* A behaviour of the four is one of each: the three that are not its       *)
(* subject stutter.                                                         *)
LEMMA FramingBehaviour == MCSpec => Spec
<1>1. MCInit => Init
  BY DEF MCInit
<1>2. [MCNext]_all => [Next]_vars
  BY DEF MCNext, FramingStep, LinkStep, ConnectionStep, ActorStep, all, vars
<1> QED
  BY <1>1, <1>2, PTL DEF MCSpec, Spec

LEMMA LinkBehaviour == MCSpec => LinkTheorems!Spec
<1>1. MCInit => LinkTheorems!Init
  BY LinkInstances DEF MCInit
<1>2. [MCNext]_all => [LinkTheorems!Next]_(LinkTheorems!vars)
  <2> SUFFICES ASSUME [MCNext]_all PROVE LinkTheorems!Next \/ UNCHANGED LinkTheorems!vars
    OBVIOUS
  <2>1. Link!Next \/ UNCHANGED linkVars
    BY DEF MCNext, FramingStep, LinkStep, ConnectionStep, ActorStep, all
  <2>2. UNCHANGED linkVars => UNCHANGED LinkTheorems!vars
    BY DEF linkVars, LinkTheorems!vars, LinkTheorems!handleVars, LinkTheorems!loopVars
  <2> QED
    BY <2>1, <2>2, LinkInstances
<1> QED
  BY <1>1, <1>2, PTL DEF MCSpec, LinkTheorems!Spec

LEMMA ConnectionInvariance == MCSpec => []ConnectionInv
<1>1. MCInit => ConnectionInv
  BY ConnectionInitially, LinksAssumption DEF MCInit
<1>2. ConnectionInv /\ [MCNext]_all => ConnectionInv'
  <2> SUFFICES ASSUME ConnectionInv, [MCNext]_all PROVE ConnectionInv'
    OBVIOUS
  <2>1. [Connection!Next]_connectionVars
    BY DEF MCNext, FramingStep, LinkStep, ConnectionStep, ActorStep, all
  <2>2. MaxCalls \in Nat
    BY LinksAssumption
  <2> QED
    BY <2>1, <2>2, ConnectionTypeStep, CallQueueStep, CallsWrittenStep, CallsCloseStep
    DEF ConnectionInv
<1> QED
  BY <1>1, <1>2, PTL DEF MCSpec

LEMMA ActorInvariance == MCSpec => []ActorInv
<1>1. MCInit => ActorInv
  BY ActorInitially, LinksAssumption DEF MCInit
<1>2. ActorInv /\ [MCNext]_all => ActorInv'
  <2> SUFFICES ASSUME ActorInv, [MCNext]_all PROVE ActorInv'
    OBVIOUS
  <2>1. Agent!Next \/ UNCHANGED actorVars
    BY DEF MCNext, FramingStep, LinkStep, ConnectionStep, ActorStep, all
  <2> QED
    BY <2>1, ActorKept, ActorStays, LinksAssumption
<1> QED
  BY <1>1, <1>2, PTL DEF MCSpec

(* Of the actor: packets of either way reach the adapter in the order in    *)
(* which they were handed over, none twice, also if a batch is given up or  *)
(* the command pipeline has ended; and between batches the counters of      *)
(* packets and of batches agree.                                            *)
THEOREM BatchesInOrderTheorem == MCSpec => []BatchesInOrder
<1>1. ActorInv => BatchesInOrder
  BY ActorPromises DEF BatchesInOrder
<1> QED
  BY <1>1, ActorInvariance, PTL

(* Of the WebSocket and QUIC adapters: what arrives was sent, in order and  *)
(* without a gap, and the end of a loop is announced as it should be.       *)
THEOREM LinkFaithfulTheorem == MCSpec => []LinkFaithful
<1>1. LinkTheorems!AdapterLinkAssumption
  BY LinksAssumption DEF LinkTheorems!AdapterLinkAssumption, LinkTheorems!Packets
<1>2. LinkTheorems!Spec => []LinkTheorems!InOrder
  BY <1>1, LinkTheorems!InOrderTheorem
<1>3. LinkTheorems!Spec => []LinkTheorems!AnnouncedOnce
  BY <1>1, LinkTheorems!AnnouncedOnceTheorem
<1>4. LinkTheorems!InOrder /\ LinkTheorems!AnnouncedOnce => LinkFaithful
  BY LinkInstances DEF LinkFaithful
<1> QED
  BY <1>2, <1>3, <1>4, LinkBehaviour, PTL

(* Of the lock-free connection: sends take effect in the order of the calls *)
(* and at most once, those that returned Ok did, and a handle that reports  *)
(* "not connected" is one of a connection that is closed, or that said so   *)
(* itself when it was handed over.                                          *)
THEOREM CommandsOnceTheorem == MCSpec => []CommandsOnce
<1>1. ConnectionInv => Connection!InOrderOnce
  <2> SUFFICES ASSUME ConnectionInv PROVE Connection!InOrderOnce
    OBVIOUS
  <2>1. DOMAIN written = 1..Len(written) /\ DOMAIN asked = 1..Len(asked)
    BY DEF ConnectionInv, Connection!TypeOK
  <2>2. /\ \A i, j \in 1..Len(written) : i < j => written[i] < written[j]
        /\ \A c \in 1..Len(asked) :
             asked[c] = "send" /\ answer[c] = "ok" => \E i \in 1..Len(written) : written[i] = c
    BY DEF ConnectionInv, CallsWrittenInv
  <2> QED
    BY <2>1, <2>2 DEF Connection!InOrderOnce, Connection!Contains
<1>2. ConnectionInv => Connection!FalseMeansClosed
  BY DEF ConnectionInv, CallsCloseInv
<1>3. ConnectionInv => CommandsOnce
  BY <1>1, <1>2 DEF CommandsOnce
<1> QED
  BY <1>3, ConnectionInvariance, PTL

(* The variables of all four keep their types.                              *)
THEOREM TypesOKTheorem == MCSpec => []TypesOK
<1>1. LinkTheorems!AdapterLinkAssumption
  BY LinksAssumption DEF LinkTheorems!AdapterLinkAssumption, LinkTheorems!Packets
<1>2. LinkTheorems!Spec => []LinkTheorems!TypeOK
  BY <1>1, LinkTheorems!TypeCorrect
<1>3. MCSpec => []Subject
  <2>1. MCInit => Subject
    BY DEF MCInit, Subject
  <2>2. Subject /\ [MCNext]_all => Subject'
    BY DEF MCNext, FramingStep, LinkStep, ConnectionStep, ActorStep, all, Subject
  <2> QED
    BY <2>1, <2>2, PTL DEF MCSpec
<1>4. TypeOK /\ LinkTheorems!TypeOK /\ ConnectionInv /\ ActorInv /\ Subject => TypesOK
  <2> SUFFICES ASSUME TypeOK, LinkTheorems!TypeOK, ConnectionInv, ActorInv, Subject
               PROVE TypesOK
    OBVIOUS
  <2>1. TypeOK /\ Link!TypeOK /\ Connection!TypeOK /\ Agent!TypeOK
    BY LinkInstances DEF ConnectionInv, ActorInv
  <2> QED
    BY <2>1 DEF TypesOK, Subject
<1> QED
  BY <1>2, <1>3, <1>4, TypeCorrect, ActorInvariance, FramingBehaviour, LinkBehaviour,
     ConnectionInvariance, PTL

=============================================================================
