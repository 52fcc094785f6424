-------------------------- MODULE AdapterLinkProofs --------------------------
(***************************************************************************)
(* Proofs about AdapterLink, for both protocols, any number of packets,    *)
(* any size of the buffers and any set of packets that are too long: what  *)
(* arrives at an end is what the other end sent, in order and without a    *)
(* gap, and the end of an event loop is announced as often as it should.   *)
(***************************************************************************)
EXTENDS AdapterLink, Integers, TLAPS

\* Messages can be told apart.
AdapterLinkAssumption ==
  /\ Kinds \subseteq {"websocket", "quic"} /\ MaxPackets \in Nat
  /\ {Text, Ping, Bye} \cap (Packets \cup {0}) = {}
  /\ Text # Ping /\ Text # Bye /\ Ping # Bye

-----------------------------------------------------------------------------
(* The inductive invariant                                                 *)

(* Only another program sends what is not a packet.                         *)
ForeignInv ==
  /\ foreign => kind = "websocket"
  /\ ~foreign => \A e \in Ends : \A i \in 1..Len(wire[e]) : wire[e][i] \notin {Text, Ping}

(* What has been announced at each position of the loop.                    *)
AnnouncedInv ==
  \A e \in Ends :
    /\ loop[e] \in {"select", "write", "closeFrame"} => closes[e] = <<>> /\ endedBy[e] = "no"
    /\ loop[e] = "announced" =>
         /\ Len(closes[e]) = 1 /\ endedBy[e] \in {"peer", "write"} /\ kind = "websocket"
    /\ loop[e] = "ended" =>
         /\ endedBy[e] # "no"
         /\ endedBy[e] = "signal" => closes[e] = <<>>
         /\ endedBy[e] = "peer" => Len(closes[e]) = 1
         /\ endedBy[e] = "write" => IF kind = "quic" THEN closes[e] = <<>> ELSE Len(closes[e]) = 1

(* Packets on the wire w and delivered in d are among the first n, and each *)
(* comes after exactly those with smaller numbers.                          *)
DeliveredInOrder(d, n) ==
  \A i \in 1..Len(d) : d[i] # 0 =>
    /\ d[i] <= n
    /\ \A j \in 1..(i - 1) : d[j] < d[i]
    /\ \A q \in 1..(d[i] - 1) : \E j \in 1..(i - 1) : d[j] = q

WireInOrder(w, d, n) ==
  \A i \in 1..Len(w) : w[i] \in Packets =>
    /\ w[i] <= n
    /\ \A j \in 1..Len(d) : d[j] < w[i]
    /\ \A j \in 1..(i - 1) : w[j] \in Packets => w[j] < w[i]
    /\ \A q \in 1..(w[i] - 1) :
         (\E j \in 1..Len(d) : d[j] = q) \/ (\E j \in 1..(i - 1) : w[j] = q)

Ordered(w, d, n) == DeliveredInOrder(d, n) /\ WireInOrder(w, d, n)

\* None of the first n is missing.
Complete(w, d, n) ==
  \A q \in 1..n : (\E j \in 1..Len(d) : d[j] = q) \/ (\E j \in 1..Len(w) : w[j] = q)

\* Packets that the loop has written, or will not write any more.
Written(e) == IF loop[e] = "write" THEN taken[e] - 1 ELSE taken[e]

(* Until a loop is left, what it wrote arrives or is on its way.            *)
OrderInv ==
  \A e \in Ends :
    /\ Ordered(wire[Other(e)], delivered[e], Written(Other(e)))
    /\ loop[Other(e)] \in {"select", "write"} /\ ~Ended(e)
         => Complete(wire[Other(e)], delivered[e], Written(Other(e)))

TakenInv == \A e \in Ends : loop[e] = "write" => taken[e] > 0

IInv == TypeOK /\ ForeignInv /\ AnnouncedInv /\ TakenInv /\ OrderInv

-----------------------------------------------------------------------------
(* Lemmas about sequences and order                                        *)

LEMMA Appended ==
  ASSUME NEW S, NEW s \in Seq(S), NEW e \in S
  PROVE  /\ Append(s, e) \in Seq(S) /\ Len(s) \in Nat
         /\ Len(Append(s, e)) = Len(s) + 1
         /\ \A i \in 1..Len(s) : Append(s, e)[i] = s[i]
         /\ Append(s, e)[Len(s) + 1] = e
OBVIOUS

LEMMA Dequeued ==
  ASSUME NEW S, NEW s \in Seq(S), s # <<>>
  PROVE  /\ Tail(s) \in Seq(S) /\ Head(s) \in S
         /\ Len(s) \in Nat /\ Len(s) >= 1 /\ Len(Tail(s)) = Len(s) - 1
         /\ \A i \in 1..(Len(s) - 1) : Tail(s)[i] = s[i + 1]
         /\ Head(s) = s[1]
OBVIOUS

LEMMA Prefixed ==
  ASSUME NEW S, NEW s \in Seq(S), NEW n \in 0..Len(s)
  PROVE  /\ SubSeq(s, 1, n) \in Seq(S) /\ Len(SubSeq(s, 1, n)) = n
         /\ \A i \in 1..n : SubSeq(s, 1, n)[i] = s[i]
OBVIOUS

LEMMA TwoEnds ==
  /\ \A e \in Ends : Other(e) \in Ends /\ Other(e) # e /\ Other(Other(e)) = e
  /\ \A e, f \in Ends : f = e \/ f = Other(e)
BY DEF Ends, Other

(* The next packet goes on the wire.                                        *)
LEMMA WritePacket ==
  ASSUME AdapterLinkAssumption, NEW w \in Seq(Messages), NEW d \in Seq(Packets \cup {0}), NEW n \in Nat,
         n + 1 \in Packets, Ordered(w, d, n), Complete(w, d, n)
  PROVE  Ordered(Append(w, n + 1), d, n + 1) /\ Complete(Append(w, n + 1), d, n + 1)
<1> DEFINE v == Append(w, n + 1)
<1>1. /\ Len(w) \in Nat /\ Len(v) = Len(w) + 1 /\ v[Len(w) + 1] = n + 1
      /\ \A i \in 1..Len(w) : v[i] = w[i] /\ i \in 1..Len(v) /\ i # Len(w) + 1
      /\ \A i \in 1..Len(v) : i = Len(w) + 1 \/ i \in 1..Len(w)
  BY Appended DEF Messages
<1>2. \A j \in 1..Len(d) : d[j] \in Nat /\ d[j] <= n
  BY DEF Ordered, DeliveredInOrder, Packets
<1>3. \A j \in 1..Len(w) : w[j] \in Packets => w[j] \in Nat /\ w[j] <= n
  BY DEF Ordered, WireInOrder, Packets
<1>4. \A i \in 1..Len(w) : \A j \in 1..(i - 1) : j \in 1..Len(w)
  BY <1>1
<1> HIDE DEF v
<1>5. DeliveredInOrder(d, n + 1)
  BY <1>2 DEF Ordered, DeliveredInOrder
<1>6. WireInOrder(v, d, n + 1)
  <2> SUFFICES ASSUME NEW i \in 1..Len(v), v[i] \in Packets
               PROVE  /\ v[i] <= n + 1
                      /\ \A j \in 1..Len(d) : d[j] < v[i]
                      /\ \A j \in 1..(i - 1) : v[j] \in Packets => v[j] < v[i]
                      /\ \A q \in 1..(v[i] - 1) :
                           (\E j \in 1..Len(d) : d[j] = q) \/ (\E j \in 1..(i - 1) : v[j] = q)
    BY DEF WireInOrder
  <2>1. CASE i \in 1..Len(w)
    <3>1. /\ w[i] <= n
          /\ \A j \in 1..Len(d) : d[j] < w[i]
          /\ \A j \in 1..(i - 1) : w[j] \in Packets => w[j] < w[i]
          /\ \A q \in 1..(w[i] - 1) :
               (\E j \in 1..Len(d) : d[j] = q) \/ (\E j \in 1..(i - 1) : w[j] = q)
      BY <1>1, <2>1 DEF Ordered, WireInOrder
    <3>2. v[i] = w[i] /\ \A j \in 1..(i - 1) : v[j] = w[j]
      BY <1>1, <1>4, <2>1
    <3>3. w[i] \in Nat
      BY <1>3, <2>1, <3>2
    <3>4. v[i] <= n + 1
      BY <3>1, <3>2, <3>3
    <3> QED
      BY <3>1, <3>2, <3>4
  <2>2. CASE i = Len(w) + 1
    <3>1. v[i] = n + 1 /\ \A j \in 1..(i - 1) : j \in 1..Len(w) /\ v[j] = w[j]
      BY <1>1, <2>2
    <3>2. /\ \A j \in 1..Len(d) : d[j] < n + 1
          /\ \A j \in 1..(i - 1) : v[j] \in Packets => v[j] < n + 1
      <4>1. \A j \in 1..Len(d) : d[j] < n + 1
        BY <1>2
      <4>2. \A j \in 1..Len(w) : w[j] \in Packets => w[j] < n + 1
        BY <1>3
      <4> QED
        BY <3>1, <4>1, <4>2
    <3>3. \A q \in 1..n : (\E j \in 1..Len(d) : d[j] = q) \/ (\E j \in 1..(i - 1) : v[j] = q)
      <4>1. \A j \in 1..Len(w) : j \in 1..(i - 1) /\ v[j] = w[j]
        BY <1>1, <2>2
      <4> QED
        BY <4>1 DEF Complete
    <3> QED
      BY <3>1, <3>2, <3>3
  <2> QED
    BY <1>1, <2>1, <2>2
<1>7. Complete(v, d, n + 1)
  <2>1. \A q \in 1..(n + 1) : q = n + 1 \/ q \in 1..n
    OBVIOUS
  <2>2. \A q \in 1..n : (\E j \in 1..Len(d) : d[j] = q) \/ (\E j \in 1..Len(v) : v[j] = q)
    BY <1>1 DEF Complete
  <2>3. Len(w) + 1 \in 1..Len(v)
    BY <1>1
  <2> QED
    BY <1>1, <2>1, <2>2, <2>3 DEF Complete
<1> QED
  BY <1>5, <1>6, <1>7 DEF Ordered, v

(* Something else than a packet goes on the wire.                           *)
LEMMA WriteOther ==
  ASSUME NEW w \in Seq(Messages), NEW d, NEW n, NEW m \in Messages \ Packets, Ordered(w, d, n)
  PROVE  Ordered(Append(w, m), d, n) /\ (Complete(w, d, n) => Complete(Append(w, m), d, n))
<1> DEFINE v == Append(w, m)
<1>1. /\ Len(w) \in Nat /\ Len(v) = Len(w) + 1 /\ v[Len(w) + 1] = m
      /\ \A i \in 1..Len(w) : v[i] = w[i] /\ i \in 1..Len(v)
      /\ \A i \in 1..Len(v) : i = Len(w) + 1 \/ i \in 1..Len(w)
  BY Appended
<1> HIDE DEF v
<1>2. \A i \in 1..Len(w) : \A j \in 1..(i - 1) : v[j] = w[j]
  BY <1>1
<1>3. WireInOrder(v, d, n)
  <2> SUFFICES ASSUME NEW i \in 1..Len(v), v[i] \in Packets
               PROVE  /\ v[i] <= n
                      /\ \A j \in 1..Len(d) : d[j] < v[i]
                      /\ \A j \in 1..(i - 1) : v[j] \in Packets => v[j] < v[i]
                      /\ \A q \in 1..(v[i] - 1) :
                           (\E j \in 1..Len(d) : d[j] = q) \/ (\E j \in 1..(i - 1) : v[j] = q)
    BY DEF WireInOrder
  <2>1. i \in 1..Len(w) /\ v[i] = w[i]
    BY <1>1
  <2> QED
    BY <1>2, <2>1 DEF Ordered, WireInOrder
<1>4. Complete(w, d, n) => Complete(v, d, n)
  BY <1>1 DEF Complete
<1> QED
  BY <1>3, <1>4 DEF Ordered, v

(* What an end leaves behind when it hangs up.                              *)
LEMMA CutWire ==
  ASSUME AdapterLinkAssumption, NEW w \in Seq(Messages), NEW d, NEW n, NEW k \in 0..Len(w), Ordered(w, d, n)
  PROVE  LET v == Append(SubSeq(w, 1, k), Bye)
         IN  /\ v \in Seq(Messages) /\ Ordered(v, d, n)
             /\ \A i \in 1..Len(v) : v[i] = Bye \/ \E j \in 1..Len(w) : v[i] = w[j]
<1> DEFINE u == SubSeq(w, 1, k)
           v == Append(u, Bye)
<1>1. /\ u \in Seq(Messages) /\ Len(u) = k /\ \A i \in 1..k : u[i] = w[i]
      /\ Len(w) \in Nat /\ k \in Nat /\ k <= Len(w)
  BY Prefixed
<1>2. Bye \in Messages \ Packets
  BY DEF Messages, AdapterLinkAssumption
<1> HIDE DEF u
<1>3. Ordered(u, d, n)
  <2>1. \A i \in 1..Len(u) : i \in 1..Len(w) /\ u[i] = w[i] /\ \A j \in 1..(i - 1) : u[j] = w[j]
    BY <1>1
  <2>2. WireInOrder(u, d, n)
    <3> SUFFICES ASSUME NEW i \in 1..Len(u), u[i] \in Packets
                 PROVE  /\ u[i] <= n
                        /\ \A j \in 1..Len(d) : d[j] < u[i]
                        /\ \A j \in 1..(i - 1) : u[j] \in Packets => u[j] < u[i]
                        /\ \A q \in 1..(u[i] - 1) :
                             (\E j \in 1..Len(d) : d[j] = q) \/ (\E j \in 1..(i - 1) : u[j] = q)
      BY DEF WireInOrder
    <3>1. i \in 1..Len(w) /\ u[i] = w[i] /\ \A j \in 1..(i - 1) : u[j] = w[j]
      BY <2>1
    <3> QED
      BY <3>1 DEF Ordered, WireInOrder
  <2> QED
    BY <2>2 DEF Ordered
<1>4. v \in Seq(Messages) /\ Ordered(v, d, n)
  BY <1>1, <1>2, <1>3, WriteOther, Appended
<1>5. \A i \in 1..Len(v) : v[i] = Bye \/ \E j \in 1..Len(w) : v[i] = w[j]
  <2>1. /\ Len(v) = k + 1 /\ v[k + 1] = Bye /\ \A i \in 1..k : v[i] = u[i]
        /\ \A i \in 1..(k + 1) : i = k + 1 \/ i \in 1..k
        /\ \A i \in 1..k : i \in 1..Len(w)
    BY <1>1, <1>2, Appended
  <2> QED
    BY <1>1, <2>1
<1> QED
  BY <1>4, <1>5 DEF u

LEMMA NoWire ==
  ASSUME NEW w, NEW d, NEW n, Ordered(w, d, n)
  PROVE  Ordered(<<>>, d, n)
BY DEF Ordered, WireInOrder

LEMMA LaterWritten ==
  ASSUME AdapterLinkAssumption, NEW w \in Seq(Messages), NEW d \in Seq(Packets \cup {0}),
         NEW n \in Int, NEW m \in Int, n <= m, Ordered(w, d, n)
  PROVE  Ordered(w, d, m)
<1>1. \A i \in 1..Len(d) : d[i] \in Nat
  BY DEF Packets
<1>2. \A i \in 1..Len(w) : w[i] \in Packets => w[i] \in Nat
  BY DEF Packets
<1>3. DeliveredInOrder(d, m)
  BY <1>1 DEF Ordered, DeliveredInOrder
<1>4. WireInOrder(w, d, m)
  BY <1>2 DEF Ordered, WireInOrder
<1> QED
  BY <1>3, <1>4 DEF Ordered

(* A packet is read.                                                        *)
LEMMA ReadPacket ==
  ASSUME AdapterLinkAssumption, NEW w \in Seq(Messages), NEW d \in Seq(Packets \cup {0}), NEW n \in Int,
         w # <<>>, Head(w) \in Packets, Ordered(w, d, n)
  PROVE  /\ Ordered(Tail(w), Append(d, Head(w)), n)
         /\ Complete(w, d, n) => Complete(Tail(w), Append(d, Head(w)), n)
<1> DEFINE p == Head(w)
           v == Tail(w)
           c == Append(d, Head(w))
<1>1. /\ Len(w) \in Nat /\ Len(w) >= 1 /\ Len(v) = Len(w) - 1 /\ p = w[1]
      /\ \A i \in 1..(Len(w) - 1) : v[i] = w[i + 1] /\ i + 1 \in 1..Len(w)
      /\ 1 \in 1..Len(w)
  BY Dequeued
<1>2. /\ Len(d) \in Nat /\ Len(c) = Len(d) + 1 /\ c[Len(d) + 1] = p
      /\ \A i \in 1..Len(d) : c[i] = d[i] /\ i \in 1..Len(c)
      /\ \A i \in 1..Len(c) : i = Len(d) + 1 \/ i \in 1..Len(d)
      /\ Len(d) + 1 \in 1..Len(c)
  <2>1. p \in Packets \cup {0}
    OBVIOUS
  <2> QED
    BY <2>1, Appended
<1>3. p \in Nat
  BY DEF Packets
<1> HIDE DEF p, v, c
<1>4. /\ p <= n /\ \A j \in 1..Len(d) : d[j] < p
      /\ \A q \in 1..(p - 1) : \E j \in 1..Len(d) : d[j] = q
  <2>1. w[1] \in Packets
    BY <1>1 DEF p
  <2>2. \A j \in 1..(1 - 1) : FALSE
    OBVIOUS
  <2> QED
    BY <1>1, <2>1, <2>2 DEF Ordered, WireInOrder
<1>5. DeliveredInOrder(c, n)
  <2> SUFFICES ASSUME NEW i \in 1..Len(c), c[i] # 0
               PROVE  /\ c[i] <= n
                      /\ \A j \in 1..(i - 1) : c[j] < c[i]
                      /\ \A q \in 1..(c[i] - 1) : \E j \in 1..(i - 1) : c[j] = q
    BY DEF DeliveredInOrder
  <2>1. CASE i \in 1..Len(d)
    <3>1. c[i] = d[i] /\ \A j \in 1..(i - 1) : c[j] = d[j]
      BY <1>2, <2>1
    <3> QED
      BY <2>1, <3>1 DEF Ordered, DeliveredInOrder
  <2>2. CASE i = Len(d) + 1
    <3>1. /\ c[i] = p
          /\ \A j \in 1..(i - 1) : j \in 1..Len(d) /\ c[j] = d[j]
          /\ \A j \in 1..Len(d) : j \in 1..(i - 1)
      BY <1>2, <2>2
    <3> QED
      BY <1>4, <3>1
  <2> QED
    BY <1>2, <2>1, <2>2
<1>6. \A q : \A i \in 0..(Len(w) - 1) :
        (\E j \in 1..Len(d) : d[j] = q) \/ (\E j \in 1..i : w[j] = q)
          => (\E j \in 1..Len(c) : c[j] = q) \/ (\E j \in 1..(i - 1) : v[j] = q)
  <2> TAKE q
  <2> TAKE i \in 0..(Len(w) - 1)
  <2>1. CASE \E j \in 1..Len(d) : d[j] = q
    BY <1>2, <2>1
  <2>2. CASE \E j \in 1..i : w[j] = q
    <3>1. PICK j \in 1..i : w[j] = q
      BY <2>2
    <3>2. CASE j = 1
      BY <1>1, <1>2, <3>1, <3>2
    <3>3. CASE j # 1
      <4>1. j - 1 \in 1..(i - 1) /\ j - 1 \in 1..(Len(w) - 1) /\ (j - 1) + 1 = j
        BY <1>1, <3>1, <3>3
      <4> QED
        BY <1>1, <3>1, <4>1
    <3> QED
      BY <3>2, <3>3
  <2> QED
    BY <2>1, <2>2
<1>7. WireInOrder(v, c, n)
  <2> SUFFICES ASSUME NEW i \in 1..Len(v), v[i] \in Packets
               PROVE  /\ v[i] <= n
                      /\ \A j \in 1..Len(c) : c[j] < v[i]
                      /\ \A j \in 1..(i - 1) : v[j] \in Packets => v[j] < v[i]
                      /\ \A q \in 1..(v[i] - 1) :
                           (\E j \in 1..Len(c) : c[j] = q) \/ (\E j \in 1..(i - 1) : v[j] = q)
    BY DEF WireInOrder
  <2>1. i \in 1..(Len(w) - 1) /\ v[i] = w[i + 1] /\ i + 1 \in 1..Len(w) /\ (i + 1) - 1 = i
    BY <1>1
  <2>2. /\ v[i] <= n
        /\ \A j \in 1..Len(d) : d[j] < v[i]
        /\ \A j \in 1..i : w[j] \in Packets => w[j] < v[i]
        /\ \A q \in 1..(v[i] - 1) :
             (\E j \in 1..Len(d) : d[j] = q) \/ (\E j \in 1..i : w[j] = q)
    BY <2>1 DEF Ordered, WireInOrder
  <2>3. \A j \in 1..Len(c) : c[j] < v[i]
    <3>1. 1 \in 1..i /\ w[1] \in Packets
      BY <1>1, <2>1 DEF p
    <3> QED
      BY <1>1, <1>2, <2>2, <3>1
  <2>4. \A j \in 1..(i - 1) : v[j] = w[j + 1] /\ j + 1 \in 1..i
    BY <1>1, <2>1
  <2>5. i \in 0..(Len(w) - 1)
    BY <2>1
  <2> QED
    BY <1>6, <2>2, <2>3, <2>4, <2>5
<1>8. ASSUME Complete(w, d, n) PROVE Complete(v, c, n)
  <2> SUFFICES ASSUME NEW q \in 1..n
               PROVE  (\E j \in 1..Len(c) : c[j] = q) \/ (\E j \in 1..Len(v) : v[j] = q)
    BY DEF Complete
  <2>1. (\E j \in 1..Len(d) : d[j] = q) \/ (\E j \in 1..Len(w) : w[j] = q)
    BY <1>8 DEF Complete
  <2>2. CASE \E j \in 1..Len(d) : d[j] = q
    BY <1>2, <2>2
  <2>3. CASE \E j \in 1..Len(w) : w[j] = q
    <3>1. PICK j \in 1..Len(w) : w[j] = q
      BY <2>3
    <3>2. CASE j = 1
      BY <1>1, <1>2, <3>1, <3>2
    <3>3. CASE j # 1
      <4>1. j - 1 \in 1..(Len(w) - 1) /\ j - 1 \in 1..Len(v) /\ (j - 1) + 1 = j
        BY <1>1, <3>1, <3>3
      <4> QED
        BY <1>1, <3>1, <4>1
    <3> QED
      BY <3>2, <3>3
  <2> QED
    BY <2>1, <2>2, <2>3
<1> QED
  BY <1>5, <1>7, <1>8 DEF Ordered, v, c, p

(* Something else than a packet is read.                                    *)
LEMMA ReadOther ==
  ASSUME AdapterLinkAssumption, NEW w \in Seq(Messages), NEW d \in Seq(Packets \cup {0}),
         NEW n \in Int, n <= MaxPackets, w # <<>>, Head(w) \notin Packets, Ordered(w, d, n)
  PROVE  /\ Ordered(Tail(w), d, n)
         /\ Complete(w, d, n) => Complete(Tail(w), d, n)
<1> DEFINE v == Tail(w)
<1>1. /\ Len(w) \in Nat /\ Len(w) >= 1 /\ Len(v) = Len(w) - 1 /\ w[1] \notin Packets
      /\ \A i \in 1..(Len(w) - 1) : v[i] = w[i + 1] /\ i + 1 \in 1..Len(w)
  BY Dequeued
<1> HIDE DEF v
<1>2. \A q \in Packets : \A i \in 1..Len(w) :
        (\E j \in 1..i : w[j] = q) => (\E j \in 1..(i - 1) : v[j] = q)
  <2> TAKE q \in Packets
  <2> TAKE i \in 1..Len(w)
  <2> HAVE \E j \in 1..i : w[j] = q
  <2>1. PICK j \in 1..i : w[j] = q
    OBVIOUS
  <2>2. j # 1
    BY <1>1, <2>1
  <2>3. j - 1 \in 1..(i - 1) /\ j - 1 \in 1..(Len(w) - 1) /\ (j - 1) + 1 = j
    BY <1>1, <2>1, <2>2
  <2> QED
    BY <1>1, <2>1, <2>3
<1>3. WireInOrder(v, d, n)
  <2> SUFFICES ASSUME NEW i \in 1..Len(v), v[i] \in Packets
               PROVE  /\ v[i] <= n
                      /\ \A j \in 1..Len(d) : d[j] < v[i]
                      /\ \A j \in 1..(i - 1) : v[j] \in Packets => v[j] < v[i]
                      /\ \A q \in 1..(v[i] - 1) :
                           (\E j \in 1..Len(d) : d[j] = q) \/ (\E j \in 1..(i - 1) : v[j] = q)
    BY DEF WireInOrder
  <2>1. i \in 1..(Len(w) - 1) /\ v[i] = w[i + 1] /\ i + 1 \in 1..Len(w) /\ (i + 1) - 1 = i
        /\ i \in 1..Len(w)
    BY <1>1
  <2>2. /\ v[i] <= n
        /\ \A j \in 1..Len(d) : d[j] < v[i]
        /\ \A j \in 1..i : w[j] \in Packets => w[j] < v[i]
        /\ \A q \in 1..(v[i] - 1) :
             (\E j \in 1..Len(d) : d[j] = q) \/ (\E j \in 1..i : w[j] = q)
    BY <2>1 DEF Ordered, WireInOrder
  <2>3. \A j \in 1..(i - 1) : v[j] = w[j + 1] /\ j + 1 \in 1..i
    BY <1>1, <2>1
  <2>4. \A q \in 1..(v[i] - 1) : q \in Packets
    BY DEF Packets, AdapterLinkAssumption
  <2> QED
    BY <1>2, <2>1, <2>2, <2>3, <2>4
<1>4. ASSUME Complete(w, d, n) PROVE Complete(v, d, n)
  <2>1. \A q \in 1..n : q \in Packets
    BY DEF Packets, AdapterLinkAssumption
  <2>2. Len(w) \in 1..Len(w) /\ Len(v) = Len(w) - 1
    BY <1>1
  <2> QED
    BY <1>2, <1>4, <2>1, <2>2 DEF Complete
<1> QED
  BY <1>3, <1>4 DEF Ordered, v

(* A text is delivered as a packet without a number.                        *)
LEMMA DeliverOther ==
  ASSUME AdapterLinkAssumption, NEW w \in Seq(Messages), NEW d \in Seq(Packets \cup {0}), NEW n \in Int,
         Ordered(w, d, n)
  PROVE  /\ Ordered(w, Append(d, 0), n)
         /\ Complete(w, d, n) => Complete(w, Append(d, 0), n)
<1> DEFINE c == Append(d, 0)
<1>1. /\ Len(d) \in Nat /\ Len(c) = Len(d) + 1 /\ c[Len(d) + 1] = 0
      /\ \A i \in 1..Len(d) : c[i] = d[i] /\ i \in 1..Len(c)
      /\ \A i \in 1..Len(c) : i = Len(d) + 1 \/ i \in 1..Len(d)
  <2>1. 0 \in Packets \cup {0}
    OBVIOUS
  <2> QED
    BY <2>1, Appended
<1> HIDE DEF c
<1>2. DeliveredInOrder(c, n)
  <2> SUFFICES ASSUME NEW i \in 1..Len(c), c[i] # 0
               PROVE  /\ c[i] <= n
                      /\ \A j \in 1..(i - 1) : c[j] < c[i]
                      /\ \A q \in 1..(c[i] - 1) : \E j \in 1..(i - 1) : c[j] = q
    BY DEF DeliveredInOrder
  <2>1. i \in 1..Len(d)
    BY <1>1
  <2>2. c[i] = d[i] /\ \A j \in 1..(i - 1) : c[j] = d[j]
    BY <1>1, <2>1
  <2> QED
    BY <2>1, <2>2 DEF Ordered, DeliveredInOrder
<1>3. WireInOrder(w, c, n)
  <2>1. \A i \in 1..Len(w) : w[i] \in Packets => 0 < w[i]
    BY DEF Packets
  <2> SUFFICES ASSUME NEW i \in 1..Len(w), w[i] \in Packets
               PROVE  /\ w[i] <= n
                      /\ \A j \in 1..Len(c) : c[j] < w[i]
                      /\ \A j \in 1..(i - 1) : w[j] \in Packets => w[j] < w[i]
                      /\ \A q \in 1..(w[i] - 1) :
                           (\E j \in 1..Len(c) : c[j] = q) \/ (\E j \in 1..(i - 1) : w[j] = q)
    BY DEF WireInOrder
  <2>2. /\ w[i] <= n
        /\ \A j \in 1..Len(d) : d[j] < w[i]
        /\ \A j \in 1..(i - 1) : w[j] \in Packets => w[j] < w[i]
        /\ \A q \in 1..(w[i] - 1) :
             (\E j \in 1..Len(d) : d[j] = q) \/ (\E j \in 1..(i - 1) : w[j] = q)
    BY DEF Ordered, WireInOrder
  <2>3. \A j \in 1..Len(c) : c[j] < w[i]
    BY <1>1, <2>1, <2>2
  <2> QED
    BY <1>1, <2>2, <2>3
<1>4. Complete(w, d, n) => Complete(w, c, n)
  BY <1>1 DEF Complete
<1> QED
  BY <1>2, <1>3, <1>4 DEF Ordered, c

-----------------------------------------------------------------------------
(* Initially                                                               *)

LEMMA InitInv == ASSUME AdapterLinkAssumption, Init PROVE IInv
<1>a. foreign \in BOOLEAN /\ (foreign => kind = "websocket")
  <2>1. foreign \in {FALSE, kind = "websocket"}
    BY DEF Init
  <2>2. foreign = FALSE \/ foreign = (kind = "websocket")
    BY <2>1, Zenon
  <2> QED
    BY <2>2, Zenon
<1>1. TypeOK
  <2>1. <<>> \in Seq(Messages) /\ MaxPackets \in Nat
    BY DEF AdapterLinkAssumption
  <2> QED
    BY <1>a, <2>1 DEF Init, TypeOK
<1>2. ForeignInv
  <2>1. \A e \in Ends : Len(wire[e]) = 0
    BY DEF Init
  <2> QED
    BY <1>a, <2>1 DEF ForeignInv
<1>3. AnnouncedInv /\ TakenInv
  BY DEF Init, AnnouncedInv, TakenInv
<1>4. OrderInv
  <2>1. \A e \in Ends : /\ wire[Other(e)] = <<>> /\ delivered[e] = <<>>
                        /\ Written(Other(e)) = 0
    BY TwoEnds DEF Init, Written
  <2>2. Ordered(<<>>, <<>>, 0) /\ Complete(<<>>, <<>>, 0)
    BY DEF Ordered, DeliveredInOrder, WireInOrder, Complete
  <2> QED
    BY <2>1, <2>2 DEF OrderInv
<1> QED
  BY <1>1, <1>2, <1>3, <1>4 DEF IInv

-----------------------------------------------------------------------------
(* Hanging up                                                              *)

LEMMA HungUp ==
  ASSUME AdapterLinkAssumption, TypeOK, ForeignInv, OrderInv, NEW x \in Ends, NEW why, HangUp(x, why)
  PROVE  /\ wire' \in [Ends -> Seq(Messages)]
         /\ wire'[Other(x)] = <<>>
         /\ ~foreign => \A e \in Ends : \A i \in 1..Len(wire'[e]) : wire'[e][i] \notin {Text, Ping}
         /\ Ordered(wire'[x], delivered[Other(x)], Written(x))
         /\ Ordered(wire'[Other(x)], delivered[x], Written(Other(x)))
<1> DEFINE y == Other(x)
<1>1. /\ y \in Ends /\ y # x /\ \A e \in Ends : e = x \/ e = y
      /\ wire[x] \in Seq(Messages) /\ wire[y] \in Seq(Messages)
      /\ delivered[x] \in Seq(Packets \cup {0}) /\ delivered[y] \in Seq(Packets \cup {0})
  BY TwoEnds DEF TypeOK
<1>2. Ordered(wire[x], delivered[y], Written(x)) /\ Ordered(wire[y], delivered[x], Written(y))
  BY TwoEnds DEF OrderInv
<1>3. Ordered(<<>>, delivered[y], Written(x)) /\ Ordered(<<>>, delivered[x], Written(y))
  BY <1>2, NoWire
<1>4. PICK n \in 0..Len(wire[x]) :
        wire' = IF Ended(y) THEN [f \in Ends |-> <<>>]
                ELSE [wire EXCEPT ![x] = Append(SubSeq(@, 1, n), Bye), ![y] = <<>>]
  BY DEF HangUp
<1> DEFINE v == Append(SubSeq(wire[x], 1, n), Bye)
<1>5. /\ v \in Seq(Messages) /\ Ordered(v, delivered[y], Written(x))
      /\ \A i \in 1..Len(v) : v[i] = Bye \/ \E j \in 1..Len(wire[x]) : v[i] = wire[x][j]
  BY <1>1, <1>2, CutWire
<1>6. /\ wire'[y] = <<>> /\ (wire'[x] = <<>> \/ wire'[x] = v)
      /\ wire' \in [Ends -> Seq(Messages)]
  <2> HIDE DEF v
  <2>1. <<>> \in Seq(Messages)
    OBVIOUS
  <2>2. wire \in [Ends -> Seq(Messages)]
    BY DEF TypeOK
  <2>3. CASE Ended(y)
    BY <1>1, <1>4, <2>1, <2>3
  <2>4. CASE ~Ended(y)
    <3>1. wire' = [wire EXCEPT ![x] = v, ![y] = <<>>]
      BY <1>4, <2>4 DEF v
    <3>2. v \in Seq(Messages)
      BY <1>5
    <3>3. x \in Ends /\ y \in Ends /\ y # x
      BY <1>1
    <3> HIDE DEF y
    <3>4. wire'[y] = <<>> /\ wire'[x] = v
      BY <2>2, <3>1, <3>3
    <3>5. wire' \in [Ends -> Seq(Messages)]
      BY <2>1, <2>2, <3>1, <3>2, <3>3
    <3> QED
      BY <3>4, <3>5
  <2> QED
    BY <2>3, <2>4
<1> HIDE DEF v
<1>7. ASSUME ~foreign PROVE \A e \in Ends : \A i \in 1..Len(wire'[e]) : wire'[e][i] \notin {Text, Ping}
  <2>1. \A i \in 1..Len(v) : v[i] \notin {Text, Ping}
    BY <1>5, <1>7 DEF ForeignInv, AdapterLinkAssumption
  <2>2. \A e \in Ends : wire'[e] = <<>> \/ wire'[e] = v
    BY <1>1, <1>6
  <2>3. \A i \in 1..Len(<<>>) : FALSE
    OBVIOUS
  <2> QED
    BY <2>1, <2>2, <2>3
<1> QED
  BY <1>3, <1>5, <1>6, <1>7

-----------------------------------------------------------------------------
(* Types                                                                   *)

LEMMA TypeStep ==
  ASSUME AdapterLinkAssumption, IInv, Next
  PROVE  TypeOK'
<1> USE DEF IInv
<1>a. MaxPackets \in Nat /\ <<>> \in Seq(Messages)
  BY DEF AdapterLinkAssumption
<1>1. CASE ForeignMessage
  <2>1. PICK m \in {Text, Ping} : wire' = [wire EXCEPT !["client"] = Append(@, m)]
    BY <1>1 DEF ForeignMessage
  <2>2. wire' \in [Ends -> Seq(Messages)]
    BY <2>1 DEF TypeOK, Messages, Ends
  <2> QED
    BY <1>1, <2>2 DEF ForeignMessage, TypeOK, handleVars
<1>2. ASSUME NEW x \in Ends, Send(x) \/ Close(x) \/ CloseReturns(x) \/ Drop(x) PROVE TypeOK'
  <2>1. CASE Send(x)
    BY <1>a, <2>1 DEF Send, TypeOK, loopVars
  <2>2. CASE Close(x) \/ Drop(x)
    BY <2>2 DEF Close, Drop, TypeOK, loopVars
  <2>3. CASE CloseReturns(x)
    BY <2>3 DEF CloseReturns, TypeOK
  <2> QED
    BY <1>2, <2>1, <2>2, <2>3
<1>3. ASSUME NEW x \in Ends, LoopStep(x) PROVE TypeOK'
  <2> DEFINE y == Other(x)
  <2>a. y \in Ends /\ y # x
    BY TwoEnds
  <2>b. \A w \in Seq(Messages) : w # <<>> => Tail(w) \in Seq(Messages) /\ Head(w) \in Messages
    BY Dequeued
  <2>c. \A r \in {"normal", "error"} : Append(closes[x], r) \in Seq({"normal", "error"})
    BY DEF TypeOK
  <2>d. ASSUME NEW why \in {"signal", "peer", "write"}, HangUp(x, why)
        PROVE  /\ wire' \in [Ends -> Seq(Messages)]
               /\ loop' \in [Ends -> {"select", "write", "closeFrame", "announced", "ended"}]
               /\ endedBy' \in [Ends -> {"no", "signal", "peer", "write"}]
    <3>1. wire' \in [Ends -> Seq(Messages)]
      BY <2>d, HungUp
    <3> QED
      BY <2>d, <3>1 DEF HangUp, TypeOK
  <2>1. CASE Take(x)
    <3>1. taken' \in [Ends -> 0..MaxPackets] /\ \A e \in Ends : taken'[e] <= accepted[e]
      BY <1>a, <2>1 DEF Take, TypeOK
    <3>2. loop' \in [Ends -> {"select", "write", "closeFrame", "announced", "ended"}]
      BY <2>1 DEF Take, TypeOK
    <3> QED
      BY <2>1, <3>1, <3>2 DEF Take, TypeOK, handleVars
  <2>2. CASE Write(x)
    <3>1. taken[x] \in Packets
      BY <1>a, <2>2 DEF Write, TypeOK, TakenInv, Packets
    <3>2. Append(wire[x], taken[x]) \in Seq(Messages)
      BY <3>1 DEF TypeOK, Messages
    <3> QED
      BY <2>2, <3>2 DEF Write, TypeOK, handleVars
  <2>3. CASE WebSocketWriteFails(x)
    BY <2>3, <2>c DEF WebSocketWriteFails, Announce, TypeOK, handleVars
  <2>4. CASE QuicWriteFails(x) \/ CloseFrame(x) \/ QuicShutdown(x)
    BY <2>4, <2>d DEF QuicWriteFails, CloseFrame, QuicShutdown, TypeOK, handleVars
  <2>5. CASE WebSocketMessage(x)
    <3>1. wire[y] # <<>> /\ wire' = [wire EXCEPT ![y] = Tail(@)] /\ Incoming(x) \in Messages \ {Bye}
      <4>1. wire[y] # <<>> /\ wire' = [wire EXCEPT ![y] = Tail(@)] /\ Incoming(x) # Bye
        BY <2>5 DEF WebSocketMessage, Reading, Consume
      <4>2. Incoming(x) \in Messages
        BY <2>a, <2>b, <4>1 DEF Incoming, TypeOK
      <4> QED
        BY <4>1, <4>2
    <3>2. delivered' = delivered \/ delivered' = [delivered EXCEPT ![x] = Append(@, 0)]
          \/ (Incoming(x) \in Packets /\ delivered' = [delivered EXCEPT ![x] = Append(@, Incoming(x))])
      BY <2>5, <3>1 DEF WebSocketMessage, Messages
    <3>3. delivered' \in [Ends -> Seq(Packets \cup {0})]
      <4>1. delivered \in [Ends -> Seq(Packets \cup {0})]
        BY DEF TypeOK
      <4>2. \A p \in Packets \cup {0} : Append(delivered[x], p) \in Seq(Packets \cup {0})
        BY <4>1
      <4>3. delivered' = delivered
            \/ \E p \in Packets \cup {0} : delivered' = [delivered EXCEPT ![x] = Append(delivered[x], p)]
        BY <3>2
      <4> QED
        BY <4>1, <4>2, <4>3
    <3>4. wire' \in [Ends -> Seq(Messages)]
      BY <2>a, <2>b, <3>1 DEF TypeOK
    <3> QED
      BY <2>5, <3>3, <3>4 DEF WebSocketMessage, TypeOK, handleVars
  <2>6. CASE WebSocketClosed(x)
    <3>1. wire' \in [Ends -> Seq(Messages)]
      BY <2>6, <2>a, <2>b DEF WebSocketClosed, Reading, Consume, TypeOK
    <3> QED
      BY <2>6, <2>c, <3>1 DEF WebSocketClosed, Announce, TypeOK, handleVars
  <2>7. CASE ClearFlag(x)
    <3>1. endedBy[x] \in {"signal", "peer", "write"}
      BY <2>7 DEF ClearFlag, AnnouncedInv
    <3> QED
      BY <2>7, <2>d, <3>1 DEF ClearFlag, TypeOK, handleVars
  <2>8. CASE QuicStream(x)
    <3>1. wire[y] # <<>> /\ wire' = [wire EXCEPT ![y] = Tail(@)] /\ Incoming(x) \in Packets
      <4>1. wire[y] # <<>> /\ wire' = [wire EXCEPT ![y] = Tail(@)] /\ Incoming(x) \in Messages \ {Bye}
        BY <2>8, <2>a, <2>b DEF QuicStream, Reading, Consume, Incoming, TypeOK
      <4>2. ~foreign /\ Incoming(x) = wire[y][1] /\ 1 \in 1..Len(wire[y])
        BY <2>8, <2>a, <4>1, Dequeued DEF QuicStream, ForeignInv, Incoming, TypeOK
      <4>3. Incoming(x) \notin {Text, Ping}
        BY <2>a, <4>2 DEF ForeignInv
      <4> QED
        BY <4>1, <4>3 DEF Messages
    <3>2. delivered' \in [Ends -> Seq(Packets \cup {0})]
      BY <2>8, <3>1 DEF QuicStream, TypeOK
    <3>3. wire' \in [Ends -> Seq(Messages)]
      BY <2>a, <2>b, <3>1 DEF TypeOK
    <3> QED
      BY <2>8, <3>2, <3>3 DEF QuicStream, TypeOK, handleVars
  <2>9. CASE QuicClosed(x)
    BY <2>9, <2>c, <2>d DEF QuicClosed, Announce, TypeOK, handleVars
  <2>10. CASE WebSocketShutdown(x)
    BY <2>10 DEF WebSocketShutdown, TypeOK, handleVars
  <2> QED
    BY <1>3, <2>1, <2>2, <2>3, <2>4, <2>5, <2>6, <2>7, <2>8, <2>9, <2>10 DEF LoopStep
<1> QED
  BY <1>1, <1>2, <1>3 DEF Next

-----------------------------------------------------------------------------
(* Messages and announcements                                              *)

LEMMA ForeignStep ==
  ASSUME AdapterLinkAssumption, IInv, Next
  PROVE  ForeignInv'
<1> USE DEF IInv
<1>1. kind' = kind /\ foreign' = foreign
  BY DEF Next, ForeignMessage, Send, Close, CloseReturns, Drop, LoopStep, Take, Write,
         WebSocketWriteFails, QuicWriteFails, WebSocketMessage, WebSocketClosed, ClearFlag,
         QuicStream, QuicClosed, WebSocketShutdown, CloseFrame, QuicShutdown
<1> SUFFICES ASSUME ~foreign
             PROVE  \A e \in Ends : \A i \in 1..Len(wire'[e]) : wire'[e][i] \notin {Text, Ping}
  BY <1>1 DEF ForeignInv
<1>2. \A e \in Ends : /\ wire[e] \in Seq(Messages)
                      /\ \A i \in 1..Len(wire[e]) : wire[e][i] \notin {Text, Ping}
  BY DEF ForeignInv, TypeOK
<1>3. CASE wire' = wire
  BY <1>2, <1>3
<1>4. ASSUME NEW x \in Ends, NEW why, HangUp(x, why)
      PROVE  \A e \in Ends : \A i \in 1..Len(wire'[e]) : wire'[e][i] \notin {Text, Ping}
  BY <1>4, HungUp
<1>5. ASSUME NEW x \in Ends, Write(x), wire' # wire
      PROVE  \A e \in Ends : \A i \in 1..Len(wire'[e]) : wire'[e][i] \notin {Text, Ping}
  <2>1. wire' = [wire EXCEPT ![x] = Append(wire[x], taken[x])]
    BY <1>5 DEF Write
  <2>2. taken[x] \in Packets
    BY <1>5 DEF Write, TypeOK, TakenInv, Packets, AdapterLinkAssumption
  <2>3. taken[x] \in Messages /\ taken[x] \notin {Text, Ping}
    BY <2>2 DEF Messages, AdapterLinkAssumption
  <2>4. \A i \in 1..Len(Append(wire[x], taken[x])) : Append(wire[x], taken[x])[i] \notin {Text, Ping}
    <3>1. \A i \in 1..(Len(wire[x]) + 1) : i \in 1..Len(wire[x]) \/ i = Len(wire[x]) + 1
      BY <1>2
    <3> QED
      BY <1>2, <2>3, <3>1, Appended
  <2>5. wire'[x] = Append(wire[x], taken[x]) /\ \A e \in Ends : e # x => wire'[e] = wire[e]
    BY <2>1 DEF TypeOK
  <2> QED
    BY <1>2, <2>4, <2>5
<1>6. ASSUME NEW x \in Ends, NEW y \in Ends, wire[y] # <<>>, wire' = [wire EXCEPT ![y] = Tail(@)]
      PROVE  \A e \in Ends : \A i \in 1..Len(wire'[e]) : wire'[e][i] \notin {Text, Ping}
  <2>1. wire'[y] = Tail(wire[y]) /\ \A e \in Ends : e # y => wire'[e] = wire[e]
    BY <1>6 DEF TypeOK
  <2>2. \A i \in 1..Len(Tail(wire[y])) : Tail(wire[y])[i] \notin {Text, Ping}
    <3>1. /\ Len(wire[y]) \in Nat /\ Len(Tail(wire[y])) = Len(wire[y]) - 1
          /\ \A i \in 1..(Len(wire[y]) - 1) : Tail(wire[y])[i] = wire[y][i + 1]
      BY <1>2, <1>6, Dequeued
    <3>2. \A i \in 1..(Len(wire[y]) - 1) : i + 1 \in 1..Len(wire[y])
      BY <3>1
    <3> QED
      BY <1>2, <3>1, <3>2
  <2> QED
    BY <1>2, <2>1, <2>2
<1>7. CASE ForeignMessage
  BY <1>7 DEF ForeignMessage
<1>8. ASSUME NEW x \in Ends, Send(x) \/ Close(x) \/ CloseReturns(x) \/ Drop(x) PROVE wire' = wire
  BY <1>8 DEF Send, Close, CloseReturns, Drop, loopVars
<1>9. ASSUME NEW x \in Ends, LoopStep(x)
      PROVE  \/ wire' = wire \/ Write(x)
             \/ \E why : HangUp(x, why)
             \/ wire[Other(x)] # <<>> /\ wire' = [wire EXCEPT ![Other(x)] = Tail(@)]
  BY <1>9 DEF LoopStep, Take, WebSocketWriteFails, QuicWriteFails, WebSocketMessage, WebSocketClosed,
              ClearFlag, QuicStream, QuicClosed, WebSocketShutdown, CloseFrame, QuicShutdown,
              Reading, Consume
<1> QED
  BY <1>3, <1>4, <1>5, <1>6, <1>7, <1>8, <1>9, TwoEnds DEF Next

LEMMA AnnouncedStep ==
  ASSUME AdapterLinkAssumption, IInv, Next
  PROVE  AnnouncedInv' /\ TakenInv'
<1> USE DEF IInv
<1>1. kind' = kind /\ kind \in {"websocket", "quic"}
  BY DEF TypeOK, AdapterLinkAssumption, Next, ForeignMessage, Send, Close, CloseReturns, Drop,
         LoopStep, Take, Write, WebSocketWriteFails, QuicWriteFails, WebSocketMessage,
         WebSocketClosed, ClearFlag, QuicStream, QuicClosed, WebSocketShutdown, CloseFrame,
         QuicShutdown
<1>2. ASSUME UNCHANGED <<loop, taken, closes, endedBy>> PROVE AnnouncedInv' /\ TakenInv'
  BY <1>1, <1>2 DEF AnnouncedInv, TakenInv
<1>3. CASE ForeignMessage
  BY <1>2, <1>3 DEF ForeignMessage
<1>4. ASSUME NEW x \in Ends, Send(x) \/ Close(x) \/ CloseReturns(x) \/ Drop(x)
      PROVE  AnnouncedInv' /\ TakenInv'
  BY <1>2, <1>4 DEF Send, Close, CloseReturns, Drop, loopVars
<1>5. ASSUME NEW x \in Ends, LoopStep(x) PROVE AnnouncedInv' /\ TakenInv'
  <2>1. ASSUME \A e \in Ends : e # x => /\ loop'[e] = loop[e] /\ taken'[e] = taken[e]
                                       /\ closes'[e] = closes[e] /\ endedBy'[e] = endedBy[e],
               loop'[x] = "write" => taken'[x] > 0,
               loop'[x] \in {"select", "write", "closeFrame"} => closes'[x] = <<>> /\ endedBy'[x] = "no",
               loop'[x] = "announced" =>
                 Len(closes'[x]) = 1 /\ endedBy'[x] \in {"peer", "write"} /\ kind = "websocket",
               loop'[x] = "ended" =>
                 /\ endedBy'[x] # "no"
                 /\ endedBy'[x] = "signal" => closes'[x] = <<>>
                 /\ endedBy'[x] = "peer" => Len(closes'[x]) = 1
                 /\ endedBy'[x] = "write" =>
                      IF kind = "quic" THEN closes'[x] = <<>> ELSE Len(closes'[x]) = 1
        PROVE  AnnouncedInv' /\ TakenInv'
    BY <1>1, <2>1 DEF AnnouncedInv, TakenInv
  <2>2. ASSUME NEW why, HangUp(x, why)
        PROVE  /\ loop'[x] = "ended" /\ endedBy'[x] = why
               /\ \A e \in Ends : e # x => loop'[e] = loop[e] /\ endedBy'[e] = endedBy[e]
    BY <2>2 DEF HangUp, TypeOK
  <2>3. ASSUME NEW r, Announce(x, r), closes[x] = <<>>, r \in {"normal", "error"}
        PROVE  Len(closes'[x]) = 1 /\ \A e \in Ends : e # x => closes'[e] = closes[e]
    <3>1. closes'[x] = Append(closes[x], r) /\ \A e \in Ends : e # x => closes'[e] = closes[e]
      BY <2>3 DEF Announce, TypeOK
    <3>2. Len(Append(closes[x], r)) = 1
      BY <2>3
    <3> QED
      BY <3>1, <3>2
  <2>4. loop[x] \in {"select", "write", "closeFrame"} => closes[x] = <<>> /\ endedBy[x] = "no"
    BY DEF AnnouncedInv
  <2>5. CASE Take(x)
    <3>1. /\ loop'[x] = "write" /\ loop[x] = "select" /\ taken'[x] = taken[x] + 1 /\ taken[x] \in Nat
          /\ closes' = closes /\ endedBy' = endedBy
          /\ \A e \in Ends : e # x => loop'[e] = loop[e] /\ taken'[e] = taken[e]
      BY <2>5 DEF Take, TypeOK, AdapterLinkAssumption
    <3> QED
      BY <2>1, <2>4, <3>1
  <2>6. CASE Write(x) \/ WebSocketShutdown(x)
    <3>1. /\ loop'[x] \in {"select", "closeFrame"} /\ loop[x] \in {"select", "write"} /\ taken' = taken
          /\ closes' = closes /\ endedBy' = endedBy
          /\ \A e \in Ends : e # x => loop'[e] = loop[e]
      BY <2>6 DEF Write, WebSocketShutdown, TypeOK
    <3> QED
      BY <2>1, <2>4, <3>1
  <2>7. CASE WebSocketWriteFails(x)
    <3>1. /\ loop'[x] = "announced" /\ loop[x] = "write" /\ taken' = taken /\ endedBy'[x] = "write"
          /\ kind = "websocket" /\ Announce(x, "error")
          /\ \A e \in Ends : e # x => loop'[e] = loop[e] /\ endedBy'[e] = endedBy[e]
      BY <2>7 DEF WebSocketWriteFails, TypeOK
    <3> QED
      BY <2>1, <2>3, <2>4, <3>1
  <2>8. CASE QuicWriteFails(x)
    <3>1. loop[x] = "write" /\ taken' = taken /\ kind = "quic" /\ closes' = closes /\ HangUp(x, "write")
      BY <2>8 DEF QuicWriteFails
    <3> QED
      BY <2>1, <2>2, <2>4, <3>1
  <2>9. CASE WebSocketMessage(x) \/ QuicStream(x)
    BY <1>2, <2>9 DEF WebSocketMessage, QuicStream
  <2>10. CASE WebSocketClosed(x)
    <3>1. /\ loop'[x] = "announced" /\ loop[x] = "select" /\ taken' = taken /\ endedBy'[x] = "peer"
          /\ kind = "websocket" /\ Announce(x, "normal")
          /\ \A e \in Ends : e # x => loop'[e] = loop[e] /\ endedBy'[e] = endedBy[e]
      BY <2>10 DEF WebSocketClosed, Reading, TypeOK
    <3> QED
      BY <2>1, <2>3, <2>4, <3>1
  <2>11. CASE ClearFlag(x)
    <3>1. loop[x] = "announced" /\ taken' = taken /\ closes' = closes /\ HangUp(x, endedBy[x])
      BY <2>11 DEF ClearFlag
    <3>2. Len(closes[x]) = 1 /\ endedBy[x] \in {"peer", "write"} /\ kind = "websocket"
      BY <3>1 DEF AnnouncedInv
    <3> QED
      BY <2>1, <2>2, <3>1, <3>2
  <2>12. CASE QuicClosed(x)
    <3>1. PICK r \in {"normal", "error"} : Announce(x, r)
      BY <2>12 DEF QuicClosed
    <3>2. loop[x] = "select" /\ taken' = taken /\ kind = "quic" /\ HangUp(x, "peer")
      BY <2>12 DEF QuicClosed, Reading
    <3> QED
      BY <2>1, <2>2, <2>3, <2>4, <3>1, <3>2
  <2>13. CASE CloseFrame(x) \/ QuicShutdown(x)
    <3>1. loop[x] \in {"select", "closeFrame"} /\ taken' = taken /\ closes' = closes /\ HangUp(x, "signal")
      BY <2>13 DEF CloseFrame, QuicShutdown
    <3> QED
      BY <2>1, <2>2, <2>4, <3>1
  <2> QED
    BY <1>5, <2>5, <2>6, <2>7, <2>8, <2>9, <2>10, <2>11, <2>12, <2>13 DEF LoopStep
<1> QED
  BY <1>3, <1>4, <1>5 DEF Next

-----------------------------------------------------------------------------
(* Order                                                                   *)

\* OrderInv for what x writes.
PathInv(x) ==
  /\ Ordered(wire[x], delivered[Other(x)], Written(x))
  /\ loop[x] \in {"select", "write"} /\ ~Ended(Other(x))
       => Complete(wire[x], delivered[Other(x)], Written(x))

LEMMA Paths ==
  /\ OrderInv <=> \A x \in Ends : PathInv(x)
  /\ OrderInv' <=> \A x \in Ends : PathInv(x)'
<1>1. OrderInv <=> \A x \in Ends : PathInv(x)
  BY TwoEnds DEF OrderInv, PathInv
<1>2. OrderInv' <=> \A x \in Ends : PathInv(x)'
  BY TwoEnds DEF OrderInv, PathInv
<1> QED
  BY <1>1, <1>2

LEMMA PathTypes ==
  ASSUME AdapterLinkAssumption, IInv, NEW x \in Ends
  PROVE  /\ wire[x] \in Seq(Messages) /\ delivered[Other(x)] \in Seq(Packets \cup {0})
         /\ taken[x] \in Nat /\ taken[x] <= MaxPackets
         /\ Written(x) \in Int /\ Written(x) <= taken[x] /\ Written(x) <= MaxPackets
         /\ loop[x] = "write" => Written(x) = taken[x] - 1 /\ Written(x) \in Nat /\ taken[x] \in Packets
         /\ loop[x] # "write" => Written(x) = taken[x]
         /\ PathInv(x)
BY TwoEnds, Paths DEF IInv, TypeOK, TakenInv, Written, Packets, AdapterLinkAssumption

(* Nothing moves on the path; at most its writer stops writing.             *)
LEMMA PathRests ==
  ASSUME AdapterLinkAssumption, IInv, NEW x \in Ends,
         wire'[x] = wire[x], delivered'[Other(x)] = delivered[Other(x)],
         Written(x)' \in Int, Written(x) <= Written(x)',
         loop'[x] \in {"select", "write"} /\ ~Ended(Other(x))' =>
           loop[x] \in {"select", "write"} /\ ~Ended(Other(x)) /\ Written(x)' = Written(x)
  PROVE  PathInv(x)'
<1>1. /\ wire[x] \in Seq(Messages) /\ delivered[Other(x)] \in Seq(Packets \cup {0})
      /\ Written(x) \in Int /\ PathInv(x)
  BY PathTypes
<1>2. Ordered(wire'[x], delivered'[Other(x)], Written(x)')
  BY <1>1, LaterWritten DEF PathInv
<1> QED
  BY <1>1, <1>2 DEF PathInv

(* The writer is gone: completeness does not matter any more.               *)
LEMMA PathEnds ==
  ASSUME AdapterLinkAssumption, IInv, NEW x \in Ends, NEW why, HangUp(x, why),
         taken' = taken, delivered' = delivered
  PROVE  OrderInv'
<1> DEFINE y == Other(x)
<1>1. /\ y \in Ends /\ y # x /\ Other(y) = x /\ \A e \in Ends : e = x \/ e = y
  BY TwoEnds
<1>2. /\ Ordered(wire'[x], delivered[y], Written(x)) /\ Ordered(wire'[y], delivered[x], Written(y))
      /\ wire' \in [Ends -> Seq(Messages)]
  BY HungUp DEF IInv
<1>3. loop'[x] = "ended" /\ loop'[y] = loop[y]
  BY <1>1 DEF HangUp, IInv, TypeOK
<1>4. PathInv(x)'
  <2>1. Written(x)' = taken[x] /\ ~(loop'[x] \in {"select", "write"})
    BY <1>3 DEF Written
  <2>2. /\ wire'[x] \in Seq(Messages) /\ delivered[y] \in Seq(Packets \cup {0})
        /\ Written(x) \in Int /\ taken[x] \in Int /\ Written(x) <= taken[x]
    BY <1>2, PathTypes
  <2>3. Ordered(wire'[x], delivered[y], taken[x])
    BY <1>2, <2>2, LaterWritten
  <2> QED
    BY <2>1, <2>3 DEF PathInv
<1>5. PathInv(y)'
  <2>1. Written(y)' = Written(y) /\ Ended(Other(y))'
    BY <1>1, <1>3 DEF Written, Ended
  <2> QED
    BY <1>1, <1>2, <2>1 DEF PathInv
<1> QED
  BY <1>1, <1>4, <1>5, Paths

LEMMA OrderStep ==
  ASSUME AdapterLinkAssumption, IInv, Next
  PROVE  OrderInv'
<1>1. ASSUME UNCHANGED <<taken, loop, wire, delivered>> PROVE OrderInv'
  BY <1>1 DEF IInv, OrderInv, Written, Ended
<1>2. ASSUME NEW x \in Ends, Send(x) \/ Close(x) \/ CloseReturns(x) \/ Drop(x) PROVE OrderInv'
  BY <1>1, <1>2 DEF Send, Close, CloseReturns, Drop, loopVars
<1>3. CASE ForeignMessage
  <2>1. PICK m \in {Text, Ping} : wire' = [wire EXCEPT !["client"] = Append(@, m)]
    BY <1>3 DEF ForeignMessage
  <2>2. UNCHANGED <<taken, loop, delivered>>
    BY <1>3 DEF ForeignMessage
  <2>3. m \in Messages \ Packets
    BY DEF Messages, AdapterLinkAssumption
  <2>4. /\ wire'["client"] = Append(wire["client"], m) /\ wire'["server"] = wire["server"]
        /\ "client" \in Ends /\ "server" \in Ends /\ \A e \in Ends : e = "client" \/ e = "server"
    BY <2>1 DEF IInv, TypeOK, Ends
  <2>5. PathInv("client")'
    <3>1. wire["client"] \in Seq(Messages) /\ PathInv("client")
      BY <2>4, PathTypes
    <3> QED
      BY <2>2, <2>3, <2>4, <3>1, WriteOther DEF PathInv, Written, Ended
  <2>6. PathInv("server")'
    BY <2>2, <2>4, PathTypes DEF PathInv, Written, Ended
  <2> QED
    BY <2>4, <2>5, <2>6, Paths
<1>4. ASSUME NEW x \in Ends, LoopStep(x) PROVE OrderInv'
  <2> DEFINE y == Other(x)
  <2>a. y \in Ends /\ y # x /\ Other(y) = x /\ \A e \in Ends : e = x \/ e = y
    BY TwoEnds
  <2>b. /\ wire[x] \in Seq(Messages) /\ delivered[y] \in Seq(Packets \cup {0})
        /\ taken[x] \in Nat /\ Written(x) \in Int /\ Written(x) <= taken[x]
        /\ loop[x] = "write" => Written(x) = taken[x] - 1 /\ Written(x) \in Nat /\ taken[x] \in Packets
        /\ loop[x] # "write" => Written(x) = taken[x]
        /\ PathInv(x)
    BY PathTypes
  <2>c. /\ wire[y] \in Seq(Messages) /\ delivered[x] \in Seq(Packets \cup {0})
        /\ Written(y) \in Int /\ Written(y) <= MaxPackets /\ PathInv(y)
    BY <2>a, PathTypes
  <2>d. PathInv(x)' /\ PathInv(y)' => OrderInv'
    BY <2>a, Paths
  <2>e. /\ wire \in [Ends -> Seq(Messages)] /\ delivered \in [Ends -> Seq(Packets \cup {0})]
        /\ loop \in [Ends -> {"select", "write", "closeFrame", "announced", "ended"}]
        /\ taken \in [Ends -> 0..MaxPackets]
    BY DEF IInv, TypeOK
  <2> HIDE DEF y
  \* The loop of x moves and leaves the wires alone.
  <2>1. ASSUME UNCHANGED <<wire, delivered>>, loop'[y] = loop[y], taken'[y] = taken[y],
               ~Ended(x), Written(x)' \in Int, Written(x) <= Written(x)',
               loop'[x] \in {"select", "write"} =>
                 loop[x] \in {"select", "write"} /\ (Written(x)' = Written(x) \/ Ended(y))
        PROVE  OrderInv'
    <3>1. Written(y)' = Written(y) /\ (Ended(y)' <=> Ended(y))
      BY <2>1 DEF Written, Ended
    <3>2. PathInv(x)'
      BY <2>1, <2>b, <3>1, PathRests DEF y
    <3>3. PathInv(y)'
      <4>1. loop'[y] \in {"select", "write"} /\ ~Ended(x)' => loop[y] \in {"select", "write"} /\ ~Ended(x)
        BY <2>1
      <4> QED
        BY <2>1, <2>a, <2>c, <3>1, <4>1 DEF PathInv
    <3> QED
      BY <2>d, <3>2, <3>3
  \* x reads what y wrote.
  <2>2. ASSUME wire[y] # <<>>, wire' = [wire EXCEPT ![y] = Tail(@)], taken' = taken,
               loop[x] = "select", loop'[x] # "write", loop'[y] = loop[y],
               \/ delivered' = delivered /\ Head(wire[y]) \notin Packets
               \/ delivered' = [delivered EXCEPT ![x] = Append(@, 0)] /\ Head(wire[y]) \notin Packets
               \/ delivered' = [delivered EXCEPT ![x] = Append(@, Head(wire[y]))] /\ Head(wire[y]) \in Packets
        PROVE  OrderInv'
    <3>1. /\ wire'[x] = wire[x] /\ wire'[y] = Tail(wire[y]) /\ delivered'[y] = delivered[y]
          /\ Tail(wire[y]) \in Seq(Messages)
      BY <2>2, <2>a, <2>c, <2>e, Dequeued
    <3>2. Written(x)' = Written(x) /\ Written(y)' = Written(y) /\ (Ended(y)' <=> Ended(y)) /\ ~Ended(x)
      BY <2>2 DEF Written, Ended
    <3>3. PathInv(x)'
      BY <2>2, <2>b, <3>1, <3>2 DEF PathInv, y
    <3>4. PathInv(y)'
      <4>1. Ordered(wire[y], delivered[x], Written(y))
        BY <2>a, <2>c DEF PathInv
      <4> SUFFICES /\ Ordered(wire'[y], delivered'[x], Written(y))
                   /\ Complete(wire[y], delivered[x], Written(y))
                        => Complete(wire'[y], delivered'[x], Written(y))
        BY <2>2, <2>a, <2>c, <3>2 DEF PathInv
      <4>2. CASE Head(wire[y]) \in Packets
        <5>1. delivered'[x] = Append(delivered[x], Head(wire[y]))
          BY <2>2, <2>e, <4>2
        <5> QED
          BY <2>2, <2>c, <3>1, <4>1, <4>2, <5>1, ReadPacket
      <4>3. CASE Head(wire[y]) \notin Packets
        <5>1. /\ Ordered(Tail(wire[y]), delivered[x], Written(y))
              /\ Complete(wire[y], delivered[x], Written(y))
                   => Complete(Tail(wire[y]), delivered[x], Written(y))
          BY <2>2, <2>c, <4>1, <4>3, ReadOther
        <5>2. delivered'[x] = delivered[x] \/ delivered'[x] = Append(delivered[x], 0)
          BY <2>2, <2>e, <4>3
        <5> QED
          BY <2>c, <3>1, <5>1, <5>2, DeliverOther
      <4> QED
        BY <4>2, <4>3
    <3> QED
      BY <2>d, <3>3, <3>4
  <2>3. CASE Take(x)
    <3>1. /\ UNCHANGED <<wire, delivered>> /\ loop[x] = "select" /\ loop'[x] = "write"
          /\ taken'[x] = taken[x] + 1 /\ loop'[y] = loop[y] /\ taken'[y] = taken[y]
      BY <2>3, <2>a, <2>e DEF Take
    <3>2. Written(x)' = Written(x) /\ ~Ended(x)
      BY <2>b, <3>1 DEF Written, Ended
    <3> QED
      BY <2>1, <2>b, <3>1, <3>2
  <2>4. CASE WebSocketWriteFails(x) \/ WebSocketShutdown(x)
    <3>1. /\ UNCHANGED <<wire, delivered, taken>> /\ loop[x] \in {"select", "write"}
          /\ loop'[x] \in {"announced", "closeFrame"} /\ loop'[y] = loop[y]
      BY <2>4, <2>a, <2>e DEF WebSocketWriteFails, WebSocketShutdown
    <3>2. Written(x)' = taken[x] /\ ~Ended(x)
      BY <3>1 DEF Written, Ended
    <3> QED
      BY <2>1, <2>b, <3>1, <3>2
  <2>5. CASE Write(x)
    <3>1. /\ loop[x] = "write" /\ loop'[x] = "select" /\ loop'[y] = loop[y] /\ taken' = taken
          /\ delivered' = delivered /\ Written(x)' = taken[x] /\ ~Ended(x)
          /\ wire' = IF Ended(y) THEN wire ELSE [wire EXCEPT ![x] = Append(@, taken[x])]
      BY <2>5, <2>a, <2>e DEF Write, Written, Ended, y
    <3>2. CASE Ended(y)
      BY <2>1, <2>b, <3>1, <3>2
    <3>3. CASE ~Ended(y)
      <4>1. wire'[x] = Append(wire[x], taken[x]) /\ wire'[y] = wire[y]
        BY <2>a, <2>e, <3>1, <3>3
      <4>2. PathInv(x)'
        <5>1. PICK n \in Nat : n = Written(x) /\ taken[x] = n + 1 /\ n + 1 \in Packets
          BY <2>b, <3>1
        <5>2. Ordered(wire[x], delivered[y], n) /\ Complete(wire[x], delivered[y], n)
          BY <2>b, <3>1, <3>3, <5>1 DEF PathInv, y
        <5>3. Ordered(wire'[x], delivered'[y], n + 1) /\ Complete(wire'[x], delivered'[y], n + 1)
          BY <2>b, <3>1, <4>1, <5>1, <5>2, WritePacket
        <5> QED
          BY <3>1, <5>1, <5>3 DEF PathInv, y
      <4>3. PathInv(y)'
        <5>1. Written(y)' = Written(y) /\ ~Ended(x)' /\ delivered'[x] = delivered[x]
          BY <3>1 DEF Written, Ended
        <5> QED
          BY <2>a, <2>c, <3>1, <4>1, <5>1 DEF PathInv
      <4> QED
        BY <2>d, <4>2, <4>3
    <3> QED
      BY <3>2, <3>3
  <2>6. CASE QuicWriteFails(x) \/ ClearFlag(x) \/ QuicClosed(x) \/ CloseFrame(x) \/ QuicShutdown(x)
    <3>1. \E why : HangUp(x, why)
      BY <2>6 DEF QuicWriteFails, ClearFlag, QuicClosed, CloseFrame, QuicShutdown
    <3>2. taken' = taken /\ delivered' = delivered
      BY <2>6 DEF QuicWriteFails, ClearFlag, QuicClosed, CloseFrame, QuicShutdown
    <3> QED
      BY <3>1, <3>2, PathEnds
  <2>7. CASE WebSocketMessage(x)
    <3>1. /\ wire[y] # <<>> /\ wire' = [wire EXCEPT ![y] = Tail(@)] /\ UNCHANGED <<taken, loop>>
          /\ loop[x] = "select" /\ Head(wire[y]) # Bye
          /\ delivered' = CASE Head(wire[y]) = Ping -> delivered
                            [] Head(wire[y]) = Text -> [delivered EXCEPT ![x] = Append(@, 0)]
                            [] OTHER -> [delivered EXCEPT ![x] = Append(@, Head(wire[y]))]
      BY <2>7 DEF WebSocketMessage, Reading, Consume, Incoming, y
    <3>2. Head(wire[y]) \in Packets \cup {Text, Ping} /\ {Text, Ping} \cap Packets = {} /\ Text # Ping
      <4>1. Head(wire[y]) \in Messages
        BY <2>c, <3>1, Dequeued
      <4> QED
        BY <3>1, <4>1 DEF Messages, AdapterLinkAssumption
    <3>3. \/ delivered' = delivered /\ Head(wire[y]) \notin Packets
          \/ delivered' = [delivered EXCEPT ![x] = Append(@, 0)] /\ Head(wire[y]) \notin Packets
          \/ delivered' = [delivered EXCEPT ![x] = Append(@, Head(wire[y]))] /\ Head(wire[y]) \in Packets
      BY <3>1, <3>2
    <3> QED
      BY <2>2, <3>1, <3>3
  <2>8. CASE WebSocketClosed(x)
    <3>1. /\ wire[y] # <<>> /\ wire' = [wire EXCEPT ![y] = Tail(@)] /\ taken' = taken
          /\ loop[x] = "select" /\ loop'[x] = "announced" /\ loop'[y] = loop[y]
          /\ delivered' = delivered /\ Head(wire[y]) = Bye
      BY <2>8, <2>a, <2>e DEF WebSocketClosed, Reading, Consume, Incoming, y
    <3>2. Head(wire[y]) \notin Packets
      BY <3>1 DEF AdapterLinkAssumption
    <3> QED
      BY <2>2, <3>1, <3>2
  <2>9. CASE QuicStream(x)
    <3>1. /\ wire[y] # <<>> /\ wire' = [wire EXCEPT ![y] = Tail(@)] /\ UNCHANGED <<taken, loop>>
          /\ loop[x] = "select" /\ Head(wire[y]) # Bye /\ kind = "quic"
          /\ delivered' = [delivered EXCEPT ![x] = Append(@, Head(wire[y]))]
      BY <2>9 DEF QuicStream, Reading, Consume, Incoming, y
    <3>2. Head(wire[y]) \in Packets
      <4>1. Head(wire[y]) \in Messages /\ Head(wire[y]) = wire[y][1] /\ 1 \in 1..Len(wire[y])
        BY <2>c, <3>1, Dequeued
      <4>2. Head(wire[y]) \notin {Text, Ping}
        BY <2>a, <3>1, <4>1 DEF IInv, ForeignInv
      <4> QED
        BY <3>1, <4>1, <4>2 DEF Messages
    <3> QED
      BY <2>2, <3>1, <3>2
  <2> QED
    BY <1>4, <2>3, <2>4, <2>5, <2>6, <2>7, <2>8, <2>9 DEF LoopStep
<1> QED
  BY <1>2, <1>3, <1>4 DEF Next

-----------------------------------------------------------------------------
(* Theorems                                                                *)

LEMMA Invariance == ASSUME AdapterLinkAssumption PROVE Spec => []IInv
<1>1. Init => IInv
  BY InitInv
<1>2. IInv /\ [Next]_vars => IInv'
  <2>1. ASSUME IInv, UNCHANGED vars PROVE IInv'
    BY <2>1 DEF vars, handleVars, loopVars, IInv, TypeOK, ForeignInv, AnnouncedInv, TakenInv, OrderInv,
                Written, Ended
  <2>2. ASSUME IInv, Next PROVE IInv'
    BY <2>2, TypeStep, ForeignStep, AnnouncedStep, OrderStep DEF IInv
  <2> QED
    BY <2>1, <2>2
<1> QED
  BY <1>1, <1>2, PTL DEF Spec

(* Every variable keeps its type; a loop takes only what was queued.        *)
THEOREM TypeCorrect == ASSUME AdapterLinkAssumption PROVE Spec => []TypeOK
<1>1. IInv => TypeOK
  BY DEF IInv
<1> QED
  BY Invariance, <1>1, PTL

(* Over WebSocket and QUIC, packets arrive as they were sent: in order,     *)
(* none twice, none left out in the middle, whoever hangs up, and whatever  *)
(* else the other end sends.                                                *)
THEOREM InOrderTheorem == ASSUME AdapterLinkAssumption PROVE Spec => []InOrder
<1>1. ASSUME IInv PROVE InOrder
  <2> SUFFICES ASSUME NEW e \in Ends, NEW i \in DOMAIN delivered[e], delivered[e][i] # 0
               PROVE  /\ delivered[e][i] <= taken[Other(e)]
                      /\ \A j \in 1..(i - 1) : delivered[e][j] < delivered[e][i]
                      /\ \A q \in 1..(delivered[e][i] - 1) :
                           \E j \in 1..(i - 1) : delivered[e][j] = q
    BY DEF InOrder
  <2>1. /\ delivered[e] \in Seq(Packets \cup {0}) /\ i \in 1..Len(delivered[e])
        /\ delivered[e][i] \in Nat
    BY <1>1 DEF IInv, TypeOK, Packets
  <2>2. DeliveredInOrder(delivered[e], Written(Other(e)))
    BY <1>1 DEF IInv, OrderInv, Ordered
  <2>3. PICK n \in Int : n = Written(Other(e)) /\ n <= taken[Other(e)] /\ taken[Other(e)] \in Nat
    BY <1>1, TwoEnds, PathTypes
  <2>4. /\ delivered[e][i] <= n
        /\ \A j \in 1..(i - 1) : delivered[e][j] < delivered[e][i]
        /\ \A q \in 1..(delivered[e][i] - 1) : \E j \in 1..(i - 1) : delivered[e][j] = q
    BY <2>1, <2>2, <2>3 DEF DeliveredInOrder
  <2> QED
    BY <2>1, <2>3, <2>4
<1> QED
  BY Invariance, <1>1, PTL

(* An event loop that ends on its own has told the session so exactly once, *)
(* one that was told to end does not.                                       *)
THEOREM AnnouncedOnceTheorem == ASSUME AdapterLinkAssumption PROVE Spec => []AnnouncedOnce
<1>1. ASSUME IInv PROVE AnnouncedOnce
  <2>1. \A e \in Ends : /\ loop[e] \in {"select", "write", "closeFrame", "announced", "ended"}
                        /\ endedBy[e] \in {"no", "signal", "peer", "write"}
                        /\ closes[e] \in Seq({"normal", "error"})
    BY <1>1 DEF IInv, TypeOK
  <2> SUFFICES ASSUME NEW e \in Ends
               PROVE  /\ Len(closes[e]) <= 1
                      /\ endedBy[e] = "signal" => closes[e] = <<>>
                      /\ loop[e] = "ended" /\ endedBy[e] # "signal"
                         /\ ~(kind = "quic" /\ endedBy[e] = "write") => Len(closes[e]) = 1
    BY DEF AnnouncedOnce, Ended
  <2>2. /\ loop[e] \in {"select", "write", "closeFrame"} => closes[e] = <<>> /\ endedBy[e] = "no"
        /\ loop[e] = "announced" => Len(closes[e]) = 1 /\ endedBy[e] \in {"peer", "write"}
        /\ loop[e] = "ended" =>
             /\ endedBy[e] # "no"
             /\ endedBy[e] = "signal" => closes[e] = <<>>
             /\ endedBy[e] = "peer" => Len(closes[e]) = 1
             /\ endedBy[e] = "write" => IF kind = "quic" THEN closes[e] = <<>> ELSE Len(closes[e]) = 1
    BY <1>1 DEF IInv, AnnouncedInv
  <2>3. CASE loop[e] \in {"select", "write", "closeFrame"}
    BY <2>1, <2>2, <2>3
  <2>4. CASE loop[e] = "announced"
    <3>1. Len(closes[e]) = 1 /\ endedBy[e] # "signal" /\ loop[e] # "ended"
      BY <2>2, <2>4
    <3>2. Len(closes[e]) <= 1
      BY <3>1
    <3> QED
      BY <3>1, <3>2
  <2>5. CASE loop[e] = "ended"
    <3>1. CASE endedBy[e] = "signal" \/ (kind = "quic" /\ endedBy[e] = "write")
      <4>1. closes[e] = <<>>
        BY <2>2, <2>5, <3>1
      <4> QED
        BY <3>1, <4>1
    <3>2. CASE ~(endedBy[e] = "signal" \/ (kind = "quic" /\ endedBy[e] = "write"))
      <4>1. Len(closes[e]) = 1
        BY <2>1, <2>2, <2>5, <3>2
      <4>2. Len(closes[e]) <= 1
        BY <4>1
      <4> QED
        BY <3>2, <4>1, <4>2
    <3> QED
      BY <3>1, <3>2
  <2> QED
    BY <2>1, <2>3, <2>4, <2>5
<1> QED
  BY Invariance, <1>1, PTL

=============================================================================
