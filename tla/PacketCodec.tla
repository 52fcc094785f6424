----------------------------- MODULE PacketCodec -----------------------------
(***************************************************************************)
(* One message from the application of one program to that of another:     *)
(* options become a packet, the payload is compressed, the packet becomes  *)
(* bytes, and back (src/src/packet.rs, with send_with_options, on_event,   *)
(* decode_payload and the two request methods of                           *)
(* src/src/transport/transport.rs).                                        *)
(*                                                                         *)
(* Compression algorithms are optional features of each build, and neither *)
(* end learns which ones the other has: an end that cannot compress sends  *)
(* the data as it is, one that cannot decompress delivers what it got.     *)
(*                                                                         *)
(* Bytes are sequences: the fixed header counts as one element, and so     *)
(* does the output of a compressor, whose length therefore always fits its *)
(* field.  Business type and reserved flags pass through and are left out. *)
(***************************************************************************)
EXTENDS Naturals, Sequences

CONSTANTS
  Payloads,    \* data of the application
  ExtHeaders,  \* extended headers
  LengthRange, \* ext_header_len counts modulo this: 2^16 in the code
  PayloadRange,\* payload_len counts modulo this: 2^32 in the code
  Limit,       \* longest output of zstd::bulk::decompress: 1 MiB in the code
  Refused      \* an error

VARIABLES
  features,    \* compression features of the sending and of the receiving build
  stage,       \* "new", "packed", "wire", "parsed", "delivered"
  sent,        \* what the application handed over: data, ext_header, packet_type
  packet,      \* the packet at the sender
  form,        \* which implementation each end uses: Packet, its zero-copy one, SharedPacket
  wire,        \* the bytes under way
  cut,         \* bytes are missing at the end
  parsed,      \* the packet at the receiver, or Refused
  delivered    \* who in the receiving application gets it, and what it gets

vars == <<features, stage, sent, packet, form, wire, cut, parsed, delivered>>

Ends == {"sender", "receiver"}
Algorithms == {"zstd", "zlib"}
Forms == {"vec", "zerocopy", "shared"}

\* A response goes to the call that waits for it, other packets into a context.
Calls == {"request", "request_with_options"}
ReadersOf(type) == IF type = "Response" THEN Calls ELSE {"context"}

NoPacket == [header |-> <<>>, ext_header |-> <<>>, payload |-> <<>>]

TypeOK ==
  /\ features \in [Ends -> SUBSET Algorithms]
  /\ stage \in {"new", "packed", "wire", "parsed", "delivered"}
  /\ stage # "new" => sent.data \in Payloads /\ sent.ext_header \in ExtHeaders
  /\ (stage \notin {"new", "packed"} /\ ~cut) => wire # <<>>
  /\ form \in [Ends -> Forms] /\ cut \in BOOLEAN
  /\ (stage = "parsed" /\ parsed # Refused) =>
       /\ Len(parsed.ext_header) < LengthRange /\ Len(parsed.payload) < PayloadRange
       /\ Len(parsed.payload) = parsed.header.payload_len

-----------------------------------------------------------------------------
(* Types as bytes                                                          *)

PacketTypeByte == [OneWay |-> 0, Request |-> 1, Response |-> 2]
PacketTypeFrom(byte) ==
  CASE byte = 1 -> "Request" [] byte = 2 -> "Response" [] OTHER -> "OneWay"

CompressionByte == [none |-> 0, zstd |-> 1, zlib |-> 2]
CompressionFrom(byte) ==
  CASE byte = 1 -> "zstd" [] byte = 2 -> "zlib" [] OTHER -> "none"

\* Mutant: the length of the extended header has any width.
FixedHeaderWide(type, compression, ext_len, payload_len) ==
  [version |-> 1, compression |-> compression, packet_type |-> type,
   ext_header_len |-> ext_len, payload_len |-> payload_len % PayloadRange]

\* The lengths are stored in fields of fixed width.
FixedHeader(type, compression, ext_len, payload_len) ==
  [version |-> 1, compression |-> compression, packet_type |-> type,
   ext_header_len |-> ext_len % LengthRange, payload_len |-> payload_len % PayloadRange]

HeaderToBytes(h) ==
  [h EXCEPT !.compression = CompressionByte[@], !.packet_type = PacketTypeByte[@]]

HeaderFromBytes(b) ==
  [b EXCEPT !.compression = CompressionFrom(@), !.packet_type = PacketTypeFrom(@)]

-----------------------------------------------------------------------------
(* Compression                                                             *)

Compressed(algorithm, bytes) == << <<algorithm, bytes>> >>

\* What application data and the output of the compressors can be.
Data == Payloads \cup {Compressed(a, p) : a \in Algorithms, p \in Payloads}

\* Mutant: the length in the header stays that of the uncompressed data.
CompressWithoutLength(p, end) ==
  IF p.header.compression \in features[end]
  THEN [p EXCEPT !.payload = Compressed(p.header.compression, p.payload)]
  ELSE p

\* compress_payload: without the feature the packet stays as it is, and its
\* header still names the algorithm.
CompressPayload(p, end) ==
  IF p.header.compression \in features[end]
  THEN LET output == Compressed(p.header.compression, p.payload)
       IN  [p EXCEPT !.payload = output, !.header.payload_len = Len(output) % PayloadRange]
  ELSE p

\* decompress_data of the data, or Refused.
DecompressData(bytes, algorithm, end) ==
  LET sources == {d \in Data : bytes = Compressed(algorithm, d)
                               /\ (algorithm = "zstd" => Len(d) <= Limit)}
  IN  IF algorithm \in features[end] /\ sources # {}
      THEN CHOOSE d \in sources : TRUE ELSE Refused

-----------------------------------------------------------------------------
(* The three codecs                                                        *)

ToBytes(p) == <<HeaderToBytes(p.header)>> \o p.ext_header \o p.payload
ToBytesZeroCopy(p) == <<HeaderToBytes(p.header)>> \o (p.ext_header \o p.payload)
SharedToBytes(p) == (<<HeaderToBytes(p.header)>> \o p.ext_header) \o p.payload

Parse(h, body) ==
  LET start == h.ext_header_len  end == start + h.payload_len
  IN  IF h.version # 1 \/ Len(body) < end THEN Refused
      ELSE [header |-> HeaderFromBytes(h), ext_header |-> SubSeq(body, 1, start),
            payload |-> SubSeq(body, start + 1, end)]

FromBytes(b) == IF b = <<>> THEN Refused ELSE Parse(Head(b), Tail(b))

FromBytesZeroCopy(b) ==
  IF b = <<>> \/ Len(b) < 1 + b[1].ext_header_len + b[1].payload_len THEN Refused
  ELSE [header |-> HeaderFromBytes(b[1]), ext_header |-> SubSeq(b, 2, b[1].ext_header_len + 1),
        payload |-> SubSeq(b, b[1].ext_header_len + 2, b[1].ext_header_len + b[1].payload_len + 1)]

SharedFromBytes(b) ==
  IF b = <<>> THEN Refused
  ELSE LET ext == 1 + Head(b).ext_header_len  end == ext + Head(b).payload_len
       IN  IF Len(b) < end THEN Refused
           ELSE [header |-> HeaderFromBytes(Head(b)), ext_header |-> SubSeq(b, 2, ext),
                 payload |-> SubSeq(b, ext + 1, end)]

-----------------------------------------------------------------------------
Init ==
  /\ features \in [Ends -> SUBSET Algorithms]
  /\ stage = "new" /\ sent = <<>> /\ packet = NoPacket
  /\ form \in [Ends -> Forms]
  /\ wire = <<>> /\ cut = FALSE /\ parsed = Refused /\ delivered = <<>>

\* send_with_options and request_with_options build a packet and compress it; a
\* response is a packet that the application builds itself.
SendWithOptions(data, ext_header, type, compression) ==
  /\ stage = "new" /\ stage' = "packed"
  /\ sent' = [data |-> data, ext_header |-> ext_header, packet_type |-> type]
  /\ packet' = CompressPayload(
       [header |-> FixedHeader(type, compression, Len(ext_header), Len(data)),
        ext_header |-> ext_header, payload |-> data], "sender")
  /\ UNCHANGED <<features, form, wire, cut, parsed, delivered>>

Serialize ==
  /\ stage = "packed" /\ stage' = "wire"
  /\ wire' = CASE form["sender"] = "vec" -> ToBytes(packet)
               [] form["sender"] = "zerocopy" -> ToBytesZeroCopy(packet)
               [] OTHER -> SharedToBytes(packet)
  /\ UNCHANGED <<features, sent, packet, form, cut, parsed, delivered>>

\* The peer ends the message early.
CutShort ==
  /\ stage = "wire" /\ ~cut
  /\ \E n \in 0..(Len(wire) - 1) : wire' = SubSeq(wire, 1, n)
  /\ cut' = TRUE
  /\ UNCHANGED <<features, stage, sent, packet, form, parsed, delivered>>

Deserialize ==
  /\ stage = "wire" /\ stage' = "parsed"
  /\ parsed' = CASE form["receiver"] = "vec" -> FromBytes(wire)
                 [] form["receiver"] = "zerocopy" -> FromBytesZeroCopy(wire)
                 [] OTHER -> SharedFromBytes(wire)
  /\ UNCHANGED <<features, sent, packet, form, wire, cut, delivered>>

\* decode_payload: what cannot be decompressed is delivered as it is.
Decoded(p) ==
  LET data == DecompressData(p.payload, p.header.compression, "receiver")
  IN  IF data = Refused THEN p.payload ELSE data

\* Mutant: request_with_options returns the payload as it came, too.
DeliverRaw(to) ==
  /\ stage = "parsed" /\ parsed # Refused /\ stage' = "delivered"
  /\ to \in ReadersOf(parsed.header.packet_type)
  /\ delivered' = [to |-> to, data |-> parsed.payload]
  /\ UNCHANGED <<features, sent, packet, form, wire, cut, parsed>>

\* request_with_options decodes the response; request returns the payload of the
\* response packet.  on_event decodes a one-way message as well, into a Message that
\* it drops: the event carries the packet, and the context made from it the payload
\* of the packet, as it does for a request.
Deliver(to) ==
  /\ stage = "parsed" /\ parsed # Refused /\ stage' = "delivered"
  /\ to \in ReadersOf(parsed.header.packet_type)
  /\ delivered' = [to |-> to, data |-> IF to = "request_with_options"
                                      THEN Decoded(parsed) ELSE parsed.payload]
  /\ UNCHANGED <<features, sent, packet, form, wire, cut, parsed>>

Next ==
  \/ \E d \in Payloads, e \in ExtHeaders, t \in DOMAIN PacketTypeByte,
        c \in DOMAIN CompressionByte : SendWithOptions(d, e, t, c)
  \/ Serialize \/ CutShort \/ Deserialize
  \/ \E to \in Calls \cup {"context"} : Deliver(to)

Spec == Init /\ [][Next]_vars

-----------------------------------------------------------------------------
(* Properties                                                              *)

\* The cases that the format cannot represent.
Representable == Len(sent.ext_header) < LengthRange /\ Len(packet.payload) < PayloadRange
SameBuild == features["sender"] = features["receiver"]
Inflatable == packet.header.compression = "zstd" => Len(sent.data) <= Limit

(* A packet is parsed from complete bytes or not at all, and then type and  *)
(* extended header are those that were sent, whichever codecs the ends use. *)
ParsedIsSent ==
  (stage \in {"parsed", "delivered"} /\ Representable) =>
    /\ (parsed = Refused) <=> cut
    /\ ~cut => parsed = packet /\ parsed.ext_header = sent.ext_header
               /\ parsed.header.packet_type = sent.packet_type

Delivered == stage = "delivered" /\ Representable /\ SameBuild /\ Inflatable

(* Compressed or not, the data of a response is what request_with_options   *)
(* returns.  Everything else arrives as it was sent only if no compression  *)
(* was asked for: request does not decompress the response, a context not   *)
(* the message or request.  This needs two builds with the same features,   *)
(* data that fits the decompressor, and lengths that fit their fields.      *)
DataIntact ==
  (Delivered /\ (delivered.to = "request_with_options" \/ packet.header.compression = "none")) =>
    delivered.data = sent.data

(* What a context calls data is "Decompressed raw data" (the comment of     *)
(* TransportContext::data in src/src/event.rs): the data that was sent.     *)
AlwaysDecompressed ==
  (Delivered /\ delivered.to = "context") => delivered.data = sent.data
=============================================================================
