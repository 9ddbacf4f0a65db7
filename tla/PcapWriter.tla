----------------------------- MODULE PcapWriter -----------------------------
(* The Snort module rebuilds a packet from the fields of a record          *)
(* (SnortStore, src/detectionmodules/snortmodule/snortstore.cpp) and       *)
(* writes it to the capture stream snort reads (pcapwriter.cpp): a record  *)
(* header that announces a length, then that many octets, if the pieces    *)
(* add up.  Octets are counted, their values are not modelled.             *)
EXTENDS Integers, Sequences

CONSTANTS TotalLengths,   \* values of totalLengthIPv4 a record carries
          SectionSizes,   \* lengths of header and payload sections
          PaddingBuffer,  \* octets of the array of zeros padding is cut from
          MaxJunk,        \* bound: octets that a write of a negative size puts out
          MaxPackets      \* bound: records

VARIABLES
  store,      \* the SnortStore being filled: its PcapPacket, or NoPacket
  announced,  \* sum of the incl_len written
  stream,     \* octets written behind record headers
  pieces,     \* what was written of the last packet, in order
  packets,    \* packets written
  short       \* history: a record has announced less than its IP header

vars == <<store, announced, stream, pieces, packets, short>>

IpHeader == 20
UdpHeader == 8
TcpHeader == 20
EthernetHeader == 14
Packet == [length : TotalLengths \cup {0}, iphps : SectionSizes \cup {0},
           ippps : SectionSizes \cup {0}, protocol : {0, 6, 17}, tcp : BOOLEAN, udp : BOOLEAN]
EmptyPacket == [length |-> 0, iphps |-> 0, ippps |-> 0, protocol |-> 0,
                tcp |-> FALSE, udp |-> FALSE]
NoPacket == [valid |-> FALSE]

Init ==
  /\ store = NoPacket /\ announced = 0 /\ stream = 0 /\ pieces = <<>> /\ packets = 0
  /\ short = FALSE

recordStart ==
  /\ store = NoPacket /\ packets < MaxPackets /\ store' = EmptyPacket
  /\ UNCHANGED <<announced, stream, pieces, packets, short>>

(* The fields that decide what is written; addresses, ports and the other  *)
(* header fields only fill structures of fixed length.                     *)
addFieldData ==
  /\ store # NoPacket
  /\ \/ \E n \in TotalLengths : store' = [store EXCEPT !.length = n]
     \/ \E p \in {6, 17} : store' = [store EXCEPT !.protocol = p]
     \/ \E n \in SectionSizes : store' = [store EXCEPT !.iphps = n]
     \/ \E n \in SectionSizes : store' = [store EXCEPT !.ippps = n]
     \/ store' = [store EXCEPT !.tcp = TRUE]
     \/ store' = [store EXCEPT !.udp = TRUE]
  /\ UNCHANGED <<announced, stream, pieces, packets, short>>

-----------------------------------------------------------------------------
(* A record that does not say what it carries is TCP or UDP if the IP      *)
(* header's protocol says so, provided nothing else gives its length.      *)
Typed(p) ==
  IF p.length = 0 /\ p.iphps = 0 /\ p.ippps = 0 /\ ~p.tcp /\ ~p.udp
  THEN [p EXCEPT !.tcp = p.protocol = 6, !.udp = p.protocol = 17] ELSE p

(* The octets of the IP packet: the field, the header section, or the      *)
(* header and what is known of its payload.                                *)
ip_length(p) ==
  CASE p.length # 0 -> p.length
    [] p.length = 0 /\ p.iphps > 0 -> p.iphps
    [] p.length = 0 /\ p.iphps = 0 ->
         IpHeader + (IF p.ippps > 0 THEN p.ippps
                     ELSE IF Typed(p).tcp THEN TcpHeader
                     ELSE IF Typed(p).udp THEN UdpHeader ELSE 0)

(* A section is cut at the packet's length: an exporter may have taken     *)
(* Ethernet padding for payload.                                           *)
Cut(size, written, p) == IF size + written >= ip_length(p) THEN ip_length(p) - written ELSE size

(* The pieces before the padding.                                          *)
Pieces(p) ==
  IF p.iphps # 0 THEN <<Cut(p.iphps, 0, p)>>
  ELSE IF p.ippps # 0 THEN <<IpHeader, Cut(p.ippps, IpHeader, p)>>
  ELSE IF Typed(p).udp /\ ip_length(p) >= IpHeader + UdpHeader THEN <<IpHeader, UdpHeader>>
  ELSE IF Typed(p).tcp /\ ip_length(p) >= IpHeader + TcpHeader THEN <<IpHeader, TcpHeader>>
  ELSE <<IpHeader>>

Sum(s) == LET S[n \in 0..Len(s)] == IF n = 0 THEN 0 ELSE S[n - 1] + s[n] IN S[Len(s)]
(* Zeros up to a length, cut from a buffer that may be shorter.            *)
Padding(n) ==
  IF n <= 0 THEN <<>>
  ELSE [i \in 1..((n + PaddingBuffer - 1) \div PaddingBuffer) |->
          IF i * PaddingBuffer <= n THEN PaddingBuffer ELSE n % PaddingBuffer]
(* Mutant: padded to the length of the frame, Ethernet header included.    *)
FramePadded(p) == Pieces(p) \o Padding(ip_length(p) + EthernetHeader - Sum(Pieces(p)))
Written(p) == Pieces(p) \o Padding(ip_length(p) - Sum(Pieces(p)))

(* An IP header is written before a payload section or a transport header, *)
(* also if the total length, which is the exporter's, has no room for it.  *)
TooShort(p) == p.iphps = 0 /\ ip_length(p) < IpHeader

(* The section behind such a header has a negative size, which fwrite takes *)
(* for a huge one: some of the memory behind the section goes out, or none. *)
Put(junk) == Sum([i \in DOMAIN pieces' |-> IF pieces'[i] < 0 THEN junk ELSE pieces'[i]])

(* Snortmodule::test writes a valid store's packet and deletes the store.  *)
writepacket ==
  /\ store # NoPacket
  /\ pieces' = <<EthernetHeader>> \o Written(store)
  /\ announced' = announced + ip_length(store) + EthernetHeader
  /\ \E junk \in 0..MaxJunk : stream' = stream + Put(junk)
  /\ short' = (short \/ TooShort(store))
  /\ packets' = packets + 1 /\ store' = NoPacket

(* init: one TCP packet of the module's own before any record.             *)
writedummypacket ==
  /\ packets = 0 /\ store = NoPacket
  /\ LET p == [EmptyPacket EXCEPT !.tcp = TRUE]
     IN /\ pieces' = <<EthernetHeader>> \o Written(p)
        /\ announced' = ip_length(p) + EthernetHeader /\ stream' = Sum(pieces')
  /\ packets' = 1 /\ UNCHANGED <<store, short>>

Full == packets = MaxPackets /\ store = NoPacket /\ UNCHANGED vars
Next == recordStart \/ addFieldData \/ writepacket \/ writedummypacket \/ Full

Spec == Init /\ [][Next]_vars
-----------------------------------------------------------------------------
(* Whatever fields a record carries and in whatever order, the octets in   *)
(* the stream are those the record headers announce, so that snort finds   *)
(* the next header where it looks for it, and no piece has a negative      *)
(* size; until a record without a header section announces a total length  *)
(* that is less than the IP header which is written for it.                *)
StreamStaysFramed ==
  short \/ (stream = announced /\ \A i \in DOMAIN pieces : pieces[i] >= 0)

(* pcapwriter.h:99 without that exception: incl_len is the number of       *)
(* octets of packet saved in the file (MCShortPacket.cfg).                 *)
InclLenIsSaved == stream = announced
=============================================================================
