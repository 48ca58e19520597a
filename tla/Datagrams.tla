----------------------------- MODULE Datagrams -----------------------------
(***************************************************************************)
(* UDP datagrams through the IP code of src/net/network.c: the header that *)
(* send_ip_packet writes, a network that loses, repeats and damages, and   *)
(* handle_ip_packet with handle_udp_packet at the other end.  Bytes have   *)
(* ByteValues values, and fields with a fixed content a small number.  The *)
(* data is its destination port; the UDP checksum is left out, as nothing  *)
(* in the code looks at it when a datagram arrives.                        *)
(*                                                                         *)
(* Without a body in the repository: calculate_ip_checksum and             *)
(* verify_ip_checksum (taken to be calculate_checksum over the header,     *)
(* with the field zero and with the field as it arrived),                  *)
(* is_local_address, find_udp_socket, forward_ip_packet, route_ip_packet.  *)
(***************************************************************************)
EXTENDS Integers, Sequences, FiniteSets

CONSTANTS
    ByteValues,     \* 256 in the code
    FirstIds,       \* net_ctx.ip_id_counter of the sender at the start
    SourceAddress,  \* of the sender
    Destinations,   \* addresses it sends to
    LocalAddresses, \* of the receiver's interfaces
    SentPorts,      \* destination ports of the datagrams
    BoundPorts,     \* ports with a UDP socket at the receiver
    MaxDatagrams    \* bounds the datagrams sent

Byte == 0 .. ByteValues - 1
WordValues == ByteValues * ByteValues
IpBroadcast == WordValues * WordValues - 1

ASSUME DatagramsAssumption ==
    /\ ByteValues \in Nat /\ ByteValues >= 8
    /\ FirstIds \subseteq 0 .. WordValues - 1
    /\ Destinations \cup LocalAddresses \cup {SourceAddress} \subseteq 0 .. IpBroadcast
    /\ SentPorts \cup BoundPorts \subseteq 1 .. WordValues - 1

VARIABLES
    idCounter,      \* net_ctx.ip_id_counter of the sender
    ipForwarding,   \* net_ctx.ip_forwarding of the receiver
    wire,           \* datagrams on the network; one stays there for good
    received,       \* what handle_udp_packet wrote to a socket's buffer
    forwarded       \* what forward_ip_packet was given

datagramVars == <<idCounter, ipForwarding, wire, received, forwarded>>

DatagramsInit ==
    /\ idCounter \in FirstIds
    /\ ipForwarding \in BOOLEAN
    /\ wire = {} /\ received = {} /\ forwarded = {}

-----------------------------------------------------------------------------
(* Bytes and checksums.                                                    *)

\* htons and htonl: what a number of two or four bytes is in memory, after which the
\* most significant byte is the first; ntohs and ntohl read it back.
Htons(short) == <<short \div ByteValues, short % ByteValues>>
Htonl(long)  == Htons(long \div WordValues) \o Htons(long % WordValues)
Ntohs(bytes) == bytes[1] * ByteValues + bytes[2]
Ntohl(bytes) == Ntohs(<<bytes[1], bytes[2]>>) * WordValues + Ntohs(<<bytes[3], bytes[4]>>)

\* A number stored as it is, least significant byte first.
Stored(word) == <<word % ByteValues, word \div ByteValues>>

\* Lines 550-558: the words of the data, and an odd last byte
SumOfWords(data) ==
    LET sum[i \in 0 .. Len(data)] ==
            IF i = 0 THEN 0
            ELSE sum[i - 1] + (IF i % 2 = 1 THEN data[i] ELSE data[i] * ByteValues)
    IN  sum[Len(data)]

\* (Mutant of Folded: the carry of the first folding is dropped.)
FoldedOnce(sum) == ((sum % WordValues) + (sum \div WordValues)) % WordValues

\* Lines 561-563: the carries are added back until there are none.
Folded(sum) ==
    LET fold[s \in 0 .. sum] == IF s < WordValues THEN s
                                ELSE fold[(s % WordValues) + (s \div WordValues)]
    IN  fold[sum]

CalculateChecksum(data) == WordValues - 1 - Folded(SumOfWords(data))

-----------------------------------------------------------------------------
Udp == 1        \* IP_PROTO_UDP

\* ip_header_t with the fields as send_ip_packet sets them: version and length, type
\* of service, total length, id, flags, time to live, protocol, checksum, addresses.
Header(totalLen, id, dest, checksum) ==
    <<5, 0>> \o Htons(totalLen) \o Htons(id) \o <<0, 0, 4, Udp>> \o checksum
        \o Htonl(SourceAddress) \o Htonl(dest)

\* udp_send without data, send_ip_packet, route_ip_packet
SendIpPacket(dest, port) ==
    LET blank  == Header(28, idCounter, dest, <<0, 0>>)
        header == Header(28, idCounter, dest, Stored(CalculateChecksum(blank)))
    IN  wire' = wire \cup {[header |-> header, destPort |-> Htons(port),
                            sent |-> header, to |-> dest, damaged |-> FALSE]}

UdpSend(dest, port) ==
    /\ Cardinality(wire) < MaxDatagrams
    /\ SendIpPacket(dest, port)
    /\ idCounter' = (idCounter + 1) % WordValues
    /\ UNCHANGED <<ipForwarding, received, forwarded>>

\* The network changes one byte of a datagram.
Damage(p) ==
    /\ ~p.damaged
    /\ \E b \in Byte :
          \/ \E i \in DOMAIN p.header :
                /\ b # p.header[i]
                /\ wire' = (wire \ {p}) \cup {[p EXCEPT !.header[i] = b, !.damaged = TRUE]}
          \/ \E i \in DOMAIN p.destPort :
                /\ b # p.destPort[i]
                /\ wire' = (wire \ {p}) \cup {[p EXCEPT !.destPort[i] = b, !.damaged = TRUE]}
    /\ UNCHANGED <<idCounter, ipForwarding, received, forwarded>>

Protocol(p)    == p.header[10]
DestAddress(p) == Ntohl(SubSeq(p.header, 17, 20))
IsForUs(p)     == DestAddress(p) \in LocalAddresses \cup {IpBroadcast}

\* verify_ip_checksum is not 0 for a header that is not valid.
ChecksumHolds(p) == CalculateChecksum(p.header) = 0

Forward(p) ==
    /\ ~IsForUs(p) /\ ipForwarding
    /\ forwarded' = forwarded \cup {p}
    /\ UNCHANGED received

\* The protocol's handler, handle_udp_packet: a socket of the port, or nobody.
HandleUdpPacket(p) ==
    /\ IsForUs(p) /\ Protocol(p) = Udp
    /\ Ntohs(p.destPort) \in BoundPorts
    /\ received' = received \cup {p}
    /\ UNCHANGED forwarded

\* handle_ip_packet; what it drops changes nothing
HandleIpPacket(p) ==
    /\ ChecksumHolds(p)
    /\ Forward(p) \/ HandleUdpPacket(p)
    /\ UNCHANGED <<idCounter, ipForwarding, wire>>

DatagramsNext ==
    \/ \E dest \in Destinations, port \in SentPorts : UdpSend(dest, port)
    \/ \E p \in wire : Damage(p) \/ HandleIpPacket(p)

DatagramsSpec == DatagramsInit /\ [][DatagramsNext]_datagramVars

-----------------------------------------------------------------------------
\* A datagram gets past the checksum exactly when its header is the one that was sent,
\* although the sender stores the sum in its own byte order: what is delivered went to
\* an address of this host, what is forwarded to another, and no change of one byte on
\* the way alters that or makes an intact datagram be dropped.  ("Verify checksum",
\* network.c:493; calculate_checksum.)
HeadersArriveWhole ==
    /\ \A p \in wire : ChecksumHolds(p) <=> p.header = p.sent
    /\ \A p \in received : p.header = p.sent /\ p.to \in LocalAddresses \cup {IpBroadcast}
    /\ \A p \in forwarded : p.header = p.sent /\ p.to \notin LocalAddresses \cup {IpBroadcast}
=============================================================================
