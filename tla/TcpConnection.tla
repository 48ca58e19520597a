---------------------------- MODULE TcpConnection ----------------------------
(***************************************************************************)
(* One TCP connection of src/net/network.c: tcp_state_machine as an        *)
(* operator from a connection and a segment to the connection afterwards   *)
(* and the flags of the segment that answers, {} when none does.  Windows, *)
(* buffers and checksums are left out, and so is the acknowledgement       *)
(* number of a segment, which no code reads.  handle_tcp_data              *)
(* (protocols.c) changes nothing.  Sequence numbers do not wrap in the     *)
(* instances.  tcp_close has no body: it is taken to send a FIN, with or   *)
(* without ACK.                                                            *)
(***************************************************************************)
EXTENDS Integers

CONSTANTS Hosts, NoHost

Ports == Nat        \* 0: no port

TcpStates == {"CLOSED", "LISTEN", "SYN_SENT", "SYN_RECEIVED", "ESTABLISHED", "FIN_WAIT_1",
              "FIN_WAIT_2", "CLOSE_WAIT", "CLOSING", "LAST_ACK", "TIME_WAIT"}

Flags == {"FIN", "SYN", "RST", "PSH", "ACK"}

\* tcp_connection_t
Connection == [lport : Ports, rhost : Hosts \cup {NoHost}, rport : Ports,
               state : TcpStates, seq : Nat, ack : Nat]

\* tcp_packet_t within ip_packet_t
Segment == [src : Hosts, sport : Ports, dst : Hosts, dport : Ports,
            flags : SUBSET Flags, seq : Nat, len : Nat]

Unused == [lport |-> 0, rhost |-> NoHost, rport |-> 0, state |-> "CLOSED", seq |-> 0, ack |-> 0]

\* build_tcp_packet
BuildTcpPacket(h, conn, flags, len) ==
    [src |-> h, sport |-> conn.lport, dst |-> conn.rhost, dport |-> conn.rport,
     flags |-> flags, seq |-> conn.seq, len |-> len]

Stays(conn) == [conn |-> conn, reply |-> {}]

AckedIn(conn, state, packet) ==
    [conn |-> [conn EXCEPT !.ack = packet.seq + 1, !.state = state], reply |-> {"ACK"}]

-----------------------------------------------------------------------------
(* tcp_state_machine, by the state of the connection.                      *)

\* (Mutant of InListen: the other end's address is not recorded.)
InListenNoAddress(conn, packet, isn) ==
    IF "SYN" \in packet.flags
    THEN [conn |-> [conn EXCEPT !.rport = packet.sport, !.ack = packet.seq + 1, !.seq = isn,
                                !.state = "SYN_RECEIVED"],
          reply |-> {"SYN", "ACK"}]
    ELSE Stays(conn)

\* The listening connection itself becomes the connection.
InListen(conn, packet, isn) ==
    IF "SYN" \in packet.flags
    THEN [conn |-> [conn EXCEPT !.rhost = packet.src, !.rport = packet.sport,
                                !.ack = packet.seq + 1, !.seq = isn, !.state = "SYN_RECEIVED"],
          reply |-> {"SYN", "ACK"}]
    ELSE Stays(conn)

InSynSent(conn, packet) ==
    IF {"SYN", "ACK"} \subseteq packet.flags THEN AckedIn(conn, "ESTABLISHED", packet)
    ELSE Stays(conn)

\* (Mutant of InSynReceived: any segment of the other end will do.)
InSynReceivedAny(conn, packet) == Stays([conn EXCEPT !.state = "ESTABLISHED"])

\* The caller adds the connection to the accept queue when it becomes ESTABLISHED.
InSynReceived(conn, packet) ==
    IF "ACK" \in packet.flags THEN Stays([conn EXCEPT !.state = "ESTABLISHED"])
    ELSE Stays(conn)

InEstablished(conn, packet) ==
    IF "FIN" \in packet.flags THEN AckedIn(conn, "CLOSE_WAIT", packet)
    ELSE Stays(conn)        \* handle_tcp_data

\* An ACK and a FIN in one segment are taken one after the other.
InFinWait1(conn, packet) ==
    LET acked == IF "ACK" \in packet.flags THEN "FIN_WAIT_2" ELSE "FIN_WAIT_1"
    IN  IF "FIN" \in packet.flags
        THEN AckedIn(conn, IF acked = "FIN_WAIT_2" THEN "TIME_WAIT" ELSE "CLOSING", packet)
        ELSE Stays([conn EXCEPT !.state = acked])

InFinWait2(conn, packet) ==
    IF "FIN" \in packet.flags THEN AckedIn(conn, "TIME_WAIT", packet)
    ELSE Stays(conn)

\* The other states have no case: nothing leaves them.
TcpStateMachine(conn, packet, isn) ==
    CASE conn.state = "LISTEN"       -> InListen(conn, packet, isn)
      [] conn.state = "SYN_SENT"     -> InSynSent(conn, packet)
      [] conn.state = "SYN_RECEIVED" -> InSynReceived(conn, packet)
      [] conn.state = "ESTABLISHED"  -> InEstablished(conn, packet)
      [] conn.state = "FIN_WAIT_1"   -> InFinWait1(conn, packet)
      [] conn.state = "FIN_WAIT_2"   -> InFinWait2(conn, packet)
      [] OTHER                       -> Stays(conn)

\* tcp_close
TcpClose(conn, flags) ==
    CASE conn.state = "ESTABLISHED" -> [conn |-> [conn EXCEPT !.state = "FIN_WAIT_1"], reply |-> flags]
      [] conn.state = "CLOSE_WAIT"  -> [conn |-> [conn EXCEPT !.state = "LAST_ACK"], reply |-> flags]
      [] OTHER                      -> Stays(conn)
=============================================================================
