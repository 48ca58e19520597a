------------------------------- MODULE Sockets -------------------------------
(***************************************************************************)
(* The socket calls and the TCP input of src/net/network.c on several      *)
(* hosts, over a network that loses, repeats and reorders segments.  A     *)
(* segment stays in `network` for good: it may arrive any number of times, *)
(* also none.  A segment that is for no connection is answered with a      *)
(* reset, which no state of a connection has a case for: resets change     *)
(* nothing and are left out.  connect and accept block; the process that   *)
(* waits does nothing to its socket meanwhile.                             *)
(*                                                                         *)
(* Without a body in the repository: wait_for_connection (taken to put a   *)
(* connection into LISTEN, which no other code does), allocate_port,       *)
(* is_port_in_use, allocate_tcp_connection, find_tcp_connection,           *)
(* generate_sequence_number, add_to_accept_queue.                          *)
(***************************************************************************)
EXTENDS TcpConnection, Sequences, FiniteSets

CONSTANTS
    MaxSockets,     \* for every host, the length of its socket table
    MaxConnections, \* per host
    Servers, Clients,   \* hosts whose processes bind and listen; that connect
    ServerPort,
    FirstPort,      \* tcp_port_counter at the start
    LastPort,       \* bounds the ports given out
    MaxData,        \* bounds the bytes a host sends on a connection
    FinFlags,       \* the flags tcp_close may send its FIN with
    NoConnection

ASSUME SocketsAssumption ==
    /\ MaxSockets \in [Hosts -> Nat] /\ MaxConnections \in Nat \ {0}
    /\ ServerPort \in Nat \ {0} /\ FirstPort \in Nat /\ LastPort \in Nat
    /\ MaxData \in [Hosts -> 0 .. 8]
    /\ FinFlags \subseteq {{"FIN"}, {"FIN", "ACK"}}
    /\ Servers \subseteq Hosts /\ Clients \subseteq Hosts
    /\ ServerPort < FirstPort /\ FirstPort <= LastPort
    /\ NoHost \notin Hosts /\ NoConnection \notin Nat

Fds(h) == 0 .. MaxSockets[h] - 1
Conns  == 0 .. MaxConnections - 1

VARIABLES
    socket,         \* sockets and socket_slots of every host
    connection,     \* net_ctx.tcp_connections of every host
    acceptQueue,    \* connections not yet accepted, of every host
    portCounter,    \* tcp_port_counter of every host
    isns,           \* how many sequence numbers were generated
    network         \* the segments sent so far

networkVars == <<socket, connection, acceptQueue, portCounter, isns, network>>

SocketStates == {"CREATED", "BOUND", "LISTENING", "CONNECTED"}

\* socket_t; `used` is socket_slots, `waits` a connect that has not returned
Socket == [used : BOOLEAN, state : SocketStates, lport : Ports, rport : Ports,
           conn : Conns \cup {NoConnection}, waits : BOOLEAN]

\* network_init, tcp_init
NetworkInit ==
    /\ socket = [h \in Hosts |-> [s \in Fds(h) |->
           [used |-> FALSE, state |-> "CREATED", lport |-> 0, rport |-> 0,
            conn |-> NoConnection, waits |-> FALSE]]]
    /\ connection = [h \in Hosts |-> [c \in Conns |-> Unused]]
    /\ acceptQueue = [h \in Hosts |-> <<>>]
    /\ portCounter = [h \in Hosts |-> FirstPort]
    /\ isns = 0
    /\ network = {}

\* generate_sequence_number: far enough from the numbers of other connections
Isn == 10 * (isns + 1)

SameIsn(m, n) == m \div 10 = n \div 10

SendTcpPacket(segments) == network' = network \cup segments

-----------------------------------------------------------------------------
(* Sockets.                                                                *)

FirstFreeFd(h, s) ==
    ~socket[h][s].used /\ \A t \in Fds(h) : t < s => socket[h][t].used

\* Lines 85-93.  tcp_connection is not among the fields that are set.
CreatedSocket(old) ==
    [old EXCEPT !.used = TRUE, !.state = "CREATED", !.lport = 0, !.rport = 0]

\* socket
OpenSocket(h) == \E s \in Fds(h) :
    /\ FirstFreeFd(h, s)
    /\ socket' = [socket EXCEPT ![h][s] = CreatedSocket(@)]
    /\ UNCHANGED <<connection, acceptQueue, portCounter, isns, network>>

PortInUse(h, port) == \E s \in Fds(h) : socket[h][s].used /\ socket[h][s].lport = port

\* bind, of a socket that was just made
Bind(h, s) ==
    /\ h \in Servers
    /\ socket[h][s].used /\ socket[h][s].state = "CREATED" /\ socket[h][s].rport = 0
    /\ ~PortInUse(h, ServerPort)
    /\ socket' = [socket EXCEPT ![h][s].lport = ServerPort, ![h][s].state = "BOUND"]
    /\ UNCHANGED <<connection, acceptQueue, portCounter, isns, network>>

\* listen
Listen(h, s) ==
    /\ socket[h][s].used /\ socket[h][s].state = "BOUND"
    /\ socket' = [socket EXCEPT ![h][s].state = "LISTENING"]
    /\ UNCHANGED <<connection, acceptQueue, portCounter, isns, network>>

\* allocate_tcp_connection
FreeConnection(h, c) ==
    /\ connection[h][c].state = "CLOSED"
    /\ \A d \in Conns : d < c => connection[h][d].state # "CLOSED"

\* accept, up to the wait in wait_for_connection
AcceptWaits(h, s) == \E c \in Conns :
    LET port == socket[h][s].lport
    IN  /\ socket[h][s].used /\ socket[h][s].state = "LISTENING"
        /\ \A d \in Conns : ~(connection[h][d].state = "LISTEN" /\ connection[h][d].lport = port)
        /\ FreeConnection(h, c)
        /\ connection' = [connection EXCEPT ![h][c] = [Unused EXCEPT !.lport = port, !.state = "LISTEN"]]
        /\ UNCHANGED <<socket, acceptQueue, portCounter, isns, network>>

\* Lines 167-173
Accepted(old, port, conn, c) ==
    [CreatedSocket(old) EXCEPT !.lport = port, !.rport = conn.rport,
                               !.state = "CONNECTED", !.conn = c]

\* accept, from there.  Without a free socket the connection is lost.
AcceptReturns(h, s) ==
    LET c == Head(acceptQueue[h])
        port == socket[h][s].lport
    IN  /\ socket[h][s].used /\ socket[h][s].state = "LISTENING"
        /\ acceptQueue[h] # <<>> /\ connection[h][c].lport = port
        /\ acceptQueue' = [acceptQueue EXCEPT ![h] = Tail(@)]
        /\ \/ \E t \in Fds(h) :
                /\ FirstFreeFd(h, t)
                /\ socket' = [socket EXCEPT ![h][t] = Accepted(@, port, connection[h][c], c)]
           \/ (\A t \in Fds(h) : socket[h][t].used) /\ UNCHANGED socket
        /\ UNCHANGED <<connection, portCounter, isns, network>>

\* tcp_connect, with a connection that is free
TcpConnect(h, s, port, remote) ==
    \E c \in Conns :
        LET conn == [lport |-> port, rhost |-> remote, rport |-> ServerPort,
                     state |-> "SYN_SENT", seq |-> Isn, ack |-> 0]
        IN  /\ FreeConnection(h, c)
            /\ connection' = [connection EXCEPT ![h][c] = conn]
            /\ socket' = [socket EXCEPT ![h][s].lport = port, ![h][s].rport = ServerPort,
                              ![h][s].conn = c, ![h][s].waits = TRUE]
            /\ SendTcpPacket({BuildTcpPacket(h, conn, {"SYN"}, 0)})
            /\ isns' = isns + 1

\* connect and tcp_connect, of a socket that was just made or bound
Connect(h, s, remote) ==
    LET port == IF socket[h][s].lport = 0 THEN portCounter[h] ELSE socket[h][s].lport
    IN  /\ h \in Clients
        /\ socket[h][s].used /\ socket[h][s].state \in {"CREATED", "BOUND"}
        /\ socket[h][s].rport = 0
        /\ port <= LastPort
        /\ portCounter' = [portCounter EXCEPT ![h] = IF port = @ THEN @ + 1 ELSE @]
        /\ \/ TcpConnect(h, s, port, remote)
           \/ /\ \A c \in Conns : connection[h][c].state # "CLOSED"
              /\ socket' = [socket EXCEPT ![h][s].lport = port, ![h][s].rport = ServerPort]
              /\ UNCHANGED <<connection, isns, network>>
        /\ UNCHANGED acceptQueue

CanSend(h, s) ==
    /\ socket[h][s].used /\ socket[h][s].conn # NoConnection
    /\ connection[h][socket[h][s].conn].state = "ESTABLISHED"

\* send and tcp_send, one chunk at a time
SendData(h, s) ==
    LET c == socket[h][s].conn
        conn == connection[h][c]
    IN  /\ CanSend(h, s) /\ ~socket[h][s].waits
        /\ conn.seq % 10 < MaxData[h]
        /\ SendTcpPacket({BuildTcpPacket(h, conn, {"PSH", "ACK"}, 1)})
        /\ connection' = [connection EXCEPT ![h][c].seq = @ + 1]
        /\ UNCHANGED <<socket, acceptQueue, portCounter, isns>>

\* (Mutant of CloseSocket: the connection is not closed with the socket.)
CloseSlotOnly(h, s) ==
    /\ socket[h][s].used /\ ~socket[h][s].waits
    /\ socket' = [socket EXCEPT ![h][s].used = FALSE]
    /\ UNCHANGED <<connection, network, acceptQueue, portCounter, isns>>

\* close_socket
CloseSocket(h, s) ==
    LET c == socket[h][s].conn
    IN  /\ socket[h][s].used /\ ~socket[h][s].waits
        /\ socket' = [socket EXCEPT ![h][s].used = FALSE]
        /\ \/ c = NoConnection /\ UNCHANGED <<connection, network>>
           \/ /\ c # NoConnection
              /\ \E flags \in FinFlags :
                   LET closed == TcpClose(connection[h][c], flags)
                   IN  /\ connection' = [connection EXCEPT ![h][c] = closed.conn]
                       /\ SendTcpPacket(IF closed.reply = {} THEN {}
                                        ELSE {BuildTcpPacket(h, closed.conn, flags, 0)})
        /\ UNCHANGED <<acceptQueue, portCounter, isns>>

-----------------------------------------------------------------------------
(* Segments.                                                               *)

Exact(h, p, c) ==
    /\ connection[h][c].state \notin {"CLOSED", "LISTEN"}
    /\ connection[h][c].lport = p.dport
    /\ connection[h][c].rhost = p.src /\ connection[h][c].rport = p.sport

Listening(h, p, c) ==
    connection[h][c].state = "LISTEN" /\ connection[h][c].lport = p.dport

\* find_tcp_connection
Finds(h, p, c) ==
    Exact(h, p, c) \/ (Listening(h, p, c) /\ \A d \in Conns : ~Exact(h, p, d))

\* (Mutant of Queued: every ACK of an established connection queues it.)
QueuedAgain(queue, c, before, after) ==
    IF after = "ESTABLISHED" /\ before \in {"SYN_RECEIVED", "ESTABLISHED"} THEN Append(queue, c) ELSE queue

\* add_to_accept_queue, on the way from SYN_RECEIVED to ESTABLISHED
Queued(queue, c, before, after) ==
    IF after = "ESTABLISHED" /\ before = "SYN_RECEIVED" THEN Append(queue, c) ELSE queue

\* handle_tcp_packet, for a segment of a connection.  A connect that waits for it
\* returns when it is ESTABLISHED.
HandleTcpPacket(p) ==
    LET h == p.dst
    IN  \E c \in Conns :
          LET old == connection[h][c]
              step == TcpStateMachine(old, p, Isn)
          IN  /\ Finds(h, p, c)
              /\ connection' = [connection EXCEPT ![h][c] = step.conn]
              /\ SendTcpPacket(IF step.reply = {} THEN {}
                               ELSE {BuildTcpPacket(h, step.conn, step.reply, 0)})
              /\ acceptQueue' = [acceptQueue EXCEPT ![h] = Queued(@, c, old.state, step.conn.state)]
              /\ socket' = [socket EXCEPT ![h] = [s \in Fds(h) |->
                     IF @[s].conn = c /\ step.conn.state = "ESTABLISHED"
                     THEN [@[s] EXCEPT !.waits = FALSE] ELSE @[s]]]
              /\ isns' = IF old.state = "LISTEN" /\ step.conn # old THEN isns + 1 ELSE isns
              /\ UNCHANGED portCounter

-----------------------------------------------------------------------------
NetworkNext ==
    \/ \E h \in Hosts :
         \/ OpenSocket(h)
         \/ \E s \in Fds(h) :
              \/ Bind(h, s)
              \/ Listen(h, s)
              \/ AcceptWaits(h, s)
              \/ AcceptReturns(h, s)
              \/ \E remote \in Hosts \ {h} : Connect(h, s, remote)
              \/ SendData(h, s)
              \/ CloseSocket(h, s)
    \/ \E p \in network : HandleTcpPacket(p)

NetworkSpec == NetworkInit /\ [][NetworkNext]_networkVars

-----------------------------------------------------------------------------
NetworkTypeOK ==
    /\ DOMAIN socket = Hosts /\ \A h \in Hosts : socket[h] \in [Fds(h) -> Socket]
    /\ connection \in [Hosts -> [Conns -> Connection]]
    /\ acceptQueue \in [Hosts -> Seq(Conns)]
    /\ portCounter \in [Hosts -> Nat] /\ isns \in Nat
    /\ network \subseteq Segment

Synchronized == {"ESTABLISHED", "FIN_WAIT_1", "FIN_WAIT_2", "CLOSE_WAIT",
                 "CLOSING", "LAST_ACK", "TIME_WAIT"}
PeerHasClosed == {"CLOSE_WAIT", "CLOSING", "LAST_ACK", "TIME_WAIT"}
HasClosed     == {"FIN_WAIT_1", "FIN_WAIT_2", "CLOSING", "LAST_ACK", "TIME_WAIT"}

\* d is a connection of the host at the other end of c, with the same two ports.
AtOtherEnd(h, c, d) ==
    LET near == connection[h][c]
        far  == connection[near.rhost][d]
    IN  far.rhost = h /\ far.lport = near.rport /\ far.rport = near.lport

\* Whatever the network loses, repeats or reorders: a connection that counts as open
\* has another end that counts it as open, or is one ACK short of it, and whose sequence
\* numbers it knows; and one that was told of the end of the stream was told so by an end that has closed.
\* (tcp_state_machine, tcp_connect and close_socket on two hosts.)
StatesAgree ==
    \A h \in Hosts, c \in Conns :
        LET near == connection[h][c]
        IN  near.state \in Synchronized =>
                \E d \in Conns :
                    LET far == connection[near.rhost][d]
                    IN  /\ AtOtherEnd(h, c, d)
                        /\ far.state \in Synchronized \cup {"SYN_RECEIVED"}
                        /\ SameIsn(near.ack, far.seq)
                        /\ near.state \in PeerHasClosed => far.state \in HasClosed

Owners(h, c) == {s \in Fds(h) : socket[h][s].used /\ socket[h][s].rport # 0 /\ socket[h][s].conn = c}

\* A connection has one owner: it waits in the accept queue, once, or belongs to one
\* socket.  (Repeated ACKs, accept, and slots that are used again.)
OneOwner ==
    \A h \in Hosts, c \in Conns :
        Cardinality({i \in DOMAIN acceptQueue[h] : acceptQueue[h][i] = c})
            + Cardinality(Owners(h, c)) <= 1

\* socket() leaves the tcp_connection of the slot's previous owner in place
\* (network.c:85-93), and tcp_send looks at nothing else: what is left there can no
\* longer carry data.
StaleCannotSend ==
    \A h \in Hosts : \A s \in Fds(h) :
        CanSend(h, s) => socket[h][s].rport # 0 /\ connection[h][socket[h][s].conn].lport = socket[h][s].lport
=============================================================================
