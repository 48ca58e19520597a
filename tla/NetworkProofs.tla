--------------------------- MODULE NetworkProofs ---------------------------
(***************************************************************************)
(* Sockets: a connection has one owner, a socket that is used again cannot *)
(* send on the connection of the one before, and the two ends of a         *)
(* connection agree, for any number of hosts, sockets, connections and     *)
(* segments, lost, repeated and reordered.  A step changes the tables of   *)
(* one host: the first invariant is about the rows of each host, the last  *)
(* about the two ends of each connection and the sender of each segment.   *)
(*                                                                         *)
(* Datagrams: what gets past the checksum of IP is the header that was     *)
(* sent.                                                                   *)
(***************************************************************************)
EXTENDS Sockets, Datagrams, FiniteSetTheorems, SequenceTheorems, WellFoundedInduction,
        TLAPS

\* States in which nobody has been given the connection yet.
Unowned == {"CLOSED", "LISTEN", "SYN_RECEIVED"}

\* A connection knows its port, and its other end once there is one.
EndsKnown(conn) ==
    /\ conn.state # "CLOSED" => conn.lport # 0
    /\ conn.state \notin {"CLOSED", "LISTEN"} => conn.rhost \in Hosts /\ conn.rport # 0

\* A socket and its connection, when it has one (also one that is left over): the
\* connection is the socket's, and no data can be sent on it but by that socket.
SocketFits(x, K) ==
    x.conn # NoConnection =>
        LET conn == K[x.conn] IN
        /\ conn.state \notin Unowned
        /\ conn.state \in {"SYN_SENT", "ESTABLISHED"} =>
              x.used /\ x.rport # 0 /\ conn.lport = x.lport
        /\ conn.state = "SYN_SENT" => x.waits

\* The rows of a host: its sockets R, its connections K and its accept queue Q.
RowsTyped(h, R, K, Q, port) ==
    /\ R \in [Fds(h) -> Socket] /\ K \in [Conns -> Connection]
    /\ Q \in Seq(Conns) /\ port \in Nat \ {0}

PortsKnown(h, R, K) ==
    /\ \A s \in Fds(h) : R[s].state \in {"BOUND", "LISTENING"} => R[s].lport # 0
    /\ \A c \in Conns : EndsKnown(K[c])

\* A connection is kept once, by a slot of the socket table or in the queue.
KeptOnce(h, R, K, Q) ==
    /\ \A s, t \in Fds(h) : R[s].conn = R[t].conn /\ R[s].conn # NoConnection => s = t
    /\ \A i, j \in 1 .. Len(Q) : Q[i] = Q[j] => i = j
    /\ \A i \in 1 .. Len(Q), s \in Fds(h) : Q[i] # R[s].conn
    /\ \A i \in 1 .. Len(Q) : K[Q[i]].state \notin Unowned \cup {"SYN_SENT"}
    /\ \A s \in Fds(h) : SocketFits(R[s], K)

HostSound(h, R, K, Q, port) ==
    RowsTyped(h, R, K, Q, port) /\ PortsKnown(h, R, K) /\ KeptOnce(h, R, K, Q)

\* Segments that name the port they were sent from.
Sent == {p \in Segment : p.sport # 0}

NetworkInv ==
    /\ DOMAIN socket = Hosts
    /\ connection \in [Hosts -> [Conns -> Connection]]
    /\ acceptQueue \in [Hosts -> Seq(Conns)]
    /\ portCounter \in [Hosts -> Nat] /\ isns \in Nat
    /\ network \subseteq Sent
    /\ \A h \in Hosts :
          HostSound(h, socket[h], connection[h], acceptQueue[h], portCounter[h])

-----------------------------------------------------------------------------
(* What a segment or tcp_close makes of one connection.                    *)

\* What may become of a connection that a segment arrives for, or that is closed.
Becomes(k, step) ==
    /\ step.conn \in Connection /\ EndsKnown(step.conn)
    /\ step.conn.lport = k.lport
    /\ step.reply \in SUBSET Flags
    /\ step.reply # {} => step.conn.state \notin {"CLOSED", "LISTEN"}
    /\ step.conn.state \in Unowned => k.state \in Unowned
    /\ step.conn.state = "SYN_SENT" => k.state = "SYN_SENT"
    /\ step.conn.state = "ESTABLISHED" => k.state \in {"SYN_SENT", "SYN_RECEIVED", "ESTABLISHED"}

\* The number that is added to a segment's is one.
LEMMA AckedInTyped ==
    ASSUME NEW k \in Connection, EndsKnown(k), k.state \notin {"CLOSED", "LISTEN"}, NEW p \in Sent,
           NEW state \in TcpStates \ {"CLOSED", "LISTEN"}
    PROVE  LET step == AckedIn(k, state, p) IN
           /\ step.conn \in Connection /\ EndsKnown(step.conn)
           /\ step.conn.lport = k.lport /\ step.conn.state = state
           /\ step.reply = {"ACK"}
<1>1. p.seq + 1 \in Nat /\ state \in TcpStates
    BY DEF Sent, Segment
<1> DEFINE new == [k EXCEPT !.ack = p.seq + 1, !.state = state]
<1>2. new \in Connection
    BY <1>1 DEF Connection
<1>3. /\ new.lport = k.lport /\ new.rhost = k.rhost /\ new.rport = k.rport
      /\ new.state = state
    BY DEF Connection
<1>4. AckedIn(k, state, p) = [conn |-> new, reply |-> {"ACK"}]
    BY DEF AckedIn
<1> HIDE DEF new
<1> QED  BY <1>2, <1>3, <1>4 DEF EndsKnown

\* A state that has no answer to the segment keeps the connection.
LEMMA StaysBecomes ==
    ASSUME NEW k \in Connection, EndsKnown(k)
    PROVE  Becomes(k, Stays(k))
    BY DEF Becomes, Stays

\* tcp_state_machine keeps the ports, knows the other end once there is one, and opens a
\* connection from the three states of the handshake only.
LEMMA StepBecomes ==
    ASSUME NEW k \in Connection, EndsKnown(k), NEW p \in Sent, NEW isn \in Nat
    PROVE  Becomes(k, TcpStateMachine(k, p, isn))
<1>0. k.state \in TcpStates /\ p.flags \in SUBSET Flags
    BY DEF Connection, Sent, Segment
<1>1. CASE k.state = "LISTEN"
    <2>1. TcpStateMachine(k, p, isn) = InListen(k, p, isn)
        BY <1>1 DEF TcpStateMachine
    <2>2. CASE "SYN" \in p.flags
        <3> DEFINE new == [k EXCEPT !.rhost = p.src, !.rport = p.sport,
                                    !.ack = p.seq + 1, !.seq = isn, !.state = "SYN_RECEIVED"]
        <3>0. p.src \in Hosts /\ p.sport \in Ports \ {0} /\ p.seq + 1 \in Nat
            BY DEF Sent, Segment, Ports
        <3>1. new \in Connection
            BY <3>0 DEF Connection, TcpStates
        <3>3. /\ new.lport = k.lport /\ new.rhost = p.src /\ new.rport = p.sport
              /\ new.state = "SYN_RECEIVED"
            BY DEF Connection
        <3>4. EndsKnown(new)
            BY <1>1, <3>0, <3>3 DEF EndsKnown
        <3>2. InListen(k, p, isn) = [conn |-> new, reply |-> {"SYN", "ACK"}]
            BY <2>2 DEF InListen
        <3> HIDE DEF new
        <3> QED  BY <1>1, <2>1, <3>1, <3>2, <3>3, <3>4 DEF Becomes, Unowned, Flags
    <2>3. CASE "SYN" \notin p.flags
        BY <2>1, <2>3, StaysBecomes DEF InListen
    <2> QED  BY <2>2, <2>3
<1>2. CASE k.state = "SYN_SENT"
    <2>1. TcpStateMachine(k, p, isn) = InSynSent(k, p)
        BY <1>2 DEF TcpStateMachine
    <2> QED  BY <1>2, <2>1, AckedInTyped, StaysBecomes DEF InSynSent, Becomes, Unowned, TcpStates, Flags
<1>3. CASE k.state = "SYN_RECEIVED"
    <2>1. TcpStateMachine(k, p, isn) = InSynReceived(k, p)
        BY <1>3 DEF TcpStateMachine
    <2> DEFINE new == [k EXCEPT !.state = "ESTABLISHED"]
    <2>2. /\ new \in Connection /\ EndsKnown(new) /\ new.lport = k.lport
          /\ new.state = "ESTABLISHED"
        BY <1>3 DEF Connection, EndsKnown, TcpStates
    <2>3. InSynReceived(k, p) \in {Stays(new), Stays(k)}
        BY DEF InSynReceived
    <2> HIDE DEF new
    <2> QED  BY <1>3, <2>1, <2>2, <2>3, StaysBecomes DEF Becomes, Stays, Unowned
<1>4. CASE k.state = "ESTABLISHED"
    <2>1. TcpStateMachine(k, p, isn) = InEstablished(k, p)
        BY <1>4 DEF TcpStateMachine
    <2> QED  BY <1>4, <2>1, AckedInTyped, StaysBecomes DEF InEstablished, Becomes, Unowned, TcpStates, Flags
<1>5. CASE k.state = "FIN_WAIT_1"
    <2>1. TcpStateMachine(k, p, isn) = InFinWait1(k, p)
        BY <1>5 DEF TcpStateMachine
    <2>2. CASE "FIN" \in p.flags
        <3>1. PICK state \in {"TIME_WAIT", "CLOSING"} : InFinWait1(k, p) = AckedIn(k, state, p)
            BY <2>2 DEF InFinWait1
        <3> QED  BY <1>5, <2>1, <3>1, AckedInTyped DEF Becomes, Unowned, TcpStates, Flags
    <2>3. CASE "FIN" \notin p.flags
        <3>1. PICK state \in {"FIN_WAIT_1", "FIN_WAIT_2"} :
                  InFinWait1(k, p) = Stays([k EXCEPT !.state = state])
            BY <2>3 DEF InFinWait1
        <3> DEFINE new == [k EXCEPT !.state = state]
        <3>2. /\ new \in Connection /\ EndsKnown(new) /\ new.lport = k.lport
              /\ new.state = state
            BY <1>5 DEF Connection, EndsKnown, TcpStates
        <3>3. TcpStateMachine(k, p, isn) = [conn |-> new, reply |-> {}]
            BY <2>1, <3>1 DEF Stays
        <3> HIDE DEF new
        <3> QED  BY <3>2, <3>3 DEF Becomes, Unowned
    <2> QED  BY <2>2, <2>3
<1>6. CASE k.state = "FIN_WAIT_2"
    <2>1. TcpStateMachine(k, p, isn) = InFinWait2(k, p)
        BY <1>6 DEF TcpStateMachine
    <2> QED  BY <1>6, <2>1, AckedInTyped, StaysBecomes DEF InFinWait2, Becomes, Unowned, TcpStates, Flags
<1>7. CASE k.state \notin {"LISTEN", "SYN_SENT", "SYN_RECEIVED", "ESTABLISHED",
                           "FIN_WAIT_1", "FIN_WAIT_2"}
    <2>1. TcpStateMachine(k, p, isn) = Stays(k)
        BY <1>7 DEF TcpStateMachine
    <2> QED  BY <2>1, StaysBecomes
<1> QED  BY <1>1, <1>2, <1>3, <1>4, <1>5, <1>6, <1>7

\* tcp_close leaves no connection open.
LEMMA CloseBecomes ==
    ASSUME NEW k \in Connection, EndsKnown(k), NEW flags \in FinFlags
    PROVE  Becomes(k, TcpClose(k, flags)) /\ TcpClose(k, flags).conn.state # "ESTABLISHED"
<1>0. flags \in SUBSET Flags
    BY SocketsAssumption DEF Flags
<1>1. ASSUME NEW state \in {"FIN_WAIT_1", "LAST_ACK"}, k.state \in {"ESTABLISHED", "CLOSE_WAIT"},
             TcpClose(k, flags) = [conn |-> [k EXCEPT !.state = state], reply |-> flags]
      PROVE  Becomes(k, TcpClose(k, flags)) /\ TcpClose(k, flags).conn.state # "ESTABLISHED"
    <2> DEFINE new == [k EXCEPT !.state = state]
    <2>1. /\ new \in Connection /\ EndsKnown(new) /\ new.lport = k.lport
          /\ new.state = state
        BY <1>1 DEF Connection, EndsKnown, TcpStates
    <2> HIDE DEF new
    <2>2. TcpClose(k, flags) = [conn |-> new, reply |-> flags]
        BY <1>1 DEF new
    <2> QED  BY <1>0, <2>1, <2>2 DEF Becomes, Unowned
<1>2. CASE k.state = "ESTABLISHED"
    BY <1>1, <1>2 DEF TcpClose
<1>3. CASE k.state = "CLOSE_WAIT"
    BY <1>1, <1>3 DEF TcpClose
<1>4. CASE k.state \notin {"ESTABLISHED", "CLOSE_WAIT"}
    <2>1. TcpClose(k, flags) = Stays(k)
        BY <1>4 DEF TcpClose
    <2> QED  BY <1>4, <2>1, StaysBecomes DEF Stays
<1> QED  BY <1>2, <1>3, <1>4

-----------------------------------------------------------------------------
(* What keeps the rows of a host sound: a socket is set, a connection is   *)
(* set, the queue gets one more or one less.                               *)

\* Somebody has connection c: a slot of the socket table, or the accept queue.
Kept(h, R, Q, c) == (\E s \in Fds(h) : R[s].conn = c) \/ (\E i \in 1 .. Len(Q) : Q[i] = c)

\* A connection that nobody has been given is in nobody's hands.
LEMMA UnownedIsFree ==
    ASSUME NEW h \in Hosts, NEW R, NEW K, NEW Q, NEW port, HostSound(h, R, K, Q, port),
           NEW c \in Conns, K[c].state \in Unowned
    PROVE  ~Kept(h, R, Q, c)
<1>1. c # NoConnection
    BY SocketsAssumption DEF Conns
<1> QED  BY <1>1 DEF Kept, HostSound, KeptOnce, SocketFits

\* A slot of the socket table is set, to a socket that keeps its connection or gets one
\* that nobody has.
LEMMA SocketSet ==
    ASSUME NEW h \in Hosts, NEW R, NEW K, NEW Q, NEW port, HostSound(h, R, K, Q, port),
           NEW s \in Fds(h), NEW y \in Socket,
           y.state \in {"BOUND", "LISTENING"} => y.lport # 0,
           y.conn = R[s].conn \/ ~Kept(h, R, Q, y.conn),
           SocketFits(y, K)
    PROVE  HostSound(h, [R EXCEPT ![s] = y], K, Q, port)
<1> DEFINE N == [R EXCEPT ![s] = y]
<1>1. /\ R \in [Fds(h) -> Socket]
      /\ N \in [Fds(h) -> Socket]
      /\ N[s] = y /\ \A t \in Fds(h) : t # s => N[t] = R[t]
    BY DEF HostSound, RowsTyped
<1> HIDE DEF N
<1>2. RowsTyped(h, N, K, Q, port)
    BY <1>1 DEF HostSound, RowsTyped
<1>3. PortsKnown(h, N, K)
    BY <1>1 DEF HostSound, PortsKnown
<1>4. KeptOnce(h, N, K, Q)
    <2>1. \A t, u \in Fds(h) : N[t].conn = N[u].conn /\ N[t].conn # NoConnection => t = u
        BY <1>1 DEF HostSound, KeptOnce, Kept
    <2>2. \A i \in 1 .. Len(Q), t \in Fds(h) : Q[i] # N[t].conn
        BY <1>1 DEF HostSound, KeptOnce, Kept
    <2>3. \A t \in Fds(h) : SocketFits(N[t], K)
        BY <1>1 DEF HostSound, KeptOnce
    <2> QED  BY <2>1, <2>2, <2>3 DEF HostSound, KeptOnce
<1> QED  BY <1>2, <1>3, <1>4 DEF HostSound, N

\* A connection is set, to one that whoever has it can live with.
LEMMA ConnectionSet ==
    ASSUME NEW h \in Hosts, NEW R, NEW K, NEW Q, NEW port, HostSound(h, R, K, Q, port),
           NEW c \in Conns, NEW k \in Connection, EndsKnown(k),
           \A i \in 1 .. Len(Q) : Q[i] = c => k.state \notin Unowned \cup {"SYN_SENT"},
           \A s \in Fds(h) : R[s].conn = c => SocketFits(R[s], [K EXCEPT ![c] = k])
    PROVE  HostSound(h, R, [K EXCEPT ![c] = k], Q, port)
<1> DEFINE N == [K EXCEPT ![c] = k]
<1>1. /\ K \in [Conns -> Connection] /\ N \in [Conns -> Connection]
      /\ N[c] = k /\ \A d \in Conns : d # c => N[d] = K[d]
    BY DEF HostSound, RowsTyped
<1>2. \A s \in Fds(h) : R[s].conn = c => SocketFits(R[s], N)
    OBVIOUS
<1> HIDE DEF N
<1>3. Q \in Seq(Conns) /\ R \in [Fds(h) -> Socket]
    BY DEF HostSound, RowsTyped
<1>4. RowsTyped(h, R, N, Q, port)
    BY <1>1 DEF HostSound, RowsTyped
<1>5. PortsKnown(h, R, N)
    BY <1>1 DEF HostSound, PortsKnown
<1>6. KeptOnce(h, R, N, Q)
    <2>1. \A i \in 1 .. Len(Q) : N[Q[i]].state \notin Unowned \cup {"SYN_SENT"}
        <3>1. \A i \in 1 .. Len(Q) : Q[i] \in Conns
            BY <1>3
        <3> QED  BY <1>1, <3>1 DEF HostSound, KeptOnce
    <2>2. ASSUME NEW s \in Fds(h)
          PROVE  SocketFits(R[s], N)
        <3>1. R[s].conn \in Conns \cup {NoConnection}
            BY <1>3 DEF Socket
        <3>2. SocketFits(R[s], K)
            BY DEF HostSound, KeptOnce
        <3> QED  BY <1>1, <1>2, <3>1, <3>2 DEF SocketFits
    <2> QED  BY <2>1, <2>2 DEF HostSound, KeptOnce
<1> QED  BY <1>4, <1>5, <1>6 DEF HostSound, N

\* A connection that nobody has may become any that knows its ends.
LEMMA FreeConnectionSet ==
    ASSUME NEW h \in Hosts, NEW R, NEW K, NEW Q, NEW port, HostSound(h, R, K, Q, port),
           NEW c \in Conns, K[c].state \in Unowned, NEW k \in Connection, EndsKnown(k)
    PROVE  HostSound(h, R, [K EXCEPT ![c] = k], Q, port) /\ ~Kept(h, R, Q, c)
    BY UnownedIsFree, ConnectionSet DEF Kept

\* A connection that nobody has, and that is past the handshake, joins the queue.
LEMMA QueueGains ==
    ASSUME NEW h \in Hosts, NEW R, NEW K, NEW Q, NEW port, HostSound(h, R, K, Q, port),
           NEW c \in Conns, ~Kept(h, R, Q, c), K[c].state \notin Unowned \cup {"SYN_SENT"}
    PROVE  HostSound(h, R, K, Append(Q, c), port)
<1> DEFINE N == Append(Q, c)
<1>1. /\ Q \in Seq(Conns) /\ N \in Seq(Conns)
      /\ Len(Q) \in Nat /\ Len(N) = Len(Q) + 1
      /\ \A i \in 1 .. Len(N) : N[i] = IF i <= Len(Q) THEN Q[i] ELSE c
    BY DEF HostSound, RowsTyped
<1> HIDE DEF N
<1>2. \A i \in 1 .. Len(N) : \/ i \in 1 .. Len(Q) /\ N[i] = Q[i]
                             \/ i = Len(N) /\ N[i] = c
    BY <1>1
<1>3. RowsTyped(h, R, K, N, port)
    BY <1>1 DEF HostSound, RowsTyped
<1>4. KeptOnce(h, R, K, N)
    <2>1. \A i, j \in 1 .. Len(N) : N[i] = N[j] => i = j
        BY <1>2 DEF HostSound, KeptOnce, Kept
    <2>2. \A i \in 1 .. Len(N), s \in Fds(h) : N[i] # R[s].conn
        BY <1>2 DEF HostSound, KeptOnce, Kept
    <2>3. \A i \in 1 .. Len(N) : K[N[i]].state \notin Unowned \cup {"SYN_SENT"}
        BY <1>2 DEF HostSound, KeptOnce
    <2> QED  BY <2>1, <2>2, <2>3 DEF HostSound, KeptOnce
<1> QED  BY <1>3, <1>4 DEF HostSound, N

\* The head of the queue leaves it, and nobody has it.
LEMMA QueueLoses ==
    ASSUME NEW h \in Hosts, NEW R, NEW K, NEW Q, NEW port, HostSound(h, R, K, Q, port),
           Q # << >>
    PROVE  /\ HostSound(h, R, K, Tail(Q), port)
           /\ ~Kept(h, R, Tail(Q), Head(Q))
           /\ Head(Q) \in Conns /\ K[Head(Q)].state \notin Unowned \cup {"SYN_SENT"}
<1> DEFINE N == Tail(Q)
<1>1. /\ Q \in Seq(Conns) /\ N \in Seq(Conns)
      /\ Len(Q) \in Nat \ {0} /\ Len(N) = Len(Q) - 1
      /\ \A i \in 1 .. Len(N) : N[i] = Q[i + 1]
      /\ Head(Q) = Q[1]
    BY HeadTailProperties, EmptySeq, LenProperties DEF HostSound, RowsTyped
<1> HIDE DEF N
<1>2. \A i \in 1 .. Len(N) : i \in Int /\ i + 1 \in 2 .. Len(Q) /\ N[i] = Q[i + 1]
    BY <1>1
<1>0. 1 \in 1 .. Len(Q) /\ \A i \in 1 .. Len(N) : i + 1 \in 1 .. Len(Q) /\ i + 1 # 1
    BY <1>1
<1>3. RowsTyped(h, R, K, N, port)
    BY <1>1 DEF HostSound, RowsTyped
<1>4. KeptOnce(h, R, K, N)
    <2>1. \A i, j \in 1 .. Len(N) : N[i] = N[j] => i = j
        BY <1>0, <1>2 DEF HostSound, KeptOnce
    <2>2. \A i \in 1 .. Len(N), s \in Fds(h) : N[i] # R[s].conn
        BY <1>0, <1>2 DEF HostSound, KeptOnce
    <2>3. \A i \in 1 .. Len(N) : K[N[i]].state \notin Unowned \cup {"SYN_SENT"}
        BY <1>0, <1>2 DEF HostSound, KeptOnce
    <2> QED  BY <2>1, <2>2, <2>3 DEF HostSound, KeptOnce
<1>5. HostSound(h, R, K, N, port)
    BY <1>3, <1>4 DEF HostSound
<1>6. ~Kept(h, R, N, Head(Q))
    BY <1>0, <1>1, <1>2 DEF HostSound, KeptOnce, Kept
<1>7. Head(Q) \in Conns /\ K[Head(Q)].state \notin Unowned \cup {"SYN_SENT"}
    BY <1>0, <1>1 DEF HostSound, KeptOnce
<1> QED  BY <1>5, <1>6, <1>7 DEF N

\* A connect that waited for a connection that is open now returns.
LEMMA WaitsEnd ==
    ASSUME NEW h \in Hosts, NEW R, NEW K, NEW Q, NEW port, HostSound(h, R, K, Q, port),
           NEW c \in Conns, NEW open, open => K[c].state # "SYN_SENT"
    PROVE  HostSound(h, [s \in Fds(h) |-> IF R[s].conn = c /\ open
                                          THEN [R[s] EXCEPT !.waits = FALSE] ELSE R[s]], K, Q, port)
<1> DEFINE N == [s \in Fds(h) |-> IF R[s].conn = c /\ open
                                  THEN [R[s] EXCEPT !.waits = FALSE] ELSE R[s]]
<1>1. R \in [Fds(h) -> Socket]
    BY DEF HostSound, RowsTyped
<1>2. ASSUME NEW s \in Fds(h)
      PROVE  /\ N[s] \in Socket
             /\ N[s].used = R[s].used /\ N[s].state = R[s].state
             /\ N[s].lport = R[s].lport /\ N[s].rport = R[s].rport
             /\ N[s].conn = R[s].conn
             /\ N[s].waits = R[s].waits \/ (R[s].conn = c /\ open)
    <2>1. R[s] \in Socket
        BY <1>1
    <2>2. PICK x \in Socket : x = R[s]
        BY <2>1
    <2>3. [x EXCEPT !.waits = FALSE] \in Socket
        BY DEF Socket
    <2>4. N[s] = IF x.conn = c /\ open THEN [x EXCEPT !.waits = FALSE] ELSE x
        BY <2>2
    <2> HIDE DEF N
    <2> QED  BY <2>2, <2>3, <2>4 DEF Socket
<1>3. N \in [Fds(h) -> Socket]
    BY <1>2
<1> HIDE DEF N
<1>4. RowsTyped(h, N, K, Q, port)
    BY <1>3 DEF HostSound, RowsTyped
<1>5. PortsKnown(h, N, K)
    BY <1>2 DEF HostSound, PortsKnown
<1>6. KeptOnce(h, N, K, Q)
    <2>1. ASSUME NEW s \in Fds(h)
          PROVE  SocketFits(N[s], K)
        <3>1. SocketFits(R[s], K)
            BY DEF HostSound, KeptOnce
        <3> QED  BY <1>2, <3>1 DEF SocketFits
    <2>2. /\ \A s, t \in Fds(h) : N[s].conn = N[t].conn /\ N[s].conn # NoConnection => s = t
          /\ \A i \in 1 .. Len(Q), s \in Fds(h) : Q[i] # N[s].conn
        BY <1>2 DEF HostSound, KeptOnce
    <2> QED  BY <2>1, <2>2 DEF HostSound, KeptOnce
<1> QED  BY <1>4, <1>5, <1>6 DEF HostSound, N

-----------------------------------------------------------------------------
(* The steps.                                                              *)

\* The rows of host h become R, K, Q and port, and those of the other hosts stay.
HostChanges(h, R, K, Q, port) ==
    /\ DOMAIN socket' = Hosts /\ \A g \in Hosts : socket'[g] = IF g = h THEN R ELSE socket[g]
    /\ connection' = [connection EXCEPT ![h] = K]
    /\ acceptQueue' = [acceptQueue EXCEPT ![h] = Q]
    /\ portCounter' = [portCounter EXCEPT ![h] = port]

\* A step changes the rows of one host and sends segments that name their port.
LEMMA OtherHostsKeep ==
    ASSUME NetworkInv, NEW h \in Hosts, NEW R, NEW K, NEW Q, NEW port,
           HostSound(h, R, K, Q, port), HostChanges(h, R, K, Q, port),
           isns' \in Nat, network' \subseteq Sent
    PROVE  NetworkInv'
<1>1. K \in [Conns -> Connection] /\ Q \in Seq(Conns) /\ port \in Nat
    BY DEF HostSound, RowsTyped
<1>2. /\ connection' \in [Hosts -> [Conns -> Connection]]
      /\ acceptQueue' \in [Hosts -> Seq(Conns)]
      /\ portCounter' \in [Hosts -> Nat]
      /\ DOMAIN socket' = Hosts
    BY <1>1 DEF NetworkInv, HostChanges
<1>3. ASSUME NEW g \in Hosts
      PROVE  HostSound(g, socket'[g], connection'[g], acceptQueue'[g], portCounter'[g])
    <2>1. CASE g = h
        <3>1. /\ socket'[g] = R /\ connection'[g] = K /\ acceptQueue'[g] = Q
              /\ portCounter'[g] = port
            BY <2>1 DEF NetworkInv, HostChanges
        <3> QED  BY <2>1, <3>1
    <2>2. CASE g # h
        <3>1. /\ socket'[g] = socket[g] /\ connection'[g] = connection[g]
              /\ acceptQueue'[g] = acceptQueue[g] /\ portCounter'[g] = portCounter[g]
            BY <2>2 DEF NetworkInv, HostChanges
        <3> QED  BY <3>1 DEF NetworkInv
    <2> QED  BY <2>1, <2>2
<1> QED  BY <1>2, <1>3 DEF NetworkInv

\* A segment of a connection that knows its other end names its port.
LEMMA BuiltIsSent ==
    ASSUME NEW h \in Hosts, NEW k \in Connection, EndsKnown(k), k.state \notin {"CLOSED", "LISTEN"},
           NEW flags \in SUBSET Flags, NEW len \in Nat
    PROVE  BuildTcpPacket(h, k, flags, len) \in Sent
<1>1. k.lport \in Nat \ {0} /\ k.rport \in Nat /\ k.rhost \in Hosts /\ k.seq \in Nat
    BY DEF EndsKnown, Connection, Ports
<1> QED  BY <1>1 DEF BuildTcpPacket, Sent, Segment, Ports

\* The rows of a host are of their types.
LEMMA RowsOf ==
    ASSUME NetworkInv, NEW h \in Hosts
    PROVE  /\ HostSound(h, socket[h], connection[h], acceptQueue[h], portCounter[h])
           /\ socket[h] \in [Fds(h) -> Socket] /\ connection[h] \in [Conns -> Connection]
           /\ acceptQueue[h] \in Seq(Conns) /\ portCounter[h] \in Nat \ {0}
           /\ \A c \in Conns : EndsKnown(connection[h][c])
    BY DEF NetworkInv, HostSound, RowsTyped, PortsKnown

\* Nothing is sent, and nothing but the socket table of one host changes.
LEMMA SocketStep ==
    ASSUME NetworkInv, NEW h \in Hosts, NEW s \in Fds(h), NEW y \in Socket,
           y.state \in {"BOUND", "LISTENING"} => y.lport # 0,
           y.conn = socket[h][s].conn,
           SocketFits(y, connection[h]),
           socket' = [socket EXCEPT ![h][s] = y],
           UNCHANGED <<connection, acceptQueue, portCounter, isns, network>>
    PROVE  NetworkInv'
<1> DEFINE R == [socket[h] EXCEPT ![s] = y]
<1>1. HostSound(h, R, connection[h], acceptQueue[h], portCounter[h])
    BY RowsOf, SocketSet
<1>2. HostChanges(h, R, connection[h], acceptQueue[h], portCounter[h])
    BY DEF HostChanges, NetworkInv
<1> HIDE DEF R
<1> QED  BY <1>1, <1>2, OtherHostsKeep DEF NetworkInv

\* What is left of the last owner's connection carries no data, so that the slot is
\* free to be used again.
LEMMA OpenSocketKeeps ==
    ASSUME NetworkInv, NEW h \in Hosts, OpenSocket(h)
    PROVE  NetworkInv'
<1>1. PICK s \in Fds(h) : /\ FirstFreeFd(h, s)
                          /\ socket' = [socket EXCEPT ![h][s] = CreatedSocket(@)]
                          /\ UNCHANGED <<connection, acceptQueue, portCounter, isns, network>>
    BY DEF OpenSocket
<1>2. PICK x \in Socket : x = socket[h][s]
    BY RowsOf
<1>3. PICK y : y = CreatedSocket(x)
    OBVIOUS
<1>4. y \in Socket /\ y.state = "CREATED" /\ y.conn = x.conn
    BY <1>3 DEF CreatedSocket, Socket, SocketStates, Ports
<1>5. SocketFits(x, connection[h]) /\ ~x.used
    BY <1>1, <1>2, RowsOf DEF HostSound, KeptOnce, FirstFreeFd
<1>6. SocketFits(y, connection[h])
    BY <1>4, <1>5 DEF SocketFits
<1>7. socket' = [socket EXCEPT ![h][s] = y]
    BY <1>1, <1>2, <1>3
<1> QED  BY <1>1, <1>2, <1>4, <1>6, <1>7, SocketStep

\* bind keeps the hosts sound: the port it takes is the socket's own.
LEMMA BindKeeps ==
    ASSUME NetworkInv, NEW h \in Hosts, NEW s \in Fds(h), Bind(h, s)
    PROVE  NetworkInv'
<1>1. PICK x \in Socket : x = socket[h][s]
    BY RowsOf
<1>2. PICK y : y = [x EXCEPT !.lport = ServerPort, !.state = "BOUND"]
    OBVIOUS
<1>3. /\ y \in Socket /\ y.conn = x.conn /\ y.lport # 0 /\ x.rport = 0
      /\ y.used = x.used /\ y.rport = x.rport /\ y.waits = x.waits
    BY <1>1, <1>2, SocketsAssumption DEF Bind, Socket, SocketStates, Ports
<1>4. SocketFits(x, connection[h])
    BY <1>1, RowsOf DEF HostSound, KeptOnce
<1>5. SocketFits(y, connection[h])
    BY <1>3, <1>4 DEF SocketFits
<1>6. socket' = [socket EXCEPT ![h][s] = y]
    BY <1>1, <1>2 DEF Bind, NetworkInv
<1> QED  BY <1>1, <1>3, <1>5, <1>6, SocketStep DEF Bind

\* listen keeps the hosts sound: it changes the state of the socket only.
LEMMA ListenKeeps ==
    ASSUME NetworkInv, NEW h \in Hosts, NEW s \in Fds(h), Listen(h, s)
    PROVE  NetworkInv'
<1>1. PICK x \in Socket : x = socket[h][s]
    BY RowsOf
<1>2. PICK y : y = [x EXCEPT !.state = "LISTENING"]
    OBVIOUS
<1>3. /\ y \in Socket /\ y.conn = x.conn /\ y.lport = x.lport
      /\ y.used = x.used /\ y.rport = x.rport /\ y.waits = x.waits
    BY <1>1, <1>2 DEF Listen, Socket, SocketStates
<1>4. SocketFits(x, connection[h]) /\ x.lport # 0
    BY <1>1, RowsOf DEF HostSound, KeptOnce, PortsKnown, Listen
<1>5. SocketFits(y, connection[h])
    BY <1>3, <1>4 DEF SocketFits
<1>6. socket' = [socket EXCEPT ![h][s] = y]
    BY <1>1, <1>2 DEF Listen
<1> QED  BY <1>1, <1>3, <1>4, <1>5, <1>6, SocketStep DEF Listen

\* accept that finds nobody waiting turns a free connection into a listening one.
LEMMA AcceptWaitsKeeps ==
    ASSUME NetworkInv, NEW h \in Hosts, NEW s \in Fds(h), AcceptWaits(h, s)
    PROVE  NetworkInv'
<1>1. PICK c \in Conns :
          /\ socket[h][s].state = "LISTENING" /\ connection[h][c].state = "CLOSED"
          /\ connection' = [connection EXCEPT ![h][c] =
                               [Unused EXCEPT !.lport = socket[h][s].lport, !.state = "LISTEN"]]
          /\ UNCHANGED <<socket, acceptQueue, portCounter, isns, network>>
    BY DEF AcceptWaits, FreeConnection
<1>2. PICK k : k = [Unused EXCEPT !.lport = socket[h][s].lport, !.state = "LISTEN"]
    OBVIOUS
<1>3. socket[h][s].lport \in Nat \ {0}
    BY <1>1, RowsOf DEF HostSound, PortsKnown, Socket, Ports
<1>4. k \in Connection /\ EndsKnown(k)
    BY <1>2, <1>3 DEF Unused, Connection, EndsKnown, TcpStates, Ports
<1> DEFINE K == [connection[h] EXCEPT ![c] = k]
<1>5. HostSound(h, socket[h], K, acceptQueue[h], portCounter[h])
    BY <1>1, <1>4, RowsOf, FreeConnectionSet DEF Unowned
<1>6. HostChanges(h, socket[h], K, acceptQueue[h], portCounter[h])
    BY <1>1, <1>2 DEF HostChanges, NetworkInv
<1> HIDE DEF K
<1> QED  BY <1>1, <1>5, <1>6, OtherHostsKeep DEF NetworkInv

\* The connection at the head of the queue goes to a free slot, or to nobody.
LEMMA AcceptReturnsKeeps ==
    ASSUME NetworkInv, NEW h \in Hosts, NEW s \in Fds(h), AcceptReturns(h, s)
    PROVE  NetworkInv'
<1>1. PICK c, port : c = Head(acceptQueue[h]) /\ port = socket[h][s].lport
    OBVIOUS
<1>2. /\ acceptQueue[h] # << >> /\ connection[h][c].lport = port
      /\ acceptQueue' = [acceptQueue EXCEPT ![h] = Tail(@)]
      /\ UNCHANGED <<connection, portCounter, isns, network>>
    BY <1>1 DEF AcceptReturns
<1> DEFINE K == connection[h]
           Q == Tail(acceptQueue[h])
<1>3. /\ HostSound(h, socket[h], K, Q, portCounter[h])
      /\ ~Kept(h, socket[h], Q, c)
      /\ c \in Conns /\ K[c].state \notin Unowned \cup {"SYN_SENT"}
    BY <1>1, <1>2, RowsOf, QueueLoses
<1>4. ASSUME NEW R, HostSound(h, R, K, Q, portCounter[h]),
             DOMAIN socket' = Hosts, \A g \in Hosts : socket'[g] = IF g = h THEN R ELSE socket[g]
      PROVE  NetworkInv'
    <2>1. HostChanges(h, R, K, Q, portCounter[h])
        BY <1>2, <1>4 DEF HostChanges, NetworkInv
    <2> HIDE DEF K, Q
    <2> QED  BY <1>2, <1>4, <2>1, OtherHostsKeep DEF NetworkInv
<1>5. CASE UNCHANGED socket
    BY <1>3, <1>4, <1>5 DEF NetworkInv
<1>6. CASE \E t \in Fds(h) :
             /\ FirstFreeFd(h, t)
             /\ socket' = [socket EXCEPT ![h][t] = Accepted(@, port, connection[h][c], c)]
    <2>1. PICK t \in Fds(h) :
             socket' = [socket EXCEPT ![h][t] = Accepted(@, port, connection[h][c], c)]
        BY <1>6
    <2>2. PICK x \in Socket : x = socket[h][t]
        BY RowsOf
    <2>3. PICK k \in Connection : k = K[c] /\ EndsKnown(k)
        BY <1>3, RowsOf
    <2>4. PICK y : y = Accepted(x, port, k, c)
        OBVIOUS
    <2>5. port \in Nat /\ k.rport \in Nat /\ k.rport # 0
        <3>1. port \in Nat
            BY <1>1, RowsOf DEF Socket, Ports
        <3>2. k.rport \in Nat /\ k.rport # 0
            BY <1>3, <2>3 DEF Connection, EndsKnown, Unowned, Ports
        <3> QED  BY <3>1, <3>2
    <2>6. /\ y \in Socket /\ y.conn = c /\ y.used /\ y.rport # 0 /\ y.lport = port
          /\ y.state = "CONNECTED"
        BY <1>3, <2>4, <2>5 DEF Accepted, CreatedSocket, Socket, SocketStates, Ports
    <2>7. SocketFits(y, K)
        BY <1>2, <1>3, <2>6 DEF SocketFits
    <2> DEFINE R == [socket[h] EXCEPT ![t] = y]
    <2>8. HostSound(h, R, K, Q, portCounter[h])
        BY <1>3, <2>6, <2>7, SocketSet
    <2>9. DOMAIN socket' = Hosts /\ \A g \in Hosts : socket'[g] = IF g = h THEN R ELSE socket[g]
        BY <2>1, <2>2, <2>3, <2>4 DEF NetworkInv
    <2> HIDE DEF R, K, Q
    <2> QED  BY <1>4, <2>8, <2>9
<1> QED  BY <1>1, <1>5, <1>6 DEF AcceptReturns

\* connect takes a connection that nobody has; without one the socket only gets its ports.
LEMMA ConnectKeeps ==
    ASSUME NetworkInv, NEW h \in Hosts, NEW s \in Fds(h), NEW remote \in Hosts,
           Connect(h, s, remote)
    PROVE  NetworkInv'
<1> DEFINE q == IF socket[h][s].lport = 0 THEN portCounter[h] ELSE socket[h][s].lport
<1>0. PICK x \in Socket : x = socket[h][s]
    BY RowsOf
<1>1. PICK port, next : port = q /\ next = IF port = portCounter[h] THEN portCounter[h] + 1 ELSE portCounter[h]
    OBVIOUS
<1>2. port \in Nat \ {0} /\ next \in Nat \ {0}
    BY <1>0, <1>1, RowsOf DEF Socket, Ports
<1>3. /\ x.used /\ x.rport = 0 /\ x.state \in {"CREATED", "BOUND"}
      /\ portCounter' = [portCounter EXCEPT ![h] = next]
      /\ acceptQueue' = acceptQueue
    BY <1>0, <1>1 DEF Connect, NetworkInv
<1>4. HostSound(h, socket[h], connection[h], acceptQueue[h], next)
    BY <1>2, RowsOf DEF HostSound, RowsTyped
<1>5. CASE TcpConnect(h, s, port, remote)
    <2>1. PICK isn : isn = Isn
        OBVIOUS
    <2>2. PICK k : k = [lport |-> port, rhost |-> remote, rport |-> ServerPort,
                        state |-> "SYN_SENT", seq |-> isn, ack |-> 0]
        OBVIOUS
    <2>3. PICK c \in Conns :
              /\ connection[h][c].state = "CLOSED"
              /\ connection' = [connection EXCEPT ![h][c] = k]
              /\ socket' = [socket EXCEPT ![h][s].lport = port, ![h][s].rport = ServerPort,
                                ![h][s].conn = c, ![h][s].waits = TRUE]
              /\ network' = network \cup {BuildTcpPacket(h, k, {"SYN"}, 0)}
              /\ isns' = isns + 1
        BY <1>5, <2>1, <2>2 DEF TcpConnect, FreeConnection, SendTcpPacket
    <2>4. PICK y : y = [x EXCEPT !.lport = port, !.rport = ServerPort, !.conn = c, !.waits = TRUE]
        OBVIOUS
    <2>5. /\ y \in Socket /\ y.used /\ y.rport # 0 /\ y.lport = port /\ y.conn = c /\ y.waits
          /\ y.state = x.state
        BY <1>2, <1>3, <2>4, SocketsAssumption DEF Socket, Ports
    <2>6. isn \in Nat /\ isns + 1 \in Nat
        BY <2>1 DEF Isn, NetworkInv
    <2>7. /\ k \in Connection /\ EndsKnown(k) /\ k.state = "SYN_SENT" /\ k.lport = port
        BY <1>2, <2>2, <2>6, SocketsAssumption DEF Connection, EndsKnown, TcpStates, Ports
    <2> DEFINE K == [connection[h] EXCEPT ![c] = k]
               R == [socket[h] EXCEPT ![s] = y]
    <2>8. /\ HostSound(h, socket[h], K, acceptQueue[h], next)
          /\ ~Kept(h, socket[h], acceptQueue[h], c)
        BY <1>4, <2>3, <2>7, FreeConnectionSet DEF Unowned
    <2>9. SocketFits(y, K)
        BY <2>5, <2>7, RowsOf DEF SocketFits, Unowned
    <2>10. x.state = "BOUND" => x.lport # 0
        BY <1>0, RowsOf DEF HostSound, PortsKnown
    <2>11. HostSound(h, R, K, acceptQueue[h], next)
        BY <1>2, <1>3, <2>5, <2>8, <2>9, <2>10, SocketSet
    <2>12. HostChanges(h, R, K, acceptQueue[h], next)
        <3>1. socket' = [socket EXCEPT ![h][s] = y]
            BY <1>0, <2>3, <2>4 DEF NetworkInv
        <3> QED  BY <1>3, <2>3, <3>1 DEF HostChanges, NetworkInv
    <2>13. network' \subseteq Sent
        <3>1. BuildTcpPacket(h, k, {"SYN"}, 0) \in Sent
            BY <2>7, BuiltIsSent DEF Flags
        <3> QED  BY <2>3, <3>1 DEF NetworkInv
    <2> HIDE DEF K, R
    <2> QED  BY <2>3, <2>6, <2>11, <2>12, <2>13, OtherHostsKeep
<1>6. CASE /\ socket' = [socket EXCEPT ![h][s].lport = port, ![h][s].rport = ServerPort]
           /\ UNCHANGED <<connection, isns, network>>
    <2>1. PICK y : y = [x EXCEPT !.lport = port, !.rport = ServerPort]
        OBVIOUS
    <2>2. /\ y \in Socket /\ y.lport = port /\ y.conn = x.conn /\ y.waits = x.waits
        BY <1>2, <2>1, SocketsAssumption DEF Socket, Ports
    <2>3. SocketFits(x, connection[h])
        BY <1>0, RowsOf DEF HostSound, KeptOnce
    <2>4. SocketFits(y, connection[h])
        BY <1>3, <2>2, <2>3 DEF SocketFits
    <2> DEFINE R == [socket[h] EXCEPT ![s] = y]
    <2>5. HostSound(h, R, connection[h], acceptQueue[h], next)
        BY <1>0, <1>2, <1>4, <2>2, <2>4, SocketSet
    <2>6. HostChanges(h, R, connection[h], acceptQueue[h], next)
        <3>1. socket' = [socket EXCEPT ![h][s] = y]
            BY <1>0, <1>6, <2>1 DEF NetworkInv
        <3> QED  BY <1>3, <1>6, <3>1 DEF HostChanges, NetworkInv
    <2> HIDE DEF R
    <2> QED  BY <1>6, <2>5, <2>6, OtherHostsKeep DEF NetworkInv
<1> QED  BY <1>1, <1>5, <1>6 DEF Connect

\* A connection becomes what a segment or tcp_close makes of it, and answers.
LEMMA ConnectionStep ==
    ASSUME NetworkInv, NEW h \in Hosts, NEW c \in Conns, NEW step, NEW len \in Nat,
           Becomes(connection[h][c], step),
           \A s \in Fds(h) : socket[h][s].conn = c =>
               SocketFits(socket[h][s], [connection[h] EXCEPT ![c] = step.conn])
    PROVE  /\ HostSound(h, socket[h], [connection[h] EXCEPT ![c] = step.conn],
                        acceptQueue[h], portCounter[h])
           /\ step.reply # {} => BuildTcpPacket(h, step.conn, step.reply, len) \in Sent
<1> DEFINE K == [connection[h] EXCEPT ![c] = step.conn]
<1>1. PICK k \in Connection : k = step.conn
    BY DEF Becomes
<1>2. EndsKnown(k)
    BY <1>1 DEF Becomes
<1>3. \A i \in 1 .. Len(acceptQueue[h]) :
          acceptQueue[h][i] = c => k.state \notin Unowned \cup {"SYN_SENT"}
    BY <1>1, RowsOf DEF HostSound, KeptOnce, Becomes
<1>4. HostSound(h, socket[h], K, acceptQueue[h], portCounter[h])
    BY <1>1, <1>2, <1>3, RowsOf, ConnectionSet
<1>5. step.reply # {} => BuildTcpPacket(h, step.conn, step.reply, len) \in Sent
    BY <1>1, <1>2, BuiltIsSent DEF Becomes
<1> QED  BY <1>4, <1>5

\* send, which changes one connection and sends one segment, keeps the hosts sound.
LEMMA SendDataKeeps ==
    ASSUME NetworkInv, NEW h \in Hosts, NEW s \in Fds(h), SendData(h, s)
    PROVE  NetworkInv'
<1>1. PICK c : c = socket[h][s].conn
    OBVIOUS
<1>2. /\ c # NoConnection /\ connection[h][c].state = "ESTABLISHED"
      /\ network' = network \cup {BuildTcpPacket(h, connection[h][c], {"PSH", "ACK"}, 1)}
      /\ connection' = [connection EXCEPT ![h][c].seq = @ + 1]
      /\ UNCHANGED <<socket, acceptQueue, portCounter, isns>>
    BY <1>1 DEF SendData, CanSend, SendTcpPacket
<1>3. c \in Conns
    BY <1>1, <1>2, RowsOf DEF Socket
<1>4. PICK k \in Connection : k = connection[h][c] /\ EndsKnown(k)
    BY <1>3, RowsOf
<1>5. PICK n : n = [k EXCEPT !.seq = @ + 1]
    OBVIOUS
<1>6. /\ n \in Connection /\ n.state = k.state /\ n.lport = k.lport
      /\ n.rhost = k.rhost /\ n.rport = k.rport
    BY <1>5 DEF Connection
<1>7. EndsKnown(n) /\ n.state = "ESTABLISHED"
    BY <1>2, <1>4, <1>6 DEF EndsKnown
<1> DEFINE K == [connection[h] EXCEPT ![c] = n]
<1>8. ASSUME NEW t \in Fds(h), socket[h][t].conn = c
      PROVE  SocketFits(socket[h][t], K)
    <2>1. SocketFits(socket[h][t], connection[h])
        BY RowsOf DEF HostSound, KeptOnce
    <2>2. K[c] = n
        BY <1>3, RowsOf
    <2> QED  BY <1>4, <1>6, <1>8, <2>1, <2>2 DEF SocketFits
<1>9. HostSound(h, socket[h], K, acceptQueue[h], portCounter[h])
    BY <1>3, <1>6, <1>7, <1>8, RowsOf, ConnectionSet DEF Unowned
<1>10. HostChanges(h, socket[h], K, acceptQueue[h], portCounter[h])
    BY <1>2, <1>4, <1>5 DEF HostChanges, NetworkInv
<1>11. BuildTcpPacket(h, k, {"PSH", "ACK"}, 1) \in Sent
    BY <1>2, <1>4, BuiltIsSent DEF Flags
<1> HIDE DEF K
<1> QED  BY <1>2, <1>4, <1>9, <1>10, <1>11, OtherHostsKeep DEF NetworkInv

\* The connection of a socket that is closed is not open afterwards, so that the next
\* owner of the slot finds nothing to send on.
LEMMA CloseSocketKeeps ==
    ASSUME NetworkInv, NEW h \in Hosts, NEW s \in Fds(h), CloseSocket(h, s)
    PROVE  NetworkInv'
<1>1. PICK x \in Socket : x = socket[h][s]
    BY RowsOf
<1>2. PICK y : y = [x EXCEPT !.used = FALSE]
    OBVIOUS
<1>3. /\ y \in Socket /\ y.conn = x.conn /\ y.lport = x.lport /\ y.state = x.state
      /\ y.rport = x.rport /\ y.waits = x.waits
    BY <1>2 DEF Socket
<1>4. /\ SocketFits(x, connection[h])
      /\ y.state \in {"BOUND", "LISTENING"} => y.lport # 0
    BY <1>1, <1>3, RowsOf DEF HostSound, KeptOnce, PortsKnown
<1>5. /\ ~x.waits /\ socket' = [socket EXCEPT ![h][s] = y]
      /\ UNCHANGED <<acceptQueue, portCounter, isns>>
    BY <1>1, <1>2 DEF CloseSocket
<1>6. CASE x.conn = NoConnection
    <2>1. UNCHANGED <<connection, network>>
        BY <1>1, <1>6 DEF CloseSocket
    <2>2. SocketFits(y, connection[h])
        BY <1>3, <1>6 DEF SocketFits
    <2> QED  BY <1>1, <1>3, <1>4, <1>5, <2>1, <2>2, SocketStep
<1>7. CASE x.conn # NoConnection
    <2>1. PICK c \in Conns : c = x.conn
        BY <1>7 DEF Socket
    <2>2. PICK flags, step :
              /\ flags \in FinFlags
              /\ step = TcpClose(connection[h][c], flags)
              /\ connection' = [connection EXCEPT ![h][c] = step.conn]
              /\ network' = network \cup (IF step.reply = {} THEN {}
                                          ELSE {BuildTcpPacket(h, step.conn, flags, 0)})
        BY <1>1, <1>7, <2>1 DEF CloseSocket, SendTcpPacket
    <2>3. PICK k \in Connection : k = connection[h][c] /\ EndsKnown(k)
        BY RowsOf
    <2>4. Becomes(k, step) /\ step.conn.state # "ESTABLISHED"
        BY <2>2, <2>3, CloseBecomes
    <2>5. step.reply # {} => step.reply = flags
        BY <2>2 DEF TcpClose, Stays
    <2> DEFINE K == [connection[h] EXCEPT ![c] = step.conn]
    <2>6. K[c] = step.conn
        BY RowsOf
    <2>7. /\ step.conn.state \notin Unowned
          /\ step.conn.state \notin {"SYN_SENT", "ESTABLISHED"}
        BY <1>4, <1>5, <1>7, <2>1, <2>3, <2>4 DEF SocketFits, Becomes
    <2>8. \A t \in Fds(h) : socket[h][t].conn = c => SocketFits(socket[h][t], K)
        BY <2>6, <2>7 DEF SocketFits
    <2>9. /\ HostSound(h, socket[h], K, acceptQueue[h], portCounter[h])
          /\ step.reply # {} => BuildTcpPacket(h, step.conn, step.reply, 0) \in Sent
        BY <2>3, <2>4, <2>8, ConnectionStep
    <2>10. SocketFits(y, K)
        BY <1>3, <2>1, <2>6, <2>7 DEF SocketFits
    <2> DEFINE R == [socket[h] EXCEPT ![s] = y]
    <2>11. HostSound(h, R, K, acceptQueue[h], portCounter[h])
        BY <1>1, <1>3, <1>4, <2>9, <2>10, SocketSet
    <2>12. HostChanges(h, R, K, acceptQueue[h], portCounter[h])
        BY <1>5, <2>2 DEF HostChanges, NetworkInv
    <2>13. network' \subseteq Sent
        BY <2>2, <2>5, <2>9 DEF NetworkInv
    <2> HIDE DEF R, K
    <2> QED  BY <1>5, <2>11, <2>12, <2>13, OtherHostsKeep DEF NetworkInv
<1> QED  BY <1>6, <1>7

\* A segment, also one that arrives a second time, opens a connection only for the
\* socket that waits for it, and queues only a connection that nobody has yet.
LEMMA HandleTcpPacketKeeps ==
    ASSUME NetworkInv, NEW p \in network, HandleTcpPacket(p)
    PROVE  NetworkInv'
<1>1. p \in Sent /\ p.dst \in Hosts
    BY DEF NetworkInv, Sent, Segment
<1> DEFINE h == p.dst
           isn == Isn
<1>2. h \in Hosts /\ isn \in Nat
    BY <1>1 DEF Isn, NetworkInv
<1>0. PICK c \in Conns :
        LET old == connection[h][c]
            step == TcpStateMachine(old, p, isn)
        IN  /\ connection' = [connection EXCEPT ![h][c] = step.conn]
            /\ network' = network \cup (IF step.reply = {} THEN {}
                                        ELSE {BuildTcpPacket(h, step.conn, step.reply, 0)})
            /\ acceptQueue' = [acceptQueue EXCEPT ![h] = Queued(@, c, old.state, step.conn.state)]
            /\ socket' = [socket EXCEPT ![h] = [s \in Fds(h) |->
                     IF @[s].conn = c /\ step.conn.state = "ESTABLISHED"
                     THEN [@[s] EXCEPT !.waits = FALSE] ELSE @[s]]]
            /\ isns' = IF old.state = "LISTEN" /\ step.conn # old THEN isns + 1 ELSE isns
            /\ UNCHANGED portCounter
    BY Zenon DEF HandleTcpPacket, SendTcpPacket
<1> HIDE DEF h, isn
<1> USE <1>2
<1>a. PICK old : old = connection[h][c]
    OBVIOUS
<1>b. PICK step : step = TcpStateMachine(old, p, isn)
    OBVIOUS
<1>c. PICK open : open = (step.conn.state = "ESTABLISHED")
    OBVIOUS
<1>3. /\ old = connection[h][c] /\ step = TcpStateMachine(old, p, isn)
      /\ open = (step.conn.state = "ESTABLISHED")
      /\ connection' = [connection EXCEPT ![h][c] = step.conn]
      /\ network' = network \cup (IF step.reply = {} THEN {}
                                  ELSE {BuildTcpPacket(h, step.conn, step.reply, 0)})
      /\ acceptQueue' = [acceptQueue EXCEPT ![h] = Queued(@, c, old.state, step.conn.state)]
      /\ socket' = [socket EXCEPT ![h] = [s \in Fds(h) |->
                 IF @[s].conn = c /\ open
                 THEN [@[s] EXCEPT !.waits = FALSE] ELSE @[s]]]
      /\ isns' \in {isns, isns + 1}
      /\ portCounter' = portCounter
    BY <1>0, <1>a, <1>b, <1>c
<1>4. old \in Connection /\ EndsKnown(old)
    BY <1>3, RowsOf
<1>5. Becomes(old, step)
    BY <1>1, <1>3, <1>4, StepBecomes
<1> DEFINE K == [connection[h] EXCEPT ![c] = step.conn]
           R == [s \in Fds(h) |-> IF socket[h][s].conn = c /\ open
                                  THEN [socket[h][s] EXCEPT !.waits = FALSE] ELSE socket[h][s]]
           Q == Queued(acceptQueue[h], c, old.state, step.conn.state)
<1>6. K[c] = step.conn
    BY RowsOf
<1>7. ASSUME NEW t \in Fds(h), socket[h][t].conn = c
      PROVE  SocketFits(socket[h][t], K)
    <2>1. SocketFits(socket[h][t], connection[h]) /\ c # NoConnection
        BY RowsOf, SocketsAssumption DEF HostSound, KeptOnce, Conns
    <2> QED  BY <1>3, <1>5, <1>6, <1>7, <2>1 DEF SocketFits, Becomes, Unowned
<1>8. /\ HostSound(h, socket[h], K, acceptQueue[h], portCounter[h])
      /\ step.reply # {} => BuildTcpPacket(h, step.conn, step.reply, 0) \in Sent
    BY <1>3, <1>5, <1>7, ConnectionStep
<1>9. HostSound(h, socket[h], K, Q, portCounter[h])
    <2>1. CASE step.conn.state = "ESTABLISHED" /\ old.state = "SYN_RECEIVED"
        <3>1. ~Kept(h, socket[h], acceptQueue[h], c)
            BY <1>3, <2>1, RowsOf, UnownedIsFree DEF Unowned
        <3>2. Q = Append(acceptQueue[h], c)
            BY <2>1 DEF Queued
        <3> HIDE DEF K, Q
        <3> QED  BY <1>6, <1>8, <2>1, <3>1, <3>2, QueueGains DEF Unowned
    <2>2. CASE ~(step.conn.state = "ESTABLISHED" /\ old.state = "SYN_RECEIVED")
        BY <1>8, <2>2 DEF Queued
    <2> QED  BY <2>1, <2>2
<1>10. HostSound(h, R, K, Q, portCounter[h])
    <2>1. open => K[c].state # "SYN_SENT"
        BY <1>3, <1>6
    <2> HIDE DEF K, Q
    <2> QED  BY <1>9, <2>1, WaitsEnd
<1>11. HostChanges(h, R, K, Q, portCounter[h])
    BY <1>3 DEF HostChanges, NetworkInv
<1>12. network' \subseteq Sent /\ isns' \in Nat
    BY <1>3, <1>8 DEF NetworkInv
<1> HIDE DEF R, K, Q
<1> QED  BY <1>10, <1>11, <1>12, OtherHostsKeep

-----------------------------------------------------------------------------
\* At the start no host has a connection.
LEMMA NetworkStarts == NetworkInit => NetworkInv
<1> SUFFICES ASSUME NetworkInit PROVE NetworkInv
    OBVIOUS
<1>1. Unused \in Connection /\ EndsKnown(Unused)
    BY DEF Unused, Connection, EndsKnown, TcpStates, Ports
<1>2. FirstPort \in Nat \ {0}
    BY SocketsAssumption
<1>3. ASSUME NEW h \in Hosts
      PROVE  HostSound(h, socket[h], connection[h], acceptQueue[h], portCounter[h])
    <2>1. /\ \A s \in Fds(h) : socket[h][s] = [used |-> FALSE, state |-> "CREATED", lport |-> 0,
                                               rport |-> 0, conn |-> NoConnection, waits |-> FALSE]
          /\ socket[h] \in [Fds(h) -> Socket]
        BY DEF NetworkInit, Socket, SocketStates, Ports
    <2>2. /\ \A c \in Conns : connection[h][c] = Unused
          /\ connection[h] \in [Conns -> Connection]
        BY <1>1 DEF NetworkInit
    <2>3. acceptQueue[h] = << >> /\ portCounter[h] = FirstPort
        BY DEF NetworkInit
    <2>4. \A s \in Fds(h) : SocketFits(socket[h][s], connection[h])
        BY <2>1 DEF SocketFits
    <2> QED  BY <1>1, <1>2, <2>1, <2>2, <2>3, <2>4
             DEF HostSound, RowsTyped, PortsKnown, KeptOnce
<1>4. /\ DOMAIN socket = Hosts /\ connection \in [Hosts -> [Conns -> Connection]]
      /\ acceptQueue \in [Hosts -> Seq(Conns)] /\ portCounter \in [Hosts -> Nat]
      /\ isns \in Nat /\ network \subseteq Sent
    BY <1>1, <1>2 DEF NetworkInit
<1> QED  BY <1>3, <1>4 DEF NetworkInv

\* Every step keeps every host sound.
LEMMA NetworkStepKeeps == NetworkInv /\ [NetworkNext]_networkVars => NetworkInv'
<1> SUFFICES ASSUME NetworkInv, [NetworkNext]_networkVars PROVE NetworkInv'
    OBVIOUS
<1>1. ASSUME NEW h \in Hosts, OpenSocket(h) PROVE NetworkInv'
    BY <1>1, OpenSocketKeeps
<1>2. ASSUME NEW h \in Hosts, NEW s \in Fds(h), Bind(h, s) PROVE NetworkInv'
    BY <1>2, BindKeeps
<1>3. ASSUME NEW h \in Hosts, NEW s \in Fds(h), Listen(h, s) PROVE NetworkInv'
    BY <1>3, ListenKeeps
<1>4. ASSUME NEW h \in Hosts, NEW s \in Fds(h), AcceptWaits(h, s) PROVE NetworkInv'
    BY <1>4, AcceptWaitsKeeps
<1>5. ASSUME NEW h \in Hosts, NEW s \in Fds(h), AcceptReturns(h, s) PROVE NetworkInv'
    BY <1>5, AcceptReturnsKeeps
<1>6. ASSUME NEW h \in Hosts, NEW s \in Fds(h), NEW remote \in Hosts \ {h}, Connect(h, s, remote)
      PROVE  NetworkInv'
    BY <1>6, ConnectKeeps
<1>7. ASSUME NEW h \in Hosts, NEW s \in Fds(h), SendData(h, s) PROVE NetworkInv'
    BY <1>7, SendDataKeeps
<1>8. ASSUME NEW h \in Hosts, NEW s \in Fds(h), CloseSocket(h, s) PROVE NetworkInv'
    BY <1>8, CloseSocketKeeps
<1>9. ASSUME NEW p \in network, HandleTcpPacket(p) PROVE NetworkInv'
    BY <1>9, HandleTcpPacketKeeps
<1>10. CASE UNCHANGED networkVars
    BY <1>10 DEF networkVars, NetworkInv
<1> QED  BY <1>1, <1>2, <1>3, <1>4, <1>5, <1>6, <1>7, <1>8, <1>9, <1>10 DEF NetworkNext

\* Every host is sound, in every reachable state.
LEMMA NetworkAlwaysSound == NetworkSpec => []NetworkInv
    BY NetworkStarts, NetworkStepKeeps, PTL DEF NetworkSpec

\* Every row of every host and every segment keeps its type: a connection that answers or
\* sends knows the address of its other end (network.c, tcp_state_machine).
THEOREM NetworkTyped == NetworkSpec => []NetworkTypeOK
<1>1. NetworkInv => NetworkTypeOK
    BY DEF NetworkInv, NetworkTypeOK, HostSound, RowsTyped, Sent
<1> QED  BY <1>1, NetworkAlwaysSound, PTL

\* A set without two members has at most one.
LEMMA OneAtMost ==
    ASSUME NEW S, \A x, y \in S : x = y
    PROVE  /\ Cardinality(S) \in {0, 1}
           /\ Cardinality(S) = 1 => S # {}
<1>1. CASE S = {}
    BY <1>1, FS_EmptySet
<1>2. CASE S # {}
    <2>1. PICK x : x \in S
        BY <1>2
    <2>2. S = {x}
        BY <2>1
    <2> QED  BY <2>2, FS_Singleton
<1> QED  BY <1>1, <1>2

\* A connection has one owner: it waits in the accept queue, once, or belongs to one
\* socket, whatever segments are lost, repeated or reordered and however often slots of
\* the socket table are used again (network.c, handle_tcp_packet, accept, socket).
THEOREM OwnerIsSingle == NetworkSpec => []OneOwner
<1>1. NetworkInv => OneOwner
    <2> SUFFICES ASSUME NetworkInv, NEW h \in Hosts, NEW c \in Conns
                 PROVE  Cardinality({i \in DOMAIN acceptQueue[h] : acceptQueue[h][i] = c})
                            + Cardinality(Owners(h, c)) <= 1
        BY DEF OneOwner
    <2>1. /\ acceptQueue[h] \in Seq(Conns) /\ DOMAIN acceptQueue[h] = 1 .. Len(acceptQueue[h])
          /\ KeptOnce(h, socket[h], connection[h], acceptQueue[h])
        BY RowsOf, LenProperties DEF HostSound
    <2>2. c # NoConnection
        BY SocketsAssumption DEF Conns
    <2> DEFINE W == {i \in DOMAIN acceptQueue[h] : acceptQueue[h][i] = c}
               O == Owners(h, c)
    <2>3. \A i, j \in W : i = j
        BY <2>1 DEF KeptOnce
    <2>4. \A s, t \in O : s = t
        BY <2>1, <2>2 DEF KeptOnce, Owners
    <2>5. W = {} \/ O = {}
        BY <2>1 DEF KeptOnce, Owners
    <2> HIDE DEF W, O
    <2>6. /\ Cardinality(W) \in {0, 1} /\ (Cardinality(W) = 1 => W # {})
          /\ Cardinality(O) \in {0, 1} /\ (Cardinality(O) = 1 => O # {})
        BY <2>3, <2>4, OneAtMost
    <2>7. Cardinality(W) + Cardinality(O) <= 1
        BY <2>5, <2>6
    <2> QED  BY <2>7 DEF W, O
<1> QED  BY <1>1, NetworkAlwaysSound, PTL

\* The tcp_connection that socket() leaves in a slot it gives out again can no longer
\* carry data: who can send on a connection is its owner (network.c:85-93, tcp_send).
THEOREM StaleNeverSends == NetworkSpec => []StaleCannotSend
<1>1. NetworkInv => StaleCannotSend
    <2> SUFFICES ASSUME NetworkInv, NEW h \in Hosts, NEW s \in Fds(h), CanSend(h, s)
                 PROVE  socket[h][s].rport # 0
                        /\ connection[h][socket[h][s].conn].lport = socket[h][s].lport
        BY DEF StaleCannotSend
    <2>1. SocketFits(socket[h][s], connection[h])
        BY RowsOf DEF HostSound, KeptOnce
    <2> QED  BY <2>1 DEF SocketFits, CanSend
<1> QED  BY <1>1, NetworkAlwaysSound, PTL

-----------------------------------------------------------------------------
(* The two ends of a connection.                                           *)

IsOpen(k) == k.state \notin {"CLOSED", "LISTEN"}
Answered  == Synchronized \cup {"SYN_RECEIVED"}

\* `far`, a connection of the host that connection k of host h names, is open and names
\* h and the same two ports.
Meets(h, k, far) ==
    IsOpen(far) /\ far.rhost = h /\ far.lport = k.rport /\ far.rport = k.lport

\* k knows the sequence numbers of `far`, which is as far as k's state says.
Agrees(k, far) ==
    /\ SameIsn(k.ack, far.seq)
    /\ k.state \in Synchronized => far.state \in Answered
    /\ k.state \in PeerHasClosed => far.state \in HasClosed

\* An open connection, met by k, whose sequence numbers k knows.
IsJoined(K, h, k) ==
    \E e \in Conns : /\ Meets(h, k, K[k.rhost][e]) /\ SameIsn(k.ack, K[k.rhost][e].seq)
                     /\ K[k.rhost][e].state \in Synchronized

\* The connection that k, in SYN_RECEIVED, was made for is open by the time any other end
\* of k is, and none of them waits for an ACK as well.
Pending(K, h, k) ==
    \A d \in Conns : Meets(h, k, K[k.rhost][d]) =>
        /\ K[k.rhost][d].state # "SYN_RECEIVED"
        /\ K[k.rhost][d].state \in Synchronized => IsJoined(K, h, k)

\* The other end of k is there and as far as k takes it to be.
HasOtherEnd(K, h, k) ==
    \E d \in Conns : Meets(h, k, K[k.rhost][d]) /\ Agrees(k, K[k.rhost][d])

\* A connection and its other end.  The ten numbers of a connection are enough for it.
EndSound(K, h, k) ==
    /\ k.seq % 10 <= 8
    /\ IsOpen(k) => k.rhost \in Hosts \ {h}
    /\ k.state \in Answered => HasOtherEnd(K, h, k)
    /\ k.state = "SYN_RECEIVED" => Pending(K, h, k)

\* What a segment says of the connection that sent it.
SentBy(k, p) ==
    /\ IsOpen(k) /\ k.lport = p.sport /\ k.rhost = p.dst /\ k.rport = p.dport
    /\ SameIsn(p.seq, k.seq)
    /\ "ACK" \in p.flags => k.state \in Answered
    /\ "ACK" \in p.flags /\ "SYN" \notin p.flags => k.state \in Synchronized
    /\ "FIN" \in p.flags => k.state \in HasClosed

\* The connection that find_tcp_connection finds for a segment, if it is open.
FoundBy(k, p) ==
    IsOpen(k) /\ k.lport = p.dport /\ k.rhost = p.src /\ k.rport = p.sport

\* Nobody who waits for the ACK of a handshake is sent the SYN and ACK of another.
NoneWaits(K, p) ==
    \A d \in Conns : FoundBy(K[p.dst][d], p) => K[p.dst][d].state # "SYN_RECEIVED"

\* A segment that may arrive at any time, also again: who sent it is still there.
SegmentSound(K, p) ==
    /\ p.src # p.dst /\ p.seq % 10 <= 8
    /\ \E d \in Conns : SentBy(K[p.src][d], p)
    /\ "ACK" \in p.flags => \E d \in Conns : FoundBy(K[p.dst][d], p)
    /\ {"SYN", "ACK"} \subseteq p.flags => NoneWaits(K, p)

\* All connections K and all segments N.
EndsSound(K, N) ==
    /\ \A h \in Hosts, c \in Conns : EndSound(K, h, K[h][c])
    /\ \A p \in N : SegmentSound(K, p)

\* An open connection keeps its ends and its sequence numbers, and goes forward.
Grows(a, b) ==
    IsOpen(a) =>
        /\ IsOpen(b) /\ b.lport = a.lport /\ b.rhost = a.rhost /\ b.rport = a.rport
        /\ SameIsn(a.seq, b.seq)
        /\ a.state \in Answered => b.state \in Answered
        /\ a.state \in Synchronized => b.state \in Synchronized
        /\ a.state \in HasClosed => b.state \in HasClosed

\* What a connection knows of its other end stays true as that goes forward.
LEMMA GrowsMeets ==
    ASSUME NEW a, NEW b, Grows(a, b), NEW h, NEW k, Meets(h, k, a)
    PROVE  /\ Meets(h, k, b)
           /\ Agrees(k, a) => Agrees(k, b)
           /\ SameIsn(k.ack, a.seq) => SameIsn(k.ack, b.seq)
           /\ a.state \in Synchronized => b.state \in Synchronized
    BY DEF Grows, Meets, Agrees, SameIsn

\* So does what a segment says of its sender, and who is found for it.
LEMMA GrowsSends ==
    ASSUME NEW a, NEW b, Grows(a, b), NEW p
    PROVE  (SentBy(a, p) => SentBy(b, p)) /\ (FoundBy(a, p) => FoundBy(b, p))
    BY DEF Grows, SentBy, FoundBy, SameIsn

\* What connection c of host h may become.
Fits(K, N, h, c, new) ==
    /\ Grows(K[h][c], new)
    /\ new.seq % 10 <= 8
    /\ IsOpen(new) => new.rhost \in Hosts \ {h}
    /\ new.state \in Answered => HasOtherEnd(K, h, new)
    /\ new.state = "SYN_RECEIVED" =>
          /\ \A d \in Conns : Meets(h, new, K[new.rhost][d]) => K[new.rhost][d].state \notin Answered
          /\ \A p \in N : "ACK" \in p.flags /\ p.dst = h => ~FoundBy(new, p)
    /\ new.state \in Synchronized /\ K[h][c].state \notin Synchronized =>
          \A g \in Hosts, b \in Conns :
              K[g][b].state = "SYN_RECEIVED" /\ K[g][b].rhost = h /\ Meets(g, K[g][b], new)
                  => SameIsn(K[g][b].ack, new.seq) \/ IsJoined(K, g, K[g][b])

\* What it may send then.
MaySend(h, new, p) ==
    /\ IsOpen(new) /\ p.src = h /\ p.sport = new.lport /\ p.dst = new.rhost /\ p.dport = new.rport
    /\ SameIsn(p.seq, new.seq) /\ p.seq % 10 <= 8
    /\ "ACK" \in p.flags => new.state \in Answered
    /\ "ACK" \in p.flags /\ "SYN" \notin p.flags => new.state \in Synchronized
    /\ "FIN" \in p.flags => new.state \in HasClosed
    /\ {"SYN", "ACK"} \subseteq p.flags => new.state = "SYN_RECEIVED"

\* The connections of all hosts.
Tables == [Hosts -> [Conns -> Connection]]

\* When one connection becomes what fits and sends what it may, both ends of every
\* connection still agree.
LEMMA EndsMove ==
    ASSUME NEW K \in Tables, NEW N \in SUBSET Segment, EndsSound(K, N),
           NEW h \in Hosts, NEW c \in Conns, NEW new \in Connection, Fits(K, N, h, c, new),
           NEW M \in SUBSET Segment, \A p \in M : MaySend(h, new, p)
    PROVE  EndsSound([K EXCEPT ![h][c] = new], N \cup M)
<1>1. PICK L : L = [K EXCEPT ![h][c] = new]
    OBVIOUS
<1>2. /\ L[h][c] = new
      /\ \A g \in Hosts, d \in Conns : g # h \/ d # c => L[g][d] = K[g][d]
    BY <1>1 DEF Tables
<1>3. \A g \in Hosts, d \in Conns : Grows(K[g][d], L[g][d])
    <2>1. ASSUME NEW g \in Hosts, NEW d \in Conns, L[g][d] = K[g][d]
          PROVE  Grows(K[g][d], L[g][d])
        BY <2>1 DEF Grows, SameIsn
    <2> QED  BY <1>2, <2>1 DEF Fits
<1>4. ASSUME NEW g \in Hosts, NEW b \in Conns
      PROVE  EndSound(L, g, L[g][b])
    <2>1. CASE g = h /\ b = c
        <3>1. HasOtherEnd(K, h, new) /\ new.rhost \in Hosts \ {h} => HasOtherEnd(L, h, new)
            BY <1>2 DEF HasOtherEnd
        <3>2. new.state = "SYN_RECEIVED" /\ new.rhost \in Hosts \ {h} => Pending(L, h, new)
            BY <1>2 DEF Fits, Pending, Answered
        <3>3. new.state \in Answered => IsOpen(new)
            BY DEF Answered, Synchronized, IsOpen
        <3>4. new.state = "SYN_RECEIVED" => new.state \in Answered
            BY DEF Answered
        <3> QED  BY <1>2, <2>1, <3>1, <3>2, <3>3, <3>4 DEF EndSound, Fits
    <2>2. CASE g # h \/ b # c
        <3>1. PICK k : k = K[g][b]
            OBVIOUS
        <3>2. L[g][b] = k /\ EndSound(K, g, k) /\ k \in Connection
            BY <1>2, <2>2, <3>1 DEF EndsSound, Tables
        <3>3. k.state \in Answered => k.rhost \in Hosts \ {g} /\ IsOpen(k)
            BY <3>2 DEF EndSound, Answered, Synchronized, IsOpen
        <3>4. k.state \in Answered => HasOtherEnd(L, g, k)
            BY <1>3, <3>2, <3>3, GrowsMeets DEF EndSound, HasOtherEnd
        <3>5. ASSUME k.state = "SYN_RECEIVED", NEW d \in Conns, Meets(g, k, L[k.rhost][d])
              PROVE  /\ L[k.rhost][d].state # "SYN_RECEIVED"
                     /\ L[k.rhost][d].state \in Synchronized => IsJoined(L, g, k)
            <4>1. k.rhost \in Hosts /\ IsOpen(k) /\ k.state \in Answered
                BY <3>3, <3>5 DEF Answered
            <4>0. IsJoined(K, g, k) => IsJoined(L, g, k)
                BY <1>3, <4>1, GrowsMeets DEF IsJoined
            <4>2. ASSUME Meets(g, k, K[k.rhost][d])
                  PROVE  /\ K[k.rhost][d].state # "SYN_RECEIVED"
                         /\ K[k.rhost][d].state \in Synchronized => IsJoined(L, g, k)
                <5>1. Pending(K, g, k)
                    BY <3>2, <3>5 DEF EndSound
                <5> QED  BY <4>0, <4>2, <5>1 DEF Pending
            <4>3. CASE k.rhost # h \/ d # c
                BY <1>2, <3>5, <4>1, <4>2, <4>3
            <4>4. CASE k.rhost = h /\ d = c
                <5>1. Meets(g, k, new)
                    BY <1>2, <3>5, <4>4
                <5>2. new.state # "SYN_RECEIVED"
                    <6>1. new.rhost = g /\ Meets(h, new, k)
                        BY <4>1, <4>4, <5>1 DEF Meets
                    <6> QED  BY <3>1, <4>1, <6>1 DEF Fits
                <5>3. CASE K[h][c].state \in Synchronized
                    <6>1. IsOpen(K[h][c])
                        BY <5>3 DEF Synchronized, IsOpen
                    <6>2. Meets(g, k, K[h][c])
                        BY <5>1, <6>1 DEF Meets, Fits, Grows
                    <6> QED  BY <1>2, <4>2, <4>4, <5>2, <5>3, <6>2
                <5>4. CASE K[h][c].state \notin Synchronized
                    <6>1. new.state \in Synchronized => SameIsn(k.ack, new.seq) \/ IsJoined(K, g, k)
                        BY <3>1, <3>5, <4>4, <5>1, <5>4 DEF Fits
                    <6>2. new.state \in Synchronized /\ SameIsn(k.ack, new.seq) => IsJoined(L, g, k)
                        BY <1>2, <4>4, <5>1 DEF IsJoined
                    <6> QED  BY <1>2, <4>0, <4>4, <5>2, <6>1, <6>2
                <5> QED  BY <5>3, <5>4
            <4> QED  BY <4>3, <4>4
        <3>6. k.state = "SYN_RECEIVED" => Pending(L, g, k)
            BY <3>5 DEF Pending
        <3> QED  BY <3>2, <3>4, <3>6 DEF EndSound
    <2> QED  BY <2>1, <2>2
<1>5. ASSUME NEW p \in N
      PROVE  SegmentSound(L, p)
    <2>1. SegmentSound(K, p) /\ p.src \in Hosts /\ p.dst \in Hosts
        BY DEF EndsSound, Segment
    <2>2. \E d \in Conns : SentBy(L[p.src][d], p)
        BY <1>3, <2>1, GrowsSends DEF SegmentSound
    <2>3. "ACK" \in p.flags => \E d \in Conns : FoundBy(L[p.dst][d], p)
        BY <1>3, <2>1, GrowsSends DEF SegmentSound
    <2>4. ASSUME {"SYN", "ACK"} \subseteq p.flags, NEW d \in Conns, FoundBy(L[p.dst][d], p)
          PROVE  L[p.dst][d].state # "SYN_RECEIVED"
        <3>1. CASE p.dst # h \/ d # c
            BY <1>2, <2>1, <2>4, <3>1 DEF SegmentSound, NoneWaits
        <3>2. CASE p.dst = h /\ d = c
            BY <1>2, <2>4, <3>2 DEF Fits
        <3> QED  BY <3>1, <3>2
    <2> QED  BY <2>1, <2>2, <2>3, <2>4 DEF SegmentSound, NoneWaits
<1>6. ASSUME NEW p \in M
      PROVE  SegmentSound(L, p)
    <2>1. MaySend(h, new, p) /\ new.rhost \in Hosts \ {h}
        BY DEF MaySend, Fits
    <2>2. p.src # p.dst /\ p.seq % 10 <= 8 /\ p.src = h /\ p.dst = new.rhost /\ p.dst \in Hosts
        BY <2>1 DEF MaySend
    <2>3. SentBy(new, p)
        BY <2>1 DEF MaySend, SentBy
    <2>4. \A d \in Conns : L[p.dst][d] = K[new.rhost][d]
        BY <1>2, <2>1, <2>2
    <2>5. \A far : Meets(h, new, far) <=> FoundBy(far, p)
        BY <2>1, <2>2 DEF MaySend, Meets, FoundBy
    <2>6. "ACK" \in p.flags => \E d \in Conns : FoundBy(L[p.dst][d], p)
        BY <2>1, <2>4, <2>5 DEF MaySend, Fits, HasOtherEnd
    <2>7. {"SYN", "ACK"} \subseteq p.flags => NoneWaits(L, p)
        <3>1. new.state = "SYN_RECEIVED" =>
                 \A d \in Conns : Meets(h, new, K[new.rhost][d]) => K[new.rhost][d].state # "SYN_RECEIVED"
            BY DEF Fits, Answered
        <3> QED  BY <2>1, <2>4, <2>5, <3>1 DEF MaySend, NoneWaits
    <2> QED  BY <1>2, <2>2, <2>3, <2>6, <2>7 DEF SegmentSound
<1> QED  BY <1>1, <1>4, <1>5, <1>6 DEF EndsSound

-----------------------------------------------------------------------------
(* Connections that are being opened: one for a port at a time.            *)

\* A connection in SYN_SENT and the slot whose connect made it.
OpenedBy(x, c) == x.conn = c /\ x.state \in {"CREATED", "BOUND", "LISTENING"}

\* The port of a socket: ServerPort since bind, one of the counter's since connect.
PortFits(x, port) ==
    /\ x.state \in {"BOUND", "LISTENING"} => x.lport = ServerPort
    /\ x.state = "CREATED" => \/ x.lport = 0 /\ x.rport = 0
                              \/ FirstPort <= x.lport /\ x.lport < port /\ x.rport # 0

\* A connection in SYN_SENT has the slot that opens it, and its port to itself.
OpeningSound(h, R, K, port) ==
    /\ port \in Nat /\ port >= FirstPort
    /\ \A c \in Conns : K[c].state = "SYN_SENT" => \E s \in Fds(h) : OpenedBy(R[s], c)
    /\ \A c, d \in Conns :
          K[c].state = "SYN_SENT" /\ K[d].state = "SYN_SENT" /\ K[c].lport = K[d].lport => c = d
    /\ \A s, t \in Fds(h) :
          R[s].used /\ R[s].state \in {"BOUND", "LISTENING"}
              /\ R[t].used /\ R[t].state \in {"BOUND", "LISTENING"} => s = t
    /\ \A s \in Fds(h) : R[s].used => PortFits(R[s], port)

\* No two connections of a host are being opened from one port.
OpeningInv == \A h \in Hosts : OpeningSound(h, socket[h], connection[h], portCounter[h])

\* A step changes the rows of one host.
LEMMA OpeningMoves ==
    ASSUME OpeningInv, NEW h \in Hosts,
           \A g \in Hosts \ {h} : /\ socket'[g] = socket[g] /\ connection'[g] = connection[g]
                                  /\ portCounter'[g] = portCounter[g],
           OpeningSound(h, socket'[h], connection'[h], portCounter'[h])
    PROVE  OpeningInv'
    BY DEF OpeningInv

\* Connections go on, but none is opened, and sockets do but wait, close or get free.
LEMMA NoneOpens ==
    ASSUME NEW h, NEW R, NEW K, NEW port, OpeningSound(h, R, K, port), NEW R2, NEW K2,
           \A c \in Conns : K2[c].state = "SYN_SENT" => K[c].state = "SYN_SENT" /\ K2[c].lport = K[c].lport,
           \A s \in Fds(h) : /\ R2[s].conn = R[s].conn /\ R2[s].state = R[s].state
                             /\ R2[s].lport = R[s].lport /\ R2[s].rport = R[s].rport
                             /\ R2[s].used => R[s].used
    PROVE  OpeningSound(h, R2, K2, port)
<1>1. ASSUME NEW c \in Conns, K2[c].state = "SYN_SENT"
      PROVE  \E s \in Fds(h) : OpenedBy(R2[s], c)
    BY <1>1 DEF OpeningSound, OpenedBy
<1>2. \A c, d \in Conns :
          K2[c].state = "SYN_SENT" /\ K2[d].state = "SYN_SENT" /\ K2[c].lport = K2[d].lport => c = d
    BY DEF OpeningSound
<1>3. \A s, t \in Fds(h) :
          R2[s].used /\ R2[s].state \in {"BOUND", "LISTENING"}
              /\ R2[t].used /\ R2[t].state \in {"BOUND", "LISTENING"} => s = t
    BY DEF OpeningSound
<1>4. \A s \in Fds(h) : R2[s].used => PortFits(R2[s], port)
    BY DEF OpeningSound, PortFits
<1> QED  BY <1>1, <1>2, <1>3, <1>4 DEF OpeningSound

\* One slot of the table is set.
LEMMA SlotSet ==
    ASSUME NEW h \in Hosts, NEW R \in [Fds(h) -> Socket], NEW K, NEW port, OpeningSound(h, R, K, port),
           NEW s \in Fds(h), NEW y \in Socket,
           y.used => PortFits(y, port),
           y.used /\ y.state \in {"BOUND", "LISTENING"} =>
              \A t \in Fds(h) : R[t].used /\ R[t].state \in {"BOUND", "LISTENING"} => t = s,
           \A c \in Conns : K[c].state = "SYN_SENT" /\ R[s].conn = c =>
                               y.conn = c /\ y.state \in {"CREATED", "BOUND", "LISTENING"}
    PROVE  OpeningSound(h, [R EXCEPT ![s] = y], K, port)
<1>0. PICK R2 : R2 = [R EXCEPT ![s] = y]
    OBVIOUS
<1>1. R2[s] = y /\ \A t \in Fds(h) : t # s => R2[t] = R[t]
    BY <1>0
<1>2. ASSUME NEW c \in Conns, K[c].state = "SYN_SENT"
      PROVE  \E t \in Fds(h) : OpenedBy(R2[t], c)
    <2>1. PICK t \in Fds(h) : OpenedBy(R[t], c)
        BY <1>2 DEF OpeningSound
    <2>2. OpenedBy(R2[t], c)
        BY <1>1, <1>2, <2>1 DEF OpenedBy
    <2> QED  BY <2>2
<1>3. \A t, u \in Fds(h) :
          R2[t].used /\ R2[t].state \in {"BOUND", "LISTENING"}
              /\ R2[u].used /\ R2[u].state \in {"BOUND", "LISTENING"} => t = u
    BY <1>1 DEF OpeningSound
<1>4. \A t \in Fds(h) : R2[t].used => PortFits(R2[t], port)
    BY <1>1 DEF OpeningSound
<1> QED  BY <1>0, <1>2, <1>3, <1>4 DEF OpeningSound

\* What is known of the rows of a host.
LEMMA RowsOpening ==
    ASSUME NetworkInv, OpeningInv, NEW h \in Hosts
    PROVE  /\ OpeningSound(h, socket[h], connection[h], portCounter[h])
           /\ socket[h] \in [Fds(h) -> Socket] /\ connection[h] \in [Conns -> Connection]
           /\ \A s \in Fds(h) : SocketFits(socket[h][s], connection[h])
           /\ portCounter[h] \in Nat
    BY RowsOf DEF OpeningInv, HostSound, KeptOnce

\* Setting a slot leaves the other hosts alone.
LEMMA SlotStep ==
    ASSUME NetworkInv, OpeningInv, NEW h \in Hosts, NEW s \in Fds(h), NEW y \in Socket,
           socket' = [socket EXCEPT ![h][s] = y], UNCHANGED <<connection, portCounter>>,
           y.used => PortFits(y, portCounter[h]),
           y.used /\ y.state \in {"BOUND", "LISTENING"} =>
              \A t \in Fds(h) : socket[h][t].used /\ socket[h][t].state \in {"BOUND", "LISTENING"} => t = s,
           socket[h][s].used => y.conn = socket[h][s].conn /\ y.state # "CONNECTED"
    PROVE  OpeningInv'
<1>1. \A c \in Conns : connection[h][c].state = "SYN_SENT" /\ socket[h][s].conn = c =>
                               y.conn = c /\ y.state \in {"CREATED", "BOUND", "LISTENING"}
    <2>1. \A c \in Conns : c # NoConnection
        BY SocketsAssumption DEF Conns
    <2>2. SocketFits(socket[h][s], connection[h])
        BY RowsOpening
    <2> QED  BY <2>1, <2>2 DEF SocketFits, Socket, SocketStates
<1>2. OpeningSound(h, [socket[h] EXCEPT ![s] = y], connection[h], portCounter[h])
    BY <1>1, RowsOpening, SlotSet
<1>3. /\ socket'[h] = [socket[h] EXCEPT ![s] = y]
      /\ \A g \in Hosts \ {h} : socket'[g] = socket[g]
    BY DEF NetworkInv
<1> QED  BY <1>2, <1>3, OpeningMoves

\* socket() gives out a slot without a port.
LEMMA OpenSocketOpens ==
    ASSUME NetworkInv, OpeningInv, NEW h \in Hosts, OpenSocket(h)
    PROVE  OpeningInv'
<1>1. PICK s \in Fds(h) : /\ ~socket[h][s].used
                          /\ socket' = [socket EXCEPT ![h][s] = CreatedSocket(@)]
                          /\ UNCHANGED <<connection, portCounter>>
    BY DEF OpenSocket, FirstFreeFd
<1>2. PICK x \in Socket : x = socket[h][s]
    BY RowsOf
<1>3. PICK y : y = CreatedSocket(x)
    OBVIOUS
<1>4. y \in Socket /\ y.state = "CREATED" /\ y.conn = x.conn /\ y.lport = 0 /\ y.rport = 0
    BY <1>3 DEF CreatedSocket, Socket, SocketStates, Ports
<1>5. PortFits(y, portCounter[h])
    BY <1>4 DEF PortFits
<1>6. socket' = [socket EXCEPT ![h][s] = y]
    BY <1>1, <1>2, <1>3
<1> QED  BY <1>1, <1>4, <1>5, <1>6, SlotStep

\* bind takes ServerPort only when no socket in use has it.
LEMMA BindOpens ==
    ASSUME NetworkInv, OpeningInv, NEW h \in Hosts, NEW s \in Fds(h), Bind(h, s)
    PROVE  OpeningInv'
<1>1. PICK x \in Socket : x = socket[h][s]
    BY RowsOf
<1>2. PICK y : y = [x EXCEPT !.lport = ServerPort, !.state = "BOUND"]
    OBVIOUS
<1>3. /\ y \in Socket /\ y.conn = x.conn /\ y.lport = ServerPort /\ y.state = "BOUND"
    BY <1>2, SocketsAssumption DEF Socket, SocketStates, Ports
<1>4. PortFits(y, portCounter[h])
    BY <1>3 DEF PortFits
<1>5. ASSUME NEW t \in Fds(h), socket[h][t].used, socket[h][t].state \in {"BOUND", "LISTENING"}
      PROVE  t = s
    <2>1. socket[h][t].lport = ServerPort
        BY <1>5, RowsOpening DEF OpeningSound, PortFits
    <2> QED  BY <1>5, <2>1 DEF Bind, PortInUse
<1>6. socket' = [socket EXCEPT ![h][s] = y] /\ UNCHANGED <<connection, portCounter>>
    BY <1>1, <1>2 DEF Bind, NetworkInv
<1> QED  BY <1>1, <1>3, <1>4, <1>5, <1>6, SlotStep

\* listen changes the state of the one bound socket.
LEMMA ListenOpens ==
    ASSUME NetworkInv, OpeningInv, NEW h \in Hosts, NEW s \in Fds(h), Listen(h, s)
    PROVE  OpeningInv'
<1>1. PICK x \in Socket : x = socket[h][s]
    BY RowsOf
<1>2. PICK y : y = [x EXCEPT !.state = "LISTENING"]
    OBVIOUS
<1>3. /\ y \in Socket /\ y.conn = x.conn /\ y.lport = x.lport /\ y.state = "LISTENING"
      /\ x.used /\ x.state = "BOUND"
    BY <1>1, <1>2 DEF Listen, Socket, SocketStates
<1>4. PortFits(y, portCounter[h])
    BY <1>1, <1>3, RowsOpening DEF OpeningSound, PortFits
<1>5. \A t \in Fds(h) : socket[h][t].used /\ socket[h][t].state \in {"BOUND", "LISTENING"} => t = s
    BY <1>1, <1>3, RowsOpening DEF OpeningSound
<1>6. socket' = [socket EXCEPT ![h][s] = y] /\ UNCHANGED <<connection, portCounter>>
    BY <1>1, <1>2 DEF Listen
<1> QED  BY <1>1, <1>3, <1>4, <1>5, <1>6, SlotStep

\* accept fills a free slot, from which nothing is being opened.
LEMMA AcceptReturnsOpens ==
    ASSUME NetworkInv, OpeningInv, NEW h \in Hosts, NEW s \in Fds(h), AcceptReturns(h, s)
    PROVE  OpeningInv'
<1>1. PICK c, port : c = Head(acceptQueue[h]) /\ port = socket[h][s].lport
    OBVIOUS
<1>2. UNCHANGED <<connection, portCounter>> /\ acceptQueue[h] # << >>
    BY DEF AcceptReturns
<1>3. CASE UNCHANGED socket
    BY <1>2, <1>3 DEF OpeningInv
<1>4. CASE \E t \in Fds(h) :
             /\ FirstFreeFd(h, t)
             /\ socket' = [socket EXCEPT ![h][t] = Accepted(@, port, connection[h][c], c)]
    <2>1. PICK t \in Fds(h) :
             /\ ~socket[h][t].used
             /\ socket' = [socket EXCEPT ![h][t] = Accepted(@, port, connection[h][c], c)]
        BY <1>4 DEF FirstFreeFd
    <2>2. PICK x \in Socket : x = socket[h][t]
        BY RowsOf
    <2>3. c \in Conns
        BY <1>1, <1>2, RowsOf, QueueLoses
    <2>4. PICK k \in Connection : k = connection[h][c]
        BY <2>3, RowsOf
    <2>5. PICK y : y = Accepted(x, port, k, c)
        OBVIOUS
    <2>6. port \in Ports /\ k.rport \in Ports
        BY <1>1, RowsOf DEF Socket, Connection
    <2>7. y \in Socket /\ y.state = "CONNECTED"
        BY <2>3, <2>5, <2>6 DEF Accepted, CreatedSocket, Socket, SocketStates
    <2>8. PortFits(y, portCounter[h])
        BY <2>7 DEF PortFits
    <2>9. socket' = [socket EXCEPT ![h][t] = y]
        BY <2>1, <2>2, <2>4, <2>5
    <2> QED  BY <1>2, <2>1, <2>7, <2>8, <2>9, SlotStep
<1> QED  BY <1>1, <1>3, <1>4 DEF AcceptReturns

-----------------------------------------------------------------------------
(* What a segment or tcp_close makes of a connection, seen from the other end. *)

\* The acknowledged number is one of the same connection's.
LEMMA NextIsSame ==
    ASSUME NEW m \in Nat, m % 10 <= 8, NEW n, SameIsn(m, n)
    PROVE  SameIsn(m + 1, n)
    BY DEF SameIsn

\* A step of connection c of host h that sends its reply.
Agreed(K, N, h, c, step) ==
    /\ step.conn \in Connection /\ Fits(K, N, h, c, step.conn)
    /\ step.reply # {} => MaySend(h, step.conn, BuildTcpPacket(h, step.conn, step.reply, 0))

\* An open connection goes on without news from the other end.
GoesOn(old, new) ==
    /\ new.lport = old.lport /\ new.rhost = old.rhost /\ new.rport = old.rport
    /\ new.ack = old.ack /\ SameIsn(old.seq, new.seq) /\ new.seq % 10 <= 8
    /\ old.state \in Synchronized /\ new.state \in Synchronized
    /\ new.state \in PeerHasClosed => old.state \in PeerHasClosed
    /\ old.state \in HasClosed => new.state \in HasClosed

\* What the other end knows of a connection that goes on stays true.
LEMMA GoesOnFits ==
    ASSUME NEW K \in Tables, NEW N, NEW h \in Hosts, NEW c \in Conns, NEW new,
           EndSound(K, h, K[h][c]), GoesOn(K[h][c], new)
    PROVE  Fits(K, N, h, c, new)
<1>1. PICK old \in Connection : old = K[h][c]
    BY DEF Tables
<1>2. /\ EndSound(K, h, old) /\ GoesOn(old, new)
      /\ old.state \in Synchronized /\ new.state \in Synchronized
    BY <1>1 DEF GoesOn
<1>3. /\ IsOpen(old) /\ IsOpen(new) /\ old.state \in Answered /\ new.state \in Answered
      /\ new.state # "SYN_RECEIVED"
    BY <1>2 DEF Synchronized, IsOpen, Answered
<1>4. Grows(old, new)
    BY <1>2, <1>3 DEF Grows, GoesOn
<1>5. HasOtherEnd(K, h, new)
    <2>1. PICK d \in Conns : Meets(h, old, K[old.rhost][d]) /\ Agrees(old, K[old.rhost][d])
        BY <1>2, <1>3 DEF EndSound, HasOtherEnd
    <2>2. PICK far : far = K[old.rhost][d]
        OBVIOUS
    <2>3. Meets(h, new, far) /\ Agrees(new, far)
        BY <1>2, <2>1, <2>2 DEF GoesOn, Meets, Agrees
    <2>4. new.rhost = old.rhost
        BY <1>2 DEF GoesOn
    <2> QED  BY <2>2, <2>3, <2>4 DEF HasOtherEnd
<1>6. new.seq % 10 <= 8 /\ new.rhost \in Hosts \ {h}
    BY <1>2, <1>3 DEF GoesOn, EndSound
<1> QED  BY <1>1, <1>2, <1>3, <1>4, <1>5, <1>6 DEF Fits

\* A reply is a segment that its connection may send.
LEMMA ReplyIsSent ==
    ASSUME NEW h, NEW new, IsOpen(new), new.seq % 10 <= 8, NEW flags, NEW len,
           "ACK" \in flags => new.state \in Answered,
           "ACK" \in flags /\ "SYN" \notin flags => new.state \in Synchronized,
           "FIN" \in flags => new.state \in HasClosed,
           {"SYN", "ACK"} \subseteq flags => new.state = "SYN_RECEIVED"
    PROVE  MaySend(h, new, BuildTcpPacket(h, new, flags, len))
    BY DEF MaySend, BuildTcpPacket, SameIsn

\* The connection that sent a segment is at the other end of the one that was found for it.
LEMMA SenderMeets ==
    ASSUME NEW k, NEW far, NEW p, p.seq \in Nat, p.seq % 10 <= 8, SentBy(far, p),
           k.lport = p.dport, k.rport = p.sport
    PROVE  Meets(p.dst, k, far) /\ SameIsn(p.seq + 1, far.seq)
    BY NextIsSame DEF SentBy, Meets

\* A segment of the other end is acknowledged, and the connection is open.
Acked(old, new, p) ==
    /\ new.lport = old.lport /\ new.rhost = old.rhost /\ new.rport = old.rport
    /\ new.ack = p.seq + 1 /\ new.seq = old.seq
    /\ new.state \in Synchronized
    /\ old.state \in HasClosed => new.state \in HasClosed

\* What a segment that is acknowledged makes of a connection.
LEMMA AckedIs ==
    ASSUME NEW k \in Connection, NEW p \in Segment, NEW state \in Synchronized,
           k.state \in HasClosed => state \in HasClosed
    PROVE  LET step == AckedIn(k, state, p) IN
           /\ step.conn \in Connection /\ step.reply = {"ACK"}
           /\ step.conn.state = state /\ Acked(k, step.conn, p)
<1>1. p.seq + 1 \in Nat /\ state \in TcpStates
    BY DEF Segment, Synchronized, TcpStates
<1>2. PICK new : new = [k EXCEPT !.ack = p.seq + 1, !.state = state]
    OBVIOUS
<1>3. /\ new \in Connection
      /\ new.lport = k.lport /\ new.rhost = k.rhost /\ new.rport = k.rport
      /\ new.ack = p.seq + 1 /\ new.seq = k.seq /\ new.state = state
    BY <1>1, <1>2 DEF Connection
<1>4. AckedIn(k, state, p) = [conn |-> new, reply |-> {"ACK"}]
    BY <1>2 DEF AckedIn
<1> QED  BY <1>3, <1>4 DEF Acked

\* What an acknowledged segment makes of the connection it was found for, unless that
\* was in SYN_SENT and so somebody may have waited for it.
LEMMA AckedFits ==
    ASSUME NEW K \in Tables, NEW N \in SUBSET Segment, EndsSound(K, N), NEW p \in N,
           NEW c \in Conns, NEW new, FoundBy(K[p.dst][c], p), Acked(K[p.dst][c], new, p),
           "ACK" \in p.flags \/ "FIN" \in p.flags,
           new.state \in PeerHasClosed => "FIN" \in p.flags,
           K[p.dst][c].state \in Synchronized
           \/ \A g \in Hosts, b \in Conns :
                 K[g][b].state = "SYN_RECEIVED" /\ K[g][b].rhost = p.dst /\ Meets(g, K[g][b], new)
                     => SameIsn(K[g][b].ack, new.seq) \/ IsJoined(K, g, K[g][b])
    PROVE  Fits(K, N, p.dst, c, new)
<1>0. p.dst \in Hosts /\ p.src \in Hosts /\ p.seq \in Nat /\ SegmentSound(K, p)
    BY DEF Segment, EndsSound
<1>1. PICK old \in Connection : old = K[p.dst][c]
    BY <1>0 DEF Tables
<1>2. /\ EndSound(K, p.dst, old) /\ Acked(old, new, p) /\ FoundBy(old, p)
    BY <1>0, <1>1 DEF EndsSound
<1>3. PICK d \in Conns : SentBy(K[p.src][d], p)
    BY <1>0 DEF SegmentSound
<1>4. PICK far : far = K[p.src][d]
    OBVIOUS
<1>5. far.state \in Answered /\ (new.state \in PeerHasClosed => far.state \in HasClosed)
    BY <1>3, <1>4 DEF SentBy, Answered, Synchronized, HasClosed
<1>6. new.rhost = p.src /\ new.lport = p.dport /\ new.rport = p.sport
    BY <1>2 DEF Acked, FoundBy
<1>7. Meets(p.dst, new, far) /\ SameIsn(p.seq + 1, far.seq)
    BY <1>0, <1>3, <1>4, <1>6, SenderMeets DEF SegmentSound
<1>8. HasOtherEnd(K, p.dst, new)
    <2>1. Agrees(new, far)
        BY <1>2, <1>5, <1>7 DEF Agrees, Acked
    <2> QED  BY <1>4, <1>6, <1>7, <2>1 DEF HasOtherEnd
<1>9. /\ IsOpen(new) /\ new.state \in Answered /\ new.state # "SYN_RECEIVED"
      /\ new.state \in Synchronized
    BY <1>2 DEF Acked, Synchronized, IsOpen, Answered
<1>10. Grows(old, new)
    BY <1>2, <1>9 DEF Grows, Acked, SameIsn
<1>11. new.seq % 10 <= 8 /\ new.rhost \in Hosts \ {p.dst}
    BY <1>0, <1>2, <1>6 DEF Acked, EndSound, SegmentSound
<1> QED  BY <1>1, <1>8, <1>9, <1>10, <1>11 DEF Fits

\* LISTEN: a SYN for which there is no connection yet.
LEMMA ListenFits ==
    ASSUME NEW K \in Tables, NEW N \in SUBSET Segment, EndsSound(K, N), NEW p \in N,
           NEW c \in Conns, K[p.dst][c].state = "LISTEN", K[p.dst][c].lport = p.dport,
           \A d \in Conns : ~FoundBy(K[p.dst][d], p), "SYN" \in p.flags,
           NEW isn \in Nat, isn % 10 = 0
    PROVE  Agreed(K, N, p.dst, c, InListen(K[p.dst][c], p, isn))
<1>0. p.dst \in Hosts /\ p.src \in Hosts /\ p.seq \in Nat /\ p.sport \in Ports /\ SegmentSound(K, p)
    BY DEF Segment, EndsSound
<1>1. PICK old \in Connection : old = K[p.dst][c]
    BY <1>0 DEF Tables
<1>2. PICK new : new = [old EXCEPT !.rhost = p.src, !.rport = p.sport, !.ack = p.seq + 1,
                                   !.seq = isn, !.state = "SYN_RECEIVED"]
    OBVIOUS
<1>3. /\ new \in Connection
      /\ new.lport = p.dport /\ new.rhost = p.src /\ new.rport = p.sport
      /\ new.ack = p.seq + 1 /\ new.seq = isn /\ new.state = "SYN_RECEIVED"
    <2>1. p.seq + 1 \in Nat /\ "SYN_RECEIVED" \in TcpStates
        BY <1>0 DEF TcpStates
    <2>2. new \in Connection
        BY <1>0, <1>2, <2>1 DEF Connection
    <2>3. old.lport = p.dport
        BY <1>1
    <2> QED  BY <1>2, <2>2, <2>3 DEF Connection
<1>4. InListen(K[p.dst][c], p, isn) = [conn |-> new, reply |-> {"SYN", "ACK"}]
    BY <1>1, <1>2 DEF InListen
<1>5. PICK d \in Conns : SentBy(K[p.src][d], p)
    BY <1>0 DEF SegmentSound
<1>6. Meets(p.dst, new, K[p.src][d]) /\ SameIsn(p.seq + 1, K[p.src][d].seq)
    BY <1>0, <1>3, <1>5, SenderMeets DEF SegmentSound
<1>7. HasOtherEnd(K, p.dst, new)
    <2>1. Agrees(new, K[p.src][d])
        BY <1>3, <1>6 DEF Agrees, Synchronized, PeerHasClosed
    <2> QED  BY <1>3, <1>6, <2>1 DEF HasOtherEnd
<1>8. ASSUME NEW e \in Conns, Meets(p.dst, new, K[p.src][e])
      PROVE  K[p.src][e].state \notin Answered
    <2>1. PICK far : far = K[p.src][e]
        OBVIOUS
    <2>2. EndSound(K, p.src, far) /\ IsOpen(far) /\ far.rhost = p.dst
          /\ far.lport = p.sport /\ far.rport = p.dport
        BY <1>0, <1>3, <1>8, <2>1 DEF EndsSound, Meets
    <2>3. ASSUME NEW b \in Conns, Meets(p.src, far, K[p.dst][b])
          PROVE  FALSE
        BY <2>2, <2>3 DEF Meets, FoundBy
    <2> QED  BY <2>1, <2>2, <2>3 DEF EndSound, HasOtherEnd
<1>9. ASSUME NEW q \in N, "ACK" \in q.flags, q.dst = p.dst, FoundBy(new, q)
      PROVE  FALSE
    <2>1. PICK e \in Conns : FoundBy(K[q.dst][e], q)
        BY <1>9 DEF EndsSound, SegmentSound
    <2>2. FoundBy(K[p.dst][e], p)
        BY <1>3, <1>9, <2>1 DEF FoundBy
    <2> QED  BY <2>2
<1>10. IsOpen(new) /\ new.state \in Answered /\ new.state \notin Synchronized /\ ~IsOpen(old)
    BY <1>1, <1>3 DEF IsOpen, Answered, Synchronized
<1>11. Fits(K, N, p.dst, c, new)
    <2>1. new.rhost \in Hosts \ {p.dst} /\ new.seq % 10 <= 8
        BY <1>0, <1>3 DEF SegmentSound
    <2>2. Grows(K[p.dst][c], new)
        BY <1>1, <1>10 DEF Grows
    <2> QED  BY <1>3, <1>7, <1>8, <1>9, <1>10, <2>1, <2>2 DEF Fits
<1>12. MaySend(p.dst, new, BuildTcpPacket(p.dst, new, {"SYN", "ACK"}, 0))
    BY <1>3, <1>10, <1>11, ReplyIsSent DEF Fits
<1> QED  BY <1>3, <1>4, <1>11, <1>12 DEF Agreed

\* SYN_SENT: a SYN and ACK opens the connection, for which alone, or an older one that is
\* open, the other end was made.
LEMMA SynSentFits ==
    ASSUME NEW K \in Tables, NEW N \in SUBSET Segment, EndsSound(K, N), NEW p \in N,
           NEW c \in Conns, FoundBy(K[p.dst][c], p), K[p.dst][c].state = "SYN_SENT",
           \A d \in Conns : K[p.dst][d].state = "SYN_SENT" /\ K[p.dst][d].lport = K[p.dst][c].lport => d = c,
           {"SYN", "ACK"} \subseteq p.flags
    PROVE  Agreed(K, N, p.dst, c, InSynSent(K[p.dst][c], p))
<1>0. p.dst \in Hosts /\ p \in Segment
    BY DEF Segment
<1>1. PICK old \in Connection : old = K[p.dst][c]
    BY <1>0 DEF Tables
<1>2. PICK step : step = AckedIn(old, "ESTABLISHED", p)
    OBVIOUS
<1>3. InSynSent(K[p.dst][c], p) = step
    BY <1>1, <1>2 DEF InSynSent
<1>4. /\ step.conn \in Connection /\ step.reply = {"ACK"}
      /\ step.conn.state = "ESTABLISHED" /\ Acked(old, step.conn, p)
    BY <1>0, <1>1, <1>2, AckedIs DEF Synchronized, HasClosed
<1>5. PICK new : new = step.conn
    OBVIOUS
<1>6. ASSUME NEW g \in Hosts, NEW b \in Conns,
             K[g][b].state = "SYN_RECEIVED", K[g][b].rhost = p.dst, Meets(g, K[g][b], new)
      PROVE  SameIsn(K[g][b].ack, new.seq) \/ IsJoined(K, g, K[g][b])
    <2>1. PICK k : k = K[g][b]
        OBVIOUS
    <2>2. EndSound(K, g, k) /\ k.state \in Answered
        BY <1>6, <2>1 DEF EndsSound, Answered
    <2>3. PICK d \in Conns : Meets(g, k, K[p.dst][d]) /\ Agrees(k, K[p.dst][d])
        BY <1>6, <2>1, <2>2 DEF EndSound, HasOtherEnd
    <2>4. PICK far : far = K[p.dst][d]
        OBVIOUS
    <2>5. /\ far.state # "SYN_RECEIVED"
          /\ far.state \in Synchronized => IsJoined(K, g, k)
        BY <1>6, <2>1, <2>2, <2>3, <2>4 DEF EndSound, Pending
    <2>6. CASE far.state = "SYN_SENT"
        <3>1. far.lport = old.lport
            BY <1>4, <1>5, <1>6, <2>1, <2>3, <2>4 DEF Meets, Acked
        <3>2. d = c
            BY <1>1, <2>4, <2>6, <3>1
        <3>3. far.seq = new.seq
            BY <1>1, <1>4, <1>5, <2>4, <3>2 DEF Acked
        <3> QED  BY <2>1, <2>3, <2>4, <3>3 DEF Agrees
    <2>7. CASE far.state # "SYN_SENT"
        <3>1. far \in Connection /\ IsOpen(far)
            BY <1>0, <2>3, <2>4 DEF Tables, Meets
        <3>2. far.state \in Synchronized
            BY <2>5, <2>7, <3>1 DEF Connection, TcpStates, IsOpen, Synchronized
        <3> QED  BY <2>1, <2>5, <3>2
    <2> QED  BY <2>6, <2>7
<1>7. new.state = "ESTABLISHED" /\ new.state \notin PeerHasClosed /\ Acked(old, new, p)
    BY <1>4, <1>5 DEF PeerHasClosed
<1>8. Fits(K, N, p.dst, c, new)
    BY <1>1, <1>6, <1>7, AckedFits
<1>9. IsOpen(new) /\ new.state \in Answered /\ new.state \in Synchronized
    BY <1>7 DEF IsOpen, Answered, Synchronized
<1>10. MaySend(p.dst, new, BuildTcpPacket(p.dst, new, {"ACK"}, 0))
    BY <1>8, <1>9, ReplyIsSent DEF Fits
<1> QED  BY <1>3, <1>4, <1>5, <1>8, <1>10 DEF Agreed

\* SYN_RECEIVED: an ACK comes from a connection that is open, so the one this was made
\* for is.
LEMMA SynReceivedFits ==
    ASSUME NEW K \in Tables, NEW N \in SUBSET Segment, EndsSound(K, N), NEW p \in N,
           NEW c \in Conns, FoundBy(K[p.dst][c], p), K[p.dst][c].state = "SYN_RECEIVED",
           "ACK" \in p.flags
    PROVE  Agreed(K, N, p.dst, c, InSynReceived(K[p.dst][c], p))
<1>0. p.dst \in Hosts /\ p.src \in Hosts /\ p.seq \in Nat /\ SegmentSound(K, p)
    BY DEF Segment, EndsSound
<1>1. PICK old \in Connection : old = K[p.dst][c]
    BY <1>0 DEF Tables
<1>2. PICK new : new = [old EXCEPT !.state = "ESTABLISHED"]
    OBVIOUS
<1>3. /\ new \in Connection
      /\ new.lport = old.lport /\ new.rhost = old.rhost /\ new.rport = old.rport
      /\ new.ack = old.ack /\ new.seq = old.seq /\ new.state = "ESTABLISHED"
    BY <1>2 DEF Connection, TcpStates
<1>4. InSynReceived(K[p.dst][c], p) = [conn |-> new, reply |-> {}]
    BY <1>1, <1>2 DEF InSynReceived, Stays
<1>5. EndSound(K, p.dst, old) /\ FoundBy(old, p) /\ old.state = "SYN_RECEIVED"
    BY <1>0, <1>1 DEF EndsSound
<1>6. "SYN" \notin p.flags
    BY <1>0, <1>1, <1>5 DEF SegmentSound, NoneWaits
<1>7. PICK d \in Conns : SentBy(K[p.src][d], p)
    BY <1>0 DEF SegmentSound
<1>8. IsJoined(K, p.dst, old)
    <2>1. Meets(p.dst, old, K[p.src][d]) /\ old.rhost = p.src
        BY <1>0, <1>5, <1>7, SenderMeets DEF FoundBy, SegmentSound
    <2>2. K[p.src][d].state \in Synchronized
        BY <1>6, <1>7 DEF SentBy
    <2> QED  BY <1>5, <2>1, <2>2 DEF EndSound, Pending
<1>9. HasOtherEnd(K, p.dst, new)
    <2>1. PICK e \in Conns : /\ Meets(p.dst, old, K[old.rhost][e])
                             /\ SameIsn(old.ack, K[old.rhost][e].seq)
                             /\ K[old.rhost][e].state \in Synchronized
        BY <1>8 DEF IsJoined
    <2>2. PICK far : far = K[old.rhost][e]
        OBVIOUS
    <2>3. Meets(p.dst, new, far) /\ Agrees(new, far)
        BY <1>3, <2>1, <2>2 DEF Meets, Agrees, Answered, PeerHasClosed
    <2> QED  BY <1>3, <2>2, <2>3 DEF HasOtherEnd
<1>10. IsOpen(old) /\ IsOpen(new) /\ new.state \in Answered /\ new.state # "SYN_RECEIVED"
       /\ new.state \in Synchronized /\ old.state \notin HasClosed
    BY <1>3, <1>5 DEF IsOpen, Answered, Synchronized, HasClosed
<1>11. Grows(old, new)
    BY <1>3, <1>10 DEF Grows, SameIsn
<1>12. ASSUME NEW g \in Hosts, NEW b \in Conns,
              K[g][b].state = "SYN_RECEIVED", K[g][b].rhost = p.dst, Meets(g, K[g][b], new)
       PROVE  FALSE
    <2>1. Meets(g, K[g][b], old)
        BY <1>3, <1>10, <1>12 DEF Meets
    <2> QED  BY <1>1, <1>5, <1>12, <2>1 DEF EndsSound, EndSound, Pending
<1>13. Fits(K, N, p.dst, c, new)
    BY <1>1, <1>3, <1>5, <1>9, <1>10, <1>11, <1>12 DEF Fits, EndSound
<1> QED  BY <1>3, <1>4, <1>13 DEF Agreed

\* The states with an open stream: a FIN is acknowledged and its sender has closed.
LEMMA FinFits ==
    ASSUME NEW K \in Tables, NEW N \in SUBSET Segment, EndsSound(K, N), NEW p \in N,
           NEW c \in Conns, FoundBy(K[p.dst][c], p), K[p.dst][c].state \in Synchronized,
           NEW state \in Synchronized, K[p.dst][c].state \in HasClosed => state \in HasClosed,
           "FIN" \in p.flags
    PROVE  Agreed(K, N, p.dst, c, AckedIn(K[p.dst][c], state, p))
<1>0. p.dst \in Hosts /\ p \in Segment
    BY DEF Segment
<1>1. PICK old \in Connection : old = K[p.dst][c]
    BY <1>0 DEF Tables
<1>2. PICK step : step = AckedIn(old, state, p)
    OBVIOUS
<1>3. /\ step.conn \in Connection /\ step.reply = {"ACK"}
      /\ step.conn.state = state /\ Acked(old, step.conn, p)
    BY <1>0, <1>1, <1>2, AckedIs
<1>4. Fits(K, N, p.dst, c, step.conn)
    BY <1>1, <1>3, AckedFits
<1>5. IsOpen(step.conn) /\ step.conn.state \in Answered /\ step.conn.state \in Synchronized
    BY <1>3 DEF IsOpen, Answered, Synchronized
<1>6. MaySend(p.dst, step.conn, BuildTcpPacket(p.dst, step.conn, {"ACK"}, 0))
    BY <1>4, <1>5, ReplyIsSent DEF Fits
<1> QED  BY <1>1, <1>2, <1>3, <1>4, <1>6 DEF Agreed

\* tcp_state_machine: every segment leaves the two ends in agreement.
LEMMA SegmentAgreed ==
    ASSUME NEW K \in Tables, NEW N \in SUBSET Segment, EndsSound(K, N), NEW p \in N,
           NEW c \in Conns,
           \/ FoundBy(K[p.dst][c], p)
           \/ /\ K[p.dst][c].state = "LISTEN" /\ K[p.dst][c].lport = p.dport
              /\ \A d \in Conns : ~FoundBy(K[p.dst][d], p),
           \A d \in Conns : K[p.dst][c].state = "SYN_SENT" /\ K[p.dst][d].state = "SYN_SENT"
                            /\ K[p.dst][d].lport = K[p.dst][c].lport => d = c,
           NEW isn \in Nat, isn % 10 = 0
    PROVE  LET step == TcpStateMachine(K[p.dst][c], p, isn)
           IN  step = Stays(K[p.dst][c]) \/ Agreed(K, N, p.dst, c, step)
<1>0. p.dst \in Hosts
    BY DEF Segment
<1>1. PICK old \in Connection : old = K[p.dst][c]
    BY <1>0 DEF Tables
<1>2. PICK step : step = TcpStateMachine(old, p, isn)
    OBVIOUS
<1> SUFFICES step = Stays(old) \/ Agreed(K, N, p.dst, c, step)
    BY <1>1, <1>2
<1>3. CASE old.state = "LISTEN"
    <2>1. step = InListen(old, p, isn)
        BY <1>2, <1>3 DEF TcpStateMachine
    <2>2. ~FoundBy(old, p)
        BY <1>3 DEF FoundBy, IsOpen
    <2>3. CASE "SYN" \in p.flags
        BY <1>1, <1>3, <2>1, <2>2, <2>3, ListenFits
    <2>4. CASE "SYN" \notin p.flags
        BY <2>1, <2>4 DEF InListen
    <2> QED  BY <2>3, <2>4
<1>4. CASE old.state # "LISTEN"
    <2>0. FoundBy(old, p)
        BY <1>1, <1>4
    <2>1. CASE old.state = "SYN_SENT"
        <3>1. step = InSynSent(old, p)
            BY <1>2, <2>1 DEF TcpStateMachine
        <3>2. CASE {"SYN", "ACK"} \subseteq p.flags
            BY <1>1, <2>0, <2>1, <3>1, <3>2, SynSentFits
        <3>3. CASE ~({"SYN", "ACK"} \subseteq p.flags)
            BY <3>1, <3>3 DEF InSynSent
        <3> QED  BY <3>2, <3>3
    <2>2. CASE old.state = "SYN_RECEIVED"
        <3>1. step = InSynReceived(old, p)
            BY <1>2, <2>2 DEF TcpStateMachine
        <3>2. CASE "ACK" \in p.flags
            BY <1>1, <2>0, <2>2, <3>1, <3>2, SynReceivedFits
        <3>3. CASE "ACK" \notin p.flags
            BY <3>1, <3>3 DEF InSynReceived
        <3> QED  BY <3>2, <3>3
    <2>3. CASE old.state = "ESTABLISHED"
        <3>1. step = InEstablished(old, p)
            BY <1>2, <2>3 DEF TcpStateMachine
        <3>2. CASE "FIN" \in p.flags
            <4>1. step = AckedIn(old, "CLOSE_WAIT", p)
                BY <3>1, <3>2 DEF InEstablished
            <4>2. old.state \in Synchronized /\ "CLOSE_WAIT" \in Synchronized /\ old.state \notin HasClosed
                BY <2>3 DEF Synchronized, HasClosed
            <4> QED  BY <1>1, <2>0, <3>2, <4>1, <4>2, FinFits
        <3>3. CASE "FIN" \notin p.flags
            BY <3>1, <3>3 DEF InEstablished
        <3> QED  BY <3>2, <3>3
    <2>4. CASE old.state = "FIN_WAIT_1"
        <3>0. old.state \in Synchronized /\ old.state \in HasClosed /\ old.state \notin PeerHasClosed
            BY <2>4 DEF Synchronized, HasClosed, PeerHasClosed
        <3>1. step = InFinWait1(old, p)
            BY <1>2, <2>4 DEF TcpStateMachine
        <3>2. CASE "FIN" \in p.flags
            <4>1. PICK state \in {"TIME_WAIT", "CLOSING"} : step = AckedIn(old, state, p)
                BY <3>1, <3>2 DEF InFinWait1
            <4>2. state \in Synchronized /\ state \in HasClosed
                BY DEF Synchronized, HasClosed
            <4> QED  BY <1>1, <2>0, <3>0, <3>2, <4>1, <4>2, FinFits
        <3>3. CASE "FIN" \notin p.flags
            <4>1. PICK state \in {"FIN_WAIT_1", "FIN_WAIT_2"} : step = Stays([old EXCEPT !.state = state])
                BY <3>1, <3>3 DEF InFinWait1
            <4>2. PICK new : new = [old EXCEPT !.state = state]
                OBVIOUS
            <4>3. /\ new \in Connection
                  /\ new.lport = old.lport /\ new.rhost = old.rhost /\ new.rport = old.rport
                  /\ new.ack = old.ack /\ new.seq = old.seq /\ new.state = state
                BY <4>2 DEF Connection, TcpStates
            <4>4. state \in Synchronized /\ state \in HasClosed /\ state \notin PeerHasClosed
                BY DEF Synchronized, HasClosed, PeerHasClosed
            <4>5. EndSound(K, p.dst, old)
                BY <1>0, <1>1 DEF EndsSound
            <4>6. GoesOn(old, new)
                BY <3>0, <4>3, <4>4, <4>5 DEF GoesOn, SameIsn, EndSound
            <4>7. Fits(K, N, p.dst, c, new)
                BY <1>0, <1>1, <4>5, <4>6, GoesOnFits
            <4>8. step = [conn |-> new, reply |-> {}]
                BY <4>1, <4>2 DEF Stays
            <4> QED  BY <4>3, <4>7, <4>8 DEF Agreed
        <3> QED  BY <3>2, <3>3
    <2>5. CASE old.state = "FIN_WAIT_2"
        <3>1. step = InFinWait2(old, p)
            BY <1>2, <2>5 DEF TcpStateMachine
        <3>2. CASE "FIN" \in p.flags
            <4>1. step = AckedIn(old, "TIME_WAIT", p)
                BY <3>1, <3>2 DEF InFinWait2
            <4>2. old.state \in Synchronized /\ "TIME_WAIT" \in Synchronized /\ "TIME_WAIT" \in HasClosed
                BY <2>5 DEF Synchronized, HasClosed
            <4> QED  BY <1>1, <2>0, <3>2, <4>1, <4>2, FinFits
        <3>3. CASE "FIN" \notin p.flags
            BY <3>1, <3>3 DEF InFinWait2
        <3> QED  BY <3>2, <3>3
    <2>6. CASE old.state \notin {"LISTEN", "SYN_SENT", "SYN_RECEIVED", "ESTABLISHED",
                                 "FIN_WAIT_1", "FIN_WAIT_2"}
        BY <1>2, <2>6 DEF TcpStateMachine
    <2> QED  BY <1>4, <2>1, <2>2, <2>3, <2>4, <2>5, <2>6
<1> QED  BY <1>3, <1>4

\* tcp_close: a FIN of a connection that counts as closed from then on.
LEMMA CloseAgreed ==
    ASSUME NEW K \in Tables, NEW N, NEW h \in Hosts, NEW c \in Conns, EndSound(K, h, K[h][c]),
           NEW flags \in FinFlags
    PROVE  LET step == TcpClose(K[h][c], flags)
           IN  step = Stays(K[h][c]) \/ (Agreed(K, N, h, c, step) /\ step.reply = flags)
<1>0. flags \in {{"FIN"}, {"FIN", "ACK"}}
    BY SocketsAssumption
<1>1. PICK old \in Connection : old = K[h][c]
    BY DEF Tables
<1>2. PICK step : step = TcpClose(old, flags)
    OBVIOUS
<1> SUFFICES step = Stays(old) \/ (Agreed(K, N, h, c, step) /\ step.reply = flags)
    BY <1>1, <1>2
<1>3. ASSUME NEW state, \/ state = "FIN_WAIT_1" /\ old.state = "ESTABLISHED"
                        \/ state = "LAST_ACK" /\ old.state = "CLOSE_WAIT",
             step = [conn |-> [old EXCEPT !.state = state], reply |-> flags]
      PROVE  Agreed(K, N, h, c, step) /\ step.reply = flags
    <2>1. PICK new : new = [old EXCEPT !.state = state]
        OBVIOUS
    <2>2. /\ new \in Connection
          /\ new.lport = old.lport /\ new.rhost = old.rhost /\ new.rport = old.rport
          /\ new.ack = old.ack /\ new.seq = old.seq /\ new.state = state
        BY <1>3, <2>1 DEF Connection, TcpStates
    <2>3. /\ old.state \in Synchronized /\ state \in Synchronized /\ state \in HasClosed
          /\ state \in PeerHasClosed => old.state \in PeerHasClosed
        BY <1>3 DEF Synchronized, HasClosed, PeerHasClosed
    <2>4. GoesOn(old, new)
        BY <1>1, <2>2, <2>3 DEF GoesOn, SameIsn, EndSound
    <2>5. Fits(K, N, h, c, new)
        BY <1>1, <2>4, GoesOnFits
    <2>6. IsOpen(new) /\ new.state \in Answered /\ new.state \in Synchronized /\ new.state \in HasClosed
        BY <2>2, <2>3 DEF IsOpen, Answered, Synchronized
    <2>7. "SYN" \notin flags
        BY <1>0
    <2>8. MaySend(h, new, BuildTcpPacket(h, new, flags, 0))
        BY <2>5, <2>6, <2>7, ReplyIsSent DEF Fits
    <2>9. step.conn = new /\ step.reply = flags
        BY <1>3, <2>1
    <2> QED  BY <2>2, <2>5, <2>8, <2>9 DEF Agreed
<1>4. CASE old.state = "ESTABLISHED"
    <2>1. step = [conn |-> [old EXCEPT !.state = "FIN_WAIT_1"], reply |-> flags]
        BY <1>2, <1>4 DEF TcpClose
    <2> QED  BY <1>3, <1>4, <2>1
<1>5. CASE old.state = "CLOSE_WAIT"
    <2>1. step = [conn |-> [old EXCEPT !.state = "LAST_ACK"], reply |-> flags]
        BY <1>2, <1>5 DEF TcpClose
    <2> QED  BY <1>3, <1>5, <2>1
<1>6. CASE old.state \notin {"ESTABLISHED", "CLOSE_WAIT"}
    BY <1>2, <1>6 DEF TcpClose
<1> QED  BY <1>4, <1>5, <1>6

-----------------------------------------------------------------------------
(* The steps, once more: ends agree and ports are opened once.             *)

\* All connections agree with their other ends, and all segments with their senders.
EndsInv == EndsSound(connection, network)

\* Connection c of host h becomes `new`.
Sets(h, c, new) == connection' = [connection EXCEPT ![h][c] = new]

\* A connection becomes what fits, and sends what it may.
LEMMA EndsStep ==
    ASSUME NetworkInv, NetworkInv', EndsInv, NEW h \in Hosts, NEW c \in Conns, NEW new \in Connection,
           Fits(connection, network, h, c, new), Sets(h, c, new),
           NEW M, SendTcpPacket(M), \A p \in M : MaySend(h, new, p)
    PROVE  EndsInv'
<1>1. connection \in Tables /\ network \in SUBSET Segment /\ M \in SUBSET Segment
    BY DEF NetworkInv, Tables, Sent, SendTcpPacket
<1>2. EndsSound([connection EXCEPT ![h][c] = new], network \cup M)
    BY <1>1, EndsMove DEF EndsInv
<1> QED  BY <1>2 DEF EndsInv, Sets, SendTcpPacket

\* A step that opens no connection and changes no port or state of a socket.
LEMMA OpeningStep ==
    ASSUME NetworkInv, OpeningInv, NEW h \in Hosts, NEW c \in Conns, NEW new, Sets(h, c, new),
           new.state = "SYN_SENT" => connection[h][c].state = "SYN_SENT"
                                     /\ new.lport = connection[h][c].lport,
           \A g \in Hosts \ {h} : socket'[g] = socket[g],
           \A s \in Fds(h) : /\ socket'[h][s].conn = socket[h][s].conn
                             /\ socket'[h][s].state = socket[h][s].state
                             /\ socket'[h][s].lport = socket[h][s].lport
                             /\ socket'[h][s].rport = socket[h][s].rport
                             /\ socket'[h][s].used => socket[h][s].used,
           UNCHANGED portCounter
    PROVE  OpeningInv'
<1>1. PICK K : K = connection[h]
    OBVIOUS
<1>2. PICK R2, K2 : R2 = socket'[h] /\ K2 = connection'[h]
    OBVIOUS
<1>3. /\ K2[c] = new /\ \A d \in Conns : d # c => K2[d] = K[d]
      /\ \A g \in Hosts \ {h} : connection'[g] = connection[g]
    BY <1>1, <1>2, RowsOf DEF NetworkInv, Sets
<1>4. \A d \in Conns : K2[d].state = "SYN_SENT" => K[d].state = "SYN_SENT" /\ K2[d].lport = K[d].lport
    BY <1>1, <1>3
<1>5. OpeningSound(h, R2, K2, portCounter[h])
    BY <1>1, <1>2, <1>4, RowsOpening, NoneOpens
<1> QED  BY <1>2, <1>3, <1>5, OpeningMoves

\* A free connection that listens has no other end yet.
LEMMA AcceptWaitsAgrees ==
    ASSUME NetworkInv, NetworkInv', OpeningInv, EndsInv, NEW h \in Hosts, NEW s \in Fds(h), AcceptWaits(h, s)
    PROVE  OpeningInv' /\ EndsInv'
<1>1. PICK c \in Conns :
          /\ connection' = [connection EXCEPT ![h][c] =
                               [Unused EXCEPT !.lport = socket[h][s].lport, !.state = "LISTEN"]]
          /\ connection[h][c].state = "CLOSED"
          /\ UNCHANGED <<socket, acceptQueue, portCounter, isns, network>>
    BY DEF AcceptWaits, FreeConnection
<1>2. PICK port : port = socket[h][s].lport
    OBVIOUS
<1>3. PICK k : k = [Unused EXCEPT !.lport = port, !.state = "LISTEN"]
    OBVIOUS
<1>4. k.state = "LISTEN" /\ k.seq = 0 /\ Sets(h, c, k)
    BY <1>1, <1>2, <1>3 DEF Unused, Sets
<1>5. k \in Connection
    BY <1>2, <1>3, RowsOf DEF Unused, Connection, TcpStates, Socket, Ports
<1>6. k.seq % 10 <= 8
    BY <1>4
<1>7. Fits(connection, network, h, c, k)
    BY <1>1, <1>4, <1>6 DEF Fits, Grows, IsOpen, Answered, Synchronized
<1>8. EndsInv'
    <2>1. SendTcpPacket({})
        BY <1>1 DEF SendTcpPacket
    <2> QED  BY <1>4, <1>5, <1>7, <2>1, EndsStep
<1>9. OpeningInv'
    BY <1>1, <1>4, OpeningStep
<1> QED  BY <1>8, <1>9

\* send uses the next of the connection's own sequence numbers.
LEMMA SendDataAgrees ==
    ASSUME NetworkInv, NetworkInv', OpeningInv, EndsInv, NEW h \in Hosts, NEW s \in Fds(h), SendData(h, s)
    PROVE  OpeningInv' /\ EndsInv'
<1>1. PICK c : c = socket[h][s].conn
    OBVIOUS
<1>2. /\ c # NoConnection /\ connection[h][c].state = "ESTABLISHED"
      /\ connection[h][c].seq % 10 < MaxData[h]
      /\ SendTcpPacket({BuildTcpPacket(h, connection[h][c], {"PSH", "ACK"}, 1)})
      /\ connection' = [connection EXCEPT ![h][c].seq = @ + 1]
      /\ UNCHANGED <<socket, acceptQueue, portCounter, isns>>
    BY <1>1 DEF SendData, CanSend
<1>3. c \in Conns
    BY <1>1, <1>2, RowsOf DEF Socket
<1>4. PICK k \in Connection : k = connection[h][c]
    BY <1>3, RowsOf
<1>5. PICK n : n = [k EXCEPT !.seq = @ + 1]
    OBVIOUS
<1>6. /\ n \in Connection /\ n.state = k.state /\ n.lport = k.lport
      /\ n.rhost = k.rhost /\ n.rport = k.rport /\ n.ack = k.ack /\ n.seq = k.seq + 1
      /\ k.seq \in Nat
    BY <1>5 DEF Connection
<1>7. k.seq % 10 < 8
    BY <1>2, <1>4, <1>6, SocketsAssumption
<1>8. n.seq % 10 <= 8 /\ SameIsn(k.seq, n.seq)
    BY <1>6, <1>7 DEF SameIsn
<1>9. GoesOn(k, n) /\ n.state = "ESTABLISHED"
    BY <1>2, <1>4, <1>6, <1>8 DEF GoesOn, Synchronized
<1>10. connection \in Tables /\ EndSound(connection, h, k)
    BY <1>3, <1>4 DEF EndsInv, EndsSound, NetworkInv, Tables
<1>11. Fits(connection, network, h, c, n)
    BY <1>3, <1>4, <1>9, <1>10, GoesOnFits
<1>12. MaySend(h, n, BuildTcpPacket(h, k, {"PSH", "ACK"}, 1))
    BY <1>6, <1>7, <1>8, <1>9 DEF MaySend, BuildTcpPacket, IsOpen, Answered, Synchronized
<1>13. Sets(h, c, n)
    BY <1>2, <1>3, <1>4, <1>5 DEF Sets
<1>14. EndsInv'
    BY <1>2, <1>3, <1>4, <1>6, <1>11, <1>12, <1>13, EndsStep
<1>15. OpeningInv'
    BY <1>2, <1>3, <1>9, <1>13, OpeningStep
<1> QED  BY <1>14, <1>15

\* close_socket sends the FIN of a connection that has closed.
LEMMA CloseSocketAgrees ==
    ASSUME NetworkInv, NetworkInv', OpeningInv, EndsInv, NEW h \in Hosts, NEW s \in Fds(h), CloseSocket(h, s)
    PROVE  OpeningInv' /\ EndsInv'
<1>1. PICK x \in Socket : x = socket[h][s]
    BY RowsOf
<1>2. /\ ~x.waits /\ socket' = [socket EXCEPT ![h][s].used = FALSE]
      /\ UNCHANGED <<acceptQueue, portCounter, isns>>
    BY <1>1 DEF CloseSocket
<1>3. /\ \A g \in Hosts \ {h} : socket'[g] = socket[g]
      /\ \A t \in Fds(h) : /\ socket'[h][t].conn = socket[h][t].conn
                           /\ socket'[h][t].state = socket[h][t].state
                           /\ socket'[h][t].lport = socket[h][t].lport
                           /\ socket'[h][t].rport = socket[h][t].rport
                           /\ socket'[h][t].used => socket[h][t].used
    <2>1. PICK R, y : R = socket[h] /\ y = [x EXCEPT !.used = FALSE]
        OBVIOUS
    <2>2. socket'[h] = [R EXCEPT ![s] = y] /\ \A g \in Hosts \ {h} : socket'[g] = socket[g]
        BY <1>1, <1>2, <2>1 DEF NetworkInv
    <2>3. /\ y.conn = x.conn /\ y.state = x.state /\ y.lport = x.lport /\ y.rport = x.rport
          /\ ~y.used
        BY <2>1 DEF Socket
    <2>4. R \in [Fds(h) -> Socket]
        BY <2>1, RowsOf
    <2> QED  BY <1>1, <2>1, <2>2, <2>3, <2>4
<1>4. CASE UNCHANGED <<connection, network>>
    <2>1. OpeningInv'
        <3>1. OpeningSound(h, socket'[h], connection[h], portCounter[h])
            BY <1>3, RowsOpening, NoneOpens
        <3> QED  BY <1>2, <1>3, <1>4, <3>1, OpeningMoves
    <2> QED  BY <1>4, <2>1 DEF EndsInv
<1>5. CASE x.conn # NoConnection /\ ~UNCHANGED <<connection, network>>
    <2>1. PICK c \in Conns : c = x.conn
        BY <1>5 DEF Socket
    <2>2. PICK flags, step :
              /\ flags \in FinFlags
              /\ step = TcpClose(connection[h][c], flags)
              /\ Sets(h, c, step.conn)
              /\ SendTcpPacket(IF step.reply = {} THEN {}
                               ELSE {BuildTcpPacket(h, step.conn, flags, 0)})
        BY <1>1, <1>5, <2>1 DEF CloseSocket, Sets
    <2>3. PICK k \in Connection : k = connection[h][c] /\ EndsKnown(k)
        BY RowsOf
    <2>4. connection \in Tables /\ EndSound(connection, h, connection[h][c])
        BY DEF EndsInv, EndsSound, NetworkInv, Tables
    <2>5. step = Stays(k) \/ (Agreed(connection, network, h, c, step) /\ step.reply = flags)
        BY <2>2, <2>3, <2>4, CloseAgreed
    <2>6. step # Stays(k)
        BY <1>5, <2>2, <2>3 DEF Stays, NetworkInv, Sets, SendTcpPacket
    <2>7. /\ step.conn \in Connection /\ Fits(connection, network, h, c, step.conn)
          /\ step.reply # {} => MaySend(h, step.conn, BuildTcpPacket(h, step.conn, flags, 0))
        BY <2>5, <2>6 DEF Agreed
    <2>8. EndsInv'
        BY <2>2, <2>7, EndsStep
    <2>9. Becomes(k, step)
        BY <2>2, <2>3, CloseBecomes
    <2>10. OpeningInv'
        BY <1>2, <1>3, <2>2, <2>3, <2>9, OpeningStep DEF Becomes
    <2> QED  BY <2>8, <2>10
<1> QED  BY <1>1, <1>4, <1>5 DEF CloseSocket

\* handle_tcp_packet, for a segment that arrives late, again or out of order too.
LEMMA HandleTcpPacketAgrees ==
    ASSUME NetworkInv, NetworkInv', OpeningInv, EndsInv, NEW p \in network, HandleTcpPacket(p)
    PROVE  OpeningInv' /\ EndsInv'
<1>1. p \in Sent /\ p.dst \in Hosts
    BY DEF NetworkInv, Sent, Segment
<1>2. PICK isn : isn = Isn
    OBVIOUS
<1>3. isn \in Nat /\ isn % 10 = 0
    BY <1>2 DEF Isn, NetworkInv
<1>4. PICK c \in Conns :
        LET old == connection[p.dst][c]
            step == TcpStateMachine(old, p, isn)
        IN  /\ Finds(p.dst, p, c)
            /\ connection' = [connection EXCEPT ![p.dst][c] = step.conn]
            /\ SendTcpPacket(IF step.reply = {} THEN {}
                             ELSE {BuildTcpPacket(p.dst, step.conn, step.reply, 0)})
            /\ socket' = [socket EXCEPT ![p.dst] = [s \in Fds(p.dst) |->
                     IF @[s].conn = c /\ step.conn.state = "ESTABLISHED"
                     THEN [@[s] EXCEPT !.waits = FALSE] ELSE @[s]]]
            /\ UNCHANGED portCounter
    BY <1>2, Zenon DEF HandleTcpPacket
<1>5. PICK h : h = p.dst
    OBVIOUS
<1>6. PICK old \in Connection : old = connection[h][c] /\ EndsKnown(old)
    BY <1>1, <1>5, RowsOf
<1>7. PICK step : step = TcpStateMachine(old, p, isn)
    OBVIOUS
<1>8. PICK open : open = (step.conn.state = "ESTABLISHED")
    OBVIOUS
<1>9. /\ Finds(h, p, c)
      /\ Sets(h, c, step.conn)
      /\ SendTcpPacket(IF step.reply = {} THEN {}
                       ELSE {BuildTcpPacket(h, step.conn, step.reply, 0)})
      /\ socket' = [socket EXCEPT ![h] = [s \in Fds(h) |->
                 IF @[s].conn = c /\ open THEN [@[s] EXCEPT !.waits = FALSE] ELSE @[s]]]
      /\ UNCHANGED portCounter
    BY <1>4, <1>5, <1>6, <1>7, <1>8 DEF Sets
<1>10. h \in Hosts
    BY <1>1, <1>5
<1>11. /\ \A g \in Hosts \ {h} : socket'[g] = socket[g]
       /\ \A t \in Fds(h) : /\ socket'[h][t].conn = socket[h][t].conn
                            /\ socket'[h][t].state = socket[h][t].state
                            /\ socket'[h][t].lport = socket[h][t].lport
                            /\ socket'[h][t].rport = socket[h][t].rport
                            /\ socket'[h][t].used => socket[h][t].used
    <2>1. /\ \A g \in Hosts \ {h} : socket'[g] = socket[g]
          /\ \A t \in Fds(h) : socket'[h][t] = IF socket[h][t].conn = c /\ open
                                               THEN [socket[h][t] EXCEPT !.waits = FALSE] ELSE socket[h][t]
        BY <1>9, <1>10 DEF NetworkInv
    <2>2. ASSUME NEW t \in Fds(h)
          PROVE  /\ socket'[h][t].conn = socket[h][t].conn
                 /\ socket'[h][t].state = socket[h][t].state
                 /\ socket'[h][t].lport = socket[h][t].lport
                 /\ socket'[h][t].rport = socket[h][t].rport
                 /\ socket'[h][t].used => socket[h][t].used
        <3>1. PICK x \in Socket : x = socket[h][t]
            BY <1>10, RowsOf
        <3>2. PICK y : y = [x EXCEPT !.waits = FALSE]
            OBVIOUS
        <3>3. /\ y.conn = x.conn /\ y.state = x.state /\ y.lport = x.lport /\ y.rport = x.rport
              /\ y.used = x.used
            BY <3>2 DEF Socket
        <3>4. socket'[h][t] = y \/ socket'[h][t] = x
            BY <2>1, <3>1, <3>2
        <3> QED  BY <3>1, <3>3, <3>4
    <2> QED  BY <2>1, <2>2
<1>12. OpeningInv'
    <2>1. Becomes(old, step)
        BY <1>1, <1>3, <1>7, <1>6, StepBecomes
    <2> QED  BY <1>6, <1>9, <1>10, <1>11, <2>1, OpeningStep DEF Becomes
<1>13. connection \in Tables /\ network \in SUBSET Segment
    BY DEF NetworkInv, Tables, Sent
<1>14. \/ FoundBy(connection[h][c], p)
       \/ /\ connection[h][c].state = "LISTEN" /\ connection[h][c].lport = p.dport
          /\ \A d \in Conns : ~FoundBy(connection[h][d], p)
    BY <1>9 DEF Finds, Exact, Listening, FoundBy, IsOpen
<1>15. \A d \in Conns : connection[h][c].state = "SYN_SENT" /\ connection[h][d].state = "SYN_SENT"
                        /\ connection[h][d].lport = connection[h][c].lport => d = c
    BY <1>10, RowsOpening DEF OpeningSound
<1>16. step = Stays(old) \/ Agreed(connection, network, h, c, step)
    BY <1>3, <1>5, <1>6, <1>7, <1>13, <1>14, <1>15, SegmentAgreed DEF EndsInv
<1>17. CASE step = Stays(old)
    <2>1. step.conn = old /\ step.reply = {}
        BY <1>17 DEF Stays
    <2>2. UNCHANGED <<connection, network>>
        BY <1>6, <1>9, <2>1 DEF NetworkInv, Sets, SendTcpPacket
    <2> QED  BY <1>12, <2>2 DEF EndsInv
<1>18. CASE Agreed(connection, network, h, c, step)
    <2>1. EndsInv'
        BY <1>9, <1>10, <1>18, EndsStep DEF Agreed
    <2> QED  BY <1>12, <2>1
<1> QED  BY <1>16, <1>17, <1>18

\* connect takes a port that no other connection is being opened from.
LEMMA PortIsNew ==
    ASSUME NetworkInv, OpeningInv, NEW h \in Hosts, NEW s \in Fds(h), NEW port,
           socket[h][s].used, socket[h][s].rport = 0, socket[h][s].state \in {"CREATED", "BOUND"},
           port = IF socket[h][s].lport = 0 THEN portCounter[h] ELSE socket[h][s].lport
    PROVE  /\ socket[h][s].state = "CREATED" => port = portCounter[h]
           /\ socket[h][s].state = "BOUND" => port = ServerPort
           /\ \A d \in Conns : connection[h][d].state = "SYN_SENT" => connection[h][d].lport # port
<1>1. PICK x \in Socket : x = socket[h][s]
    BY RowsOf
<1>2. PortFits(x, portCounter[h]) /\ portCounter[h] \in Nat /\ portCounter[h] >= FirstPort
    BY <1>1, RowsOpening DEF OpeningSound
<1>3. ServerPort \in Nat \ {0} /\ FirstPort \in Nat /\ ServerPort < FirstPort
    BY SocketsAssumption
<1>4. /\ x.state = "CREATED" => port = portCounter[h]
      /\ x.state = "BOUND" => port = ServerPort
    BY <1>1, <1>2, <1>3 DEF PortFits
<1>5. ASSUME NEW d \in Conns, connection[h][d].state = "SYN_SENT", connection[h][d].lport = port
      PROVE  FALSE
    <2>1. PICK t \in Fds(h) : OpenedBy(socket[h][t], d)
        BY <1>5, RowsOpening DEF OpeningSound
    <2>2. PICK z \in Socket : z = socket[h][t]
        BY RowsOf
    <2>3. SocketFits(z, connection[h]) /\ d # NoConnection /\ z.conn = d
          /\ z.state \in {"CREATED", "BOUND", "LISTENING"}
        BY <2>1, <2>2, RowsOpening, SocketsAssumption DEF OpenedBy, Conns
    <2>4. z.used /\ z.rport # 0 /\ z.lport = port
        BY <1>5, <2>3 DEF SocketFits
    <2>5. PortFits(z, portCounter[h])
        BY <2>2, <2>4, RowsOpening DEF OpeningSound
    <2>6. CASE z.state = "CREATED"
        BY <1>1, <1>2, <1>3, <1>4, <2>4, <2>5, <2>6 DEF PortFits
    <2>7. CASE z.state \in {"BOUND", "LISTENING"}
        <3>1. port = ServerPort
            BY <2>4, <2>5, <2>7 DEF PortFits
        <3>2. x.state = "BOUND"
            BY <1>1, <1>2, <1>3, <1>4, <3>1
        <3>3. s = t
            BY <1>1, <2>2, <2>4, <2>7, <3>2, RowsOpening DEF OpeningSound
        <3> QED  BY <2>2, <2>4, <3>3
    <2> QED  BY <2>3, <2>6, <2>7
<1> QED  BY <1>1, <1>4, <1>5

\* connect opens a connection from a port of its own, and nobody knows of it yet.
LEMMA ConnectAgrees ==
    ASSUME NetworkInv, NetworkInv', OpeningInv, EndsInv, NEW h \in Hosts, NEW s \in Fds(h),
           NEW remote \in Hosts \ {h}, Connect(h, s, remote)
    PROVE  OpeningInv' /\ EndsInv'
<1> DEFINE q == IF socket[h][s].lport = 0 THEN portCounter[h] ELSE socket[h][s].lport
<1>0. PICK x \in Socket : x = socket[h][s]
    BY RowsOf
<1>1. PICK port, next : port = q /\ next = IF port = portCounter[h] THEN portCounter[h] + 1 ELSE portCounter[h]
    OBVIOUS
<1>2. port \in Nat \ {0} /\ next \in Nat /\ portCounter[h] \in Nat /\ next >= portCounter[h]
    BY <1>0, <1>1, RowsOf DEF Socket, Ports
<1>3. /\ x.used /\ x.rport = 0 /\ x.state \in {"CREATED", "BOUND"}
      /\ portCounter' = [portCounter EXCEPT ![h] = next]
    BY <1>0, <1>1 DEF Connect, NetworkInv
<1>4. /\ x.state = "CREATED" => port = portCounter[h]
      /\ x.state = "BOUND" => port = ServerPort
      /\ \A d \in Conns : connection[h][d].state = "SYN_SENT" => connection[h][d].lport # port
    BY <1>0, <1>1, <1>3, PortIsNew
<1>5. /\ ServerPort \in Nat \ {0} /\ FirstPort <= portCounter[h] /\ FirstPort \in Nat
      /\ OpeningSound(h, socket[h], connection[h], portCounter[h])
    BY RowsOpening, SocketsAssumption DEF OpeningSound
<1>6. OpeningSound(h, socket[h], connection[h], next)
    <2>1. \A t \in Fds(h) : socket[h][t].used => PortFits(socket[h][t], next)
        <3>1. ASSUME NEW t \in Fds(h), socket[h][t].used
              PROVE  PortFits(socket[h][t], next)
            <4>1. PortFits(socket[h][t], portCounter[h]) /\ socket[h][t].lport \in Nat
                BY <1>5, <3>1, RowsOf DEF OpeningSound, Socket, Ports
            <4> QED  BY <1>2, <4>1 DEF PortFits
        <3> QED  BY <3>1
    <2>2. next >= FirstPort
        BY <1>2, <1>5
    <2> QED  BY <1>2, <1>5, <2>1, <2>2 DEF OpeningSound
<1>7. ASSUME NEW y \in Socket, y.lport = port, y.rport = ServerPort, y.state = x.state
      PROVE  PortFits(y, next)
    BY <1>1, <1>2, <1>3, <1>4, <1>5, <1>7 DEF PortFits
<1>8. x.state = "BOUND" =>
          \A t \in Fds(h) : socket[h][t].used /\ socket[h][t].state \in {"BOUND", "LISTENING"} => t = s
    BY <1>0, <1>3, <1>5 DEF OpeningSound
<1>9. SocketFits(x, connection[h])
    BY <1>0, RowsOpening
<1>10. \A d \in Conns : connection[h][d].state = "SYN_SENT" => x.conn # d
    <2>1. \A d \in Conns : d # NoConnection
        BY SocketsAssumption DEF Conns
    <2> QED  BY <1>3, <1>9, <2>1 DEF SocketFits
<1>11. CASE TcpConnect(h, s, port, remote)
    <2>1. PICK isn : isn = Isn
        OBVIOUS
    <2>2. PICK k : k = [lport |-> port, rhost |-> remote, rport |-> ServerPort,
                        state |-> "SYN_SENT", seq |-> isn, ack |-> 0]
        OBVIOUS
    <2>3. PICK c \in Conns :
              /\ connection[h][c].state = "CLOSED"
              /\ Sets(h, c, k)
              /\ socket' = [socket EXCEPT ![h][s].lport = port, ![h][s].rport = ServerPort,
                                ![h][s].conn = c, ![h][s].waits = TRUE]
              /\ SendTcpPacket({BuildTcpPacket(h, k, {"SYN"}, 0)})
        BY <1>11, <2>1, <2>2 DEF TcpConnect, FreeConnection, Sets
    <2>4. PICK y : y = [x EXCEPT !.lport = port, !.rport = ServerPort, !.conn = c, !.waits = TRUE]
        OBVIOUS
    <2>5. /\ y \in Socket /\ y.used /\ y.rport = ServerPort /\ y.lport = port /\ y.conn = c
          /\ y.state = x.state
        BY <1>2, <1>3, <1>5, <2>4 DEF Socket, Ports
    <2>6. isn \in Nat /\ isn % 10 = 0
        BY <2>1 DEF Isn, NetworkInv
    <2>7. /\ k \in Connection /\ k.state = "SYN_SENT" /\ k.lport = port /\ k.rhost = remote
          /\ k.seq % 10 <= 8
        BY <1>2, <1>5, <2>2, <2>6 DEF Connection, TcpStates, Ports
    <2>8. /\ Fits(connection, network, h, c, k) /\ IsOpen(k)
        BY <2>3, <2>7 DEF Fits, Grows, IsOpen, Answered, Synchronized
    <2>9. MaySend(h, k, BuildTcpPacket(h, k, {"SYN"}, 0))
        BY <2>7, <2>8, ReplyIsSent
    <2>10. EndsInv'
        BY <2>3, <2>7, <2>8, <2>9, EndsStep
    <2>11. PICK K : K = connection[h] /\ K \in [Conns -> Connection]
        BY RowsOf
    <2>a. PICK K2, R2 : K2 = connection'[h] /\ R2 = socket'[h]
        OBVIOUS
    <2>12. K2[c] = k /\ \A d \in Conns : d # c => K2[d] = K[d]
        <3>1. K2 = [K EXCEPT ![c] = k]
            BY <2>a, <2>3, <2>11 DEF Sets, NetworkInv
        <3> QED  BY <2>11, <3>1
    <2>13. PICK R : R = socket[h] /\ R \in [Fds(h) -> Socket]
        BY RowsOf
    <2>14. R2[s] = y /\ \A t \in Fds(h) : t # s => R2[t] = R[t]
        <3>0. DOMAIN socket = Hosts /\ h \in DOMAIN socket
            BY DEF NetworkInv
        <3>1. socket' = [socket EXCEPT ![h][s] = y]
            BY <1>0, <2>3, <2>4, <3>0
        <3>2. R2 = [R EXCEPT ![s] = y]
            BY <2>a, <2>13, <3>1 DEF NetworkInv
        <3> QED  BY <2>13, <3>2
    <2>15. ASSUME NEW d \in Conns, K2[d].state = "SYN_SENT"
           PROVE  \E t \in Fds(h) : OpenedBy(R2[t], d)
        <3>1. CASE d = c
            BY <1>3, <2>5, <2>14, <3>1 DEF OpenedBy
        <3>2. CASE d # c
            <4>1. PICK t \in Fds(h) : OpenedBy(R[t], d)
                BY <1>6, <2>11, <2>12, <2>13, <2>15, <3>2 DEF OpeningSound
            <4>2. t # s
                BY <1>0, <1>10, <2>11, <2>12, <2>13, <2>15, <3>2, <4>1 DEF OpenedBy
            <4> QED  BY <2>14, <4>1, <4>2
        <3> QED  BY <3>1, <3>2
    <2>16. \A d, e \in Conns :
              K2[d].state = "SYN_SENT" /\ K2[e].state = "SYN_SENT" /\ K2[d].lport = K2[e].lport => d = e
        BY <1>4, <1>6, <2>7, <2>11, <2>12 DEF OpeningSound
    <2>17. \A t, u \in Fds(h) :
              R2[t].used /\ R2[t].state \in {"BOUND", "LISTENING"}
                  /\ R2[u].used /\ R2[u].state \in {"BOUND", "LISTENING"} => t = u
        BY <1>0, <1>3, <1>6, <2>5, <2>13, <2>14 DEF OpeningSound
    <2>18. \A t \in Fds(h) : R2[t].used => PortFits(R2[t], next)
        BY <1>6, <1>7, <2>5, <2>13, <2>14 DEF OpeningSound
    <2>19. OpeningSound(h, R2, K2, next)
        BY <1>6, <2>15, <2>16, <2>17, <2>18 DEF OpeningSound
    <2>20. \A g \in Hosts \ {h} : /\ socket'[g] = socket[g] /\ connection'[g] = connection[g]
                                  /\ portCounter'[g] = portCounter[g]
        BY <1>3, <2>3 DEF NetworkInv, Sets
    <2>21. portCounter'[h] = next
        BY <1>3 DEF NetworkInv
    <2> QED  BY <2>a, <2>10, <2>19, <2>20, <2>21, OpeningMoves
<1>12. CASE /\ socket' = [socket EXCEPT ![h][s].lport = port, ![h][s].rport = ServerPort]
            /\ UNCHANGED <<connection, isns, network>>
    <2>1. PICK y : y = [x EXCEPT !.lport = port, !.rport = ServerPort]
        OBVIOUS
    <2>2. /\ y \in Socket /\ y.lport = port /\ y.rport = ServerPort /\ y.conn = x.conn
          /\ y.state = x.state /\ y.used
        BY <1>2, <1>3, <1>5, <2>1 DEF Socket, Ports
    <2>3. PortFits(y, next)
        BY <1>7, <2>2
    <2>4. OpeningSound(h, [socket[h] EXCEPT ![s] = y], connection[h], next)
        BY <1>0, <1>3, <1>6, <1>8, <1>10, <2>2, <2>3, RowsOf, SlotSet
    <2>5. /\ socket'[h] = [socket[h] EXCEPT ![s] = y]
          /\ \A g \in Hosts \ {h} : socket'[g] = socket[g]
        BY <1>0, <1>12, <2>1 DEF NetworkInv
    <2>6. /\ portCounter'[h] = next
          /\ \A g \in Hosts \ {h} : portCounter'[g] = portCounter[g]
        BY <1>3 DEF NetworkInv
    <2>7. OpeningInv'
        BY <1>12, <2>4, <2>5, <2>6, OpeningMoves
    <2> QED  BY <1>12, <2>7 DEF EndsInv
<1> QED  BY <1>1, <1>11, <1>12 DEF Connect

-----------------------------------------------------------------------------
\* At the start no connection is open.
LEMMA EndsStart == NetworkInit => OpeningInv /\ EndsInv
<1> SUFFICES ASSUME NetworkInit PROVE OpeningInv /\ EndsInv
    OBVIOUS
<1>1. \A h \in Hosts, c \in Conns : connection[h][c] = Unused
    BY DEF NetworkInit
<1>2. Unused.state = "CLOSED" /\ Unused.seq = 0
    BY DEF Unused
<1>3. ASSUME NEW h \in Hosts
      PROVE  OpeningSound(h, socket[h], connection[h], portCounter[h])
    <2>1. \A s \in Fds(h) : ~socket[h][s].used
        BY DEF NetworkInit
    <2>2. portCounter[h] = FirstPort /\ FirstPort \in Nat
        BY SocketsAssumption DEF NetworkInit
    <2> QED  BY <1>1, <1>2, <2>1, <2>2 DEF OpeningSound
<1>4. ASSUME NEW h \in Hosts
      PROVE  EndSound(connection, h, Unused)
    <2>1. Unused.seq % 10 <= 8
        BY <1>2
    <2> QED  BY <1>2, <2>1 DEF EndSound, IsOpen, Answered, Synchronized
<1>5. network = {}
    BY DEF NetworkInit
<1> QED  BY <1>1, <1>3, <1>4, <1>5 DEF OpeningInv, EndsInv, EndsSound

\* Every step keeps the two ends of every connection in agreement.
LEMMA EndsStepKeeps ==
    NetworkInv /\ NetworkInv' /\ OpeningInv /\ EndsInv /\ [NetworkNext]_networkVars => OpeningInv' /\ EndsInv'
<1> SUFFICES ASSUME NetworkInv, NetworkInv', OpeningInv, EndsInv, [NetworkNext]_networkVars
             PROVE  OpeningInv' /\ EndsInv'
    OBVIOUS
<1>0. UNCHANGED <<connection, network>> => EndsInv'
    BY DEF EndsInv
<1>1. ASSUME NEW h \in Hosts, OpenSocket(h) PROVE OpeningInv' /\ EndsInv'
    BY <1>0, <1>1, OpenSocketOpens DEF OpenSocket
<1>2. ASSUME NEW h \in Hosts, NEW s \in Fds(h), Bind(h, s) PROVE OpeningInv' /\ EndsInv'
    BY <1>0, <1>2, BindOpens DEF Bind
<1>3. ASSUME NEW h \in Hosts, NEW s \in Fds(h), Listen(h, s) PROVE OpeningInv' /\ EndsInv'
    BY <1>0, <1>3, ListenOpens DEF Listen
<1>4. ASSUME NEW h \in Hosts, NEW s \in Fds(h), AcceptWaits(h, s) PROVE OpeningInv' /\ EndsInv'
    BY <1>4, AcceptWaitsAgrees
<1>5. ASSUME NEW h \in Hosts, NEW s \in Fds(h), AcceptReturns(h, s) PROVE OpeningInv' /\ EndsInv'
    BY <1>0, <1>5, AcceptReturnsOpens DEF AcceptReturns
<1>6. ASSUME NEW h \in Hosts, NEW s \in Fds(h), NEW remote \in Hosts \ {h}, Connect(h, s, remote)
      PROVE  OpeningInv' /\ EndsInv'
    BY <1>6, ConnectAgrees
<1>7. ASSUME NEW h \in Hosts, NEW s \in Fds(h), SendData(h, s) PROVE OpeningInv' /\ EndsInv'
    BY <1>7, SendDataAgrees
<1>8. ASSUME NEW h \in Hosts, NEW s \in Fds(h), CloseSocket(h, s) PROVE OpeningInv' /\ EndsInv'
    BY <1>8, CloseSocketAgrees
<1>9. ASSUME NEW p \in network, HandleTcpPacket(p) PROVE OpeningInv' /\ EndsInv'
    BY <1>9, HandleTcpPacketAgrees
<1>10. CASE UNCHANGED networkVars
    BY <1>0, <1>10 DEF networkVars, OpeningInv
<1> QED  BY <1>1, <1>2, <1>3, <1>4, <1>5, <1>6, <1>7, <1>8, <1>9, <1>10 DEF NetworkNext

\* Whatever the network loses, repeats or reorders: a connection that counts as open has
\* another end that does, or is one ACK short of it, and whose sequence numbers it knows;
\* and one that was told of the end of the stream was told so by an end that has closed
\* (tcp_state_machine, tcp_connect and close_socket on two hosts).
THEOREM EndsAlwaysAgree == NetworkSpec => []StatesAgree
<1>1. EndsInv => StatesAgree
    <2> SUFFICES ASSUME EndsInv, NEW h \in Hosts, NEW c \in Conns, NEW near,
                        near = connection[h][c], near.state \in Synchronized
                 PROVE  \E d \in Conns :
                            LET far == connection[near.rhost][d]
                            IN  /\ AtOtherEnd(h, c, d)
                                /\ far.state \in Synchronized \cup {"SYN_RECEIVED"}
                                /\ SameIsn(near.ack, far.seq)
                                /\ near.state \in PeerHasClosed => far.state \in HasClosed
        BY Zenon DEF StatesAgree
    <2>1. HasOtherEnd(connection, h, near)
        BY DEF EndsInv, EndsSound, EndSound, Answered
    <2>2. PICK d \in Conns : /\ Meets(h, near, connection[near.rhost][d])
                             /\ Agrees(near, connection[near.rhost][d])
        BY <2>1 DEF HasOtherEnd
    <2>3. AtOtherEnd(h, c, d)
        BY <2>2 DEF Meets, AtOtherEnd
    <2> QED  BY <2>2, <2>3 DEF Agrees, Answered
<1>2. NetworkSpec => [](OpeningInv /\ EndsInv)
    BY EndsStart, EndsStepKeeps, NetworkAlwaysSound, PTL DEF NetworkSpec
<1> QED  BY <1>1, <1>2, PTL

-----------------------------------------------------------------------------
(***************************************************************************)
(* What gets past the checksum is the header that was sent, for bytes of   *)
(* any size.  The sum of a header and its checksum is a multiple of        *)
(* WordValues - 1, and the change of one byte is too small to lead from    *)
(* one multiple to another.                                                *)
(***************************************************************************)

\* Induction over the natural numbers, for a set.
LEMMA FromZero ==
    ASSUME NEW S, S \subseteq Nat, 0 \in S, \A n \in S : n + 1 \in S
    PROVE  S = Nat
  <1> DEFINE T == {U \in SUBSET Nat : \E t \in Nat \ S : U = 0 .. t}
             R == StrictSubsetOrdering(Nat)
  <1> SUFFICES ASSUME Nat \ S # {} PROVE FALSE
    OBVIOUS
  <1>1. IsWellFoundedOn(R, FiniteSubsetsOf(Nat))
    BY FS_StrictSubsetOrderingWellFounded
  <1>2. T \subseteq FiniteSubsetsOf(Nat)
    BY FS_Interval DEF FiniteSubsetsOf
  <1>3. T # {}
    <2>1. PICK t \in Nat \ S : TRUE
      OBVIOUS
    <2>2. (0 .. t) \in T
      BY <2>1
    <2>3. QED
      BY <2>2
  <1> HIDE DEF T
  <1>4. PICK U \in T : \A V \in T : ~ (<<V, U>> \in R)
    <2> HIDE DEF R
    <2>1. QED
      BY <1>1, <1>2, <1>3, WFMin
  <1>5. PICK m \in Nat \ S : U = 0 .. m
    BY <1>4 DEF T
  <1>6. m # 0
    OBVIOUS
  <1>7. m - 1 \in Nat \ S
    <2>1. m - 1 \in Nat /\ (m - 1) + 1 = m
      BY <1>6
    <2>2. QED
      BY <2>1
  <1>8. (0 .. (m - 1)) \in T
    BY <1>7 DEF T
  <1>9. (0 .. (m - 1)) \subseteq U /\ (0 .. (m - 1)) # U
    BY <1>5
  <1>10. <<0 .. (m - 1), U>> \in R
    BY <1>8, <1>9, <1>5 DEF StrictSubsetOrdering
  <1>11. QED
    BY <1>4, <1>8, <1>10

\* What a byte adds to the sum: bytes in odd places are the low ones.
Word(data, i) == IF i % 2 = 1 THEN data[i] ELSE data[i] * ByteValues

\* f has the sums of the first bytes of data.
Summed(data, n, f) == f = [i \in 0 .. n |-> IF i = 0 THEN 0 ELSE f[i - 1] + Word(data, i)]

\* One byte more.
LEMMA SumFurther ==
    ASSUME NEW data, NEW n \in Nat, NEW f, Summed(data, n, f)
    PROVE  \E g : Summed(data, n + 1, g)
  <1> DEFINE g == [k \in 0 .. (n + 1) |-> IF k = n + 1 THEN f[n] + Word(data, n + 1) ELSE f[k]]
             F(k) == IF k = 0 THEN 0 ELSE g[k - 1] + Word(data, k)
  <1>1. \A k \in 0 .. n : f[k] = IF k = 0 THEN 0 ELSE f[k - 1] + Word(data, k)
    BY DEF Summed
  <1>2. ASSUME NEW k \in 0 .. (n + 1) PROVE g[k] = F(k)
    <2>1. CASE k = n + 1
      <3>1. k - 1 = n /\ n \in 0 .. (n + 1) /\ n # n + 1 /\ k # 0
        BY <2>1
      <3>2. g[k - 1] = f[n]
        BY <3>1
      <3>3. g[k] = f[n] + Word(data, n + 1)
        BY <2>1
      <3>4. QED
        BY <2>1, <3>1, <3>2, <3>3
    <2>2. CASE k = 0
      BY <1>1, <2>2
    <2>3. CASE k # 0 /\ k # n + 1
      <3>1. k \in 0 .. n /\ k - 1 \in 0 .. (n + 1) /\ k - 1 # n + 1
        BY <2>3
      <3>2. g[k - 1] = f[k - 1] /\ g[k] = f[k]
        BY <2>3, <3>1
      <3>3. f[k] = f[k - 1] + Word(data, k)
        BY <1>1, <2>3, <3>1
      <3>4. QED
        BY <2>3, <3>2, <3>3
    <2>4. QED
      BY <2>1, <2>2, <2>3
  <1>3. g = [k \in 0 .. (n + 1) |-> F(k)]
    <2> HIDE DEF F
    <2>1. QED
      BY <1>2
  <1>4. Summed(data, n + 1, g)
    <2> HIDE DEF g
    <2>1. QED
      BY <1>3 DEF Summed
  <1>5. QED
    BY <1>4

\* calculate_checksum's first loop ends with the last of these sums.
LEMMA SumIsLast ==
    ASSUME NEW data, NEW n \in Nat, Len(data) = n
    PROVE  \E f : /\ SumOfWords(data) = f[n] /\ f[0] = 0
                  /\ \A k \in 0 .. (n - 1) : f[k + 1] = f[k] + Word(data, k + 1)
  <1> DEFINE Good == {m \in Nat : \E f : Summed(data, m, f)}
  <1>1. 0 \in Good
    <2> DEFINE z == [k \in 0 .. 0 |-> 0]
               F(k) == IF k = 0 THEN 0 ELSE z[k - 1] + Word(data, k)
    <2>1. \A k \in 0 .. 0 : z[k] = F(k)
      OBVIOUS
    <2>2. z = [k \in 0 .. 0 |-> F(k)]
      <3> HIDE DEF F
      <3>1. QED
        BY <2>1
    <2>3. Summed(data, 0, z)
      <3> HIDE DEF z
      <3>1. QED
        BY <2>2 DEF Summed
    <2>4. QED
      BY <2>3
  <1>2. \A m \in Good : m + 1 \in Good
    BY SumFurther
  <1>3. Good = Nat
    <2> HIDE DEF Good
    <2>1. Good \subseteq Nat
      BY DEF Good
    <2>2. QED
      BY <1>1, <1>2, <2>1, FromZero
  <1>4. \E f : Summed(data, n, f)
    BY <1>3
  <1>5. PICK f : f = CHOOSE g : Summed(data, n, g)
    OBVIOUS
  <1>6. Summed(data, n, f)
    BY <1>4, <1>5
  <1>7. SumOfWords(data) = f[n]
    BY <1>5 DEF SumOfWords, Summed, Word
  <1>8. \A k \in 0 .. n : f[k] = IF k = 0 THEN 0 ELSE f[k - 1] + Word(data, k)
    BY <1>6 DEF Summed
  <1>9. f[0] = 0
    BY <1>8
  <1>10. ASSUME NEW k \in 0 .. (n - 1) PROVE f[k + 1] = f[k] + Word(data, k + 1)
    <2>1. k + 1 \in 0 .. n /\ k + 1 # 0 /\ (k + 1) - 1 = k
      OBVIOUS
    <2>2. QED
      BY <1>8, <2>1
  <1>11. QED
    BY <1>7, <1>9, <1>10

\* A word of bytes.
LEMMA WordType ==
    ASSUME NEW data \in Seq(Byte), NEW i \in 1 .. Len(data)
    PROVE  Word(data, i) \in Nat
  <1>1. PICK x \in Byte : x = data[i]
    BY ElementOfSeq
  <1>2. x \in Nat /\ ByteValues \in Nat
    BY DatagramsAssumption DEF Byte
  <1>3. x * ByteValues \in Nat
    BY <1>2
  <1>4. QED
    BY <1>1, <1>2, <1>3 DEF Word

\* other is data with another byte in place i, or the same.
ButFor(other, data, i) ==
    Len(other) = Len(data) /\ \A k \in 1 .. Len(data) : k # i => other[k] = data[k]

\* Changing one byte changes the sum by what that byte adds.
LEMMA SumChanged ==
    ASSUME NEW data \in Seq(Byte), NEW i \in 1 .. Len(data),
           NEW other \in Seq(Byte), ButFor(other, data, i)
    PROVE  /\ SumOfWords(data) \in Nat
           /\ SumOfWords(other) = SumOfWords(data) + Word(other, i) - Word(data, i)
  <1>1. PICK n \in Nat : n = Len(data) /\ n = Len(other)
    BY LenProperties DEF ButFor
  <1>2. PICK f : /\ SumOfWords(data) = f[n] /\ f[0] = 0
                 /\ \A k \in 0 .. (n - 1) : f[k + 1] = f[k] + Word(data, k + 1)
    BY <1>1, SumIsLast
  <1>3. PICK g : /\ SumOfWords(other) = g[n] /\ g[0] = 0
                 /\ \A k \in 0 .. (n - 1) : g[k + 1] = g[k] + Word(other, k + 1)
    BY <1>1, SumIsLast
  <1>4. PICK u, v : u = Word(data, i) /\ v = Word(other, i) /\ u \in Nat /\ v \in Nat
    BY <1>1, WordType
  <1> DEFINE Good == {k \in Nat : k <= n =>
                         f[k] \in Nat /\ g[k] = (IF k < i THEN f[k] ELSE f[k] + v - u)}
  <1>5. 0 \in Good
    BY <1>1, <1>2, <1>3
  <1>6. ASSUME NEW k \in Good PROVE k + 1 \in Good
    <2> SUFFICES ASSUME k + 1 <= n
                 PROVE  /\ f[k + 1] \in Nat
                        /\ g[k + 1] = (IF k + 1 < i THEN f[k + 1] ELSE f[k + 1] + v - u)
      OBVIOUS
    <2>1. k \in 0 .. (n - 1) /\ k + 1 \in 1 .. n
      OBVIOUS
    <2>2. PICK x \in Nat : x = Word(data, k + 1)
      BY <1>1, <2>1, WordType
    <2>3. f[k + 1] = f[k] + x /\ g[k + 1] = g[k] + Word(other, k + 1)
      BY <1>2, <1>3, <2>1, <2>2
    <2>4. k + 1 # i => other[k + 1] = data[k + 1]
      BY <1>1, <2>1 DEF ButFor
    <2>5. k + 1 # i => Word(other, k + 1) = x
      BY <2>2, <2>4 DEF Word
    <2>6. k + 1 = i => x = u /\ Word(other, k + 1) = v
      BY <1>4, <2>2
    <2>7. f[k] \in Nat /\ g[k] = (IF k < i THEN f[k] ELSE f[k] + v - u)
      BY <2>1
    <2>8. i \in Nat /\ k \in Nat
      BY <1>1
    <2>9. QED
      BY <1>4, <2>3, <2>5, <2>6, <2>7, <2>8
  <1>7. Good = Nat
    <2> HIDE DEF Good
    <2>1. Good \subseteq Nat
      BY DEF Good
    <2>2. QED
      BY <1>5, <1>6, <2>1, FromZero
  <1>8. n \in Good
    BY <1>7
  <1>9. f[n] \in Nat /\ g[n] = f[n] + v - u
    BY <1>1, <1>8
  <1>10. QED
    BY <1>2, <1>3, <1>4, <1>9

\* One turn of the second loop: the carry is added back.
Carried(s) == (s % WordValues) + (s \div WordValues)

\* Bytes have enough values for what follows.
LEMMA ManyWords ==
    /\ ByteValues \in Nat /\ ByteValues >= 8 /\ WordValues \in Nat /\ WordValues >= 64
    /\ ByteValues * ByteValues = WordValues
  <1>1. ByteValues \in Nat /\ ByteValues >= 8
    BY DatagramsAssumption
  <1>2. ByteValues * ByteValues >= 64 /\ ByteValues * ByteValues \in Nat
    BY <1>1
  <1>3. QED
    BY <1>1, <1>2 DEF WordValues

\* It takes away a multiple of WordValues - 1, and never everything.
LEMMA CarryFacts ==
    ASSUME NEW s \in Nat, ~(s < WordValues)
    PROVE  /\ Carried(s) \in 1 .. (s - 1)
           /\ \E k \in Nat : s = Carried(s) + k * (WordValues - 1)
  <1>1. WordValues \in Nat /\ WordValues >= 64
    BY ManyWords
  <1>2. PICK q, r : q = s \div WordValues /\ r = s % WordValues
    OBVIOUS
  <1>3. q \in Nat /\ r \in Nat /\ s = q * WordValues + r /\ r < WordValues
    BY <1>1, <1>2
  <1>4. q # 0
    BY <1>1, <1>3
  <1>5. q * WordValues = q * (WordValues - 1) + q /\ q * (WordValues - 1) \in Nat
    BY <1>1, <1>3
  <1>6. q * (WordValues - 1) >= 1
    BY <1>1, <1>3, <1>4
  <1>7. Carried(s) = r + q
    BY <1>2 DEF Carried
  <1>8. s = Carried(s) + q * (WordValues - 1)
    BY <1>1, <1>3, <1>5, <1>7
  <1>9. Carried(s) \in 1 .. (s - 1)
    BY <1>3, <1>4, <1>5, <1>6, <1>7, <1>8
  <1>10. QED
    BY <1>3, <1>8, <1>9

\* f has the folded value of every sum up to n.
Folding(n, f) == f = [s \in 0 .. n |-> IF s < WordValues THEN s ELSE f[Carried(s)]]

\* One sum more.
LEMMA FoldFurther ==
    ASSUME NEW n \in Nat, NEW f, Folding(n, f)
    PROVE  \E g : Folding(n + 1, g)
  <1> DEFINE m == n + 1
             last == IF m < WordValues THEN m ELSE f[Carried(m)]
             g == [s \in 0 .. m |-> IF s = m THEN last ELSE f[s]]
             F(s) == IF s < WordValues THEN s ELSE g[Carried(s)]
  <1>1. \A s \in 0 .. n : f[s] = IF s < WordValues THEN s ELSE f[Carried(s)]
    BY DEF Folding
  <1>2. WordValues \in Nat
    BY ManyWords
  <1>3. ASSUME NEW s \in 0 .. m, ~(s < WordValues)
        PROVE  Carried(s) \in 0 .. m /\ Carried(s) # m /\ Carried(s) \in 0 .. n
    BY <1>3, CarryFacts
  <1>4. ASSUME NEW s \in 0 .. m PROVE g[s] = F(s)
    <2>1. CASE s < WordValues
      BY <1>1, <2>1
    <2>2. CASE ~(s < WordValues)
      <3>1. g[Carried(s)] = f[Carried(s)]
        BY <1>3, <2>2
      <3>2. g[s] = f[Carried(s)]
        <4>1. CASE s = m
          BY <2>2, <4>1
        <4>2. CASE s # m
          <5>1. s \in 0 .. n
            BY <4>2
          <5>2. f[s] = f[Carried(s)]
            BY <1>1, <2>2, <5>1
          <5>3. QED
            BY <4>2, <5>2
        <4>3. QED
          BY <4>1, <4>2
      <3>3. QED
        BY <2>2, <3>1, <3>2
    <2>3. QED
      BY <2>1, <2>2
  <1>5. g = [s \in 0 .. m |-> F(s)]
    <2> HIDE DEF F
    <2>1. QED
      BY <1>4
  <1>6. Folding(m, g)
    <2> HIDE DEF g, m
    <2>1. QED
      BY <1>5 DEF Folding
  <1>7. QED
    BY <1>6

\* What the second loop leaves fits a word, is 0 only for 0, and differs from the sum by
\* a multiple of WordValues - 1.
IsFolded(x, s) ==
    /\ x \in 0 .. WordValues - 1
    /\ x = 0 => s = 0
    /\ \E k \in Nat : s = x + k * (WordValues - 1)

LEMMA FoldedFacts ==
    ASSUME NEW n \in Nat
    PROVE  IsFolded(Folded(n), n)
  <1>1. WordValues \in Nat /\ WordValues >= 64
    BY ManyWords
  <1> DEFINE Good == {m \in Nat : \E f : Folding(m, f)}
  <1>2. 0 \in Good
    <2> DEFINE z == [s \in 0 .. 0 |-> 0]
               F(s) == IF s < WordValues THEN s ELSE z[Carried(s)]
    <2>1. \A s \in 0 .. 0 : z[s] = F(s)
      BY <1>1
    <2>2. z = [s \in 0 .. 0 |-> F(s)]
      <3> HIDE DEF F
      <3>1. QED
        BY <2>1
    <2>3. Folding(0, z)
      <3> HIDE DEF z
      <3>1. QED
        BY <2>2 DEF Folding
    <2>4. QED
      BY <2>3
  <1>3. \A m \in Good : m + 1 \in Good
    BY FoldFurther
  <1>4. Good = Nat
    <2> HIDE DEF Good
    <2>1. Good \subseteq Nat
      BY DEF Good
    <2>2. QED
      BY <1>2, <1>3, <2>1, FromZero
  <1>5. PICK f : f = CHOOSE g : Folding(n, g)
    OBVIOUS
  <1>6. Folding(n, f)
    BY <1>4, <1>5
  <1>7. Folded(n) = f[n]
    BY <1>5 DEF Folded, Folding, Carried
  <1>8. \A s \in 0 .. n : f[s] = IF s < WordValues THEN s ELSE f[Carried(s)]
    BY <1>6 DEF Folding
  <1> DEFINE Fine == {m \in Nat : \A s \in 0 .. m : s <= n => IsFolded(f[s], s)}
  <1>9. ASSUME NEW s \in 0 .. n, s < WordValues PROVE IsFolded(f[s], s)
    <2>1. f[s] = s /\ s \in Nat
      BY <1>8, <1>9
    <2>2. s = s + 0 * (WordValues - 1)
      BY <1>1
    <2>3. QED
      BY <1>1, <1>9, <2>1, <2>2 DEF IsFolded
  <1>10. ASSUME NEW s \in 0 .. n, ~(s < WordValues), IsFolded(f[Carried(s)], Carried(s))
         PROVE  IsFolded(f[s], s)
    <2>1. f[s] = f[Carried(s)]
      BY <1>8, <1>10
    <2>2. PICK x : x = f[s]
      OBVIOUS
    <2>3. x \in 0 .. WordValues - 1 /\ (x = 0 => Carried(s) = 0)
      BY <1>10, <2>1, <2>2 DEF IsFolded
    <2>4. PICK j \in Nat : Carried(s) = x + j * (WordValues - 1)
      BY <1>10, <2>1, <2>2 DEF IsFolded
    <2>5. Carried(s) \in 1 .. (s - 1)
      BY <1>10, CarryFacts
    <2>6. PICK k \in Nat : s = Carried(s) + k * (WordValues - 1)
      BY <1>10, CarryFacts
    <2>7. PICK c \in Nat : c = Carried(s)
      BY <2>5
    <2>8. j * (WordValues - 1) + k * (WordValues - 1) = (j + k) * (WordValues - 1)
      BY <1>1
    <2>9. j * (WordValues - 1) \in Nat /\ k * (WordValues - 1) \in Nat /\ j + k \in Nat
      BY <1>1
    <2>10. s = x + (j + k) * (WordValues - 1)
      BY <2>3, <2>4, <2>6, <2>7, <2>8, <2>9
    <2>11. x # 0
      BY <2>3, <2>5
    <2>12. QED
      BY <2>2, <2>3, <2>9, <2>10, <2>11 DEF IsFolded
  <1>11. 0 \in Fine
    BY <1>1, <1>9
  <1>12. ASSUME NEW m \in Fine PROVE m + 1 \in Fine
    <2> SUFFICES ASSUME NEW s \in 0 .. (m + 1), s <= n PROVE IsFolded(f[s], s)
      BY DEF Fine
    <2>1. m \in Nat /\ s \in 0 .. n
      OBVIOUS
    <2>2. CASE s < WordValues
      BY <1>9, <2>1, <2>2
    <2>3. CASE ~(s < WordValues)
      <3>1. Carried(s) \in 1 .. (s - 1)
        BY <2>1, <2>3, CarryFacts
      <3>2. Carried(s) \in 0 .. m /\ Carried(s) <= n
        BY <2>1, <3>1
      <3>3. IsFolded(f[Carried(s)], Carried(s))
        BY <3>2
      <3>4. QED
        BY <1>10, <2>1, <2>3, <3>3
    <2>4. QED
      BY <2>2, <2>3
  <1>13. Fine = Nat
    <2> HIDE DEF Fine
    <2>1. Fine \subseteq Nat
      BY DEF Fine
    <2>2. QED
      BY <1>11, <1>12, <2>1, FromZero
  <1>14. n \in Fine
    BY <1>13
  <1>15. IsFolded(f[n], n)
    BY <1>14
  <1>16. QED
    BY <1>7, <1>15

\* The sums of whole headers: multiples of WordValues - 1, but not 0.
Whole == {s \in Nat : s # 0 /\ \E k \in Nat : s = k * (WordValues - 1)}

\* A checksum is 0 exactly for these.
LEMMA ChecksumOfWhole ==
    ASSUME NEW s \in Nat
    PROVE  WordValues - 1 - Folded(s) = 0 <=> s \in Whole
  <1>1. WordValues \in Nat /\ WordValues >= 64
    BY ManyWords
  <1>2. PICK x : x = Folded(s)
    OBVIOUS
  <1>3. x \in 0 .. WordValues - 1 /\ (x = 0 => s = 0)
    BY <1>2, FoldedFacts DEF IsFolded
  <1>4. PICK j \in Nat : s = x + j * (WordValues - 1)
    BY <1>2, FoldedFacts DEF IsFolded
  <1>5. PICK w \in Nat : w = WordValues - 1 /\ w >= 63
    BY <1>1
  <1>6. ASSUME x = w PROVE s \in Whole
    <2>1. (j + 1) * w = w + j * w /\ j + 1 \in Nat /\ j * w \in Nat
      BY <1>5
    <2>2. s = (j + 1) * w
      BY <1>4, <1>5, <1>6, <2>1
    <2>3. s # 0
      BY <1>5, <2>1, <2>2
    <2>4. QED
      BY <1>5, <2>1, <2>2, <2>3 DEF Whole
  <1>7. ASSUME s \in Whole PROVE x = w
    <2>1. PICK k \in Nat : s = k * w
      BY <1>5, <1>7 DEF Whole
    <2>2. s # 0 /\ x # 0
      BY <1>3, <1>7 DEF Whole
    <2>3. k * w = x + j * w
      BY <1>4, <1>5, <2>1
    <2>4. PICK d \in Int : d = k - j
      OBVIOUS
    <2>5. d * w = x
      <3>1. (k - j) * w = k * w - j * w /\ k * w \in Int /\ j * w \in Int
        BY <1>5
      <3>2. QED
        BY <1>3, <2>3, <2>4, <3>1
    <2>6. x > 0 /\ x <= w
      BY <1>3, <1>5, <2>2
    <2>7. d = 1
      <3>1. CASE d <= 0
        <4>1. d * w <= 0
          BY <1>5, <3>1
        <4>2. QED
          BY <2>5, <2>6, <4>1
      <3>2. CASE d >= 2
        <4>1. d * w >= 2 * w
          BY <1>5, <3>2
        <4>2. QED
          BY <1>5, <2>5, <2>6, <4>1
      <3>3. QED
        BY <3>1, <3>2
    <2>8. QED
      BY <1>5, <2>5, <2>7
  <1>8. WordValues - 1 - Folded(s) = 0 <=> x = w
    BY <1>1, <1>2, <1>3, <1>5
  <1>9. QED
    BY <1>6, <1>7, <1>8

\* A sum and its checksum are together the sum of a whole header.
LEMMA SumWithChecksum ==
    ASSUME NEW s \in Nat
    PROVE  s + (WordValues - 1 - Folded(s)) \in Whole
  <1>1. WordValues \in Nat /\ WordValues >= 64
    BY ManyWords
  <1>2. PICK x : x = Folded(s)
    OBVIOUS
  <1>3. x \in 0 .. WordValues - 1 /\ (x = 0 => s = 0)
    BY <1>2, FoldedFacts DEF IsFolded
  <1>4. PICK j \in Nat : s = x + j * (WordValues - 1)
    BY <1>2, FoldedFacts DEF IsFolded
  <1>5. PICK w \in Nat : w = WordValues - 1 /\ w >= 63
    BY <1>1
  <1>6. (j + 1) * w = w + j * w /\ j + 1 \in Nat /\ j * w \in Nat
    BY <1>5
  <1>7. s + (w - x) = (j + 1) * w
    BY <1>3, <1>4, <1>5, <1>6
  <1>8. (j + 1) * w # 0 /\ (j + 1) * w \in Nat
    BY <1>5, <1>6
  <1>9. s + (w - x) \in Whole
    BY <1>5, <1>6, <1>7, <1>8 DEF Whole
  <1>10. QED
    BY <1>2, <1>5, <1>9

\* No sum between two of these is one.
LEMMA WholeApart ==
    ASSUME NEW s \in Whole, NEW t \in Whole, t < s
    PROVE  s - t >= WordValues - 1
  <1>1. PICK w \in Nat : w = WordValues - 1 /\ w >= 63
    BY ManyWords
  <1>2. PICK j \in Nat : s = j * w
    BY <1>1 DEF Whole
  <1>3. PICK k \in Nat : t = k * w
    BY <1>1 DEF Whole
  <1>4. s - t = (j - k) * w
    BY <1>1, <1>2, <1>3
  <1>5. s \in Nat /\ t \in Nat
    BY DEF Whole
  <1>6. j - k >= 1
    <2>1. CASE j <= k
      <3>1. (j - k) * w <= 0
        BY <1>1, <2>1
      <3>2. QED
        BY <1>4, <1>5, <3>1
    <2>2. QED
      BY <2>1
  <1>7. (j - k) * w >= w
    BY <1>1, <1>6
  <1>8. QED
    BY <1>1, <1>4, <1>5, <1>7

\* So the change of one byte of a whole header leaves none.
LEMMA DamageShows ==
    ASSUME NEW data \in Seq(Byte), NEW i \in 1 .. Len(data), SumOfWords(data) \in Whole,
           NEW other \in Seq(Byte), ButFor(other, data, i), other[i] # data[i]
    PROVE  SumOfWords(other) \in Nat /\ SumOfWords(other) \notin Whole
  <1>1. PICK s, t : s = SumOfWords(data) /\ t = SumOfWords(other)
    OBVIOUS
  <1>2. PICK u, v : u = Word(data, i) /\ v = Word(other, i)
    OBVIOUS
  <1>3. s \in Nat /\ t = s + v - u
    BY <1>1, <1>2, SumChanged
  <1>4. t \in Nat
    <2>1. ButFor(data, other, i) /\ i \in 1 .. Len(other)
      BY DEF ButFor
    <2>2. QED
      BY <1>1, <2>1, SumChanged
  <1>5. PICK b, w : b = ByteValues /\ w = WordValues /\ b \in Nat /\ b >= 8 /\ b * b = w
                    /\ w \in Nat /\ w >= 64
    BY ManyWords
  <1>6. PICK x, y : x = data[i] /\ y = other[i] /\ x \in Byte /\ y \in Byte
    BY ElementOfSeq DEF ButFor
  <1>7. x \in 0 .. b - 1 /\ y \in 0 .. b - 1 /\ x # y
    BY <1>5, <1>6 DEF Byte
  <1>8. v - u # 0 /\ v - u < w - 1 /\ u - v < w - 1
    <2>1. CASE i % 2 = 1
      <3>1. u = x /\ v = y
        BY <1>2, <1>6, <2>1 DEF Word
      <3>2. b < w
        BY <1>5
      <3>3. QED
        BY <1>5, <1>7, <3>1, <3>2
    <2>2. CASE i % 2 # 1
      <3>1. u = x * b /\ v = y * b
        BY <1>2, <1>5, <1>6, <2>2 DEF Word
      <3>2. v - u = (y - x) * b /\ u - v = (x - y) * b
        BY <1>5, <1>7, <3>1
      <3>3. ASSUME NEW d \in Int, d <= b - 1 PROVE d * b < w - 1
        <4>1. d * b <= (b - 1) * b
          BY <1>5, <3>3
        <4>2. (b - 1) * b = w - b
          BY <1>5
        <4>3. QED
          BY <1>5, <4>1, <4>2
      <3>4. (y - x) * b # 0
        BY <1>5, <1>7
      <3>5. y - x \in Int /\ x - y \in Int /\ y - x <= b - 1 /\ x - y <= b - 1
        BY <1>5, <1>7
      <3>6. QED
        BY <3>2, <3>3, <3>4, <3>5
    <2>3. QED
      BY <2>1, <2>2
  <1>9. u \in Nat /\ v \in Nat
    BY <1>2, WordType DEF ButFor
  <1>10. ASSUME t \in Whole PROVE FALSE
    <2>1. s \in Whole
      BY <1>1
    <2>2. CASE t < s
      <3>1. s - t >= w - 1
        BY <1>5, <1>10, <2>1, <2>2, WholeApart
      <3>2. QED
        BY <1>3, <1>4, <1>5, <1>8, <1>9, <3>1
    <2>3. CASE s < t
      <3>1. t - s >= w - 1
        BY <1>5, <1>10, <2>1, <2>3, WholeApart
      <3>2. QED
        BY <1>3, <1>4, <1>5, <1>8, <1>9, <3>1
    <2>4. CASE s = t
      BY <1>3, <1>4, <1>8, <1>9, <2>4
    <2>5. QED
      BY <1>3, <1>4, <2>2, <2>3, <2>4
  <1>11. QED
    BY <1>1, <1>4, <1>10

IsPair(bytes, b, c) == bytes \in Seq(Byte) /\ Len(bytes) = 2 /\ bytes[1] = b /\ bytes[2] = c

\* htons, and a number stored as it is.
LEMMA ShortBytes ==
    ASSUME NEW v \in 0 .. WordValues - 1
    PROVE  \E q, r \in Byte : /\ q * ByteValues + r = v
                              /\ IsPair(Htons(v), q, r) /\ IsPair(Stored(v), r, q)
  <1>1. PICK b, w : b = ByteValues /\ w = WordValues /\ b \in Nat /\ b >= 8 /\ b * b = w
                    /\ w \in Nat
    BY ManyWords
  <1>2. PICK q, r : q = v \div b /\ r = v % b
    OBVIOUS
  <1>3. q \in Nat /\ r \in Nat /\ v = q * b + r /\ r < b
    BY <1>1, <1>2
  <1>4. q < b
    <2>1. CASE q >= b
      <3>1. q * b >= b * b
        BY <1>1, <1>3, <2>1
      <3>2. QED
        BY <1>1, <1>3, <3>1
    <2>2. QED
      BY <1>1, <1>3, <2>1
  <1>5. q \in Byte /\ r \in Byte
    BY <1>1, <1>3, <1>4 DEF Byte
  <1>6. Htons(v) = <<q, r>> /\ Stored(v) = <<r, q>>
    BY <1>1, <1>2 DEF Htons, Stored
  <1>7. QED
    <2>1. \A b1, b2 \in Byte : IsPair(<<b1, b2>>, b1, b2)
      BY DEF IsPair
    <2>2. IsPair(Htons(v), q, r) /\ IsPair(Stored(v), r, q)
      BY <1>5, <1>6, <2>1
    <2>3. q * ByteValues + r = v
      BY <1>1, <1>3
    <2>4. QED
      BY <1>5, <2>2, <2>3

\* htonl, and ntohl of its bytes in some other place.
LEMMA LongBytes ==
    ASSUME NEW v \in 0 .. IpBroadcast
    PROVE  /\ Htonl(v) \in Seq(Byte) /\ Len(Htonl(v)) = 4
           /\ \A b : (\A k \in 1 .. 4 : b[k] = Htonl(v)[k]) => Ntohl(b) = v
  <1>1. PICK w \in Nat : w = WordValues /\ w >= 64
    BY ManyWords
  <1>2. PICK q, r : q = v \div WordValues /\ r = v % WordValues
    OBVIOUS
  <1>3. v \in 0 .. (w * w - 1)
    BY <1>1 DEF IpBroadcast
  <1>4. q \in Nat /\ r \in Nat /\ v = q * w + r /\ r < w
    BY <1>1, <1>2, <1>3
  <1>5. q < w
    <2>1. CASE q >= w
      <3>1. q * w >= w * w
        BY <1>1, <1>4, <2>1
      <3>2. QED
        BY <1>1, <1>3, <1>4, <3>1
    <2>2. QED
      BY <1>1, <1>4, <2>1
  <1>6. q \in 0 .. WordValues - 1 /\ r \in 0 .. WordValues - 1
    BY <1>1, <1>4, <1>5
  <1>7. PICK x : /\ Htons(q) = x /\ x \in Seq(Byte) /\ Len(x) = 2
                 /\ x[1] * ByteValues + x[2] = q
    BY <1>6, ShortBytes DEF IsPair
  <1>8. PICK y : /\ Htons(r) = y /\ y \in Seq(Byte) /\ Len(y) = 2
                 /\ y[1] * ByteValues + y[2] = r
    BY <1>6, ShortBytes DEF IsPair
  <1>9. x[1] * ByteValues + x[2] = q
    BY <1>7
  <1>10. y[1] * ByteValues + y[2] = r
    BY <1>8
  <1>11. Htonl(v) = x \o y
    BY <1>2, <1>7, <1>8 DEF Htonl
  <1>12. /\ x \o y \in Seq(Byte) /\ Len(x \o y) = 4
         /\ (x \o y)[1] = x[1] /\ (x \o y)[2] = x[2]
         /\ (x \o y)[3] = y[1] /\ (x \o y)[4] = y[2]
    <2>1. PICK z : z = x \o y
      OBVIOUS
    <2>2. /\ z \in Seq(Byte) /\ Len(z) = 4
          /\ \A i \in 1 .. 4 : z[i] = IF i <= 2 THEN x[i] ELSE y[i - 2]
      <3>1. /\ x \o y \in Seq(Byte) /\ Len(x \o y) = Len(x) + Len(y)
            /\ \A i \in 1 .. Len(x) + Len(y) :
                  (x \o y)[i] = IF i <= Len(x) THEN x[i] ELSE y[i - Len(x)]
        BY <1>7, <1>8, ConcatProperties
      <3>2. QED
        BY <1>7, <1>8, <2>1, <3>1
    <2>3. QED
      BY <2>1, <2>2
  <1>13. ASSUME NEW b, \A k \in 1 .. 4 : b[k] = Htonl(v)[k] PROVE Ntohl(b) = v
    <2>1. b[1] = x[1] /\ b[2] = x[2] /\ b[3] = y[1] /\ b[4] = y[2]
      BY <1>11, <1>12, <1>13
    <2>2. Ntohl(b) = (b[1] * ByteValues + b[2]) * WordValues + (b[3] * ByteValues + b[4])
      BY DEF Ntohl, Ntohs
    <2>3. Ntohl(b) = q * w + r
      BY <1>1, <1>9, <1>10, <2>1, <2>2
    <2>4. QED
      BY <1>4, <2>3
  <1>14. QED
    BY <1>11, <1>12, <1>13

\* The bytes of the header before the checksum.
Front(id) == <<5, 0>> \o Htons(28) \o Htons(id) \o <<0, 0, 4, Udp>>

\* One sequence of bytes behind another, a name of its own for the provers.
Joint(s, t) == s \o t

IsJoint(z, s, t) ==
    /\ z \in Seq(Byte) /\ Len(z) = Len(s) + Len(t)
    /\ \A i \in 1 .. Len(s) : z[i] = s[i]
    /\ \A i \in 1 .. Len(t) : z[Len(s) + i] = t[i]

LEMMA Joined ==
    ASSUME NEW s \in Seq(Byte), NEW t \in Seq(Byte)
    PROVE  IsJoint(Joint(s, t), s, t)
  <1>1. PICK z : z = s \o t
    OBVIOUS
  <1>2. PICK m, n \in Nat : Len(s) = m /\ Len(t) = n
    BY LenProperties
  <1>3. /\ z \in Seq(Byte) /\ Len(z) = m + n
        /\ \A i \in 1 .. m + n : z[i] = IF i <= m THEN s[i] ELSE t[i - m]
    BY <1>1, <1>2, ConcatProperties
  <1>4. ASSUME NEW i \in 1 .. n PROVE z[m + i] = t[i]
    <2>1. m + i \in 1 .. m + n /\ ~(m + i <= m) /\ (m + i) - m = i
      OBVIOUS
    <2>2. QED
      BY <1>3, <2>1
  <1>5. \A i \in 1 .. m : z[i] = s[i]
    BY <1>3
  <1>6. QED
    BY <1>1, <1>2, <1>3, <1>4, <1>5 DEF Joint, IsJoint

LEMMA FrontBytes ==
    ASSUME NEW id \in 0 .. WordValues - 1
    PROVE  Front(id) \in Seq(Byte) /\ Len(Front(id)) = 10
  <1>1. {0, 1, 4, 5} \subseteq Byte /\ 28 \in 0 .. WordValues - 1
    BY ManyWords DEF Byte
  <1>2. <<5, 0>> \in Seq(Byte) /\ Len(<<5, 0>>) = 2
    BY <1>1
  <1>3. <<0, 0, 4, Udp>> \in Seq(Byte) /\ Len(<<0, 0, 4, Udp>>) = 4
    BY <1>1 DEF Udp
  <1>4. ASSUME NEW v \in 0 .. WordValues - 1 PROVE Htons(v) \in Seq(Byte) /\ Len(Htons(v)) = 2
    BY ShortBytes DEF IsPair
  <1>5. PICK a, b, x, y : a = <<5, 0>> /\ b = <<0, 0, 4, Udp>> /\ x = Htons(28) /\ y = Htons(id)
    OBVIOUS
  <1>6. /\ a \in Seq(Byte) /\ Len(a) = 2 /\ b \in Seq(Byte) /\ Len(b) = 4
        /\ x \in Seq(Byte) /\ Len(x) = 2 /\ y \in Seq(Byte) /\ Len(y) = 2
    BY <1>1, <1>2, <1>3, <1>4, <1>5
  <1>7. PICK u : u = Joint(a, x)
    OBVIOUS
  <1>8. u \in Seq(Byte) /\ Len(u) = 4
    <2>1. IsJoint(u, a, x)
      BY <1>6, <1>7, Joined
    <2>2. QED
      BY <1>6, <2>1 DEF IsJoint
  <1>9. PICK v : v = Joint(u, y)
    OBVIOUS
  <1>10. v \in Seq(Byte) /\ Len(v) = 6
    <2>1. IsJoint(v, u, y)
      BY <1>6, <1>8, <1>9, Joined
    <2>2. QED
      BY <1>6, <1>8, <2>1 DEF IsJoint
  <1>11. Joint(v, b) \in Seq(Byte) /\ Len(Joint(v, b)) = 10
    <2>1. IsJoint(Joint(v, b), v, b)
      BY <1>6, <1>10, Joined
    <2>2. QED
      BY <1>6, <1>10, <2>1 DEF IsJoint
  <1>12. Front(id) = Joint(v, b)
    BY <1>5, <1>7, <1>9 DEF Front, Joint
  <1>13. QED
    BY <1>11, <1>12

\* Where the parts of a header are.
LEMMA HeaderBytes ==
    ASSUME NEW id \in 0 .. WordValues - 1, NEW dest \in 0 .. IpBroadcast,
           NEW b, NEW c, NEW checksum, IsPair(checksum, b, c)
    PROVE  LET h == Header(28, id, dest, checksum)
           IN  /\ h \in Seq(Byte) /\ Len(h) = 20
               /\ \A i \in 1 .. 10 : h[i] = Front(id)[i]
               /\ h[11] = b /\ h[12] = c
               /\ \A i \in 1 .. 4 : h[12 + i] = Htonl(SourceAddress)[i]
               /\ \A i \in 1 .. 4 : h[16 + i] = Htonl(dest)[i]
  <1>1. PICK f, s, d : f = Front(id) /\ s = Htonl(SourceAddress) /\ d = Htonl(dest)
    OBVIOUS
  <1>2. SourceAddress \in 0 .. IpBroadcast
    BY DatagramsAssumption
  <1>3. /\ f \in Seq(Byte) /\ Len(f) = 10 /\ s \in Seq(Byte) /\ Len(s) = 4
        /\ d \in Seq(Byte) /\ Len(d) = 4
    BY <1>1, <1>2, FrontBytes, LongBytes
  <1>4. PICK u, v, h : u = Joint(f, checksum) /\ v = Joint(u, s) /\ h = Joint(v, d)
    OBVIOUS
  <1>5. checksum \in Seq(Byte) /\ Len(checksum) = 2 /\ checksum[1] = b /\ checksum[2] = c
    BY DEF IsPair
  <1>6. /\ u \in Seq(Byte) /\ Len(u) = 12
        /\ \A i \in 1 .. 10 : u[i] = f[i]
        /\ \A i \in 1 .. 2 : u[10 + i] = checksum[i]
    <2>1. IsJoint(u, f, checksum)
      BY <1>3, <1>4, <1>5, Joined
    <2>2. QED
      BY <1>3, <1>5, <2>1 DEF IsJoint
  <1>7. /\ v \in Seq(Byte) /\ Len(v) = 16
        /\ \A i \in 1 .. 12 : v[i] = u[i]
        /\ \A i \in 1 .. 4 : v[12 + i] = s[i]
    <2>1. IsJoint(v, u, s)
      BY <1>3, <1>4, <1>6, Joined
    <2>2. QED
      BY <1>3, <1>6, <2>1 DEF IsJoint
  <1>8. /\ h \in Seq(Byte) /\ Len(h) = 20
        /\ \A i \in 1 .. 16 : h[i] = v[i]
        /\ \A i \in 1 .. 4 : h[16 + i] = d[i]
    <2>1. IsJoint(h, v, d)
      BY <1>3, <1>4, <1>7, Joined
    <2>2. QED
      BY <1>3, <1>7, <2>1 DEF IsJoint
  <1>9. Header(28, id, dest, checksum) = h
    <2>1. Header(28, id, dest, checksum)
              = ((Front(id) \o checksum) \o Htonl(SourceAddress)) \o Htonl(dest)
      BY Zenon DEF Header, Front
    <2>2. QED
      BY <1>1, <1>4, <2>1, Zenon DEF Joint
  <1>10. ASSUME NEW i \in 1 .. 10 PROVE h[i] = f[i]
    <2>1. i \in 1 .. 12 /\ i \in 1 .. 16
      OBVIOUS
    <2>2. u[i] = f[i]
      BY <1>6
    <2>3. v[i] = u[i]
      BY <1>7, <2>1
    <2>4. h[i] = v[i]
      BY <1>8, <2>1
    <2>5. QED
      BY <2>2, <2>3, <2>4
  <1>11. h[11] = b /\ h[12] = c
    BY <1>5, <1>6, <1>7, <1>8
  <1>12. ASSUME NEW i \in 1 .. 4 PROVE h[12 + i] = s[i]
    <2>1. 12 + i \in 1 .. 16
      OBVIOUS
    <2>2. h[12 + i] = v[12 + i]
      BY <1>8, <2>1
    <2>3. QED
      BY <1>7, <2>2
  <1>13. /\ h \in Seq(Byte) /\ Len(h) = 20
         /\ \A i \in 1 .. 10 : h[i] = Front(id)[i]
         /\ h[11] = b /\ h[12] = c
         /\ \A i \in 1 .. 4 : h[12 + i] = Htonl(SourceAddress)[i]
         /\ \A i \in 1 .. 4 : h[16 + i] = Htonl(dest)[i]
    BY <1>1, <1>8, <1>10, <1>11, <1>12
  <1>14. QED
    BY <1>9, <1>13

\* Headers of one datagram differ in the checksum only.
LEMMA SameButChecksum ==
    ASSUME NEW id \in 0 .. WordValues - 1, NEW dest \in 0 .. IpBroadcast,
           NEW b, NEW c, NEW x, IsPair(x, b, c), NEW d, NEW e, NEW y, IsPair(y, d, e)
    PROVE  \A i \in 1 .. 20 : i \notin {11, 12} =>
               Header(28, id, dest, x)[i] = Header(28, id, dest, y)[i]
  <1>1. PICK h, g : h = Header(28, id, dest, x) /\ g = Header(28, id, dest, y)
    OBVIOUS
  <1>2. /\ \A i \in 1 .. 10 : h[i] = Front(id)[i]
        /\ \A i \in 1 .. 4 : h[12 + i] = Htonl(SourceAddress)[i]
        /\ \A i \in 1 .. 4 : h[16 + i] = Htonl(dest)[i]
    BY <1>1, HeaderBytes
  <1>3. /\ \A i \in 1 .. 10 : g[i] = Front(id)[i]
        /\ \A i \in 1 .. 4 : g[12 + i] = Htonl(SourceAddress)[i]
        /\ \A i \in 1 .. 4 : g[16 + i] = Htonl(dest)[i]
    BY <1>1, HeaderBytes
  <1>4. ASSUME NEW i \in 1 .. 20, i \notin {11, 12} PROVE h[i] = g[i]
    <2>1. CASE i \in 1 .. 10
      BY <1>2, <1>3, <2>1
    <2>2. CASE i - 12 \in 1 .. 4
      <3>1. 12 + (i - 12) = i
        OBVIOUS
      <3>2. QED
        BY <1>2, <1>3, <2>2, <3>1
    <2>3. CASE i - 16 \in 1 .. 4
      <3>1. 16 + (i - 16) = i
        OBVIOUS
      <3>2. QED
        BY <1>2, <1>3, <2>3, <3>1
    <2>4. QED
      BY <1>4, <2>1, <2>2, <2>3
  <1>5. QED
    BY <1>1, <1>4

\* What send_ip_packet makes for dest.
SentTo(h, dest) ==
    /\ dest \in 0 .. IpBroadcast
    /\ \E id \in 0 .. WordValues - 1 :
          h = Header(28, id, dest,
                     Stored(CalculateChecksum(Header(28, id, dest, <<0, 0>>))))

\* It has the checksum it should have, and the address of dest.
LEMMA SentIsWhole ==
    ASSUME NEW h, NEW dest, SentTo(h, dest)
    PROVE  /\ h \in Seq(Byte) /\ Len(h) = 20 /\ SumOfWords(h) \in Whole
           /\ Ntohl(SubSeq(h, 17, 20)) = dest
  <1>1. PICK b, w : b = ByteValues /\ w = WordValues /\ b \in Nat /\ b >= 8 /\ w \in Nat
                    /\ w >= 64
    BY ManyWords
  <1>2. PICK id \in 0 .. WordValues - 1 :
            h = Header(28, id, dest,
                       Stored(CalculateChecksum(Header(28, id, dest, <<0, 0>>))))
    BY DEF SentTo
  <1>3. dest \in 0 .. IpBroadcast
    BY DEF SentTo
  <1>4. 0 \in Byte /\ IsPair(<<0, 0>>, 0, 0)
    BY <1>1 DEF IsPair, Byte
  <1>5. PICK blank : blank = Header(28, id, dest, <<0, 0>>)
    OBVIOUS
  <1>6. /\ blank \in Seq(Byte) /\ Len(blank) = 20 /\ blank[11] = 0 /\ blank[12] = 0
    BY <1>3, <1>4, <1>5, HeaderBytes
  <1>7. PICK s : s = SumOfWords(blank)
    OBVIOUS
  <1>8. s \in Nat
    BY <1>6, <1>7, SumChanged DEF ButFor
  <1>9. PICK sum : sum = CalculateChecksum(blank)
    OBVIOUS
  <1>10. sum = w - 1 - Folded(s)
    BY <1>1, <1>7, <1>9 DEF CalculateChecksum
  <1>11. sum \in 0 .. WordValues - 1
    <2>1. Folded(s) \in 0 .. WordValues - 1
      BY <1>8, FoldedFacts DEF IsFolded
    <2>2. QED
      BY <1>1, <1>10, <2>1
  <1>12. PICK q, r \in Byte : q * ByteValues + r = sum /\ IsPair(Stored(sum), r, q)
    BY <1>11, ShortBytes
  <1>13. IsPair(<<r, 0>>, r, 0)
    BY <1>4 DEF IsPair
  <1>14. PICK mid : mid = Header(28, id, dest, <<r, 0>>)
    OBVIOUS
  <1>15. /\ mid \in Seq(Byte) /\ Len(mid) = 20 /\ mid[11] = r /\ mid[12] = 0
    BY <1>3, <1>13, <1>14, HeaderBytes
  <1>16. h = Header(28, id, dest, Stored(sum))
    BY <1>2, <1>5, <1>9
  <1>17. /\ h \in Seq(Byte) /\ Len(h) = 20 /\ h[11] = r /\ h[12] = q
         /\ \A i \in 1 .. 4 : h[16 + i] = Htonl(dest)[i]
    BY <1>3, <1>12, <1>16, HeaderBytes
  <1>18. \A i \in 1 .. 20 : i \notin {11, 12} => mid[i] = blank[i]
    BY <1>3, <1>4, <1>5, <1>13, <1>14, SameButChecksum
  <1>19. \A i \in 1 .. 20 : i \notin {11, 12} => h[i] = mid[i]
    BY <1>3, <1>12, <1>13, <1>14, <1>16, SameButChecksum
  <1>20. ButFor(mid, blank, 11)
    <2>1. \A i \in 1 .. 20 : i # 11 => mid[i] = blank[i]
      BY <1>6, <1>15, <1>18
    <2>2. QED
      BY <1>6, <1>15, <2>1 DEF ButFor
  <1>21. ButFor(h, mid, 12)
    <2>1. \A i \in 1 .. 20 : i # 12 => h[i] = mid[i]
      BY <1>15, <1>17, <1>19
    <2>2. QED
      BY <1>15, <1>17, <2>1 DEF ButFor
  <1>22. SumOfWords(mid) = s + r
    <2>1. 11 \in 1 .. Len(blank)
      BY <1>6
    <2>2. SumOfWords(mid) = SumOfWords(blank) + Word(mid, 11) - Word(blank, 11)
      BY <1>6, <1>15, <1>20, <2>1, SumChanged
    <2>3. Word(mid, 11) = r /\ Word(blank, 11) = 0
      BY <1>6, <1>15 DEF Word
    <2>4. QED
      BY <1>1, <1>7, <1>8, <2>2, <2>3 DEF Byte
  <1>23. SumOfWords(h) = s + r + q * ByteValues
    <2>1. 12 \in 1 .. Len(mid)
      BY <1>15
    <2>2. SumOfWords(h) = SumOfWords(mid) + Word(h, 12) - Word(mid, 12)
      BY <1>15, <1>17, <1>21, <2>1, SumChanged
    <2>3. Word(h, 12) = q * ByteValues /\ Word(mid, 12) = 0
      BY <1>1, <1>15, <1>17 DEF Word
    <2>4. q * ByteValues \in Nat /\ r \in Nat
      BY <1>1 DEF Byte
    <2>5. QED
      BY <1>8, <1>22, <2>2, <2>3, <2>4
  <1>24. SumOfWords(h) = s + (WordValues - 1 - Folded(s))
    <2>1. q * ByteValues \in Nat /\ r \in Nat
      BY <1>1 DEF Byte
    <2>2. QED
      BY <1>1, <1>8, <1>10, <1>12, <1>23, <2>1
  <1>25. SumOfWords(h) \in Whole
    BY <1>8, <1>24, SumWithChecksum
  <1>26. PICK part : part = SubSeq(h, 17, 20)
    OBVIOUS
  <1>27. \A k \in 1 .. 4 : part[k] = Htonl(dest)[k]
    <2>1. ASSUME NEW i \in 17 .. 20 PROVE h[i] \in Byte
      <3>1. i \in 1 .. Len(h)
        BY <1>17
      <3>2. QED
        BY <1>17, <3>1, ElementOfSeq
    <2>2. \A k \in 1 .. 4 : part[k] = h[17 + k - 1]
      BY <1>26, <2>1, SubSeqProperties
    <2>3. ASSUME NEW k \in 1 .. 4 PROVE part[k] = Htonl(dest)[k]
      <3>1. 17 + k - 1 = 16 + k
        OBVIOUS
      <3>2. QED
        BY <1>17, <2>2, <3>1
    <2>4. QED
      BY <2>3
  <1>28. Ntohl(part) = dest
    BY <1>3, <1>27, LongBytes
  <1>29. QED
    BY <1>17, <1>25, <1>26, <1>28

-----------------------------------------------------------------------------
Packets == [header : Seq(Byte), destPort : Seq(Byte), sent : Seq(Byte),
            to : 0 .. IpBroadcast, damaged : BOOLEAN]

\* One byte of a header is not what it was.
OneByteOff(other, data) ==
    \E i \in 1 .. Len(data) : ButFor(other, data, i) /\ other[i] # data[i]

\* A datagram has the header that was sent for its address, but for one byte at most.
PacketFits(p) ==
    /\ p \in Packets
    /\ SentTo(p.sent, p.to)
    /\ ~p.damaged => p.header = p.sent
    /\ p.header = p.sent \/ OneByteOff(p.header, p.sent)

\* That is where the checksum tells it.
LEMMA ChecksumTells ==
    ASSUME NEW p, PacketFits(p)
    PROVE  /\ ChecksumHolds(p) <=> p.header = p.sent
           /\ p.header = p.sent => DestAddress(p) = p.to
  <1>1. PICK h, g, d : h = p.header /\ g = p.sent /\ d = p.to
    OBVIOUS
  <1>2. /\ h \in Seq(Byte) /\ g \in Seq(Byte) /\ SentTo(g, d)
        /\ h = g \/ OneByteOff(h, g)
    BY <1>1 DEF PacketFits, Packets
  <1>3. SumOfWords(g) \in Whole /\ Ntohl(SubSeq(g, 17, 20)) = d
    BY <1>2, SentIsWhole
  <1>4. SumOfWords(g) \in Nat
    BY <1>3 DEF Whole
  <1>5. CASE h = g
    <2>1. CalculateChecksum(h) = 0
      BY <1>3, <1>4, <1>5, ChecksumOfWhole DEF CalculateChecksum
    <2>2. QED
      BY <1>1, <1>3, <1>5, <2>1 DEF ChecksumHolds, DestAddress
  <1>6. CASE h # g
    <2>1. PICK i \in 1 .. Len(g) : ButFor(h, g, i) /\ h[i] # g[i]
      BY <1>2, <1>6 DEF OneByteOff
    <2>2. SumOfWords(h) \in Nat /\ SumOfWords(h) \notin Whole
      BY <1>2, <1>3, <2>1, DamageShows
    <2>3. CalculateChecksum(h) # 0
      BY <2>2, ChecksumOfWhole DEF CalculateChecksum
    <2>4. QED
      BY <1>1, <1>6, <2>3 DEF ChecksumHolds
  <1>7. QED
    BY <1>5, <1>6

OurAddresses == LocalAddresses \cup {IpBroadcast}

\* The inductive invariant: every datagram fits, and what got past the checksum is whole
\* and went where it was sent.
DatagramsInv ==
    /\ idCounter \in 0 .. WordValues - 1
    /\ \A p \in wire : PacketFits(p)
    /\ \A p \in received : p.header = p.sent /\ p.to \in OurAddresses
    /\ \A p \in forwarded : p.header = p.sent /\ p.to \notin OurAddresses

\* What send_ip_packet sends fits.
LEMMA SentFits ==
    ASSUME NEW dest \in Destinations, NEW port \in SentPorts, DatagramsInv,
           SendIpPacket(dest, port), NEW p \in wire'
    PROVE  PacketFits(p)
  <1>1. PICK h : h = Header(28, idCounter, dest,
                        Stored(CalculateChecksum(Header(28, idCounter, dest, <<0, 0>>))))
    OBVIOUS
  <1>2. PICK q : q = [header |-> h, destPort |-> Htons(port), sent |-> h, to |-> dest,
                      damaged |-> FALSE]
    OBVIOUS
  <1>3. wire' = wire \cup {q}
    BY <1>1, <1>2 DEF SendIpPacket
  <1>4. dest \in 0 .. IpBroadcast /\ port \in 0 .. WordValues - 1
    BY DatagramsAssumption
  <1>5. idCounter \in 0 .. WordValues - 1
    BY DEF DatagramsInv
  <1>6. SentTo(h, dest)
    BY <1>1, <1>4, <1>5 DEF SentTo
  <1>7. h \in Seq(Byte)
    BY <1>6, SentIsWhole
  <1>8. Htons(port) \in Seq(Byte)
    BY <1>4, ShortBytes DEF IsPair
  <1>9. PacketFits(q)
    BY <1>2, <1>4, <1>6, <1>7, <1>8 DEF PacketFits, Packets
  <1>10. QED
    BY <1>3, <1>9 DEF DatagramsInv

\* A byte in place i of the data.
LEMMA ByteChanged ==
    ASSUME NEW data \in Seq(Byte), NEW i \in DOMAIN data, NEW b \in Byte
    PROVE  /\ [data EXCEPT ![i] = b] \in Seq(Byte)
           /\ b # data[i] => OneByteOff([data EXCEPT ![i] = b], data)
  <1>1. PICK n \in Nat : n = Len(data) /\ DOMAIN data = 1 .. n /\ data \in [1 .. n -> Byte]
    BY LenProperties
  <1>2. PICK z : z = [data EXCEPT ![i] = b]
    OBVIOUS
  <1>3. z \in [1 .. n -> Byte] /\ z[i] = b /\ \A k \in 1 .. n : k # i => z[k] = data[k]
    BY <1>1, <1>2
  <1>4. z \in Seq(Byte)
    BY <1>1, <1>3, SeqDef
  <1>5. Len(z) = n
    BY <1>1, <1>3, <1>4, LenProperties
  <1>6. ButFor(z, data, i)
    BY <1>1, <1>3, <1>5 DEF ButFor
  <1>7. i \in 1 .. Len(data)
    BY <1>1
  <1>8. b # data[i] => OneByteOff(z, data)
    BY <1>3, <1>6, <1>7 DEF OneByteOff
  <1>9. QED
    BY <1>2, <1>4, <1>8

\* A datagram that the network changes one byte of fits.
LEMMA DamagedFits ==
    ASSUME NEW p \in wire, DatagramsInv, Damage(p), NEW q \in wire'
    PROVE  PacketFits(q)
  <1>1. PacketFits(p) /\ ~p.damaged /\ \A x \in wire : PacketFits(x)
    BY DEF DatagramsInv, Damage
  <1>2. p \in Packets /\ p.header = p.sent
    BY <1>1 DEF PacketFits
  <1>3. p.header \in Seq(Byte) /\ p.destPort \in Seq(Byte)
    BY <1>2 DEF Packets
  <1>4. ASSUME NEW b \in Byte, NEW i \in DOMAIN p.header, b # p.header[i],
               q = [p EXCEPT !.header[i] = b, !.damaged = TRUE]
        PROVE  PacketFits(q)
    <2>1. PICK z : z = [p.header EXCEPT ![i] = b]
      OBVIOUS
    <2>2. z \in Seq(Byte) /\ OneByteOff(z, p.header)
      BY <1>3, <1>4, <2>1, ByteChanged
    <2>3. q = [p EXCEPT !.header = z, !.damaged = TRUE]
      BY <1>4, <2>1
    <2>4. /\ q \in Packets /\ q.header = z /\ q.sent = p.sent /\ q.to = p.to
          /\ q.damaged = TRUE
      BY <1>2, <2>2, <2>3 DEF Packets
    <2>5. QED
      BY <1>1, <1>2, <2>2, <2>4 DEF PacketFits
  <1>5. ASSUME NEW b \in Byte, NEW i \in DOMAIN p.destPort,
               q = [p EXCEPT !.destPort[i] = b, !.damaged = TRUE]
        PROVE  PacketFits(q)
    <2>1. PICK z : z = [p.destPort EXCEPT ![i] = b]
      OBVIOUS
    <2>2. z \in Seq(Byte)
      BY <1>3, <2>1, ByteChanged
    <2>3. q = [p EXCEPT !.destPort = z, !.damaged = TRUE]
      BY <1>5, <2>1
    <2>4. /\ q \in Packets /\ q.header = p.header /\ q.sent = p.sent /\ q.to = p.to
          /\ q.damaged = TRUE
      BY <1>2, <2>2, <2>3 DEF Packets
    <2>5. QED
      BY <1>1, <1>2, <2>4 DEF PacketFits
  <1>6. QED
    BY <1>1, <1>4, <1>5 DEF Damage

LEMMA DatagramsStep ==
    ASSUME DatagramsInv, [DatagramsNext]_datagramVars
    PROVE  DatagramsInv'
  <1>1. ASSUME NEW dest \in Destinations, NEW port \in SentPorts, UdpSend(dest, port)
        PROVE  DatagramsInv'
    <2>1. SendIpPacket(dest, port) /\ UNCHANGED <<received, forwarded>>
      BY <1>1 DEF UdpSend
    <2>2. \A p \in wire' : PacketFits(p)
      BY <2>1, SentFits
    <2>3. idCounter' \in 0 .. WordValues - 1
      <3>1. PICK w, c \in Nat : w = WordValues /\ w >= 64 /\ c = idCounter
        BY ManyWords DEF DatagramsInv
      <3>2. (c + 1) % w \in 0 .. w - 1
        BY <3>1
      <3>3. QED
        BY <1>1, <3>1, <3>2 DEF UdpSend
    <2>4. QED
      BY <2>1, <2>2, <2>3 DEF DatagramsInv
  <1>2. ASSUME NEW p \in wire, Damage(p) PROVE DatagramsInv'
    <2>1. \A q \in wire' : PacketFits(q)
      BY <1>2, DamagedFits
    <2>2. UNCHANGED <<idCounter, received, forwarded>>
      BY <1>2 DEF Damage
    <2>3. QED
      BY <2>1, <2>2 DEF DatagramsInv
  <1>3. ASSUME NEW p \in wire, HandleIpPacket(p) PROVE DatagramsInv'
    <2>1. ChecksumHolds(p) /\ UNCHANGED <<idCounter, wire>>
      BY <1>3 DEF HandleIpPacket
    <2>2. PacketFits(p)
      BY DEF DatagramsInv
    <2>3. p.header = p.sent /\ DestAddress(p) = p.to
      BY <2>1, <2>2, ChecksumTells
    <2>4. IsForUs(p) <=> p.to \in OurAddresses
      BY <2>3 DEF IsForUs, OurAddresses
    <2>5. CASE Forward(p)
      BY <2>1, <2>3, <2>4, <2>5 DEF DatagramsInv, Forward
    <2>6. CASE HandleUdpPacket(p)
      BY <2>1, <2>3, <2>4, <2>6 DEF DatagramsInv, HandleUdpPacket
    <2>7. QED
      BY <1>3, <2>5, <2>6 DEF HandleIpPacket
  <1>4. ASSUME UNCHANGED datagramVars PROVE DatagramsInv'
    BY <1>4 DEF DatagramsInv, datagramVars
  <1>5. QED
    BY <1>1, <1>2, <1>3, <1>4 DEF DatagramsNext

\* A datagram gets past handle_ip_packet's checksum exactly when its header is the one
\* that send_ip_packet sent: what is delivered was sent to an address of this host and
\* what is forwarded to another, with bytes of any size, for any addresses, ids and number
\* of datagrams, lost, repeated, reordered and damaged in one byte.
THEOREM HeadersWhole == DatagramsSpec => []HeadersArriveWhole
  <1>1. DatagramsInit => DatagramsInv
    BY DatagramsAssumption DEF DatagramsInit, DatagramsInv
  <1>2. DatagramsInv /\ [DatagramsNext]_datagramVars => DatagramsInv'
    BY DatagramsStep
  <1>3. DatagramsInv => HeadersArriveWhole
    BY ChecksumTells DEF DatagramsInv, HeadersArriveWhole, OurAddresses
  <1>4. QED
    BY <1>1, <1>2, <1>3, PTL DEF DatagramsSpec
=============================================================================
