----------------------------- MODULE MCNetwork -----------------------------
(***************************************************************************)
(* Instances of Sockets and Datagrams for TLC; one of them runs in a       *)
(* behaviour.  Sockets has a client and a server.  One connection is       *)
(* explored with data both ways and both kinds of FIN; two connections,    *)
(* the second from a socket slot used before, without data and with one    *)
(* kind.                                                                   *)
(***************************************************************************)
EXTENDS Sockets, Datagrams, TLC

CONSTANTS A, B

VARIABLE part   \* the component that runs

MCHosts == {A, B}
\* The server has a listening and an accepted socket; the client uses one slot again.
MCSockets == A :> 2 @@ B :> 1
MCData == A :> 1 @@ B :> 1
MCFinFlags == {{"FIN"}, {"FIN", "ACK"}}

Explored ==
    \/ \A h \in Clients : portCounter[h] <= FirstPort + 1
    \/ \A p \in network : p.len = 0 /\ p.flags # {"FIN"}

MCInit ==
    /\ part \in {"sockets", "datagrams"}
    /\ NetworkInit /\ DatagramsInit
    /\ part # "datagrams" => idCounter = 0 /\ ~ipForwarding

MCNext ==
    /\ UNCHANGED part
    /\ \/ part = "sockets" /\ NetworkNext /\ Explored' /\ UNCHANGED datagramVars
       \/ part = "datagrams" /\ DatagramsNext /\ UNCHANGED networkVars

MCSpec == MCInit /\ [][MCNext]_<<networkVars, datagramVars, part>>
=============================================================================
