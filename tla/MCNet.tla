------------------------------- MODULE MCNet -------------------------------
(* Instances of Net for TLC: one or two sockets of each kind, sequence     *)
(* numbers that wrap, and an inactivity limit the poll reaches.            *)
EXTENDS Net

\* What later steps and the properties look at. The fields of a closed socket
\* are written when it opens, and what the guest knows of a connection begins
\* anew with the SYN_ACK when no socket of it is open.
Live == {c \in Conns : OpenFor(tcp, c) # {} \/ (rx.kind = "tcp" /\ rx.conn = c)}
OpenTcp == {s \in Socks : tcp[s].open}
OpenUdp == {s \in Socks : udp[s].open}

StateView ==
    <<at, rx, errno, [s \in OpenTcp |-> tcp[s]], [s \in OpenUdp |-> udp[s]],
      shut \cap OpenTcp, heard \cap OpenTcp,
      [c \in Live |-> expected[c]], ended \cap Live, repeated \cap Live>>
=============================================================================
