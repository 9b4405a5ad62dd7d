-------------------------------- MODULE Net --------------------------------
(***************************************************************************)
(* The emulated network (net.c) between the card and the host's sockets:   *)
(* a table of TCP and a table of UDP sockets, the periodic poll of both    *)
(* (net_execute), the handling of frames the guest sends (net_tx_frame),   *)
(* and the one frame buffer towards the card, rx_frame with rx_ready, that *)
(* everything shares and dp8390_execute empties.                           *)
(*                                                                         *)
(* The host's answers (connect, send, recv) are inputs. What the guest's   *)
(* TCP knows is kept by connection, as it does: the port pair and address  *)
(* are all that a segment tells it, not the socket behind.                 *)
(***************************************************************************)
EXTENDS Integers, FiniteSets

CONSTANTS
    MaxSockets,     \* NET_SOCKETS_MAX
    Conns,          \* TCP connections: port pair and address
    Flows,          \* UDP flows: source port and address
    SeqModulus,     \* 2^32
    SeqStride,      \* 0x1000000, from the start number of a socket to the next
    Payloads,       \* lengths of received data
    Timeout,        \* NET_SOCKET_INACTIVITY_TIMEOUT
    AckWait         \* NET_SOCKET_ACK_WAIT

ASSUME NetAssumption ==
    /\ MaxSockets \in Nat \ {0}
    /\ SeqModulus \in Nat /\ SeqModulus >= 2 /\ SeqStride \in Nat
    /\ Payloads \subseteq 1 .. SeqModulus - 1
    /\ Timeout \in Nat /\ AckWait \in Nat

Socks == 0 .. MaxSockets - 1

Flags == {"ACK", "RST", "PSH_ACK", "FIN_ACK", "RST_ACK", "OTHER"}

NoFrame == [kind |-> "none"]
OtherFrame == [kind |-> "other"]      \* ARP, ICMP, DHCP, EtherDFS, UDP

TcpFrame == [kind : {"tcp"}, conn : Conns, seq : 0 .. SeqModulus - 1,
             flags : {"SYN_ACK", "ACK", "PSH_ACK", "FIN_ACK", "RST_ACK"},
             len : 0 .. SeqModulus - 1]

VARIABLES
    at,             \* guest code, delivery, or the socket the poll looks at
    rx,             \* the frame buffer; NoFrame while rx_ready is false
    tcp, udp,       \* the socket tables
    shut,           \* TCP sockets whose remote end has closed
    errno,          \* "EAGAIN" or anything else
    expected,       \* sequence number the guest expects next on a connection
    ended,          \* connections on which the guest has received the FIN
    repeated,       \* connections opened again while a socket of theirs was open
    heard           \* TCP sockets the guest used while their time was counted

vars == <<at, rx, tcp, udp, shut, errno, expected, ended, repeated, heard>>

Guest == <<"guest", 0>>
Deliver == <<"deliver", 0>>
Udp(i) == <<"udp", i>>
Tcp(i) == <<"tcp", i>>

TcpSocket == [open : BOOLEAN, conn : Conns, timeout : Nat, fin : BOOLEAN,
              ack_wait : 0 .. AckWait, seq : 0 .. SeqModulus - 1]
UdpSocket == [open : BOOLEAN, conn : Flows, timeout : Nat]

TypeOK ==
    /\ at \in {Guest, Deliver} \cup ({"udp", "tcp"} \X Socks)
    /\ rx \in {NoFrame, OtherFrame} \cup TcpFrame
    /\ tcp \in [Socks -> TcpSocket] /\ udp \in [Socks -> UdpSocket]
    /\ shut \in SUBSET Socks /\ heard \in SUBSET Socks
    /\ ended \in SUBSET Conns /\ repeated \in SUBSET Conns
    /\ errno \in {"EAGAIN", "OTHER"}
    /\ expected \in [Conns -> 0 .. SeqModulus - 1]

\* The number a socket starts with.
Start(s) == (s * SeqStride) % SeqModulus

\* net_init. The other fields of a closed socket are written when it opens.
Init ==
    /\ at = Guest
    /\ rx = NoFrame
    /\ \E c \in Conns, f \in Flows :
          /\ tcp = [s \in Socks |-> [open |-> FALSE, conn |-> c, timeout |-> 0,
                                     fin |-> FALSE, ack_wait |-> 0, seq |-> Start(s)]]
          /\ udp = [s \in Socks |-> [open |-> FALSE, conn |-> f, timeout |-> 0]]
    /\ shut = {} /\ ended = {} /\ repeated = {} /\ heard = {}
    /\ errno = "OTHER"
    /\ expected = [c \in Conns |-> 0]
-----------------------------------------------------------------------------
OpenFor(table, c) == {s \in Socks : table[s].open /\ table[s].conn = c}
Free(table) == {s \in Socks : ~table[s].open}

\* The lookup loops run upwards and take the first index that fits.
First(S) == CHOOSE s \in S : \A t \in S : s <= t

\* net_tcp_reply fills the header with the socket's next sequence number.
Reply(s, flags, len) ==
    [kind |-> "tcp", conn |-> tcp[s].conn, seq |-> tcp[s].seq, flags |-> flags, len |-> len]

SeqAfter(q, n) == (q + n) % SeqModulus

\* net_tcp_close with a farewell frame, or without one.
net_tcp_close(s) == tcp' = [tcp EXCEPT ![s].open = FALSE, ![s].seq = Start(s)]
-----------------------------------------------------------------------------
(* Frames from the guest: net_tx_frame. dp8390 delivers the reply at once. *)

\* A SYN takes the first free socket and connects; the host may refuse, and
\* with no socket left the program only panics. An open socket of the same
\* connection is not looked for, so the connection then has two.
tcp_syn(c) ==
    /\ at = Guest /\ at' = Deliver
    /\ \/ /\ Free(tcp) # {}
          /\ LET s == First(Free(tcp))
             IN /\ tcp' = [tcp EXCEPT ![s] =
                             [open |-> TRUE, conn |-> c, timeout |-> 0, fin |-> FALSE,
                              ack_wait |-> 0, seq |-> SeqAfter(tcp[s].seq, 1)]]
                /\ rx' = [Reply(s, "SYN_ACK", 0) EXCEPT !.conn = c]
                /\ shut' = shut \ {s} /\ heard' = heard \ {s}
          /\ repeated' = IF OpenFor(tcp, c) # {} THEN repeated \cup {c}
                          ELSE repeated \ {c}
          /\ UNCHANGED errno
       \/ /\ UNCHANGED <<tcp, rx, shut, repeated, heard>>       \* refused, or no socket
          /\ errno' \in {errno, "OTHER"}
    /\ UNCHANGED <<udp, expected, ended>>

\* What the host's send() may answer: only PSH_ACK calls it.
SendResults(flags) == IF flags = "PSH_ACK" THEN {TRUE, FALSE} ELSE {TRUE}

\* errno after it: the sockets do not block, so EAGAIN is a way to fail.
ErrnoAfter(sent) == IF sent THEN {errno} ELSE {"EAGAIN", "OTHER"}

\* The farewell of a segment that closes the connection.
Farewell(s, flags) ==
    IF flags = "RST_ACK" \/ (flags = "FIN_ACK" /\ tcp[s].fin) THEN "ACK"
    ELSE "RST_ACK"

\* Any other segment belongs to the first open socket of its connection, or
\* is ignored. The count it resets is that of the UDP socket with its index.
tcp_segment(c, flags) ==
    /\ at = Guest /\ at' = Deliver
    /\ IF OpenFor(tcp, c) = {} THEN UNCHANGED <<tcp, udp, rx, errno, heard>>
       ELSE LET s == First(OpenFor(tcp, c))
            IN /\ udp' = [udp EXCEPT ![s].timeout = 0]
               /\ \E sent \in SendResults(flags) :
                     /\ errno' \in ErrnoAfter(sent)
                     /\ \/ /\ flags = "RST" /\ UNCHANGED <<tcp, rx>>
                        \/ /\ flags = "ACK"
                           /\ tcp' = [tcp EXCEPT ![s].ack_wait = 0]
                           /\ UNCHANGED rx
                        \/ /\ flags = "PSH_ACK" /\ sent
                           /\ tcp' = [tcp EXCEPT ![s].ack_wait = 0]
                           /\ rx' = Reply(s, "ACK", 0)
                        \/ /\ flags \in {"FIN_ACK", "RST_ACK", "OTHER"} \/ ~sent
                           /\ rx' = Reply(s, Farewell(s, flags), 0)
                           /\ tcp' = [tcp EXCEPT ![s].open = FALSE, ![s].seq = Start(s),
                                 ![s].ack_wait = IF ~sent THEN 0 ELSE @]
               /\ heard' = IF tcp'[s].timeout > 0 THEN heard \cup {s} ELSE heard \ {s}
    /\ UNCHANGED <<shut, expected, ended, repeated>>

\* A datagram reuses its socket or opens the first free one; a failing
\* sendto closes it again. Broadcasts are requests for a DHCP reply.
udp_send(f) ==
    /\ at = Guest /\ at' = Deliver
    /\ IF OpenFor(udp, f) = {} /\ Free(udp) = {} THEN UNCHANGED <<udp, errno>>
       ELSE LET s == First(IF OpenFor(udp, f) # {} THEN OpenFor(udp, f) ELSE Free(udp))
            IN \E sent \in BOOLEAN :
                  /\ udp' = [udp EXCEPT ![s] = [open |-> sent, conn |-> f, timeout |-> 0]]
                  /\ errno' \in ErrnoAfter(sent)
    /\ UNCHANGED <<rx, tcp, shut, expected, ended, repeated, heard>>

\* ARP, ICMP echo, DHCP and EtherDFS requests are answered in place, or not.
\* The file server's host calls may fail.
request ==
    /\ at = Guest /\ at' = Deliver
    /\ rx' \in {rx, OtherFrame}
    /\ errno' \in {errno, "OTHER"}
    /\ UNCHANGED <<tcp, udp, shut, expected, ended, repeated, heard>>

net_tx_frame ==
    \/ \E c \in Conns : tcp_syn(c)
    \/ \E f \in Flows : udp_send(f)
    \/ \E c \in Conns, flags \in Flags : tcp_segment(c, flags)
    \/ request
-----------------------------------------------------------------------------
(* The poll: net_execute goes through the UDP sockets, then the TCP ones,  *)
(* and stops as soon as a frame is ready.                                  *)

poll_start ==
    /\ at = Guest /\ at' = Udp(0)
    /\ UNCHANGED <<rx, tcp, udp, shut, errno, expected, ended, repeated, heard>>

\* Faulty: the poll returns to the guest without delivery.
AfterWithoutDelivery(pos) ==
    IF pos[2] + 1 \in Socks THEN <<pos[1], pos[2] + 1>>
    ELSE IF pos[1] = "udp" THEN Tcp(0) ELSE Guest

After(pos) ==
    IF pos[2] + 1 \in Socks THEN <<pos[1], pos[2] + 1>>
    ELSE IF pos[1] = "udp" THEN Tcp(0) ELSE Deliver

Polling == at \notin {Guest, Deliver}

\* "Prevent overwriting pending packet!"
poll_stop ==
    /\ Polling /\ rx # NoFrame
    /\ at' = Deliver
    /\ UNCHANGED <<rx, tcp, udp, shut, errno, expected, ended, repeated, heard>>

poll_closed ==
    /\ Polling /\ rx = NoFrame
    /\ LET s == at[2] IN ~(IF at[1] = "udp" THEN udp[s].open ELSE tcp[s].open)
    /\ at' = After(at)
    /\ UNCHANGED <<rx, tcp, udp, shut, errno, expected, ended, repeated, heard>>

net_check_udp_socket(s) ==
    /\ at = Udp(s) /\ rx = NoFrame /\ udp[s].open
    /\ at' = After(at)
    /\ \/ /\ udp' = [udp EXCEPT ![s].timeout = 0]
          /\ rx' = OtherFrame
          /\ UNCHANGED errno
       \/ /\ udp' = [udp EXCEPT ![s].timeout = @ + 1,
                                ![s].open = IF udp[s].timeout + 1 > Timeout
                                             THEN FALSE ELSE @]
          /\ errno' = "EAGAIN"
          /\ UNCHANGED rx
       \/ /\ udp' = [udp EXCEPT ![s].open = FALSE]
          /\ errno' = "OTHER"
          /\ UNCHANGED rx
    /\ UNCHANGED <<tcp, shut, expected, ended, repeated, heard>>

\* Faulty: does not look at rx_ready.
CheckingTcpAlways(s) == at = Tcp(s) /\ tcp[s].open

CheckingTcp(s) == at = Tcp(s) /\ rx = NoFrame /\ tcp[s].open

\* Faulty: waits without counting.
tcp_wait_uncounted(s) ==
    /\ CheckingTcp(s) /\ tcp[s].ack_wait > 0
    /\ at' = After(at)
    /\ UNCHANGED <<rx, tcp, udp, shut, errno, expected, ended, repeated, heard>>

\* Flow control: data waits for the guest's ACK, or for AckWait polls.
tcp_wait(s) ==
    /\ CheckingTcp(s) /\ tcp[s].ack_wait > 0
    /\ at' = After(at)
    /\ tcp' = [tcp EXCEPT ![s].ack_wait = @ - 1]
    /\ UNCHANGED <<rx, udp, shut, errno, expected, ended, repeated, heard>>

Receives(s) == CheckingTcp(s) /\ tcp[s].ack_wait = 0

\* recv() finds nothing: count, and close an inactive socket.
tcp_recv_again(s) ==
    /\ Receives(s) /\ s \notin shut
    /\ at' = After(at)
    /\ errno' = "EAGAIN"
    /\ IF tcp[s].timeout + 1 > Timeout
       THEN /\ rx' = Reply(s, "RST_ACK", 0)
            /\ tcp' = [tcp EXCEPT ![s].timeout = @ + 1, ![s].open = FALSE, ![s].seq = Start(s)]
       ELSE /\ tcp' = [tcp EXCEPT ![s].timeout = @ + 1]
            /\ UNCHANGED rx
    /\ UNCHANGED <<udp, shut, expected, ended, repeated, heard>>

tcp_recv_error(s) ==
    /\ Receives(s)
    /\ at' = After(at)
    /\ errno' = "OTHER"
    /\ rx' = Reply(s, "RST_ACK", 0)
    /\ net_tcp_close(s)
    /\ UNCHANGED <<udp, shut, expected, ended, repeated, heard>>

\* Faulty: does not remember that the FIN is out.
tcp_recv_closed_again(s) ==
    /\ Receives(s) /\ s \in shut /\ errno = "EAGAIN"
    /\ at' = After(at)
    /\ rx' = Reply(s, "FIN_ACK", 1)
    /\ tcp' = [tcp EXCEPT ![s].seq = SeqAfter(@, 1)]
    /\ UNCHANGED <<udp, shut, errno, expected, ended, repeated, heard>>

\* recv() returns zero, the remote end has closed: one FIN_ACK, if errno is
\* EAGAIN from some earlier call.
tcp_recv_closed(s) ==
    /\ Receives(s) /\ s \in shut /\ errno = "EAGAIN"
    /\ at' = After(at)
    /\ IF tcp[s].fin THEN UNCHANGED <<tcp, rx>>
       ELSE /\ rx' = Reply(s, "FIN_ACK", 1)
            /\ tcp' = [tcp EXCEPT ![s].seq = SeqAfter(@, 1), ![s].fin = TRUE]
    /\ UNCHANGED <<udp, shut, errno, expected, ended, repeated, heard>>

\* A data frame that claims the sequence number after its data.
tcp_recv_data_early(s) ==
    /\ Receives(s)
    /\ s \notin shut \/ errno # "EAGAIN"
    /\ at' = After(at)
    /\ \E n \in IF s \in shut THEN {0} ELSE Payloads :
          /\ rx' = [Reply(s, "PSH_ACK", n) EXCEPT !.seq = SeqAfter(@, n)]
          /\ tcp' = [tcp EXCEPT ![s].timeout = 0, ![s].ack_wait = AckWait,
                                ![s].seq = SeqAfter(@, n)]
    /\ heard' = heard \ {s}
    /\ UNCHANGED <<udp, shut, errno, expected, ended, repeated>>

\* Data, or an empty frame when recv() returned zero and errno is another.
tcp_recv_data(s) ==
    /\ Receives(s)
    /\ s \notin shut \/ errno # "EAGAIN"
    /\ at' = After(at)
    /\ \E n \in IF s \in shut THEN {0} ELSE Payloads :
          /\ rx' = Reply(s, "PSH_ACK", n)
          /\ tcp' = [tcp EXCEPT ![s].timeout = 0, ![s].ack_wait = AckWait,
                                ![s].seq = SeqAfter(@, n)]
    /\ heard' = heard \ {s}
    /\ UNCHANGED <<udp, shut, errno, expected, ended, repeated>>

net_check_tcp_socket(s) ==
    \/ tcp_wait(s) \/ tcp_recv_again(s) \/ tcp_recv_error(s)
    \/ tcp_recv_closed(s) \/ tcp_recv_data(s)

net_execute ==
    \/ poll_stop \/ poll_closed
    \/ \E s \in Socks : net_check_udp_socket(s) \/ net_check_tcp_socket(s)
-----------------------------------------------------------------------------
\* dp8390_execute hands the frame to the card, both after a poll and within
\* the guest's transmit command, and the guest's TCP takes the segment.
dp8390_execute ==
    /\ at = Deliver /\ at' = Guest
    /\ rx' = NoFrame
    /\ expected' = IF rx.kind # "tcp" THEN expected
                   ELSE [expected EXCEPT ![rx.conn] =
                           IF rx.flags = "SYN_ACK" THEN SeqAfter(rx.seq, 1)
                           ELSE SeqAfter(@, rx.len)]
    /\ ended' = IF rx.kind # "tcp" THEN ended
                ELSE IF rx.flags = "SYN_ACK" THEN ended \ {rx.conn}
                ELSE IF rx.flags = "FIN_ACK" THEN ended \cup {rx.conn}
                ELSE ended
    /\ UNCHANGED <<tcp, udp, shut, errno, repeated, heard>>

\* The remote end closes a connection.
RemoteCloses(s) ==
    /\ tcp[s].open /\ s \notin shut
    /\ shut' = shut \cup {s}
    /\ UNCHANGED <<at, rx, tcp, udp, errno, expected, ended, repeated, heard>>

Next ==
    \/ net_tx_frame \/ poll_start \/ net_execute \/ dp8390_execute
    \/ \E s \in Socks : RemoteCloses(s)

\* The main loop reaches its poll again and again, whatever the guest sends
\* in between, and a poll runs to its end.
Spec == /\ Init /\ [][Next]_vars
        /\ SF_vars(poll_start) /\ WF_vars(net_execute \/ dp8390_execute)
-----------------------------------------------------------------------------
(* Properties.                                                             *)

\* The shared frame buffer is empty whenever guest code runs, so a frame the
\* guest sends never finds a pending one (net_tx_frame does not look): every
\* path that fills it reaches dp8390_execute first.
BufferFreeForGuest == at = Guest => rx = NoFrame

\* A frame in the buffer is never overwritten or dropped: only delivery
\* empties it (the check of rx_ready before each socket of the poll).
FrameOnlyLeavesByDelivery == [][rx # NoFrame => rx' = rx \/ dp8390_execute]_vars

\* Every segment towards the guest carries the sequence number that its TCP
\* expects on the connection: the stream has no gap and no overlap, through
\* data, FIN, refused frames, close, and reuse of a socket with its start
\* number by this or another connection. Not said of a connection the guest
\* has opened again while a socket of it was open (after a reboot, or an RST,
\* which the code ignores): two sockets with two numbers then answer for it.
SegmentsInSequence ==
    rx.kind = "tcp" /\ rx.flags # "SYN_ACK" /\ rx.conn \notin repeated
    => rx.seq = expected[rx.conn]

\* After the FIN the guest gets neither data nor a second FIN on that
\* connection, though recv() keeps returning zero (fin_ack_sent); with the
\* same exception.
NothingAfterFin ==
    rx.kind = "tcp" /\ rx.flags # "SYN_ACK" /\ rx.conn \in ended \ repeated
    => rx.len = 0 /\ rx.flags # "FIN_ACK"

\* A socket waiting for an ACK the guest never sends is let through in the
\* end, unless other frames keep the poll from getting to it.
AckWaitEnds ==
    \A s \in Socks : []<>(tcp[s].ack_wait = 0 \/ ~tcp[s].open) \/ []<>(rx # NoFrame)

\* "Close socket after a certain time of inactivity": the poll closes a quiet
\* TCP socket only if the guest sent nothing on it while the time that is up
\* was counted, from the first empty poll on (net_check_tcp_socket).
InactivityMeansQuiet ==
    [][\A s \in Socks : tcp_recv_again(s) /\ ~tcp'[s].open => s \notin heard]_vars
=============================================================================
