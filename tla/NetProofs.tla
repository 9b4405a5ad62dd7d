----------------------------- MODULE NetProofs -----------------------------
(***************************************************************************)
(* Proofs for Net, for any number of sockets, connections and any bounds:  *)
(* the shared frame buffer is safe and every TCP stream is in sequence.    *)
(***************************************************************************)
EXTENDS Net, WellFoundedInduction, TLAPS

\* What the guest's TCP will expect on connection c once the buffer is delivered.
Ahead(c) ==
    IF rx.kind = "tcp" /\ rx.conn = c
    THEN IF rx.flags = "SYN_ACK" THEN SeqAfter(rx.seq, 1)
         ELSE SeqAfter(rx.seq, rx.len)
    ELSE expected[c]

\* A connection has one open socket, unless the guest has repeated its SYN.
Single(s) == tcp[s].open /\ tcp[s].conn \notin repeated
OneSocket ==
    \A s, t \in Socks :
       Single(s) /\ tcp[t].open /\ tcp[t].conn = tcp[s].conn => t = s

\* The next number of that socket is the one the guest expects then.
StreamsAgree == \A s \in Socks : Single(s) => tcp[s].seq = Ahead(tcp[s].conn)

IInv == /\ TypeOK
        /\ BufferFreeForGuest
        /\ OneSocket
        /\ StreamsAgree
        /\ SegmentsInSequence
-----------------------------------------------------------------------------
(* Lemmas.                                                                 *)

\* Sequence arithmetic of send_seq stays in its width; adding nothing is
\* the identity.
LEMMA SeqArith ==
    ASSUME NEW q \in 0 .. SeqModulus - 1, NEW n \in Nat
    PROVE  /\ SeqAfter(q, n) \in 0 .. SeqModulus - 1
           /\ SeqAfter(q, 0) = q
<1>1. q + n \in Nat /\ SeqModulus \in Nat \ {0}
  BY NetAssumption
<1>2. SeqAfter(q, n) \in 0 .. SeqModulus - 1
  BY <1>1 DEF SeqAfter
<1>3. q + 0 = q /\ q % SeqModulus = q
  BY NetAssumption
<1> QED
  BY <1>2, <1>3 DEF SeqAfter

\* The number a socket starts with is in the same width.
LEMMA StartType ==
    ASSUME NEW s \in Socks
    PROVE  Start(s) \in 0 .. SeqModulus - 1
<1> DEFINE p == s * SeqStride
<1>1. s \in Nat /\ SeqStride \in Nat /\ SeqModulus \in Nat \ {0}
  BY NetAssumption DEF Socks
<1>2. p \in Nat
  BY <1>1
<1> HIDE DEF p
<1>3. p % SeqModulus \in 0 .. SeqModulus - 1
  BY <1>1, <1>2
<1> QED
  BY <1>3 DEF Start, p

\* The first index of a non-empty set of sockets is one of its members.
LEMMA FirstIsMember ==
    ASSUME NEW S \in SUBSET Socks, S # {}
    PROVE  First(S) \in S /\ First(S) \in Socks
<1>1. \E s \in S : \A t \in S : s <= t
  <2>1. S \subseteq Nat
    BY NetAssumption DEF Socks
  <2>2. \E s \in S : \A t \in S : ~(<<t, s>> \in OpToRel(<, Nat))
    BY <2>1, WFMin, NatLessThanWellFounded
  <2>3. \A s, t \in S : ~(<<t, s>> \in OpToRel(<, Nat)) => s <= t
    BY <2>1 DEF OpToRel
  <2> QED
    BY <2>2, <2>3
<1> QED
  BY <1>1 DEF First

\* A reply frame is a TCP frame with the socket's next number.
LEMMA ReplyType ==
    ASSUME TypeOK, NEW s \in Socks, NEW n \in 0 .. SeqModulus - 1,
           NEW f \in {"SYN_ACK", "ACK", "PSH_ACK", "FIN_ACK", "RST_ACK"}
    PROVE  /\ Reply(s, f, n) \in TcpFrame
           /\ Reply(s, f, n).kind = "tcp" /\ Reply(s, f, n).conn = tcp[s].conn
           /\ Reply(s, f, n).flags = f /\ Reply(s, f, n).len = n
           /\ Reply(s, f, n).seq = tcp[s].seq
  BY DEF TypeOK, TcpSocket, Reply, TcpFrame

\* Filling the empty buffer with a segment of an open socket, which may then
\* close, keeps all streams in sequence.
LEMMA Fill ==
    ASSUME IInv, NEW s \in Socks, NEW n \in 0 .. SeqModulus - 1,
           NEW f \in {"ACK", "PSH_ACK", "FIN_ACK", "RST_ACK"},
           rx = NoFrame, rx' = Reply(s, f, n), UNCHANGED <<expected, repeated>>,
           \A t \in Socks \ {s} : tcp'[t] = tcp[t],
           tcp[s].open,
           tcp'[s].open => /\ tcp'[s].seq = SeqAfter(tcp[s].seq, n)
                           /\ tcp'[s].conn = tcp[s].conn
    PROVE  OneSocket' /\ StreamsAgree' /\ SegmentsInSequence'
<1>0. PICK c : c = tcp[s].conn
  OBVIOUS
<1>1. /\ rx'.kind = "tcp" /\ rx'.conn = c /\ rx'.flags = f
      /\ rx'.len = n /\ rx'.seq = tcp[s].seq
  BY <1>0, ReplyType DEF IInv
<1>2. \A d : Ahead(d) = expected[d]
  BY DEF Ahead, NoFrame
<1>3. \A d : d # c => Ahead(d)' = expected[d]
  BY <1>1 DEF Ahead
<1>4. Ahead(c)' = SeqAfter(tcp[s].seq, n)
  BY <1>1 DEF Ahead
<1>5. \A t \in Socks : tcp'[t].open => tcp[t].open /\ tcp'[t].conn = tcp[t].conn
  OBVIOUS
<1>6. \A t \in Socks : Single(t)' => Single(t)
  BY <1>5 DEF Single
<1>7. OneSocket'
  <2> SUFFICES ASSUME NEW t \in Socks, NEW v \in Socks, Single(t)', tcp'[v].open,
                      tcp'[v].conn = tcp'[t].conn
               PROVE  v = t
    BY DEF OneSocket
  <2>1. Single(t) /\ tcp'[t].open
    BY <1>6 DEF Single
  <2>2. tcp[v].open /\ tcp[v].conn = tcp[t].conn
    BY <1>5, <2>1
  <2> QED
    BY <2>1, <2>2 DEF IInv, OneSocket
<1>8. ASSUME NEW t \in Socks, Single(t)'
      PROVE  tcp'[t].seq = Ahead(tcp[t].conn)'
  <2>0. tcp'[t].open /\ tcp'[t].conn = tcp[t].conn
    BY <1>5, <1>8 DEF Single
  <2>1. CASE t = s
    BY <1>0, <1>4, <2>0, <2>1
  <2>2. CASE t # s
    <3>1. Single(t) /\ tcp'[t] = tcp[t]
      BY <1>6, <1>8, <2>2
    <3>2. tcp[t].conn # c
      BY <1>0, <2>2, <3>1 DEF IInv, OneSocket
    <3>3. tcp[t].seq = Ahead(tcp[t].conn)
      BY <3>1 DEF IInv, StreamsAgree
    <3> QED
      BY <1>2, <1>3, <2>0, <3>1, <3>2, <3>3
  <2> QED
    BY <2>1, <2>2
<1>9. StreamsAgree'
  BY <1>8 DEF StreamsAgree
<1>10. c \notin repeated => tcp[s].seq = expected[c]
  BY <1>0, <1>2 DEF IInv, StreamsAgree, Single
<1>11. SegmentsInSequence'
  BY <1>1, <1>10 DEF SegmentsInSequence
<1> QED
  BY <1>7, <1>9, <1>11

\* Filling it with the SYN_ACK of a new socket: if its connection had an open
\* one, nothing more is said of it.
LEMMA FillSyn ==
    ASSUME IInv, NEW s \in Socks, NEW c \in Conns, rx = NoFrame, UNCHANGED expected,
           ~tcp[s].open,
           \A t \in Socks \ {s} : tcp'[t] = tcp[t],
           tcp'[s].open, tcp'[s].conn = c, tcp'[s].seq = SeqAfter(tcp[s].seq, 1),
           rx' = [Reply(s, "SYN_ACK", 0) EXCEPT !.conn = c],
           repeated' = IF OpenFor(tcp, c) # {} THEN repeated \cup {c} ELSE repeated \ {c}
    PROVE  OneSocket' /\ StreamsAgree' /\ SegmentsInSequence'
<1>1. /\ rx'.kind = "tcp" /\ rx'.conn = c /\ rx'.flags = "SYN_ACK"
      /\ rx'.seq = tcp[s].seq
  BY DEF Reply
<1>2. \A d : d # c => Ahead(d) = expected[d] /\ Ahead(d)' = expected[d]
  BY <1>1 DEF Ahead, NoFrame
<1>3. Ahead(c)' = SeqAfter(tcp[s].seq, 1)
  BY <1>1 DEF Ahead
<1>4. ASSUME NEW t \in Socks, t # s, tcp'[t].open
      PROVE  /\ tcp[t].open /\ tcp'[t] = tcp[t]
             /\ tcp[t].conn = c => c \in repeated'
             /\ Single(t)' => Single(t) /\ tcp[t].conn # c
  <2>1. tcp[t].open /\ tcp'[t] = tcp[t]
    BY <1>4
  <2>2. tcp[t].conn = c => c \in repeated'
    BY <2>1 DEF OpenFor
  <2> QED
    BY <2>1, <2>2 DEF Single
<1>5. OneSocket'
  <2> SUFFICES ASSUME NEW t \in Socks, NEW v \in Socks, Single(t)', tcp'[v].open,
                      tcp'[v].conn = tcp'[t].conn, v # t
               PROVE  FALSE
    BY DEF OneSocket
  <2>1. tcp'[t].open /\ tcp'[t].conn \notin repeated'
    BY DEF Single
  <2>2. CASE t = s
    BY <1>4, <2>1, <2>2
  <2>3. CASE v = s
    BY <1>4, <2>1, <2>3
  <2>4. CASE t # s /\ v # s
    BY <1>4, <2>1, <2>4 DEF IInv, OneSocket
  <2> QED
    BY <2>2, <2>3, <2>4
<1>6. ASSUME NEW t \in Socks, Single(t)'
      PROVE  tcp'[t].seq = Ahead(tcp[t].conn)'
  <2>1. tcp'[t].open
    BY <1>6 DEF Single
  <2>2. CASE t = s
    BY <1>3, <2>2
  <2>3. CASE t # s
    <3>1. tcp'[t] = tcp[t] /\ Single(t) /\ tcp[t].conn # c
      BY <1>4, <1>6, <2>1, <2>3
    <3>2. tcp[t].seq = Ahead(tcp[t].conn)
      BY <3>1 DEF IInv, StreamsAgree
    <3> QED
      BY <1>2, <3>1, <3>2
  <2> QED
    BY <2>2, <2>3
<1>7. StreamsAgree'
  BY <1>6 DEF StreamsAgree
<1>8. SegmentsInSequence'
  BY <1>1 DEF SegmentsInSequence
<1> QED
  BY <1>5, <1>7, <1>8

\* A step that puts no segment into the empty buffer and opens no socket.
LEMMA Keep ==
    ASSUME IInv, rx = NoFrame, rx' \in {NoFrame, OtherFrame},
           UNCHANGED <<expected, repeated>>,
           \A t \in Socks : tcp'[t].open => /\ tcp[t].open /\ tcp'[t].seq = tcp[t].seq
                                            /\ tcp'[t].conn = tcp[t].conn
    PROVE  OneSocket' /\ StreamsAgree' /\ SegmentsInSequence'
<1>1. rx'.kind # "tcp" /\ rx.kind # "tcp"
  BY DEF NoFrame, OtherFrame
<1>2. \A c : Ahead(c)' = Ahead(c)
  BY <1>1 DEF Ahead
<1>3. \A t \in Socks : tcp'[t].open => tcp'[t].conn = tcp[t].conn
  OBVIOUS
<1>4. \A t \in Socks : Single(t)' => Single(t) /\ tcp'[t].conn = tcp[t].conn
  BY DEF Single
<1>5. OneSocket'
  BY <1>3, <1>4 DEF IInv, OneSocket
<1>6. StreamsAgree'
  <2> SUFFICES ASSUME NEW t \in Socks, Single(t)'
               PROVE  tcp'[t].seq = Ahead(tcp[t].conn)'
    BY DEF StreamsAgree
  <2>1. Single(t) /\ tcp'[t].conn = tcp[t].conn /\ tcp'[t].seq = tcp[t].seq
    BY <1>4 DEF Single
  <2> QED
    BY <1>2, <2>1 DEF IInv, StreamsAgree
<1>7. SegmentsInSequence'
  BY <1>1 DEF SegmentsInSequence
<1> QED
  BY <1>5, <1>6, <1>7

\* The next position of a poll.
LEMMA AfterType ==
    ASSUME NEW pos \in {"udp", "tcp"} \X Socks
    PROVE  After(pos) \in {Deliver} \cup ({"udp", "tcp"} \X Socks)
  BY NetAssumption DEF After, Tcp, Socks
-----------------------------------------------------------------------------
(* One lemma per handler: each keeps the invariant.                        *)

LEMMA InitInv == Init => IInv
<1> SUFFICES ASSUME Init PROVE IInv
  OBVIOUS
<1>0. \A s \in Socks : Start(s) \in 0 .. SeqModulus - 1
  BY StartType
<1>1. TypeOK
  BY <1>0, NetAssumption DEF Init, TypeOK, TcpSocket, UdpSocket
<1>2. OneSocket /\ StreamsAgree
  BY DEF Init, OneSocket, StreamsAgree, Single
<1> QED
  BY <1>1, <1>2 DEF Init, IInv, BufferFreeForGuest, SegmentsInSequence, NoFrame

\* net_handle_tcp, a SYN.
LEMMA SynInv == ASSUME IInv, NEW c \in Conns, tcp_syn(c) PROVE IInv'
<1>0. rx = NoFrame /\ at' = Deliver /\ UNCHANGED <<udp, expected, ended>>
  BY DEF IInv, BufferFreeForGuest, tcp_syn
<1>1. BufferFreeForGuest'
  BY <1>0 DEF BufferFreeForGuest, Guest, Deliver
<1>2. CASE UNCHANGED <<tcp, rx, shut, repeated, heard>> /\ errno' \in {errno, "OTHER"}
  <2>1. TypeOK'
    BY <1>0, <1>2 DEF IInv, TypeOK
  <2> QED
    BY <1>0, <1>1, <1>2, <2>1, Keep DEF IInv
<1>3. CASE Free(tcp) # {} /\ ~UNCHANGED <<tcp, rx, shut, repeated, heard>>
  <2> DEFINE s == First(Free(tcp))
  <2>1. s \in Socks /\ ~tcp[s].open
    BY <1>3, FirstIsMember DEF Free
  <2> DEFINE u == [open |-> TRUE, conn |-> c, timeout |-> 0, fin |-> FALSE,
                   ack_wait |-> 0, seq |-> SeqAfter(tcp[s].seq, 1)]
  <2>2. /\ tcp' = [tcp EXCEPT ![s] = u] /\ UNCHANGED errno
        /\ rx' = [Reply(s, "SYN_ACK", 0) EXCEPT !.conn = c]
        /\ shut' = shut \ {s} /\ heard' = heard \ {s}
        /\ repeated' = IF OpenFor(tcp, c) # {} THEN repeated \cup {c} ELSE repeated \ {c}
    BY <1>3 DEF tcp_syn
  <2>3. u \in TcpSocket /\ u.open /\ u.conn = c /\ u.seq = SeqAfter(tcp[s].seq, 1)
    BY <2>1, SeqArith, NetAssumption DEF IInv, TypeOK, TcpSocket
  <2> HIDE DEF s, u
  <2>4. rx' \in TcpFrame /\ repeated' \in SUBSET Conns
    <3>1. 0 \in 0 .. SeqModulus - 1
      BY NetAssumption
    <3>2. Reply(s, "SYN_ACK", 0) \in TcpFrame
      BY <2>1, <3>1, ReplyType DEF IInv
    <3>3. rx' \in TcpFrame
      BY <2>2, <3>2 DEF TcpFrame
    <3> QED
      BY <2>2, <3>3 DEF IInv, TypeOK
  <2>5. TypeOK'
    BY <1>0, <2>1, <2>2, <2>3, <2>4 DEF IInv, TypeOK
  <2>6. \A t \in Socks \ {s} : tcp'[t] = tcp[t]
    BY <2>1, <2>2 DEF IInv, TypeOK
  <2>7. tcp'[s] = u
    BY <2>1, <2>2 DEF IInv, TypeOK
  <2> QED
    BY <1>0, <1>1, <2>1, <2>2, <2>3, <2>5, <2>6, <2>7, FillSyn DEF IInv
<1> QED
  BY <1>2, <1>3 DEF tcp_syn

\* net_handle_tcp, any other segment.
LEMMA SegmentInv ==
    ASSUME IInv, NEW c \in Conns, NEW flags \in Flags, tcp_segment(c, flags)
    PROVE  IInv'
<1>0. rx = NoFrame /\ at' = Deliver /\ UNCHANGED <<shut, expected, ended, repeated>>
  BY DEF IInv, BufferFreeForGuest, tcp_segment
<1>1. BufferFreeForGuest'
  BY <1>0 DEF BufferFreeForGuest, Guest, Deliver
<1>2. CASE OpenFor(tcp, c) = {}
  <2>1. UNCHANGED <<tcp, udp, rx, errno, heard>>
    BY <1>2 DEF tcp_segment
  <2>2. TypeOK'
    BY <1>0, <2>1 DEF IInv, TypeOK
  <2> QED
    BY <1>0, <1>1, <2>1, <2>2, Keep DEF IInv
<1>3. CASE OpenFor(tcp, c) # {}
  <2> DEFINE s == First(OpenFor(tcp, c))
  <2>1. s \in Socks /\ tcp[s].open
    BY <1>3, FirstIsMember DEF OpenFor
  <2>2. PICK sent \in SendResults(flags) :
          /\ udp' = [udp EXCEPT ![s].timeout = 0]
          /\ errno' \in ErrnoAfter(sent)
          /\ \/ UNCHANGED <<tcp, rx>>
             \/ tcp' = [tcp EXCEPT ![s].ack_wait = 0] /\ UNCHANGED rx
             \/ tcp' = [tcp EXCEPT ![s].ack_wait = 0] /\ rx' = Reply(s, "ACK", 0)
             \/ /\ rx' = Reply(s, Farewell(s, flags), 0)
                /\ tcp' = [tcp EXCEPT ![s].open = FALSE, ![s].seq = Start(s),
                                      ![s].ack_wait = IF ~sent THEN 0 ELSE @]
    BY <1>3 DEF tcp_segment
  <2> HIDE DEF s
  <2>3. udp' \in [Socks -> UdpSocket] /\ heard' \in SUBSET Socks
        /\ errno' \in {"EAGAIN", "OTHER"}
    <3>1. heard' \in {heard \cup {s}, heard \ {s}}
      BY <1>3 DEF tcp_segment, s
    <3> QED
      BY <2>1, <2>2, <3>1 DEF IInv, TypeOK, UdpSocket, ErrnoAfter
  <2>4. 0 \in 0 .. SeqModulus - 1 /\ 0 \in 0 .. AckWait /\ Start(s) \in 0 .. SeqModulus - 1
    BY <2>1, NetAssumption, StartType
  <2>5. tcp' \in [Socks -> TcpSocket]
    <3>1. tcp[s] \in TcpSocket /\ tcp \in [Socks -> TcpSocket]
      BY <2>1 DEF IInv, TypeOK
    <3>2. [tcp[s] EXCEPT !.ack_wait = 0] \in TcpSocket
      BY <3>1, <2>4 DEF TcpSocket
    <3>3. [tcp[s] EXCEPT !.open = FALSE, !.seq = Start(s),
                         !.ack_wait = IF ~sent THEN 0 ELSE @] \in TcpSocket
      BY <3>1, <2>4 DEF TcpSocket
    <3> QED
      BY <2>1, <2>2, <3>1, <3>2, <3>3
  <2>6. Farewell(s, flags) \in {"ACK", "PSH_ACK", "FIN_ACK", "RST_ACK"}
    BY DEF Farewell
  <2>7. rx' \in {NoFrame, OtherFrame} \cup TcpFrame
    BY <1>0, <2>1, <2>2, <2>4, <2>6, ReplyType DEF IInv
  <2>8. TypeOK'
    BY <1>0, <2>3, <2>5, <2>7 DEF IInv, TypeOK
  <2>9. /\ \A t \in Socks \ {s} : tcp'[t] = tcp[t]
        /\ tcp'[s].open => tcp'[s].seq = tcp[s].seq /\ tcp'[s].conn = tcp[s].conn
    BY <2>1, <2>2 DEF IInv, TypeOK, TcpSocket
  <2>10. SeqAfter(tcp[s].seq, 0) = tcp[s].seq
    BY <2>1, SeqArith DEF IInv, TypeOK, TcpSocket
  <2>11. CASE UNCHANGED rx
    BY <1>0, <1>1, <2>1, <2>8, <2>9, <2>11, Keep DEF IInv
  <2>12. CASE rx' = Reply(s, "ACK", 0)
    BY <1>0, <1>1, <2>1, <2>4, <2>8, <2>9, <2>10, <2>12, Fill DEF IInv
  <2>13. CASE rx' = Reply(s, Farewell(s, flags), 0)
    BY <1>0, <1>1, <2>1, <2>4, <2>6, <2>8, <2>9, <2>10, <2>13, Fill DEF IInv
  <2> QED
    BY <2>2, <2>11, <2>12, <2>13
<1> QED
  BY <1>2, <1>3

\* net_handle_udp, and the handlers that answer without a socket.
LEMMA DatagramInv ==
    ASSUME IInv, NEW f \in Flows, udp_send(f) \/ request
    PROVE  IInv'
<1>0. /\ rx = NoFrame /\ at' = Deliver /\ rx' \in {NoFrame, OtherFrame}
      /\ UNCHANGED <<tcp, shut, expected, ended, repeated, heard>>
  BY DEF IInv, BufferFreeForGuest, udp_send, request
<1>1. BufferFreeForGuest'
  BY <1>0 DEF BufferFreeForGuest, Guest, Deliver
<1>2. udp' \in [Socks -> UdpSocket] /\ errno' \in {"EAGAIN", "OTHER"}
  <2>1. CASE request
    BY <2>1 DEF request, IInv, TypeOK
  <2>2. CASE udp_send(f) /\ UNCHANGED <<udp, errno>>
    BY <2>2 DEF IInv, TypeOK
  <2>3. CASE udp_send(f) /\ ~UNCHANGED <<udp, errno>>
    <3> DEFINE S == IF OpenFor(udp, f) # {} THEN OpenFor(udp, f) ELSE Free(udp)
               s == First(S)
    <3>1. S # {} /\ S \in SUBSET Socks
      BY <2>3 DEF udp_send, OpenFor, Free
    <3>2. s \in Socks
      BY <3>1, FirstIsMember
    <3>3. \E sent \in BOOLEAN :
            /\ udp' = [udp EXCEPT ![s] = [open |-> sent, conn |-> f, timeout |-> 0]]
            /\ errno' \in ErrnoAfter(sent)
      BY <2>3 DEF udp_send
    <3> HIDE DEF s
    <3> QED
      BY <3>2, <3>3 DEF IInv, TypeOK, UdpSocket, ErrnoAfter
  <2> QED
    BY <2>1, <2>2, <2>3
<1>3. TypeOK'
  BY <1>0, <1>2 DEF IInv, TypeOK
<1> QED
  BY <1>0, <1>1, <1>3, Keep DEF IInv

\* The steps of a poll that leave the sockets alone, and a remote close.
LEMMA QuietInv ==
    ASSUME IInv,
           \/ poll_start \/ poll_stop \/ poll_closed
           \/ \E s \in Socks : RemoteCloses(s)
           \/ UNCHANGED vars
    PROVE  IInv'
<1>1. UNCHANGED <<rx, tcp, udp, errno, expected, ended, repeated, heard>>
  BY DEF poll_start, poll_stop, poll_closed, RemoteCloses, vars
<1>2. at' = at \/ at' \in {Deliver, Udp(0)} \cup ({"udp", "tcp"} \X Socks)
  <2>1. CASE poll_closed
    <3>1. at \in {"udp", "tcp"} \X Socks
      BY <2>1 DEF poll_closed, Polling, IInv, TypeOK
    <3> QED
      BY <2>1, <3>1, AfterType DEF poll_closed
  <2> QED
    BY <2>1 DEF poll_start, poll_stop, RemoteCloses, vars
<1>3. 0 \in Socks
  BY NetAssumption DEF Socks
<1>4. shut' \in SUBSET Socks
  BY DEF poll_start, poll_stop, poll_closed, RemoteCloses, vars, IInv, TypeOK
<1>5. TypeOK'
  BY <1>1, <1>2, <1>3, <1>4 DEF IInv, TypeOK, Udp
<1>6. BufferFreeForGuest'
  BY <1>1, <1>2 DEF IInv, BufferFreeForGuest, Guest, Deliver, Udp
<1>7. \A c : Ahead(c)' = Ahead(c)
  BY <1>1 DEF Ahead
<1> QED
  BY <1>1, <1>5, <1>6, <1>7 DEF IInv, OneSocket, StreamsAgree, Single, SegmentsInSequence

\* Changing the count and the state of a socket leaves a socket.
LEMMA UdpUpdate ==
    ASSUME NEW u \in UdpSocket, NEW t \in Nat, NEW b \in BOOLEAN
    PROVE  [u EXCEPT !.timeout = t, !.open = b] \in UdpSocket
  BY DEF UdpSocket

LEMMA TcpUpdate ==
    ASSUME NEW u \in TcpSocket, NEW t \in Nat, NEW q \in 0 .. SeqModulus - 1
    PROVE  /\ [u EXCEPT !.timeout = t, !.open = FALSE, !.seq = q] \in TcpSocket
           /\ ~[u EXCEPT !.timeout = t, !.open = FALSE, !.seq = q].open
  BY DEF TcpSocket

\* net_check_udp_socket.
LEMMA UdpCheckInv ==
    ASSUME IInv, NEW s \in Socks, net_check_udp_socket(s)
    PROVE  IInv'
<1>0. /\ rx = NoFrame /\ at = Udp(s) /\ at' = After(at)
      /\ UNCHANGED <<tcp, shut, expected, ended, repeated, heard>>
      /\ rx' \in {NoFrame, OtherFrame}
  BY DEF net_check_udp_socket
<1>1. at' \in {Deliver} \cup ({"udp", "tcp"} \X Socks)
  BY <1>0, AfterType DEF Udp
<1>2. BufferFreeForGuest'
  BY <1>1 DEF BufferFreeForGuest, Guest, Deliver
<1>3. udp' \in [Socks -> UdpSocket] /\ errno' \in {"EAGAIN", "OTHER"}
  <2>1. udp[s] \in UdpSocket /\ udp \in [Socks -> UdpSocket]
    BY DEF IInv, TypeOK
  <2>2. udp[s].timeout + 1 \in Nat /\ 0 \in Nat /\ udp[s].open \in BOOLEAN
    BY <2>1 DEF UdpSocket
  <2>3. /\ [udp[s] EXCEPT !.timeout = 0] \in UdpSocket
        /\ [udp[s] EXCEPT !.timeout = @ + 1, !.open = FALSE] \in UdpSocket
        /\ [udp[s] EXCEPT !.timeout = @ + 1, !.open = @] \in UdpSocket
        /\ [udp[s] EXCEPT !.open = FALSE] \in UdpSocket
    BY <2>1, <2>2, UdpUpdate DEF UdpSocket
  <2>4. \/ udp' = [udp EXCEPT ![s].timeout = 0]
        \/ udp' = [udp EXCEPT ![s].timeout = @ + 1, ![s].open = FALSE]
        \/ udp' = [udp EXCEPT ![s].timeout = @ + 1, ![s].open = @]
        \/ udp' = [udp EXCEPT ![s].open = FALSE]
    BY DEF net_check_udp_socket
  <2>5. errno' \in {"EAGAIN", "OTHER"}
    BY DEF net_check_udp_socket, IInv, TypeOK
  <2> QED
    BY <2>1, <2>3, <2>4, <2>5
<1>4. TypeOK'
  BY <1>0, <1>1, <1>3 DEF IInv, TypeOK
<1> QED
  BY <1>0, <1>2, <1>4, Keep DEF IInv

\* net_check_tcp_socket.
LEMMA TcpCheckInv ==
    ASSUME IInv, NEW s \in Socks, net_check_tcp_socket(s)
    PROVE  IInv'
<1>0. /\ rx = NoFrame /\ at = Tcp(s) /\ at' = After(at) /\ tcp[s].open
      /\ UNCHANGED <<udp, shut, expected, ended, repeated>>
  BY DEF net_check_tcp_socket, tcp_wait, tcp_recv_again, tcp_recv_error,
         tcp_recv_closed, tcp_recv_data, Receives, CheckingTcp
<1>1. at' \in {Deliver} \cup ({"udp", "tcp"} \X Socks)
  BY <1>0, AfterType DEF Tcp
<1>2. BufferFreeForGuest'
  BY <1>1 DEF BufferFreeForGuest, Guest, Deliver
<1>3. errno' \in {"EAGAIN", "OTHER"} /\ heard' \in SUBSET Socks
  BY DEF net_check_tcp_socket, tcp_wait, tcp_recv_again, tcp_recv_error,
         tcp_recv_closed, tcp_recv_data, IInv, TypeOK
<1>4. tcp[s] \in TcpSocket /\ tcp \in [Socks -> TcpSocket]
  BY DEF IInv, TypeOK
<1>5. 0 \in 0 .. SeqModulus - 1 /\ 1 \in 0 .. SeqModulus - 1 /\ AckWait \in 0 .. AckWait
      /\ Start(s) \in 0 .. SeqModulus - 1
  BY NetAssumption, StartType
<1>6. SeqAfter(tcp[s].seq, 0) = tcp[s].seq
  BY <1>4, SeqArith DEF TcpSocket
<1>7. ASSUME NEW u \in TcpSocket, tcp' = [tcp EXCEPT ![s] = u],
             NEW n \in 0 .. SeqModulus - 1,
             NEW f \in {"ACK", "PSH_ACK", "FIN_ACK", "RST_ACK"},
             u.open => u.conn = tcp[s].conn,
             \/ rx' = rx /\ u.open /\ u.seq = tcp[s].seq
             \/ rx' = Reply(s, f, n) /\ (u.open => u.seq = SeqAfter(tcp[s].seq, n))
      PROVE  IInv'
  <2>1. tcp' \in [Socks -> TcpSocket]
    BY <1>4, <1>7
  <2>2. rx' \in {NoFrame, OtherFrame} \cup TcpFrame
    BY <1>0, <1>7, ReplyType DEF IInv
  <2>3. TypeOK'
    BY <1>0, <1>1, <1>3, <2>1, <2>2 DEF IInv, TypeOK
  <2>4. tcp'[s] = u /\ \A t \in Socks \ {s} : tcp'[t] = tcp[t]
    BY <1>4, <1>7
  <2>7. tcp[s].conn = u.conn \/ ~u.open
    BY <1>7
  <2>5. CASE rx' = rx /\ u.open /\ u.seq = tcp[s].seq
    BY <1>0, <1>2, <2>3, <2>4, <2>5, <2>7, Keep DEF IInv
  <2>6. CASE rx' = Reply(s, f, n) /\ (u.open => u.seq = SeqAfter(tcp[s].seq, n))
    BY <1>0, <1>2, <2>3, <2>4, <2>6, <2>7, Fill DEF IInv
  <2> QED
    BY <1>7, <2>5, <2>6
<1>8. CASE tcp_wait(s)
  <2> DEFINE u == [tcp[s] EXCEPT !.ack_wait = @ - 1]
  <2>1. u \in TcpSocket /\ u.open /\ u.seq = tcp[s].seq /\ u.conn = tcp[s].conn
    BY <1>0, <1>4, <1>8, NetAssumption DEF TcpSocket, tcp_wait
  <2>2. tcp' = [tcp EXCEPT ![s] = u] /\ rx' = rx
    BY <1>8 DEF tcp_wait
  <2> HIDE DEF u
  <2> QED
    BY <2>1, <2>2, <1>5, <1>7
<1>9. CASE tcp_recv_again(s)
  <2>1. CASE tcp[s].timeout + 1 > Timeout
    <3> DEFINE u == [tcp[s] EXCEPT !.timeout = @ + 1, !.open = FALSE, !.seq = Start(s)]
    <3>0. tcp[s].timeout + 1 \in Nat
      BY <1>4 DEF TcpSocket
    <3>1. u \in TcpSocket /\ ~u.open
      BY <1>4, <1>5, <3>0, TcpUpdate
    <3>2. tcp' = [tcp EXCEPT ![s] = u] /\ rx' = Reply(s, "RST_ACK", 0)
      BY <1>9, <2>1 DEF tcp_recv_again
    <3> HIDE DEF u
    <3> QED
      BY <3>1, <3>2, <1>5, <1>7
  <2>2. CASE ~(tcp[s].timeout + 1 > Timeout)
    <3> DEFINE u == [tcp[s] EXCEPT !.timeout = @ + 1]
    <3>1. u \in TcpSocket /\ u.open /\ u.seq = tcp[s].seq /\ u.conn = tcp[s].conn
      BY <1>0, <1>4 DEF TcpSocket
    <3>2. tcp' = [tcp EXCEPT ![s] = u] /\ rx' = rx
      BY <1>9, <2>2 DEF tcp_recv_again
    <3> HIDE DEF u
    <3> QED
      BY <3>1, <3>2, <1>5, <1>7
  <2> QED
    BY <2>1, <2>2
<1>10. CASE tcp_recv_error(s)
  <2> DEFINE u == [tcp[s] EXCEPT !.open = FALSE, !.seq = Start(s)]
  <2>1. u \in TcpSocket /\ ~u.open
    BY <1>4, <1>5 DEF TcpSocket
  <2>2. tcp' = [tcp EXCEPT ![s] = u] /\ rx' = Reply(s, "RST_ACK", 0)
    BY <1>10 DEF tcp_recv_error, net_tcp_close
  <2> HIDE DEF u
  <2> QED
    BY <2>1, <2>2, <1>5, <1>7
<1>11. CASE tcp_recv_closed(s)
  <2>1. CASE tcp[s].fin
    <3>1. tcp' = [tcp EXCEPT ![s] = tcp[s]] /\ rx' = rx
      BY <1>4, <1>11, <2>1 DEF tcp_recv_closed
    <3> QED
      BY <1>0, <1>4, <3>1, <1>5, <1>7
  <2>2. CASE ~tcp[s].fin
    <3> DEFINE u == [tcp[s] EXCEPT !.seq = SeqAfter(@, 1), !.fin = TRUE]
    <3>1. u \in TcpSocket /\ u.seq = SeqAfter(tcp[s].seq, 1) /\ u.conn = tcp[s].conn
      BY <1>4, SeqArith DEF TcpSocket
    <3>2. tcp' = [tcp EXCEPT ![s] = u] /\ rx' = Reply(s, "FIN_ACK", 1)
      BY <1>11, <2>2 DEF tcp_recv_closed
    <3> HIDE DEF u
    <3> QED
      BY <3>1, <3>2, <1>5, <1>7
  <2> QED
    BY <2>1, <2>2
<1>12. CASE tcp_recv_data(s)
  <2>1. PICK n \in IF s \in shut THEN {0} ELSE Payloads :
          /\ rx' = Reply(s, "PSH_ACK", n)
          /\ tcp' = [tcp EXCEPT ![s].timeout = 0, ![s].ack_wait = AckWait,
                                ![s].seq = SeqAfter(@, n)]
    BY <1>12 DEF tcp_recv_data
  <2>2. n \in 0 .. SeqModulus - 1 /\ n \in Nat
    BY <1>5, NetAssumption
  <2> DEFINE u == [tcp[s] EXCEPT !.timeout = 0, !.ack_wait = AckWait,
                                 !.seq = SeqAfter(@, n)]
  <2>3. u \in TcpSocket /\ u.seq = SeqAfter(tcp[s].seq, n) /\ u.conn = tcp[s].conn
    BY <1>4, <1>5, <2>2, SeqArith DEF TcpSocket
  <2>4. tcp' = [tcp EXCEPT ![s] = u]
    BY <2>1
  <2> HIDE DEF u
  <2> QED
    BY <2>1, <2>2, <2>3, <2>4, <1>7
<1> QED
  BY <1>8, <1>9, <1>10, <1>11, <1>12 DEF net_check_tcp_socket

\* dp8390_execute: the guest's expectation catches up.
LEMMA DeliverInv == ASSUME IInv, dp8390_execute PROVE IInv'
<1>0. /\ rx' = NoFrame /\ at' = Guest /\ UNCHANGED <<tcp, udp, shut, errno, repeated, heard>>
  BY DEF dp8390_execute
<1>1. rx.kind = "tcp" => rx \in TcpFrame
  BY DEF IInv, TypeOK, NoFrame, OtherFrame
<1>2. \A c \in Conns : c \notin repeated => expected'[c] = Ahead(c)
  <2>1. CASE rx.kind # "tcp"
    BY <2>1 DEF dp8390_execute, Ahead
  <2>2. CASE rx.kind = "tcp"
    <3>1. /\ expected \in [Conns -> 0 .. SeqModulus - 1] /\ rx.conn \in Conns
          /\ expected' = [expected EXCEPT ![rx.conn] =
                            IF rx.flags = "SYN_ACK" THEN SeqAfter(rx.seq, 1)
                            ELSE SeqAfter(@, rx.len)]
      BY <1>1, <2>2 DEF dp8390_execute, IInv, TypeOK, TcpFrame
    <3>2. rx.flags # "SYN_ACK" /\ rx.conn \notin repeated => rx.seq = expected[rx.conn]
      BY <2>2 DEF IInv, SegmentsInSequence
    <3> QED
      BY <2>2, <3>1, <3>2 DEF Ahead
  <2> QED
    BY <2>1, <2>2
<1>3. expected' \in [Conns -> 0 .. SeqModulus - 1]
  <2>1. CASE rx.kind # "tcp"
    BY <2>1 DEF dp8390_execute, IInv, TypeOK
  <2>2. CASE rx.kind = "tcp"
    <3>1. /\ expected \in [Conns -> 0 .. SeqModulus - 1] /\ rx.conn \in Conns
          /\ rx.seq \in 0 .. SeqModulus - 1 /\ rx.len \in Nat
          /\ expected[rx.conn] \in 0 .. SeqModulus - 1
      BY <1>1, <2>2, NetAssumption DEF IInv, TypeOK, TcpFrame
    <3>2. /\ SeqAfter(rx.seq, 1) \in 0 .. SeqModulus - 1
          /\ SeqAfter(expected[rx.conn], rx.len) \in 0 .. SeqModulus - 1
      BY <3>1, SeqArith
    <3> QED
      BY <2>2, <3>1, <3>2 DEF dp8390_execute
  <2> QED
    BY <2>1, <2>2
<1>4. ended' \in SUBSET Conns
  BY <1>1 DEF dp8390_execute, IInv, TypeOK, TcpFrame
<1>5. TypeOK'
  BY <1>0, <1>3, <1>4 DEF IInv, TypeOK
<1>6. \A c : Ahead(c)' = expected'[c]
  BY <1>0 DEF Ahead, NoFrame
<1>7. \A s \in Socks : tcp[s].conn \in Conns
  BY DEF IInv, TypeOK, TcpSocket
<1> QED
  BY <1>0, <1>2, <1>5, <1>6, <1>7
  DEF IInv, OneSocket, StreamsAgree, Single, SegmentsInSequence, BufferFreeForGuest, NoFrame
-----------------------------------------------------------------------------
LEMMA StepInv == IInv /\ [Next]_vars => IInv'
<1> SUFFICES ASSUME IInv, [Next]_vars PROVE IInv'
  OBVIOUS
<1>1. ASSUME NEW f \in Flows, udp_send(f) PROVE IInv'
  BY <1>1, DatagramInv
<1>2. CASE request
  <2>1. \E f \in Flows : TRUE
    <3>1. 0 \in Socks
      BY NetAssumption DEF Socks
    <3> QED
      BY <3>1 DEF IInv, TypeOK, UdpSocket
  <2> QED
    BY <1>2, <2>1, DatagramInv
<1> QED
  BY <1>1, <1>2, SynInv, SegmentInv, QuietInv, UdpCheckInv, TcpCheckInv, DeliverInv
  DEF Next, net_tx_frame, net_execute

\* The inductive invariant holds in every reachable state.
THEOREM Invariance == Spec => []IInv
<1> QED
  BY InitInv, StepInv, PTL DEF Spec

\* net_tx_frame never finds a pending frame it would overwrite.
THEOREM BufferSafe == Spec => []BufferFreeForGuest
<1>1. IInv => BufferFreeForGuest
  BY DEF IInv
<1> QED
  BY <1>1, Invariance, PTL

\* Every TCP segment to the guest carries the number that its TCP expects on
\* the connection, whichever socket sends it and whatever number that started
\* with, unless the guest has opened the connection again over an open socket.
THEOREM SequenceSafe == Spec => []SegmentsInSequence
<1>1. IInv => SegmentsInSequence
  BY DEF IInv
<1> QED
  BY <1>1, Invariance, PTL

\* A pending frame is emptied by dp8390_execute and changed by nothing else.
THEOREM FramesKept == Spec => FrameOnlyLeavesByDelivery
<1>1. IInv /\ [Next]_vars => [rx # NoFrame => rx' = rx \/ dp8390_execute]_vars
  <2> SUFFICES ASSUME IInv, Next, rx # NoFrame PROVE rx' = rx \/ dp8390_execute
    BY DEF vars
  <2>1. at # Guest
    BY DEF IInv, BufferFreeForGuest
  <2> QED
    BY <2>1 DEF Next, net_tx_frame, tcp_syn, tcp_segment, udp_send, request,
         poll_start, net_execute, poll_stop, poll_closed, net_check_udp_socket,
         net_check_tcp_socket, tcp_wait, tcp_recv_again, tcp_recv_error,
         tcp_recv_closed, tcp_recv_data, Receives, CheckingTcp, RemoteCloses
<1> QED
  BY <1>1, Invariance, PTL DEF Spec, FrameOnlyLeavesByDelivery
-----------------------------------------------------------------------------
(* The end of a stream.                                                    *)

\* The buffer holds a segment with these flags for this connection.
Pending(c, flags) == rx.kind = "tcp" /\ rx.conn = c /\ rx.flags = flags

\* The guest has the FIN of a connection, or will have it with the next delivery.
FinKnown(c) == (c \in ended /\ ~Pending(c, "SYN_ACK")) \/ Pending(c, "FIN_ACK")

\* Then the socket of the connection is one whose remote end has closed and
\* that remembers it (fin_ack_sent).
FinRemembered ==
    \A s \in Socks : Single(s) /\ FinKnown(tcp[s].conn) => tcp[s].fin /\ s \in shut

FinInv == FinRemembered /\ NothingAfterFin

\* A step that fills the buffer with a segment of socket s, or leaves it empty
\* of segments, opens no socket and changes no other one.
LEMMA FinFill ==
    ASSUME IInv, IInv', FinInv, rx = NoFrame, UNCHANGED <<ended, repeated>>, NEW s \in Socks,
           \A t \in Socks : tcp'[t].open => /\ tcp[t].open /\ tcp'[t].conn = tcp[t].conn
                                            /\ (tcp[t].fin => tcp'[t].fin)
                                            /\ (t \in shut => t \in shut'),
           NEW n, NEW f,
           \/ rx'.kind # "tcp" /\ f = "none"
           \/ /\ rx'.kind = "tcp" /\ rx'.conn = tcp[s].conn /\ rx'.flags = f /\ rx'.len = n
              /\ f \notin {"none", "SYN_ACK"} /\ tcp[s].open,
           \/ f # "FIN_ACK" /\ (Single(s) /\ tcp[s].conn \in ended => n = 0)
           \/ f = "FIN_ACK" /\ ~tcp[s].fin /\ tcp'[s].fin /\ s \in shut'
    PROVE  FinInv'
<1>1. \A c, g : ~Pending(c, g)
  BY DEF NoFrame, Pending
<1>2. \A t \in Socks : Single(t) /\ tcp[t].conn \in ended => tcp[t].fin /\ t \in shut
  BY <1>1 DEF FinInv, FinRemembered, FinKnown
<1>3. ASSUME NEW t \in Socks, Single(t)'
      PROVE  /\ Single(t) /\ tcp'[t].conn = tcp[t].conn
             /\ (tcp[t].fin => tcp'[t].fin) /\ (t \in shut => t \in shut')
  BY <1>3 DEF Single
<1>4. ASSUME NEW t \in Socks, Single(t)', FinKnown(tcp[t].conn)'
      PROVE  tcp'[t].fin /\ t \in shut'
  <2>1. tcp'[t].conn = tcp[t].conn /\ Single(t)
    BY <1>3, <1>4
  <2>2. CASE tcp[t].conn \in ended
    BY <1>2, <1>3, <1>4, <2>1, <2>2
  <2>3. CASE tcp[t].conn \notin ended
    <3>1. /\ rx'.kind = "tcp" /\ rx'.flags = "FIN_ACK" /\ rx'.conn = tcp[t].conn
      BY <1>4, <2>1, <2>3 DEF FinKnown, Pending
    <3>2. f = "FIN_ACK" /\ tcp[s].conn = tcp[t].conn /\ tcp[s].open
      BY <3>1
    <3>3. s = t
      BY <2>1, <3>2 DEF IInv, OneSocket
    <3> QED
      BY <3>2, <3>3
  <2> QED
    BY <2>2, <2>3
<1>5. FinRemembered'
  BY <1>4 DEF FinRemembered
<1>6. NothingAfterFin'
  <2> SUFFICES ASSUME rx'.kind = "tcp", rx'.conn \in ended, rx'.conn \notin repeated
               PROVE  rx'.len = 0 /\ rx'.flags # "FIN_ACK"
    BY DEF NothingAfterFin
  <2>1. /\ rx'.conn = tcp[s].conn /\ rx'.flags = f /\ rx'.len = n /\ tcp[s].open
    OBVIOUS
  <2>2. Single(s) /\ tcp[s].fin
    BY <1>2, <2>1 DEF Single
  <2>3. QED
    BY <2>1, <2>2
<1>7. QED
  BY <1>5, <1>6 DEF FinInv

\* The SYN_ACK of a new socket begins another stream.
LEMMA FinSyn ==
    ASSUME IInv, FinInv, rx = NoFrame, UNCHANGED ended, NEW s \in Socks, NEW c \in Conns,
           \A t \in Socks \ {s} : tcp'[t] = tcp[t] /\ (t \in shut => t \in shut'),
           tcp'[s].conn = c,
           rx'.kind = "tcp", rx'.conn = c, rx'.flags = "SYN_ACK",
           repeated' = IF OpenFor(tcp, c) # {} THEN repeated \cup {c} ELSE repeated \ {c}
    PROVE  FinInv'
<1>1. \A d, g : ~Pending(d, g)
  BY DEF NoFrame, Pending
<1>2. ASSUME NEW t \in Socks, Single(t)', FinKnown(tcp[t].conn)'
      PROVE  tcp'[t].fin /\ t \in shut'
  <2>1. ~FinKnown(c)'
    BY DEF FinKnown, Pending
  <2>2. tcp'[t].conn # c
    BY <1>2, <2>1 DEF FinKnown
  <2>3. t # s /\ tcp'[t] = tcp[t] /\ (t \in shut => t \in shut')
    BY <2>2
  <2>4. Single(t) /\ tcp[t].conn \in ended
    BY <1>2, <2>2, <2>3 DEF Single, FinKnown, Pending
  <2> QED
    BY <1>1, <2>3, <2>4 DEF FinInv, FinRemembered, FinKnown
<1>3. FinRemembered'
  BY <1>2 DEF FinRemembered
<1>4. NothingAfterFin'
  BY DEF NothingAfterFin
<1>5. QED
  BY <1>3, <1>4 DEF FinInv

\* A step that changes neither the buffer nor what the guest has received.
LEMMA FinKeep ==
    ASSUME FinInv, UNCHANGED <<rx, ended, repeated>>,
           \A t \in Socks :
              tcp'[t].open => /\ tcp[t].open /\ tcp'[t].conn = tcp[t].conn
                              /\ tcp'[t].fin = tcp[t].fin /\ (t \in shut => t \in shut')
    PROVE  FinInv'
<1>1. \A c : FinKnown(c)' = FinKnown(c)
  BY DEF FinKnown, Pending
<1>2. ASSUME NEW t \in Socks, Single(t)', FinKnown(tcp[t].conn)'
      PROVE  tcp'[t].fin /\ t \in shut'
  <2>1. Single(t) /\ tcp'[t].conn = tcp[t].conn
    BY <1>2 DEF Single
  <2>2. FinKnown(tcp[t].conn)
    BY <1>1, <1>2, <2>1
  <2>3. tcp[t].fin /\ t \in shut
    BY <2>1, <2>2 DEF FinInv, FinRemembered
  <2> QED
    BY <1>2, <2>3 DEF Single
<1>3. FinRemembered'
  BY <1>2 DEF FinRemembered
<1>4. QED
  BY <1>3 DEF FinInv, NothingAfterFin

\* net_tx_frame keeps it: a SYN starts over, an answer carries no data.
LEMMA FinGuest ==
    ASSUME IInv, IInv', FinInv, net_tx_frame
    PROVE  FinInv'
<1>0. rx = NoFrame /\ UNCHANGED ended
  BY DEF net_tx_frame, tcp_syn, tcp_segment, udp_send, request, IInv, BufferFreeForGuest
<1>1. ASSUME NEW c \in Conns, tcp_syn(c) PROVE FinInv'
  <2>1. CASE UNCHANGED <<tcp, rx, shut, repeated>>
    BY <1>0, <2>1, FinKeep
  <2>2. CASE Free(tcp) # {} /\ ~UNCHANGED <<tcp, rx, shut, repeated, heard>>
    <3> DEFINE s == First(Free(tcp))
    <3>1. s \in Socks
      BY <2>2, FirstIsMember DEF Free
    <3>2. /\ tcp' = [tcp EXCEPT ![s] = [open |-> TRUE, conn |-> c, timeout |-> 0, fin |-> FALSE,
                                        ack_wait |-> 0, seq |-> SeqAfter(tcp[s].seq, 1)]]
          /\ rx' = [Reply(s, "SYN_ACK", 0) EXCEPT !.conn = c] /\ shut' = shut \ {s}
          /\ repeated' = IF OpenFor(tcp, c) # {} THEN repeated \cup {c} ELSE repeated \ {c}
      BY <1>1, <2>2 DEF tcp_syn
    <3> HIDE DEF s
    <3>3. /\ \A t \in Socks \ {s} : tcp'[t] = tcp[t] /\ (t \in shut => t \in shut')
          /\ tcp'[s].conn = c
      BY <3>1, <3>2 DEF IInv, TypeOK
    <3>4. rx'.kind = "tcp" /\ rx'.conn = c /\ rx'.flags = "SYN_ACK"
      BY <3>2 DEF Reply
    <3>5. QED
      BY <1>0, <3>1, <3>2, <3>3, <3>4, FinSyn
  <2>3. QED
    BY <1>1, <2>1, <2>2 DEF tcp_syn
<1>2. ASSUME NEW c \in Conns, NEW flags \in Flags, tcp_segment(c, flags) PROVE FinInv'
  <2>0. UNCHANGED <<shut, repeated>>
    BY <1>2 DEF tcp_segment
  <2>1. CASE OpenFor(tcp, c) = {}
    BY <1>0, <1>2, <2>0, <2>1, FinKeep DEF tcp_segment
  <2>2. CASE OpenFor(tcp, c) # {}
    <3> DEFINE s == First(OpenFor(tcp, c))
    <3>1. s \in Socks /\ tcp[s].open
      BY <2>2, FirstIsMember DEF OpenFor
    <3>2. PICK sent \in SendResults(flags) :
             \/ UNCHANGED <<tcp, rx>>
             \/ tcp' = [tcp EXCEPT ![s].ack_wait = 0] /\ UNCHANGED rx
             \/ tcp' = [tcp EXCEPT ![s].ack_wait = 0] /\ rx' = Reply(s, "ACK", 0)
             \/ /\ rx' = Reply(s, Farewell(s, flags), 0)
                /\ tcp' = [tcp EXCEPT ![s].open = FALSE, ![s].seq = Start(s),
                                      ![s].ack_wait = IF ~sent THEN 0 ELSE @]
      BY <1>2, <2>2 DEF tcp_segment
    <3> HIDE DEF s
    <3>3. \A t \in Socks : tcp'[t].open => /\ tcp[t].open /\ tcp'[t].conn = tcp[t].conn
                                            /\ tcp'[t].fin = tcp[t].fin
      BY <3>1, <3>2 DEF IInv, TypeOK, TcpSocket
    <3>4. CASE UNCHANGED rx
      BY <1>0, <2>0, <3>3, <3>4, FinKeep
    <3>5. ASSUME NEW f \in {"ACK", "RST_ACK"}, rx' = Reply(s, f, 0) PROVE FinInv'
      <4>1. rx'.kind = "tcp" /\ rx'.conn = tcp[s].conn /\ rx'.flags = f /\ rx'.len = 0
        BY <3>5 DEF Reply
      <4>2. QED
        BY <1>0, <2>0, <3>1, <3>3, <4>1, FinFill
    <3>6. Farewell(s, flags) \in {"ACK", "RST_ACK"}
      BY DEF Farewell
    <3>7. QED
      BY <3>2, <3>4, <3>5, <3>6
  <2>3. QED
    BY <2>1, <2>2
<1>3. ASSUME (\E f \in Flows : udp_send(f)) \/ request PROVE FinInv'
  <2>1. UNCHANGED <<tcp, shut, repeated>> /\ rx' \in {rx, OtherFrame}
    BY <1>3 DEF udp_send, request
  <2>2. rx'.kind # "tcp"
    BY <1>0, <2>1 DEF NoFrame, OtherFrame
  <2>3. 0 \in Socks
    BY NetAssumption DEF Socks
  <2>4. QED
    BY <1>0, <2>1, <2>2, <2>3, FinFill
<1>4. QED
  BY <1>1, <1>2, <1>3 DEF net_tx_frame

\* The poll keeps it: recv() keeps returning zero once the remote end has
\* closed, and the FIN goes out once.
LEMMA FinPoll ==
    ASSUME IInv, IInv', FinInv, NEW s \in Socks, net_check_udp_socket(s) \/ net_check_tcp_socket(s)
    PROVE  FinInv'
<1>0. rx = NoFrame /\ UNCHANGED <<ended, repeated, shut>>
  BY DEF net_check_udp_socket, net_check_tcp_socket, tcp_wait, tcp_recv_again, tcp_recv_error,
         tcp_recv_closed, tcp_recv_data, Receives, CheckingTcp
<1>1. CASE net_check_udp_socket(s)
  <2>1. UNCHANGED tcp /\ rx' \in {rx, OtherFrame}
    BY <1>1 DEF net_check_udp_socket
  <2>2. rx'.kind # "tcp"
    BY <1>0, <2>1 DEF NoFrame, OtherFrame
  <2>3. QED
    BY <1>0, <2>1, <2>2, FinFill
<1>2. ASSUME net_check_tcp_socket(s)
      PROVE  /\ tcp[s].open /\ \A t \in Socks \ {s} : tcp'[t] = tcp[t]
             /\ tcp'[s].open => (tcp[s].fin => tcp'[s].fin) /\ tcp'[s].conn = tcp[s].conn
  <2>0. tcp[s].open
    BY <1>2 DEF net_check_tcp_socket, tcp_wait, tcp_recv_again, tcp_recv_error,
         tcp_recv_closed, tcp_recv_data, Receives, CheckingTcp
  <2>1. tcp \in [Socks -> TcpSocket]
    BY DEF IInv, TypeOK
  <2>2. CASE tcp_wait(s)
    BY <2>0, <2>1, <2>2 DEF tcp_wait, TcpSocket
  <2>3. CASE tcp_recv_again(s)
    BY <2>0, <2>1, <2>3 DEF tcp_recv_again, TcpSocket
  <2>4. CASE tcp_recv_error(s)
    BY <2>0, <2>1, <2>4 DEF tcp_recv_error, net_tcp_close, TcpSocket
  <2>5. CASE tcp_recv_closed(s)
    BY <2>0, <2>1, <2>5 DEF tcp_recv_closed, TcpSocket
  <2>6. CASE tcp_recv_data(s)
    BY <2>0, <2>1, <2>6 DEF tcp_recv_data, TcpSocket
  <2>7. QED
    BY <1>2, <2>2, <2>3, <2>4, <2>5, <2>6 DEF net_check_tcp_socket
<1>3. CASE tcp_recv_closed(s) /\ ~tcp[s].fin
  <2>1. /\ tcp[s].open /\ \A t \in Socks \ {s} : tcp'[t] = tcp[t]
        /\ tcp'[s].open => (tcp[s].fin => tcp'[s].fin) /\ tcp'[s].conn = tcp[s].conn
    BY <1>2, <1>3 DEF net_check_tcp_socket
  <2>2. s \in shut /\ rx' = Reply(s, "FIN_ACK", 1) /\ tcp'[s].fin
    BY <1>3 DEF tcp_recv_closed, IInv, TypeOK, TcpSocket
  <2>3. rx'.kind = "tcp" /\ rx'.conn = tcp[s].conn /\ rx'.flags = "FIN_ACK" /\ rx'.len = 1
    BY <2>2 DEF Reply
  <2>4. QED
    BY <1>0, <1>3, <2>1, <2>2, <2>3, FinFill
<1>4. ASSUME net_check_tcp_socket(s), NEW n, NEW f \in {"PSH_ACK", "RST_ACK"},
             rx' = Reply(s, f, n), s \in shut => n = 0
      PROVE  FinInv'
  <2>1. /\ tcp[s].open /\ \A t \in Socks \ {s} : tcp'[t] = tcp[t]
        /\ tcp'[s].open => (tcp[s].fin => tcp'[s].fin) /\ tcp'[s].conn = tcp[s].conn
    BY <1>2, <1>4
  <2>2. rx'.kind = "tcp" /\ rx'.conn = tcp[s].conn /\ rx'.flags = f /\ rx'.len = n
    BY <1>4 DEF Reply
  <2>3. Single(s) /\ tcp[s].conn \in ended => s \in shut
    BY <1>0 DEF FinInv, FinRemembered, FinKnown, Pending, NoFrame
  <2>4. QED
    BY <1>0, <1>4, <2>1, <2>2, <2>3, FinFill
<1>5. ASSUME net_check_tcp_socket(s), rx' = rx PROVE FinInv'
  <2>1. /\ tcp[s].open /\ \A t \in Socks \ {s} : tcp'[t] = tcp[t]
        /\ tcp'[s].open => (tcp[s].fin => tcp'[s].fin) /\ tcp'[s].conn = tcp[s].conn
    BY <1>2, <1>5
  <2>2. rx'.kind # "tcp"
    BY <1>0, <1>5 DEF NoFrame
  <2>3. QED
    BY <1>0, <2>1, <2>2, FinFill
<1>6. CASE net_check_tcp_socket(s) /\ ~(tcp_recv_closed(s) /\ ~tcp[s].fin)
  <2>1. CASE tcp_recv_data(s)
    <3>1. PICK n \in IF s \in shut THEN {0} ELSE Payloads : rx' = Reply(s, "PSH_ACK", n)
      BY <2>1 DEF tcp_recv_data
    <3>2. s \in shut => n = 0
      BY <3>1
    <3>3. QED
      BY <1>4, <1>6, <3>1, <3>2
  <2>2. CASE rx' = Reply(s, "RST_ACK", 0)
    BY <1>4, <1>6, <2>2
  <2>3. CASE rx' = rx
    BY <1>5, <1>6, <2>3
  <2>4. QED
    BY <1>6, <2>1, <2>2, <2>3 DEF net_check_tcp_socket, tcp_wait, tcp_recv_again,
       tcp_recv_error, tcp_recv_closed
<1>7. QED
  BY <1>1, <1>3, <1>6

\* The delivery of a FIN ends the stream, that of a SYN_ACK begins another.
LEMMA FinDeliver ==
    ASSUME IInv, FinInv, dp8390_execute
    PROVE  FinInv'
<1>1. rx' = NoFrame /\ UNCHANGED <<tcp, shut, repeated>> /\ rx'.kind # "tcp"
  BY DEF dp8390_execute, NoFrame
<1>2. ASSUME NEW c, FinKnown(c)' PROVE FinKnown(c)
  BY <1>1, <1>2 DEF dp8390_execute, FinKnown, Pending
<1>3. \A t \in Socks : Single(t)' = Single(t)
  BY <1>1 DEF Single
<1>4. FinRemembered'
  BY <1>1, <1>2, <1>3 DEF FinInv, FinRemembered
<1>5. QED
  BY <1>1, <1>4 DEF FinInv, NothingAfterFin

LEMMA FinStep == IInv /\ FinInv /\ [Next]_vars => FinInv'
<1> SUFFICES ASSUME IInv, FinInv, [Next]_vars PROVE FinInv'
  OBVIOUS
<1>0. IInv'
  BY StepInv
<1>1. CASE \/ poll_start \/ poll_stop \/ poll_closed \/ UNCHANGED vars
           \/ \E s \in Socks : RemoteCloses(s)
  <2>1. UNCHANGED <<rx, ended, repeated, tcp>> /\ shut \subseteq shut'
    BY <1>1 DEF poll_start, poll_stop, poll_closed, RemoteCloses, vars
  <2>2. QED
    BY <2>1, FinKeep
<1>2. QED
  BY <1>0, <1>1, FinGuest, FinPoll, FinDeliver DEF Next, net_execute

\* Once the guest has the FIN of a connection it gets neither data nor a
\* second FIN on it, with any number of sockets, payloads and reuses, unless
\* it has opened the connection again over an open socket.
THEOREM FinSafe == Spec => []NothingAfterFin
<1>1. Init => FinInv
  BY DEF Init, FinInv, FinRemembered, Single, NothingAfterFin, NoFrame
<1>2. FinInv => NothingAfterFin
  BY DEF FinInv
<1>3. QED
  BY <1>1, <1>2, FinStep, Invariance, PTL DEF Spec
=============================================================================
