----------------------------- MODULE SerialLine -----------------------------
(***************************************************************************)
(* What the serial passthrough promises: two first-in first-out lines of   *)
(* bounded capacity between the host TTY and the guest.  A byte that finds *)
(* its line full is lost; every other byte arrives once and in order.      *)
(***************************************************************************)
EXTENDS Integers, Sequences

CONSTANTS Capacity, Bytes, NoByte

VARIABLES
    to_guest, to_host,    \* bytes under way
    given, sent           \* last byte handed to the guest, to the host

vars == <<to_guest, to_host, given, sent>>

Init == /\ to_guest = <<>> /\ to_host = <<>>
        /\ given = NoByte /\ sent = NoByte

Offer(line, b) == IF Len(line) < Capacity THEN Append(line, b) ELSE line

Front(line) == IF line = <<>> THEN NoByte ELSE Head(line)
Rest(line) == IF line = <<>> THEN line ELSE Tail(line)

GuestReads ==
    /\ given' = Front(to_guest)
    /\ to_guest' = Rest(to_guest)
    /\ UNCHANGED <<to_host, sent>>

GuestWrites(b) ==
    /\ to_host' = Offer(to_host, b)
    /\ UNCHANGED <<to_guest, given, sent>>

\* The host side runs in both directions at once.
HostPolls(b) ==
    /\ to_guest' = IF b = NoByte THEN to_guest ELSE Offer(to_guest, b)
    /\ sent' = IF to_host = <<>> THEN sent ELSE Head(to_host)
    /\ to_host' = Rest(to_host)
    /\ UNCHANGED given

Next ==
    \/ GuestReads
    \/ \E b \in Bytes : GuestWrites(b)
    \/ \E b \in Bytes \cup {NoByte} : HostPolls(b)

Spec == Init /\ [][Next]_vars
=============================================================================
