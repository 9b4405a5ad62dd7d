------------------------------- MODULE MCEdfs -------------------------------
(* The instance of Edfs for TLC. The 8.3 form of the host name "long" is   *)
(* "LONG", which is another host name.                                     *)
EXTENDS Edfs

\* Two names that share an 8.3 form, for trees of depth two.
TwoNames == {"long", "LONG"}
TwoName83 == [long |-> "LONG", LONG |-> "LONG"]
TwoOrder == <<"long", "LONG">>
TwoSearches == [dirs : BOOLEAN, pattern : {{"LONG"}, {"LONG", ".", ".."}}]

\* No request depends on the last reply, and the invariants do not mention it.
StateView == <<fs, table, opened>>
=============================================================================
