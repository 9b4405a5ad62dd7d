----------------------------- MODULE MCConsole ------------------------------
(* Two letters, one of them shifted too, a control character, a special key, *)
(* and special and plain characters that the table does not have.            *)
EXTENDS Console

Key(kind, code) == [kind |-> kind, code |-> code]

MCChars ==
    { Key("plain", 30), Key("plain", 48), Key("shifted", 30), Key("control", 46),
      Key("special", 59), Key("special", 0), Key("plain", 0) }

\* Both properties say nothing of what follows the loss of a code.
NothingLost == ~lost
=============================================================================
