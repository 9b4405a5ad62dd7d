------------------------------ MODULE MCI8237 -------------------------------
(* Bytes of two values, words of four; two pages of memory, the last word of *)
(* the first one ROM. The requests run into ROM, from page to page and past  *)
(* the end, both ways and with a mode that does not fit.                     *)
EXTENDS I8237

Ask(addr, page, count, mode, dir) ==
    [addr |-> addr, page |-> page, count |-> count, mode |-> mode, dir |-> dir]

MCRequests ==
    { Ask(1, 0, 3, "write", "write"), Ask(2, 0, 2, "read", "read"),
      Ask(3, 1, 1, "write", "write"), Ask(2, 1, 3, "read", "read"),
      Ask(0, 1, 0, "verify", "write"), Ask(3, 0, 2, "write", "read") }
=============================================================================
