----------------------------- MODULE MCWebsock -----------------------------
(***************************************************************************)
(* Frames of every opcode, masked and not, of lengths around the limits,   *)
(* scaled down: 3 bytes in 7 bits, 6 accepted, 7 in 16 bits.               *)
(***************************************************************************)
EXTENDS Websock

Frame(fin, op, mask, len) ==
    [fin |-> fin, op |-> op, rsv |-> FALSE, mask |-> mask, len |-> len]

MCFrames ==
    {Frame(TRUE, "text", TRUE, 3), Frame(FALSE, "text", TRUE, 5), Frame(FALSE, "text", FALSE, 0),
     Frame(TRUE, "continue", TRUE, 6), Frame(FALSE, "continue", FALSE, 1),
     Frame(TRUE, "binary", FALSE, 2), Frame(TRUE, "ping", TRUE, 2), Frame(TRUE, "pong", FALSE, 1),
     Frame(TRUE, "close", FALSE, 2), Frame(TRUE, "close", TRUE, 0), Frame(TRUE, "close", FALSE, 1),
     Frame(TRUE, "text", FALSE, 7), Frame(TRUE, "text", FALSE, 8), Frame(TRUE, "ping", FALSE, 4),
     Frame(FALSE, "ping", FALSE, 0), Frame(TRUE, "text", FALSE, 0),
     Frame(TRUE, "unknown", FALSE, 0), [Frame(TRUE, "text", FALSE, 1) EXCEPT !.rsv = TRUE]}
=============================================================================
