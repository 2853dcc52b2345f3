----------------------------- MODULE MCPairing -----------------------------
(***************************************************************************)
(* Pairing over a handful of ticks, with short windows and few codes.       *)
(***************************************************************************)
EXTENDS Pairing

\* 17_G0_PAIRING.md: "The first event opens a window using its own occurrence
\* identity; later events before the deadline reuse it, including across restart."
LaterEventsReuseWindow == why # "window"
=============================================================================
