----------------------------- MODULE MCStreambuf -----------------------------
(* The streambuf of one fiber against an echo peer; the bounds are given  *)
(* in MCStreambuf.cfg.                                                     *)
EXTENDS Streambuf
=============================================================================
