----------------------------- MODULE MCChannels -----------------------------
(* TLC instances of Channels.                                              *)
EXTENDS Channels
=============================================================================
