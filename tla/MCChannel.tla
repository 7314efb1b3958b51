----------------------------- MODULE MCChannel -----------------------------
(* The goroutines of one ByteChannel, for TLC.                             *)
EXTENDS ChannelCopy
============================================================================
