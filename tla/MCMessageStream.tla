---------------------------- MODULE MCMessageStream ----------------------------
(* Fragments of one to three bytes; the largest mtu is one more than a udp
   client's, and a recv returns up to one frame and a half. *)
EXTENDS MessageStream
================================================================================
