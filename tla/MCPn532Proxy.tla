---------------------------- MODULE MCPn532Proxy ----------------------------
(* Pn532Proxy for TLC.  The payloads have the lengths 1, 0xfe and 0xff (Top - *)
(* 1 and Top), the last two longer than one read; they hold the image of an   *)
(* ACK and that of another packet's header.                                   *)
EXTENDS Pn532Proxy

Payloads == {<<1, 5, 0>>, <<0, 5, 0, 5, 2, 0>>, <<0, 0, 5, 4, 2, 3, 0>>}
Short == {<<0, 0, 0>>, <<1, 5, 0>>}
=============================================================================
