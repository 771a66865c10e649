------------------------------- MODULE MCGsmMux -------------------------------
(* GsmMux with two channels, of which one is written to and closed. What is  *)
(* written is the flag that ends frames, and the image of a whole frame that *)
(* would open the other channel. A changed byte becomes another flag, an even *)
(* length, or one so huge that cur is negative.                              *)
EXTENDS GsmMux
Images == {<<20>>, <<20, 11, 5, 1, 6, 20>>}
Codes == {SABM, DISC, DISC + PF, UIH}
=============================================================================
