------------------------------ MODULE MCPreconfig ------------------------------
(* Preconfig with a diversified PICC key, two diversified application keys   *)
(* and a plain one: any runs of the tool, each ending anywhere.              *)
EXTENDS Preconfig
=============================================================================
