---------------------------- MODULE MCGrayThread ----------------------------
(* Instances of GrayThread for TLC. *)
EXTENDS GrayThread
=============================================================================
