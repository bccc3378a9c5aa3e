------------------------------ MODULE MCSerial ------------------------------
(* Instances of SerialSystem for TLC. *)
EXTENDS SerialSystem

CONSTANTS d1, d2, usb, com1, com2

(* Two devices of one product. *)
Two == {d1, d2}
OneProduct == [d \in Two |-> usb]
TheirPorts == [d \in Two |-> IF d = d1 THEN com1 ELSE com2]
=============================================================================
