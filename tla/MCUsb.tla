------------------------------- MODULE MCUsb -------------------------------
(* The USB keyboard with no key, one key, and more keys than a report has  *)
(* room for: the last one comes with a modifier and with an internal code. *)
EXTENDS Usb

MCKeyStates == {{}, {4}, {4, 5, 29, 64, 65, 127, 130, 225, 241}}
MCNoKeys == {}
=============================================================================
