---- MODULE MCKeyboard ----
(***************************************************************************)
(* Keyboard with a pool of two events and a wire of two scancodes.         *)
(***************************************************************************)
EXTENDS Keyboard, TLC

CONSTANTS a, ctrl, lshift, rshift, caps, esc, r1, r2
====
