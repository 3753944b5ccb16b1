----------------------------- MODULE MCKeyboard -----------------------------
(* The instance of Keyboard for TLC. *)
EXTENDS Keyboard
Modifiers == {"Caps", "LShift", "RAlt"}
=============================================================================
