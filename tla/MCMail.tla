------------------------------- MODULE MCMail -------------------------------
(* Instances of Mail for TLC. *)
EXTENDS Mail
CONSTANTS s1, s2
OneSender == {s1}
TwoSenders == {s1, s2}
=============================================================================
