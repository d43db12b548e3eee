------------------------------- MODULE MCMail -------------------------------
(* An instance of Mail.                                                    *)
EXTENDS Mail

CONSTANTS s1, s2, ann, bob

TwoSessions == {s1, s2}
AnnAndBob == {ann, bob}
=============================================================================
