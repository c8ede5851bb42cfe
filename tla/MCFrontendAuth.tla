--------------------------- MODULE MCFrontendAuth ---------------------------
(* A page with two calls under way at a time, in a browser of two users.    *)
EXTENDS FrontendAuth

CONSTANTS q1, q2, alice, bob

TwoCalls == {q1, q2}
TwoUsers == {alice, bob}
=============================================================================
