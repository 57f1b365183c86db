---------------------------- MODULE MCMailQueue ----------------------------
(* Small instances of MailQueue for TLC.                                    *)
EXTENDS MailQueue

CONSTANTS m1, m2, w1, w2

\* The delay grows.
MCBackoff == [n \in 1..MaxAttempts |-> n]
=============================================================================
