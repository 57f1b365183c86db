---------------------------- MODULE MCFootageJobs ----------------------------
(* Small instances of FootageJobs for TLC.                                  *)
EXTENDS FootageJobs

CONSTANTS v1, w1, w2
=============================================================================
