---------------------------- MODULE MCFrameQueue ----------------------------
(* Small instances of FrameQueue for TLC.                                   *)
EXTENDS FrameQueue

CONSTANTS w1, w2
=============================================================================
