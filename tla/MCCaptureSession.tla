-------------------------- MODULE MCCaptureSession --------------------------
(* CaptureSession for TLC: a stream of at most three positions.             *)
EXTENDS CaptureSession

StreamTimes == 0..3
=============================================================================
