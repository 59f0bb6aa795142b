----------------------------- MODULE MCTelemetry -----------------------------
(***************************************************************************)
(* Small instances of Telemetry.                                           *)
(***************************************************************************)
EXTENDS Telemetry

StopAndPause == {StopPipeline, StartPipeline, PauseBadly}
=============================================================================
