--------------------------- MODULE MCEdgePipeline ----------------------------
(***************************************************************************)
(* Every kind of admin command, against a few frames.                      *)
(***************************************************************************)
EXTENDS EdgePipeline

AllCommands == {StopPipeline, StartPipeline, Pause, PauseBadly, Retune, Status, Unknown}
=============================================================================
