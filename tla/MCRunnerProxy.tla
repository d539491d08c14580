---------------------------- MODULE MCRunnerProxy ----------------------------
(* Every runner handler of the gateway, a log of up to two lines, and room  *)
(* for the error response of a failed log read to be written twice.          *)
EXTENDS RunnerProxy

MC_Handlers == ForwardHandlers \cup {LogsHandler}

=============================================================================
