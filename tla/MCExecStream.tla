---------------------------- MODULE MCExecStream ----------------------------
(* Small instances of ExecStream: a buffer of two events, so that a third
   evicts; fewer retries than events, so that the client can run out. *)
EXTENDS ExecStream

MCExitCodes == {0, 1}
MCAfterId == {"afterId"}
=============================================================================
