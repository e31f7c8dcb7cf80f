--------------------------- MODULE MCBatchExport ---------------------------
(* BatchExport for TLC: both protocols, three places in a queue, two in a  *)
(* batch.                                                                  *)
EXTENDS BatchExport

MCProtocols == {"http", "grpc"}
=============================================================================
