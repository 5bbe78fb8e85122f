--------------------------- MODULE MCPerfEventSink ---------------------------
(* Two label sets, a ring of two records. *)
EXTENDS PerfEventSink

=============================================================================
