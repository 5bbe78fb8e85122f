------------------------------ MODULE MCAttach ------------------------------
(* Two configurations, given once or the first of them twice; two of the     *)
(* four programs are perf event programs.                                    *)
EXTENDS Attach, TLC

CONSTANTS llcstat, timers, onMiss, onStart, onExpire, onReference

MCLists == {<<llcstat, timers>>, <<timers, llcstat>>, <<llcstat, timers, llcstat>>}
MCProgramsOf == (llcstat :> {onMiss, onReference}) @@ (timers :> {onStart, onExpire})

=============================================================================
