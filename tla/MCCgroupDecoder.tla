--------------------------- MODULE MCCgroupDecoder ---------------------------
(* Three cgroups; the first two are a service before and after a restart,    *)
(* under one path.                                                           *)
EXTENDS CgroupDecoder, TLC

CONSTANTS i1, i2, i3, sshd, cron

MCPaths == <<cron, sshd>>
MCPathOf == (i1 :> cron) @@ (i2 :> cron) @@ (i3 :> sshd)

=============================================================================
