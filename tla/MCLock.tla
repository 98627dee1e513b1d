------------------------------- MODULE MCLock -------------------------------
\* Two tasks that contend for kbd_sema; the first one also locks sys_sema.
EXTENDS KernelLock, TLC

CONSTANTS a, b

MCWanted == (a :> {Kbd, Sys}) @@ (b :> {Kbd})
=============================================================================
