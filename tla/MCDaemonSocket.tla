--------------------------- MODULE MCDaemonSocket ---------------------------
(* Two daemons, one of them of an older protocol, and two commands.        *)
EXTENDS DaemonSocket

CONSTANTS d1, d2, k1, k2

=============================================================================
