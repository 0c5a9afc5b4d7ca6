--------------------------- MODULE MCDaemonLifecycle ---------------------------
(* Two daemons on the same ports, or on ports of their own.                *)
EXTENDS DaemonLifecycle

CONSTANTS Shared   \* the starter of the run with faults, and a name for common ports

MCPort == [d \in Daemons |-> Shared]
MCOwnPort == [d \in Daemons |-> d]
MCUses == {[clients |-> Clients, faults |-> {}],
           [clients |-> {Shared} \cup Stoppers, faults |-> {"torn", "guard"}]}
MCTornUses == {[clients |-> Clients, faults |-> {"torn"}]}
=============================================================================
