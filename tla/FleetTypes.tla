---------------------------- MODULE FleetTypes ----------------------------
(***************************************************************************)
(* The constants the parts of the fleet server share.                      *)
(***************************************************************************)
EXTENDS Naturals, GoMaps

CONSTANTS
    Agents,    \* instance uids
    Ports,     \* the metrics ports an AgentDescription may advertise
    Configs,   \* config bodies; a body also stands for its SHA-256 hash
    NoHash,    \* the empty hash: nothing pushed, or nothing to report
    Omitted    \* an optional message field that is absent

\* metricsPort is a uint16 whose 0 means "no metrics endpoint offered": the
\* attribute is absent, unparsable or zero.
NoPort == 0

ASSUME FleetConstants ==
    /\ Ports \subseteq Nat \ {NoPort}
    /\ NoHash \notin Configs
    /\ Omitted \notin Ports \cup {NoPort}
=============================================================================
