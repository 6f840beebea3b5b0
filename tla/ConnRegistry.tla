---------------------------- MODULE ConnRegistry ----------------------------
(***************************************************************************)
(* The live-connection registry of internal/opampserver/registry.go: a Go  *)
(* map from instance uid to connEntry, guarded by one mutex. Each operator *)
(* is one critical section; OpampServer interleaves them.                  *)
(*                                                                         *)
(* The Go map is a function whose domain is a subset of Agents. Reading a  *)
(* missing key yields the zero connEntry, as in Go.                        *)
(***************************************************************************)
EXTENDS FleetTypes

CONSTANTS
    Conns,    \* WebSocket connections; a connection is never reused
    PeerIP,   \* [Conns -> addresses]: the peer address of the TCP connection
    NoConn,   \* the nil types.Connection
    NoIP      \* the empty remoteIP string

ASSUME RegistryConstants ==
    /\ NoConn \notin Conns
    /\ PeerIP \in [Conns -> {PeerIP[c] : c \in Conns}]

IPs == {PeerIP[c] : c \in Conns} \cup {NoIP}

ConnEntry == [conn : Conns \cup {NoConn}, remoteIP : IPs, metricsPort : Ports \cup {NoPort}]

\* Every value the Go map byUID can have.
Registries == Maps(Agents, ConnEntry)

\* r.byUID[uid] on a missing key is the zero value of connEntry.
EntryOf(byUID, u) ==
    IF u \in DOMAIN byUID THEN byUID[u]
    ELSE [conn |-> NoConn, remoteIP |-> NoIP, metricsPort |-> NoPort]

\* set: the port learned earlier survives, whichever connection taught it.
Set(byUID, u, c) ==
    Put(byUID, u, [conn |-> c, remoteIP |-> PeerIP[c],
                   metricsPort |-> EntryOf(byUID, u).metricsPort])

\* setMetricsPort: reads the whole entry and writes it back; on a missing key
\* that creates an entry without a connection.
SetMetricsPort(byUID, u, port) ==
    Put(byUID, u, [EntryOf(byUID, u) EXCEPT !.metricsPort = port])

\* The uids whose entry holds this very connection.
HeldBy(byUID, c) == {u \in DOMAIN byUID : byUID[u].conn = c}

\* Faulty removeByConn: the entry met first goes, whatever it holds.
RemoveAny(byUID, c) ==
    IF HeldBy(byUID, c) = {} THEN {byUID}
    ELSE {Delete(byUID, u) : u \in DOMAIN byUID}

\* Faulty removeByConn: no entry ever compares equal.
RemoveNothing(byUID, c) == {byUID}

\* removeByConn: deletes the first match the range loop meets and returns. Go
\* map order is unspecified, so with several matches any one may go.
RemoveByConn(byUID, c) ==
    IF HeldBy(byUID, c) = {} THEN {byUID}
    ELSE {Delete(byUID, u) : u \in HeldBy(byUID, c)}

\* snapshot: the scrape targets of every entry with a port and an address.
Snapshot(byUID) ==
    {[uid |-> u, remoteIP |-> byUID[u].remoteIP, port |-> byUID[u].metricsPort] :
        u \in {v \in DOMAIN byUID : /\ byUID[v].metricsPort # NoPort
                                    /\ byUID[v].remoteIP # NoIP}}
=============================================================================
