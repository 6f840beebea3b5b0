--------------------------- MODULE MCOpampServer ---------------------------
(***************************************************************************)
(* Small instances of OpampServer for TLC.                                 *)
(***************************************************************************)
EXTENDS OpampServer

CONSTANTS a1, a2, c1, c2, r1, r2, k1, k2

OnlyA1 == [c \in Conns |-> {a1}]
OneEach == [c \in Conns |-> IF c = c2 THEN {a2} ELSE {a1}]
Multiplexed == [c \in Conns |-> Agents]

OwnAddress == [c \in Conns |-> c]

AllToA1 == [r \in Requests |-> a1]
EachToItsOwn == [r \in Requests |-> IF r = r2 THEN a2 ELSE a1]
FirstK1ThenBad == [r \in Requests |-> IF r = r1 THEN k1 ELSE BadBody]
FirstK1 == [r \in Requests |-> IF r = r1 THEN k1 ELSE k2]

Heartbeat(u) == [uid |-> u, desc |-> Omitted, status |-> Omitted]
Describe(u, p) == [uid |-> u, desc |-> p, status |-> Omitted]
Report(u, s, h) == [uid |-> u, desc |-> Omitted, status |-> [status |-> s, hash |-> h]]

\* Verdicts on configs a collector was sent.
Verdicts == {Heartbeat(u) : u \in Agents}
    \cup {Report(u, s, h) : u \in Agents, s \in {"APPLIED", "FAILED"}, h \in Configs}

\* Those, one report of progress and one that says nothing.
Reports == Verdicts
    \cup {Report(u, "APPLYING", k1) : u \in Agents} \cup {Report(u, "UNSET", NoHash) : u \in Agents}

Heartbeats == {Heartbeat(u) : u \in Agents}

\* A collector that tells what it is and applies what it is sent.
Acknowledgements == {Describe(u, p) : u \in Agents, p \in Ports}
    \cup {Report(u, "APPLIED", h) : u \in Agents, h \in Configs}

\* Time stands still: every agent stays fresh, so that runs about connections
\* and pushes do not multiply their states by every combination of ages. The
\* sweeper still runs; what it does as time passes is for the other runs.
UntimedNext ==
    \/ \E c \in Conns : AgentStep(c)
    \/ \E r \in Requests : PushStep(r)
    \/ SweepStep
    \/ Restart

UntimedSpec == Init /\ [][UntimedNext]_vars
=============================================================================
