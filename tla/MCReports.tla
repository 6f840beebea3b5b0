----------------------------- MODULE MCReports -----------------------------
(***************************************************************************)
(* A small instance of Reports.                                            *)
(***************************************************************************)
EXTENDS Reports

CONSTANTS c1, c2

\* A service that says where it belongs, one whose pod is known as well, under
\* two values of its name, and one of which nothing is known any more.
Named == "service.name" :> "gw" @@ "service.namespace" :> "shop"
SomeDescs == {
    [identifying |-> Named, other |-> EmptyMap],
    [identifying |-> Named,
     other |-> "service.name" :> "raw" @@ "k8s.namespace.name" :> "prod"],
    [identifying |-> EmptyMap, other |-> "service.name" :> ""]}

\* Times: unset, less than a second, usual, and beyond int64.
SomeHealths == {
    [healthy |-> TRUE, lastError |-> "", start |-> 5],
    [healthy |-> FALSE, lastError |-> "oom", start |-> 9],
    [healthy |-> TRUE, lastError |-> "", start |-> 0]}

\* A config that failed to apply says why; one that did not has nothing to say.
SomeStatuses == {[failed |-> FALSE, errorMessage |-> ""],
                 [failed |-> TRUE, errorMessage |-> "bad"]}

SomeConfigs == {"" :> "otlp", "a" :> "otlp" @@ "b" :> "batch"}
=============================================================================
