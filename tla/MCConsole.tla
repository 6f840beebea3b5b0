----------------------------- MODULE MCConsole -----------------------------
(***************************************************************************)
(* A small instance of Console.                                            *)
(***************************************************************************)
EXTENDS Console

CONSTANTS k1, k2, e1

\* k1 is withdrawn.
OnlyK2 == {{k2}}

\* Bound: once a page has been opened, only a poll of the page and the dialog's
\* call are under way together; until then, any two polls of the fleet.
Together == {{"page", "push"}, {"page", "reload"}}
Sparse ==
    mount > 0 => \A s, t \in Slots :
        s # t /\ InUse(s) /\ InUse(t) => {net[s].kind, net[t].kind} \in Together

SparseFleetStep == FleetStep /\ Sparse'
SparsePageStep == PageStep /\ Sparse'

SparseFairness ==
    /\ SF_vars(SparseFleetStep) /\ SF_vars(SparsePageStep)
    /\ \A s \in Slots : WF_vars(Answered(s))
    /\ WF_vars(CloseDialog)

\* FairSpec without the steps to states that are not sparse: a timer that cannot
\* fire within the bound waits, as a call does that has no slot.
SparseSpec == Init /\ [][Next /\ Sparse']_vars /\ SparseFairness
=============================================================================
