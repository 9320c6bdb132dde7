-------------------------- MODULE MCTaskManager --------------------------
(***************************************************************************)
(* Instances of TaskManager for TLC: the ridesharing engine on its own,    *)
(* and several engines behind the facade.                                   *)
(***************************************************************************)
EXTENDS TaskManager

CONSTANTS t1, t2, p1, p2

MCRideDomains == {"ridesharing"}
MCSomeDomains == {"ridesharing", "delivery", "cleaning", "moving"}

MCTasks    == {t1, t2}
MCOneTask  == {t1}
MCOneParty == {p1}
MCParties  == {p1, p2}
MCRideStates == StatesOf(Ridesharing)
MCState      == UNION {StatesOf(Builtin[d]) : d \in MCSomeDomains}

\* Bound: an id is in use in one domain at a time.
OneDomainPerId ==
    \A t \in Task : Cardinality({d \in Domain : Has(d, t)}) <= 1
=============================================================================
