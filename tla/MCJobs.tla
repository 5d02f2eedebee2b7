------------------------------- MODULE MCJobs -------------------------------
\* Model values, symmetry and scope for checking Jobs with TLC.
EXTENDS Jobs, TLC

\* Digests are only compared for equality, and clients only collected in sets.
Symmetry == Permutations(Digests) \cup Permutations(Clients)

DigestsInUse ==
    {spec[id].digest : id \in {j \in Ids : state[j] # "Absent"}}
      \cup IF call = NoCall THEN {} ELSE {call.digest}

\* bound: two workspaces on both lanes, with owned jobs and without leases.
LanesScope ==
    /\ next <= 4
    /\ call # NoCall => ~call.leased /\ (call.stage = "place" => next <= 3)
    /\ leases = {}
    /\ Cardinality(DigestsInUse) <= 2

\* bound: the jobs of one workspace, without owners and never retired, whose leases
\* go stale and lapse while they wait behind one another.
LeasesScope ==
    /\ \A id \in 1..(next - 1) : state[id] # "Absent" /\ Key(id) \in {1} \X LeasedStacks
    /\ call # NoCall => <<call.workspace, call.stack>> \in {1} \X LeasedStacks
    /\ \A id \in Ids : owners[id] = {}
    /\ gone = {}

Scope == LanesScope \/ LeasesScope

=============================================================================
