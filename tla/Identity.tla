------------------------------ MODULE Identity ------------------------------
(***************************************************************************)
(* Which registry owns what on one machine: how a starting daemon opens,   *)
(* restores, mints or refuses a registry identity (service.rs serve,       *)
(* registry_identity.rs), the machine catalog every daemon enrolls in      *)
(* (managed_retention/catalog.rs), the operator's `gc release-registry`,   *)
(* and the machine daemon's retention passes, which judge the objects of   *)
(* abandoned registries as their own (managed_retention/authority.rs).     *)
(*                                                                         *)
(* Every object is idle, unpinned and past its age gate: RetentionPlan     *)
(* models those gates.  A state directory may lose its database while its  *)
(* daemon is down; a daemon may die at any time.                           *)
(***************************************************************************)
EXTENDS Naturals, FiniteSets

CONSTANTS
    Dir,        \* state directories; one daemon runs in each
    Machine,    \* the native machine state directory
    Id,         \* registry ids that can be minted
    Obj,        \* labelled Docker objects
    MaxLosses,  \* database losses in one behaviour
    Nothing     \* no id, no entry, no label

Tombstone == "released"    \* a state directory this code never creates

IdentityAssumption ==
    /\ Machine \in Dir /\ MaxLosses \in Nat
    /\ Nothing \notin Id \union Dir /\ Tombstone \notin Dir

VARIABLES
    db,        \* [Dir -> Id or Nothing]: the identity in registry.sqlite3
    entry,     \* [Id -> Dir, Tombstone or Nothing]: the machine catalog
    daemon,    \* [Dir -> "down", "mint", "enroll" or "serving"]
    held,      \* [Dir -> Id or Nothing]: the identity the daemon serves under
    probed,    \* [Dir -> what the start-up probe read]
    label,     \* [Obj -> Id or Nothing]: the registry each object names
    releasing, \* ids `gc release-registry` has looked up and not yet written
    pass,      \* the machine daemon's retention pass
    past,      \* [Dir -> the ids its daemons ever served under]
    losses

idVars == <<db, entry, daemon, held, probed, label, releasing, pass, past, losses>>

NoPass == [on |-> FALSE, abandoned |-> {}, cleared |-> {}, emptied |-> {}]

IdentityInit ==
    /\ db = [d \in Dir |-> Nothing]
    /\ entry = [i \in Id |-> Nothing]
    /\ daemon = [d \in Dir |-> "down"]
    /\ held = [d \in Dir |-> Nothing]
    /\ probed = [d \in Dir |-> [ids |-> {}, complete |-> TRUE]]
    /\ label = [o \in Obj |-> Nothing]
    /\ releasing = {}
    /\ pass = NoPass
    /\ past = [d \in Dir |-> {}]
    /\ losses = 0

HasDatabase(d) == d \in Dir /\ db[d] # Nothing

Minted == {i \in Id : \E d \in Dir : i \in past[d] \/ db[d] = i}

-----------------------------------------------------------------------------
\* A daemon starts.

Opens(d, i) ==
    /\ db' = [db EXCEPT ![d] = i]
    /\ held' = [held EXCEPT ![d] = i]
    /\ past' = [past EXCEPT ![d] = @ \union {i}]
    /\ daemon' = [daemon EXCEPT ![d] = "enroll"]

\* The id the catalog remembers for d, when exactly one entry names it.
CatalogedIdentity(d) ==
    LET names == {i \in Id : entry[i] = d}
    IN  IF Cardinality(names) = 1 THEN names ELSE {}

Open(d) ==
    /\ daemon[d] = "down" /\ db[d] # Nothing
    /\ Opens(d, db[d])
    /\ UNCHANGED <<entry, probed, label, releasing, pass, losses>>

\* The database is missing but the catalog knows whose it was.
RestoreIdentity(d) ==
    /\ daemon[d] = "down" /\ db[d] = Nothing
    /\ \E i \in CatalogedIdentity(d) : Opens(d, i)
    /\ UNCHANGED <<entry, probed, label, releasing, pass, losses>>

\* Otherwise the engine is asked for objects of an earlier registry; each kind
\* of object is listed and inspected on its own, and any read may fail.
Probe(d) ==
    /\ daemon[d] = "down" /\ db[d] = Nothing /\ CatalogedIdentity(d) = {}
    /\ \E read \in SUBSET Obj :
           probed' = [probed EXCEPT ![d] = [ids |-> {label[o] : o \in read} \ {Nothing},
                                            complete |-> read = Obj]]
    /\ daemon' = [daemon EXCEPT ![d] = "mint"]
    /\ UNCHANGED <<db, entry, held, label, releasing, pass, past, losses>>

\* Registries of the catalog whose directory still has a database.
LivePeers == {i \in Id : HasDatabase(entry[i])}

\* Objects of unknown or abandoned registries refuse the start; an incomplete
\* probe is only logged.
RefuseMint(d) ==
    /\ daemon[d] = "mint" /\ ~(probed[d].ids \subseteq LivePeers)
    /\ daemon' = [daemon EXCEPT ![d] = "down"]
    /\ UNCHANGED <<db, entry, held, probed, label, releasing, pass, past, losses>>

Mint(d) ==
    /\ daemon[d] = "mint" /\ probed[d].ids \subseteq LivePeers
    /\ \E i \in Id \ Minted : Opens(d, i)
    /\ UNCHANGED <<entry, probed, label, releasing, pass, losses>>

\* enroll: nothing to write when the entry already names this directory.
Enroll(d) ==
    /\ daemon[d] = "enroll"
    /\ entry' = [entry EXCEPT ![held[d]] = d]
    /\ daemon' = [daemon EXCEPT ![d] = "serving"]
    /\ UNCHANGED <<db, held, probed, label, releasing, pass, past, losses>>

Dies(d) ==
    /\ daemon[d] # "down"
    /\ daemon' = [daemon EXCEPT ![d] = "down"]
    /\ held' = [held EXCEPT ![d] = Nothing]
    /\ pass' = IF d = Machine THEN NoPass ELSE pass
    /\ UNCHANGED <<db, entry, probed, label, releasing, past, losses>>

LoseDatabase(d) ==
    /\ daemon[d] = "down" /\ db[d] # Nothing /\ losses < MaxLosses
    /\ db' = [db EXCEPT ![d] = Nothing]
    /\ losses' = losses + 1
    /\ UNCHANGED <<entry, daemon, held, probed, label, releasing, pass, past>>

CreateObject(d, o) ==
    /\ daemon[d] = "serving" /\ label[o] = Nothing
    /\ label' = [label EXCEPT ![o] = held[d]]
    /\ UNCHANGED <<db, entry, daemon, held, probed, releasing, pass, past, losses>>

-----------------------------------------------------------------------------
\* gc release-registry: refused for the machine's own registry and for any
\* cataloged one; the lookup and the write of the tombstone are two steps.

ReleaseLookup(i) ==
    /\ i \in Minted /\ i # db[Machine] /\ entry[i] = Nothing
    /\ releasing' = releasing \union {i}
    /\ UNCHANGED <<db, entry, daemon, held, probed, label, pass, past, losses>>

ReleaseWrite(i) ==
    /\ i \in releasing
    /\ entry' = [entry EXCEPT ![i] = Tombstone]
    /\ releasing' = releasing \ {i}
    /\ UNCHANGED <<db, daemon, held, probed, label, pass, past, losses>>

-----------------------------------------------------------------------------
\* The machine daemon's retention pass.

\* Only a definite "no database there" abandons a cataloged registry.
Abandoned == {i \in Id : entry[i] # Nothing /\ i # db[Machine] /\ ~HasDatabase(entry[i])}

PassBegins ==
    /\ daemon[Machine] = "serving" /\ ~pass.on
    /\ pass' = [NoPass EXCEPT !.on = TRUE, !.abandoned = Abandoned]
    /\ UNCHANGED <<db, entry, daemon, held, probed, label, releasing, past, losses>>

\* revalidate loads the authority again for every candidate ...
PassProves(o) ==
    /\ pass.on /\ label[o] \in Abandoned \union ({db[Machine]} \ {Nothing})
    /\ pass' = [pass EXCEPT !.cleared = @ \union {o}]
    /\ UNCHANGED <<db, entry, daemon, held, probed, label, releasing, past, losses>>

\* ... and the removal follows.
PassRemoves(o) ==
    /\ pass.on /\ o \in pass.cleared
    /\ label' = [label EXCEPT ![o] = Nothing]
    /\ pass' = [pass EXCEPT !.cleared = @ \ {o}]
    /\ UNCHANGED <<db, entry, daemon, held, probed, releasing, past, losses>>

\* forget_emptied: entries of the registries abandoned when the pass began, once
\* the engine lists nothing that names them.
ReadEmptied(i) ==
    /\ pass.on /\ pass.cleared = {}
    /\ i \in pass.abandoned /\ \A o \in Obj : label[o] # i
    /\ pass' = [pass EXCEPT !.emptied = @ \union {i}, !.abandoned = @ \ {i}]
    /\ UNCHANGED <<db, entry, daemon, held, probed, label, releasing, past, losses>>

Forget(i) ==
    /\ i \in pass.emptied
    /\ entry' = [entry EXCEPT ![i] = Nothing]
    /\ pass' = [pass EXCEPT !.emptied = @ \ {i}]
    /\ UNCHANGED <<db, daemon, held, probed, label, releasing, past, losses>>

PassDone ==
    /\ pass.on /\ pass.cleared = {} /\ pass.emptied = {}
    /\ pass' = NoPass
    /\ UNCHANGED <<db, entry, daemon, held, probed, label, releasing, past, losses>>

Starting(d) == Open(d) \/ RestoreIdentity(d) \/ Probe(d) \/ RefuseMint(d) \/ Mint(d) \/ Enroll(d)

IdentityNext ==
    \/ \E d \in Dir : Starting(d) \/ Dies(d) \/ LoseDatabase(d)
    \/ \E d \in Dir, o \in Obj : CreateObject(d, o)
    \/ \E i \in Id : ReleaseLookup(i) \/ ReleaseWrite(i) \/ ReadEmptied(i) \/ Forget(i)
    \/ \E o \in Obj : PassProves(o) \/ PassRemoves(o)
    \/ PassBegins \/ PassDone

IdentitySpec == IdentityInit /\ [][IdentityNext]_idVars

-----------------------------------------------------------------------------
\* Properties.

\* Two state directories never hold the same registry identity, whatever was
\* lost, restored, released or forgotten: an identity is restored only where
\* the catalog saw it (catalog.rs cataloged_identity_at).
OneDirectoryPerIdentity ==
    \A d, e \in Dir : d # e /\ db[d] # Nothing => db[d] # db[e]

\* A daemon whose probe read everything never mints a fresh identity over
\* objects of an identity its own directory served under before: nothing could
\* reach them again (service.rs serve, registry_identity.rs).  What it probed
\* is still true when it mints, although others created objects since.
MintStep ==
    \A d \in Dir :
        daemon[d] = "mint" /\ daemon'[d] = "enroll" /\ probed[d].complete
            => \A o \in Obj : label[o] \notin past[d]
=============================================================================
