--------------------------- MODULE RegistryProofs ---------------------------
(***************************************************************************)
(* Proofs about the registry: the identities of module Identity, for any   *)
(* number of state directories, identities, objects and lost databases,    *)
(* and the move of a Python-v4 registry (module RegistryImport), for any   *)
(* number of importers, reconcilers, daemons, rows, files and changes from *)
(* outside.                                                                *)
(***************************************************************************)
EXTENDS Identity, RegistryImport, FiniteSetTheorems, TLAPS

Ids == Id \union {Nothing}

IdentityTypeOK ==
    /\ db \in [Dir -> Ids] /\ held \in [Dir -> Ids]
    /\ entry \in [Id -> Dir \union {Tombstone, Nothing}]
    /\ daemon \in [Dir -> {"down", "mint", "enroll", "serving"}]
    /\ probed \in [Dir -> [ids : SUBSET Id, complete : BOOLEAN]]
    /\ label \in [Obj -> Ids] /\ past \in [Dir -> SUBSET Id]

\* No identity was ever served by two directories.
PastsApart == \A d, e \in Dir : d # e => past[d] \intersect past[e] = {}

\* A directory's past is what its database, its daemon and the catalog know of it.
PastsKnow ==
    /\ \A d \in Dir : db[d] # Nothing => db[d] \in past[d]
    /\ \A d \in Dir : daemon[d] \in {"enroll", "serving"} => held[d] \in past[d]
    /\ \A i \in Id : entry[i] \in Dir => i \in past[entry[i]]

\* A daemon about to mint has no database, and what it read covers its past.
Minting ==
    \A d \in Dir : daemon[d] = "mint" =>
        /\ db[d] = Nothing
        /\ probed[d].complete =>
               \A o \in Obj : label[o] \in past[d] => label[o] \in probed[d].ids

IdInv == IdentityTypeOK /\ PastsApart /\ PastsKnow /\ Minting

-----------------------------------------------------------------------------

\* A directory opens an identity that no other one served under: its own, or a fresh one.
LEMMA OpensInv ==
    ASSUME IdentityAssumption, IdInv, NEW d \in Dir, NEW i \in Id,
           daemon[d] \in {"down", "mint"},
           \A e \in Dir \ {d} : i \notin past[e],
           Opens(d, i), UNCHANGED <<entry, probed, label>>
    PROVE  IdInv'
<1>1. /\ entry' = entry /\ probed' = probed /\ label' = label
      /\ db' = [db EXCEPT ![d] = i] /\ held' = [held EXCEPT ![d] = i]
      /\ past' = [past EXCEPT ![d] = past[d] \union {i}]
      /\ daemon' = [daemon EXCEPT ![d] = "enroll"]
  BY DEF Opens
<1>2. /\ db'[d] = i /\ held'[d] = i /\ past'[d] = past[d] \union {i} /\ daemon'[d] = "enroll"
      /\ \A e \in Dir \ {d} : /\ db'[e] = db[e] /\ held'[e] = held[e]
                              /\ past'[e] = past[e] /\ daemon'[e] = daemon[e]
  BY <1>1 DEF IdInv, IdentityTypeOK
<1>3. IdentityTypeOK'
  BY <1>1 DEF IdInv, IdentityTypeOK, Ids
<1>4. PastsApart'
  BY <1>2 DEF IdInv, PastsApart
<1>5. PastsKnow'
  <2>1. \A e \in Dir : past[e] \subseteq past'[e]
    BY <1>2
  <2> QED
    BY <1>1, <1>2, <2>1 DEF IdInv, PastsKnow
<1>6. Minting'
  BY <1>1, <1>2 DEF IdInv, Minting
<1> QED
  BY <1>3, <1>4, <1>5, <1>6 DEF IdInv

LEMMA StartingInv ==
    ASSUME IdentityAssumption, IdInv, NEW d \in Dir, Starting(d)
    PROVE  IdInv'
<1>1. CASE Open(d)
  <2>1. db[d] \in Id /\ \A e \in Dir \ {d} : db[d] \notin past[e]
    BY <1>1 DEF Open, IdInv, IdentityTypeOK, Ids, PastsKnow, PastsApart
  <2> QED
    BY <1>1, <2>1, OpensInv DEF Open
<1>2. CASE RestoreIdentity(d)
  <2>1. PICK i \in CatalogedIdentity(d) : Opens(d, i)
    BY <1>2 DEF RestoreIdentity
  <2>2. i \in Id /\ entry[i] = d
    BY <2>1 DEF CatalogedIdentity
  <2>3. \A e \in Dir \ {d} : i \notin past[e]
    BY <2>2 DEF IdInv, PastsKnow, PastsApart
  <2> QED
    BY <1>2, <2>1, <2>2, <2>3, OpensInv DEF RestoreIdentity
<1>3. CASE Mint(d)
  <2>1. PICK i \in Id \ Minted : Opens(d, i)
    BY <1>3 DEF Mint
  <2>2. \A e \in Dir : i \notin past[e]
    BY <2>1 DEF Minted
  <2> QED
    BY <1>3, <2>1, <2>2, OpensInv DEF Mint
<1>4. CASE Probe(d)
  <2>1. /\ db' = db /\ entry' = entry /\ held' = held /\ label' = label /\ past' = past
        /\ db[d] = Nothing /\ daemon' = [daemon EXCEPT ![d] = "mint"]
    BY <1>4 DEF Probe
  <2>2. PICK read \in SUBSET Obj :
          probed' = [probed EXCEPT ![d] = [ids |-> {label[o] : o \in read} \ {Nothing},
                                           complete |-> read = Obj]]
    BY <1>4 DEF Probe
  <2>3. PICK seen, all : /\ seen = {label[o] : o \in read} \ {Nothing} /\ all = (read = Obj)
                         /\ probed' = [probed EXCEPT ![d] = [ids |-> seen, complete |-> all]]
    BY <2>2
  <2>4. seen \in SUBSET Id
    BY <2>3 DEF IdInv, IdentityTypeOK, Ids
  <2>5. all \in BOOLEAN
    BY <2>3, Zenon
  <2>6. IdentityTypeOK'
    BY <2>1, <2>3, <2>4, <2>5 DEF IdInv, IdentityTypeOK
  <2>7. /\ probed'[d].ids = seen /\ probed'[d].complete = all /\ daemon'[d] = "mint"
        /\ \A e \in Dir \ {d} : probed'[e] = probed[e] /\ daemon'[e] = daemon[e]
    BY <2>1, <2>3 DEF IdInv, IdentityTypeOK
  <2>8. all => \A o \in Obj : label[o] \in past[d] => label[o] \in seen
    <3>1. \A o \in Obj : label[o] \in past[d] => label[o] # Nothing
      BY DEF IdInv, IdentityTypeOK, IdentityAssumption
    <3> QED
      BY <2>3, <3>1
  <2>9. PastsApart' /\ PastsKnow'
    BY <2>1, <2>7 DEF IdInv, PastsApart, PastsKnow
  <2>10. Minting'
    BY <2>1, <2>7, <2>8 DEF IdInv, Minting
  <2> QED
    BY <2>6, <2>9, <2>10 DEF IdInv
<1>5. CASE RefuseMint(d)
  <2>1. /\ db' = db /\ entry' = entry /\ held' = held /\ label' = label /\ past' = past
        /\ probed' = probed /\ daemon' = [daemon EXCEPT ![d] = "down"]
    BY <1>5 DEF RefuseMint
  <2>2. /\ IdentityTypeOK' /\ daemon'[d] = "down"
        /\ \A e \in Dir \ {d} : daemon'[e] = daemon[e]
    BY <2>1 DEF IdInv, IdentityTypeOK
  <2>3. PastsApart' /\ PastsKnow'
    BY <2>1, <2>2 DEF IdInv, PastsApart, PastsKnow
  <2>4. Minting'
    BY <2>1, <2>2 DEF IdInv, Minting
  <2> QED
    BY <2>2, <2>3, <2>4 DEF IdInv
<1>6. CASE Enroll(d)
  <2>1. /\ db' = db /\ held' = held /\ label' = label /\ past' = past /\ probed' = probed
        /\ daemon[d] = "enroll" /\ daemon' = [daemon EXCEPT ![d] = "serving"]
        /\ entry' = [entry EXCEPT ![held[d]] = d]
    BY <1>6 DEF Enroll
  <2>2. held[d] \in Id /\ held[d] \in past[d]
    BY <2>1 DEF IdInv, PastsKnow, IdentityTypeOK
  <2>3. /\ IdentityTypeOK' /\ daemon'[d] = "serving" /\ entry'[held[d]] = d
        /\ \A e \in Dir \ {d} : daemon'[e] = daemon[e]
        /\ \A i \in Id \ {held[d]} : entry'[i] = entry[i]
    BY <2>1, <2>2 DEF IdInv, IdentityTypeOK
  <2>4. PastsApart'
    BY <2>1 DEF IdInv, PastsApart
  <2>5. PastsKnow'
    BY <2>1, <2>2, <2>3 DEF IdInv, PastsKnow
  <2>6. Minting'
    BY <2>1, <2>3 DEF IdInv, Minting
  <2> QED
    BY <2>3, <2>4, <2>5, <2>6 DEF IdInv
<1> QED
  BY <1>1, <1>2, <1>3, <1>4, <1>5, <1>6 DEF Starting

LEMMA LosingInv ==
    ASSUME IdentityAssumption, IdInv, NEW d \in Dir, Dies(d) \/ LoseDatabase(d)
    PROVE  IdInv'
<1>1. CASE Dies(d)
  <2>1. /\ db' = db /\ entry' = entry /\ label' = label /\ past' = past /\ probed' = probed
        /\ daemon' = [daemon EXCEPT ![d] = "down"] /\ held' = [held EXCEPT ![d] = Nothing]
    BY <1>1 DEF Dies
  <2>2. /\ IdentityTypeOK' /\ daemon'[d] = "down"
        /\ \A e \in Dir \ {d} : daemon'[e] = daemon[e] /\ held'[e] = held[e]
    BY <2>1 DEF IdInv, IdentityTypeOK, Ids
  <2>3. PastsApart' /\ PastsKnow'
    BY <2>1, <2>2 DEF IdInv, PastsApart, PastsKnow
  <2>4. Minting'
    BY <2>1, <2>2 DEF IdInv, Minting
  <2> QED
    BY <2>2, <2>3, <2>4 DEF IdInv
<1>2. CASE LoseDatabase(d)
  <2>1. /\ entry' = entry /\ label' = label /\ past' = past /\ probed' = probed
        /\ daemon' = daemon /\ held' = held /\ db' = [db EXCEPT ![d] = Nothing]
    BY <1>2 DEF LoseDatabase
  <2>2. /\ IdentityTypeOK' /\ db'[d] = Nothing /\ \A e \in Dir \ {d} : db'[e] = db[e]
    BY <2>1 DEF IdInv, IdentityTypeOK, Ids
  <2>3. PastsApart' /\ PastsKnow'
    BY <2>1, <2>2 DEF IdInv, PastsApart, PastsKnow
  <2>4. Minting'
    BY <2>1, <2>2 DEF IdInv, Minting
  <2> QED
    BY <2>2, <2>3, <2>4 DEF IdInv
<1> QED
  BY <1>1, <1>2

\* An object that is created carries an identity of its daemon's directory, which is not
\* the one of a directory that is about to mint; an object that goes carries none.
LEMMA LabelInv ==
    ASSUME IdentityAssumption, IdInv,
           \/ \E d \in Dir, o \in Obj : CreateObject(d, o)
           \/ \E o \in Obj : PassRemoves(o)
    PROVE  IdInv'
<1>1. /\ db' = db /\ entry' = entry /\ held' = held /\ past' = past /\ probed' = probed
      /\ daemon' = daemon
  BY DEF CreateObject, PassRemoves
<1>2. PICK o \in Obj, i \in Ids :
        /\ label' = [label EXCEPT ![o] = i]
        /\ i # Nothing => \E d \in Dir : daemon[d] = "serving" /\ i \in past[d]
  <2>1. CASE \E d \in Dir, o \in Obj : CreateObject(d, o)
    <3>1. PICK d \in Dir, o \in Obj : CreateObject(d, o)
      BY <2>1
    <3>2. /\ label' = [label EXCEPT ![o] = held[d]] /\ daemon[d] = "serving"
          /\ held[d] \in past[d] /\ held[d] \in Ids
      BY <3>1 DEF CreateObject, IdInv, IdentityTypeOK, PastsKnow
    <3> QED
      BY <3>2
  <2>2. CASE \E o \in Obj : PassRemoves(o)
    BY <2>2 DEF PassRemoves, Ids
  <2> QED
    BY <2>1, <2>2
<1>3. /\ label' \in [Obj -> Ids] /\ label'[o] = i
      /\ \A p \in Obj \ {o} : label'[p] = label[p]
  BY <1>2 DEF IdInv, IdentityTypeOK
<1>4. IdentityTypeOK' /\ PastsApart' /\ PastsKnow'
  BY <1>1, <1>3 DEF IdInv, IdentityTypeOK, PastsApart, PastsKnow
<1>5. \A d \in Dir : daemon[d] = "mint" => i \notin past[d]
  BY <1>2 DEF IdInv, IdentityTypeOK, PastsApart, IdentityAssumption
<1>6. Minting'
  BY <1>1, <1>3, <1>5 DEF IdInv, Minting
<1> QED
  BY <1>4, <1>6 DEF IdInv

\* The catalog: a tombstone is not a directory, and forgetting an entry forgets no past.
LEMMA CatalogInv ==
    ASSUME IdentityAssumption, IdInv, NEW i \in Id, ReleaseWrite(i) \/ Forget(i)
    PROVE  IdInv'
<1>1. /\ db' = db /\ held' = held /\ past' = past /\ probed' = probed /\ daemon' = daemon
      /\ label' = label
  BY DEF ReleaseWrite, Forget
<1>2. PICK e \in {Tombstone, Nothing} : entry' = [entry EXCEPT ![i] = e]
  BY DEF ReleaseWrite, Forget
<1>3. /\ IdentityTypeOK' /\ entry'[i] \notin Dir /\ \A j \in Id \ {i} : entry'[j] = entry[j]
  BY <1>1, <1>2 DEF IdInv, IdentityTypeOK, IdentityAssumption
<1>4. PastsApart' /\ PastsKnow'
  BY <1>1, <1>3 DEF IdInv, PastsApart, PastsKnow
<1>5. Minting'
  BY <1>1 DEF IdInv, Minting
<1> QED
  BY <1>3, <1>4, <1>5 DEF IdInv

LEMMA AsideInv ==
    ASSUME IdInv, UNCHANGED <<db, entry, daemon, held, probed, label, past>>
    PROVE  IdInv'
  BY DEF IdInv, IdentityTypeOK, PastsApart, PastsKnow, Minting

LEMMA NextIdInv ==
    ASSUME IdentityAssumption, IdInv, [IdentityNext]_idVars
    PROVE  IdInv'
<1>1. CASE \E d \in Dir : Starting(d) \/ Dies(d) \/ LoseDatabase(d)
  BY <1>1, StartingInv, LosingInv
<1>2. CASE \/ \E d \in Dir, o \in Obj : CreateObject(d, o)
           \/ \E o \in Obj : PassRemoves(o)
  BY <1>2, LabelInv
<1>3. CASE \E i \in Id : ReleaseWrite(i) \/ Forget(i)
  BY <1>3, CatalogInv
<1>4. CASE \/ \E i \in Id : ReleaseLookup(i) \/ ReadEmptied(i)
           \/ \E o \in Obj : PassProves(o)
           \/ PassBegins \/ PassDone \/ UNCHANGED idVars
  <2>1. UNCHANGED <<db, entry, daemon, held, probed, label, past>>
    BY <1>4 DEF ReleaseLookup, ReadEmptied, PassProves, PassBegins, PassDone, idVars
  <2> QED
    BY <2>1, AsideInv
<1> QED
  BY <1>1, <1>2, <1>3, <1>4 DEF IdentityNext

LEMMA InitIdInv ==
    ASSUME IdentityAssumption, IdentityInit
    PROVE  IdInv
<1>1. /\ db = [d \in Dir |-> Nothing] /\ entry = [i \in Id |-> Nothing]
      /\ daemon = [d \in Dir |-> "down"] /\ held = [d \in Dir |-> Nothing]
      /\ probed = [d \in Dir |-> [ids |-> {}, complete |-> TRUE]]
      /\ label = [o \in Obj |-> Nothing] /\ past = [d \in Dir |-> {}]
  BY DEF IdentityInit
<1>2. IdentityTypeOK
  BY <1>1 DEF IdentityTypeOK, Ids
<1>3. PastsApart
  BY <1>1 DEF PastsApart
<1>4. Minting
  BY <1>1 DEF Minting
<1>5. PastsKnow
  BY <1>1 DEF PastsKnow, IdentityAssumption
<1> QED
  BY <1>2, <1>3, <1>4, <1>5 DEF IdInv

LEMMA SpecIdInv ==
    ASSUME IdentityAssumption
    PROVE  IdentitySpec => []IdInv
<1>1. IdentityInit => IdInv
  BY InitIdInv
<1>2. IdInv /\ [IdentityNext]_idVars => IdInv'
  BY NextIdInv
<1> QED
  BY <1>1, <1>2, PTL DEF IdentitySpec

\* service.rs serve, catalog.rs cataloged_identity_at: no two state directories hold one
\* registry identity, for any number of directories and identities, whatever databases are
\* lost and restored from the catalog, and whatever is enrolled, released or forgotten.
THEOREM IdentitiesApart ==
    ASSUME IdentityAssumption
    PROVE  IdentitySpec => []OneDirectoryPerIdentity
<1>1. IdInv => OneDirectoryPerIdentity
  BY DEF IdInv, PastsApart, PastsKnow, OneDirectoryPerIdentity
<1> QED
  BY <1>1, SpecIdInv, PTL

\* registry_identity.rs: a daemon that minted a fresh identity after a complete probe left
\* no object of an identity its directory had served under, although time passed between
\* the probe and the mint and other daemons created and removed objects meanwhile.
THEOREM MintStrandsNothing ==
    ASSUME IdentityAssumption
    PROVE  IdentitySpec => [][MintStep]_idVars
<1>1. IdInv /\ [IdentityNext]_idVars => [MintStep]_idVars
  <2> SUFFICES ASSUME IdInv, IdentityNext, NEW d \in Dir, daemon[d] = "mint", daemon'[d] = "enroll",
                      probed[d].complete, NEW o \in Obj, label[o] \in past[d]
               PROVE  FALSE
    BY DEF MintStep
  <2>1. Mint(d)
    <3>1. \A e \in Dir : Starting(e) => e = d /\ Mint(d)
      BY DEF Starting, Open, RestoreIdentity, Probe, RefuseMint, Mint, Enroll, Opens, IdInv,
                  IdentityTypeOK
    <3>2. \A e \in Dir : ~Dies(e) /\ ~LoseDatabase(e)
      BY DEF Dies, LoseDatabase, IdInv, IdentityTypeOK
    <3> QED
      BY <3>1, <3>2 DEF IdentityNext, CreateObject, ReleaseLookup, ReleaseWrite, ReadEmptied, Forget,
                        PassProves, PassRemoves, PassBegins, PassDone
  <2>2. label[o] \in Id /\ HasDatabase(entry[label[o]])
    BY <2>1 DEF Mint, LivePeers, IdInv, Minting
  <2>3. entry[label[o]] = d
    BY <2>2 DEF HasDatabase, IdInv, PastsKnow, PastsApart
  <2> QED
    BY <2>2, <2>3 DEF HasDatabase, IdInv, Minting
<1> QED
  BY <1>1, SpecIdInv, PTL DEF IdentitySpec

-----------------------------------------------------------------------------
(* The move of a registry. *)

RowsType == [active : SUBSET Rows, ambiguous : SUBSET Rows, blockers : BOOLEAN]

ProcType ==
    [at : {"idle", "snapshot", "owners", "publish", "lock", "create", "serving", "collect",
           "inspect", "done"},
     apply : BOOLEAN, snap : RowsType, id : Nat, todo : SUBSET Rows, proofs : SUBSET Rows,
     refused : BOOLEAN]

\* Everything but the processes.
PlacesTypeOK ==
    /\ old \in [closed : BOOLEAN, rows : RowsType, owner : {"none", "live", "dead"},
                marker : BOOLEAN, guard : Procs \union {"", "python"}]
    /\ disk \in [id : Nat, made : BOOLEAN, gate : BOOLEAN, rows : RowsType]
    /\ writer \in Procs \union {""}
    /\ files \in Nat /\ imported \subseteq 1 .. files /\ settled \subseteq 0 .. files

ImportTypeOK == PlacesTypeOK /\ proc \in [Procs -> ProcType]

\* A file is known only once it was made, and never again under another number.
KnownFiles == disk.id <= files /\ \A p \in Procs : proc[p].id <= files

\* Who may write the database has the writer lock, and who copies the old registry has its guard.
LocksHeld ==
    /\ \A p \in Procs : proc[p].at \in {"serving", "collect", "inspect"} => writer = p
    /\ \A p \in Procs : proc[p].at \in {"snapshot", "owners", "publish"} => old.guard = p

\* A copy stays current, since the old release cannot work while the guard is taken.
CopiesCurrent ==
    \A p \in Procs :
        /\ proc[p].at \in {"owners", "publish"} => proc[p].snap = old.rows
        /\ proc[p].at = "publish" => (old.owner = "live" => ~proc[p].snap.blockers)

\* An imported file without its gate was settled, and a file that its creator has not
\* finished was not imported.
GatesTrue ==
    /\ disk.id \in imported /\ ~disk.gate => disk.id \in settled
    /\ \A p \in Procs : proc[p].at = "create" => proc[p].id \notin imported

ServingSettled ==
    \A p \in Procs : proc[p].at = "serving" /\ proc[p].id \in imported => proc[p].id \in settled

RInv == ImportTypeOK /\ KnownFiles /\ LocksHeld /\ CopiesCurrent /\ GatesTrue /\ ServingSettled

-----------------------------------------------------------------------------

\* What every step leaves the processes that did not take it: the locks they hold, the old
\* registry while they guard it, and what is known of the files made so far.
Undisturbed(q) ==
    /\ writer = q => writer' = q
    /\ old.guard = q => old'.guard = q /\ old'.rows = old.rows
                        /\ (old'.owner = "live" => old.owner = "live")

FilesKept ==
    /\ files <= files' /\ disk'.id <= files'
    /\ \A i \in 0 .. files : i \in imported' => i \in imported
    /\ settled \subseteq settled'
    /\ disk'.id \in imported' /\ ~disk'.gate => disk'.id \in settled'

\* What a process that moved to s must be able to say of itself.
Entitled(p, s) ==
    /\ s.id <= files'
    /\ s.at \in {"serving", "collect", "inspect"} => writer' = p
    /\ s.at \in {"snapshot", "owners", "publish"} => old'.guard = p
    /\ s.at \in {"owners", "publish"} => s.snap = old'.rows
    /\ s.at = "publish" => (old'.owner = "live" => ~s.snap.blockers)
    /\ s.at = "create" => s.id \notin imported'
    /\ s.at = "serving" /\ s.id \in imported' => s.id \in settled'

\* A process that nobody disturbs stays entitled to its step.
LEMMA StillEntitled ==
    ASSUME RInv, PlacesTypeOK', FilesKept, NEW q \in Procs, Undisturbed(q)
    PROVE  Entitled(q, proc[q])
<1>1. /\ proc[q] \in ProcType /\ files \in Nat /\ files' \in Nat
      /\ proc[q].id \in Nat /\ proc[q].id <= files
  BY DEF RInv, ImportTypeOK, PlacesTypeOK, KnownFiles, ProcType
<1>2. files <= files' /\ settled \subseteq settled' /\ (proc[q].id \in imported' => proc[q].id \in imported)
  BY <1>1 DEF FilesKept
<1>3. proc[q].id <= files'
  BY <1>1, <1>2
<1>4. /\ proc[q].at \in {"serving", "collect", "inspect"} => writer' = q
      /\ proc[q].at \in {"snapshot", "owners", "publish"} =>
             /\ old'.guard = q /\ old'.rows = old.rows
             /\ old'.owner = "live" => old.owner = "live"
  BY DEF RInv, LocksHeld, Undisturbed
<1>5. /\ proc[q].at \in {"owners", "publish"} => proc[q].snap = old.rows
      /\ proc[q].at = "publish" => (old.owner = "live" => ~proc[q].snap.blockers)
  BY DEF RInv, CopiesCurrent
<1>6. /\ proc[q].at = "create" => proc[q].id \notin imported
      /\ proc[q].at = "serving" /\ proc[q].id \in imported => proc[q].id \in settled
  BY DEF RInv, GatesTrue, ServingSettled
<1> QED
  BY <1>2, <1>3, <1>4, <1>5, <1>6 DEF Entitled

LEMMA EntitledInv ==
    ASSUME PlacesTypeOK', FilesKept, proc' \in [Procs -> ProcType],
           \A q \in Procs : Entitled(q, proc'[q])
    PROVE  RInv'
<1>1. ImportTypeOK'
  BY DEF ImportTypeOK
<1>2. KnownFiles'
  BY DEF KnownFiles, FilesKept, Entitled
<1>3. LocksHeld'
  BY DEF LocksHeld, Entitled
<1>4. CopiesCurrent'
  BY DEF CopiesCurrent, Entitled
<1>5. GatesTrue' /\ ServingSettled'
  BY DEF GatesTrue, ServingSettled, FilesKept, Entitled
<1> QED
  BY <1>1, <1>2, <1>3, <1>4, <1>5 DEF RInv

\* A step of one process.
LEMMA MoveInv ==
    ASSUME RInv, NEW p \in Procs, NEW s \in ProcType, proc' = [proc EXCEPT ![p] = s],
           PlacesTypeOK', FilesKept, \A q \in Procs \ {p} : Undisturbed(q), Entitled(p, s)
    PROVE  RInv'
<1>1. proc \in [Procs -> ProcType]
  BY DEF RInv, ImportTypeOK
<1>2. proc' \in [Procs -> ProcType] /\ proc'[p] = s /\ \A q \in Procs \ {p} : proc'[q] = proc[q]
  BY <1>1
<1>3. \A q \in Procs \ {p} : Entitled(q, proc'[q])
  BY <1>2, StillEntitled
<1> QED
  BY <1>2, <1>3, EntitledInv

\* A step of the world around the processes.
LEMMA WorldInv ==
    ASSUME RInv, proc' = proc, PlacesTypeOK', FilesKept, \A q \in Procs : Undisturbed(q)
    PROVE  RInv'
<1>1. proc' \in [Procs -> ProcType] /\ \A q \in Procs : proc'[q] = proc[q]
  BY DEF RInv, ImportTypeOK
<1>2. \A q \in Procs : Entitled(q, proc'[q])
  BY <1>1, StillEntitled
<1> QED
  BY <1>1, <1>2, EntitledInv

LEMMA GateStays ==
    ASSUME RInv, disk'.id = disk.id, disk'.gate = disk.gate, UNCHANGED <<imported, settled, files>>
    PROVE  FilesKept
<1>1. imported' = imported /\ settled' = settled /\ files' = files
  OBVIOUS
<1>2. files \in Nat /\ disk.id <= files
  BY DEF RInv, ImportTypeOK, PlacesTypeOK, KnownFiles
<1>3. disk.id \in imported /\ ~disk.gate => disk.id \in settled
  BY DEF RInv, GatesTrue
<1> QED
  BY <1>1, <1>2, <1>3 DEF FilesKept

LEMMA FilesStay ==
    ASSUME RInv, UNCHANGED <<disk, imported, settled, files>>
    PROVE  FilesKept
BY GateStays

LEMMA FreshType == Fresh \in ProcType /\ Fresh.at = "idle" /\ Fresh.id = 0
BY DEF Fresh, ProcType, NoRows, RowsType

\* A process without locks, files or a copy is entitled to that.
LEMMA AtRest ==
    ASSUME PlacesTypeOK', NEW p, NEW s, s.at \in {"idle", "done"}, s.id = 0
    PROVE  Entitled(p, s)
<1>1. files' \in Nat
  BY DEF PlacesTypeOK
<1>2. s.id <= files'
  BY <1>1
<1> QED
  BY <1>2 DEF Entitled

\* Locks go with the process that held them, and with no other.
LEMMA DropFacts ==
    ASSUME ImportAssumption, RInv, NEW p \in Procs, Drop(p)
    PROVE  /\ \A q \in Procs \ {p} : Undisturbed(q)
           /\ old' \in [closed : BOOLEAN, rows : RowsType, owner : {"none", "live", "dead"},
                        marker : BOOLEAN, guard : Procs \union {"", "python"}]
           /\ writer' \in Procs \union {""}
<1>1. old \in [closed : BOOLEAN, rows : RowsType, owner : {"none", "live", "dead"},
               marker : BOOLEAN, guard : Procs \union {"", "python"}]
  BY DEF RInv, ImportTypeOK, PlacesTypeOK
<1>2. writer \in Procs \union {""} /\ writer' \in {writer, ""} /\ (writer # p => writer' = writer)
  BY DEF Drop, RInv, ImportTypeOK, PlacesTypeOK
<1>3. CASE old.guard = p
  <2>1. old' = [old EXCEPT !.guard = ""]
    BY <1>3 DEF Drop
  <2> QED
    BY <1>1, <1>2, <1>3, <2>1 DEF Undisturbed
<1>4. CASE old.guard # p
  <2>1. old' = old
    BY <1>4 DEF Drop
  <2> QED
    BY <1>1, <1>2, <1>4, <2>1 DEF Undisturbed
<1> QED
  BY <1>3, <1>4

\* A process that ends, for whatever reason and at whatever step.
LEMMA LeaveInv ==
    ASSUME ImportAssumption, RInv, NEW p \in Procs, Leave(p)
    PROVE  RInv'
<1>1. PICK a \in {"idle", "done"} : proc' = [proc EXCEPT ![p] = [Fresh EXCEPT !.at = a]]
  BY DEF Leave, Step
<1>2. /\ [Fresh EXCEPT !.at = a] \in ProcType /\ [Fresh EXCEPT !.at = a].at = a
      /\ [Fresh EXCEPT !.at = a].id = 0
  BY FreshType DEF ProcType
<1>3. Drop(p) /\ UNCHANGED <<disk, imported, settled, files>>
  BY DEF Leave
<1>4. PlacesTypeOK' /\ FilesKept
  BY <1>3, DropFacts, FilesStay DEF PlacesTypeOK, RInv, ImportTypeOK
<1>5. Entitled(p, [Fresh EXCEPT !.at = a])
  <2>1. PICK s : s = [Fresh EXCEPT !.at = a]
    OBVIOUS
  <2>2. s.at \in {"idle", "done"} /\ s.id = 0
    BY <1>2, <2>1
  <2>3. Entitled(p, s)
    BY <1>4, <2>2, AtRest
  <2> QED
    BY <2>1, <2>3
<1> QED
  BY <1>1, <1>2, <1>3, <1>4, <1>5, DropFacts, MoveInv

\* A step of one process that takes or changes neither lock nor file.
LEMMA QuietInv ==
    ASSUME RInv, NEW p \in Procs, NEW s \in ProcType, proc' = [proc EXCEPT ![p] = s],
           UNCHANGED <<old, writer, disk, imported, settled, files>>, Entitled(p, s)
    PROVE  RInv'
<1>1. PlacesTypeOK' /\ FilesKept
  BY FilesStay DEF PlacesTypeOK, RInv, ImportTypeOK
<1>2. \A q \in Procs : Undisturbed(q)
  BY DEF Undisturbed
<1> QED
  BY <1>1, <1>2, MoveInv

-----------------------------------------------------------------------------
(* The old release, the engine and the user.                               *)

\* The old release changes its registry only while nobody else has the guard.
LEMMA OldInv ==
    ASSUME ImportAssumption, RInv,
           OldTaskBegins \/ OldTaskDies \/ OldRelinquishes \/ OldReturns
           \/ \E r \in Rows : OldForgets(r)
    PROVE  RInv'
<1>1. /\ proc' = proc /\ writer' = writer /\ UNCHANGED <<disk, imported, settled, files>>
  BY DEF OldTaskBegins, OldTaskDies, OldRelinquishes, OldReturns, OldForgets, Turn
<1>2. old \in [closed : BOOLEAN, rows : RowsType, owner : {"none", "live", "dead"},
               marker : BOOLEAN, guard : Procs \union {"", "python"}]
  BY DEF RInv, ImportTypeOK, PlacesTypeOK
<1>3. \/ /\ old.guard \in {"", "python"}
         /\ old' \in [closed : BOOLEAN, rows : RowsType, owner : {"none", "live", "dead"},
                      marker : BOOLEAN, guard : Procs \union {"", "python"}]
      \/ old' = [old EXCEPT !.owner = "dead"]
  <2>1. CASE OldTaskBegins
    <3>1. old.guard = "python" /\ old' = [old EXCEPT !.owner = "live", !.rows.blockers = TRUE]
      BY <2>1 DEF OldTaskBegins
    <3> QED
      BY <1>2, <3>1 DEF RowsType
  <2>2. CASE OldTaskDies
    BY <2>2 DEF OldTaskDies
  <2>3. CASE OldRelinquishes
    BY <1>2, <2>3 DEF OldRelinquishes
  <2>4. CASE OldReturns
    BY <1>2, <2>4 DEF OldReturns
  <2>5. CASE \E r \in Rows : OldForgets(r)
    <3>1. PICK r \in Rows : OldForgets(r)
      BY <2>5
    <3>2. /\ old.guard = "python"
          /\ old' = [old EXCEPT !.rows.active = old.rows.active \ {r}, !.rows.blockers = FALSE,
                                !.owner = "none"]
      BY <3>1 DEF OldForgets
    <3> QED
      BY <1>2, <3>2 DEF RowsType
  <2> QED
    BY <2>1, <2>2, <2>3, <2>4, <2>5
<1>4. \A q \in Procs : Undisturbed(q)
  BY <1>1, <1>2, <1>3 DEF Undisturbed, ImportAssumption
<1>5. PlacesTypeOK'
  BY <1>1, <1>2, <1>3 DEF PlacesTypeOK, RInv, ImportTypeOK
<1> QED
  BY <1>1, <1>4, <1>5, FilesStay, WorldInv

LEMMA OutsideInv ==
    ASSUME RInv, LoseFile \/ \E r \in Rows, now \in {"own", "foreign", "absent"} : DockerChanges(r, now)
    PROVE  RInv'
<1>1. proc' = proc /\ old' = old /\ writer' = writer /\ UNCHANGED <<imported, settled, files>>
  BY DEF LoseFile, DockerChanges, Turn
<1>2. disk' \in {disk, NoFile}
  BY DEF LoseFile, DockerChanges, Turn
<1>3. NoFile \in [id : Nat, made : BOOLEAN, gate : BOOLEAN, rows : RowsType] /\ NoFile.id = 0
  BY DEF NoFile, NoRows, RowsType
<1>4. PlacesTypeOK'
  BY <1>1, <1>2, <1>3 DEF PlacesTypeOK, RInv, ImportTypeOK
<1>5. FilesKept
  <2>1. CASE disk' = disk
    BY <1>1, <2>1, FilesStay
  <2>2. CASE disk' = NoFile
    <3>0. files \in Nat /\ imported \subseteq 1 .. files
      BY DEF RInv, ImportTypeOK, PlacesTypeOK
    <3>1. files \in Nat /\ 0 \notin imported
      BY <3>0
    <3>2. disk'.id = 0 /\ disk'.id <= files' /\ files <= files'
      BY <1>1, <1>3, <2>2, <3>1
    <3> QED
      BY <1>1, <3>1, <3>2 DEF FilesKept
  <2> QED
    BY <1>2, <2>1, <2>2
<1>6. \A q \in Procs : Undisturbed(q)
  BY <1>1 DEF Undisturbed
<1> QED
  BY <1>1, <1>4, <1>5, <1>6, WorldInv

-----------------------------------------------------------------------------
(* The importer.                                                           *)

LEMMA ProcFacts ==
    ASSUME RInv, NEW p \in Procs
    PROVE  /\ proc[p] \in ProcType
           /\ proc[p].id \in Nat /\ proc[p].id <= files /\ proc[p].snap \in RowsType
BY DEF RInv, ImportTypeOK, KnownFiles, ProcType

\* The guard is taken from nobody.
LEMMA TakeGuardInv ==
    ASSUME ImportAssumption, RInv, NEW p \in Importers, TakeGuard(p)
    PROVE  RInv'
<1>1. p \in Procs
  BY DEF Procs
<1>2. CASE old.guard = "" /\ old.marker
  <2>1. PICK s : s = [Fresh EXCEPT !.at = "snapshot"]
    OBVIOUS
  <2>2. s \in ProcType /\ s.at = "snapshot" /\ s.id = 0
    BY <2>1, FreshType DEF ProcType
  <2>3. /\ proc' = [proc EXCEPT ![p] = s] /\ old' = [old EXCEPT !.guard = p] /\ writer' = writer
        /\ UNCHANGED <<disk, imported, settled, files>>
    BY <1>2, <2>1 DEF TakeGuard, Step
  <2>4. PlacesTypeOK' /\ old'.guard = p
    BY <1>1, <2>3 DEF PlacesTypeOK, RInv, ImportTypeOK
  <2>5. \A q \in Procs \ {p} : Undisturbed(q)
    BY <1>2, <2>3 DEF Undisturbed, ImportAssumption
  <2>6. Entitled(p, s)
    <3>0. files' \in Nat
      BY <2>4 DEF PlacesTypeOK
    <3>1. s.id <= files'
      BY <2>2, <3>0
    <3> QED
      BY <2>2, <2>4, <3>1 DEF Entitled
  <2> QED
    BY <1>1, <2>2, <2>3, <2>4, <2>5, <2>6, FilesStay, MoveInv
<1>3. CASE ~(old.guard = "" /\ old.marker)
  BY <1>1, <1>3, LeaveInv DEF TakeGuard
<1> QED
  BY <1>2, <1>3

LEMMA BackupSourceInv ==
    ASSUME ImportAssumption, RInv, NEW p \in Importers, BackupSource(p)
    PROVE  RInv'
<1>1. p \in Procs
  BY DEF Procs
<1>2. CASE ValidV4Schema
  <2>1. PICK s : s = [proc[p] EXCEPT !.at = "owners", !.snap = old.rows]
    OBVIOUS
  <2>2. s \in ProcType /\ s.at = "owners" /\ s.id = proc[p].id /\ s.snap = old.rows
    BY <1>1, <2>1, ProcFacts DEF ProcType, RInv, ImportTypeOK, PlacesTypeOK
  <2>3. /\ proc' = [proc EXCEPT ![p] = s]
        /\ UNCHANGED <<old, writer, disk, imported, settled, files>>
    BY <1>2, <2>1 DEF BackupSource, Step
  <2>4. old.guard = p
    BY <1>1 DEF BackupSource, RInv, LocksHeld
  <2>5. Entitled(p, s)
    BY <1>1, <2>2, <2>3, <2>4, ProcFacts DEF Entitled
  <2> QED
    BY <1>1, <2>2, <2>3, <2>5, QuietInv
<1>3. CASE ~ValidV4Schema
  BY <1>1, <1>3, LeaveInv DEF BackupSource
<1> QED
  BY <1>2, <1>3

LEMMA ValidateOwnersInv ==
    ASSUME ImportAssumption, RInv, NEW p \in Importers, ValidateOwners(p)
    PROVE  RInv'
<1>1. p \in Procs
  BY DEF Procs
<1>2. CASE ~(proc[p].snap.blockers /\ old.owner = "live")
  <2>1. PICK s : s = [proc[p] EXCEPT !.at = "publish"]
    OBVIOUS
  <2>2. s \in ProcType /\ s.at = "publish" /\ s.id = proc[p].id /\ s.snap = proc[p].snap
    BY <1>1, <2>1, ProcFacts DEF ProcType
  <2>3. /\ proc' = [proc EXCEPT ![p] = s]
        /\ UNCHANGED <<old, writer, disk, imported, settled, files>>
    BY <1>2, <2>1 DEF ValidateOwners, Step
  <2>4. old.guard = p /\ proc[p].snap = old.rows
    BY <1>1 DEF ValidateOwners, RInv, LocksHeld, CopiesCurrent
  <2>5. Entitled(p, s)
    BY <1>1, <1>2, <2>2, <2>3, <2>4, ProcFacts DEF Entitled
  <2> QED
    BY <1>1, <2>2, <2>3, <2>5, QuietInv
<1>3. CASE proc[p].snap.blockers /\ old.owner = "live"
  BY <1>1, <1>3, LeaveInv DEF ValidateOwners
<1> QED
  BY <1>2, <1>3

\* A file that appears has a number nobody knows, and an imported one has its gate.
LEMMA NewFile ==
    ASSUME RInv, files' = files + 1, settled' = settled,
           imported' = imported \/ (imported' = imported \union {files + 1} /\ disk'.gate),
           disk' \in [id : Nat, made : BOOLEAN, gate : BOOLEAN, rows : RowsType],
           disk'.id = files + 1
    PROVE  /\ FilesKept /\ files' \in Nat /\ imported' \subseteq 1 .. files'
           /\ settled' \subseteq 0 .. files' /\ files + 1 \notin imported
<1>1. files \in Nat /\ imported \subseteq 1 .. files /\ settled \subseteq 0 .. files
  BY DEF RInv, ImportTypeOK, PlacesTypeOK
<1>2. files + 1 \notin imported
  BY <1>1
<1>3. FilesKept
  BY <1>1, <1>2 DEF FilesKept
<1>4. files' \in Nat /\ 1 .. files \subseteq 1 .. files' /\ files + 1 \in 1 .. files'
  BY <1>1
<1>5. imported' \subseteq 1 .. files'
  BY <1>1, <1>4
<1>6. settled' \subseteq 0 .. files'
  BY <1>1
<1> QED
  BY <1>2, <1>3, <1>4, <1>5, <1>6

LEMMA PublishImportInv ==
    ASSUME ImportAssumption, RInv, NEW p \in Importers, PublishImport(p)
    PROVE  RInv'
<1>1. p \in Procs
  BY DEF Procs
<1>2. CASE disk.id = 0
  <2>1. PICK s : s = [Fresh EXCEPT !.at = "done"]
    OBVIOUS
  <2>2. s \in ProcType /\ s.at = "done" /\ s.id = 0
    BY <2>1, FreshType DEF ProcType
  <2>3. /\ proc' = [proc EXCEPT ![p] = s] /\ Drop(p) /\ settled' = settled
        /\ disk' = [id |-> files + 1, made |-> TRUE, gate |-> TRUE, rows |-> proc[p].snap]
        /\ imported' = imported \union {files + 1} /\ files' = files + 1
    BY <1>2, <2>1 DEF PublishImport, Step
  <2>4. /\ disk' \in [id : Nat, made : BOOLEAN, gate : BOOLEAN, rows : RowsType]
        /\ disk'.id = files + 1 /\ disk'.gate
    <3>0. files \in Nat
      BY DEF RInv, ImportTypeOK, PlacesTypeOK
    <3>1. files + 1 \in Nat
      BY <3>0
    <3>2. proc[p].snap \in RowsType
      BY <1>1, ProcFacts
    <3> QED
      BY <2>3, <3>1, <3>2
  <2>5. PlacesTypeOK' /\ FilesKept
    BY <1>1, <2>3, <2>4, DropFacts, NewFile DEF PlacesTypeOK
  <2>6. Entitled(p, s)
    BY <2>2, <2>5, AtRest
  <2> QED
    BY <1>1, <2>2, <2>3, <2>5, <2>6, DropFacts, MoveInv
<1>3. CASE disk.id # 0
  BY <1>1, <1>3, LeaveInv DEF PublishImport
<1> QED
  BY <1>2, <1>3

-----------------------------------------------------------------------------
(* Daemons and reconcilers.                                                *)

LEMMA OpenProbeInv ==
    ASSUME ImportAssumption, RInv, NEW p \in Procs, NEW reconciling \in BOOLEAN, OpenProbe(p, reconciling)
    PROVE  RInv'
<1>1. CASE Valid(reconciling)
  <2>1. PICK apply \in BOOLEAN : Step(p, [Fresh EXCEPT !.at = "lock", !.id = disk.id, !.apply = apply])
    BY <1>1 DEF OpenProbe, ReconcileVerbs
  <2>2. PICK s : s = [Fresh EXCEPT !.at = "lock", !.id = disk.id, !.apply = apply]
    OBVIOUS
  <2>3. disk.id \in Nat /\ disk.id <= files
    BY DEF RInv, ImportTypeOK, PlacesTypeOK, KnownFiles
  <2>4. s \in ProcType /\ s.at = "lock" /\ s.id = disk.id
    BY <2>2, <2>3, FreshType DEF ProcType
  <2>5. proc' = [proc EXCEPT ![p] = s] /\ UNCHANGED <<old, writer, disk, imported, settled, files>>
    BY <1>1, <2>1, <2>2 DEF OpenProbe, Step
  <2>6. Entitled(p, s)
    BY <2>3, <2>4, <2>5 DEF Entitled
  <2> QED
    BY <2>4, <2>5, <2>6, QuietInv
<1>2. CASE ~Valid(reconciling)
  BY <1>2, LeaveInv DEF OpenProbe
<1> QED
  BY <1>1, <1>2

\* The writer lock is taken from nobody, and by a daemon only for a file without a gate.
LEMMA AcquireWriterLockInv ==
    ASSUME ImportAssumption, RInv, NEW p \in Procs, NEW reconciling \in BOOLEAN,
           NEW next \in {"collect", "serving"}, next = "serving" => ~reconciling,
           AcquireWriterLock(p, reconciling, next)
    PROVE  RInv'
<1>1. CASE writer = "" /\ disk.id = proc[p].id /\ Valid(reconciling)
  <2>1. PICK s : s = [proc[p] EXCEPT !.at = next]
    OBVIOUS
  <2>2. s \in ProcType /\ s.at = next /\ s.id = proc[p].id /\ s.id <= files
    BY <2>1, ProcFacts DEF ProcType
  <2>3. /\ proc' = [proc EXCEPT ![p] = s] /\ writer' = p /\ old' = old
        /\ UNCHANGED <<disk, imported, settled, files>>
    BY <1>1, <2>1 DEF AcquireWriterLock, Step
  <2>4. PlacesTypeOK'
    BY <2>3 DEF PlacesTypeOK, RInv, ImportTypeOK
  <2>5. \A q \in Procs \ {p} : Undisturbed(q)
    BY <1>1, <2>3 DEF Undisturbed, ImportAssumption
  <2>6. next = "serving" /\ s.id \in imported => s.id \in settled
    BY <1>1, <2>2 DEF Valid, RInv, GatesTrue
  <2>7. Entitled(p, s)
    BY <2>2, <2>3, <2>6 DEF Entitled
  <2> QED
    BY <2>2, <2>3, <2>4, <2>5, <2>7, FilesStay, MoveInv
<1>2. CASE ~(writer = "" /\ disk.id = proc[p].id /\ Valid(reconciling))
  BY <1>2, LeaveInv DEF AcquireWriterLock
<1> QED
  BY <1>1, <1>2

LEMMA CreateFileInv ==
    ASSUME ImportAssumption, RInv, NEW p \in Procs, CreateFile(p)
    PROVE  RInv'
<1>1. PICK s : s = [Fresh EXCEPT !.at = "create", !.id = files + 1]
  OBVIOUS
<1>2. files \in Nat /\ files + 1 \in Nat
  <2>1. files \in Nat
    BY DEF RInv, ImportTypeOK, PlacesTypeOK
  <2> QED
    BY <2>1
<1>3. s \in ProcType /\ s.at = "create" /\ s.id = files + 1
  BY <1>1, <1>2, FreshType DEF ProcType
<1>4. /\ proc' = [proc EXCEPT ![p] = s] /\ disk' = [NoFile EXCEPT !.id = files + 1]
      /\ files' = files + 1 /\ UNCHANGED <<old, writer, imported, settled>>
  BY <1>1 DEF CreateFile, Step
<1>5. disk' \in [id : Nat, made : BOOLEAN, gate : BOOLEAN, rows : RowsType] /\ disk'.id = files + 1
  BY <1>2, <1>4 DEF NoFile, NoRows, RowsType
<1>6. PlacesTypeOK' /\ FilesKept /\ files + 1 \notin imported
  BY <1>4, <1>5, NewFile DEF PlacesTypeOK, RInv, ImportTypeOK
<1>7. \A q \in Procs : Undisturbed(q)
  BY <1>4 DEF Undisturbed
<1>8. Entitled(p, s)
  <2>1. s.id <= files'
    BY <1>2, <1>3, <1>4
  <2> QED
    BY <1>3, <1>4, <1>6, <2>1 DEF Entitled
<1> QED
  BY <1>3, <1>4, <1>6, <1>7, <1>8, MoveInv

LEMMA CreateWriterInv ==
    ASSUME ImportAssumption, RInv, NEW p \in Procs, CreateWriter(p)
    PROVE  RInv'
<1>1. CASE writer = "" /\ disk.id = proc[p].id
  <2>1. PICK s : s = [proc[p] EXCEPT !.at = "serving"]
    OBVIOUS
  <2>2. s \in ProcType /\ s.at = "serving" /\ s.id = proc[p].id /\ s.id <= files
    BY <2>1, ProcFacts DEF ProcType
  <2>3. /\ proc' = [proc EXCEPT ![p] = s] /\ writer' = p /\ old' = old
        /\ disk' = [disk EXCEPT !.made = TRUE] /\ UNCHANGED <<imported, settled, files>>
    BY <1>1, <2>1 DEF CreateWriter, Step
  <2>4. /\ disk' \in [id : Nat, made : BOOLEAN, gate : BOOLEAN, rows : RowsType]
        /\ disk'.id = disk.id /\ disk'.gate = disk.gate
    BY <2>3 DEF RInv, ImportTypeOK, PlacesTypeOK
  <2>5. PlacesTypeOK'
    BY <2>3, <2>4 DEF PlacesTypeOK, RInv, ImportTypeOK
  <2>6. FilesKept
    BY <2>3, <2>4, GateStays
  <2>7. \A q \in Procs \ {p} : Undisturbed(q)
    BY <1>1, <2>3 DEF Undisturbed, ImportAssumption
  <2>8. s.id \notin imported
    BY <2>2 DEF CreateWriter, RInv, GatesTrue
  <2>9. Entitled(p, s)
    BY <2>2, <2>3, <2>8 DEF Entitled
  <2> QED
    BY <2>2, <2>3, <2>5, <2>6, <2>7, <2>9, MoveInv
<1>2. CASE ~(writer = "" /\ disk.id = proc[p].id)
  BY <1>2, LeaveInv DEF CreateWriter
<1> QED
  BY <1>1, <1>2

LEMMA DaemonWritesInv ==
    ASSUME RInv, NEW p \in Procs, DaemonWrites(p)
    PROVE  RInv'
<1>1. /\ proc' = proc /\ writer' = writer /\ old' = old
      /\ disk' = [disk EXCEPT !.rows.blockers = TRUE] /\ UNCHANGED <<imported, settled, files>>
  BY DEF DaemonWrites
<1>2. /\ disk' \in [id : Nat, made : BOOLEAN, gate : BOOLEAN, rows : RowsType]
      /\ disk'.id = disk.id /\ disk'.gate = disk.gate
  BY <1>1 DEF RInv, ImportTypeOK, PlacesTypeOK, RowsType
<1>3. PlacesTypeOK'
  BY <1>1, <1>2 DEF PlacesTypeOK, RInv, ImportTypeOK
<1>4. FilesKept
  BY <1>1, <1>2, GateStays
<1>5. \A q \in Procs : Undisturbed(q)
  BY <1>1 DEF Undisturbed
<1> QED
  BY <1>1, <1>3, <1>4, <1>5, WorldInv

\* The reconciler reads and inspects under the writer lock.
LEMMA ReadingInv ==
    ASSUME RInv, NEW p \in Procs, CollectReconciliation(p) \/ \E r \in Rows : InspectRow(p, r)
    PROVE  RInv'
<1>1. /\ proc[p].at \in {"collect", "inspect"}
      /\ UNCHANGED <<old, writer, disk, imported, settled, files>>
  BY DEF CollectReconciliation, InspectRow
<1>2. proc[p] \in ProcType
  BY ProcFacts
<1>3. disk.rows \in RowsType
  BY DEF RInv, ImportTypeOK, PlacesTypeOK
<1>4. PICK s \in ProcType : proc' = [proc EXCEPT ![p] = s] /\ s.at = "inspect" /\ s.id = proc[p].id
  <2>1. CASE CollectReconciliation(p)
    <3>1. PICK t \in SUBSET Rows, refused \in BOOLEAN :
             proc' = [proc EXCEPT ![p] = [proc[p] EXCEPT !.at = "inspect", !.todo = t, !.refused = refused]]
      <4>1. disk.rows.active \ disk.rows.ambiguous \in SUBSET Rows
        BY <1>3 DEF RowsType
      <4> QED
        BY <2>1, <4>1 DEF CollectReconciliation, ReconciliationRows, Step
    <3>2. PICK n : n = [proc[p] EXCEPT !.at = "inspect", !.todo = t, !.refused = refused]
      OBVIOUS
    <3>3. n \in ProcType /\ n.at = "inspect" /\ n.id = proc[p].id
      BY <1>2, <3>2 DEF ProcType
    <3> QED
      BY <3>1, <3>2, <3>3
  <2>2. CASE \E r \in Rows : InspectRow(p, r)
    <3>1. PICK r \in Rows : InspectRow(p, r)
      BY <2>2
    <3>2. PICK t \in SUBSET Rows, proofs \in SUBSET Rows, refused \in BOOLEAN :
             proc' = [proc EXCEPT ![p] = [proc[p] EXCEPT !.todo = t, !.proofs = proofs, !.refused = refused]]
      <4>1. /\ proc[p].todo \ {r} \in SUBSET Rows
            /\ (IF Observed(r) = "own" THEN proc[p].proofs \union {r} ELSE proc[p].proofs) \in SUBSET Rows
        BY <1>2 DEF ProcType
      <4> QED
        BY <3>1, <4>1 DEF InspectRow, Step
    <3>3. proc[p].at = "inspect"
      BY <3>1 DEF InspectRow
    <3>4. PICK n : n = [proc[p] EXCEPT !.todo = t, !.proofs = proofs, !.refused = refused]
      OBVIOUS
    <3>5. n \in ProcType /\ n.at = "inspect" /\ n.id = proc[p].id
      BY <1>2, <3>3, <3>4 DEF ProcType
    <3> QED
      BY <3>2, <3>4, <3>5
  <2> QED
    BY <2>1, <2>2
<1>5. writer = p
  BY <1>1 DEF RInv, LocksHeld
<1>6. Entitled(p, s)
  BY <1>1, <1>4, <1>5, ProcFacts DEF Entitled
<1> QED
  BY <1>1, <1>4, <1>6, QuietInv

\* The gate goes only from a file whose every row was proved.
LEMMA ApplyReconciliationInv ==
    ASSUME ImportAssumption, RInv, NEW p \in Procs, ApplyReconciliation(p)
    PROVE  RInv'
<1>1. CASE ~(~proc[p].apply \/ proc[p].refused \/ disk.id # proc[p].id \/ ~Completes(p))
  <2>1. PICK s : s = [Fresh EXCEPT !.at = "done"]
    OBVIOUS
  <2>2. s \in ProcType /\ s.at = "done" /\ s.id = 0
    BY <2>1, FreshType DEF ProcType
  <2>3. disk.gate /\ disk.rows.active = proc[p].proofs /\ ~disk.rows.blockers
    BY <1>1 DEF Completes
  <2>4. /\ proc' = [proc EXCEPT ![p] = s] /\ Drop(p)
        /\ disk' = [disk EXCEPT !.gate = FALSE] /\ settled' = settled \union {disk.id}
        /\ imported' = imported /\ files' = files
    BY <1>1, <2>1, <2>3 DEF ApplyReconciliation, Step
  <2>5. /\ disk \in [id : Nat, made : BOOLEAN, gate : BOOLEAN, rows : RowsType]
        /\ files \in Nat /\ imported \subseteq 1 .. files /\ settled \subseteq 0 .. files
        /\ disk.id <= files
    BY DEF RInv, ImportTypeOK, PlacesTypeOK, KnownFiles
  <2>6. /\ disk' \in [id : Nat, made : BOOLEAN, gate : BOOLEAN, rows : RowsType]
        /\ disk'.id = disk.id
    BY <2>4, <2>5
  <2>7. settled' \subseteq 0 .. files'
    BY <2>4, <2>5
  <2>8. PlacesTypeOK'
    BY <2>4, <2>5, <2>6, <2>7, DropFacts DEF PlacesTypeOK
  <2>9. FilesKept
    <3>1. files <= files' /\ disk'.id <= files'
      BY <2>4, <2>5, <2>6
    <3> QED
      BY <2>4, <2>6, <3>1 DEF FilesKept
  <2>10. Entitled(p, s)
    BY <2>2, <2>8, AtRest
  <2>11. \A q \in Procs \ {p} : Undisturbed(q)
    BY <2>4, DropFacts
  <2> QED
    BY <2>2, <2>4, <2>8, <2>9, <2>10, <2>11, MoveInv
<1>2. CASE ~proc[p].apply \/ proc[p].refused \/ disk.id # proc[p].id \/ ~Completes(p)
  BY <1>2, LeaveInv DEF ApplyReconciliation
<1> QED
  BY <1>1, <1>2

-----------------------------------------------------------------------------

LEMMA InitRInv ==
    ASSUME ImportInit
    PROVE  RInv
<1>1. /\ disk = NoFile /\ writer = "" /\ proc = [p \in Procs |-> Fresh]
      /\ imported = {} /\ settled = {} /\ files = 0
  BY DEF ImportInit
<1>2. \A p \in Procs : proc[p] = Fresh
  BY <1>1
<1>3. disk.id = 0 /\ disk \in [id : Nat, made : BOOLEAN, gate : BOOLEAN, rows : RowsType]
  BY <1>1 DEF NoFile, NoRows, RowsType
<1>4. old \in [closed : BOOLEAN, rows : RowsType, owner : {"none", "live", "dead"},
               marker : BOOLEAN, guard : Procs \union {"", "python"}]
  <2>1. PICK marker \in BOOLEAN, closed \in BOOLEAN, amb \in SUBSET Rows :
           old = [closed |-> closed,
                  rows |-> [active |-> Rows, ambiguous |-> amb, blockers |-> FALSE],
                  owner |-> "none", marker |-> marker, guard |-> "python"]
    BY DEF ImportInit
  <2>2. [active |-> Rows, ambiguous |-> amb, blockers |-> FALSE] \in RowsType
    BY DEF RowsType
  <2> QED
    BY <2>1, <2>2
<1>5. ImportTypeOK
  <2>1. proc \in [Procs -> ProcType]
    BY <1>1, FreshType
  <2>2. files \in Nat /\ imported \subseteq 1 .. files /\ settled \subseteq 0 .. files
    BY <1>1
  <2>3. writer \in Procs \union {""}
    BY <1>1
  <2> QED
    BY <1>3, <1>4, <2>1, <2>2, <2>3 DEF ImportTypeOK, PlacesTypeOK
<1>6. KnownFiles
  <2>1. files = 0 /\ disk.id = 0 /\ \A p \in Procs : proc[p].id = 0
    BY <1>1, <1>2, <1>3, FreshType
  <2> QED
    BY <2>1 DEF KnownFiles
<1>7. LocksHeld /\ CopiesCurrent /\ GatesTrue /\ ServingSettled
  BY <1>1, <1>2, FreshType DEF LocksHeld, CopiesCurrent, GatesTrue, ServingSettled
<1> QED
  BY <1>5, <1>6, <1>7 DEF RInv

LEMMA NextRInv ==
    ASSUME ImportAssumption, RInv, [ImportNext]_importVars
    PROVE  RInv'
<1>1. CASE UNCHANGED importVars
  <2>1. /\ old' = old /\ disk' = disk /\ writer' = writer /\ proc' = proc
        /\ imported' = imported /\ settled' = settled /\ files' = files
    BY <1>1 DEF importVars
  <2>2. PlacesTypeOK' /\ \A q \in Procs : Undisturbed(q)
    BY <2>1 DEF PlacesTypeOK, Undisturbed, RInv, ImportTypeOK
  <2> QED
    BY <2>1, <2>2, FilesStay, WorldInv
<1>2. ASSUME NEW p \in Importers,
             TakeGuard(p) \/ BackupSource(p) \/ ValidateOwners(p) \/ PublishImport(p)
      PROVE  RInv'
  BY <1>2, TakeGuardInv, BackupSourceInv, ValidateOwnersInv, PublishImportInv
<1>3. ASSUME NEW p \in Reconcilers,
             \/ OpenProbe(p, TRUE) \/ AcquireWriterLock(p, TRUE, "collect")
             \/ CollectReconciliation(p) \/ (\E r \in Rows : InspectRow(p, r)) \/ ApplyReconciliation(p)
      PROVE  RInv'
  <2>1. p \in Procs
    BY DEF Procs
  <2>2. CASE OpenProbe(p, TRUE)
    BY <2>1, <2>2, OpenProbeInv
  <2>3. CASE AcquireWriterLock(p, TRUE, "collect")
    BY <2>1, <2>3, AcquireWriterLockInv
  <2> QED
    BY <1>3, <2>1, <2>2, <2>3, ReadingInv, ApplyReconciliationInv
<1>4. ASSUME NEW p \in Openers,
             \/ OpenProbe(p, FALSE) \/ AcquireWriterLock(p, FALSE, "serving")
             \/ CreateFile(p) \/ CreateWriter(p) \/ DaemonWrites(p)
      PROVE  RInv'
  <2>1. p \in Procs
    BY DEF Procs
  <2>2. CASE OpenProbe(p, FALSE)
    BY <2>1, <2>2, OpenProbeInv
  <2>3. CASE AcquireWriterLock(p, FALSE, "serving")
    BY <2>1, <2>3, AcquireWriterLockInv
  <2> QED
    BY <1>4, <2>1, <2>2, <2>3, CreateFileInv, CreateWriterInv, DaemonWritesInv
<1>5. ASSUME NEW p \in Procs, Kill(p)
      PROVE  RInv'
  BY <1>5, LeaveInv DEF Kill
<1> QED
  BY <1>1, <1>2, <1>3, <1>4, <1>5, OldInv, OutsideInv DEF ImportNext

LEMMA SpecRInv ==
    ASSUME ImportAssumption
    PROVE  ImportSpec => []RInv
<1>1. ImportInit => RInv
  BY InitRInv
<1>2. RInv /\ [ImportNext]_importVars => RInv'
  BY NextRInv
<1> QED
  BY <1>1, <1>2, PTL DEF ImportSpec

\* import.rs, registry.rs acquire_writer_lock, python_v4.rs: a daemon serves an imported
\* registry only after a reconciliation proved every active row of that very file, at most
\* one process may write the database, and what an import publishes is what the old registry
\* still holds; whatever is killed between two steps, and whatever file is lost meanwhile.
THEOREM ImportIsSafe ==
    ASSUME ImportAssumption
    PROVE  ImportSpec => []ImportSafe
<1>1. RInv => ImportSafe
  <2> SUFFICES ASSUME RInv PROVE ImportSafe
    OBVIOUS
  <2>1. ServedIsReconciled
    BY DEF RInv, ServingSettled, ServedIsReconciled, Procs
  <2>2. SnapshotIsCurrent
    BY DEF RInv, CopiesCurrent, SnapshotIsCurrent, Procs
  <2>3. OneRegistryWriter
    <3>1. PICK W : W = {p \in Procs : proc[p].at \in {"serving", "collect", "inspect"}}
      OBVIOUS
    <3>2. W \subseteq {writer}
      BY <3>1 DEF RInv, LocksHeld
    <3>3. IsFiniteSet({writer}) /\ Cardinality({writer}) = 1
      BY FS_Singleton
    <3>4. IsFiniteSet(W) /\ Cardinality(W) <= 1
      BY <3>2, <3>3, FS_Subset
    <3> QED
      BY <3>1, <3>4 DEF OneRegistryWriter
  <2> QED
    BY <2>1, <2>2, <2>3 DEF ImportSafe
<1> QED
  BY <1>1, SpecRInv, PTL

=============================================================================
