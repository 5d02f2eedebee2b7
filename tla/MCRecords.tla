-------------------------- MODULE MCRecords --------------------------
(*****************************************************************************)
(* What is written down about runs, sources and registries, and what must not be *)
(* taken away behind their backs.                                            *)
(*                                                                           *)
(* A behaviour exercises one part, chosen at the start, with the bounds      *)
(* given here; the parts never share state, so they share the slots it is    *)
(* kept in, and the states of the parts add up instead of multiplying.       *)
(*****************************************************************************)
EXTENDS Integers, Sequences, FiniteSets, TLC

CONSTANTS Null, a1, a2, a3, b1, b2, c1, c2

VARIABLES part,   \* the part this behaviour exercises
          s1, s2, s3, s4, s5, s6, s7, s8, s9, s10, s11, s12, s13, s14, s15, s16   \* its state, one slot for each of its variables

slots ==
  <<part, s1, s2, s3, s4, s5, s6, s7, s8, s9, s10, s11, s12, s13, s14, s15, s16>>

CommitTrees == "c1" :> (1 :> "a" @@ 2 :> "a") @@ "c2" :> (1 :> "b" @@ 2 :> "a")

Leg(id, caller, ns, rank, matrix, qualified) ==
  [id |-> id, caller |-> caller, ns |-> ns, rank |-> rank, matrix |-> matrix, qualified |-> qualified]
LegInfos == "a0" :> Leg("a", "a", "ci", 0, 3, FALSE) @@ "a1" :> Leg("a", "a", "ci", 1, 1, FALSE)
            @@ "a2" :> Leg("a", "a", "ci", 1, 2, FALSE) @@ "c1" :> Leg("x", "call", "call", 2, 0, TRUE)
DeclaredJobs == <<[id |-> "a", name |-> "a", stage |-> 0], [id |-> "call", name |-> "call", stage |-> 1]>>

-----------------------------------------------------------------------------
(* Three runs for two slots, two of them cut short. *)

K == INSTANCE ActRun WITH
  ActRuns <- {a1, a2, a3}, ActSlots <- {1, 2}, NoRun <- Null, MaxCuts <- 2, at <- s1, end <- s2,
  cleanup <- s3, enroll <- s4, seen <- s5, late <- s6, outlived <- s7, lease <- s8,
  admitted <- s9, cohort <- s10, legacy <- s11, cuts <- s12

ActRunInit ==
  /\ part = "actrun" /\ K!ActInit /\ s13 = 0 /\ s14 = 0 /\ s15 = 0 /\ s16 = 0
InActRun ==
  /\ part = "actrun" /\ UNCHANGED <<part, s13, s14, s15, s16>>
ActRunMoves == InActRun /\ K!ActNext

(* Two daemons, a job each or two of one, one replica; one crash, one refused request. *)

R == INSTANCE Runners WITH
  RDaemon <- {c1, c2}, RJob <- {b1, b2}, Replicas <- 1, MaxCrash <- 1, MaxFail <- 1, phase <- s1,
  home <- s2, at <- s3, table <- s4, ledger <- s5, saving <- s6, todo <- s7, flock <- s8,
  req <- s9, labelled <- s10, mount <- s11, proc <- s12, late <- s13, crashes <- s14, fails <- s15

RunnersInit ==
  /\ part = "runners" /\ R!RnInit /\ s16 = 0
InRunners ==
  /\ part = "runners" /\ UNCHANGED <<part, s16>>
RunnersMoves == InRunners /\ R!RnNext

(* Two commits of two files, two edits while a copy is taken, one daemon that starts meanwhile. *)

F == INSTANCE CiSource WITH
  Commits <- {"c1", "c2"}, Files <- {1, 2}, Contents <- {"a", "b"}, Tree <- CommitTrees,
  Gone <- Null, MaxEdits <- 2, MaxSweeps <- 1, wsHead <- s1, wsFiles <- s2, edits <- s3,
  client <- s4, staged <- s5, swept <- s6, sweeps <- s7, source <- s8, pruning <- s9,
  again <- s10, blurred <- s11
ASSUME CiSourceConstants == F!TreeAssumption

CiSourceInit ==
  /\ part = "source" /\ F!SourceInit /\ s12 = 0 /\ s13 = 0 /\ s14 = 0 /\ s15 = 0 /\ s16 = 0
InCiSource ==
  /\ part = "source" /\ UNCHANGED <<part, s12, s13, s14, s15, s16>>
CiSourceMoves == InCiSource /\ F!SourceNext

(* A job, two legs of its matrix and a leg of a called workflow; three records. *)

J == INSTANCE CiTree WITH
  Legs <- {"a0", "a1", "a2", "c1"}, LegInfo <- LegInfos, Declared <- DeclaredJobs, Steps <- {"s"},
  RemoteOnly <- {<<"call", "x">>}, DeclaredKeys <- {<<"a">>, <<"call">>, <<"call", "x">>},
  NeedsIdentity <- TRUE, MaxLines <- 3, stages <- s1, malformed <- s2, verdict <- s3, lines <- s4,
  heard <- s5
ASSUME CiTreeConstants == J!TreeConstants

CiTreeInit ==
  /\ part = "tree" /\ J!TreeInit /\ s6 = 0 /\ s7 = 0 /\ s8 = 0 /\ s9 = 0 /\ s10 = 0 /\ s11 = 0
  /\ s12 = 0 /\ s13 = 0 /\ s14 = 0 /\ s15 = 0 /\ s16 = 0
InCiTree ==
  /\ part = "tree" /\ UNCHANGED <<part, s6, s7, s8, s9, s10, s11, s12, s13, s14, s15, s16>>
CiTreeMoves == InCiTree /\ J!TreeNext

(* Two secrets, each ending as the other begins, in chunks of up to three symbols. *)

O == INSTANCE OutputText WITH
  Letters <- {"a", "b"}, SecretValues <- << <<"a", "b">>, <<"b", "a", "a">> >>, MaxText <- 8,
  MaxChunk <- 3, MaxLine <- 2, SecretWriters <- {"v1", "v2"}, NoSecret <- "none", subject <- s1,
  given <- s2, held <- s3, shown <- s4, over <- s5, skipping <- s6, secretFile <- s7,
  setting <- s8
ASSUME OutputTextConstants == O!TextAssumption

OutputTextInit ==
  /\ part = "text" /\ O!TextInit /\ s9 = 0 /\ s10 = 0 /\ s11 = 0 /\ s12 = 0 /\ s13 = 0
  /\ s14 = 0 /\ s15 = 0 /\ s16 = 0
InOutputText ==
  /\ part = "text" /\ UNCHANGED <<part, s9, s10, s11, s12, s13, s14, s15, s16>>
OutputTextMoves == InOutputText /\ O!TextNext

(* Two state directories, three identities, two labelled objects and a loss; RegistryProofs is for any number. *)

I == INSTANCE Identity WITH
  Dir <- {"machine", "other"}, Machine <- "machine", Id <- {a1, a2, a3}, Obj <- {b1, b2},
  MaxLosses <- 1, Nothing <- Null, db <- s1, entry <- s2, daemon <- s3, held <- s4, probed <- s5,
  label <- s6, releasing <- s7, pass <- s8, past <- s9, losses <- s10
ASSUME IdentityConstants == I!IdentityAssumption

IdentityInit ==
  /\ part = "identity" /\ I!IdentityInit /\ s11 = 0 /\ s12 = 0 /\ s13 = 0 /\ s14 = 0 /\ s15 = 0 /\ s16 = 0
InIdentity ==
  /\ part = "identity" /\ UNCHANGED <<part, s11, s12, s13, s14, s15, s16>>
IdentityMoves == InIdentity /\ I!IdentityNext

(* Two imports, a reconciliation and a daemon meet at one destination. *)

M == INSTANCE RegistryImport WITH
  Importers <- {"i1", "i2"}, Reconcilers <- {"r1"}, Openers <- {"d1"}, Rows <- {"a", "b"},
  MaxFiles <- 2, MaxTurns <- 2, old <- s1, disk <- s2, writer <- s3, proc <- s4, docker <- s5,
  imported <- s6, settled <- s7, files <- s8, turns <- s9
ASSUME RegistryImportConstants == M!ImportAssumption

RegistryImportInit ==
  /\ part = "import" /\ M!ImportInit /\ s10 = 0 /\ s11 = 0 /\ s12 = 0 /\ s13 = 0 /\ s14 = 0
  /\ s15 = 0 /\ s16 = 0
InRegistryImport ==
  /\ part = "import" /\ UNCHANGED <<part, s10, s11, s12, s13, s14, s15, s16>>
RegistryImportMoves == InRegistryImport /\ M!ImportNext

(* Two proxies with one token or none, two handlers, three requests; the second version is too long. *)

TagsPath == <<"repos", "o", "r", "tags">>
IssuesPath == <<"repos", "o", "r", "issues">>
Sends(nonce, method, path, form, holds) ==
  {[by |-> x, nonce |-> nonce, method |-> method, path |-> path, form |-> form, holds |-> holds] :
     x \in {c1, c2}}
ProxyRequests ==
  UNION {Sends(TRUE, "GET", TagsPath, "json", -1), Sends(TRUE, "GET", TagsPath, "raw", -1),
         Sends(TRUE, "HEAD", TagsPath, "json", -1), Sends(TRUE, "GET", TagsPath, "json", 0),
         Sends(TRUE, "GET", IssuesPath, "json", -1), Sends(TRUE, "POST", TagsPath, "json", -1),
         Sends(FALSE, "GET", TagsPath, "json", -1)}
SizeOfVersion(path, version) == 2 * version + 1

P == INSTANCE GithubProxy WITH
  Proxies <- {c1, c2}, Handlers <- {b1, b2}, Tokens <- {"t1"}, Forms <- {"json", "raw"},
  Paths <- {TagsPath, IssuesPath}, Requests <- ProxyRequests, BodySize <- SizeOfVersion,
  MaxVersion <- 1, MaxAsks <- 3, MaxBody <- 2, MaxBytes <- 3, MaxEntries <- 2, upstream <- s1,
  runs <- s2, cred <- s3, entries <- s4, order <- s5, bytes <- s6, at <- s7, req <- s8,
  cached <- s9, head <- s10, reply <- s11, asks <- s12
ASSUME ProxyConstants == P!ProxyAssumption

ProxyPartInit ==
  /\ part = "proxy" /\ P!ProxyInit /\ s13 = 0 /\ s14 = 0 /\ s15 = 0 /\ s16 = 0
InProxy ==
  /\ part = "proxy" /\ UNCHANGED <<part, s13, s14, s15, s16>>
ProxyMoves == InProxy /\ P!ProxyNext

(* A workspace with a Dockerfile and its ignore file in a directory, sources and build output. *)

FileOf(token) == [kind |-> "file", data |-> token]
OfKind(kind) == [kind |-> kind, data |-> ""]
BuildFile == <<"dk", "D">>
OwnIgnore == <<"dk", "own">>
CommonIgnore == <<".dockerignore">>
Workspace ==
  (<<"dk">> :> OfKind("dir")) @@ (BuildFile :> FileOf("d1")) @@ (OwnIgnore :> OfKind("gone"))
  @@ (CommonIgnore :> OfKind("gone")) @@ (<<"src">> :> OfKind("dir"))
  @@ (<<"src", "a">> :> FileOf("f")) @@ (<<"target">> :> OfKind("dir"))
  @@ (<<"target", "keep">> :> FileOf("f")) @@ (<<"target", "x">> :> FileOf("f"))
WorkspaceWith(text, own, common) ==
  [Workspace EXCEPT ![BuildFile] = FileOf(text), ![OwnIgnore] = own, ![CommonIgnore] = common]
Workspaces ==
  {WorkspaceWith(text, own, common) :
     text \in {"d1", "d2"}, own \in {OfKind("gone"), FileOf("i2")},
     common \in {OfKind("gone"), FileOf("i1")}}
  \union {WorkspaceWith("d3", own, FileOf("i1")) :
             own \in {OfKind("gone"), FileOf("i2"), OfKind("other")}}
WorkspaceChanges ==
  {[path |-> c[1], node |-> c[2]] :
     c \in {<<BuildFile, FileOf("d3")>>, <<CommonIgnore, OfKind("gone")>>,
            <<CommonIgnore, FileOf("i1")>>, <<CommonIgnore, FileOf("i2")>>,
            <<OwnIgnore, OfKind("gone")>>, <<<<"dk">>, OfKind("gone")>>,
            <<<<"target">>, OfKind("gone")>>, <<<<"target", "x">>, OfKind("gone")>>,
            <<<<"target", "x">>, [kind |-> "link", data |-> "to-file"]>>}}

Line(op, items) == [op |-> op, items |-> items, more |-> FALSE, docs |-> << >>]
Literal(name) == [var |-> FALSE, name |-> name]
Variable(name) == [var |-> TRUE, name |-> name]
Source(path) == [is |-> "source", kind |-> "path", path |-> path]
BoundTarget == [is |-> "mount", type |-> "bind", kind |-> "path", path |-> <<"target", "*">>]
DockerTexts ==
  \* A stage whose image an argument names, a heredoc, a bound file and a copy from the stage.
  "d1" :> <<Line("ARG", <<[is |-> "arg", arg |-> "$V", given |-> TRUE, name |-> Literal("base1")]>>),
            Line("FROM", <<[is |-> "image", name |-> Variable("$V")], [is |-> "as", name |-> Literal("b")]>>),
            [Line("COPY", <<Source(<<"src", ".", "a">>)>>) EXCEPT !.docs = <<"EOF">>],
            Line("COPY", <<Source(<<"nothing">>)>>), Line("EOF", << >>),
            [Line("RUN", << >>) EXCEPT !.more = TRUE], Line("", <<BoundTarget>>),
            Line("COPY", <<[is |-> "from", name |-> Literal("b")], Source(<<"x">>)>>)>>
  \* The whole workspace, on Docker's own platform.
  @@ "d2" :> <<Line("#", << >>),
               Line("FROM", <<[is |-> "platform", name |-> Variable("$BUILDPLATFORM")],
                              [is |-> "image", name |-> Literal("base2")]>>),
               Line("COPY", <<Source(<<"src", "..", ".">>)>>)>>
  \* One file, and three images of which one has no proper name.
  @@ "d3" :> <<Line("FROM", <<[is |-> "image", name |-> Literal("base2")]>>),
               Line("COPY", <<Source(<<"target", "x">>)>>),
               Line("RUN", <<[is |-> "from", name |-> Literal("-x")],
                             [is |-> "from", name |-> Literal("base1")]>>)>>
Rule(pattern, negated) == [pattern |-> pattern, negated |-> negated, comment |-> FALSE]
IgnoreTexts ==
  "i1" :> <<[Rule(BuildFile, FALSE) EXCEPT !.comment = TRUE], Rule(<<"target">>, FALSE),
            Rule(<<"**", "keep">>, TRUE)>>
  @@ "i2" :> <<Rule(<<"*">>, FALSE), Rule(<<"src", "*">>, TRUE)>>
  @@ "" :> << >>
TokenSize(token) == IF token = "" THEN 0 ELSE IF token = "d2" THEN 2 ELSE 1

BuiltStack ==
  [name |-> "s", df |-> TRUE, image |-> "none", env |-> "e", mounts |-> << >>,
   workdir |-> <<"<none>">>, volumes |-> << >>, tmpfs |-> << >>, guest |-> FALSE,
   defaultTarget |-> TRUE, caches |-> {}]
Mount(source, target, mode) == [source |-> source, target |-> target, mode |-> mode]
Volume(name, scope, target, retention, mode) ==
  [name |-> name, scope |-> scope, target |-> target, retention |-> retention, mode |-> mode]
SpecVolume(mode) == Volume("v", "spec", <<"a">>, "warm", mode)
PinnedStack == [BuiltStack EXCEPT !.df = FALSE, !.image = "base1"]
Nested == <<Mount(<< >>, <<"w">>, "rw"), Mount(<<"src">>, <<"w", "s">>, "rw")>>
PinnedStacks ==
  {PinnedStack, [PinnedStack EXCEPT !.name = "other"],
   [PinnedStack EXCEPT !.mounts = <<Mount(<< >>, <<"w">>, "rw")>>],
   [PinnedStack EXCEPT !.mounts = <<Mount(<< >>, <<"w">>, "ro")>>],
   [PinnedStack EXCEPT !.mounts = Nested, !.workdir = <<"w", "s">>],
   [PinnedStack EXCEPT !.mounts = Nested, !.workdir = <<"w">>],
   [PinnedStack EXCEPT !.mounts = <<Mount(<<"", "run", "docker.sock">>, <<"s">>, "ro")>>],
   [PinnedStack EXCEPT !.volumes = <<SpecVolume("exclusive")>>],
   [PinnedStack EXCEPT !.volumes = <<SpecVolume("shared")>>],
   [PinnedStack EXCEPT !.volumes =
      <<SpecVolume("exclusive"), Volume("volume-mode", "stack", <<"a">>, "warm", "exclusive")>>],
   [PinnedStack EXCEPT !.tmpfs =
      <<[target |-> <<"t">>,
         options |-> <<[is |-> "size", value |-> "1"], [is |-> "exec", value |-> ""]>>]>>],
   [PinnedStack EXCEPT !.tmpfs =
      <<[target |-> <<"t">>,
         options |-> <<[is |-> "ro", value |-> ""], [is |-> "rw", value |-> ""]>>]>>],
   [PinnedStack EXCEPT !.guest = TRUE, !.image = "guest",
      !.volumes = <<Volume("storage", "machine", <<"storage">>, "pinned", "shared")>>]}
ImageStore ==
  ([name |-> "base1", platform |-> "none"] :> "sha1")
  @@ ([name |-> "base2", platform |-> "linux"] :> "absent")
  @@ ([name |-> "base2", platform |-> "none"] :> "absent")

(* One plan from a Dockerfile, one change of the workspace and one of the image store. *)

G == INSTANCE Generation WITH
  Paths <- DOMAIN Workspace, Dockerfile <- BuildFile, Specific <- OwnIgnore,
  RootIgnore <- CommonIgnore, Wild <- {}, DockerText <- DockerTexts, IgnoreText <- IgnoreTexts,
  SizeOf <- TokenSize, Trees <- Workspaces, Changes <- WorkspaceChanges, Stacks <- {BuiltStack},
  Tasks <- {[stack |-> "s", secrets |-> FALSE]}, Pinned <- {"base1", "base2", "guest"},
  GuestImages <- {"guest"}, Valid <- {"base1", "base2", "linux"}, Stores <- {ImageStore},
  Identities <- {"sha1"}, MaxPlans <- 1, MaxEdits <- 1, MaxMoves <- 1, MaxWalked <- 9,
  MaxEntries <- 6, MaxDepth <- 2, MaxFile <- 2, MaxTotal <- 4, MaxImages <- 3, MaxOutput <- 4,
  tree <- s1, world <- s2, at <- s3, plan <- s4, policy <- s5, pending <- s6, left <- s7,
  nodes <- s8, seen <- s9, walked <- s10, total <- s11, todo <- s12, got <- s13, images <- s14,
  store <- s15, made <- s16
ASSUME ContextConstants == G!GenerationAssumption /\ G!TextsAssumption

ContextInit == part = "context" /\ G!GenerationInit
ContextMoves == part = "context" /\ UNCHANGED part /\ G!GenerationNext

(* Two plans, one after the other, of stacks with pinned images. *)

H == INSTANCE Generation WITH
  Paths <- DOMAIN Workspace, Dockerfile <- BuildFile, Specific <- OwnIgnore,
  RootIgnore <- CommonIgnore, Wild <- {}, DockerText <- DockerTexts, IgnoreText <- IgnoreTexts,
  SizeOf <- TokenSize, Trees <- {Workspace}, Changes <- {}, Stacks <- PinnedStacks,
  Tasks <- {[stack |-> "s", secrets |-> FALSE]}, Pinned <- {"base1", "base2", "guest"},
  GuestImages <- {"guest"}, Valid <- {}, Stores <- {ImageStore}, Identities <- {"sha1"},
  MaxPlans <- 2, MaxEdits <- 0, MaxMoves <- 0, MaxWalked <- 9, MaxEntries <- 6, MaxDepth <- 2,
  MaxFile <- 2, MaxTotal <- 4, MaxImages <- 3, MaxOutput <- 4, tree <- s1, world <- s2, at <- s3,
  plan <- s4, policy <- s5, pending <- s6, left <- s7, nodes <- s8, seen <- s9, walked <- s10,
  total <- s11, todo <- s12, got <- s13, images <- s14, store <- s15, made <- s16

ASSUME PlansConstants == H!GenerationAssumption /\ H!TextsAssumption

PlansInit == part = "plans" /\ H!GenerationInit
PlansMoves == part = "plans" /\ UNCHANGED part /\ H!GenerationNext

-----------------------------------------------------------------------------
PartsInit ==
  \/ ActRunInit
  \/ RunnersInit
  \/ CiSourceInit
  \/ CiTreeInit
  \/ OutputTextInit
  \/ IdentityInit
  \/ RegistryImportInit
  \/ ProxyPartInit
  \/ ContextInit
  \/ PlansInit
PartsNext ==
  \/ ActRunMoves
  \/ RunnersMoves
  \/ CiSourceMoves
  \/ CiTreeMoves
  \/ OutputTextMoves
  \/ IdentityMoves
  \/ RegistryImportMoves
  \/ ProxyMoves
  \/ ContextMoves
  \/ PlansMoves
PartsSpec == PartsInit /\ [][PartsNext]_slots

Symmetry ==
  Permutations({a1, a2, a3}) \union Permutations({b1, b2}) \union Permutations({c1, c2})

\* A live run's scope is kept, its archives are quiescent, and what is removed was
\* closed (ActRun, ActRunSafe); two runs never have one replica of a cache mounted
\* and a daemon that takes jobs has swept what its predecessor's runs left
\* (Runners, OneRunPerReplica and SweptIsGone); a run's GitHub proxy answers with what
\* GitHub has, for its own credential, from a cache that keeps its books
\* (GithubProxy, ProxySafe).
RunsCorrect ==
  /\ part = "actrun" => K!ActRunSafe
  /\ part = "runners" => R!OneRunPerReplica /\ R!SweptIsGone
  /\ part = "proxy" => P!ProxySafe

\* What a run says of its source is so (CiSource, SourceHonest), and what it
\* shows of its jobs and of its output is what act reported, without a secret
\* (CiTree, CiTreeSafe; OutputText, OutputTextSafe).  A build is of what its
\* Dockerfile chooses, and one generation is one container (Generation,
\* GenerationSafe).
EvidenceCorrect ==
  /\ part = "source" => F!SourceHonest
  /\ part = "tree" => J!CiTreeSafe
  /\ part = "text" => O!OutputTextSafe
  /\ part = "context" => G!GenerationSafe
  /\ part = "plans" => H!GenerationSafe

\* Two state directories never hold one identity (Identity,
\* OneDirectoryPerIdentity), and what is imported is reconciled, current and
\* written by one process (RegistryImport, ImportSafe).
RegistriesCorrect ==
  /\ part = "identity" => I!OneDirectoryPerIdentity
  /\ part = "import" => M!ImportSafe

\* What goes from Docker went by its own run or its own daemon's sweep (Runners,
\* RemovesOwn), a daemon that could read everything never mints an identity over
\* objects it served under another (Identity, MintStep), and an import never
\* takes the place of a database (RegistryImport, OverwritesNothing).
NothingIsStranded ==
  [][/\ part = "runners" => R!RemovesOwn
     /\ part = "identity" => I!MintStep
     /\ part = "import" => M!OverwritesNothing]_slots
=============================================================================
