----------------------------- MODULE Generation -----------------------------
(*****************************************************************************)
(* What a stack is built from, and the name its build gets: the context      *)
(* collector and its pruned walk (collector.rs, walk_prune.rs), what it      *)
(* reads out of a Dockerfile and an ignore file (dockerfile.rs,              *)
(* default_ignore.rs), image receipts (resolver.rs), the generation          *)
(* (bosn-generation/lib.rs) and the daemon's plan of a manifest stack        *)
(* (manifest_plan.rs, manifest_runtime.rs, manifest_target_volume.rs).       *)
(*                                                                           *)
(* Planning reads the workspace many times: the marks of its kind, the       *)
(* Dockerfile, the ignore files, one directory after the other, then the     *)
(* ignore files once more and every selected entry.  The workspace changes   *)
(* between any two of these reads, and so does Docker's image store between  *)
(* two commands.                                                             *)
(*                                                                           *)
(* A path and a pattern are sequences of components.  A component is matched *)
(* whole: `Wild` says which names a component with wildcards fits, and "**"  *)
(* stands for any number of components.  What a file holds is known by a     *)
(* token; DockerText and IgnoreText say what a token reads as.               *)
(*****************************************************************************)
EXTENDS Integers, Sequences, FiniteSets, Functions, TLC

CONSTANTS Paths,                            \* where a workspace may hold something
          Dockerfile, Specific, RootIgnore, \* the Dockerfile, its own ignore file, the common one
          Wild,                             \* <<component, name>>: a component with wildcards fits
          DockerText, IgnoreText,           \* token -> lines
          SizeOf(_),                        \* token -> bytes
          Trees, Changes,                   \* workspaces at the start; what may become of a path
          Stacks, Tasks,                    \* what a manifest may declare
          Pinned, GuestImages,              \* images named with a digest, images of guests
          Valid,                            \* well-formed image and platform names
          Stores, Identities,               \* image stores at the start; what an image may be
          MaxPlans, MaxEdits, MaxMoves,     \* bounds on plans, on edits and on the image store
          MaxWalked, MaxEntries, MaxDepth, MaxFile, MaxTotal,   \* CollectorLimits
          MaxImages, MaxOutput              \* MAX_IMAGES, output_limit

VARIABLES tree,     \* path -> what is there
          world,    \* the identity of the workspace's directory, what was done so far, and
                    \* how often the workspace changed under the plan under way
          at,       \* where the plan is
          plan,     \* who plans which stack, for which task
          policy,   \* what decides about entries: the Dockerfile and the ignore file as read
          pending,  \* directories to open
          left,     \* entries listed and not looked at: path -> kind
          nodes,    \* entries kept: path -> kind
          seen,     \* sources some entry matched
          walked, total,   \* entries looked at, bytes read
          todo,     \* entries to read
          got,      \* entries read: path -> what was there
          images,   \* the resolver: what is asked for, what is answered, what output is left
          store,    \* image -> its identity, in Docker
          made      \* plans made

walkVars == <<pending, left, nodes, seen, walked>>
readVars == <<todo, got, total>>
generationVars == <<tree, world, at, plan, policy, walkVars, readVars, images, store, made>>

Kinds == {"file", "dir", "link", "other", "gone"}
Improper == {"", ".", ".."}
NoPath == <<"<none>">>
NoFunction == [p \in {} |-> "gone"]
Prefix(p, n) == SubSeq(p, 1, n)
Beneath(p, d) == Len(p) > Len(d) /\ Prefix(p, Len(d)) = d

-----------------------------------------------------------------------------
(* Patterns. *)

Fits(c, name) == c = "*" \/ c = name \/ <<c, name>> \in Wild

\* glob: the dynamic program finds for every component of the pattern the place in the
\* path where it begins to match.  A last "**" stands for at least one component.
Aligned(q, s, a) ==
  /\ a[1] = 1 /\ a[Len(q) + 1] = Len(s) + 1
  /\ \A i \in 1 .. Len(q) :
       IF q[i] = "**"
       THEN a[i + 1] >= a[i] /\ (i = Len(q) => a[i + 1] > a[i])
       ELSE a[i] <= Len(s) /\ a[i + 1] = a[i] + 1 /\ Fits(q[i], s[a[i]])
Glob(q, s) == \E a \in [1 .. Len(q) + 1 -> 1 .. Len(s) + 1] : Aligned(q, s, a)

\* components: "." goes, ".." takes the component before it along.
Normal(q) ==
  LET n[k \in 0 .. Len(q)] ==
        IF k = 0 THEN << >>
        ELSE IF q[k] \in {"", "."} THEN n[k - 1]
        ELSE IF q[k] = ".."
             THEN Prefix(n[k - 1], IF n[k - 1] = << >> THEN 0 ELSE Len(n[k - 1]) - 1)
        ELSE Append(n[k - 1], q[k])
  IN IF \A k \in 1 .. Len(q) : q[k] \notin Improper THEN q ELSE n[Len(q)]

\* A rule or a source hits what it matches and everything beneath it.
Hits(q, p) == \E n \in 1 .. Len(p) : Glob(q, Prefix(p, n))
SourceMatches(q, p) == Normal(q) = << >> \/ Hits(Normal(q), p)

\* ignored: the last rule that hits decides.
Ignored(rules, p) ==
  \E i \in 1 .. Len(rules) :
    /\ ~rules[i].negated /\ Hits(rules[i].pattern, p)
    /\ \A j \in (i + 1) .. Len(rules) : Hits(rules[j].pattern, p) => ~rules[j].negated

\* reaches: may the pattern hit the directory, an ancestor of it or something beneath it?
\* The comparison ends with the pattern or at its first "**".
Reaches(q, d) ==
  \A i \in 1 .. Len(d) :
    i <= Len(q) /\ (\A j \in 1 .. i : q[j] # "**") => Fits(q[i], d[i])

\* ignore_rules: comments, blank lines and "." are no rules.
IgnoreRules(lines) ==
  SelectSeq(lines, LAMBDA r : ~r.comment /\ r.pattern # << >> /\ r.pattern # <<".">>)

Ignore(q) == [pattern |-> q, negated |-> FALSE, comment |-> FALSE]
Common == <<Ignore(<<".git">>)>>
Rust == <<Ignore(<<"target">>), Ignore(<<"**", "target">>)>>
Python ==
  <<Ignore(<<".venv">>), Ignore(<<"venv">>), Ignore(<<"**", "__pycache__">>),
    Ignore(<<"**", "*.pyc">>), Ignore(<<"**", "*.pyo">>), Ignore(<<".pytest_cache">>),
    Ignore(<<".mypy_cache">>), Ignore(<<".ruff_cache">>), Ignore(<<".tox">>),
    Ignore(<<"**", "*.egg-info">>), Ignore(<<"dist">>), Ignore(<<"build">>)>>

-----------------------------------------------------------------------------
(* Dockerfiles. *)

\* logical_lines: lines that go on are joined, and what lies in a heredoc is skipped up to
\* the line that closes it.
LogicalLines(text) ==
  LET Start == [out |-> << >>, open |-> << >>, docs |-> << >>]
      Blank(l) == l.op = "" /\ l.items = << >> /\ ~l.more
      Join(open, l) ==
        IF open = << >> THEN l
        ELSE [l EXCEPT !.op = open[1].op, !.items = open[1].items \o @, !.docs = open[1].docs \o @]
      Read(s, l) ==
        IF s.docs # << >> THEN [s EXCEPT !.docs = IF l.op = s.docs[1] THEN Tail(@) ELSE @]
        ELSE IF Blank(l) \/ (s.open = << >> /\ l.op = "#") THEN s
        ELSE IF l.more THEN [s EXCEPT !.open = <<Join(s.open, l)>>]
        ELSE [out |-> Append(s.out, Join(s.open, l)), open |-> << >>,
              docs |-> Join(s.open, l).docs]
      r[n \in 0 .. Len(text)] == IF n = 0 THEN Start ELSE Read(r[n - 1], text[n])
  IN r[Len(text)].out \o r[Len(text)].open

\* The items of one sort in a line (copy, mounts, words), and the lines of some sorts.  A
\* mount of an image or a stage is a "from" like the flag of a COPY.
Of(line, is) == {line.items[k] : k \in {k \in DOMAIN line.items : line.items[k].is = is}}
LinesOf(lines, ops) == {lines[i] : i \in {i \in DOMAIN lines : lines[i].op \in ops}}

\* local_sources: what is copied or bound from the context.
Copies(lines) == {l \in LinesOf(lines, {"COPY", "ADD"}) : Of(l, "from") = {}}
Binds(lines) ==
  UNION {{m \in Of(l, "mount") : m.type = "bind"} : l \in LinesOf(lines, {"RUN"})}
Taken(lines) == UNION {Of(l, "source") : l \in Copies(lines)} \union Binds(lines)
LocalSources(lines) == {x.path : x \in {x \in Taken(lines) : x.kind = "path"}}
LocalAll(lines) == \E x \in Taken(lines) : x.kind = "variable"
LocalRefused(lines) ==
  \/ \E l \in LinesOf(lines, {"COPY", "ADD", "RUN"}) : Of(l, "bad") # {}
  \/ \E l \in LinesOf(lines, {"COPY", "ADD"}) :
       \/ Of(l, "source") = {}
       \/ \E x \in Of(l, "from") : x.name.name = ""
  \/ \E l \in Copies(lines), x \in Taken(lines) :
       /\ x \in Of(l, "source")
       /\ x.kind = "branch" \/ (x.kind = "url" /\ Of(l, "checksum") = {})

\* expand: a build argument's value; the automatic ones stay as they are.
Automatic == {"$BUILDPLATFORM", "$TARGETPLATFORM"}
Unresolved == "<unresolved>"
Expand(v, args, auto) ==
  IF ~v.var \/ (auto /\ v.name \in Automatic) THEN v.name
  ELSE IF v.name \in DOMAIN args THEN args[v.name] ELSE Unresolved

\* external_images: the images that are not stages of the same file, in their order, each
\* with the platform it is asked for; `bad` when the file has a form that is not supported.
ExternalImages(lines) ==
  LET Start ==
        [args |-> [a \in {} |-> ""], names |-> {"scratch", "0", "1", "2"}, staged |-> FALSE,
         out |-> << >>, bad |-> FALSE]
      Listed(s, name, platform) ==
        IF name \in s.names THEN s.out
        ELSE Append(s.out, [name |-> name, platform |-> platform])
      Platform(s, l) ==
        IF Of(l, "platform") = {} THEN "none"
        ELSE Expand((CHOOSE x \in Of(l, "platform") : TRUE).name, s.args, TRUE)
      Args(s, l) ==
        LET a == CHOOSE x \in Of(l, "arg") : TRUE
        IN IF ~a.given THEN s
           ELSE [s EXCEPT !.args =
                   [n \in DOMAIN s.args \union {a.arg} |->
                      IF n = a.arg THEN Expand(a.name, s.args, TRUE) ELSE s.args[n]],
                  !.bad = @ \/ Expand(a.name, s.args, TRUE) = Unresolved]
      From(s, l) ==
        LET name == Expand((CHOOSE x \in Of(l, "image") : TRUE).name, s.args, TRUE)
        IN [s EXCEPT !.out = Listed(s, name, Platform(s, l)), !.staged = TRUE,
              !.names = @ \union {x.name.name : x \in Of(l, "as")},
              !.bad = @ \/ Of(l, "bad") # {} \/ Unresolved \in {name, Platform(s, l)}]
      Uses(s, l, auto) ==
        LET from == SelectSeq(l.items, LAMBDA x : x.is = "from")
            used == [k \in DOMAIN from |->
                       [name |-> Expand(from[k].name, s.args, auto), platform |-> "none"]]
        IN [s EXCEPT !.out = @ \o SelectSeq(used, LAMBDA x : x.name \notin s.names),
              !.bad = @ \/ \E k \in DOMAIN used : used[k].name = Unresolved]
      Read(s, l) ==
        IF l.op = "ARG" THEN IF s.staged THEN s ELSE Args(s, l)
        ELSE IF l.op = "FROM" THEN From(s, l)
        ELSE IF l.op \in {"COPY", "ADD"} THEN Uses(s, l, FALSE)
        ELSE IF l.op = "RUN" THEN Uses(s, l, TRUE)
        ELSE s
      r[n \in 0 .. Len(lines)] == IF n = 0 THEN Start ELSE Read(r[n - 1], lines[n])
  IN [images |-> r[Len(lines)].out, bad |-> r[Len(lines)].bad]

-----------------------------------------------------------------------------
(* The workspace as it is now. *)

KindAt(p) ==
  IF p = << >> THEN "dir"
  ELSE IF p \in Paths /\ \A n \in 1 .. (Len(p) - 1) : tree[Prefix(p, n)].kind = "dir"
       THEN tree[p].kind ELSE "gone"
IsFile(p) == KindAt(p) = "file" \/ (KindAt(p) = "link" /\ tree[p].data = "to-file")
IsDir(p) == KindAt(p) = "dir" \/ (KindAt(p) = "link" /\ tree[p].data = "to-dir")
Regular(p) == KindAt(p) = "file"
Children(d) == {p \in Paths : Len(p) = Len(d) + 1 /\ Beneath(p, d) /\ KindAt(p) # "gone"}

\* DefaultIgnore::detect and rules.
DefaultIgnore ==
  LET rust == IsFile(<<"Cargo.toml">>) \/ IsDir(<<"target">>)
      python ==
        \/ \E name \in {"pyproject.toml", "setup.py", "uv.lock"} : IsFile(<<name>>)
        \/ \E p \in Children(<< >>) : <<"requirements*.txt", p[1]>> \in Wild
  IN IF ~rust /\ ~python THEN << >>
     ELSE Common \o (IF rust THEN Rust ELSE << >>) \o (IF python THEN Python ELSE << >>)

-----------------------------------------------------------------------------
(* The runtime a manifest stack asks for. *)

Sockets == {<<"", "var", "run", "docker.sock">>, <<"", "run", "docker.sock">>}
NormalTarget(t) == \A i \in DOMAIN t : t[i] \notin Improper
Targets(q) == [i \in DOMAIN q |-> q[i].target]

\* manifest_workspace_mount, and which of the mounts are Docker's socket.
Binding(s) == SelectSeq(s.mounts, LAMBDA m : m.source \notin Sockets)
SocketMounts(s) == {m \in Range(s.mounts) : m.source \in Sockets}
MountsRefused(s) ==
  \/ Len(s.mounts) - Len(Binding(s)) > 1
  \/ SocketMounts(s) # {} /\ s.guest
  \/ \E m \in Range(s.mounts) : m.mode = "overlay" \/ ~NormalTarget(m.target)
  \/ \E m \in Range(Binding(s)) : KindAt(m.source) \in {"gone", "link"}

\* with_default_target_volume: build output gets a volume of its own beneath the mount of
\* the workspace, unless the manifest says otherwise or something is there already.
WithTarget(s) ==
  LET home == {i \in DOMAIN Binding(s) : Binding(s)[i].source = << >>}
      first == CHOOSE i \in home : \A j \in home : i <= j
      target == Append(Binding(s)[first].target, "target")
      taken == Range(Targets(s.volumes) \o Targets(Binding(s)) \o Targets(s.tmpfs))
  IN IF \/ ~s.defaultTarget \/ home = {}
        \/ \E v \in Range(s.volumes) : v.name = "target"
        \/ Binding(s)[first].mode = "ro" /\ KindAt(<<"target">>) # "dir"
        \/ target \in taken
     THEN s
     ELSE [s EXCEPT !.volumes = Append(@,
            [name |-> "target", scope |-> "stack", target |-> target, retention |-> "warm",
             mode |-> "exclusive"])]

\* manifest_workdir_to_workspace_relative: through the most specific mount, the last of equals.
Covering(s) ==
  {i \in DOMAIN Binding(s) :
     LET t == Binding(s)[i].target IN Len(t) <= Len(s.workdir) /\ Prefix(s.workdir, Len(t)) = t}
Through(s) ==
  CHOOSE i \in Covering(s) :
    \A j \in Covering(s) :
      LET li == Len(Binding(s)[i].target) lj == Len(Binding(s)[j].target)
      IN lj < li \/ (lj = li /\ j <= i)
Workdir(s) ==
  IF s.workdir = NoPath THEN NoPath
  ELSE IF s.guest THEN s.workdir
  ELSE Binding(s)[Through(s)].source
       \o SubSeq(s.workdir, Len(Binding(s)[Through(s)].target) + 1, Len(s.workdir))
WorkdirRefused(s) ==
  /\ s.workdir # NoPath
  /\ \/ ~NormalTarget(s.workdir)
     \/ ~s.guest /\ (Covering(s) = {} \/ KindAt(Binding(s)[Through(s)].source) # "dir")

\* manifest_tmpfs: every sort of option at most once, and no other.
OptionSort == "ro" :> "access" @@ "rw" :> "access" @@ "exec" :> "exec" @@ "noexec" :> "exec"
              @@ "size" :> "size" @@ "mode" :> "mode"
TmpfsRefused(s) ==
  \/ ~IsInjective(Targets(s.tmpfs))
  \/ \E t \in Range(s.tmpfs) :
       \/ ~NormalTarget(t.target)
       \/ \E i \in DOMAIN t.options :
            \/ t.options[i].is \notin DOMAIN OptionSort \/ t.options[i].value = "invalid"
            \/ \E j \in 1 .. (i - 1) : OptionSort[t.options[j].is] = OptionSort[t.options[i].is]
Option(t, sort) ==
  LET found == {o \in Range(t.options) : OptionSort[o.is] = sort}
  IN IF found = {} THEN [is |-> "none", value |-> ""] ELSE CHOOSE o \in found : TRUE

\* derive_manifest_macos_guest, with its storage.
GuestRefused(s) ==
  /\ s.guest
  /\ \/ s.image \notin GuestImages \/ s.df
     \/ {i \in DOMAIN s.volumes : s.volumes[i].target = <<"storage">>} = {}
     \/ \E v \in Range(s.volumes) :
          v.target = <<"storage">> /\ <<v.name, v.scope, v.retention>> # <<"storage", "machine", "pinned">>
VolumesRefused(s) ==
  ~IsInjective(Targets(s.volumes)) \/ \E v \in Range(s.volumes) : ~NormalTarget(v.target)

\* Refused before the workspace is collected, in manifest_stack_plan.
Refused(s) ==
  \/ GuestRefused(s) \/ s.env = "unsafe" \/ MountsRefused(s)
  \/ WorkdirRefused(WithTarget(s)) \/ TmpfsRefused(s)
  \/ IF s.df THEN s.image # "none" ELSE s.image \notin Pinned

-----------------------------------------------------------------------------
(* The generation.  A hash stands for what is hashed: a sequence of fields,  *)
(* each written with its length, so that fields never run into each other.   *)

Flat(ss) ==
  LET f[n \in 0 .. Len(ss)] == IF n = 0 THEN << >> ELSE f[n - 1] \o ss[n]
  IN f[Len(ss)]
Field(x) == << <<x>> >>
Count(q) == Field(ToString(Len(q)))
When(c, fields) == IF c THEN fields ELSE << >>
Each(q, F(_)) == Count(q) \o Flat([i \in DOMAIN q |-> F(q[i])])
Ordered(S) == CHOOSE q \in [1 .. Cardinality(S) -> S] : IsInjective(q)
DefaultMode(scope) == IF scope = "machine" THEN "shared" ELSE "exclusive"

MountFields(m) == <<m.source, m.target, <<IF m.mode = "ro" THEN "1" ELSE "0">> >>
VolumeFields(v) ==
  << <<v.name>>, <<v.scope>>, v.target, <<v.retention>> >>
  \o When(v.mode # DefaultMode(v.scope), << <<"volume-mode">>, <<v.mode>> >>)
TmpfsFields(t) ==
  LET size == Option(t, "size") exec == Option(t, "exec") mode == Option(t, "mode")
  IN <<t.target, <<IF Option(t, "access").is = "ro" THEN "ro" ELSE "rw">> >>
     \o (IF size.is = "none" THEN Field("no-size") ELSE << <<size.value>>, <<"unit">> >>)
     \o When(exec.is # "none", Field(exec.is))
     \o When(mode.is # "none", << <<"mode">>, <<mode.value>> >>)
SocketFields(m) ==
  << <<"host-docker-socket:v1">>, m.source, m.target, <<IF m.mode = "ro" THEN "1" ELSE "0">> >>
RuntimeFields(s, workdir) ==
  Each(Binding(s), MountFields)
  \o <<IF workdir = NoPath THEN <<"">> ELSE workdir>>
  \o Each(s.volumes, VolumeFields) \o Each(Ordered(Range(s.tmpfs)), TmpfsFields)
  \o Flat([i \in DOMAIN Ordered(SocketMounts(s)) |-> SocketFields(Ordered(SocketMounts(s))[i])])
  \o (IF s.guest THEN Field("macos-guest:v1") ELSE << <<"macos-guest:none">>, <<"idle">> >>)

\* stack_fields: of a fixed shape, with every list sorted.
StackFields(s) ==
  [name |-> s.name, df |-> s.df, image |-> s.image, env |-> s.env, guest |-> s.guest,
   volumes |-> {<<v.name, v.scope, v.target, v.retention>> : v \in Range(s.volumes)},
   mounts |-> Range(s.mounts), tmpfs |-> Range(s.tmpfs)]

-----------------------------------------------------------------------------
(* The walk and the choice. *)

NoPolicy ==
  [fallback |-> << >>, text |-> "", root |-> 0, rootIgnore |-> FALSE, ignore |-> NoPath,
   bytes |-> "", rules |-> << >>, sources |-> {}, all |-> FALSE]
Lines(token) == LogicalLines(DockerText[token])

Protected(pol) == {Dockerfile, pol.ignore}
Sourced(pol, p) == {q \in pol.sources : SourceMatches(q, p)}
Admits(pol, rules, p) == (pol.all \/ Sourced(pol, p) # {}) /\ ~Ignored(rules, p)
Chosen(pol, p) == p \in Protected(pol) \/ Admits(pol, pol.rules, p)

\* prunes: nothing beneath the directory can be chosen, or be the only match of a source.
Prunes(pol, d) ==
  /\ pol.rules # << >> /\ Ignored(pol.rules, d)
  /\ \A p \in Protected(pol) : ~Beneath(p, d)
  /\ \A i \in 1 .. Len(pol.rules) :
       pol.rules[i].negated => ~Reaches(Normal(pol.rules[i].pattern), d)
  /\ \A q \in pol.sources : Normal(q) # << >> => ~Reaches(Normal(q), d)

\* The ignore file select_context_with finds among the kept entries; what is neither a
\* directory nor a link passes for a file there, but only the one in use has its bytes.
IgnoreIn(kept) ==
  LET found == {p \in DOMAIN kept : kept[p] \in {"file", "other"}}
  IN IF Specific \in found THEN Specific
     ELSE IF RootIgnore \in found THEN RootIgnore ELSE NoPath
RulesIn(pol, kept) ==
  IF IgnoreIn(kept) = NoPath THEN IF pol.ignore = NoPath THEN pol.fallback ELSE << >>
  ELSE IF IgnoreIn(kept) = pol.ignore THEN pol.rules ELSE << >>
SelectContext(pol, kept) ==
  {p \in DOMAIN kept :
     p \in {Dockerfile, IgnoreIn(kept)} \/ Admits(pol, RulesIn(pol, kept), p)}
HasDockerfile(kept) == Dockerfile \in DOMAIN kept /\ kept[Dockerfile] \in {"file", "other"}
MissingSource(pol, kept) == \E q \in pol.sources : \A p \in DOMAIN kept : ~SourceMatches(q, p)

-----------------------------------------------------------------------------
(* What the constants are. *)

Node == [kind : Kinds, data : STRING]
IgnoreRule == [pattern : Seq(STRING), negated : BOOLEAN, comment : BOOLEAN]
Image == [name : STRING, platform : STRING]

\* A file in the place of a Dockerfile or of an ignore file has a text.
Readable(p, node) ==
  node.kind = "file" =>
    /\ p = Dockerfile => node.data \in DOMAIN DockerText
    /\ p \in {Specific, RootIgnore} => node.data \in DOMAIN IgnoreText

GenerationAssumption ==
  /\ \A p \in Paths :
       /\ p \in Seq(STRING) /\ p # << >>
       /\ \A n \in 1 .. Len(p) : Prefix(p, n) \in Paths /\ p[n] \notin Improper
  /\ {Dockerfile, Specific, RootIgnore} \subseteq Paths /\ NoPath \notin Paths
  /\ Dockerfile # Specific /\ Dockerfile # RootIgnore /\ Specific # RootIgnore
  /\ \A w \in Wild : w[1] \notin Improper
  /\ \A t \in Trees : t \in [Paths -> Node] /\ \A p \in Paths : Readable(p, t[p])
  /\ \A c \in Changes : c.path \in Paths /\ c.node \in Node /\ Readable(c.path, c.node)
  /\ \A s \in Stacks : {"df", "image", "volumes"} \subseteq DOMAIN s /\ s.df \in BOOLEAN
  /\ {MaxPlans, MaxEdits, MaxMoves, MaxWalked, MaxEntries, MaxDepth, MaxFile, MaxTotal,
      MaxImages, MaxOutput} \subseteq Nat

\* What the texts say is of its sort: a fact about the recursive definitions above.
TextsAssumption ==
  /\ \A token \in DOMAIN IgnoreText : IgnoreRules(IgnoreText[token]) \in Seq(IgnoreRule)
  /\ \A token \in DOMAIN DockerText :
       /\ \A q \in LocalSources(Lines(token)) : Normal(q) \in Seq(STRING)
       /\ ExternalImages(Lines(token)).images \in Seq(Image)

-----------------------------------------------------------------------------
(* Planning. *)

NoImages == [want |-> << >>, out |-> << >>, left |-> 0, pulls |-> FALSE]
NoPlan == [stack |-> "none"]
Resting == {"idle", "built", "refused", "missing"}
Reading == {"detect", "dockerfile", "ignore", "rules", "walk", "read"}
Asking == {"version", "inspect", "pull", "again"}

GenerationInit ==
  /\ tree \in Trees
  /\ world = [root |-> 0, edits |-> 0, moves |-> 0, plans |-> 0, met |-> 0]
  /\ at = "idle" /\ plan = NoPlan /\ policy = NoPolicy
  /\ pending = {} /\ left = NoFunction /\ nodes = NoFunction /\ seen = {} /\ walked = 0
  /\ todo = {} /\ got = NoFunction /\ total = 0
  /\ images = NoImages /\ store \in Stores /\ made = {}

\* The next step of the plan, or the end of it.
Go(ok, next) == at' = IF ok THEN next ELSE "refused"

\* manifest_stack_plan up to the collection: the manifest is read, its stack looked up and
\* its runtime derived.  A caller of the library goes straight to the collection.
Begin(s, t, by) ==
  /\ at \in Resting /\ world.plans < MaxPlans
  /\ by = "library" => s.df
  /\ Go(by = "library" \/ ~Refused(s), IF s.df THEN "detect" ELSE "collected")
  /\ plan' = [stack |-> IF by = "library" \/ Refused(s) THEN s ELSE WithTarget(s), task |-> t,
              by |-> by]
  /\ policy' = NoPolicy
  /\ world' = [world EXCEPT !.plans = @ + 1, !.met = 0]
  /\ pending' = {} /\ left' = NoFunction /\ nodes' = NoFunction /\ seen' = {} /\ walked' = 0
  /\ todo' = {} /\ got' = NoFunction /\ total' = 0 /\ images' = NoImages
  /\ UNCHANGED <<tree, store, made>>

\* collect_context_with_defaults: bosn's own rules, when the workspace seems to have none;
\* collect_context has no defaults.
Detect ==
  /\ at = "detect"
  /\ policy' = [policy EXCEPT !.fallback =
       IF plan.by = "library" \/ IsFile(Specific) \/ IsFile(RootIgnore) THEN << >>
       ELSE DefaultIgnore]
  /\ at' = "dockerfile"
  /\ UNCHANGED <<tree, world, plan, walkVars, readVars, images, store, made>>

\* collect_context_inner notes the root and reads the Dockerfile.
ReadDockerfile ==
  /\ at = "dockerfile"
  /\ LET data == tree[Dockerfile].data
         ok == Regular(Dockerfile) /\ SizeOf(data) <= MaxFile /\ SizeOf(data) <= MaxTotal
     IN /\ Go(ok, "ignore")
        /\ policy' = IF ok THEN [policy EXCEPT !.text = data, !.root = world.root] ELSE policy
  /\ UNCHANGED <<tree, world, plan, walkVars, readVars, images, store, made>>

\* Which ignore file is in use: only a regular file is one.
LookForIgnore ==
  /\ at = "ignore"
  /\ policy' = [policy EXCEPT !.rootIgnore = Regular(RootIgnore),
       !.ignore = IF Regular(Specific) THEN Specific
                  ELSE IF Regular(RootIgnore) THEN RootIgnore ELSE NoPath]
  /\ at' = "rules"
  /\ UNCHANGED <<tree, world, plan, walkVars, readVars, images, store, made>>

\* The ignore file is read, and WalkPruner::new takes the sources out of the Dockerfile.
ReadRules ==
  /\ at = "rules"
  /\ LET none == policy.ignore = NoPath
         data == IF none THEN "" ELSE tree[policy.ignore].data
         readable == none \/ (Regular(policy.ignore) /\ SizeOf(data) <= MaxFile
                              /\ SizeOf(policy.text) + SizeOf(data) <= MaxTotal)
         ok == readable /\ ~LocalRefused(Lines(policy.text))
     IN /\ Go(ok, "walk")
        /\ policy' =
             IF ~ok THEN policy
             ELSE [policy EXCEPT !.bytes = data,
                     !.rules = IF none THEN policy.fallback ELSE IgnoreRules(IgnoreText[data]),
                     !.sources = LocalSources(Lines(policy.text)),
                     !.all = LocalAll(Lines(policy.text))]
        /\ pending' = IF ok THEN {<< >>} ELSE {}
  /\ UNCHANGED <<tree, world, plan, left, nodes, seen, walked, readVars, images, store, made>>

\* The first pass opens a directory: names and kinds.
OpenDir(d) ==
  /\ at = "walk" /\ d \in pending /\ DOMAIN left = {}
  /\ Go(KindAt(d) = "dir", "walk")
  /\ pending' = pending \ {d}
  /\ left' = IF KindAt(d) = "dir" THEN [p \in Children(d) |-> KindAt(p)] ELSE left
  /\ UNCHANGED <<tree, world, plan, policy, nodes, seen, walked, readVars, images, store, made>>

\* And looks at what it listed: classify and prunes.  A chosen entry is kept, and so is the
\* first match of every source.
Visit(p) ==
  LET chosen == Chosen(policy, p)
      kept == chosen \/ Sourced(policy, p) \ seen # {}
      enter == left[p] = "dir" /\ ~Prunes(policy, p)
      ok == /\ walked < MaxWalked
            /\ chosen => Cardinality({x \in DOMAIN nodes : Chosen(policy, x)}) < MaxEntries
            /\ enter => Len(p) <= MaxDepth
  IN /\ at = "walk" /\ p \in DOMAIN left
     /\ Go(ok, "walk")
     /\ walked' = walked + 1
     /\ left' = Restrict(left, DOMAIN left \ {p})
     /\ nodes' = IF ok /\ kept
                 THEN [x \in DOMAIN nodes \union {p} |-> IF x = p THEN left[p] ELSE nodes[x]]
                 ELSE nodes
     /\ seen' = seen \union Sourced(policy, p)
     /\ pending' = IF ok /\ enter THEN pending \union {p} ELSE pending
     /\ UNCHANGED <<tree, world, plan, policy, readVars, images, store, made>>

\* The kept entries are selected from, and the ignore files looked for once more.
Select ==
  /\ at = "walk" /\ pending = {} /\ DOMAIN left = {}
  /\ LET same == /\ Regular(Specific) = (policy.ignore = Specific)
                 /\ Regular(RootIgnore) = policy.rootIgnore
     IN at' = IF ~HasDockerfile(nodes) \/ MissingSource(policy, nodes) THEN "missing"
              ELSE IF ~same THEN "refused" ELSE "read"
  /\ todo' = SelectContext(policy, nodes)
  /\ UNCHANGED <<tree, world, plan, policy, walkVars, got, total, images, store, made>>

\* The second pass: an entry must be of the kind the walk saw, the Dockerfile and the
\* ignore file must hold what was read first, and the limits are named before reading.
ReadEntry(p) ==
  LET data == tree[p].data
      ok == /\ KindAt(p) = nodes[p] /\ nodes[p] # "other"
            /\ nodes[p] = "file" =>
                 /\ SizeOf(data) <= MaxFile /\ total + SizeOf(data) <= MaxTotal
                 /\ p = Dockerfile => data = policy.text
                 /\ p = policy.ignore => data = policy.bytes
  IN /\ at = "read" /\ p \in todo
     /\ Go(ok, "read")
     /\ todo' = todo \ {p}
     /\ got' = IF ok THEN [x \in DOMAIN got \union {p} |-> IF x = p THEN tree[p] ELSE got[x]]
               ELSE got
     /\ total' = IF ok /\ nodes[p] = "file" THEN total + SizeOf(data) ELSE total
     /\ UNCHANGED <<tree, world, plan, policy, walkVars, images, store, made>>

\* At last the root must be the one it was.
Collected ==
  /\ at = "read" /\ todo = {}
  /\ Go(world.root = policy.root, "collected")
  /\ UNCHANGED <<tree, world, plan, policy, walkVars, readVars, images, store, made>>

-----------------------------------------------------------------------------
(* Images and the generation. *)

Required ==
  IF plan.stack.df THEN ExternalImages(Lines(policy.text))
  ELSE [images |-> << [name |-> plan.stack.image, platform |-> "none"] >>, bad |-> FALSE]

\* content_digest and final_generation, then manifest_runtime_generation.
Content == [stack |-> StackFields(plan.stack), entries |-> {<<p, got[p]>> : p \in DOMAIN got}]
Base(receipts) == [content |-> Content, images |-> receipts]
RuntimeGeneration(receipts) ==
  [base |-> Base(receipts), runtime |-> RuntimeFields(plan.stack, Workdir(plan.stack))]

\* manifest_named_volumes: a volume's name outlives the generation unless it is of the spec.
VolumeName(v, gen) ==
  [scope |-> v.scope, stack |-> plan.stack.name, name |-> v.name,
   of |-> IF v.scope = "spec" THEN {gen} ELSE {}]
\* manifest_job_caches.
JobCaches(s) == IF SocketMounts(s) = {} THEN {} ELSE s.caches \union {"act-toolcache"}

\* What the setup plan makes a container of.
Shape(gen) ==
  [image |-> plan.stack.image, entries |-> got, env |-> plan.stack.env,
   mounts |-> Binding(plan.stack), workdir |-> Workdir(plan.stack),
   volumes |-> [i \in DOMAIN plan.stack.volumes |->
                  <<VolumeName(plan.stack.volumes[i], gen), plan.stack.volumes[i].target,
                    plan.stack.volumes[i].mode>>],
   tmpfs |-> Range(plan.stack.tmpfs), sockets |-> SocketMounts(plan.stack),
   guest |-> plan.stack.guest]

\* manifest_dockerfile_build_plan and the rest of manifest_stack_plan: every image is pinned
\* and named once, its digest is its receipt; the task belongs to the stack.
Derive ==
  /\ at = "collected" /\ plan.by = "daemon"
  /\ LET want == Required.images
         receipts == [k \in DOMAIN want |-> [image |-> want[k], id |-> want[k].name]]
         gen == RuntimeGeneration(receipts)
         ok == /\ ~Required.bad /\ IsInjective(want)
               /\ \A k \in DOMAIN want : want[k].name \in Pinned
               /\ plan.task.stack \in {"any", plan.stack.name}
               /\ plan.stack.guest => ~plan.task.secrets
               /\ ~VolumesRefused(plan.stack)
     IN /\ Go(ok, "built")
        /\ made' = IF ok
                   THEN made \union {[by |-> "daemon", gen |-> gen, shape |-> Shape(gen),
                                      images |-> Range(receipts), caches |-> JobCaches(plan.stack)]}
                   ELSE made
  /\ UNCHANGED <<tree, world, plan, policy, walkVars, readVars, images, store>>

\* resolve_images_streaming takes a request as a whole or not at all.
ValidImage(image) == image.name \in Valid /\ image.platform \in Valid \union {"none"}
Request(want, output, pulls) ==
  /\ images' = [want |-> want, out |-> << >>, left |-> output, pulls |-> pulls]
  /\ Go(Len(want) <= MaxImages /\ \A k \in DOMAIN want : ValidImage(want[k]), "inspect")

\* resolve_required_images_streaming: Docker is asked for its platform when an image needs it.
Resolve(pulls) ==
  LET want == Required.images
      needs == \E k \in DOMAIN want : {want[k].name, want[k].platform} \cap Automatic # {}
  IN /\ at = "collected" /\ plan.by = "library"
     /\ \/ ~needs /\ ~Required.bad /\ Request(want, MaxOutput, pulls)
        \/ /\ needs \/ Required.bad
           /\ images' = [want |-> want, out |-> << >>, left |-> MaxOutput, pulls |-> pulls]
           /\ Go(~Required.bad, "version")
     /\ UNCHANGED <<tree, world, plan, policy, walkVars, readVars, store, made>>

\* stream_command: a command leaves less for the ones after it, or fails: Docker says no,
\* the time is over, the caller gives up.
CommandFails ==
  /\ at \in Asking
  /\ at' = "refused"
  /\ UNCHANGED <<tree, world, plan, policy, walkVars, readVars, images, store, made>>

PlatformOf(name) == IF name \in Automatic THEN "linux" ELSE name
AskVersion ==
  /\ at = "version" /\ images.left > 0
  /\ Request([k \in DOMAIN images.want |->
               [name |-> PlatformOf(images.want[k].name),
                platform |-> PlatformOf(images.want[k].platform)]], MaxOutput, images.pulls)
  /\ UNCHANGED <<tree, world, plan, policy, walkVars, readVars, store, made>>

Answered == {images.out[k].image : k \in DOMAIN images.out}
Unanswered == {k \in DOMAIN images.want : images.want[k] \notin Answered}
Current == images.want[CHOOSE k \in Unanswered : \A j \in Unanswered : k <= j]
Receipt(id) == images' = [images EXCEPT !.out = Append(@, [image |-> Current, id |-> id]), !.left = @ - 1]

\* inspect, and again after a pull.  Nothing is pulled for a caller that only reads.
Inspect ==
  /\ at \in {"inspect", "again"} /\ Unanswered # {} /\ images.left > 0
  /\ \/ store[Current] \in Identities /\ Receipt(store[Current]) /\ at' = "inspect"
     \/ store[Current] = "absent" /\ at = "inspect" /\ ~images.pulls /\ Receipt("absent") /\ at' = at
     \/ /\ store[Current] = "absent" /\ at = "inspect" /\ images.pulls
        /\ images' = [images EXCEPT !.left = @ - 1] /\ at' = "pull"
     \/ /\ store[Current] = "malformed" \/ (store[Current] = "absent" /\ at = "again")
        /\ at' = "refused" /\ UNCHANGED images
  /\ UNCHANGED <<tree, world, plan, policy, walkVars, readVars, store, made>>
Pull ==
  /\ at = "pull" /\ images.left > 0
  /\ \E id \in Identities : store' = [store EXCEPT ![Current] = id]
  /\ images' = [images EXCEPT !.left = @ - 1]
  /\ at' = "again"
  /\ UNCHANGED <<tree, world, plan, policy, walkVars, readVars, made>>

\* final_generation: the receipts are exactly those of the images the Dockerfile names, as
\* it names them, and every one has its identity.
Authorize ==
  /\ at = "inspect" /\ Unanswered = {}
  /\ LET out == Range(images.out)
         ok == /\ {o.image : o \in out} = Range(Required.images)
               /\ \A o \in out : o.id \in Identities
     IN /\ Go(ok, "built")
        /\ made' = IF ok
                   THEN made \union {[by |-> "library", gen |-> [base |-> Base(images.out), runtime |-> << >>],
                                      shape |-> [entries |-> got], images |-> out, caches |-> {}]}
                   ELSE made
  /\ UNCHANGED <<tree, world, plan, policy, walkVars, readVars, images, store>>

-----------------------------------------------------------------------------
(* What goes on meanwhile (external).  A change that no step can come upon   *)
(* any more is left out.                                                     *)

Edit(p, node) ==
  /\ world.edits < MaxEdits /\ tree[p] # node /\ (at \in Reading \/ world.plans < MaxPlans)
  /\ tree' = [tree EXCEPT ![p] = node]
  /\ world' = [world EXCEPT !.edits = @ + 1, !.met = @ + 1]
  /\ UNCHANGED <<at, plan, policy, walkVars, readVars, images, store, made>>
ReplaceRoot(t) ==
  /\ world.edits < MaxEdits /\ at \in Reading
  /\ tree' = t
  /\ world' = [world EXCEPT !.root = @ + 1, !.edits = @ + 1, !.met = @ + 1]
  /\ UNCHANGED <<at, plan, policy, walkVars, readVars, images, store, made>>
StoreMoves(image, id) ==
  /\ world.moves < MaxMoves /\ store[image] # id /\ at \in Asking
  /\ store' = [store EXCEPT ![image] = id]
  /\ world' = [world EXCEPT !.moves = @ + 1]
  /\ UNCHANGED <<tree, at, plan, policy, walkVars, readVars, images, made>>

GenerationNext ==
  \/ \E s \in Stacks, t \in Tasks, by \in {"daemon", "library"} : Begin(s, t, by)
  \/ Detect \/ ReadDockerfile \/ LookForIgnore \/ ReadRules
  \/ \E d \in pending : OpenDir(d)
  \/ \E p \in DOMAIN left : Visit(p)
  \/ Select
  \/ \E p \in todo : ReadEntry(p)
  \/ Collected \/ Derive
  \/ \E pulls \in BOOLEAN : Resolve(pulls)
  \/ AskVersion \/ Inspect \/ Pull \/ CommandFails \/ Authorize
  \/ \E c \in Changes : Edit(c.path, c.node)
  \/ \E t \in Trees : ReplaceRoot(t)
  \/ \E image \in DOMAIN store, id \in Identities \union {"absent", "malformed"} : StoreMoves(image, id)

GenerationSpec == GenerationInit /\ [][GenerationNext]_generationVars

-----------------------------------------------------------------------------
HasContext == at \in {"collected", "built"} \union Asking /\ plan.stack.df

\* When nothing changed under it, a context holds exactly the entries of the workspace
\* that the Dockerfile and the rules choose, wherever they lie, and it is missing nothing
\* but a source that matches nothing in the workspace: what the walk leaves out never
\* counts.
ContextExact ==
  world.met = 0 =>
    /\ HasContext =>
         /\ DOMAIN got = {p \in Paths : KindAt(p) # "gone" /\ Chosen(policy, p)}
         /\ \A p \in DOMAIN got : got[p] = tree[p]
    /\ at = "missing" =>
         \E q \in policy.sources :
           \A p \in Paths : KindAt(p) # "gone" => ~SourceMatches(q, p)

\* Whatever changed under it, a context was read from one directory, carries the
\* Dockerfile that chose its entries, holds nothing but files, directories and links, and
\* stays within its limit.
ContextWhole ==
  HasContext =>
    /\ world.root = policy.root
    /\ Dockerfile \in DOMAIN got /\ got[Dockerfile].data = policy.text
    /\ \A p \in DOMAIN got : got[p].kind \in {"file", "dir", "link"}
    /\ total <= MaxTotal

\* If the walk came upon the ignore file that was read, and always if the workspace
\* changed no more than once, a context carries that file and only entries its rules
\* admit, and no more of them than allowed.
RulesApplied ==
  /\ policy.ignore # NoPath =>
       policy.ignore \in DOMAIN got /\ got[policy.ignore].data = policy.bytes
  /\ \A p \in DOMAIN got : Chosen(policy, p)
  /\ Cardinality(DOMAIN got) <= MaxEntries
ContextHonest == HasContext /\ IgnoreIn(nodes) = policy.ignore => RulesApplied
OneChangeIsSeen == HasContext /\ world.met <= 1 => RulesApplied

\* Two plans with one generation make the same container of the same entries.
SameGenerationSameShape == \A x, y \in made : x.gen = y.gen => x.shape = y.shape

\* A generation rests on one receipt for every image, and nothing is pulled for a caller
\* that only reads or for a request that is not taken whole.
ReceiptsExact ==
  /\ \A x \in made :
       \A r \in x.images :
         /\ r.id \in Identities \union Pinned
         /\ \A q \in x.images : r.image = q.image => r = q
  /\ at \in {"pull", "again"} =>
       images.pulls /\ \A k \in DOMAIN images.want : ValidImage(images.want[k])

ContextSafe == ContextExact /\ ContextWhole /\ ContextHonest
GenerationSafe == ContextSafe /\ OneChangeIsSeen /\ SameGenerationSameShape /\ ReceiptsExact
=============================================================================
