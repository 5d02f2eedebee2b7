-------------------------- MODULE GenerationProofs --------------------------
(***************************************************************************)
(* Proofs about the collection of a build context (module Generation), for *)
(* every workspace, Dockerfile, set of ignore rules, limit and sequence of *)
(* changes from outside, and about the receipts of images.                 *)
(***************************************************************************)
EXTENDS Generation, SequenceTheorems, FiniteSetTheorems, WellFoundedInduction, TLAPS

\* A set of natural numbers has a least one.
LEMMA LeastNatural ==
  ASSUME NEW T, T \subseteq Nat, T # {}
  PROVE  \E x \in T : \A y \in T : x <= y
<1>1. PICK x \in T : \A y \in T : ~(<<y, x>> \in OpToRel(<, Nat))
  BY NatLessThanWellFounded, WFMin
<1>2. \A y \in T : ~(y < x)
  BY <1>1 DEF OpToRel
<1> QED
  BY <1>2

-----------------------------------------------------------------------------
(* Paths. *)

LEMMA PrefixFacts ==
  ASSUME NEW S, NEW p \in Seq(S), NEW n \in 0 .. Len(p)
  PROVE  /\ Prefix(p, n) \in Seq(S) /\ Len(Prefix(p, n)) = n
         /\ \A i \in 1 .. n : Prefix(p, n)[i] = p[i]
<1>1. \A i \in 1 .. n : p[i] \in S
  OBVIOUS
<1> QED
  BY <1>1, SubSeqProperties, Len(p) \in Nat DEF Prefix

LEMMA SameSequence ==
  ASSUME NEW S, NEW p \in Seq(S), NEW q \in Seq(S), Len(p) = Len(q),
         \A i \in 1 .. Len(p) : p[i] = q[i]
  PROVE  p = q
OBVIOUS

LEMMA PrefixOfPrefix ==
  ASSUME NEW S, NEW p \in Seq(S), NEW m \in 0 .. Len(p), NEW n \in 0 .. m
  PROVE  Prefix(Prefix(p, m), n) = Prefix(p, n)
<1> DEFINE a == Prefix(p, m)
           b == Prefix(a, n)
           c == Prefix(p, n)
<1>1. a \in Seq(S) /\ Len(a) = m /\ \A i \in 1 .. m : a[i] = p[i]
  BY PrefixFacts
<1>2. n \in 0 .. Len(p) /\ n \in 0 .. Len(a)
  BY <1>1
<1>3. c \in Seq(S) /\ Len(c) = n /\ \A i \in 1 .. n : c[i] = p[i]
  BY <1>2, PrefixFacts
<1> HIDE DEF a
<1>4. b \in Seq(S) /\ Len(b) = n /\ \A i \in 1 .. n : b[i] = a[i]
  BY <1>1, <1>2, PrefixFacts
<1> HIDE DEF b, c
<1>5. \A i \in 1 .. n : b[i] = c[i]
  BY <1>1, <1>3, <1>4
<1>6. b = c
  BY <1>3, <1>4, <1>5, SameSequence
<1> QED
  BY <1>6 DEF a, b, c

LEMMA WholePrefix ==
  ASSUME NEW S, NEW p \in Seq(S)
  PROVE  Prefix(p, Len(p)) = p /\ Prefix(p, 0) = << >>
<1>1. Len(p) \in 0 .. Len(p) /\ 0 \in 0 .. Len(p)
  OBVIOUS
<1>2. Prefix(p, Len(p)) = p
  <2> DEFINE a == Prefix(p, Len(p))
  <2>1. a \in Seq(S) /\ Len(a) = Len(p) /\ \A i \in 1 .. Len(p) : a[i] = p[i]
    BY <1>1, PrefixFacts
  <2> HIDE DEF a
  <2>2. a = p
    BY <2>1, SameSequence
  <2> QED
    BY <2>2 DEF a
<1>3. Prefix(p, 0) \in Seq(S) /\ Len(Prefix(p, 0)) = 0
  BY <1>1, PrefixFacts
<1> QED
  BY <1>2, <1>3

\* What lies beneath a directory has the directory's names first.
LEMMA BeneathFacts ==
  ASSUME NEW S, NEW p \in Seq(S), NEW d \in Seq(S), Beneath(p, d)
  PROVE  /\ Len(d) \in 0 .. Len(p) /\ Len(d) < Len(p) /\ Prefix(p, Len(d)) = d
         /\ \A i \in 1 .. Len(d) : d[i] = p[i]
<1>1. Len(d) \in 0 .. Len(p) /\ Len(d) < Len(p) /\ Prefix(p, Len(d)) = d
  BY DEF Beneath
<1>2. \A i \in 1 .. Len(d) : Prefix(p, Len(d))[i] = p[i]
  BY <1>1, PrefixFacts
<1> QED
  BY <1>1, <1>2

-----------------------------------------------------------------------------
(* Patterns: why a directory may be left out. *)

\* What fits a name is a proper component.
LEMMA ProperFits ==
  ASSUME GenerationAssumption, NEW c, NEW name, name \notin Improper, Fits(c, name)
  PROVE  c \notin Improper
<1>1. \A w \in Wild : w[1] \notin Improper
  BY DEF GenerationAssumption
<1>2. CASE c = "*" \/ c = name
  BY <1>2 DEF Improper
<1>3. CASE <<c, name>> \in Wild
  <2>1. <<c, name>>[1] \notin Improper
    BY <1>1, <1>3
  <2> QED
    BY <2>1
<1> QED
  BY <1>2, <1>3 DEF Fits

\* Up to its first "**" a pattern is matched name by name.
LEMMA InStep ==
  ASSUME NEW q, Len(q) \in Nat, NEW s \in Seq(STRING),
         NEW a \in [1 .. Len(q) + 1 -> 1 .. Len(s) + 1], Aligned(q, s, a),
         NEW i \in 1 .. Len(q), \A j \in 1 .. i : q[j] # "**"
  PROVE  a[i] = i /\ i <= Len(s) /\ Fits(q[i], s[i])
<1>1. a[1] = 1
  BY DEF Aligned
<1>2. \A j \in 1 .. i : a[j] <= Len(s) /\ a[j + 1] = a[j] + 1 /\ Fits(q[j], s[a[j]])
  BY DEF Aligned
<1>3. a[i] = i
  <2> DEFINE T == {j \in 1 .. i : a[j] # j}
  <2>1. T = {}
    <3> SUFFICES ASSUME T # {} PROVE FALSE
      OBVIOUS
    <3>1. T \subseteq Nat
      OBVIOUS
    <3>2. PICK x \in T : \A y \in T : x <= y
      <4> HIDE DEF T
      <4> QED
        BY <3>1, LeastNatural
    <3>3. x \in 1 .. i /\ a[x] # x
      OBVIOUS
    <3>4. x # 1
      BY <3>3, <1>1
    <3>5. x - 1 \in 1 .. i /\ x - 1 \notin T
      BY <3>2, <3>3, <3>4
    <3>6. a[x - 1] = x - 1
      BY <3>5
    <3>7. a[(x - 1) + 1] = a[x - 1] + 1
      BY <3>5, <1>2
    <3>8. (x - 1) + 1 = x
      BY <3>3
    <3> QED
      BY <3>3, <3>6, <3>7, <3>8
  <2> QED
    BY <2>1
<1>4. i \in 1 .. i
  OBVIOUS
<1> QED
  BY <1>2, <1>3, <1>4

\* A pattern that hits something beneath a directory reaches the directory.
LEMMA HitsReach ==
  ASSUME NEW q, Len(q) \in Nat, NEW p \in Seq(STRING), NEW d \in Seq(STRING),
         Beneath(p, d), Hits(q, p)
  PROVE  Reaches(q, d)
<1>1. PICK n \in 1 .. Len(p) : Glob(q, Prefix(p, n))
  BY DEF Hits
<1> DEFINE s == Prefix(p, n)
<1>2. s \in Seq(STRING) /\ Len(s) = n /\ \A i \in 1 .. n : s[i] = p[i]
  BY PrefixFacts
<1> HIDE DEF s
<1>3. PICK a \in [1 .. Len(q) + 1 -> 1 .. Len(s) + 1] : Aligned(q, s, a)
  BY <1>1 DEF Glob, s
<1> SUFFICES ASSUME NEW i \in 1 .. Len(d), i <= Len(q), \A j \in 1 .. i : q[j] # "**"
             PROVE  Fits(q[i], d[i])
  BY DEF Reaches
<1>4. i \in 1 .. Len(q)
  OBVIOUS
<1>5. i <= Len(s) /\ Fits(q[i], s[i])
  BY <1>2, <1>3, <1>4, InStep
<1>6. s[i] = p[i] /\ d[i] = p[i]
  BY <1>2, <1>5, BeneathFacts
<1> QED
  BY <1>5, <1>6

\* A pattern that hits a path has no component that is not a name.
LEMMA HitsNormal ==
  ASSUME GenerationAssumption, NEW q, Len(q) \in Nat, NEW p \in Paths, Hits(q, p)
  PROVE  Normal(q) = q
<1>1. p \in Seq(STRING) /\ \A n \in 1 .. Len(p) : p[n] \notin Improper
  BY DEF GenerationAssumption
<1>2. PICK n \in 1 .. Len(p) : Glob(q, Prefix(p, n))
  BY DEF Hits
<1> DEFINE s == Prefix(p, n)
<1>3. s \in Seq(STRING) /\ Len(s) = n /\ \A i \in 1 .. n : s[i] = p[i]
  BY <1>1, PrefixFacts
<1> HIDE DEF s
<1>4. PICK a \in [1 .. Len(q) + 1 -> 1 .. Len(s) + 1] : Aligned(q, s, a)
  BY <1>2 DEF Glob, s
<1>5. ASSUME NEW k \in 1 .. Len(q)
      PROVE  q[k] \notin Improper
  <2>1. CASE q[k] = "**"
    BY <2>1 DEF Improper
  <2>2. CASE q[k] # "**"
    <3>1. a[k] <= Len(s) /\ Fits(q[k], s[a[k]])
      BY <1>4, <2>2 DEF Aligned
    <3>2. a[k] \in 1 .. n
      BY <3>1, <1>3
    <3>3. s[a[k]] \notin Improper
      BY <3>2, <1>1, <1>3
    <3> QED
      BY <3>1, <3>3, ProperFits
  <2> QED
    BY <2>1, <2>2
<1> QED
  BY <1>5 DEF Normal

\* What hits a directory hits everything beneath it.
LEMMA HitsBelow ==
  ASSUME NEW q, NEW p \in Seq(STRING), NEW d \in Seq(STRING), Beneath(p, d), Hits(q, d)
  PROVE  Hits(q, p)
<1>1. PICK n \in 1 .. Len(d) : Glob(q, Prefix(d, n))
  BY DEF Hits
<1>2. Len(d) \in 0 .. Len(p) /\ Prefix(p, Len(d)) = d /\ n \in 1 .. Len(p)
  BY BeneathFacts
<1>3. Prefix(d, n) = Prefix(p, n)
  <2>1. n \in 0 .. Len(d)
    OBVIOUS
  <2>2. Prefix(Prefix(p, Len(d)), n) = Prefix(p, n)
    BY <1>2, <2>1, PrefixOfPrefix
  <2> QED
    BY <2>2, <1>2
<1> QED
  BY <1>1, <1>2, <1>3 DEF Hits

\* Rules and patterns have an end.
RulesTyped(rules) ==
  Len(rules) \in Nat /\ \A i \in 1 .. Len(rules) : Len(rules[i].pattern) \in Nat
PolicyTyped(pol) ==
  /\ RulesTyped(pol.rules)
  /\ \A q \in pol.sources : Len(Normal(q)) \in Nat

\* prunes keeps its promise: beneath a directory it leaves out nothing is chosen, and no
\* source finds a match there that is not the whole workspace (walk_prune.rs).
THEOREM PruningIsSound ==
  ASSUME GenerationAssumption, NEW pol, PolicyTyped(pol), NEW d \in Paths, Prunes(pol, d),
         NEW p \in Paths, Beneath(p, d)
  PROVE  /\ ~Chosen(pol, p)
         /\ \A q \in pol.sources : SourceMatches(q, p) => Normal(q) = << >>
<1>1. p \in Seq(STRING) /\ d \in Seq(STRING)
  BY DEF GenerationAssumption
<1>2. p \notin Protected(pol)
  BY DEF Prunes
<1>3. Ignored(pol.rules, p)
  <2> DEFINE rules == pol.rules
  <2>1. PICK i \in 1 .. Len(rules) :
            /\ ~rules[i].negated /\ Hits(rules[i].pattern, d)
            /\ \A j \in (i + 1) .. Len(rules) : Hits(rules[j].pattern, d) => ~rules[j].negated
    BY DEF Prunes, Ignored
  <2>2. Hits(rules[i].pattern, p)
    BY <2>1, <1>1, HitsBelow
  <2>3. ASSUME NEW j \in (i + 1) .. Len(rules), Hits(rules[j].pattern, p), rules[j].negated
        PROVE  FALSE
    <3>1. j \in 1 .. Len(rules)
      <4>1. Len(rules) \in Nat
        BY DEF PolicyTyped, RulesTyped
      <4> HIDE DEF rules
      <4> QED
        BY <4>1
    <3>2. Len(rules[j].pattern) \in Nat
      BY <3>1 DEF PolicyTyped, RulesTyped
    <3>3. Reaches(rules[j].pattern, d)
      BY <3>2, <2>3, <1>1, HitsReach
    <3>4. Normal(rules[j].pattern) = rules[j].pattern
      BY <3>2, <2>3, HitsNormal
    <3> QED
      BY <3>1, <3>3, <3>4, <2>3 DEF Prunes
  <2> QED
    BY <2>1, <2>2, <2>3 DEF Ignored
<1>4. ASSUME NEW q \in pol.sources, SourceMatches(q, p), Normal(q) # << >>
      PROVE  FALSE
  <2>1. Hits(Normal(q), p)
    BY <1>4 DEF SourceMatches
  <2>2. ~Reaches(Normal(q), d)
    BY <1>4 DEF Prunes
  <2>3. Len(Normal(q)) \in Nat
    BY DEF PolicyTyped
  <2> QED
    BY <2>1, <2>2, <2>3, <1>1, HitsReach
<1> QED
  BY <1>2, <1>3, <1>4 DEF Chosen, Admits

-----------------------------------------------------------------------------
(* The inductive invariant. *)

Later == {"collected", "built"} \union Asking
Early == {"detect", "dockerfile", "ignore", "rules"}
Walked == at \in {"walk", "read", "missing"} \/ HasContext
InRead == at = "read" \/ HasContext
Present == {"file", "dir", "link", "other"}

\* The variables that are records and functions are what they should be.
Shapes ==
  /\ tree \in [Paths -> Node] /\ \A p \in Paths : Readable(p, tree[p])
  /\ world = [root |-> world.root, edits |-> world.edits, moves |-> world.moves,
              plans |-> world.plans, met |-> world.met]
  /\ world.met \in Nat
  /\ policy = [fallback |-> policy.fallback, text |-> policy.text, root |-> policy.root,
               rootIgnore |-> policy.rootIgnore, ignore |-> policy.ignore,
               bytes |-> policy.bytes, rules |-> policy.rules, sources |-> policy.sources,
               all |-> policy.all]
  /\ RulesTyped(policy.fallback)
  /\ at \in Early => left = NoFunction /\ nodes = NoFunction /\ seen = {} /\ got = NoFunction

\* What was read of the policy.
IgnoreKnown ==
  /\ policy.rootIgnore \in BOOLEAN /\ policy.ignore \in {NoPath, Specific, RootIgnore}
  /\ policy.ignore = RootIgnore => policy.rootIgnore
  /\ policy.ignore = NoPath => ~policy.rootIgnore
PolicyInv ==
  /\ at \in {"ignore", "rules"} \/ Walked => policy.text \in DOMAIN DockerText
  /\ at = "rules" \/ Walked => IgnoreKnown
  /\ Walked => PolicyTyped(policy) /\ (policy.ignore = NoPath => policy.rules = policy.fallback)

\* As long as nothing changed, the policy is that of the workspace.
Matched ==
  /\ Regular(Specific) = (policy.ignore = Specific)
  /\ Regular(RootIgnore) = policy.rootIgnore
FreshInv ==
  /\ at \in {"ignore", "rules", "walk"} /\ world.met = 0 => Regular(Dockerfile)
  /\ at \in {"rules", "walk"} /\ ~Matched => world.met > 0

\* An entry the walk has yet to come to: it lies in or beneath something listed, or
\* beneath a directory to open.
Ahead(p) ==
  \/ \E n \in 1 .. Len(p) : Prefix(p, n) \in DOMAIN left
  \/ \E n \in 0 .. (Len(p) - 1) : Prefix(p, n) \in pending
Cover(p) == p \in DOMAIN nodes \/ Ahead(p)

\* As long as nothing changed, the walk is on its way to everything that is chosen and to a
\* match of every source that has one.
Quiet ==
  /\ \A p \in DOMAIN left : left[p] = KindAt(p)
  /\ \A p \in DOMAIN nodes : nodes[p] = KindAt(p)
  /\ \A p \in Paths : KindAt(p) # "gone" /\ Chosen(policy, p) => Cover(p)
  /\ \A q \in policy.sources \ seen :
       \A p \in Paths : KindAt(p) # "gone" /\ SourceMatches(q, p) => Ahead(p)
  /\ \A q \in seen : \E p \in DOMAIN nodes : SourceMatches(q, p)

\* As long as at most one thing changed and the ignore files are where they were, they were
\* so all the time, and the walk is on its way to the one in use.
IgnoreMet ==
  /\ \A f \in {Specific, RootIgnore} :
       /\ f \in DOMAIN left => (left[f] = "file" <=> Regular(f))
       /\ f \in DOMAIN nodes => (nodes[f] = "file" <=> Regular(f))
  /\ policy.ignore # NoPath =>
       /\ Cover(policy.ignore)
       /\ \A x \in DOMAIN left : Beneath(policy.ignore, x) => left[x] = "dir"

WalkInv ==
  at = "walk" =>
    /\ DOMAIN left \subseteq Paths /\ \A p \in DOMAIN left : left[p] \in Present
    /\ pending \subseteq Paths \union {<< >>} /\ seen \subseteq policy.sources
    /\ DOMAIN got = {}
    /\ world.met = 0 => Quiet
    /\ world.met <= 1 /\ Matched => IgnoreMet

ChosenNodes == {x \in DOMAIN nodes : Chosen(policy, x)}
NodesInv ==
  Walked =>
    /\ DOMAIN nodes \subseteq Paths /\ \A p \in DOMAIN nodes : nodes[p] \in Present
    /\ IsFiniteSet(DOMAIN nodes) /\ Cardinality(ChosenNodes) <= MaxEntries

\* What was read of an entry.
GotRight(p) ==
  /\ nodes[p] # "other" /\ got[p].kind = nodes[p]
  /\ nodes[p] = "file" =>
       /\ p = Dockerfile => got[p].data = policy.text
       /\ p = policy.ignore => got[p].data = policy.bytes
IgnoreSettled ==
  \/ IgnoreIn(nodes) = policy.ignore
  \/ IgnoreIn(nodes) \in DOMAIN nodes /\ nodes[IgnoreIn(nodes)] = "other"
QuietRead ==
  /\ \A p \in DOMAIN nodes : nodes[p] = KindAt(p)
  /\ \A p \in Paths : KindAt(p) # "gone" /\ Chosen(policy, p) => p \in DOMAIN nodes
  /\ \A p \in DOMAIN got : got[p] = tree[p]
ReadInv ==
  /\ InRead =>
       /\ todo \union DOMAIN got = SelectContext(policy, nodes) /\ HasDockerfile(nodes)
       /\ \A p \in DOMAIN got : GotRight(p)
       /\ world.met <= 1 => IgnoreSettled
       /\ world.met = 0 => QuietRead
  /\ HasContext => todo = {} /\ world.root = policy.root

NothingMatches ==
  \E q \in policy.sources : \A p \in Paths : KindAt(p) # "gone" => ~SourceMatches(q, p)
MissingInv == at = "missing" /\ world.met = 0 => NothingMatches
TotalInv == total <= MaxTotal

ContextInv ==
  /\ Shapes /\ PolicyInv /\ FreshInv /\ WalkInv /\ NodesInv /\ ReadInv /\ MissingInv /\ TotalInv

-----------------------------------------------------------------------------
(* The workspace. *)

LEMMA PathFacts ==
  ASSUME GenerationAssumption, NEW p \in Paths
  PROVE  /\ p \in Seq(STRING) /\ Len(p) \in Nat \ {0}
         /\ \A n \in 1 .. Len(p) : Prefix(p, n) \in Paths
<1>1. p \in Seq(STRING) /\ p # << >> /\ \A n \in 1 .. Len(p) : Prefix(p, n) \in Paths
  BY DEF GenerationAssumption
<1> QED
  BY <1>1

LEMMA KindFacts ==
  ASSUME GenerationAssumption, Shapes, NEW p \in Paths
  PROVE  /\ KindAt(p) \in Kinds
         /\ KindAt(p) # "gone" => KindAt(p) = tree[p].kind
<1>1. p # << >>
  BY DEF GenerationAssumption
<1>2. tree[p].kind \in Kinds
  <2>1. tree[p] \in Node
    BY DEF Shapes
  <2> QED
    BY <2>1 DEF Node
<1>3. KindAt(p) = tree[p].kind \/ KindAt(p) = "gone"
  BY <1>1 DEF KindAt
<1> QED
  BY <1>2, <1>3 DEF Kinds

\* Above what is there are directories.
LEMMA KindAbove ==
  ASSUME GenerationAssumption, NEW p \in Paths, KindAt(p) # "gone", NEW n \in 1 .. Len(p) - 1
  PROVE  Prefix(p, n) \in Paths /\ KindAt(Prefix(p, n)) = "dir"
<1>1. p \in Seq(STRING) /\ Len(p) \in Nat \ {0} /\ \A m \in 1 .. Len(p) : Prefix(p, m) \in Paths
  BY PathFacts
<1>2. n \in 1 .. Len(p) /\ n \in 0 .. Len(p)
  BY <1>1
<1>3. p # << >>
  BY DEF GenerationAssumption
<1>4. \A m \in 1 .. (Len(p) - 1) : tree[Prefix(p, m)].kind = "dir"
  BY <1>3 DEF KindAt
<1> DEFINE x == Prefix(p, n)
<1>5. x \in Paths /\ Len(x) = n
  BY <1>1, <1>2, PrefixFacts
<1>6. \A m \in 1 .. (n - 1) : Prefix(x, m) = Prefix(p, m)
  BY <1>1, <1>2, PrefixOfPrefix
<1>7. tree[x].kind = "dir"
  BY <1>4
<1> HIDE DEF x
<1>8. \A m \in 1 .. (Len(x) - 1) : tree[Prefix(x, m)].kind = "dir"
  <2> TAKE m \in 1 .. (Len(x) - 1)
  <2>1. m \in 1 .. (n - 1) /\ m \in 1 .. (Len(p) - 1)
    BY <1>5, <1>1
  <2> QED
    BY <2>1, <1>4, <1>6
<1>9. KindAt(x) = "dir"
  BY <1>5, <1>7, <1>8 DEF KindAt
<1> QED
  BY <1>5, <1>9 DEF x

\* One more name leads into a directory's listing.
LEMMA NextChild ==
  ASSUME GenerationAssumption, NEW p \in Paths, KindAt(p) # "gone", NEW n \in 0 .. Len(p) - 1
  PROVE  Prefix(p, n + 1) \in Children(Prefix(p, n)) /\ n + 1 \in 1 .. Len(p)
<1>1. p \in Seq(STRING) /\ Len(p) \in Nat \ {0} /\ \A m \in 1 .. Len(p) : Prefix(p, m) \in Paths
  BY PathFacts
<1>2. n + 1 \in 1 .. Len(p) /\ n + 1 \in 0 .. Len(p) /\ n \in 0 .. Len(p) /\ n \in 0 .. (n + 1)
  BY <1>1
<1> DEFINE x == Prefix(p, n + 1)
           d == Prefix(p, n)
<1>3. x \in Paths /\ Len(x) = n + 1 /\ Len(d) = n
  BY <1>1, <1>2, PrefixFacts
<1>4. Prefix(x, n) = d
  BY <1>1, <1>2, PrefixOfPrefix
<1>5. KindAt(x) # "gone"
  <2>1. CASE n + 1 = Len(p)
    <3>1. x = p
      BY <1>1, <2>1, WholePrefix
    <3> QED
      BY <3>1
  <2>2. CASE n + 1 # Len(p)
    <3>1. n + 1 \in 1 .. Len(p) - 1
      BY <1>1, <2>2
    <3> QED
      BY <3>1, KindAbove
  <2> QED
    BY <2>1, <2>2
<1> HIDE DEF x, d
<1>6. x \in Children(d)
  BY <1>2, <1>3, <1>4, <1>5 DEF Children, Beneath
<1> QED
  BY <1>2, <1>6 DEF x, d

LEMMA ChildFacts ==
  ASSUME GenerationAssumption, Shapes, NEW d, NEW p \in Children(d)
  PROVE  p \in Paths /\ KindAt(p) \in Present
<1>1. p \in Paths /\ KindAt(p) # "gone"
  BY DEF Children
<1> QED
  BY <1>1, KindFacts DEF Kinds, Present

-----------------------------------------------------------------------------
(* Steps that leave the collection alone. *)

collectionVars == <<tree, plan, policy, pending, left, nodes, seen, todo, got, total>>

\* Nothing of the collection changed, and the plan is where it was or further on.
LEMMA CollectionStays ==
  ASSUME ContextInv, UNCHANGED collectionVars, world'.met = world.met, world'.root = world.root,
         world' = [root |-> world'.root, edits |-> world'.edits, moves |-> world'.moves,
                   plans |-> world'.plans, met |-> world'.met],
         at' = at \/ (at \in Later /\ at' \in Later \union {"refused"})
  PROVE  ContextInv'
<1>1. /\ tree' = tree /\ plan' = plan /\ policy' = policy /\ pending' = pending /\ left' = left
      /\ nodes' = nodes /\ seen' = seen /\ todo' = todo /\ got' = got /\ total' = total
  BY DEF collectionVars
<1>2. \/ at' = at
      \/ at \in Later /\ at' \in Later
      \/ at \in Later /\ at' = "refused"
  OBVIOUS
<1>3. HasContext' => HasContext
  BY <1>1, <1>2 DEF HasContext, Later, Asking
<1>4. /\ Walked' => Walked
      /\ InRead' => InRead
      /\ at' \in Early \/ at' \in {"ignore", "rules", "walk", "missing"} => at' = at
  BY <1>2, <1>3 DEF Walked, InRead, Later, Asking, Early
<1>5. Shapes'
  BY <1>1, <1>4 DEF ContextInv, Shapes, Early, NoFunction, RulesTyped
<1>6. PolicyInv'
  BY <1>1, <1>4 DEF ContextInv, PolicyInv, PolicyTyped, RulesTyped, IgnoreKnown
<1>7. FreshInv'
  BY <1>1, <1>4 DEF ContextInv, FreshInv, Matched, Regular, KindAt
<1>8. WalkInv'
  <2> SUFFICES ASSUME at' = "walk" PROVE WalkInv'
    BY DEF WalkInv
  <2>1. at = "walk"
    BY <1>4
  <2> QED
    BY <2>1, <1>1 DEF ContextInv, WalkInv, Quiet, IgnoreMet, Matched, Cover, Ahead, Regular, KindAt
<1>9. NodesInv'
  BY <1>1, <1>4 DEF ContextInv, NodesInv, ChosenNodes
<1>10. ReadInv'
  BY <1>1, <1>3, <1>4 DEF ContextInv, ReadInv, QuietRead, IgnoreSettled, GotRight, KindAt
<1>11. MissingInv' /\ TotalInv'
  BY <1>1, <1>4 DEF ContextInv, MissingInv, NothingMatches, TotalInv, KindAt
<1> QED
  BY <1>5, <1>6, <1>7, <1>8, <1>9, <1>10, <1>11 DEF ContextInv

\* A change from outside: nothing is quiet any more.
LEMMA WorkspaceChanges ==
  ASSUME ContextInv,
         UNCHANGED <<at, plan, policy, pending, left, nodes, seen, todo, got, total>>,
         tree' \in [Paths -> Node], \A p \in Paths : Readable(p, tree'[p]),
         world' = [root |-> world'.root, edits |-> world'.edits, moves |-> world'.moves,
                   plans |-> world'.plans, met |-> world'.met],
         world'.met = world.met + 1,
         HasContext => world'.root = world.root
  PROVE  ContextInv'
<1>1. /\ at' = at /\ plan' = plan /\ policy' = policy /\ pending' = pending /\ left' = left
      /\ nodes' = nodes /\ seen' = seen /\ todo' = todo /\ got' = got /\ total' = total
  OBVIOUS
<1>2. world.met \in Nat
  BY DEF ContextInv, Shapes
<1>3. /\ world'.met \in Nat /\ world'.met # 0 /\ world'.met > 0
      /\ world'.met <= 1 => world.met = 0
  BY <1>2
<1>4. HasContext' = HasContext /\ Walked' = Walked /\ InRead' = InRead
  BY <1>1 DEF HasContext, Walked, InRead
<1>5. Shapes'
  BY <1>1, <1>3 DEF ContextInv, Shapes, NoFunction, RulesTyped
<1>6. PolicyInv'
  BY <1>1, <1>4 DEF ContextInv, PolicyInv, PolicyTyped, RulesTyped, IgnoreKnown
<1>7. FreshInv'
  BY <1>3 DEF FreshInv
<1>8. WalkInv'
  <2> SUFFICES ASSUME at' = "walk" PROVE WalkInv'
    BY DEF WalkInv
  <2>1. at = "walk"
    BY <1>1
  <2>2. ASSUME world'.met <= 1, Matched'
        PROVE  IgnoreMet'
    <3>1. world.met = 0
      BY <2>2, <1>3
    <3>2. Matched
      BY <2>1, <3>1 DEF ContextInv, FreshInv
    <3>3. IgnoreMet
      BY <2>1, <3>1, <3>2 DEF ContextInv, WalkInv
    <3>4. IgnoreKnown
      BY <2>1 DEF ContextInv, PolicyInv, Walked
    <3>5. Regular(Specific)' <=> Regular(Specific)
      BY <2>2, <3>2, <1>1 DEF Matched
    <3>6. Regular(RootIgnore)' <=> Regular(RootIgnore)
      BY <2>2, <3>2, <1>1 DEF Matched
    <3> QED
      BY <3>3, <3>5, <3>6, <1>1 DEF IgnoreMet, Cover, Ahead
  <2> QED
    BY <2>1, <2>2, <1>1, <1>3 DEF ContextInv, WalkInv
<1>9. NodesInv'
  BY <1>1, <1>4 DEF ContextInv, NodesInv, ChosenNodes
<1>10. ReadInv'
  <2>1. world'.met <= 1 => world.met <= 1
    BY <1>3
  <2> QED
    BY <1>1, <1>3, <1>4, <2>1 DEF ContextInv, ReadInv, IgnoreSettled, GotRight
<1>11. MissingInv' /\ TotalInv'
  BY <1>1, <1>3 DEF ContextInv, MissingInv, TotalInv
<1> QED
  BY <1>5, <1>6, <1>7, <1>8, <1>9, <1>10, <1>11 DEF ContextInv

\* Images are asked for and the generation is made when the context is complete.
LEMMA AfterwardsInv ==
  ASSUME ContextInv,
         \/ Derive \/ AskVersion \/ Inspect \/ Pull \/ CommandFails \/ Authorize
         \/ \E pulls \in BOOLEAN : Resolve(pulls)
         \/ \E image, id : StoreMoves(image, id)
         \/ UNCHANGED generationVars
  PROVE  ContextInv'
<1>1. /\ world = [root |-> world.root, edits |-> world.edits, moves |-> world.moves,
                  plans |-> world.plans, met |-> world.met]
  BY DEF ContextInv, Shapes
<1>2. CASE UNCHANGED generationVars
  <2>1. world' = world /\ at' = at /\ UNCHANGED collectionVars
    BY <1>2 DEF generationVars, walkVars, readVars, collectionVars
  <2> QED
    BY <2>1, <1>1, CollectionStays
<1>3. CASE \E image, id : StoreMoves(image, id)
  <2>1. /\ world' = [world EXCEPT !.moves = @ + 1] /\ at' = at /\ UNCHANGED collectionVars
    BY <1>3 DEF StoreMoves, walkVars, readVars, collectionVars
  <2>2. PICK w : w = world'
    OBVIOUS
  <2>3. /\ w = [root |-> w.root, edits |-> w.edits, moves |-> w.moves, plans |-> w.plans, met |-> w.met]
        /\ w.met = world.met /\ w.root = world.root
    BY <2>1, <2>2, <1>1
  <2> QED
    BY <2>1, <2>2, <2>3, CollectionStays
<1>4. ASSUME world' = world, UNCHANGED collectionVars, at \in Later, at' \in Later \union {"refused"}
      PROVE  ContextInv'
  BY <1>4, <1>1, CollectionStays
<1>5. CASE Derive
  BY <1>4, <1>5 DEF Derive, Go, walkVars, readVars, collectionVars, Later, Asking
<1>6. CASE AskVersion
  BY <1>4, <1>6 DEF AskVersion, Request, Go, walkVars, readVars, collectionVars, Later, Asking
<1>7. CASE Inspect
  BY <1>4, <1>7 DEF Inspect, walkVars, readVars, collectionVars, Later, Asking
<1>8. CASE Pull
  BY <1>4, <1>8 DEF Pull, walkVars, readVars, collectionVars, Later, Asking
<1>9. CASE CommandFails
  BY <1>4, <1>9 DEF CommandFails, walkVars, readVars, collectionVars, Later, Asking
<1>10. CASE Authorize
  BY <1>4, <1>10 DEF Authorize, Go, walkVars, readVars, collectionVars, Later, Asking
<1>11. CASE \E pulls \in BOOLEAN : Resolve(pulls)
  <2>1. PICK pulls \in BOOLEAN : Resolve(pulls)
    BY <1>11
  <2> QED
    BY <1>4, <2>1 DEF Resolve, Request, Go, walkVars, readVars, collectionVars, Later, Asking
<1> QED
  BY <1>2, <1>3, <1>5, <1>6, <1>7, <1>8, <1>9, <1>10, <1>11

LEMMA EditInv ==
  ASSUME GenerationAssumption, ContextInv, NEW c \in Changes, Edit(c.path, c.node)
  PROVE  ContextInv'
<1>1. c.path \in Paths /\ c.node \in Node /\ Readable(c.path, c.node)
  BY DEF GenerationAssumption
<1>2. /\ tree' = [tree EXCEPT ![c.path] = c.node]
      /\ world' = [world EXCEPT !.edits = @ + 1, !.met = @ + 1]
      /\ UNCHANGED <<at, plan, policy, pending, left, nodes, seen, todo, got, total>>
  BY DEF Edit, walkVars, readVars
<1>3. /\ tree \in [Paths -> Node] /\ \A p \in Paths : Readable(p, tree[p])
      /\ world = [root |-> world.root, edits |-> world.edits, moves |-> world.moves,
                  plans |-> world.plans, met |-> world.met]
  BY DEF ContextInv, Shapes
<1>4. tree' \in [Paths -> Node] /\ \A p \in Paths : tree'[p] = IF p = c.path THEN c.node ELSE tree[p]
  BY <1>1, <1>2, <1>3
<1>5. \A p \in Paths : Readable(p, tree'[p])
  BY <1>1, <1>3, <1>4
<1>6. PICK w : w = world'
  OBVIOUS
<1>7. /\ w = [root |-> w.root, edits |-> w.edits, moves |-> w.moves, plans |-> w.plans, met |-> w.met]
      /\ w.met = world.met + 1 /\ w.root = world.root
  BY <1>2, <1>3, <1>6
<1> QED
  BY <1>2, <1>4, <1>5, <1>6, <1>7, WorkspaceChanges

LEMMA ReplaceRootInv ==
  ASSUME GenerationAssumption, ContextInv, NEW t \in Trees, ReplaceRoot(t)
  PROVE  ContextInv'
<1>1. t \in [Paths -> Node] /\ \A p \in Paths : Readable(p, t[p])
  BY DEF GenerationAssumption
<1>2. /\ tree' = t
      /\ world' = [world EXCEPT !.root = @ + 1, !.edits = @ + 1, !.met = @ + 1]
      /\ UNCHANGED <<at, plan, policy, pending, left, nodes, seen, todo, got, total>>
  BY DEF ReplaceRoot, walkVars, readVars
<1>3. world = [root |-> world.root, edits |-> world.edits, moves |-> world.moves,
               plans |-> world.plans, met |-> world.met]
  BY DEF ContextInv, Shapes
<1>4. ~HasContext
  BY DEF ReplaceRoot, Reading, HasContext, Asking
<1>6. PICK w : w = world'
  OBVIOUS
<1>7. /\ w = [root |-> w.root, edits |-> w.edits, moves |-> w.moves, plans |-> w.plans, met |-> w.met]
      /\ w.met = world.met + 1
  BY <1>2, <1>3, <1>6
<1> QED
  BY <1>1, <1>2, <1>4, <1>6, <1>7, WorkspaceChanges

-----------------------------------------------------------------------------
(* The plan up to the walk. *)

\* The fallback rules are rules.
LEMMA DefaultTyped == RulesTyped(DefaultIgnore)
<1> DEFINE Q == {<<".git">>, <<"target">>, <<"**", "target">>, <<".venv">>, <<"venv">>,
                 <<"**", "__pycache__">>, <<"**", "*.pyc">>, <<"**", "*.pyo">>,
                 <<".pytest_cache">>, <<".mypy_cache">>, <<".ruff_cache">>, <<".tox">>,
                 <<"**", "*.egg-info">>, <<"dist">>, <<"build">>}
           R == {Ignore(q) : q \in Q}
<1>1. \A q \in Q : Len(q) \in Nat
  OBVIOUS
<1>2. /\ <<".git">> \in Q /\ <<"target">> \in Q /\ <<"**", "target">> \in Q
      /\ <<".venv">> \in Q /\ <<"venv">> \in Q /\ <<"**", "__pycache__">> \in Q
      /\ <<"**", "*.pyc">> \in Q /\ <<"**", "*.pyo">> \in Q /\ <<".pytest_cache">> \in Q
      /\ <<".mypy_cache">> \in Q /\ <<".ruff_cache">> \in Q /\ <<".tox">> \in Q
      /\ <<"**", "*.egg-info">> \in Q /\ <<"dist">> \in Q /\ <<"build">> \in Q
  BY Zenon
<1> HIDE DEF Q
<1>3. \A r \in R : Len(r.pattern) \in Nat
  BY <1>1 DEF Ignore
<1>4. \A q \in Q : Ignore(q) \in R
  BY Zenon
<1> HIDE DEF R
<1>5. Common \in Seq(R)
  <2>1. PICK r \in R : r = Ignore(<<".git">>)
    BY <1>2, <1>4, Zenon
  <2> QED
    BY <2>1 DEF Common
<1>6. Rust \in Seq(R)
  <2>1. PICK r1, r2 \in R : r1 = Ignore(<<"target">>) /\ r2 = Ignore(<<"**", "target">>)
    BY <1>2, <1>4, Zenon
  <2>2. Rust = <<r1, r2>>
    BY <2>1, Zenon DEF Rust
  <2> QED
    BY <2>2
<1>7. Python \in Seq(R)
  <2>1. PICK r1, r2, r3, r4, r5, r6 \in R :
            /\ r1 = Ignore(<<".venv">>) /\ r2 = Ignore(<<"venv">>)
            /\ r3 = Ignore(<<"**", "__pycache__">>) /\ r4 = Ignore(<<"**", "*.pyc">>)
            /\ r5 = Ignore(<<"**", "*.pyo">>) /\ r6 = Ignore(<<".pytest_cache">>)
    BY <1>2, <1>4, Zenon
  <2>2. PICK r7, r8, r9, r10, r11, r12 \in R :
            /\ r7 = Ignore(<<".mypy_cache">>) /\ r8 = Ignore(<<".ruff_cache">>)
            /\ r9 = Ignore(<<".tox">>) /\ r10 = Ignore(<<"**", "*.egg-info">>)
            /\ r11 = Ignore(<<"dist">>) /\ r12 = Ignore(<<"build">>)
    BY <1>2, <1>4, Zenon
  <2>3. Python = <<r1, r2, r3, r4, r5, r6, r7, r8, r9, r10, r11, r12>>
    BY <2>1, <2>2, Zenon DEF Python
  <2> QED
    BY <2>3
<1>8. \A x \in Seq(R), y \in Seq(R) : x \o y \in Seq(R)
  BY ConcatProperties
<1>9. << >> \in Seq(R)
  OBVIOUS
<1> HIDE DEF Common, Rust, Python
<1>10. /\ (Common \o Rust) \o Python \in Seq(R) /\ (Common \o Rust) \o << >> \in Seq(R)
       /\ (Common \o << >>) \o Python \in Seq(R) /\ (Common \o << >>) \o << >> \in Seq(R)
  BY <1>5, <1>6, <1>7, <1>8, <1>9, Zenon
<1>11. DefaultIgnore \in Seq(R)
  BY <1>9, <1>10, Zenon DEF DefaultIgnore
<1>12. \A s \in Seq(R) : RulesTyped(s)
  BY <1>3 DEF RulesTyped
<1> QED
  BY <1>11, <1>12

\* Before the walk there is nothing to say of it.
LEMMA NothingYet ==
  ASSUME at' \in Early \union {"refused", "idle"}
  PROVE  /\ ~HasContext' /\ ~Walked' /\ ~InRead'
         /\ WalkInv' /\ NodesInv' /\ ReadInv' /\ MissingInv'
<1>1. ~HasContext' /\ ~Walked' /\ ~InRead' /\ at' \notin {"walk", "missing"}
  BY DEF Early, HasContext, Asking, Walked, InRead
<1> QED
  BY <1>1 DEF WalkInv, NodesInv, ReadInv, MissingInv

\* A stack keeps its kind when it gets a volume.
LEMMA KeepsDf ==
  ASSUME GenerationAssumption, NEW s \in Stacks
  PROVE  WithTarget(s).df = s.df
<1>1. "df" \in DOMAIN s
  BY DEF GenerationAssumption
<1>2. \A v : [s EXCEPT !.volumes = v].df = s.df
  BY <1>1
<1>3. WithTarget(s) = s \/ \E v : WithTarget(s) = [s EXCEPT !.volumes = v]
  BY DEF WithTarget
<1> QED
  BY <1>2, <1>3

LEMMA InitInv ==
  ASSUME GenerationAssumption, GenerationInit
  PROVE  ContextInv
<1>1. tree \in Trees /\ at = "idle" /\ policy = NoPolicy /\ total = 0
      /\ world = [root |-> 0, edits |-> 0, moves |-> 0, plans |-> 0, met |-> 0]
  BY DEF GenerationInit
<1>2. Shapes
  <2>1. RulesTyped(<< >>)
    BY DEF RulesTyped
  <2> QED
    BY <1>1, <2>1 DEF Shapes, NoPolicy, Early, GenerationAssumption
<1>3. ~HasContext /\ ~Walked /\ ~InRead
  BY <1>1 DEF HasContext, Asking, Walked, InRead
<1>4. PolicyInv /\ FreshInv /\ WalkInv /\ NodesInv /\ ReadInv /\ MissingInv
  BY <1>1, <1>3 DEF PolicyInv, FreshInv, WalkInv, NodesInv, ReadInv, MissingInv
<1>5. TotalInv
  BY <1>1 DEF TotalInv, GenerationAssumption
<1> QED
  BY <1>2, <1>4, <1>5 DEF ContextInv

LEMMA BeginInv ==
  ASSUME GenerationAssumption, ContextInv, NEW s \in Stacks, NEW t, NEW by, Begin(s, t, by)
  PROVE  ContextInv'
<1>1. /\ tree' = tree /\ policy' = NoPolicy /\ world' = [world EXCEPT !.plans = @ + 1, !.met = 0]
      /\ left' = NoFunction /\ nodes' = NoFunction /\ seen' = {} /\ got' = NoFunction /\ total' = 0
  BY DEF Begin
<1>2. \/ at' \in {"detect", "refused"}
      \/ at' = "collected" /\ ~s.df
  BY DEF Begin, Go
<1>3. plan'.stack.df = s.df
  <2>1. plan'.stack = s \/ plan'.stack = WithTarget(s)
    BY DEF Begin
  <2> QED
    BY <2>1, KeepsDf
<1>4. ~HasContext' /\ ~Walked' /\ ~InRead' /\ at' \notin {"ignore", "rules", "walk", "missing"}
  BY <1>2, <1>3 DEF HasContext, Asking, Walked, InRead
<1>5. Shapes'
  <2>1. PICK w, pol : w = world' /\ pol = policy'
    OBVIOUS
  <2>2. /\ w = [root |-> w.root, edits |-> w.edits, moves |-> w.moves, plans |-> w.plans, met |-> w.met]
        /\ w.met = 0
    BY <1>1, <2>1 DEF ContextInv, Shapes
  <2>3. /\ pol = [fallback |-> pol.fallback, text |-> pol.text, root |-> pol.root,
                  rootIgnore |-> pol.rootIgnore, ignore |-> pol.ignore, bytes |-> pol.bytes,
                  rules |-> pol.rules, sources |-> pol.sources, all |-> pol.all]
        /\ pol.fallback = << >>
    BY <1>1, <2>1 DEF NoPolicy
  <2>4. RulesTyped(pol.fallback)
    BY <2>3 DEF RulesTyped
  <2>5. tree' \in [Paths -> Node] /\ \A p \in Paths : Readable(p, tree'[p])
    BY <1>1 DEF ContextInv, Shapes
  <2>6. RulesTyped(policy'.fallback)
    BY <2>1, <2>4
  <2> QED
    BY <1>1, <2>1, <2>2, <2>3, <2>5, <2>6 DEF Shapes, NoFunction, RulesTyped
<1>6. PolicyInv' /\ FreshInv' /\ WalkInv' /\ NodesInv' /\ ReadInv' /\ MissingInv'
  BY <1>4 DEF PolicyInv, FreshInv, WalkInv, NodesInv, ReadInv, MissingInv
<1>7. TotalInv'
  BY <1>1 DEF TotalInv, GenerationAssumption
<1> QED
  BY <1>5, <1>6, <1>7 DEF ContextInv

\* A step of the plan before the walk: what is left to show.
LEMMA EarlyStep ==
  ASSUME ContextInv, at \in Early, at' \in Early \union {"refused"},
         UNCHANGED <<tree, world, left, nodes, seen, got, total>>, NEW pol, pol = policy',
         pol = [fallback |-> pol.fallback, text |-> pol.text, root |-> pol.root,
                rootIgnore |-> pol.rootIgnore, ignore |-> pol.ignore, bytes |-> pol.bytes,
                rules |-> pol.rules, sources |-> pol.sources, all |-> pol.all],
         RulesTyped(pol.fallback),
         at' \in {"ignore", "rules"} =>
           /\ pol.text \in DOMAIN DockerText
           /\ world.met = 0 => Regular(Dockerfile),
         at' = "rules" => IgnoreKnown' /\ Matched'
  PROVE  ContextInv'
<1>1. /\ tree' = tree /\ world' = world /\ left' = left /\ nodes' = nodes /\ seen' = seen
      /\ got' = got /\ total' = total
  OBVIOUS
<1>2. /\ ~Walked' /\ WalkInv' /\ NodesInv' /\ ReadInv' /\ MissingInv'
  BY NothingYet
<1>3. Shapes'
  BY <1>1 DEF ContextInv, Shapes, NoFunction, RulesTyped
<1>4. PolicyInv'
  BY <1>2 DEF PolicyInv
<1>5. FreshInv'
  BY <1>1 DEF FreshInv, Regular, KindAt, Early
<1>6. TotalInv'
  BY <1>1 DEF ContextInv, TotalInv
<1> QED
  BY <1>2, <1>3, <1>4, <1>5, <1>6 DEF ContextInv

LEMMA DetectInv ==
  ASSUME ContextInv, Detect
  PROVE  ContextInv'
<1>1. PICK f : policy' = [policy EXCEPT !.fallback = f] /\ RulesTyped(f)
  <2>1. RulesTyped(<< >>)
    BY DEF RulesTyped
  <2> QED
    BY <2>1, DefaultTyped DEF Detect
<1>2. PICK pol : pol = policy'
  OBVIOUS
<1>3. /\ pol = [fallback |-> pol.fallback, text |-> pol.text, root |-> pol.root,
                rootIgnore |-> pol.rootIgnore, ignore |-> pol.ignore, bytes |-> pol.bytes,
                rules |-> pol.rules, sources |-> pol.sources, all |-> pol.all]
      /\ pol.fallback = f
  BY <1>1, <1>2 DEF ContextInv, Shapes
<1>4. at \in Early /\ at' = "dockerfile" /\ UNCHANGED <<tree, world, left, nodes, seen, got, total>>
  BY DEF Detect, Early, walkVars, readVars
<1>5. at' \in Early \union {"refused"} /\ at' \notin {"ignore", "rules"}
  BY <1>4 DEF Early
<1> QED
  BY <1>1, <1>2, <1>3, <1>4, <1>5, EarlyStep

LEMMA ReadDockerfileInv ==
  ASSUME GenerationAssumption, ContextInv, ReadDockerfile
  PROVE  ContextInv'
<1> DEFINE data == tree[Dockerfile].data
<1>1. at \in Early /\ at' \in {"ignore", "refused"} /\ UNCHANGED <<tree, world, left, nodes, seen, got, total>>
  BY DEF ReadDockerfile, Go, Early, walkVars, readVars
<1>2. /\ policy' = [policy EXCEPT !.text = data, !.root = world.root] \/ policy' = policy
      /\ at' = "ignore" =>
           policy' = [policy EXCEPT !.text = data, !.root = world.root] /\ Regular(Dockerfile)
  BY DEF ReadDockerfile, Go
<1>3. PICK pol : pol = policy'
  OBVIOUS
<1>4. /\ pol = [fallback |-> pol.fallback, text |-> pol.text, root |-> pol.root,
                rootIgnore |-> pol.rootIgnore, ignore |-> pol.ignore, bytes |-> pol.bytes,
                rules |-> pol.rules, sources |-> pol.sources, all |-> pol.all]
      /\ pol.fallback = policy.fallback /\ (at' = "ignore" => pol.text = data)
  BY <1>2, <1>3 DEF ContextInv, Shapes
<1>5. at' = "ignore" => data \in DOMAIN DockerText
  <2> SUFFICES ASSUME at' = "ignore" PROVE data \in DOMAIN DockerText
    OBVIOUS
  <2>1. Dockerfile \in Paths
    BY DEF GenerationAssumption
  <2>2. tree[Dockerfile].kind = "file"
    BY <1>2, <2>1, KindFacts DEF ContextInv, Regular
  <2>3. Readable(Dockerfile, tree[Dockerfile])
    BY <2>1 DEF ContextInv, Shapes
  <2> QED
    BY <2>2, <2>3 DEF Readable
<1> HIDE DEF data
<1>6. RulesTyped(pol.fallback)
  BY <1>4 DEF ContextInv, Shapes
<1>7. at' \in Early \union {"refused"} /\ at' # "rules" /\ (at' \in {"ignore", "rules"} => at' = "ignore")
  BY <1>1 DEF Early
<1> QED
  BY <1>1, <1>2, <1>3, <1>4, <1>5, <1>6, <1>7, EarlyStep

LEMMA LookForIgnoreInv ==
  ASSUME GenerationAssumption, ContextInv, LookForIgnore
  PROVE  ContextInv'
<1> DEFINE f == IF Regular(Specific) THEN Specific ELSE IF Regular(RootIgnore) THEN RootIgnore ELSE NoPath
<1>1. /\ at = "ignore" /\ at \in Early /\ at' = "rules" /\ at' \in Early
      /\ UNCHANGED <<tree, world, left, nodes, seen, got, total>>
      /\ policy' = [policy EXCEPT !.rootIgnore = Regular(RootIgnore), !.ignore = f]
  BY DEF LookForIgnore, Early, walkVars, readVars
<1>2. PICK pol : pol = policy'
  OBVIOUS
<1>3. PICK g, r : g = f /\ r = Regular(RootIgnore)
  OBVIOUS
<1>4. pol = [policy EXCEPT !.rootIgnore = r, !.ignore = g]
  BY <1>1, <1>2, <1>3
<1>5. /\ pol = [fallback |-> pol.fallback, text |-> pol.text, root |-> pol.root,
                rootIgnore |-> pol.rootIgnore, ignore |-> pol.ignore, bytes |-> pol.bytes,
                rules |-> pol.rules, sources |-> pol.sources, all |-> pol.all]
      /\ pol.fallback = policy.fallback /\ pol.text = policy.text /\ pol.ignore = g /\ pol.rootIgnore = r
  BY <1>4 DEF ContextInv, Shapes
<1>6. Specific \in Paths /\ RootIgnore \in Paths /\ NoPath \notin Paths /\ Specific # RootIgnore
  BY DEF GenerationAssumption
<1>7. Specific # NoPath /\ RootIgnore # NoPath
  BY <1>6
<1>8. policy'.ignore = f /\ policy'.rootIgnore = Regular(RootIgnore)
  BY <1>2, <1>3, <1>5
<1>9. Regular(Specific)' = Regular(Specific) /\ Regular(RootIgnore)' = Regular(RootIgnore)
  BY <1>1 DEF Regular, KindAt
<1>10. Regular(RootIgnore) \in BOOLEAN /\ Regular(Specific) \in BOOLEAN
  BY DEF Regular
<1>11. IgnoreKnown'
  BY <1>6, <1>7, <1>8, <1>10, Zenon DEF IgnoreKnown
<1>12. Matched'
  BY <1>6, <1>7, <1>8, <1>9, <1>10, Zenon DEF Matched
<1>13. RulesTyped(pol.fallback)
  BY <1>5 DEF ContextInv, Shapes
<1>14. pol.text \in DOMAIN DockerText /\ (world.met = 0 => Regular(Dockerfile))
  BY <1>1, <1>5 DEF ContextInv, PolicyInv, FreshInv
<1> QED
  BY <1>1, <1>2, <1>5, <1>11, <1>12, <1>13, <1>14, EarlyStep

\* The walk begins at the root, beneath which everything lies.
LEMMA ReadRulesInv ==
  ASSUME GenerationAssumption, TextsAssumption, ContextInv, ReadRules
  PROVE  ContextInv'
<1> DEFINE none == policy.ignore = NoPath
           data == IF none THEN "" ELSE tree[policy.ignore].data
           rules == IF none THEN policy.fallback ELSE IgnoreRules(IgnoreText[data])
           lines == Lines(policy.text)
<1>1. /\ at = "rules" /\ at \in Early
      /\ tree' = tree /\ world' = world /\ left' = left /\ nodes' = nodes /\ seen' = seen
      /\ got' = got /\ total' = total /\ plan' = plan
  BY DEF ReadRules, Early, readVars
<1>2. \/ at' = "refused" /\ policy' = policy
      \/ /\ at' = "walk" /\ pending' = {<< >>} /\ (none \/ Regular(policy.ignore))
         /\ policy' = [policy EXCEPT !.bytes = data, !.rules = rules, !.sources = LocalSources(lines),
                         !.all = LocalAll(lines)]
  BY DEF ReadRules, Go
<1>3. CASE at' = "refused" /\ policy' = policy
  <2>1. at' \in Early \union {"refused"} /\ at' \notin {"ignore", "rules"}
    BY <1>3 DEF Early
  <2>2. RulesTyped(policy.fallback)
    BY DEF ContextInv, Shapes
  <2>3. policy = [fallback |-> policy.fallback, text |-> policy.text, root |-> policy.root,
                  rootIgnore |-> policy.rootIgnore, ignore |-> policy.ignore,
                  bytes |-> policy.bytes, rules |-> policy.rules, sources |-> policy.sources,
                  all |-> policy.all]
    BY DEF ContextInv, Shapes
  <2> QED
    <3>1. UNCHANGED <<tree, world, left, nodes, seen, got, total>>
      BY <1>1
    <3>2. PICK pol : pol = policy
      OBVIOUS
    <3>3. pol = policy'
      BY <3>2, <1>3
    <3>4. at' # "rules"
      BY <1>3
    <3>5. /\ RulesTyped(pol.fallback)
          /\ pol = [fallback |-> pol.fallback, text |-> pol.text, root |-> pol.root,
                    rootIgnore |-> pol.rootIgnore, ignore |-> pol.ignore, bytes |-> pol.bytes,
                    rules |-> pol.rules, sources |-> pol.sources, all |-> pol.all]
      BY <3>2, <2>2, <2>3
    <3> QED
      BY <1>1, <2>1, <3>1, <3>3, <3>4, <3>5, EarlyStep
<1>4. CASE /\ at' = "walk" /\ pending' = {<< >>} /\ (none \/ Regular(policy.ignore))
           /\ policy' = [policy EXCEPT !.bytes = data, !.rules = rules, !.sources = LocalSources(lines),
                           !.all = LocalAll(lines)]
  <2>1. IgnoreKnown
    BY <1>1 DEF ContextInv, PolicyInv
  <2>2. RulesTyped(rules)
    <3>1. CASE none
      BY <3>1 DEF ContextInv, Shapes
    <3>2. CASE ~none
      <4>1. policy.ignore \in {Specific, RootIgnore}
        BY <3>2, <2>1 DEF IgnoreKnown
      <4>2. policy.ignore \in Paths
        BY <4>1 DEF GenerationAssumption
      <4>3. tree[policy.ignore].kind = "file"
        BY <1>4, <3>2, <4>2, KindFacts DEF ContextInv, Regular
      <4>4. data \in DOMAIN IgnoreText
        BY <3>2, <4>1, <4>2, <4>3 DEF ContextInv, Shapes, Readable
      <4> HIDE DEF data
      <4>5. IgnoreRules(IgnoreText[data]) \in Seq(IgnoreRule)
        BY <4>4 DEF TextsAssumption
      <4>6. \A s \in Seq(IgnoreRule) : RulesTyped(s)
        <5> TAKE s \in Seq(IgnoreRule)
        <5>1. Len(s) \in Nat /\ \A i \in 1 .. Len(s) : s[i] \in IgnoreRule
          OBVIOUS
        <5>2. \A r \in IgnoreRule : r.pattern \in Seq(STRING)
          BY DEF IgnoreRule
        <5>3. \A q \in Seq(STRING) : Len(q) \in Nat
          OBVIOUS
        <5> QED
          BY <5>1, <5>2, <5>3, Zenon DEF RulesTyped
      <4>7. rules = IgnoreRules(IgnoreText[data])
        BY <3>2
      <4> QED
        BY <4>5, <4>6, <4>7, Zenon
    <3> QED
      BY <3>1, <3>2
  <2>3. \A q \in LocalSources(lines) : Len(Normal(q)) \in Nat
    <3>1. policy.text \in DOMAIN DockerText
      BY <1>1 DEF ContextInv, PolicyInv
    <3>2. \A q \in LocalSources(lines) : Normal(q) \in Seq(STRING)
      BY <3>1 DEF TextsAssumption
    <3>3. \A q \in Seq(STRING) : Len(q) \in Nat
      OBVIOUS
    <3> QED
      BY <3>2, <3>3, Zenon
  <2>4. PICK pol, b, r, src, all : pol = policy' /\ b = data /\ r = rules /\ src = LocalSources(lines)
                                   /\ all = LocalAll(lines)
    OBVIOUS
  <2>5. pol = [policy EXCEPT !.bytes = b, !.rules = r, !.sources = src, !.all = all]
    BY <1>4, <2>4
  <2>6. /\ pol = [fallback |-> pol.fallback, text |-> pol.text, root |-> pol.root,
                  rootIgnore |-> pol.rootIgnore, ignore |-> pol.ignore, bytes |-> pol.bytes,
                  rules |-> pol.rules, sources |-> pol.sources, all |-> pol.all]
        /\ pol.fallback = policy.fallback /\ pol.text = policy.text /\ pol.ignore = policy.ignore
        /\ pol.rootIgnore = policy.rootIgnore /\ pol.rules = r /\ pol.sources = src
    BY <2>5 DEF ContextInv, Shapes
  <2>7. ~HasContext' /\ ~InRead' /\ Walked'
    BY <1>4 DEF HasContext, InRead, Walked, Asking
  <2>8. Shapes'
    <3>1. at' \notin Early
      BY <1>4 DEF Early
    <3> QED
      BY <3>1, <1>1, <2>4, <2>6 DEF ContextInv, Shapes, RulesTyped
  <2>9. policy.ignore = NoPath => r = policy.fallback
    BY <2>4
  <2>10. PolicyInv'
    <3>1. policy.text \in DOMAIN DockerText /\ IgnoreKnown
      BY <1>1 DEF ContextInv, PolicyInv
    <3>2. IgnoreKnown'
      BY <3>1, <2>4, <2>6 DEF IgnoreKnown
    <3>3. RulesTyped(r) /\ \A q \in src : Len(Normal(q)) \in Nat
      BY <2>2, <2>3, <2>4
    <3>4. PolicyTyped(policy')
      BY <3>3, <2>4, <2>6 DEF PolicyTyped
    <3>5. PolicyTyped(policy)'
      BY <3>4 DEF PolicyTyped, RulesTyped
    <3> QED
      BY <3>1, <3>2, <3>5, <2>4, <2>6, <2>9 DEF PolicyInv
  <2>11. FreshInv'
    <3>1. Matched' <=> Matched
      BY <1>1, <2>4, <2>6 DEF Matched, Regular, KindAt
    <3>2. Regular(Dockerfile)' <=> Regular(Dockerfile)
      BY <1>1 DEF Regular, KindAt
    <3> QED
      BY <1>1, <3>1, <3>2 DEF ContextInv, FreshInv
  <2>12. DOMAIN left' = {} /\ DOMAIN nodes' = {} /\ seen' = {} /\ DOMAIN got' = {}
    BY <1>1 DEF ContextInv, Shapes, NoFunction
  <2>13. \A p \in Paths : Ahead(p)'
    <3> TAKE p \in Paths
    <3>1. p \in Seq(STRING) /\ Len(p) \in Nat \ {0}
      BY PathFacts
    <3>2. Prefix(p, 0) = << >> /\ 0 \in 0 .. (Len(p) - 1)
      BY <3>1, WholePrefix
    <3> QED
      BY <3>2, <1>4 DEF Ahead
  <2>14. Quiet'
    BY <2>12, <2>13 DEF Quiet, Cover
  <2>15. IgnoreMet'
    <3>1. policy'.ignore # NoPath => policy'.ignore \in Paths
      BY <2>1, <2>4, <2>6 DEF IgnoreKnown, GenerationAssumption
    <3>2. policy'.ignore # NoPath => Ahead(policy.ignore)'
      BY <3>1, <2>13 DEF Ahead
    <3> QED
      BY <2>12, <3>2 DEF IgnoreMet, Cover
  <2>16. WalkInv'
    BY <1>4, <2>12, <2>14, <2>15 DEF WalkInv
  <2>17. NodesInv'
    <3>1. ChosenNodes' = {}
      BY <2>12 DEF ChosenNodes
    <3>2. IsFiniteSet({}) /\ Cardinality({}) = 0
      BY FS_EmptySet
    <3>3. 0 <= MaxEntries
      BY DEF GenerationAssumption
    <3> QED
      BY <2>12, <3>1, <3>2, <3>3 DEF NodesInv
  <2>18. ReadInv' /\ MissingInv' /\ TotalInv'
    BY <1>1, <1>4, <2>7 DEF ContextInv, ReadInv, MissingInv, TotalInv
  <2> QED
    BY <2>8, <2>10, <2>11, <2>16, <2>17, <2>18 DEF ContextInv
<1> QED
  BY <1>2, <1>3, <1>4

-----------------------------------------------------------------------------
(* The walk. *)

LEMMA GivenUp ==
  ASSUME ContextInv, at' = "refused", tree' = tree, world' = world, policy' = policy, total' = total
  PROVE  ContextInv'
<1>1. /\ ~HasContext' /\ ~Walked' /\ ~InRead'
      /\ WalkInv' /\ NodesInv' /\ ReadInv' /\ MissingInv'
  BY NothingYet
<1>2. Shapes' /\ FreshInv' /\ TotalInv'
  BY DEF ContextInv, Shapes, RulesTyped, FreshInv, Early, TotalInv
<1>3. PolicyInv'
  BY <1>1 DEF PolicyInv
<1> QED
  BY <1>1, <1>2, <1>3 DEF ContextInv

\* The walk goes on with the same policy in the same workspace.
LEMMA WalkGoesOn ==
  ASSUME ContextInv, at = "walk", at' = "walk", tree' = tree, world' = world, policy' = policy,
         plan' = plan, total' = total, got' = got,
         DOMAIN left' \subseteq Paths, \A p \in DOMAIN left' : left'[p] \in Present,
         pending' \subseteq Paths \union {<< >>}, seen' \subseteq policy.sources,
         world.met = 0 => Quiet', world.met <= 1 /\ Matched => IgnoreMet',
         DOMAIN nodes' \subseteq Paths, \A p \in DOMAIN nodes' : nodes'[p] \in Present,
         IsFiniteSet(DOMAIN nodes'), Cardinality(ChosenNodes') <= MaxEntries
  PROVE  ContextInv'
<1>1. ~HasContext' /\ ~InRead' /\ Walked' /\ Walked
  BY DEF HasContext, InRead, Walked, Asking
<1>2. Shapes'
  BY DEF ContextInv, Shapes, RulesTyped, Early
<1>3. PolicyInv'
  BY <1>1 DEF ContextInv, PolicyInv, PolicyTyped, RulesTyped, IgnoreKnown
<1>4. Matched' <=> Matched
  BY DEF Matched, Regular, KindAt
<1>5. FreshInv'
  BY <1>4 DEF ContextInv, FreshInv, Regular, KindAt
<1>6. WalkInv'
  BY <1>4 DEF ContextInv, WalkInv
<1>7. NodesInv'
  BY DEF NodesInv
<1>8. ReadInv' /\ MissingInv' /\ TotalInv'
  BY <1>1 DEF ContextInv, ReadInv, MissingInv, TotalInv
<1> QED
  BY <1>2, <1>3, <1>5, <1>6, <1>7, <1>8 DEF ContextInv

\* What lies ahead stays ahead when a directory is opened.
LEMMA OpenAhead ==
  ASSUME GenerationAssumption, NEW d, DOMAIN left = {}, pending' = pending \ {d},
         DOMAIN left' = Children(d), NEW p \in Paths, KindAt(p) # "gone", Ahead(p)
  PROVE  Ahead(p)'
<1>1. PICK n \in 0 .. (Len(p) - 1) : Prefix(p, n) \in pending
  BY DEF Ahead
<1>2. CASE Prefix(p, n) = d
  <2>1. Prefix(p, n + 1) \in Children(d) /\ n + 1 \in 1 .. Len(p)
    BY <1>2, NextChild
  <2> QED
    BY <2>1 DEF Ahead
<1>3. CASE Prefix(p, n) # d
  BY <1>1, <1>3 DEF Ahead
<1> QED
  BY <1>2, <1>3

\* The ignore file in use is there as long as the ignore files are where they were.
LEMMA IgnoreThere ==
  ASSUME GenerationAssumption, ContextInv, at = "walk", Matched, policy.ignore # NoPath
  PROVE  policy.ignore \in Paths /\ KindAt(policy.ignore) = "file" /\ policy.ignore \in {Specific, RootIgnore}
<1>1. IgnoreKnown
  BY DEF ContextInv, PolicyInv, Walked
<1>2. CASE policy.ignore = Specific
  BY <1>2 DEF Matched, Regular, GenerationAssumption
<1>3. CASE policy.ignore = RootIgnore
  BY <1>1, <1>3 DEF Matched, Regular, IgnoreKnown, GenerationAssumption
<1> QED
  BY <1>1, <1>2, <1>3 DEF IgnoreKnown

\* Above an entry that is there lie directories, whatever they are called.
LEMMA AboveIsDir ==
  ASSUME GenerationAssumption, NEW p \in Paths, KindAt(p) # "gone", NEW x \in Paths, Beneath(p, x)
  PROVE  KindAt(x) = "dir"
<1>1. p \in Seq(STRING) /\ x \in Seq(STRING) /\ Len(x) \in Nat \ {0}
  BY PathFacts
<1>2. Len(x) \in 0 .. Len(p) /\ Len(x) < Len(p) /\ Prefix(p, Len(x)) = x
  BY <1>1, BeneathFacts
<1>3. Len(x) \in 1 .. Len(p) - 1
  BY <1>1, <1>2
<1> QED
  BY <1>2, <1>3, KindAbove

LEMMA OpenDirInv ==
  ASSUME GenerationAssumption, ContextInv, NEW d \in pending, OpenDir(d)
  PROVE  ContextInv'
<1>1. /\ at = "walk" /\ DOMAIN left = {} /\ pending' = pending \ {d}
      /\ tree' = tree /\ world' = world /\ policy' = policy /\ plan' = plan /\ nodes' = nodes
      /\ seen' = seen /\ total' = total /\ got' = got
      /\ at' = IF KindAt(d) = "dir" THEN "walk" ELSE "refused"
  BY DEF OpenDir, Go, readVars
<1>2. CASE KindAt(d) # "dir"
  BY <1>1, <1>2, GivenUp
<1>3. CASE KindAt(d) = "dir"
  <2>1. at' = "walk" /\ left' = [p \in Children(d) |-> KindAt(p)]
    BY <1>1, <1>3 DEF OpenDir
  <2>2. DOMAIN left' = Children(d) /\ \A p \in Children(d) : left'[p] = KindAt(p)
    BY <2>1
  <2>3. Shapes /\ WalkInv /\ NodesInv /\ Walked
    BY <1>1 DEF ContextInv, Walked
  <2>4. DOMAIN left' \subseteq Paths /\ \A p \in DOMAIN left' : left'[p] \in Present
    BY <2>2, <2>3, ChildFacts
  <2>5. pending' \subseteq Paths \union {<< >>} /\ seen' \subseteq policy.sources
    BY <1>1, <2>3 DEF WalkInv
  <2>6. \A p \in Paths : KindAt(p)' = KindAt(p)
    BY <1>1 DEF KindAt
  <2>7. \A p \in Paths : KindAt(p) # "gone" /\ Ahead(p) => Ahead(p)'
    BY <1>1, <2>2, OpenAhead
  <2>8. ASSUME world.met = 0
        PROVE  Quiet'
    <3>1. Quiet
      BY <1>1, <2>3, <2>8 DEF WalkInv
    <3>2. \A p \in DOMAIN left' : left'[p] = KindAt(p)'
      BY <2>2, <2>4, <2>6
    <3>3. \A p \in DOMAIN nodes' : nodes'[p] = KindAt(p)'
      BY <1>1, <3>1 DEF Quiet, KindAt
    <3>4. \A p \in Paths : KindAt(p)' # "gone" /\ Chosen(policy', p) => Cover(p)'
      BY <1>1, <3>1, <2>6, <2>7 DEF Quiet, Cover
    <3>5. \A q \in policy'.sources \ seen' :
            \A p \in Paths : KindAt(p)' # "gone" /\ SourceMatches(q, p) => Ahead(p)'
      BY <1>1, <3>1, <2>6, <2>7 DEF Quiet
    <3>6. \A q \in seen' : \E p \in DOMAIN nodes' : SourceMatches(q, p)
      BY <1>1, <3>1 DEF Quiet
    <3> QED
      BY <3>2, <3>3, <3>4, <3>5, <3>6 DEF Quiet
  <2>9. ASSUME world.met <= 1, Matched
        PROVE  IgnoreMet'
    <3>1. IgnoreMet
      BY <1>1, <2>3, <2>9 DEF WalkInv
    <3>2. \A f \in {Specific, RootIgnore} :
            /\ f \in DOMAIN left' => (left'[f] = "file" <=> Regular(f)')
            /\ f \in DOMAIN nodes' => (nodes'[f] = "file" <=> Regular(f)')
      BY <1>1, <3>1, <2>2, <2>6 DEF IgnoreMet, Regular, KindAt, GenerationAssumption
    <3>3. ASSUME policy.ignore # NoPath
          PROVE  Cover(policy.ignore)' /\ \A x \in DOMAIN left' : Beneath(policy.ignore, x) => left'[x] = "dir"
      <4>1. policy.ignore \in Paths /\ KindAt(policy.ignore) = "file"
        BY <1>1, <2>9, <3>3, IgnoreThere
      <4>2. PICK f : f = policy.ignore
        OBVIOUS
      <4>3. f \in Paths /\ KindAt(f) # "gone" /\ Cover(f)
        BY <4>1, <4>2, <3>1, <3>3 DEF IgnoreMet
      <4>4. Cover(f)'
        BY <4>3, <2>7, <1>1 DEF Cover
      <4>5. \A x \in DOMAIN left' : Beneath(f, x) => left'[x] = "dir"
        BY <4>3, <2>2, <2>4, AboveIsDir
      <4> QED
        BY <4>2, <4>4, <4>5, <1>1 DEF Cover, Ahead
    <3> QED
      BY <1>1, <3>2, <3>3 DEF IgnoreMet
  <2>10. /\ DOMAIN nodes' \subseteq Paths /\ \A p \in DOMAIN nodes' : nodes'[p] \in Present
         /\ IsFiniteSet(DOMAIN nodes') /\ Cardinality(ChosenNodes') <= MaxEntries
    BY <1>1, <2>3 DEF NodesInv, ChosenNodes
  <2> QED
    BY <1>1, <2>1, <2>4, <2>5, <2>8, <2>9, <2>10, WalkGoesOn
<1> QED
  BY <1>2, <1>3

\* Looking at an entry leaves ahead what lay ahead, but for the entry itself and for what
\* lies in it when it is not entered.
LEMMA VisitAhead ==
  ASSUME GenerationAssumption, NEW x \in Paths, NEW enter \in BOOLEAN,
         DOMAIN left' = DOMAIN left \ {x}, pending \subseteq pending', enter => x \in pending',
         NEW p \in Paths, Ahead(p)
  PROVE  p = x \/ Ahead(p)' \/ (Beneath(p, x) /\ ~enter)
<1>1. p \in Seq(STRING) /\ Len(p) \in Nat \ {0}
  BY PathFacts
<1>2. ASSUME NEW n \in 0 .. (Len(p) - 1), Prefix(p, n) \in pending'
      PROVE  Ahead(p)'
  BY <1>2 DEF Ahead
<1>3. CASE \E n \in 0 .. (Len(p) - 1) : Prefix(p, n) \in pending
  BY <1>2, <1>3
<1>4. CASE \E n \in 1 .. Len(p) : Prefix(p, n) \in DOMAIN left
  <2>1. PICK n \in 1 .. Len(p) : Prefix(p, n) \in DOMAIN left
    BY <1>4
  <2>2. CASE Prefix(p, n) # x
    <3>1. Prefix(p, n) \in DOMAIN left'
      BY <2>1, <2>2
    <3> QED
      BY <3>1 DEF Ahead
  <2>3. CASE Prefix(p, n) = x /\ n = Len(p)
    BY <1>1, <2>3, WholePrefix
  <2>4. CASE Prefix(p, n) = x /\ n # Len(p)
    <3>1. n \in 0 .. Len(p) /\ n < Len(p) /\ n \in 0 .. (Len(p) - 1)
      BY <1>1, <2>4
    <3>2. Len(x) = n
      BY <1>1, <2>4, <3>1, PrefixFacts
    <3>3. Beneath(p, x)
      BY <2>4, <3>1, <3>2 DEF Beneath
    <3> QED
      BY <3>1, <3>3, <2>4, <1>2
  <2> QED
    BY <2>2, <2>3, <2>4
<1> QED
  BY <1>3, <1>4 DEF Ahead

LEMMA VisitInv ==
  ASSUME GenerationAssumption, ContextInv, NEW x \in DOMAIN left, Visit(x)
  PROVE  ContextInv'
<1> DEFINE chosen == Chosen(policy, x)
           kept == chosen \/ Sourced(policy, x) \ seen # {}
           enter == left[x] = "dir" /\ ~Prunes(policy, x)
           ok == /\ walked < MaxWalked
                 /\ chosen => Cardinality({y \in DOMAIN nodes : Chosen(policy, y)}) < MaxEntries
                 /\ enter => Len(x) <= MaxDepth
<1>1. /\ at = "walk" /\ at' = IF ok THEN "walk" ELSE "refused"
      /\ tree' = tree /\ world' = world /\ policy' = policy /\ plan' = plan /\ total' = total
      /\ got' = got
  BY DEF Visit, Go, readVars
<1>2. CASE ~ok
  BY <1>1, <1>2, GivenUp
<1>3. CASE ok
  <2>1. /\ at' = "walk" /\ left' = Restrict(left, DOMAIN left \ {x})
        /\ nodes' = IF kept
                    THEN [y \in DOMAIN nodes \union {x} |-> IF y = x THEN left[x] ELSE nodes[y]]
                    ELSE nodes
        /\ seen' = seen \union Sourced(policy, x)
        /\ pending' = IF enter THEN pending \union {x} ELSE pending
    BY <1>1, <1>3 DEF Visit
  <2>2. chosen => Cardinality(ChosenNodes) < MaxEntries
    BY <1>3 DEF ChosenNodes
  <2>3. Shapes /\ WalkInv /\ NodesInv /\ Walked /\ PolicyTyped(policy)
    BY <1>1 DEF ContextInv, Walked, PolicyInv
  <2> HIDE DEF ok
  <2>4. x \in Paths /\ left[x] \in Present
    BY <1>1, <2>3 DEF WalkInv
  <2>5. DOMAIN left' = DOMAIN left \ {x} /\ \A p \in DOMAIN left \ {x} : left'[p] = left[p]
    BY <2>1 DEF Restrict
  <2>6. /\ kept => DOMAIN nodes' = DOMAIN nodes \union {x} /\ nodes'[x] = left[x]
        /\ ~kept => DOMAIN nodes' = DOMAIN nodes
        /\ \A y \in DOMAIN nodes \ {x} : nodes'[y] = nodes[y]
        /\ \A y \in DOMAIN nodes' : (y \in DOMAIN nodes /\ nodes'[y] = nodes[y]) \/ (y = x /\ nodes'[y] = left[x])
        /\ DOMAIN nodes \subseteq DOMAIN nodes'
    BY <2>1
  <2>7. pending \subseteq pending' /\ (enter => x \in pending') /\ pending' \subseteq Paths \union {<< >>}
    BY <1>1, <2>1, <2>3, <2>4 DEF WalkInv
  <2>8. \A p \in Paths : Ahead(p) => p = x \/ Ahead(p)' \/ (Beneath(p, x) /\ ~enter)
    <3>1. PICK e \in BOOLEAN : e = enter
      OBVIOUS
    <3> QED
      BY <2>4, <2>5, <2>7, <3>1, VisitAhead
  <2>9. DOMAIN left' \subseteq Paths /\ \A p \in DOMAIN left' : left'[p] \in Present
    BY <1>1, <2>3, <2>5 DEF WalkInv
  <2>10. seen' \subseteq policy.sources
    BY <1>1, <2>1, <2>3 DEF WalkInv, Sourced
  <2>11. DOMAIN nodes' \subseteq Paths /\ \A p \in DOMAIN nodes' : nodes'[p] \in Present
    BY <2>3, <2>4, <2>6 DEF NodesInv
  <2>12. IsFiniteSet(DOMAIN nodes') /\ Cardinality(ChosenNodes') <= MaxEntries
    <3>1. IsFiniteSet(DOMAIN nodes) /\ Cardinality(ChosenNodes) <= MaxEntries
      BY <2>3 DEF NodesInv
    <3>2. IsFiniteSet(DOMAIN nodes')
      <4>1. IsFiniteSet(DOMAIN nodes \union {x})
        BY <3>1, FS_AddElement
      <4> QED
        BY <3>1, <4>1, <2>6
    <3>3. IsFiniteSet(ChosenNodes)
      <4>1. ChosenNodes \subseteq DOMAIN nodes
        BY DEF ChosenNodes
      <4> QED
        BY <3>1, <4>1, FS_Subset
    <3>4. CASE chosen
      <4>1. ChosenNodes' = ChosenNodes \union {x}
        BY <3>4, <2>6, <1>1 DEF ChosenNodes
      <4>2. Cardinality(ChosenNodes) \in Nat /\ MaxEntries \in Nat
        BY <3>3, FS_CardinalityType DEF GenerationAssumption
      <4>3. \/ Cardinality(ChosenNodes \union {x}) = Cardinality(ChosenNodes)
            \/ Cardinality(ChosenNodes \union {x}) = Cardinality(ChosenNodes) + 1
        BY <3>3, FS_AddElement
      <4>4. Cardinality(ChosenNodes \union {x}) <= MaxEntries
        BY <4>2, <4>3, <3>4, <2>2
      <4> QED
        BY <3>2, <4>1, <4>4
    <3>5. CASE ~chosen
      <4>1. ChosenNodes' = ChosenNodes
        BY <3>5, <2>6, <1>1 DEF ChosenNodes
      <4> QED
        BY <3>1, <3>2, <4>1
    <3> QED
      BY <3>4, <3>5
  <2>13. \A p \in Paths : KindAt(p)' = KindAt(p)
    BY <1>1 DEF KindAt
  <2>14. ASSUME world.met = 0
         PROVE  Quiet'
    <3>1. Quiet
      BY <1>1, <2>3, <2>14 DEF WalkInv
    <3>2. \A p \in DOMAIN left' : left'[p] = KindAt(p)'
      BY <3>1, <2>5, <2>9, <2>13 DEF Quiet
    <3>3. \A p \in DOMAIN nodes' : nodes'[p] = KindAt(p)'
      BY <3>1, <2>6, <2>11, <2>13 DEF Quiet
    <3>4. ASSUME NEW p \in Paths, KindAt(p) # "gone", Beneath(p, x), ~enter
          PROVE  ~Chosen(policy, p) /\ \A q \in policy.sources : SourceMatches(q, p) => Normal(q) = << >>
      <4>1. left[x] = "dir"
        <5>1. KindAt(x) = "dir"
          BY <3>4, <2>4, AboveIsDir
        <5> QED
          BY <5>1, <3>1 DEF Quiet
      <4>2. Prunes(policy, x)
        BY <4>1, <3>4
      <4> QED
        BY <4>2, <3>4, <2>3, <2>4, PruningIsSound
    <3>5. \A p \in Paths : KindAt(p)' # "gone" /\ Chosen(policy', p) => Cover(p)'
      <4> SUFFICES ASSUME NEW p \in Paths, KindAt(p) # "gone", Chosen(policy, p)
                   PROVE  Cover(p)'
        BY <1>1, <2>13
      <4>1. Cover(p)
        BY <3>1 DEF Quiet
      <4>2. CASE p \in DOMAIN nodes
        BY <4>2, <2>6 DEF Cover
      <4>3. CASE p = x
        <5>1. x \in DOMAIN nodes'
          BY <4>3, <2>6
        <5> QED
          BY <4>3, <5>1 DEF Cover
      <4>4. CASE Ahead(p) /\ p # x
        <5>1. Ahead(p)'
          BY <4>4, <2>8, <3>4
        <5> QED
          BY <5>1 DEF Cover
      <4> QED
        BY <4>1, <4>2, <4>3, <4>4 DEF Cover
    <3>6. \A q \in policy'.sources \ seen' :
            \A p \in Paths : KindAt(p)' # "gone" /\ SourceMatches(q, p) => Ahead(p)'
      <4> SUFFICES ASSUME NEW q \in policy.sources, q \notin seen',
                          NEW p \in Paths, KindAt(p) # "gone", SourceMatches(q, p)
                   PROVE  Ahead(p)'
        BY <1>1, <2>13
      <4>1. q \notin seen /\ ~SourceMatches(q, x)
        BY <2>1 DEF Sourced
      <4>2. Ahead(p)
        BY <3>1, <4>1 DEF Quiet
      <4>3. p # x
        BY <4>1
      <4>4. ~(Beneath(p, x) /\ ~enter)
        <5> SUFFICES ASSUME Beneath(p, x), ~enter PROVE FALSE
          OBVIOUS
        <5>1. Normal(q) = << >>
          BY <3>4
        <5> QED
          BY <5>1, <4>1 DEF SourceMatches
      <4> QED
        BY <4>2, <4>3, <4>4, <2>8
    <3>7. \A q \in seen' : \E p \in DOMAIN nodes' : SourceMatches(q, p)
      <4> SUFFICES ASSUME NEW q \in seen'
                   PROVE  \E p \in DOMAIN nodes' : SourceMatches(q, p)
        OBVIOUS
      <4>1. CASE q \in seen
        BY <4>1, <3>1, <2>6 DEF Quiet
      <4>2. CASE q \notin seen
        <5>1. q \in Sourced(policy, x) \ seen
          BY <4>2, <2>1
        <5>2. SourceMatches(q, x) /\ x \in DOMAIN nodes'
          BY <5>1, <2>6 DEF Sourced
        <5> QED
          BY <5>2
      <4> QED
        BY <4>1, <4>2
    <3> QED
      BY <3>2, <3>3, <3>5, <3>6, <3>7 DEF Quiet
  <2>15. ASSUME world.met <= 1, Matched
         PROVE  IgnoreMet'
    <3>1. IgnoreMet
      BY <1>1, <2>3, <2>15 DEF WalkInv
    <3>2. \A f \in {Specific, RootIgnore} : f \in Paths /\ Regular(f)' = Regular(f)
      BY <1>1 DEF Regular, KindAt, GenerationAssumption
    <3>3. \A f \in {Specific, RootIgnore} :
            /\ f \in DOMAIN left' => (left'[f] = "file" <=> Regular(f)')
            /\ f \in DOMAIN nodes' => (nodes'[f] = "file" <=> Regular(f)')
      BY <3>1, <3>2, <2>5, <2>6 DEF IgnoreMet
    <3>4. ASSUME policy.ignore # NoPath
          PROVE  Cover(policy.ignore)' /\ \A y \in DOMAIN left' : Beneath(policy.ignore, y) => left'[y] = "dir"
      <4>1. PICK f : f = policy.ignore
        OBVIOUS
      <4>2. f \in Paths /\ Cover(f) /\ (Beneath(f, x) => left[x] = "dir")
            /\ \A y \in DOMAIN left : Beneath(f, y) => left[y] = "dir"
        BY <1>1, <2>15, <3>1, <3>4, <4>1, IgnoreThere DEF IgnoreMet
      <4>3. f \in Protected(policy) /\ Chosen(policy, f)
        BY <4>1 DEF Protected, Chosen
      <4>4. Beneath(f, x) => enter
        BY <4>2, <4>3 DEF Prunes
      <4>5. Cover(f)'
        <5>1. CASE f \in DOMAIN nodes
          BY <5>1, <2>6 DEF Cover
        <5>2. CASE f = x
          <6>1. x \in DOMAIN nodes'
            BY <5>2, <4>3, <2>6
          <6> QED
            BY <5>2, <6>1 DEF Cover
        <5>3. CASE Ahead(f) /\ f # x
          BY <5>3, <4>2, <4>4, <2>8 DEF Cover
        <5> QED
          BY <4>2, <5>1, <5>2, <5>3 DEF Cover
      <4>6. \A y \in DOMAIN left' : Beneath(f, y) => left'[y] = "dir"
        BY <4>2, <2>5
      <4> QED
        BY <4>1, <4>5, <4>6, <1>1 DEF Cover, Ahead
    <3> QED
      BY <1>1, <3>3, <3>4 DEF IgnoreMet
  <2> QED
    BY <1>1, <2>1, <2>7, <2>9, <2>10, <2>11, <2>12, <2>14, <2>15, WalkGoesOn
<1> QED
  BY <1>2, <1>3

-----------------------------------------------------------------------------
(* The choice and the second pass. *)

\* When the walk is over nothing is ahead.
LEMMA NothingAhead ==
  ASSUME DOMAIN left = {}, pending = {}, NEW p
  PROVE  ~Ahead(p)
BY DEF Ahead

\* The ignore file the selection finds is the one in use, or one that cannot be read.
LEMMA SettledByWalk ==
  ASSUME GenerationAssumption, ContextInv, at = "walk", DOMAIN left = {}, pending = {}, Matched,
         world.met <= 1
  PROVE  IgnoreSettled
<1>1. IgnoreMet /\ IgnoreKnown /\ NodesInv /\ Walked
  BY DEF ContextInv, WalkInv, PolicyInv, Walked
<1>2. Specific # RootIgnore /\ Specific # NoPath /\ RootIgnore # NoPath
  BY DEF GenerationAssumption
<1>3. \A f \in {Specific, RootIgnore} : f \in DOMAIN nodes => (nodes[f] = "file" <=> Regular(f))
  BY <1>1 DEF IgnoreMet
<1>4. policy.ignore # NoPath => policy.ignore \in DOMAIN nodes /\ nodes[policy.ignore] = "file"
  <2> SUFFICES ASSUME policy.ignore # NoPath
               PROVE  policy.ignore \in DOMAIN nodes /\ nodes[policy.ignore] = "file"
    OBVIOUS
  <2>1. KindAt(policy.ignore) = "file" /\ policy.ignore \in {Specific, RootIgnore}
    BY IgnoreThere
  <2>2. Cover(policy.ignore)
    BY <1>1 DEF IgnoreMet
  <2>3. policy.ignore \in DOMAIN nodes
    BY <2>2, NothingAhead DEF Cover
  <2> QED
    BY <2>1, <2>3, <1>3 DEF Regular
<1> DEFINE found == {p \in DOMAIN nodes : nodes[p] \in {"file", "other"}}
<1>5. IgnoreIn(nodes) = IF Specific \in found THEN Specific
                        ELSE IF RootIgnore \in found THEN RootIgnore ELSE NoPath
  BY DEF IgnoreIn
<1>6. CASE Specific \in found
  <2>1. IgnoreIn(nodes) = Specific
    BY <1>5, <1>6
  <2>2. CASE nodes[Specific] = "file"
    <3>1. Regular(Specific)
      BY <1>3, <1>6, <2>2
    <3>2. policy.ignore = Specific
      BY <3>1 DEF Matched
    <3> QED
      BY <2>1, <3>2 DEF IgnoreSettled
  <2>3. CASE nodes[Specific] = "other"
    BY <2>1, <2>3, <1>6 DEF IgnoreSettled
  <2> QED
    BY <1>6, <2>2, <2>3
<1>7. CASE Specific \notin found /\ RootIgnore \in found
  <2>1. IgnoreIn(nodes) = RootIgnore
    BY <1>5, <1>7
  <2>2. CASE nodes[RootIgnore] = "file"
    <3>1. Regular(RootIgnore)
      BY <1>3, <1>7, <2>2
    <3>2. policy.ignore # NoPath
      BY <3>1, <1>1 DEF Matched, IgnoreKnown
    <3>3. policy.ignore # Specific
      BY <3>2, <1>4, <1>7
    <3> QED
      BY <2>1, <3>2, <3>3, <1>1 DEF IgnoreSettled, IgnoreKnown
  <2>3. CASE nodes[RootIgnore] = "other"
    BY <2>1, <2>3, <1>7 DEF IgnoreSettled
  <2> QED
    BY <1>7, <2>2, <2>3
<1>8. CASE Specific \notin found /\ RootIgnore \notin found
  <2>1. IgnoreIn(nodes) = NoPath
    BY <1>5, <1>8
  <2>2. policy.ignore = NoPath
    BY <1>1, <1>4, <1>8 DEF IgnoreKnown
  <2> QED
    BY <2>1, <2>2 DEF IgnoreSettled
<1> QED
  BY <1>6, <1>7, <1>8

LEMMA SelectInv ==
  ASSUME GenerationAssumption, ContextInv, Select
  PROVE  ContextInv'
<1>1. /\ at = "walk" /\ pending = {} /\ DOMAIN left = {} /\ todo' = SelectContext(policy, nodes)
      /\ tree' = tree /\ world' = world /\ policy' = policy /\ plan' = plan /\ nodes' = nodes
      /\ left' = left /\ pending' = pending /\ seen' = seen /\ got' = got /\ total' = total
  BY DEF Select, walkVars
<1>2. \/ at' = "refused"
      \/ at' = "missing" /\ (~HasDockerfile(nodes) \/ MissingSource(policy, nodes))
      \/ at' = "read" /\ HasDockerfile(nodes) /\ Matched
  BY DEF Select, Matched
<1>3. Walked /\ WalkInv /\ FreshInv
  BY <1>1 DEF Walked, ContextInv
<1>4. DOMAIN got = {}
  BY <1>1, <1>3 DEF WalkInv
<1>5. world.met = 0 => Quiet
  BY <1>1, <1>3 DEF WalkInv
<1>6. CASE at' = "refused"
  BY <1>1, <1>6, GivenUp
<1>7. ASSUME at' \in {"missing", "read"}
      PROVE  ~HasContext' /\ Shapes' /\ PolicyInv' /\ FreshInv' /\ WalkInv' /\ NodesInv' /\ TotalInv'
  <2>1. ~HasContext' /\ Walked'
    BY <1>7 DEF HasContext, Asking, Walked
  <2>2. Shapes'
    BY <1>1, <1>7 DEF ContextInv, Shapes, RulesTyped, Early
  <2>3. PolicyInv'
    BY <1>1, <1>3 DEF ContextInv, PolicyInv, PolicyTyped, RulesTyped, IgnoreKnown
  <2>4. FreshInv' /\ WalkInv'
    BY <1>7 DEF FreshInv, WalkInv
  <2>5. NodesInv' /\ TotalInv'
    BY <1>1, <1>3 DEF ContextInv, NodesInv, ChosenNodes, TotalInv
  <2> QED
    BY <2>1, <2>2, <2>3, <2>4, <2>5
<1>8. CASE at' = "missing" /\ (~HasDockerfile(nodes) \/ MissingSource(policy, nodes))
  <2>1. ~InRead'
    BY <1>7, <1>8 DEF InRead
  <2>2. ASSUME world.met = 0
        PROVE  NothingMatches'
    <3>1. Quiet
      BY <1>5, <2>2
    <3>2. HasDockerfile(nodes)
      <4>1. Dockerfile \in Paths /\ KindAt(Dockerfile) = "file"
        BY <1>1, <1>3, <2>2 DEF FreshInv, Regular, GenerationAssumption
      <4>2. Chosen(policy, Dockerfile)
        BY DEF Chosen, Protected
      <4>3. Cover(Dockerfile)
        BY <3>1, <4>1, <4>2 DEF Quiet
      <4>4. Dockerfile \in DOMAIN nodes
        BY <1>1, <4>3, NothingAhead DEF Cover
      <4> QED
        BY <4>1, <4>4, <3>1 DEF Quiet, HasDockerfile
    <3>3. PICK q \in policy.sources : \A p \in DOMAIN nodes : ~SourceMatches(q, p)
      BY <3>2, <1>8 DEF MissingSource
    <3>4. q \notin seen
      BY <3>1, <3>3 DEF Quiet
    <3>5. \A p \in Paths : KindAt(p) # "gone" => ~SourceMatches(q, p)
      <4> SUFFICES ASSUME NEW p \in Paths, KindAt(p) # "gone", SourceMatches(q, p) PROVE FALSE
        OBVIOUS
      <4>1. Ahead(p)
        BY <3>1, <3>4 DEF Quiet
      <4> QED
        BY <4>1, <1>1, NothingAhead
    <3>6. \A p \in Paths : KindAt(p)' = KindAt(p)
      BY <1>1 DEF KindAt
    <3>7. \A p \in Paths : KindAt(p)' # "gone" => ~SourceMatches(q, p)
      BY <3>5, <3>6
    <3> QED
      BY <1>1, <3>7 DEF NothingMatches
  <2> QED
    BY <1>1, <1>7, <1>8, <2>1, <2>2 DEF ContextInv, ReadInv, MissingInv
<1>9. CASE at' = "read" /\ HasDockerfile(nodes) /\ Matched
  <2>1. world.met <= 1 => IgnoreSettled
    BY <1>1, <1>9, SettledByWalk
  <2>2. world.met = 0 => QuietRead'
    <3> SUFFICES ASSUME Quiet PROVE QuietRead'
      BY <1>5
    <3>1. \A p \in DOMAIN nodes : nodes[p] = KindAt(p)
      BY DEF Quiet
    <3>2. \A p \in Paths : KindAt(p) # "gone" /\ Chosen(policy, p) => p \in DOMAIN nodes
      BY <1>1, NothingAhead DEF Quiet, Cover
    <3> QED
      BY <1>1, <1>4, <3>1, <3>2 DEF QuietRead, KindAt
  <2>3. ReadInv'
    BY <1>1, <1>4, <1>7, <1>9, <2>1, <2>2 DEF ReadInv, IgnoreSettled
  <2>4. MissingInv'
    BY <1>9 DEF MissingInv
  <2> QED
    BY <1>7, <1>9, <2>3, <2>4 DEF ContextInv
<1> QED
  BY <1>2, <1>6, <1>8, <1>9

LEMMA ReadEntryInv ==
  ASSUME GenerationAssumption, ContextInv, NEW p \in todo, ReadEntry(p)
  PROVE  ContextInv'
<1> DEFINE data == tree[p].data
           ok == /\ KindAt(p) = nodes[p] /\ nodes[p] # "other"
                 /\ nodes[p] = "file" =>
                      /\ SizeOf(data) <= MaxFile /\ total + SizeOf(data) <= MaxTotal
                      /\ p = Dockerfile => data = policy.text
                      /\ p = policy.ignore => data = policy.bytes
<1>1. /\ at = "read" /\ at' = (IF ok THEN "read" ELSE "refused") /\ todo' = todo \ {p}
      /\ tree' = tree /\ world' = world /\ policy' = policy /\ plan' = plan /\ nodes' = nodes
      /\ total' = IF ok /\ nodes[p] = "file" THEN total + SizeOf(data) ELSE total
  BY DEF ReadEntry, Go, walkVars
<1>2. CASE ~ok
  BY <1>1, <1>2, GivenUp
<1>3. CASE ok
  <2>1. at' = "read" /\ got' = [x \in DOMAIN got \union {p} |-> IF x = p THEN tree[p] ELSE got[x]]
    BY <1>1, <1>3 DEF ReadEntry
  <2>2. InRead /\ Walked /\ ReadInv /\ NodesInv /\ Shapes
    BY <1>1 DEF InRead, Walked, ContextInv
  <2>3. ~HasContext' /\ Walked' /\ InRead'
    BY <2>1 DEF HasContext, Asking, Walked, InRead
  <2>4. todo \union DOMAIN got = SelectContext(policy, nodes)
    BY <2>2 DEF ReadInv
  <2>5. p \in DOMAIN nodes /\ p \in Paths
    BY <2>2, <2>4 DEF SelectContext, NodesInv
  <2>6. tree[p].kind = nodes[p] /\ nodes[p] # "other"
    <3>1. KindAt(p) = nodes[p] /\ nodes[p] \in Present
      BY <1>3, <2>2, <2>5 DEF NodesInv
    <3>2. KindAt(p) # "gone"
      BY <3>1 DEF Present
    <3> QED
      BY <1>3, <3>1, <3>2, <2>2, <2>5, KindFacts
  <2>7. total' <= MaxTotal
    BY <1>1, <1>3 DEF ContextInv, TotalInv
  <2>8. nodes[p] = "file" => (p = Dockerfile => data = policy.text) /\ (p = policy.ignore => data = policy.bytes)
    BY <1>3
  <2> HIDE DEF ok
  <2>9. /\ DOMAIN got' = DOMAIN got \union {p} /\ got'[p] = tree[p]
        /\ \A x \in DOMAIN got \ {p} : got'[x] = got[x]
    BY <2>1
  <2>10. todo' \union DOMAIN got' = SelectContext(policy, nodes)
    BY <1>1, <2>4, <2>9
  <2>11. \A x \in DOMAIN got' : GotRight(x)'
    <3> TAKE x \in DOMAIN got'
    <3>1. CASE x = p
      BY <3>1, <2>6, <2>8, <2>9, <1>1 DEF GotRight
    <3>2. CASE x # p
      <4>1. GotRight(x) /\ got'[x] = got[x]
        BY <3>2, <2>2, <2>9 DEF ReadInv
      <4> QED
        BY <4>1, <1>1 DEF GotRight
    <3> QED
      BY <3>1, <3>2
  <2>12. world.met = 0 => QuietRead'
    <3> SUFFICES ASSUME QuietRead PROVE QuietRead'
      BY <2>2 DEF ReadInv
    <3>1. \A x \in DOMAIN got' : got'[x] = tree[x]
      BY <2>9 DEF QuietRead
    <3> QED
      BY <3>1, <1>1 DEF QuietRead, KindAt
  <2>13. ReadInv'
    <3>1. HasDockerfile(nodes) /\ (world.met <= 1 => IgnoreSettled)
      BY <2>2 DEF ReadInv
    <3> QED
      BY <3>1, <1>1, <2>3, <2>10, <2>11, <2>12 DEF ReadInv, IgnoreSettled
  <2>14. Shapes'
    BY <1>1, <2>1 DEF ContextInv, Shapes, RulesTyped, Early
  <2>15. PolicyInv'
    BY <1>1, <2>2 DEF ContextInv, PolicyInv, PolicyTyped, RulesTyped, IgnoreKnown
  <2>16. FreshInv' /\ WalkInv' /\ MissingInv'
    BY <2>1 DEF FreshInv, WalkInv, MissingInv
  <2>17. NodesInv'
    BY <1>1, <2>2 DEF NodesInv, ChosenNodes
  <2> QED
    BY <2>7, <2>13, <2>14, <2>15, <2>16, <2>17 DEF ContextInv, TotalInv
<1> QED
  BY <1>2, <1>3

LEMMA CollectedInv ==
  ASSUME ContextInv, Collected
  PROVE  ContextInv'
<1>1. /\ at = "read" /\ todo = {} /\ at' = (IF world.root = policy.root THEN "collected" ELSE "refused")
      /\ tree' = tree /\ world' = world /\ policy' = policy /\ plan' = plan /\ nodes' = nodes
      /\ left' = left /\ pending' = pending /\ seen' = seen /\ got' = got /\ total' = total /\ todo' = todo
  BY DEF Collected, Go, walkVars, readVars
<1>2. CASE world.root # policy.root
  BY <1>1, <1>2, GivenUp
<1>3. CASE world.root = policy.root
  <2>1. at' = "collected" /\ InRead /\ Walked
    BY <1>1, <1>3 DEF InRead, Walked
  <2>2. Shapes'
    BY <1>1, <2>1 DEF ContextInv, Shapes, RulesTyped, Early
  <2>3. PolicyInv'
    BY <1>1, <2>1 DEF ContextInv, PolicyInv, PolicyTyped, RulesTyped, IgnoreKnown
  <2>4. FreshInv' /\ WalkInv' /\ MissingInv'
    BY <2>1 DEF FreshInv, WalkInv, MissingInv
  <2>5. NodesInv'
    BY <1>1, <2>1 DEF ContextInv, NodesInv, ChosenNodes
  <2>6. ReadInv'
    BY <1>1, <1>3, <2>1 DEF ContextInv, ReadInv, IgnoreSettled, QuietRead, GotRight, KindAt
  <2>7. TotalInv'
    BY <1>1 DEF ContextInv, TotalInv
  <2> QED
    BY <2>2, <2>3, <2>4, <2>5, <2>6, <2>7 DEF ContextInv
<1> QED
  BY <1>2, <1>3

LEMMA ContextInvariant ==
  ASSUME GenerationAssumption, TextsAssumption
  PROVE  GenerationSpec => []ContextInv
<1>1. GenerationInit => ContextInv
  BY InitInv
<1>2. ContextInv /\ [GenerationNext]_generationVars => ContextInv'
  <2> SUFFICES ASSUME ContextInv, [GenerationNext]_generationVars
               PROVE  ContextInv'
    OBVIOUS
  <2>1. ASSUME NEW s \in Stacks, NEW t \in Tasks, NEW by \in {"daemon", "library"}, Begin(s, t, by)
        PROVE  ContextInv'
    BY <2>1, BeginInv
  <2>2. CASE Detect \/ ReadDockerfile \/ LookForIgnore \/ ReadRules
    BY <2>2, DetectInv, ReadDockerfileInv, LookForIgnoreInv, ReadRulesInv
  <2>3. ASSUME NEW d \in pending, OpenDir(d)
        PROVE  ContextInv'
    BY <2>3, OpenDirInv
  <2>4. ASSUME NEW p \in DOMAIN left, Visit(p)
        PROVE  ContextInv'
    BY <2>4, VisitInv
  <2>5. CASE Select \/ Collected
    BY <2>5, SelectInv, CollectedInv
  <2>6. ASSUME NEW p \in todo, ReadEntry(p)
        PROVE  ContextInv'
    BY <2>6, ReadEntryInv
  <2>7. ASSUME NEW c \in Changes, Edit(c.path, c.node)
        PROVE  ContextInv'
    BY <2>7, EditInv
  <2>8. ASSUME NEW t \in Trees, ReplaceRoot(t)
        PROVE  ContextInv'
    BY <2>8, ReplaceRootInv
  <2>9. CASE \/ Derive \/ AskVersion \/ Inspect \/ Pull \/ CommandFails \/ Authorize
             \/ \E pulls \in BOOLEAN : Resolve(pulls)
             \/ \E image, id : StoreMoves(image, id)
             \/ UNCHANGED generationVars
    BY <2>9, AfterwardsInv
  <2> QED
    BY <2>1, <2>2, <2>3, <2>4, <2>5, <2>6, <2>7, <2>8, <2>9, Zenon DEF GenerationNext
<1> QED
  BY <1>1, <1>2, PTL DEF GenerationSpec

-----------------------------------------------------------------------------
(* What a context is, once it is there. *)

\* Everything that was selected was read.
LEMMA AllRead ==
  ASSUME ContextInv, HasContext
  PROVE  /\ DOMAIN got = SelectContext(policy, nodes) /\ DOMAIN got \subseteq DOMAIN nodes
         /\ \A p \in DOMAIN got : GotRight(p) /\ nodes[p] \in {"file", "dir", "link"}
<1>1. InRead /\ Walked
  BY DEF InRead, Walked
<1>2. todo \union DOMAIN got = SelectContext(policy, nodes) /\ todo = {}
      /\ \A p \in DOMAIN got : GotRight(p)
  BY <1>1 DEF ContextInv, ReadInv
<1>3. DOMAIN got = SelectContext(policy, nodes)
  BY <1>2
<1>4. DOMAIN got \subseteq DOMAIN nodes
  BY <1>3 DEF SelectContext
<1>5. \A p \in DOMAIN nodes : nodes[p] \in Present
  BY <1>1 DEF ContextInv, NodesInv
<1>6. ASSUME NEW p \in DOMAIN got
      PROVE  nodes[p] \in {"file", "dir", "link"}
  <2>1. nodes[p] \in Present /\ nodes[p] # "other"
    BY <1>2, <1>4, <1>5 DEF GotRight
  <2> QED
    BY <2>1 DEF Present
<1> QED
  BY <1>2, <1>3, <1>4, <1>6

\* An ignore file that cannot be read would have been selected, and refused.
LEMMA SettledIsInUse ==
  ASSUME GenerationAssumption, ContextInv, HasContext, IgnoreSettled
  PROVE  IgnoreIn(nodes) = policy.ignore
<1>1. ASSUME IgnoreIn(nodes) \in DOMAIN nodes, nodes[IgnoreIn(nodes)] = "other"
      PROVE  FALSE
  <2>1. IgnoreIn(nodes) \in SelectContext(policy, nodes)
    BY <1>1 DEF SelectContext
  <2> QED
    BY <1>1, <2>1, AllRead
<1> QED
  BY <1>1 DEF IgnoreSettled

\* When the selection found the ignore file in use, it chose as the walk did.
LEMMA SelectsAsTheWalk ==
  ASSUME GenerationAssumption, ContextInv, Walked, IgnoreIn(nodes) = policy.ignore
  PROVE  SelectContext(policy, nodes) = ChosenNodes
<1>1. RulesIn(policy, nodes) = policy.rules
  BY DEF RulesIn, ContextInv, PolicyInv
<1> QED
  BY <1>1 DEF SelectContext, ChosenNodes, Chosen, Protected

LEMMA AppliesTheRules ==
  ASSUME GenerationAssumption, ContextInv, HasContext, IgnoreIn(nodes) = policy.ignore
  PROVE  RulesApplied
<1>1. Walked
  BY DEF Walked
<1>2. DOMAIN got = ChosenNodes
  BY <1>1, AllRead, SelectsAsTheWalk
<1>3. policy.ignore # NoPath =>
        policy.ignore \in DOMAIN got /\ got[policy.ignore].data = policy.bytes
  <2> SUFFICES ASSUME policy.ignore # NoPath
               PROVE  policy.ignore \in DOMAIN got /\ got[policy.ignore].data = policy.bytes
    OBVIOUS
  <2> DEFINE f == policy.ignore
  <2>1. f \in DOMAIN nodes /\ nodes[f] \in {"file", "other"}
    BY DEF IgnoreIn
  <2>2. f \in DOMAIN got
    BY <2>1, <1>2 DEF ChosenNodes, Chosen, Protected
  <2>3. GotRight(f) /\ nodes[f] = "file"
    BY <2>1, <2>2, AllRead
  <2> QED
    BY <2>2, <2>3 DEF GotRight
<1>4. \A p \in DOMAIN got : Chosen(policy, p)
  BY <1>2 DEF ChosenNodes
<1>5. Cardinality(DOMAIN got) <= MaxEntries
  BY <1>1, <1>2 DEF ContextInv, NodesInv
<1> QED
  BY <1>3, <1>4, <1>5 DEF RulesApplied

\* A context is whole, however the workspace changed while it was collected (collector.rs,
\* collect_context_inner): it was read from one directory, carries the Dockerfile that
\* chose its entries, holds no special file and keeps to max_total_bytes.
THEOREM ContextIsWhole ==
  ASSUME GenerationAssumption, TextsAssumption
  PROVE  GenerationSpec => []ContextWhole
<1>1. ContextInv => ContextWhole
  <2> SUFFICES ASSUME ContextInv, HasContext
               PROVE  /\ world.root = policy.root
                      /\ Dockerfile \in DOMAIN got /\ got[Dockerfile].data = policy.text
                      /\ \A p \in DOMAIN got : got[p].kind \in {"file", "dir", "link"}
                      /\ total <= MaxTotal
    BY DEF ContextWhole
  <2>1. world.root = policy.root /\ HasDockerfile(nodes) /\ total <= MaxTotal
    BY DEF ContextInv, ReadInv, InRead, TotalInv
  <2>2. Dockerfile \in DOMAIN got
    BY <2>1, AllRead DEF SelectContext, HasDockerfile
  <2>3. nodes[Dockerfile] = "file" /\ GotRight(Dockerfile)
    BY <2>1, <2>2, AllRead DEF HasDockerfile
  <2>4. got[Dockerfile].data = policy.text
    BY <2>3 DEF GotRight
  <2>5. ASSUME NEW p \in DOMAIN got
        PROVE  got[p].kind \in {"file", "dir", "link"}
    BY <2>5, AllRead DEF GotRight
  <2> QED
    BY <2>1, <2>2, <2>4, <2>5
<1> QED
  BY <1>1, ContextInvariant, PTL

\* When the selection comes upon the ignore file the walk went by, the context carries that
\* file as it was read, and only what its rules admit, max_entries at most (collector.rs).
THEOREM ContextIsHonest ==
  ASSUME GenerationAssumption, TextsAssumption
  PROVE  GenerationSpec => []ContextHonest
<1>1. ContextInv => ContextHonest
  BY AppliesTheRules DEF ContextHonest
<1> QED
  BY <1>1, ContextInvariant, PTL

\* A single change of the workspace while it is collected, whatever it is and wherever it
\* falls, is found out or does no harm: the second look at the ignore files and the check
\* of their bytes suffice against it (collector.rs, collect_context_inner).
THEOREM OneChangeIsAlwaysSeen ==
  ASSUME GenerationAssumption, TextsAssumption
  PROVE  GenerationSpec => []OneChangeIsSeen
<1>1. ContextInv => OneChangeIsSeen
  <2> SUFFICES ASSUME ContextInv, HasContext, world.met <= 1
               PROVE  RulesApplied
    BY DEF OneChangeIsSeen
  <2>1. IgnoreSettled
    BY DEF ContextInv, ReadInv, InRead
  <2> QED
    BY <2>1, SettledIsInUse, AppliesTheRules
<1> QED
  BY <1>1, ContextInvariant, PTL

\* In a workspace that stays as it is, the pruned walk loses nothing and adds nothing: the
\* context is what the Dockerfile and the rules choose of the whole workspace, and a source
\* is reported missing only when nothing in the workspace matches it (walk_prune.rs).
THEOREM ContextIsExact ==
  ASSUME GenerationAssumption, TextsAssumption
  PROVE  GenerationSpec => []ContextExact
<1>1. ContextInv => ContextExact
  <2> SUFFICES ASSUME ContextInv, world.met = 0
               PROVE  /\ HasContext =>
                           /\ DOMAIN got = {p \in Paths : KindAt(p) # "gone" /\ Chosen(policy, p)}
                           /\ \A p \in DOMAIN got : got[p] = tree[p]
                      /\ at = "missing" => NothingMatches
    BY DEF ContextExact, NothingMatches
  <2>1. ASSUME HasContext
        PROVE  /\ DOMAIN got = {p \in Paths : KindAt(p) # "gone" /\ Chosen(policy, p)}
               /\ \A p \in DOMAIN got : got[p] = tree[p]
    <3>1. QuietRead /\ IgnoreSettled /\ Walked
      BY <2>1 DEF ContextInv, ReadInv, InRead, Walked
    <3>2. DOMAIN got = ChosenNodes
      BY <2>1, <3>1, AllRead, SettledIsInUse, SelectsAsTheWalk
    <3>3. DOMAIN nodes \subseteq Paths /\ \A p \in DOMAIN nodes : nodes[p] \in Present
      BY <3>1 DEF ContextInv, NodesInv
    <3>4. ASSUME NEW p \in DOMAIN nodes
          PROVE  KindAt(p) # "gone"
      <4>1. KindAt(p) \in Present
        BY <3>1, <3>3 DEF QuietRead
      <4> QED
        BY <4>1 DEF Present
    <3>5. DOMAIN got \subseteq {p \in Paths : KindAt(p) # "gone" /\ Chosen(policy, p)}
      BY <3>2, <3>3, <3>4 DEF ChosenNodes
    <3>6. {p \in Paths : KindAt(p) # "gone" /\ Chosen(policy, p)} \subseteq DOMAIN got
      BY <3>1, <3>2 DEF QuietRead, ChosenNodes
    <3> QED
      BY <3>1, <3>5, <3>6 DEF QuietRead
  <2>2. at = "missing" => NothingMatches
    BY DEF ContextInv, MissingInv
  <2> QED
    BY <2>1, <2>2
<1> QED
  BY <1>1, ContextInvariant, PTL

-----------------------------------------------------------------------------
(* Receipts of images. *)

\* While Docker is asked, no image has two receipts, and past its admission a request holds
\* well-formed images only.
AskingInv ==
  /\ images = [want |-> images.want, out |-> images.out, left |-> images.left, pulls |-> images.pulls]
  /\ DOMAIN images.want \subseteq Nat
  /\ images.out \in Seq([image : Range(images.want), id : Identities \union {"absent"}])
  /\ \A i, j \in DOMAIN images.out : images.out[i].image = images.out[j].image => i = j
  /\ at # "version" => \A k \in DOMAIN images.want : ValidImage(images.want[k])
  /\ at \in {"pull", "again"} => images.pulls
OneReceipt(rs) ==
  \A r \in rs : r.id \in Identities \union Pinned /\ \A q \in rs : r.image = q.image => r = q
ReceiptsInv ==
  /\ at \in Asking => AskingInv
  /\ \A x \in made : OneReceipt(x.images)

\* What is asked for is a sequence.
LEMMA WantedInOrder ==
  ASSUME GenerationAssumption, TextsAssumption, ContextInv, at = "collected"
  PROVE  DOMAIN Required.images \subseteq Nat
<1>1. CASE plan.stack.df
  <2>1. policy.text \in DOMAIN DockerText
    BY <1>1 DEF ContextInv, PolicyInv, Walked, HasContext
  <2>2. Required.images \in Seq(Image)
    BY <1>1, <2>1 DEF Required, TextsAssumption
  <2> HIDE DEF Required
  <2> QED
    BY <2>2
<1>2. CASE ~plan.stack.df
  <2> DEFINE x == [name |-> plan.stack.image, platform |-> "none"]
  <2>1. Required.images = <<x>>
    BY <1>2 DEF Required
  <2> HIDE DEF x
  <2>2. DOMAIN <<x>> = 1 .. 1
    OBVIOUS
  <2> QED
    BY <2>1, <2>2
<1> QED
  BY <1>1, <1>2

\* A request begins with no receipt.
LEMMA RequestInv ==
  ASSUME NEW want, DOMAIN want \subseteq Nat, NEW output, NEW pulls,
         images' = [want |-> want, out |-> << >>, left |-> output, pulls |-> pulls],
         at' = "version" \/ (at' = "inspect" /\ \A k \in DOMAIN want : ValidImage(want[k]))
  PROVE  AskingInv'
<1>1. images'.want = want /\ images'.out = << >> /\ images'.left = output /\ images'.pulls = pulls
  OBVIOUS
<1>2. images' = [want |-> images'.want, out |-> images'.out, left |-> images'.left, pulls |-> images'.pulls]
  BY <1>1
<1>3. images'.out \in Seq([image : Range(images'.want), id : Identities \union {"absent"}])
  BY <1>1
<1>4. DOMAIN images'.out = {}
  BY <1>1
<1>5. at' # "version" => \A k \in DOMAIN images'.want : ValidImage(images'.want[k])
  BY <1>1
<1>6. at' \notin {"pull", "again"}
  OBVIOUS
<1> QED
  BY <1>1, <1>2, <1>3, <1>4, <1>5, <1>6 DEF AskingInv, ValidImage

\* The image in turn has no receipt yet.
LEMMA CurrentUnanswered ==
  ASSUME DOMAIN images.want \subseteq Nat, Unanswered # {}
  PROVE  Current \in Range(images.want) /\ Current \notin Answered
<1>1. Unanswered \subseteq Nat
  BY DEF Unanswered
<1>2. \E k \in Unanswered : \A j \in Unanswered : k <= j
  BY <1>1, LeastNatural
<1> DEFINE k == CHOOSE k \in Unanswered : \A j \in Unanswered : k <= j
<1>3. k \in Unanswered
  BY <1>2
<1>4. Current = images.want[k]
  BY DEF Current
<1> HIDE DEF k
<1>5. k \in DOMAIN images.want /\ images.want[k] \notin Answered
  BY <1>3 DEF Unanswered
<1> QED
  BY <1>4, <1>5 DEF Range

LEMMA ReceiptInv ==
  ASSUME AskingInv, Unanswered # {}, NEW id \in Identities \union {"absent"}, Receipt(id),
         at \in {"inspect", "again"}, at' = "inspect"
  PROVE  AskingInv'
<1> DEFINE r == [image |-> Current, id |-> id]
<1>1. Current \in Range(images.want) /\ Current \notin Answered
  BY CurrentUnanswered DEF AskingInv
<1>2. r \in [image : Range(images.want), id : Identities \union {"absent"}] /\ r.image = Current
  BY <1>1
<1>3. images' = [images EXCEPT !.out = Append(@, r), !.left = @ - 1]
  BY DEF Receipt
<1> HIDE DEF r
<1>4. PICK w, o, l, p : images = [want |-> w, out |-> o, left |-> l, pulls |-> p]
  BY DEF AskingInv
<1>5. images' = [want |-> w, out |-> Append(o, r), left |-> l - 1, pulls |-> p]
  BY <1>3, <1>4
<1>6. images.want = w /\ images.out = o
  BY <1>4
<1>7. images'.want = w /\ images'.out = Append(o, r) /\ images'.left = l - 1 /\ images'.pulls = p
  BY <1>5
<1>8. /\ DOMAIN w \subseteq Nat /\ o \in Seq([image : Range(w), id : Identities \union {"absent"}])
      /\ \A i, j \in DOMAIN o : o[i].image = o[j].image => i = j
      /\ \A k \in DOMAIN w : ValidImage(w[k])
  BY <1>6 DEF AskingInv
<1>9. \A i \in DOMAIN o : o[i].image # r.image
  BY <1>1, <1>2, <1>6 DEF Answered
<1> DEFINE T == [image : Range(w), id : Identities \union {"absent"}]
<1>10. r \in T /\ o \in Seq(T)
  BY <1>2, <1>6, <1>8
<1> HIDE DEF T
<1>11. Append(o, r) \in Seq(T) /\ DOMAIN Append(o, r) = 1 .. (Len(o) + 1) /\ DOMAIN o = 1 .. Len(o)
       /\ Len(o) \in Nat /\ Append(o, r)[Len(o) + 1] = r
       /\ \A i \in 1 .. Len(o) : Append(o, r)[i] = o[i]
  BY <1>10
<1>12. ASSUME NEW i \in DOMAIN Append(o, r), NEW j \in DOMAIN Append(o, r),
              Append(o, r)[i].image = Append(o, r)[j].image
       PROVE  i = j
  <2>1. (i \in 1 .. Len(o) \/ i = Len(o) + 1) /\ (j \in 1 .. Len(o) \/ j = Len(o) + 1)
    BY <1>11
  <2>2. CASE i \in 1 .. Len(o) /\ j \in 1 .. Len(o)
    BY <2>2, <1>8, <1>11, <1>12
  <2>3. CASE i = Len(o) + 1 /\ j = Len(o) + 1
    BY <2>3
  <2>4. CASE i \in 1 .. Len(o) /\ j = Len(o) + 1
    <3>1. Append(o, r)[i] = o[i] /\ Append(o, r)[j] = r /\ i \in DOMAIN o
      BY <2>4, <1>11
    <3> QED
      BY <3>1, <1>9, <1>12
  <2>5. CASE i = Len(o) + 1 /\ j \in 1 .. Len(o)
    <3>1. Append(o, r)[j] = o[j] /\ Append(o, r)[i] = r /\ j \in DOMAIN o
      BY <2>5, <1>11
    <3> QED
      BY <3>1, <1>9, <1>12
  <2> QED
    BY <2>1, <2>2, <2>3, <2>4, <2>5
<1>13. Append(o, r) \in Seq([image : Range(w), id : Identities \union {"absent"}])
  BY <1>11 DEF T
<1>14. images' = [want |-> images'.want, out |-> images'.out, left |-> images'.left, pulls |-> images'.pulls]
  BY <1>5, <1>7
<1>15. \A k \in DOMAIN images'.want : ValidImage(images'.want[k])
  BY <1>7, <1>8
<1> QED
  BY <1>7, <1>8, <1>12, <1>13, <1>14, <1>15 DEF AskingInv, ValidImage

\* A command that gives no receipt costs some of the output that is left.
LEMMA SpentInv ==
  ASSUME AskingInv, at \in {"inspect", "again", "pull"}, images.pulls,
         images' = [images EXCEPT !.left = @ - 1], at' \in {"pull", "again"}
  PROVE  AskingInv'
<1>1. PICK w, o, l, p : images = [want |-> w, out |-> o, left |-> l, pulls |-> p]
  BY DEF AskingInv
<1>2. images' = [want |-> w, out |-> o, left |-> l - 1, pulls |-> p]
  BY <1>1
<1>3. images.want = w /\ images.out = o /\ images.pulls = p
  BY <1>1
<1>4. images'.want = w /\ images'.out = o /\ images'.left = l - 1 /\ images'.pulls = p
  BY <1>2
<1>5. images' = [want |-> images'.want, out |-> images'.out, left |-> images'.left, pulls |-> images'.pulls]
  BY <1>2, <1>4
<1>6. /\ DOMAIN w \subseteq Nat /\ o \in Seq([image : Range(w), id : Identities \union {"absent"}])
      /\ \A i, j \in DOMAIN o : o[i].image = o[j].image => i = j
      /\ \A k \in DOMAIN w : ValidImage(w[k])
  BY <1>3 DEF AskingInv
<1>7. \A k \in DOMAIN images'.want : ValidImage(images'.want[k])
  BY <1>4, <1>6
<1> QED
  BY <1>3, <1>4, <1>5, <1>6, <1>7 DEF AskingInv, ValidImage

LEMMA InspectInv ==
  ASSUME ReceiptsInv, Inspect
  PROVE  ReceiptsInv'
<1>1. /\ at \in {"inspect", "again"} /\ Unanswered # {} /\ made' = made
  BY DEF Inspect
<1>2. AskingInv
  BY <1>1 DEF ReceiptsInv, Asking
<1>3. \A x \in made' : OneReceipt(x.images)
  BY <1>1 DEF ReceiptsInv
<1>4. CASE store[Current] \in Identities /\ Receipt(store[Current]) /\ at' = "inspect"
  <2>1. AskingInv'
    BY <1>1, <1>2, <1>4, ReceiptInv
  <2> QED
    BY <2>1, <1>3 DEF ReceiptsInv, OneReceipt
<1>5. CASE store[Current] = "absent" /\ at = "inspect" /\ ~images.pulls /\ Receipt("absent") /\ at' = at
  <2>1. AskingInv'
    BY <1>1, <1>2, <1>5, ReceiptInv
  <2> QED
    BY <2>1, <1>3 DEF ReceiptsInv, OneReceipt
<1>6. CASE /\ store[Current] = "absent" /\ at = "inspect" /\ images.pulls
           /\ images' = [images EXCEPT !.left = @ - 1] /\ at' = "pull"
  <2>1. AskingInv'
    BY <1>1, <1>2, <1>6, SpentInv
  <2> QED
    BY <2>1, <1>3 DEF ReceiptsInv, OneReceipt
<1>7. CASE at' = "refused"
  BY <1>3, <1>7 DEF ReceiptsInv, OneReceipt, Asking
<1> QED
  BY <1>4, <1>5, <1>6, <1>7, Zenon DEF Inspect

LEMMA ResolveInv ==
  ASSUME GenerationAssumption, TextsAssumption, ContextInv, ReceiptsInv,
         NEW pulls \in BOOLEAN, Resolve(pulls)
  PROVE  ReceiptsInv'
<1> DEFINE want == Required.images
<1>1. at = "collected" /\ made' = made
  BY DEF Resolve
<1>2. DOMAIN want \subseteq Nat
  BY <1>1, WantedInOrder
<1>3. /\ images' = [want |-> want, out |-> << >>, left |-> MaxOutput, pulls |-> pulls]
      /\ \/ at' \in {"refused", "version"}
         \/ at' = "inspect" /\ \A k \in DOMAIN want : ValidImage(want[k])
  BY DEF Resolve, Request, Go
<1> HIDE DEF want
<1>4. at' \in Asking => AskingInv'
  <2> SUFFICES ASSUME at' \in Asking
               PROVE  AskingInv'
    OBVIOUS
  <2>1. at' = "version" \/ (at' = "inspect" /\ \A k \in DOMAIN want : ValidImage(want[k]))
    BY <1>3 DEF Asking
  <2> QED
    BY <1>2, <1>3, <2>1, RequestInv
<1> QED
  BY <1>1, <1>4 DEF ReceiptsInv, OneReceipt

LEMMA AskVersionInv ==
  ASSUME ReceiptsInv, AskVersion
  PROVE  ReceiptsInv'
<1> DEFINE want == [k \in DOMAIN images.want |->
                      [name |-> PlatformOf(images.want[k].name),
                       platform |-> PlatformOf(images.want[k].platform)]]
<1>1. at = "version" /\ made' = made
  BY DEF AskVersion
<1>2. /\ images' = [want |-> want, out |-> << >>, left |-> MaxOutput, pulls |-> images.pulls]
      /\ at' = "refused" \/ (at' = "inspect" /\ \A k \in DOMAIN want : ValidImage(want[k]))
  BY DEF AskVersion, Request, Go
<1>3. DOMAIN want = DOMAIN images.want /\ DOMAIN images.want \subseteq Nat
  BY <1>1 DEF ReceiptsInv, AskingInv, Asking
<1> HIDE DEF want
<1>4. at' \in Asking => AskingInv'
  <2> SUFFICES ASSUME at' \in Asking
               PROVE  AskingInv'
    OBVIOUS
  <2>1. at' = "inspect" /\ \A k \in DOMAIN want : ValidImage(want[k])
    BY <1>2 DEF Asking
  <2> QED
    BY <1>2, <1>3, <2>1, RequestInv
<1> QED
  BY <1>1, <1>4 DEF ReceiptsInv, OneReceipt

LEMMA PullInv ==
  ASSUME ReceiptsInv, Pull
  PROVE  ReceiptsInv'
<1>1. /\ at = "pull" /\ images' = [images EXCEPT !.left = @ - 1] /\ at' = "again" /\ made' = made
  BY DEF Pull
<1>2. AskingInv /\ images.pulls
  BY <1>1 DEF ReceiptsInv, AskingInv, Asking
<1>3. AskingInv'
  BY <1>1, <1>2, SpentInv
<1> QED
  BY <1>1, <1>3 DEF ReceiptsInv, OneReceipt

\* The daemon's receipts: an image pinned by its name is its own receipt.
LEMMA DeriveInv ==
  ASSUME ReceiptsInv, Derive
  PROVE  ReceiptsInv'
<1> DEFINE want == Required.images
           receipts == [k \in DOMAIN want |-> [image |-> want[k], id |-> want[k].name]]
           ok == /\ ~Required.bad /\ IsInjective(want)
                 /\ \A k \in DOMAIN want : want[k].name \in Pinned
                 /\ plan.task.stack \in {"any", plan.stack.name}
                 /\ plan.stack.guest => ~plan.task.secrets
                 /\ ~VolumesRefused(plan.stack)
           new == [by |-> "daemon", gen |-> RuntimeGeneration(receipts),
                   shape |-> Shape(RuntimeGeneration(receipts)),
                   images |-> Range(receipts), caches |-> JobCaches(plan.stack)]
<1>1. at' = (IF ok THEN "built" ELSE "refused") /\ made' = IF ok THEN made \union {new} ELSE made
  BY DEF Derive, Go
<1>2. at' \notin Asking
  BY <1>1 DEF Asking
<1>3. ok => OneReceipt(Range(receipts))
  <2> SUFFICES ASSUME ok
               PROVE  OneReceipt(Range(receipts))
    OBVIOUS
  <2>1. \A k \in DOMAIN want : want[k].name \in Pinned
    OBVIOUS
  <2>2. ASSUME NEW r \in Range(receipts)
        PROVE  r.id = r.image.name /\ r.id \in Pinned /\ r = [image |-> r.image, id |-> r.image.name]
    <3>1. PICK k \in DOMAIN want : r = [image |-> want[k], id |-> want[k].name]
      BY <2>2 DEF Range
    <3> HIDE DEF want
    <3> QED
      BY <3>1, <2>1
  <2> HIDE DEF receipts
  <2> QED
    BY <2>2 DEF OneReceipt
<1>4. new.images = Range(receipts)
  OBVIOUS
<1> HIDE DEF new, ok, receipts
<1>5. \A x \in made' : OneReceipt(x.images)
  BY <1>1, <1>3, <1>4 DEF ReceiptsInv
<1> QED
  BY <1>2, <1>5 DEF ReceiptsInv, OneReceipt

\* The library's receipts: those Docker gave.
LEMMA AuthorizeInv ==
  ASSUME ReceiptsInv, Authorize
  PROVE  ReceiptsInv'
<1> DEFINE out == Range(images.out)
           ok == /\ {o.image : o \in out} = Range(Required.images)
                 /\ \A o \in out : o.id \in Identities
           new == [by |-> "library", gen |-> [base |-> Base(images.out), runtime |-> << >>],
                   shape |-> [entries |-> got], images |-> out, caches |-> {}]
<1>1. /\ at = "inspect" /\ at' = (IF ok THEN "built" ELSE "refused")
      /\ made' = IF ok THEN made \union {new} ELSE made
  BY DEF Authorize, Go
<1>2. at' \notin Asking
  BY <1>1 DEF Asking
<1>3. ok => OneReceipt(out)
  <2> SUFFICES ASSUME ok
               PROVE  OneReceipt(out)
    OBVIOUS
  <2>1. \A o \in out : o.id \in Identities
    OBVIOUS
  <2>2. \A i, j \in DOMAIN images.out : images.out[i].image = images.out[j].image => i = j
    BY <1>1 DEF ReceiptsInv, AskingInv, Asking
  <2>3. ASSUME NEW r \in out, NEW q \in out, r.image = q.image
        PROVE  r = q
    <3>1. PICK i \in DOMAIN images.out : r = images.out[i]
      BY DEF Range
    <3>2. PICK j \in DOMAIN images.out : q = images.out[j]
      BY DEF Range
    <3> QED
      BY <3>1, <3>2, <2>2, <2>3
  <2> HIDE DEF out
  <2> QED
    BY <2>1, <2>3 DEF OneReceipt
<1>4. new.images = out
  OBVIOUS
<1> HIDE DEF new, ok, out
<1>5. \A x \in made' : OneReceipt(x.images)
  BY <1>1, <1>3, <1>4 DEF ReceiptsInv
<1> QED
  BY <1>2, <1>5 DEF ReceiptsInv, OneReceipt

\* Every other step leaves the receipts alone, or ends with nothing being asked.
LEMMA ReceiptsStay ==
  ASSUME ReceiptsInv, made' = made, at' \notin Asking \/ (at' = at /\ images' = images)
  PROVE  ReceiptsInv'
<1>1. at' \in Asking => AskingInv'
  BY DEF ReceiptsInv, AskingInv, ValidImage
<1> QED
  BY <1>1 DEF ReceiptsInv, OneReceipt

\* A generation rests on one receipt for every image, each with a digest, and Docker pulls
\* only for a caller that allows it and only for a request that was admitted whole
\* (resolver.rs, resolve_images_streaming; bosn-generation/lib.rs, final_generation).
THEOREM ReceiptsAreExact ==
  ASSUME GenerationAssumption, TextsAssumption
  PROVE  GenerationSpec => []ReceiptsExact
<1>1. GenerationInit => ReceiptsInv
  BY DEF GenerationInit, ReceiptsInv, Asking
<1>2. ContextInv /\ ReceiptsInv /\ [GenerationNext]_generationVars => ReceiptsInv'
  <2> SUFFICES ASSUME ContextInv, ReceiptsInv, [GenerationNext]_generationVars
               PROVE  ReceiptsInv'
    OBVIOUS
  <2>1. ASSUME NEW s \in Stacks, NEW t \in Tasks, NEW by \in {"daemon", "library"}, Begin(s, t, by)
        PROVE  ReceiptsInv'
    <3>1. made' = made /\ at' \notin Asking
      BY <2>1 DEF Begin, Go, Asking
    <3> QED
      BY <3>1, ReceiptsStay
  <2>2. CASE Detect \/ ReadDockerfile \/ LookForIgnore \/ ReadRules \/ Select \/ Collected
    <3>1. made' = made /\ at' \notin Asking
      BY <2>2 DEF Detect, ReadDockerfile, LookForIgnore, ReadRules, Select, Collected, Go, Asking
    <3> QED
      BY <3>1, ReceiptsStay
  <2>3. ASSUME \/ \E d \in pending : OpenDir(d)
               \/ \E p \in DOMAIN left : Visit(p)
               \/ \E p \in todo : ReadEntry(p)
        PROVE  ReceiptsInv'
    <3>1. made' = made /\ at' \notin Asking
      BY <2>3 DEF OpenDir, Visit, ReadEntry, Go, Asking
    <3> QED
      BY <3>1, ReceiptsStay
  <2>4. CASE \/ \E c \in Changes : Edit(c.path, c.node)
             \/ \E t \in Trees : ReplaceRoot(t)
             \/ \E image \in DOMAIN store, id \in Identities \union {"absent", "malformed"} :
                  StoreMoves(image, id)
             \/ UNCHANGED generationVars
    <3>1. made' = made /\ at' = at /\ images' = images
      BY <2>4 DEF Edit, ReplaceRoot, StoreMoves, generationVars
    <3> QED
      BY <3>1, ReceiptsStay
  <2>5. CASE CommandFails
    <3>1. made' = made /\ at' \notin Asking
      BY <2>5 DEF CommandFails, Asking
    <3> QED
      BY <3>1, ReceiptsStay
  <2>6. CASE AskVersion \/ Inspect \/ Pull \/ Derive \/ Authorize
    BY <2>6, AskVersionInv, InspectInv, PullInv, DeriveInv, AuthorizeInv
  <2>7. ASSUME NEW pulls \in BOOLEAN, Resolve(pulls)
        PROVE  ReceiptsInv'
    BY <2>7, ResolveInv
  <2> QED
    BY <2>1, <2>2, <2>3, <2>4, <2>5, <2>6, <2>7, Zenon DEF GenerationNext
<1>3. ReceiptsInv => ReceiptsExact
  BY DEF ReceiptsInv, AskingInv, OneReceipt, ReceiptsExact, Asking
<1> QED
  BY <1>1, <1>2, <1>3, ContextInvariant, PTL DEF GenerationSpec

=============================================================================
