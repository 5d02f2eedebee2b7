---------------------------- MODULE GithubProxy ----------------------------
(*****************************************************************************)
(* The read-only GitHub API proxies of running tasks, and the cache of       *)
(* answers they share (github_proxy.rs).                                     *)
(*                                                                           *)
(* A task that asks for it gets a proxy of its own: a listener with a secret *)
(* path, holding the one credential that was resolved when the task began.   *)
(* Every request is a handler of its own and gives way to the others while   *)
(* it waits for GitHub: once for the answer's head, once for its body.  What *)
(* GitHub holds moves on meanwhile, other handlers put answers into the      *)
(* cache or push them out, and a task that ends takes its proxy's handlers   *)
(* with it.                                                                  *)
(*                                                                           *)
(* A path is the sequence of its segments.  A body is known by what it is of *)
(* (the path, the representation asked for, the credential it was served to  *)
(* and the version GitHub had), and an ETag by the version alone, so that    *)
(* two credentials' answers may well carry the same one.                     *)
(*****************************************************************************)
EXTENDS Integers, Sequences, FiniteSets, Functions

CONSTANTS Proxies, Handlers,
          Tokens,          \* credentials a host may hold
          Forms,           \* representations: the accept and version headers
          Paths,           \* the paths clients ask for
          Requests,        \* what clients send
          BodySize(_, _),  \* the length of a path's body in one of its versions
          MaxVersion, MaxAsks,
          MaxBody, MaxBytes, MaxEntries   \* MAX_CACHED_BODY, MAX_CACHE_BYTES, MAX_CACHE_ENTRIES

VARIABLES upstream,   \* path -> the version GitHub holds
          runs, cred, \* proxy -> whether it listens, and the credential it holds
          entries, order, bytes,   \* CacheInner
          at,         \* handler -> where it is
          req,        \* handler -> the request it forwards
          cached,     \* handler -> the entry it found, as it was then
          head,       \* handler -> the head of GitHub's answer
          reply,      \* handler -> what it answered
          asks        \* requests made so far

handlerVars == <<at, req, cached, head, reply>>
cacheVars == <<entries, order, bytes>>
proxyVars == <<upstream, runs, cred, cacheVars, handlerVars, asks>>

Anonymous == "anonymous"
Unresolved == "unresolved"
Credential == Tokens \union {Anonymous}
None == [none |-> TRUE]
Version == 0 .. MaxVersion
NoVersion == -1

ProxyAssumption ==
  /\ MaxVersion \in Nat /\ MaxAsks \in Nat /\ MaxBody \in Nat /\ MaxBytes \in Nat
  /\ MaxEntries \in Nat \ {0} /\ MaxBody <= MaxBytes
  /\ Unresolved \notin Credential /\ "error" \notin Credential /\ "github" \notin Proxies
  /\ \A p \in Paths, v \in Version : BodySize(p, v) \in Nat
  /\ Requests \subseteq
       [by : Proxies, nonce : BOOLEAN, method : {"GET", "HEAD", "POST"}, path : Paths, form : Forms,
        holds : Version \union {NoVersion}]   \* the version a client with a condition holds

Body == [path : Paths, form : Forms, cred : Credential, ver : Version]
Key == [cred : Credential, form : Forms, path : Paths]
\* CachedResponse: a link header still names GitHub when it is kept.
Entry == [etag : Version, body : Body, link : {"github"}]
AnswerHead == [status : {200, 304, 404}, etag : Version \union {NoVersion}, ver : Version]
Reply ==
  [status : {200, 304, 404}, body : Body \union {None},
   link : {"github", "none"} \union Proxies, note : {"hit", "miss", "bypass", "none"}]

-----------------------------------------------------------------------------
(* Who a proxy speaks for. *)

\* resolve_credential: what `gh auth token` prints, else the stored secret, else
\* nobody; a token that does not look like one is not used, and a stored secret
\* that may not be read is an error, but only once gh had nothing.
Resolved(gh, secret) ==
  IF gh \in Tokens THEN gh
  ELSE IF secret = "refused" THEN "error"
  ELSE IF secret \in Tokens THEN secret ELSE Anonymous

GhPrints == Tokens \union {"nothing"}
StoredSecret == Tokens \union {"none", "implausible", "refused"}

ProxyInit ==
  /\ upstream = [p \in Paths |-> 0]
  /\ runs = [x \in Proxies |-> FALSE] /\ cred = [x \in Proxies |-> Unresolved]
  /\ entries = [k \in {} |-> None] /\ order = << >> /\ bytes = 0
  /\ at = [h \in Handlers |-> "idle"]
  /\ req = [h \in Handlers |-> None] /\ cached = [h \in Handlers |-> None]
  /\ head = [h \in Handlers |-> None] /\ reply = [h \in Handlers |-> None]
  /\ asks = 0

\* The task begins: its credential is resolved once, for as long as it runs; when that
\* fails the task is refused and has no proxy.
StartProxy(x) ==
  /\ cred[x] = Unresolved
  /\ \E gh \in GhPrints, secret \in StoredSecret :
       /\ Resolved(gh, secret) # "error"
       /\ cred' = [cred EXCEPT ![x] = Resolved(gh, secret)]
  /\ runs' = [runs EXCEPT ![x] = TRUE]
  /\ UNCHANGED <<upstream, cacheVars, handlerVars, asks>>

\* The handlers of H are over: their connections are closed.
Over(H) ==
  /\ at' = [h \in Handlers |-> IF h \in H THEN "idle" ELSE at[h]]
  /\ req' = [h \in Handlers |-> IF h \in H THEN None ELSE req[h]]
  /\ cached' = [h \in Handlers |-> IF h \in H THEN None ELSE cached[h]]
  /\ head' = [h \in Handlers |-> IF h \in H THEN None ELSE head[h]]
  /\ reply' = [h \in Handlers |-> IF h \in H THEN None ELSE reply[h]]

\* The task ends and drops its proxy: the listener and every handler go with it,
\* wherever they wait; what is in the cache stays for the next task.
DropProxy(x) ==
  /\ runs[x]
  /\ runs' = [runs EXCEPT ![x] = FALSE]
  /\ Over({h \in Handlers : at[h] # "idle" /\ req[h].by = x})
  /\ UNCHANGED <<upstream, cred, cacheVars, asks>>

-----------------------------------------------------------------------------
(* The cache. *)

SizeOf(body) == BodySize(body.path, body.ver)

\* The row without a key, which stands in it once if at all.
Without(key) ==
  IF key \in Range(order)
  THEN LET i == CHOOSE i \in DOMAIN order : order[i] = key
       IN SubSeq(order, 1, i - 1) \o SubSeq(order, i + 1, Len(order))
  ELSE order

\* What the first n of the keys in a row hold, added up.
Held(kept, n) ==
  LET sum[k \in 0 .. n] ==
        IF k = 0 THEN 0 ELSE sum[k - 1] + SizeOf(entries[kept[k]].body)
  IN sum[n]

\* What the cache holds once an older answer of the same key is gone.
Left(key) ==
  bytes - (IF key \in DOMAIN entries THEN SizeOf(entries[key].body) ELSE 0)

\* How many of the oldest entries make way: the loop of put stops as soon as there
\* is room, or when nothing is left to push out.
Fits(key, size, n) ==
  \/ n = Len(Without(key))
  \/ /\ Left(key) - Held(Without(key), n) + size <= MaxBytes
     /\ Len(Without(key)) - n < MaxEntries
Evicted(key, size) ==
  CHOOSE n \in 0 .. Len(Without(key)) :
    Fits(key, size, n) /\ \A m \in 0 .. (n - 1) : ~Fits(key, size, m)

\* put.  An answer that is too long is not kept, and then the older one stays.
Put(key, entry) ==
  LET size == SizeOf(entry.body)
      n == Evicted(key, size)
      gone == Range(SubSeq(Without(key), 1, n))
  IN IF size > MaxBody
     THEN UNCHANGED cacheVars
     ELSE /\ order' = Append(SubSeq(Without(key), n + 1, Len(Without(key))), key)
          /\ entries' = [k \in (DOMAIN entries \ gone) \union {key} |->
                           IF k = key THEN entry ELSE entries[k]]
          /\ bytes' = Left(key) - Held(Without(key), n) + size

-----------------------------------------------------------------------------
(* A request. *)

\* check_request: only reads, only of canonical paths, only of these endpoints.
Canonical(path) == path # << >> /\ \A i \in DOMAIN path : path[i] \notin {"", ".", ".."}
GitReads == {"ref", "refs", "matching-refs", "trees", "blobs", "commits", "tags"}
ReadEndpoint(path) ==
  \/ path = <<"rate_limit">>
  \/ /\ Len(path) >= 3 /\ path[1] = "repos"
     /\ \/ Len(path) = 3
        \/ path[4] \in {"releases", "branches", "commits", "contents", "zipball", "tarball"}
        \/ path[4] = "tags" /\ Len(path) = 4
        \/ path[4] = "git" /\ Len(path) >= 5 /\ path[5] \in GitReads
Allowed(r) ==
  r.nonce /\ r.method \in {"GET", "HEAD"} /\ Canonical(r.path) /\ ReadEndpoint(r.path)

KeyOf(r) == [cred |-> cred[r.by], form |-> r.form, path |-> r.path]
Cacheable(r) == r.method = "GET" /\ r.holds = NoVersion
Looked(r) ==
  IF Cacheable(r) /\ KeyOf(r) \in DOMAIN entries THEN entries[KeyOf(r)] ELSE None

\* build_response and json_error: a link header that names GitHub names this proxy.
Relinked(link, x) == IF link = "github" THEN x ELSE link
Answer(h, status, body, link, note) ==
  /\ at' = [at EXCEPT ![h] = "done"]
  /\ reply' = [reply EXCEPT ![h] =
       [status |-> status, body |-> body, link |-> link, note |-> note]]

\* handle, up to the request to GitHub.  The entry found is copied out of the cache.
Ask(h, r) ==
  /\ asks < MaxAsks
  /\ at[h] = "idle" /\ runs[r.by] /\ Allowed(r)
  /\ at' = [at EXCEPT ![h] = "sent"]
  /\ req' = [req EXCEPT ![h] = r]
  /\ cached' = [cached EXCEPT ![h] = Looked(r)]
  /\ asks' = asks + 1
  /\ UNCHANGED <<upstream, runs, cred, cacheVars, head, reply>>

\* A stranger to the secret path gets 404 and a request that is not an allowed read 403,
\* at once; neither goes any further.
Refuse(h, r) ==
  /\ asks < MaxAsks
  /\ at[h] = "idle" /\ runs[r.by] /\ ~Allowed(r)
  /\ asks' = asks + 1
  /\ UNCHANGED <<upstream, runs, cred, cacheVars, handlerVars>>

\* The If-None-Match that goes along: the cached answer's, or else the client's.
Conditional(h) == IF cached[h] # None THEN cached[h].etag ELSE req[h].holds

\* What GitHub may answer to a request it gets now (external): the content with or
\* without an ETag, something else, or that nothing is new.
Heads(h) ==
  LET v == upstream[req[h].path]
      Says(status, etag) == [status |-> status, etag |-> etag, ver |-> v]
  IN {Says(200, v), Says(200, NoVersion), Says(404, NoVersion)}
     \union {s \in {Says(304, v)} : Conditional(h) = v}

\* An unchanged answer is the cached one's body, as it was when the request was sent;
\* without one, and for a HEAD, there is no body to wait for.
HeadComes(h) ==
  /\ at[h] = "sent"
  /\ \E s \in Heads(h) :
       /\ head' = [head EXCEPT ![h] = s]
       /\ \/ /\ s.status = 304 /\ cached[h] # None
             /\ Answer(h, 200, cached[h].body, Relinked(cached[h].link, req[h].by), "hit")
          \/ /\ IF s.status = 304 THEN cached[h] = None ELSE req[h].method = "HEAD"
             /\ Answer(h, s.status, None, Relinked("github", req[h].by), "bypass")
          \/ /\ s.status # 304 /\ req[h].method # "HEAD"
             /\ at' = [at EXCEPT ![h] = "body"]
             /\ UNCHANGED reply
  /\ cached' = [cached EXCEPT ![h] = None]
  /\ UNCHANGED <<upstream, runs, cred, cacheVars, req, asks>>

\* The whole body is here, of the version the head announced.  Only the content itself,
\* with its ETag and for a request without conditions of its own, is put into the cache.
BodyComes(h) ==
  LET body == [path |-> req[h].path, form |-> req[h].form, cred |-> cred[req[h].by],
               ver |-> head[h].ver]
      keep == head[h].status = 200 /\ head[h].etag # NoVersion /\ Cacheable(req[h])
  IN /\ at[h] = "body"
     /\ Answer(h, head[h].status, body, Relinked("github", req[h].by),
               IF keep THEN "miss" ELSE "bypass")
     /\ IF keep
        THEN Put(KeyOf(req[h]), [etag |-> head[h].etag, body |-> body, link |-> "github"])
        ELSE UNCHANGED cacheVars
     /\ UNCHANGED <<upstream, runs, cred, req, cached, head, asks>>

\* The client has its answer; or, wherever the handler waits, GitHub cannot be reached,
\* the body breaks off or is too long (502), or the handler's time is up.
EndHandler(h) ==
  /\ at[h] # "idle"
  /\ Over({h})
  /\ UNCHANGED <<upstream, runs, cred, cacheVars, asks>>

\* GitHub moves on (external).
Publish(p) ==
  /\ upstream[p] < MaxVersion /\ ReadEndpoint(p)
  /\ upstream' = [upstream EXCEPT ![p] = @ + 1]
  /\ UNCHANGED <<runs, cred, cacheVars, handlerVars, asks>>

ProxyNext ==
  \/ \E x \in Proxies : StartProxy(x) \/ DropProxy(x)
  \/ \E h \in Handlers : HeadComes(h) \/ BodyComes(h) \/ EndHandler(h)
  \/ \E h \in Handlers, r \in Requests : Ask(h, r) \/ Refuse(h, r)
  \/ \E p \in Paths : Publish(p)

ProxySpec == ProxyInit /\ [][ProxyNext]_proxyVars

-----------------------------------------------------------------------------
\* Whatever put replaced, refused or pushed out, every answer in the cache has one place
\* in the row by which answers are pushed out, and there are no more of them, and none
\* that is longer, than allowed.
CacheRow ==
  /\ IsInjective(order) /\ Range(order) = DOMAIN entries
  /\ Len(order) <= MaxEntries
  /\ \A k \in DOMAIN entries : SizeOf(entries[k].body) <= MaxBody

\* `bytes` is the sum of the bodies the cache holds, and within its limit.
CacheAccounts == bytes = Held(order, Len(order)) /\ bytes <= MaxBytes

\* An answer with a body is the one GitHub had when it was asked: of the path and in
\* the form this client asked for, served to this proxy's credential and to no other,
\* of the version GitHub held then, and with its links through this proxy, although
\* the body may have been put there by another task and pushed out since.
AnswersAreCurrent ==
  \A h \in Handlers :
    at[h] = "done" /\ reply[h].body # None =>
      /\ reply[h].body = [path |-> req[h].path, form |-> req[h].form, cred |-> cred[req[h].by],
                          ver |-> head[h].ver]
      /\ reply[h].link = req[h].by

\* Only an allowed read reaches GitHub, and "not modified" only a client that said what
\* it holds.
OnlyReadsLeave ==
  \A h \in Handlers :
    /\ at[h] \in {"sent", "body"} => Allowed(req[h])
    /\ at[h] = "done" /\ reply[h].status = 304 => req[h].holds = head[h].ver

ProxySafe == CacheRow /\ CacheAccounts /\ AnswersAreCurrent /\ OnlyReadsLeave
=============================================================================
