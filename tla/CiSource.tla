------------------------------ MODULE CiSource ------------------------------
(***************************************************************************)
(* How a CI run gets its frozen source (ci/client.rs, ci/snapshot.rs,      *)
(* ci/snapshot/base.rs, ci/store.rs, ci/provider.rs and the submit, retry  *)
(* and prune operations of ci/runtime.rs).                                 *)
(*                                                                         *)
(* The client copies the working tree into the daemon's staging area file  *)
(* by file while the user may edit it, move HEAD, or a new daemon may      *)
(* start, which sweeps the staging area.  The daemon moves the staged copy *)
(* into the run's directory.  A retry copies the source of a finished run, *)
(* which pruning may be removing at the same time.                         *)
(***************************************************************************)
EXTENDS Integers, FiniteSets

CONSTANTS
  Commits,
  Files,        \* numbers: files are copied in order
  Contents,
  Tree,         \* [Commits -> [Files -> Contents]], what each commit holds
  Gone,         \* the content of a file that does not exist
  MaxEdits,     \* bound: changes to the workspace
  MaxSweeps     \* bound: daemons started while the client is at work

TreeAssumption ==
  /\ Files \subseteq Nat /\ IsFiniteSet(Files)
  /\ Gone \notin Contents
  /\ Tree \in [Commits -> [Files -> Contents \cup {Gone}]]

VARIABLES
  wsHead,       \* the commit HEAD names
  wsFiles,      \* [Files -> content in the working tree]
  edits,        \* changes to the workspace since the snapshot began
  client,       \* the submission: step, what was asked, what was read
  staged,       \* the staged copy: its files, and whether .git is in it
  swept,        \* the staged copy was swept while it was made
  sweeps,
  source,       \* the run's source once it is placed
  pruning,      \* "no", "begun" or "ended": removal of the run's source
  again,        \* a retry of the run: step, files to copy and copied
  blurred       \* the retry copied while the source was being removed

srcVars == <<wsHead, wsFiles, edits, client, staged, swept, sweeps, source,
             pruning, again, blurred>>
workspace == <<wsHead, wsFiles, edits>>
staging == <<staged, swept, sweeps>>
retrying == <<pruning, again, blurred>>

NoFiles == [f \in Files |-> Gone]
Present(files) == {f \in Files : files[f] # Gone}
First(S) == CHOOSE f \in S : \A g \in S : f <= g
Unmade == [dir |-> FALSE, git |-> FALSE, files |-> NoFiles]

SourceInit ==
  /\ wsHead \in Commits
  /\ wsFiles = Tree[wsHead]
  /\ edits = 0
  /\ client = [at |-> "idle", release |-> FALSE, dirty |-> FALSE, sha |-> wsHead,
               todo |-> {}, digest |-> NoFiles, commit |-> NoFiles]
  /\ staged = Unmade
  /\ swept = FALSE
  /\ sweeps = 0
  /\ source = [placed |-> FALSE, files |-> NoFiles]
  /\ pruning = "no"
  /\ again = [at |-> "idle", todo |-> {}, files |-> NoFiles]
  /\ blurred = FALSE

-----------------------------------------------------------------------------
(* The user.                                                               *)

Edit(f, c) ==
  /\ edits < MaxEdits
  /\ wsFiles[f] # c
  /\ wsFiles' = [wsFiles EXCEPT ![f] = c]
  /\ edits' = edits + 1
  /\ UNCHANGED <<wsHead, client, staging, source, retrying>>

Checkout(c) ==
  /\ edits < MaxEdits
  /\ c # wsHead
  /\ wsHead' = c
  /\ wsFiles' = Tree[c]
  /\ edits' = edits + 1
  /\ UNCHANGED <<client, staging, source, retrying>>

-----------------------------------------------------------------------------
(* The client.                                                             *)

Dirty == wsFiles # Tree[wsHead]
\* validate: a release needs a clean tree.
Refuses(release, dirty) == release /\ dirty
Fail == client' = [client EXCEPT !.at = "refused"] /\ staged' = Unmade

\* resolve: a release is refused when the tree is dirty, as it is now.
Resolve(release) ==
  /\ client.at = "idle"
  /\ edits' = 0
  /\ IF Refuses(release, Dirty)
     THEN /\ client' = [client EXCEPT !.at = "refused"]
          /\ UNCHANGED staged
     ELSE /\ client' = [client EXCEPT !.at = "status", !.release = release]
          /\ staged' = [Unmade EXCEPT !.dir = TRUE]
  /\ UNCHANGED <<wsHead, wsFiles, swept, sweeps, source, retrying>>

\* detect, github_workflow: no such provider or workflow in the checkout.
NotFound ==
  /\ client.at = "idle"
  /\ client' = [client EXCEPT !.at = "refused"]
  /\ UNCHANGED <<workspace, staging, source, retrying>>

\* head: the status first, then the commit.
ReadStatus ==
  /\ client.at = "status"
  /\ client' = [client EXCEPT !.at = "sha", !.dirty = Dirty]
  /\ UNCHANGED <<workspace, staging, source, retrying>>

ReadSha ==
  /\ client.at = "sha"
  /\ client' = [client EXCEPT !.at = "list", !.sha = wsHead]
  /\ UNCHANGED <<workspace, staging, source, retrying>>

\* tree_paths: the files there are now.  The copy's own directory is made
\* without its parents, so a staging directory swept by now is noticed.
TreePaths ==
  /\ client.at = "list"
  /\ IF staged.dir
     THEN /\ client' = [client EXCEPT !.at = "copy", !.todo = Present(wsFiles)]
          /\ UNCHANGED staged
     ELSE Fail
  /\ UNCHANGED <<workspace, swept, sweeps, source, retrying>>

\* The digest is taken of the copy.  Copying makes the directories it needs.
CopyFile ==
  /\ client.at = "copy" /\ client.todo # {}
  /\ \E f \in {First(client.todo)} :
       IF wsFiles[f] = Gone
       THEN Fail
       ELSE /\ staged' = [staged EXCEPT !.dir = TRUE, !.files[f] = wsFiles[f]]
            /\ client' = [client EXCEPT !.todo = @ \ {f}, !.digest[f] = wsFiles[f]]
  /\ UNCHANGED <<workspace, swept, sweeps, source, retrying>>

\* "An edit between the status probe and the copy must not produce a snapshot
\* labelled clean: probe again after copying."
ProbeStatus ==
  /\ client.at = "copy" /\ client.todo = {}
  /\ client' = [client EXCEPT !.at = "check", !.dirty = @ \/ Dirty]
  /\ UNCHANGED <<workspace, staging, source, retrying>>

ProbeSha ==
  /\ client.at = "check"
  /\ IF wsHead = client.sha
     THEN client' = [client EXCEPT !.at = "git"] /\ UNCHANGED staged
     ELSE Fail
  /\ UNCHANGED <<workspace, swept, sweeps, source, retrying>>

\* write_git_metadata makes .git, the directories above it too.
WriteGit ==
  /\ client.at = "git"
  /\ staged' = [staged EXCEPT !.dir = TRUE, !.git = TRUE]
  /\ client' = [client EXCEPT !.at = "fetch"]
  /\ UNCHANGED <<workspace, swept, sweeps, source, retrying>>

\* write_head_objects fetches HEAD, which may have moved once more.
FetchHead ==
  /\ client.at = "fetch"
  /\ IF staged.git /\ wsHead = client.sha
     THEN client' = [client EXCEPT !.at = "base"] /\ UNCHANGED staged
     ELSE Fail
  /\ UNCHANGED <<workspace, swept, sweeps, source, retrying>>

\* fetch_base fetches the commit resolve named, which stays what it is.
FetchBase ==
  /\ client.at = "base"
  /\ IF staged.git
     THEN client' = [client EXCEPT !.at = "commit"] /\ UNCHANGED staged
     ELSE Fail
  /\ UNCHANGED <<workspace, swept, sweeps, source, retrying>>

\* commit_working_tree: a dirty tree is checked out as a commit of its own.
CommitWorkingTree ==
  /\ client.at = "commit"
  /\ IF staged.git
     THEN /\ client' = [client EXCEPT !.at = "submit",
                !.commit = IF client.dirty THEN staged.files ELSE Tree[client.sha]]
          /\ UNCHANGED staged
     ELSE Fail
  /\ UNCHANGED <<workspace, swept, sweeps, source, retrying>>

\* The daemon refuses a missing snapshot and a dirty release, and moves the
\* copy into the run's directory.
Submit ==
  /\ client.at = "submit"
  /\ IF staged.git /\ ~Refuses(client.release, client.dirty)
     THEN /\ client' = [client EXCEPT !.at = "placed"]
          /\ source' = [placed |-> TRUE, files |-> staged.files]
          /\ staged' = Unmade
     ELSE Fail /\ UNCHANGED source
  /\ UNCHANGED <<workspace, swept, sweeps, retrying>>

\* Store::open of a daemon that starts: every staged copy goes.
OpenStore ==
  /\ sweeps < MaxSweeps
  /\ sweeps' = sweeps + 1
  /\ swept' = (swept \/ staged.dir)
  /\ staged' = Unmade
  /\ UNCHANGED <<workspace, client, source, retrying>>

-----------------------------------------------------------------------------
(* A retry copies the source of the finished run (copy_tree).              *)

BeginRetry ==
  /\ again.at = "idle"
  /\ source.placed /\ pruning # "ended"
  /\ again' = [again EXCEPT !.at = "copy", !.todo = Present(source.files)]
  /\ blurred' = (pruning = "begun")
  /\ UNCHANGED <<workspace, client, staging, source, pruning>>

CopyEntry ==
  /\ again.at = "copy" /\ again.todo # {}
  /\ \E f \in again.todo :
       again' = IF source.files[f] = Gone
                THEN [again EXCEPT !.at = "refused"]
                ELSE [again EXCEPT !.todo = @ \ {f}, !.files[f] = source.files[f]]
  /\ UNCHANGED <<workspace, client, staging, source, pruning, blurred>>

AdmitRetry ==
  /\ again.at = "copy" /\ again.todo = {}
  /\ again' = [again EXCEPT !.at = "placed"]
  /\ UNCHANGED <<workspace, client, staging, source, pruning, blurred>>

\* remove_source deletes entry by entry, off the state lock.
PruneSource ==
  /\ source.placed /\ pruning # "ended"
  /\ IF Present(source.files) = {}
     THEN pruning' = "ended" /\ UNCHANGED source
     ELSE /\ pruning' = "begun"
          /\ \E f \in Present(source.files) : source' = [source EXCEPT !.files[f] = Gone]
  /\ UNCHANGED <<workspace, client, staging, again, blurred>>

SourceNext ==
  \/ \E f \in Files, c \in Contents \cup {Gone} : Edit(f, c)
  \/ \E c \in Commits : Checkout(c)
  \/ \E release \in BOOLEAN : Resolve(release)
  \/ NotFound \/ ReadStatus \/ ReadSha \/ TreePaths \/ CopyFile \/ ProbeStatus \/ ProbeSha
  \/ WriteGit \/ FetchHead \/ FetchBase \/ CommitWorkingTree \/ Submit \/ OpenStore
  \/ BeginRetry \/ CopyEntry \/ AdmitRetry \/ PruneSource

SourceSpec == SourceInit /\ [][SourceNext]_srcVars

-----------------------------------------------------------------------------
Placed == client.at = "placed"
\* What the run was placed with, before any pruning.
Whole(files) == files = client.digest

\* A copy labelled clean is HEAD's tree, unless the workspace was changed and
\* changed back while it was taken (snapshot.rs, snapshot).
CleanIsHead ==
  Placed /\ ~client.dirty /\ client.digest # Tree[client.sha] => edits >= 2

\* A release runs a tree that the second probe, too, found clean
\* (provider.rs, validate, by the client and by the daemon).
ReleaseIsClean == Placed /\ client.release => ~client.dirty

\* What the job checks out is what was copied, unless a sweep came between
\* (snapshot.rs, commit_working_tree and write_git_metadata).
CheckedOutIsCopied ==
  Placed /\ client.dirty /\ ~swept => client.commit = client.digest

\* A retry's source is the run's, unless it copied while that was removed.
RetryIsWhole == again.at = "placed" /\ ~swept /\ ~blurred => Whole(again.files)

SourceHonest == CleanIsHead /\ ReleaseIsClean /\ CheckedOutIsCopied /\ RetryIsWhole
=============================================================================
