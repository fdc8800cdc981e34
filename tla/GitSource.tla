------------------------------ MODULE GitSource ------------------------------
(***************************************************************************)
(* source.Ensure: how a deployment gets the commit it builds from, with    *)
(* the working copy that stays between deployments, the repositories it    *)
(* comes from, and the environment's row, which users change at any time.  *)
(*                                                                         *)
(* The mutex of the environment is held (see DeployEngine), so there is    *)
(* one attempt at a time.  An action is one git command; any of them may   *)
(* fail or be killed at the deadline.  What git does with the commands is  *)
(* external: `fetch <url>` without a refspec brings the commits reachable  *)
(* from the repository's HEAD and moves no ref of the working copy.        *)
(***************************************************************************)
EXTENDS Naturals, FiniteSets

CONSTANTS Repos, Branches, Tags,
          Main,         \* the default branch of every repository
          Default,      \* the empty git_ref
          None,         \* no commit
          Rows,         \* what users may write: repo_url, git_ref, source_type
          MaxCommits,   \* bound: commits in all repositories
          MaxEdits      \* bound: changes to the environment

ASSUME GitSourceAssumption ==
    /\ Main \in Branches /\ Repos # {} /\ IsFiniteSet(Repos)
    /\ MaxCommits \in Nat /\ Cardinality(Repos) <= MaxCommits /\ MaxEdits \in Nat
    /\ Branches \cap Tags = {}
    /\ Default \notin Branches \cup Tags \cup Nat /\ None \notin Nat
    /\ Rows # {}
    /\ Rows \subseteq [repo : Repos, ref : Branches \cup Tags \cup Nat \cup {Default},
                        type : {"git", "dockerfile"}]

Commits == 1 .. MaxCommits
Named == Branches \cup Tags

(* What a directory env-<id> may hold: nothing, files without .git, a .git *)
(* that a killed clone left before it was a repository or before it had    *)
(* refs, or a clone.  It is locked by an index.lock or HEAD.lock that a    *)
(* killed git has left in it.                                              *)
Copies == [kind : {"absent", "files", "broken", "partial", "clone"},
           repo : Repos, refs : [Named -> Commits \cup {None}],
           objects : SUBSET Commits, head : Commits \cup {None},
           locked : BOOLEAN]

NoCopy == [kind |-> "absent", repo |-> CHOOSE r \in Repos : TRUE,
           refs |-> [n \in Named |-> None], objects |-> {}, head |-> None,
           locked |-> FALSE]

NoJob == CHOOSE row \in Rows : TRUE

VARIABLES
    remote,     \* per repository, what its branches and tags name
    history,    \* per commit, the commits reachable from it
    env,        \* the environment's row
    edits,      \* changes made to it
    copy,       \* the directory
    at,         \* where the attempt is
    job,        \* the row as the attempt read it
    fresh,      \* history: the attempt cloned
    named,      \* history: commits the ref named in the repo since Load
    atClone,    \* history: what the repo's refs named when it was cloned
    commit      \* what the attempt returned; None: an error

world == <<remote, history, env, edits>>
vars == <<world, copy, at, job, fresh, named, atClone, commit>>

TypeOK ==
    /\ remote \in [Repos -> [Named -> Commits \cup {None}]]
    /\ DOMAIN history \subseteq Commits
    /\ \A c \in DOMAIN history : history[c] \subseteq DOMAIN history
    /\ env \in Rows /\ job \in Rows
    /\ edits \in 0 .. MaxEdits
    /\ copy \in Copies
    /\ copy.head # None => copy.head \in copy.objects
    /\ copy.kind = "absent" => copy = NoCopy
    /\ at \in {"idle", "source", "checkout", "head"}
    /\ fresh \in BOOLEAN
    /\ named \subseteq Commits
    /\ atClone \in [Named -> Commits \cup {None}]
    /\ commit \in Commits \cup {None}

(* Every repository starts with one commit on its default branch.          *)
Init ==
    LET first == CHOOSE f \in [Repos -> 1 .. Cardinality(Repos)] :
                    \A r, q \in Repos : f[r] = f[q] => r = q IN
        /\ remote = [r \in Repos |-> [n \in Named |-> IF n = Main THEN first[r] ELSE None]]
        /\ history = [c \in 1 .. Cardinality(Repos) |-> {c}]
        /\ env \in Rows
        /\ edits = 0
        /\ copy = NoCopy
        /\ at = "idle"
        /\ job = NoJob
        /\ fresh = FALSE
        /\ named = {}
        /\ atClone = [n \in Named |-> None]
        /\ commit = None

-----------------------------------------------------------------------------
(* The repositories: commits are pushed, branches come and go, tags are    *)
(* set once.                                                               *)

Names(refs, r, ref) ==      \* the commits a ref stands for in a repository
    IF ref = Default THEN {refs[r][Main]}
    ELSE IF ref \in Named THEN {refs[r][ref]} \ {None} ELSE {ref} \cap Commits

SetRef(r, n, c) ==
    /\ remote' = [remote EXCEPT ![r][n] = c]
    /\ named' = IF at = "idle" THEN named
                ELSE named \cup Names(remote', job.repo, job.ref)
    /\ UNCHANGED <<env, edits, copy, at, job, fresh, atClone, commit>>

Push(r, b) ==
    LET c == Cardinality(DOMAIN history) + 1
        parent == IF remote[r][b] = None THEN remote[r][Main] ELSE remote[r][b]
    IN /\ c \in Commits
       /\ history' = [d \in DOMAIN history \cup {c} |->
                        IF d = c THEN history[parent] \cup {c} ELSE history[d]]
       /\ SetRef(r, b, c)

DeleteBranch(r, b) ==
    /\ b # Main /\ remote[r][b] # None
    /\ SetRef(r, b, None)
    /\ UNCHANGED history

SetTag(r, t) ==
    /\ remote[r][t] = None
    /\ SetRef(r, t, remote[r][Main])
    /\ UNCHANGED history

Edit(row) ==
    /\ edits < MaxEdits
    /\ row # env
    /\ edits' = edits + 1
    /\ env' = row
    /\ UNCHANGED <<remote, history, copy, at, job, fresh, named, atClone, commit>>

-----------------------------------------------------------------------------
(* A deployment.                                                           *)

Load ==
    /\ at = "idle"
    /\ at' = "source"
    /\ job' = env
    /\ named' = Names(remote, env.repo, env.ref)
    /\ fresh' = FALSE
    /\ commit' = None
    /\ UNCHANGED <<world, copy, atClone>>

(* Ensure returns an error, and what it knew goes out of scope.            *)
Stop == /\ at' = "idle"
        /\ job' = NoJob
        /\ fresh' = FALSE
        /\ named' = {}

(* An inline Dockerfile is written into the directory: no git is involved. *)
WriteDockerfile ==
    /\ at = "source" /\ job.type = "dockerfile"
    /\ copy' = IF copy.kind = "absent" THEN [copy EXCEPT !.kind = "files"] ELSE copy
    /\ Stop
    /\ UNCHANGED <<world, atClone, commit>>

Reachable(r) == UNION {history[c] : c \in {remote[r][n] : n \in Named} \ {None}}

(* Mutant: git clone --depth 1, which brings the default branch alone.     *)
ClonedShallow ==
    LET head == remote[job.repo][Main]
    IN [NoCopy EXCEPT !.kind = "clone", !.repo = job.repo, !.objects = {head},
                      !.head = head, !.refs[Main] = head]

Cloned == [kind |-> "clone", repo |-> job.repo, refs |-> remote[job.repo],
           objects |-> Reachable(job.repo), head |-> remote[job.repo][Main],
           locked |-> FALSE]

(* git clone, into a directory that must be absent or empty.               *)
CloneSucceeds ==
    /\ copy.kind = "absent"
    /\ copy' = Cloned
    /\ atClone' = remote[job.repo]
    /\ fresh' = TRUE
    /\ at' = "checkout"
    /\ UNCHANGED <<job, named>>

(* A clone that fails cleans up, or leaves a clone that it could not check *)
(* out; one that is killed (sh.Stream's CommandContext) leaves what it     *)
(* had, locks included: first come the refs, then HEAD, then the checkout. *)
KilledEarly(k, locked) ==
    /\ copy' = [NoCopy EXCEPT !.kind = k, !.repo = job.repo, !.locked = locked]
    /\ UNCHANGED atClone

KilledLate(head, locked) ==
    /\ copy' = [Cloned EXCEPT !.head = head, !.locked = locked]
    /\ atClone' = remote[job.repo]

CloneFails ==
    /\ \/ UNCHANGED <<copy, atClone>>
       \/ /\ copy.kind = "absent"
          /\ \E locked \in BOOLEAN :
                \/ \E k \in {"broken", "partial"} : KilledEarly(k, locked)
                \/ \E head \in {None, Cloned.head} : KilledLate(head, locked)
    /\ Stop

Clone ==
    /\ at = "source" /\ job.type = "git"
    /\ copy.kind \in {"absent", "files"}
    /\ CloneSucceeds \/ CloneFails
    /\ UNCHANGED <<world, commit>>

Fetched == [copy EXCEPT !.objects = @ \cup history[remote[job.repo][Main]]]

(* Mutant: a fetch that fails is a warning, and the old copy serves.       *)
FetchOrStay ==
    /\ at = "source" /\ job.type = "git"
    /\ copy.kind \in {"broken", "partial", "clone"}
    /\ copy' \in {copy, Fetched}
    /\ at' = "head"
    /\ UNCHANGED <<world, job, fresh, named, atClone, commit>>

(* git fetch --prune <url>: FETCH_HEAD and the commits behind it, which a  *)
(* fetch that is killed may have brought too.                              *)
FetchSucceeds ==
    /\ copy.kind # "broken"
    /\ copy' = Fetched
    /\ at' = "checkout"
    /\ UNCHANGED <<job, fresh, named>>

FetchFails ==
    /\ \/ UNCHANGED copy
       \/ copy.kind # "broken" /\ copy' = Fetched
    /\ Stop

Fetch ==
    /\ at = "source" /\ job.type = "git"
    /\ copy.kind \in {"broken", "partial", "clone"}
    /\ FetchSucceeds \/ FetchFails
    /\ UNCHANGED <<world, atClone, commit>>

(* Mutant: a commit is taken to be there.                                  *)
TargetUnchecked == IF job.ref \in Named THEN copy.refs[job.ref] ELSE job.ref

(* rev-parse origin/<ref>, else the ref itself: a tag or a commit.         *)
Target == IF job.ref \in Named THEN copy.refs[job.ref]
          ELSE IF job.ref \in copy.objects THEN job.ref ELSE None

(* git checkout -f <target>, which a lock in the directory stops; without  *)
(* a git_ref there is none.                                                *)
CheckoutSucceeds ==
    /\ \/ job.ref = Default /\ UNCHANGED copy
       \/ /\ job.ref # Default /\ Target # None /\ ~copy.locked
          /\ copy' = [copy EXCEPT !.head = Target]
    /\ at' = "head"
    /\ UNCHANGED <<job, fresh, named>>

(* One that is killed leaves its lock, or all but its exit done.           *)
CheckoutFails ==
    /\ job.ref # Default
    /\ \/ UNCHANGED copy
       \/ /\ Target # None /\ ~copy.locked
          /\ copy' \in {[copy EXCEPT !.locked = TRUE], [copy EXCEPT !.head = Target]}
    /\ Stop

Checkout ==
    /\ at = "checkout"
    /\ CheckoutSucceeds \/ CheckoutFails
    /\ UNCHANGED <<world, atClone, commit>>

(* git rev-parse HEAD, which a copy without commits does not have.         *)
ReadHead ==
    /\ at = "head"
    /\ \/ /\ copy.head # None
          /\ commit' = copy.head
          /\ at' = "idle"
          /\ UNCHANGED <<job, fresh, named>>
       \/ Stop /\ UNCHANGED commit
    /\ UNCHANGED <<world, copy, atClone>>

-----------------------------------------------------------------------------
Ensure == WriteDockerfile \/ Clone \/ Fetch \/ Checkout \/ ReadHead

Next == \/ \E r \in Repos : \/ \E b \in Branches : Push(r, b) \/ DeleteBranch(r, b)
                            \/ \E t \in Tags : SetTag(r, t)
        \/ \E row \in Rows : Edit(row)
        \/ Load \/ Ensure

Spec == Init /\ [][Next]_vars

(* Git commands end, by the deadline at the latest: they leave no process  *)
(* behind that keeps their output open.                                    *)
FairSpec == Spec /\ WF_vars(Ensure)

-----------------------------------------------------------------------------
(* Properties.                                                             *)

Returned == at = "idle" /\ commit # None

(* source.Ensure: what a successful attempt returns.  A commit id returns  *)
(* itself; a working copy cloned by this attempt returns what the ref      *)
(* named in the repository at some time during the attempt; an older one   *)
(* returns what a branch or tag named when it was cloned, wherever that    *)
(* was from; and without a ref, whatever was last checked out.             *)
DeployedIsTheRef ==
    Returned => \/ job.ref \in Commits /\ commit = job.ref
                \/ fresh /\ commit \in named
                \/ ~fresh /\ job.ref \in Named /\ commit = atClone[job.ref]
                \/ ~fresh /\ job.ref = Default /\ commit \in copy.objects

(* A git command fails for a reason that is not in the directory.          *)
CommandFails ==
    \/ Clone /\ copy.kind = "absent" /\ at' = "idle"
    \/ Fetch /\ copy.kind # "broken" /\ at' = "idle"
    \/ Checkout /\ Target # None /\ ~copy.locked /\ at' = "idle"
    \/ ReadHead /\ copy.head # None /\ commit' = None

(* The directory cannot serve the row: it holds files without .git, or a   *)
(* .git that is no repository; a lock is left in it that stops every       *)
(* checkout; or the ref was not there when it was cloned (if the clone was *)
(* not killed).                                                            *)
Unserviceable ==
    \/ env.type = "dockerfile" \/ copy.kind \in {"files", "broken"}
    \/ env.ref # Default /\ copy.locked
    \/ env.ref \in Named /\ atClone[env.ref] = None
    \/ env.ref = Default /\ copy.head = None
    \/ env.ref \in Commits \ copy.objects

(* source.Ensure, steps.go: whatever failed, was killed, pushed or edited  *)
(* before, once commands stop failing an environment that is deployed      *)
(* again and again gets a commit each time, unless its directory cannot    *)
(* serve its row, which no later deployment mends.                         *)
KeepsDeploying ==
    /\ <>[][~CommandFails]_vars
    /\ []<><<Load>>_vars
    => \/ []<>Returned
       \/ <>[]Unserviceable

-----------------------------------------------------------------------------
(* What the comments say and the code does not do.                         *)

(* internal/source/git.go:32 "Ensure clones repo into dir (or fetches if   *)
(* already present), checks out ref": a branch that is deployed is the     *)
(* branch as the repository has it.                                        *)
BranchIsCurrent ==
    Returned /\ job.ref \in Branches => commit \in named
=============================================================================
