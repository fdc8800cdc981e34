-------------------------- MODULE GitSource_proofs --------------------------
(***************************************************************************)
(* Proofs about GitSource, for every set of repositories, branches, tags   *)
(* and rows, and every bound on commits and edits.                         *)
(***************************************************************************)
EXTENDS GitSource, FiniteSetTheorems, TLAPS

-----------------------------------------------------------------------------
(* The inductive invariant, part by part.                                  *)

(* Commits are numbered as they come; a commit is reachable from itself,   *)
(* what a repository's refs name exists, and so does its default branch.   *)
RepositoriesAreWhole ==
    /\ DOMAIN history = 1 .. Cardinality(DOMAIN history)
    /\ Cardinality(DOMAIN history) \in Nat
    /\ \A c \in DOMAIN history : c \in history[c]
    /\ \A r \in Repos : /\ \A n \in Named : remote[r][n] \in DOMAIN history \cup {None}
                        /\ remote[r][Main] # None

(* Only a clone has refs, those of the repository at that time, and their  *)
(* commits; what is checked out is there.                                  *)
CopyIsWhole ==
    /\ copy.kind = "clone" => copy.refs = atClone
    /\ copy.kind # "clone" => \A n \in Named : copy.refs[n] = None
    /\ \A n \in Named : copy.refs[n] # None => copy.refs[n] \in copy.objects
    /\ copy.head # None => copy.head \in copy.objects

(* An attempt has not returned yet, and has seen what the ref names now.   *)
AttemptSeesTheRef ==
    /\ at # "idle" => commit = None /\ Names(remote, job.repo, job.ref) \subseteq named
    /\ at = "source" => ~fresh
    /\ at \in {"checkout", "head"} => copy.kind \in {"partial", "clone"}
    /\ fresh /\ at \in {"checkout", "head"} =>
            /\ copy.kind = "clone"
            /\ job.ref \in Named => copy.refs[job.ref] \in named \cup {None}
            /\ job.ref = Default => copy.head \in named

(* At the end the ref is checked out.                                      *)
HeadIsTheRef ==
    at = "head" => \/ job.ref = Default
                   \/ job.ref \in Named /\ copy.head = copy.refs[job.ref]
                   \/ job.ref \in Commits /\ copy.head = job.ref

Books == /\ RepositoriesAreWhole /\ CopyIsWhole /\ AttemptSeesTheRef /\ HeadIsTheRef

IInv == TypeOK /\ Books /\ DeployedIsTheRef

-----------------------------------------------------------------------------
(* Commits and what names them.                                            *)
LEMMA CommitTypes ==
  ASSUME IInv
  PROVE  /\ DOMAIN history \subseteq Commits /\ None \notin Commits
         /\ Main \in Named /\ Default \notin Named /\ Default \notin Commits
         /\ \A r \in Repos : /\ remote[r] \in [Named -> Commits \cup {None}]
                             /\ remote[r][Main] \in DOMAIN history
         /\ job.repo \in Repos /\ job.ref \in Named \cup Nat \cup {Default}
BY GitSourceAssumption DEF IInv, TypeOK, Books, RepositoriesAreWhole, Commits,
    Named

LEMMA NamesAreCommits ==
  ASSUME NEW refs, NEW r, NEW ref, refs[r] \in [Named -> Commits \cup {None}],
         refs[r][Main] \in Commits
  PROVE  Names(refs, r, ref) \subseteq Commits
BY DEF Names

LEMMA ReachableAreCommits ==
  ASSUME IInv, NEW r \in Repos
  PROVE  /\ Reachable(r) \subseteq Commits
         /\ \A n \in Named : remote[r][n] # None => remote[r][n] \in Reachable(r)
BY DEF IInv, TypeOK, Books, RepositoriesAreWhole, Reachable

(* A ref of a repository is set; commits are only added.                   *)
LEMMA SetRefKeeps ==
  ASSUME IInv, NEW r \in Repos, NEW n \in Named, NEW c \in DOMAIN history' \cup {None},
         SetRef(r, n, c), n = Main => c # None,
         DOMAIN history \subseteq DOMAIN history', DOMAIN history' \subseteq Commits,
         DOMAIN history' = 1 .. Cardinality(DOMAIN history'),
         Cardinality(DOMAIN history') \in Nat,
         \A d \in DOMAIN history' : history'[d] \subseteq DOMAIN history' /\ d \in history'[d]
  PROVE  IInv'
<1>1. /\ remote' \in [Repos -> [Named -> Commits \cup {None}]]
      /\ \A q \in Repos : /\ \A m \in Named : remote'[q][m] \in DOMAIN history' \cup {None}
                          /\ remote'[q][Main] # None
  <2>1. remote' = [remote EXCEPT ![r] = [remote[r] EXCEPT ![n] = c]]
    BY DEF SetRef
  <2>2. /\ remote \in [Repos -> [Named -> Commits \cup {None}]]
        /\ \A q \in Repos : /\ \A m \in Named : remote[q][m] \in DOMAIN history \cup {None}
                            /\ remote[q][Main] # None
    BY DEF IInv, TypeOK, Books, RepositoriesAreWhole
  <2>3. [remote[r] EXCEPT ![n] = c] \in [Named -> Commits \cup {None}]
    BY <2>2
  <2> QED
    BY <2>1, <2>2, <2>3
<1>2. RepositoriesAreWhole'
  BY <1>1 DEF RepositoriesAreWhole
<1>3. named \subseteq named' /\ named' \subseteq Commits
  <2>1. Names(remote', job.repo, job.ref) \subseteq Commits
    BY <1>1, CommitTypes, NamesAreCommits
  <2> QED
    BY <2>1 DEF SetRef, IInv, TypeOK
<1>4. TypeOK'
  BY <1>1, <1>3 DEF IInv, TypeOK, SetRef
<1>5. CopyIsWhole' /\ HeadIsTheRef'
  BY DEF IInv, Books, CopyIsWhole, HeadIsTheRef, SetRef
<1>6. AttemptSeesTheRef'
  BY <1>3 DEF IInv, Books, AttemptSeesTheRef, SetRef
<1>7. DeployedIsTheRef'
  BY <1>3 DEF IInv, DeployedIsTheRef, Returned, SetRef
<1> QED
  BY <1>2, <1>4, <1>5, <1>6, <1>7 DEF IInv, Books

LEMMA PushStep ==
  ASSUME NEW r \in Repos, NEW b \in Branches, IInv, Push(r, b)
  PROVE  IInv'
<1> DEFINE k == Cardinality(DOMAIN history)
           parent == IF remote[r][b] = None THEN remote[r][Main] ELSE remote[r][b]
<1>1. /\ k \in Nat /\ DOMAIN history = 1 .. k /\ k + 1 \in Commits
      /\ history' = [d \in DOMAIN history \cup {k + 1} |->
                        IF d = k + 1 THEN history[parent] \cup {k + 1} ELSE history[d]]
      /\ SetRef(r, b, k + 1)
  BY DEF IInv, Books, RepositoriesAreWhole, Push
<1>2. b \in Named /\ parent \in DOMAIN history
  BY CommitTypes DEF IInv, Books, RepositoriesAreWhole, Named
<1> HIDE DEF k, parent
<1>3. DOMAIN history' = 1 .. (k + 1) /\ Cardinality(DOMAIN history') = k + 1
  <2>1. DOMAIN history' = 1 .. (k + 1)
    BY <1>1
  <2>2. 1 \in Int /\ k + 1 \in Int /\ ~(1 > k + 1) /\ (k + 1) - 1 + 1 = k + 1
    BY <1>1
  <2>3. Cardinality(1 .. (k + 1)) = k + 1
    BY <2>2, FS_Interval
  <2> QED
    BY <2>1, <2>3
<1>4. \A d \in DOMAIN history' : history'[d] \subseteq DOMAIN history' /\ d \in history'[d]
  <2>1. history[parent] \subseteq DOMAIN history
    BY <1>2 DEF IInv, TypeOK
  <2>2. \A d \in DOMAIN history : history[d] \subseteq DOMAIN history /\ d \in history[d]
    BY DEF IInv, TypeOK, Books, RepositoriesAreWhole
  <2> QED
    BY <1>1, <2>1, <2>2
<1>5. DOMAIN history' \subseteq Commits /\ DOMAIN history \subseteq DOMAIN history'
  BY <1>1, CommitTypes
<1>6. k + 1 \in DOMAIN history' /\ k + 1 # None
  BY <1>1, CommitTypes
<1>7. /\ DOMAIN history' = 1 .. Cardinality(DOMAIN history')
      /\ Cardinality(DOMAIN history') \in Nat
  BY <1>1, <1>3
<1> QED
  BY <1>1, <1>2, <1>4, <1>5, <1>6, <1>7, SetRefKeeps

LEMMA SetRefAloneKeeps ==
  ASSUME IInv, NEW r \in Repos, NEW n \in Named, NEW c \in DOMAIN history \cup {None},
         SetRef(r, n, c), n = Main => c # None, UNCHANGED history
  PROVE  IInv'
<1>1. /\ DOMAIN history' = 1 .. Cardinality(DOMAIN history')
      /\ Cardinality(DOMAIN history') \in Nat
      /\ \A d \in DOMAIN history' : history'[d] \subseteq DOMAIN history' /\ d \in history'[d]
  BY DEF IInv, TypeOK, Books, RepositoriesAreWhole
<1> QED
  BY <1>1, CommitTypes, SetRefKeeps

LEMMA DeleteBranchStep ==
  ASSUME NEW r \in Repos, NEW b \in Branches, IInv, DeleteBranch(r, b)
  PROVE  IInv'
<1>1. b \in Named /\ b # Main /\ SetRef(r, b, None) /\ UNCHANGED history
  BY DEF DeleteBranch, Named
<1> QED
  BY <1>1, SetRefAloneKeeps

LEMMA SetTagStep ==
  ASSUME NEW r \in Repos, NEW t \in Tags, IInv, SetTag(r, t)
  PROVE  IInv'
<1>1. t \in Named /\ SetRef(r, t, remote[r][Main]) /\ UNCHANGED history
  BY DEF SetTag, Named
<1>2. remote[r][Main] \in DOMAIN history /\ remote[r][Main] # None
  BY CommitTypes
<1> QED
  BY <1>1, <1>2, SetRefAloneKeeps

LEMMA EditStep ==
  ASSUME NEW row \in Rows, IInv, Edit(row)
  PROVE  IInv'
<1>1. TypeOK'
  BY GitSourceAssumption DEF IInv, TypeOK, Edit
<1>2. Books'
  BY DEF IInv, Edit, Books, RepositoriesAreWhole, CopyIsWhole, AttemptSeesTheRef,
      HeadIsTheRef
<1>3. DeployedIsTheRef'
  BY DEF IInv, Edit, DeployedIsTheRef, Returned
<1> QED
  BY <1>1, <1>2, <1>3 DEF IInv

-----------------------------------------------------------------------------
(* A deployment.                                                           *)
LEMMA LoadStep ==
  ASSUME IInv, Load
  PROVE  IInv'
<1>1. env.repo \in Repos /\ env \in Rows
  BY GitSourceAssumption DEF IInv, TypeOK
<1>2. Names(remote, env.repo, env.ref) \subseteq Commits
  BY <1>1, CommitTypes, NamesAreCommits
<1>3. TypeOK'
  BY <1>1, <1>2 DEF IInv, TypeOK, Load, world
<1>4. Books'
  BY DEF IInv, Load, world, Books, RepositoriesAreWhole, CopyIsWhole,
      AttemptSeesTheRef, HeadIsTheRef
<1>5. DeployedIsTheRef'
  BY DEF Load, DeployedIsTheRef, Returned
<1> QED
  BY <1>3, <1>4, <1>5 DEF IInv

(* An attempt that fails: whatever copy it leaves must be whole.           *)
LEMMA StopKeeps ==
  ASSUME IInv, at # "idle", Stop, UNCHANGED <<world, commit>>,
         copy' \in Copies, copy.kind = "absent" \/ copy'.kind # "absent",
         copy'.kind = "absent" => copy' = NoCopy,
         atClone' \in [Named -> Commits \cup {None}], CopyIsWhole'
  PROVE  IInv'
<1>1. NoJob \in Rows
  BY GitSourceAssumption DEF NoJob
<1>2. TypeOK'
  BY <1>1 DEF IInv, TypeOK, Stop, world, CopyIsWhole
<1>3. RepositoriesAreWhole'
  BY DEF IInv, Books, RepositoriesAreWhole, world
<1>4. AttemptSeesTheRef' /\ HeadIsTheRef'
  BY DEF AttemptSeesTheRef, HeadIsTheRef, Stop
<1>5. commit' = None
  BY DEF IInv, Books, AttemptSeesTheRef
<1>6. DeployedIsTheRef'
  BY <1>5 DEF DeployedIsTheRef, Returned
<1> QED
  BY <1>2, <1>3, <1>4, <1>6 DEF IInv, Books

LEMMA WriteDockerfileStep ==
  ASSUME IInv, WriteDockerfile
  PROVE  IInv'
<1>1. CASE copy.kind # "absent"
  BY <1>1, StopKeeps DEF WriteDockerfile, IInv, TypeOK, Books, CopyIsWhole
<1>2. CASE copy.kind = "absent"
  <2>1. copy' = [copy EXCEPT !.kind = "files"] /\ atClone' = atClone
    BY <1>2 DEF WriteDockerfile
  <2>2. copy' \in Copies /\ copy'.kind = "files"
    BY <2>1 DEF IInv, TypeOK, Copies
  <2>3. CopyIsWhole'
    BY <1>2, <2>1, <2>2 DEF IInv, Books, CopyIsWhole
  <2> QED
    BY <2>1, <2>2, <2>3, StopKeeps DEF WriteDockerfile, IInv, TypeOK
<1> QED
  BY <1>1, <1>2

LEMMA ClonedIsWhole ==
  ASSUME IInv
  PROVE  /\ Cloned \in Copies /\ Cloned.kind = "clone" /\ Cloned.refs = remote[job.repo]
         /\ Cloned.head \in Cloned.objects /\ Cloned.head = remote[job.repo][Main]
         /\ \A n \in Named : Cloned.refs[n] # None => Cloned.refs[n] \in Cloned.objects
<1>1. /\ job.repo \in Repos /\ remote[job.repo] \in [Named -> Commits \cup {None}]
      /\ remote[job.repo][Main] \in Commits /\ remote[job.repo][Main] # None
      /\ Main \in Named
  BY CommitTypes
<1>2. /\ Reachable(job.repo) \subseteq Commits
      /\ \A n \in Named : remote[job.repo][n] # None
                            => remote[job.repo][n] \in Reachable(job.repo)
  BY <1>1, ReachableAreCommits
<1> QED
  BY <1>1, <1>2 DEF Cloned, Copies

(* What a killed clone leaves is as whole as it needs to be.               *)
LEMMA KilledEarlyKeeps ==
  ASSUME IInv, NEW k \in {"broken", "partial"}, NEW l \in BOOLEAN, KilledEarly(k, l)
  PROVE  CopyIsWhole' /\ copy' \in Copies /\ copy'.kind # "absent"
<1>1. job.repo \in Repos
  BY CommitTypes
<1>2. /\ copy' \in Copies /\ copy'.kind = k /\ copy'.head = None
      /\ copy'.refs = [n \in Named |-> None]
  BY <1>1 DEF KilledEarly, NoCopy, Copies
<1> QED
  BY <1>2 DEF CopyIsWhole

LEMMA KilledLateKeeps ==
  ASSUME IInv, NEW h \in {None, Cloned.head}, NEW l \in BOOLEAN, KilledLate(h, l)
  PROVE  /\ CopyIsWhole' /\ copy' \in Copies /\ copy'.kind # "absent"
         /\ atClone' \in [Named -> Commits \cup {None}]
<1>1. Cloned.head \in Commits \cup {None}
  BY ClonedIsWhole DEF Copies
<1>2. /\ copy' \in Copies /\ copy'.kind = "clone" /\ copy'.head = h
      /\ copy'.refs = remote[job.repo] /\ copy'.objects = Cloned.objects
  BY <1>1, ClonedIsWhole DEF KilledLate, Copies
<1>3. atClone' = remote[job.repo] /\ remote[job.repo] \in [Named -> Commits \cup {None}]
  BY CommitTypes DEF KilledLate
<1> QED
  BY <1>2, <1>3, ClonedIsWhole DEF CopyIsWhole

LEMMA CloneStep ==
  ASSUME IInv, Clone
  PROVE  IInv'
<1>1. CASE CloneSucceeds
  <2>1. /\ copy' = Cloned /\ atClone' = remote[job.repo] /\ fresh' = TRUE
        /\ at' = "checkout" /\ UNCHANGED <<world, commit, job, named>>
    BY <1>1 DEF CloneSucceeds, Clone
  <2>2. atClone' \in [Named -> Commits \cup {None}]
    BY <2>1, CommitTypes
  <2>3. TypeOK'
    BY <2>1, <2>2, ClonedIsWhole DEF IInv, TypeOK, world
  <2>4. RepositoriesAreWhole' /\ CopyIsWhole' /\ HeadIsTheRef'
    BY <2>1, ClonedIsWhole DEF IInv, Books, RepositoriesAreWhole, CopyIsWhole,
        HeadIsTheRef, world
  <2>5. AttemptSeesTheRef'
    <3>1. commit = None /\ Names(remote, job.repo, job.ref) \subseteq named
      BY DEF IInv, Books, AttemptSeesTheRef, Clone
    <3>2. job.ref \in Named => remote[job.repo][job.ref] \in named \cup {None}
      BY <3>1, CommitTypes DEF Names
    <3>3. job.ref = Default => remote[job.repo][Main] \in named
      BY <3>1 DEF Names
    <3> QED
      BY <2>1, <3>1, <3>2, <3>3, ClonedIsWhole DEF AttemptSeesTheRef, world
  <2>6. DeployedIsTheRef'
    BY <2>1 DEF DeployedIsTheRef, Returned
  <2> QED
    BY <2>3, <2>4, <2>5, <2>6 DEF IInv, Books
<1>2. CASE CloneFails
  <2>1. at # "idle" /\ Stop /\ UNCHANGED <<world, commit>>
    BY <1>2 DEF Clone, CloneFails
  <2>2. CASE UNCHANGED <<copy, atClone>>
    BY <2>1, <2>2, StopKeeps DEF IInv, TypeOK, Books, CopyIsWhole
  <2>3. ASSUME NEW l \in BOOLEAN, NEW k \in {"broken", "partial"}, KilledEarly(k, l)
        PROVE  IInv'
    <3>1. UNCHANGED atClone
      BY <2>3 DEF KilledEarly
    <3> QED
      BY <2>1, <2>3, <3>1, KilledEarlyKeeps, StopKeeps DEF IInv, TypeOK
  <2>4. ASSUME NEW l \in BOOLEAN, NEW h \in {None, Cloned.head}, KilledLate(h, l)
        PROVE  IInv'
    BY <2>1, <2>4, KilledLateKeeps, StopKeeps
  <2> QED
    BY <1>2, <2>2, <2>3, <2>4 DEF CloneFails
<1> QED
  BY <1>1, <1>2 DEF Clone

LEMMA FetchedIsWhole ==
  ASSUME IInv
  PROVE  /\ Fetched \in Copies /\ Fetched.kind = copy.kind /\ Fetched.refs = copy.refs
         /\ Fetched.head = copy.head /\ copy.objects \subseteq Fetched.objects
<1>1. history[remote[job.repo][Main]] \subseteq Commits
  BY CommitTypes DEF IInv, TypeOK
<1> QED
  BY <1>1 DEF IInv, TypeOK, Copies, Fetched

LEMMA FetchStep ==
  ASSUME IInv, Fetch
  PROVE  IInv'
<1>1. copy' \in {copy, Fetched}
  BY DEF Fetch, FetchSucceeds, FetchFails
<1>2. /\ copy' \in Copies /\ copy'.kind = copy.kind /\ copy'.refs = copy.refs
      /\ copy'.head = copy.head /\ copy.objects \subseteq copy'.objects
  BY <1>1, FetchedIsWhole DEF IInv, TypeOK
<1>3. UNCHANGED <<world, atClone, commit>> /\ at = "source" /\ copy.kind # "absent"
  BY DEF Fetch
<1>4. CopyIsWhole'
  BY <1>2, <1>3 DEF IInv, Books, CopyIsWhole
<1>5. CASE FetchFails
  BY <1>2, <1>3, <1>4, <1>5, StopKeeps DEF FetchFails, IInv, TypeOK
<1>6. CASE FetchSucceeds
  <2>1. TypeOK'
    BY <1>2, <1>3, <1>4, <1>6 DEF IInv, TypeOK, FetchSucceeds, world, CopyIsWhole
  <2>2. RepositoriesAreWhole' /\ HeadIsTheRef'
    BY <1>3, <1>6 DEF IInv, Books, RepositoriesAreWhole, HeadIsTheRef,
        FetchSucceeds, world
  <2>3. AttemptSeesTheRef'
    BY <1>2, <1>3, <1>6 DEF IInv, Books, AttemptSeesTheRef, Fetch, FetchSucceeds,
        world
  <2>4. DeployedIsTheRef'
    BY <1>6 DEF DeployedIsTheRef, Returned, FetchSucceeds
  <2> QED
    BY <1>4, <2>1, <2>2, <2>3, <2>4 DEF IInv, Books
<1> QED
  BY <1>5, <1>6 DEF Fetch

LEMMA CheckoutStep ==
  ASSUME IInv, Checkout
  PROVE  IInv'
<1>0. Target # None => Target \in copy.objects /\ Target \in Commits
  BY DEF Target, IInv, TypeOK, Copies, Books, CopyIsWhole
<1>1. CASE CheckoutFails
  <2>1. /\ copy' \in Copies /\ copy'.kind = copy.kind /\ copy'.refs = copy.refs
        /\ copy'.objects = copy.objects
        /\ copy'.head = copy.head \/ copy'.head \in copy.objects
    BY <1>0, <1>1 DEF CheckoutFails, IInv, TypeOK, Copies
  <2>2. CopyIsWhole'
    BY <2>1 DEF Checkout, IInv, Books, CopyIsWhole
  <2>3. copy.kind # "absent"
    BY DEF Checkout, IInv, Books, AttemptSeesTheRef
  <2> QED
    BY <1>1, <2>1, <2>2, <2>3, StopKeeps DEF Checkout, CheckoutFails, IInv, TypeOK
<1>2. CASE job.ref = Default /\ UNCHANGED <<copy, job, fresh, named>> /\ at' = "head"
  <2>1. TypeOK'
    BY <1>2 DEF IInv, TypeOK, Checkout, world
  <2>2. RepositoriesAreWhole' /\ CopyIsWhole' /\ HeadIsTheRef'
    BY <1>2 DEF IInv, Books, RepositoriesAreWhole, CopyIsWhole, HeadIsTheRef,
        Checkout, world
  <2>3. AttemptSeesTheRef'
    BY <1>2 DEF IInv, Books, AttemptSeesTheRef, Checkout, world
  <2>4. DeployedIsTheRef'
    BY <1>2 DEF DeployedIsTheRef, Returned
  <2> QED
    BY <2>1, <2>2, <2>3, <2>4 DEF IInv, Books
<1>3. CASE /\ job.ref # Default /\ Target # None /\ copy' = [copy EXCEPT !.head = Target]
           /\ UNCHANGED <<job, fresh, named>> /\ at' = "head"
  <2>1. Target \in copy.objects /\ Target \in Commits
    BY <1>0, <1>3
  <2>2. \/ job.ref \in Named /\ Target = copy.refs[job.ref]
        \/ job.ref \in Commits /\ Target = job.ref
    BY <1>3, <2>1 DEF Target
  <2>3. /\ copy' \in Copies /\ copy'.kind = copy.kind /\ copy'.refs = copy.refs
        /\ copy'.head = Target /\ copy'.objects = copy.objects
    BY <1>3, <2>1 DEF IInv, TypeOK, Copies
  <2>4. TypeOK'
    BY <1>3, <2>1, <2>3 DEF IInv, TypeOK, Books, AttemptSeesTheRef, Checkout,
        world
  <2>5. RepositoriesAreWhole' /\ CopyIsWhole' /\ HeadIsTheRef'
    BY <1>3, <2>1, <2>2, <2>3 DEF IInv, Books, RepositoriesAreWhole, CopyIsWhole,
        HeadIsTheRef, Checkout, world
  <2>6. AttemptSeesTheRef'
    BY <1>3, <2>3 DEF IInv, Books, AttemptSeesTheRef, Checkout, world
  <2>7. DeployedIsTheRef'
    BY <1>3 DEF DeployedIsTheRef, Returned
  <2> QED
    BY <2>4, <2>5, <2>6, <2>7 DEF IInv, Books
<1> QED
  BY <1>1, <1>2, <1>3 DEF Checkout, CheckoutSucceeds

LEMMA ReadHeadStep ==
  ASSUME IInv, ReadHead
  PROVE  IInv'
<1>1. CASE Stop /\ UNCHANGED commit
  BY <1>1, StopKeeps DEF ReadHead, IInv, TypeOK, Books, CopyIsWhole
<1>2. CASE /\ copy.head # None /\ commit' = copy.head /\ at' = "idle"
           /\ UNCHANGED <<job, fresh, named>>
  <2>1. TypeOK'
    BY <1>2 DEF IInv, TypeOK, Copies, ReadHead, world
  <2>2. Books'
    BY <1>2 DEF IInv, Books, RepositoriesAreWhole, CopyIsWhole, AttemptSeesTheRef,
        HeadIsTheRef, ReadHead, world
  <2>3. DeployedIsTheRef'
    <3>1. /\ at = "head" /\ UNCHANGED <<copy, atClone>>
      BY DEF ReadHead
    <3>2. CASE job.ref = Default
      BY <1>2, <3>1, <3>2 DEF IInv, Books, AttemptSeesTheRef, CopyIsWhole,
          DeployedIsTheRef
    <3>3. CASE job.ref \in Named /\ copy.head = copy.refs[job.ref]
      BY <1>2, <3>1, <3>3 DEF IInv, Books, AttemptSeesTheRef, CopyIsWhole,
          DeployedIsTheRef
    <3>4. CASE job.ref \in Commits /\ copy.head = job.ref
      BY <1>2, <3>1, <3>4 DEF DeployedIsTheRef
    <3> QED
      BY <3>1, <3>2, <3>3, <3>4 DEF IInv, Books, HeadIsTheRef
  <2> QED
    BY <2>1, <2>2, <2>3 DEF IInv
<1> QED
  BY <1>1, <1>2 DEF ReadHead

-----------------------------------------------------------------------------
(* The invariant holds in every reachable state.                           *)
LEMMA FirstCommits ==
  \E f \in [Repos -> 1 .. Cardinality(Repos)] :
      \A r, q \in Repos : f[r] = f[q] => r = q
<1>1. Cardinality(Repos) \in Nat
  BY GitSourceAssumption, FS_CardinalityType
<1>2. /\ IsFiniteSet(1 .. Cardinality(Repos))
      /\ Cardinality(1 .. Cardinality(Repos)) = Cardinality(Repos)
  BY <1>1, FS_Interval
<1>3. ExistsBijection(Repos, 1 .. Cardinality(Repos))
  BY <1>2, GitSourceAssumption, FS_SameCardinalityBij
<1> QED
  BY <1>3 DEF ExistsBijection, Bijection, Injection, IsInjective

LEMMA InitEstablishes == Init => IInv
<1> SUFFICES ASSUME Init
             PROVE  IInv
  OBVIOUS
<1> DEFINE n == Cardinality(Repos)
           first == CHOOSE f \in [Repos -> 1 .. n] :
                        \A r, q \in Repos : f[r] = f[q] => r = q
<1>1. n \in Nat /\ 1 .. n \subseteq Commits /\ Main \in Named /\ None \notin Commits
  BY GitSourceAssumption, FS_CardinalityType DEF Commits, Named
<1>2. first \in [Repos -> 1 .. n]
  BY FirstCommits
<1>3. /\ remote = [r \in Repos |-> [m \in Named |-> IF m = Main THEN first[r] ELSE None]]
      /\ history = [c \in 1 .. n |-> {c}]
  BY DEF Init
<1> HIDE DEF first
<1>4. Cardinality(DOMAIN history) = n
  BY <1>1, <1>3, FS_Interval
<1>5. RepositoriesAreWhole
  BY <1>1, <1>2, <1>3, <1>4 DEF RepositoriesAreWhole
<1>6. NoCopy \in Copies /\ NoCopy.kind = "absent" /\ NoCopy.head = None
      /\ NoCopy.refs = [m \in Named |-> None]
  BY GitSourceAssumption DEF NoCopy, Copies
<1>7. NoJob \in Rows
  BY GitSourceAssumption DEF NoJob
<1>8. TypeOK
  <2>1. remote \in [Repos -> [Named -> Commits \cup {None}]]
    BY <1>1, <1>2, <1>3
  <2>2. /\ DOMAIN history \subseteq Commits
        /\ \A c \in DOMAIN history : history[c] \subseteq DOMAIN history
    BY <1>1, <1>3
  <2>3. env \in Rows /\ job \in Rows /\ edits \in 0 .. MaxEdits
    BY <1>7, GitSourceAssumption DEF Init
  <2>4. copy = NoCopy /\ at = "idle" /\ fresh = FALSE /\ named = {} /\ commit = None
        /\ atClone \in [Named -> Commits \cup {None}]
    BY DEF Init
  <2> QED
    BY <1>6, <2>1, <2>2, <2>3, <2>4 DEF TypeOK
<1>9. CopyIsWhole /\ AttemptSeesTheRef /\ HeadIsTheRef
  BY <1>6 DEF CopyIsWhole, AttemptSeesTheRef, HeadIsTheRef, Init
<1>10. DeployedIsTheRef
  BY DEF DeployedIsTheRef, Returned, Init
<1> QED
  BY <1>5, <1>8, <1>9, <1>10 DEF IInv, Books

LEMMA StutterPreserves ==
  ASSUME IInv, UNCHANGED vars
  PROVE  IInv'
<1> USE DEF vars, world
<1>1. TypeOK'
  BY DEF IInv, TypeOK
<1>2. Books'
  BY DEF IInv, Books, RepositoriesAreWhole, CopyIsWhole, AttemptSeesTheRef,
      HeadIsTheRef
<1>3. DeployedIsTheRef'
  BY DEF IInv, DeployedIsTheRef, Returned
<1> QED
  BY <1>1, <1>2, <1>3 DEF IInv

LEMMA StepPreserves ==
  ASSUME IInv, [Next]_vars
  PROVE  IInv'
<1>1. ASSUME NEW r \in Repos,
             \/ \E b \in Branches : Push(r, b) \/ DeleteBranch(r, b)
             \/ \E t \in Tags : SetTag(r, t)
      PROVE  IInv'
  BY <1>1, PushStep, DeleteBranchStep, SetTagStep
<1>2. CASE \E row \in Rows : Edit(row)
  BY <1>2, EditStep
<1>3. CASE Load \/ Ensure
  BY <1>3, LoadStep, WriteDockerfileStep, CloneStep, FetchStep, CheckoutStep,
      ReadHeadStep DEF Ensure
<1>4. CASE UNCHANGED vars
  BY <1>4, StutterPreserves
<1> QED
  BY <1>1, <1>2, <1>3, <1>4 DEF Next

LEMMA Invariance == Spec => []IInv
BY InitEstablishes, StepPreserves, PTL DEF Spec

(* Every variable keeps its type, and what a clone has checked out is one  *)
(* of its commits.                                                         *)
THEOREM TypeCorrectness == Spec => []TypeOK
<1>1. IInv => TypeOK
  BY DEF IInv
<1> QED
  BY <1>1, Invariance, PTL

(* source.Ensure returns the commit that was asked for, a commit the ref   *)
(* named while a fresh clone was made, or what the ref named when the old  *)
(* working copy was cloned.                                                *)
THEOREM EnsureReturnsTheRef == Spec => []DeployedIsTheRef
<1>1. IInv => DeployedIsTheRef
  BY DEF IInv
<1> QED
  BY <1>1, Invariance, PTL

(* An attempt that has begun returns nothing until it ends, and it knows   *)
(* every commit that its ref named meanwhile: the history variable named   *)
(* is what the other theorem takes it to be.                               *)
THEOREM AttemptsSeeTheRef == Spec => []AttemptSeesTheRef
<1>1. IInv => AttemptSeesTheRef
  BY DEF IInv, Books
<1> QED
  BY <1>1, Invariance, PTL
=============================================================================
