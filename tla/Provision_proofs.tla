-------------------------- MODULE Provision_proofs --------------------------
(***************************************************************************)
(* Proofs about Provision, for every set of clients, bundles, declared     *)
(* environments and new names, and every bound.                            *)
(***************************************************************************)
EXTENDS Provision, SequenceTheorems, TLAPS

-----------------------------------------------------------------------------
(* The inductive invariant, part by part.                                  *)

Fields == {"at", "kind", "bundle", "item", "name", "n", "id", "hook", "gone"}

AtHooks(w) == work[w].at = "hooks"

(* The shape of the rows, of the history and of what a worker remembers.   *)
Shapes ==
    /\ DOMAIN work = Workers
    /\ \A w \in Workers : /\ DOMAIN work[w] = Fields
                          /\ work[w].hook \in Nat /\ work[w].gone \in BOOLEAN
    /\ \A id \in DOMAIN rows : DOMAIN rows[id] = {"name", "hooks"}
    /\ origin \in Seq(Items) /\ Len(origin) = nextId - 1

(* The process's own worker loads Declared for nobody who could leave.     *)
BootLoads ==
    /\ ~work[Boot].gone
    /\ ~Up => work[Boot].kind = "boot" /\ work[Boot].bundle = Declared
    /\ work[Boot].at \in {"name", "insert"} =>
            work[Boot].name = Declared[work[Boot].item].name
    /\ work[Boot].at = "insert" => work[Boot].name # NoName
    /\ \A c \in Clients : work[c].kind # "boot"

(* Whoever adds hooks has an environment of its own, and a client that has *)
(* left it has left a mark.                                                *)
OwnEnvironment ==
    /\ \A w \in Workers : AtHooks(w) =>
            /\ work[w].id \in 1 .. (nextId - 1)
            /\ work[w].hook \in 1 .. (Len(Item(w).hooks) + 1)
            /\ work[w].gone => work[w].id \in cut
    /\ \A w, v \in Workers :
            AtHooks(w) /\ AtHooks(v) /\ work[w].id = work[v].id => w = v

(* It has added its item's hooks as far as it has come.                    *)
HooksSoFar ==
    \A w \in Workers : AtHooks(w) /\ work[w].id \in DOMAIN rows \ cut =>
        rows[work[w].id].hooks = {Item(w).hooks[k] : k \in 1 .. (work[w].hook - 1)}

(* A declared name that is free was given up as often as it was made.      *)
LoadsAreUsedUp == \A d \in DeclaredNames : Free(d) => loads[d] <= freed[d]

(* What the loading has passed is there; it goes on before anybody may     *)
(* give a name up.                                                         *)
Passed(k) ==
    \/ k < work[Boot].item
    \/ k = work[Boot].item /\ AtHooks(Boot)

LoadedSoFar ==
    ~Up => \A k \in DOMAIN Declared :
                Passed(k) /\ Declared[k].name # NoName => ~Free(Declared[k].name)

Books == /\ Shapes /\ BootLoads /\ OwnEnvironment /\ HooksSoFar /\ LoadsAreUsedUp
         /\ LoadedSoFar

IInv == /\ TypeOK /\ Books
        /\ MadeIsComplete /\ DeclaredOnce /\ DeclaredIsThere

-----------------------------------------------------------------------------
(* What a worker is at.                                                    *)

WorkTyped(w) ==
    /\ DOMAIN work[w] = Fields
    /\ work[w].hook \in Nat /\ work[w].gone \in BOOLEAN
    /\ work[w].at \in {"idle", "name", "insert", "hooks"}
    /\ work[w].kind \in {"create", "import", "boot"}
    /\ work[w].bundle \in Asked \cup {<<>>}
    /\ work[w].at # "idle" => work[w].item \in DOMAIN work[w].bundle

(* Only w moves.                                                           *)
Moves(w) == /\ DOMAIN work' = Workers
            /\ \A v \in Workers \ {w} : work'[v] = work[v]

LEMMA BundleTyped ==
  ASSUME NEW b \in Asked \cup {<<>>}
  PROVE  /\ b \in Seq(Items) /\ Len(b) \in Nat /\ DOMAIN b = 1 .. Len(b)
         /\ b # <<>> => 1 \in DOMAIN b
         /\ \A i \in DOMAIN b : b[i] \in Items
<1>1. b \in Seq(Items)
  BY ProvisionAssumption, EmptySeq
<1> QED
  BY <1>1

LEMMA HooksTyped ==
  ASSUME NEW i \in Items
  PROVE  /\ i.hooks \in Seq(Range(i.hooks)) /\ Len(i.hooks) \in Nat
         /\ DOMAIN i.hooks = 1 .. Len(i.hooks)
         /\ Hooks(i) = {i.hooks[k] : k \in 1 .. Len(i.hooks)}
<1>1. i.hooks \in Seq(Range(i.hooks))
  BY ProvisionAssumption
<1>2. Len(i.hooks) \in Nat /\ DOMAIN i.hooks = 1 .. Len(i.hooks)
  BY <1>1
<1> QED
  BY <1>1, <1>2 DEF Hooks, Range

LEMMA WorkerTyped ==
  ASSUME IInv, NEW w \in Workers
  PROVE  WorkTyped(w) /\ w \in DOMAIN work
BY DEF IInv, TypeOK, Books, Shapes, WorkTyped

LEMMA ItemTyped ==
  ASSUME NEW w, WorkTyped(w), work[w].at # "idle"
  PROVE  /\ work[w].bundle \in Asked /\ work[w].item \in 1 .. Len(work[w].bundle)
         /\ Len(work[w].bundle) \in Nat
         /\ Item(w) \in Items
<1>1. work[w].bundle # <<>>
  BY DEF WorkTyped
<1> QED
  BY <1>1, BundleTyped DEF WorkTyped, Item

LEMMA IdleTyped ==
  ASSUME NEW w, work[w] = Idle
  PROVE  WorkTyped(w) /\ work[w].at = "idle" /\ work[w].kind = "create" /\ ~work[w].gone
BY DEF WorkTyped, Idle, Fields

LEMMA LoadingIs ==
  /\ DOMAIN Loading = Fields /\ Loading.hook \in Nat /\ Loading.gone = FALSE
  /\ Loading.kind = "boot" /\ Loading.bundle = Declared
  /\ Declared = <<>> => Loading.at = "idle"
  /\ Declared # <<>> => /\ Loading.at = "name" /\ Loading.item = 1
                        /\ Loading.name = Declared[1].name
BY DEF Loading, Idle, Fields

LEMMA LoadingTyped ==
  ASSUME NEW w, work[w] = Loading
  PROVE  WorkTyped(w) /\ work[w].at \in {"idle", "name"}
<1>1. Declared \in Asked /\ (Declared # <<>> => 1 \in DOMAIN Declared)
  BY DEF Asked
<1> QED
  BY <1>1, LoadingIs DEF WorkTyped

(* Goto moves a worker on with what it remembers.                          *)
LEMMA GotoIs ==
  ASSUME IInv, NEW w \in Workers, NEW p, Goto(w, p)
  PROVE  /\ Moves(w) /\ DOMAIN work'[w] = Fields /\ work'[w].at = p
         /\ \A f \in Fields \ {"at"} : work'[w][f] = work[w][f]
BY DEF Goto, Moves, IInv, Books, Shapes

(* NextItem ends the bundle or begins its next item.                       *)
LEMMA NextItemIs ==
  ASSUME IInv, NEW w \in Workers, work[w].at # "idle", NextItem(w)
  PROVE  /\ Moves(w)
         /\ \/ work'[w] = Idle /\ work[w].item = Len(work[w].bundle)
            \/ /\ DOMAIN work'[w] = Fields
               /\ work'[w].at = "name" /\ work'[w].hook = 0
               /\ work'[w].kind = work[w].kind /\ work'[w].bundle = work[w].bundle
               /\ work'[w].gone = work[w].gone /\ work'[w].item = work[w].item + 1
               /\ work'[w].item \in DOMAIN work[w].bundle
               /\ w = Boot => work'[w].name = work[w].bundle[work'[w].item].name
<1>1. WorkTyped(w) /\ w \in DOMAIN work /\ DOMAIN work = Workers
  BY WorkerTyped DEF IInv, Books, Shapes
<1>2. /\ work[w].item \in 1 .. Len(work[w].bundle) /\ Len(work[w].bundle) \in Nat
      /\ DOMAIN work[w].bundle = 1 .. Len(work[w].bundle)
  BY <1>1, ItemTyped
<1>3. CASE work[w].item + 1 > Len(work[w].bundle)
  BY <1>1, <1>2, <1>3 DEF NextItem, Moves
<1>4. CASE ~(work[w].item + 1 > Len(work[w].bundle))
  BY <1>1, <1>2, <1>4 DEF NextItem, Moves, WorkTyped
<1> QED
  BY <1>3, <1>4

LEMMA NextItemTyped ==
  ASSUME IInv, NEW w \in Workers, work[w].at # "idle", NextItem(w)
  PROVE  WorkTyped(w)' /\ ~AtHooks(w)'
<1>1. WorkTyped(w)
  BY WorkerTyped
<1>2. CASE work'[w] = Idle
  BY <1>2 DEF WorkTyped, AtHooks, Idle, Fields
<1>3. CASE work'[w] # Idle
  BY <1>1, <1>3, NextItemIs DEF WorkTyped, AtHooks
<1> QED
  BY <1>2, <1>3

-----------------------------------------------------------------------------
(* A worker that moves without a row being touched.                        *)

BoundsTyped == /\ restarts \in 0 .. MaxRestarts
               /\ edits \in 0 .. MaxEdits /\ requests \in 0 .. MaxRequests

LEMMA QuietMove ==
  ASSUME IInv, NEW w \in Workers, Moves(w), UNCHANGED <<store, history>>,
         ~AtHooks(w), ~AtHooks(w)', WorkTyped(w)', BoundsTyped',
         BootLoads', LoadedSoFar', DeclaredIsThere'
  PROVE  IInv'
<1> USE DEF store, history
<1>1. \A v \in Workers : WorkTyped(v)'
  <2> SUFFICES ASSUME NEW v \in Workers, v # w
               PROVE  WorkTyped(v)'
    OBVIOUS
  <2>1. WorkTyped(v) /\ work'[v] = work[v]
    BY WorkerTyped DEF Moves
  <2> QED
    BY <2>1 DEF WorkTyped
<1>2. /\ \A v \in Workers : AtHooks(v)' <=> AtHooks(v)
      /\ \A v \in Workers : AtHooks(v) => work'[v] = work[v]
  BY DEF Moves, AtHooks
<1>3. TypeOK'
  BY <1>1, <1>2 DEF IInv, TypeOK, AtHooks, WorkTyped, BoundsTyped
<1>4. Shapes'
  BY <1>1 DEF IInv, Books, Shapes, WorkTyped, Moves
<1>5. OwnEnvironment' /\ HooksSoFar'
  <2>1. \A v \in Workers : AtHooks(v) => Item(v)' = Item(v)
    BY <1>2 DEF Item
  <2>2. OwnEnvironment'
    BY <1>2, <2>1 DEF IInv, Books, OwnEnvironment
  <2>3. HooksSoFar'
    BY <1>2, <2>1 DEF IInv, Books, HooksSoFar
  <2> QED
    BY <2>2, <2>3
<1>6. LoadsAreUsedUp' /\ DeclaredOnce'
  BY DEF IInv, Books, LoadsAreUsedUp, DeclaredOnce, Free
<1>7. MadeIsComplete'
  BY <1>2 DEF IInv, MadeIsComplete, AtHooks
<1> QED
  BY <1>3, <1>4, <1>5, <1>6, <1>7 DEF IInv, Books

LEMMA ClientMoves ==
  ASSUME IInv, NEW c \in Clients, Moves(c), work'[c].kind # "boot",
         UNCHANGED <<rows, lost>>
  PROVE  BootLoads' /\ LoadedSoFar' /\ DeclaredIsThere'
<1>1. Boot \in Workers /\ work'[Boot] = work[Boot]
  BY ProvisionAssumption DEF Moves, Workers
<1>2. BootLoads'
  BY <1>1 DEF IInv, Books, BootLoads, Up, Moves, Workers
<1>3. LoadedSoFar' /\ DeclaredIsThere'
  BY <1>1 DEF IInv, Books, LoadedSoFar, DeclaredIsThere, Up, Passed, AtHooks, Free
<1> QED
  BY <1>2, <1>3

LEMMA BootIs ==
  ASSUME IInv, ~Up
  PROVE  /\ Boot \in Workers /\ work[Boot].at # "idle" /\ ~work[Boot].gone
         /\ work[Boot].kind = "boot" /\ work[Boot].bundle = Declared
         /\ work[Boot].item \in DOMAIN Declared
         /\ DOMAIN Declared = 1 .. Len(Declared) /\ Len(Declared) \in Nat
         /\ Item(Boot) = Declared[work[Boot].item]
<1>1. Boot \in Workers /\ WorkTyped(Boot)
  BY WorkerTyped DEF Workers
<1>2. Declared \in Asked
  BY DEF Asked
<1> QED
  BY <1>1, <1>2 DEF IInv, Books, BootLoads, WorkTyped, Up, Item

(* Who is at a bundle and is not the process's own worker is a client.     *)
LEMMA WorkerOfKind ==
  ASSUME IInv, NEW w \in Workers, work[w].at # "idle"
  PROVE  IF w = Boot THEN work[w].kind = "boot" /\ ~Up
         ELSE w \in Clients /\ work[w].kind # "boot"
BY DEF IInv, Books, BootLoads, Workers, Up

(* The loading goes on to the next item, or ends.                          *)
LEMMA BootNext ==
  ASSUME IInv, ~Up, NextItem(Boot), UNCHANGED <<rows, lost>>,
         Declared[work[Boot].item].name # NoName
            => ~Free(Declared[work[Boot].item].name)
  PROVE  BootLoads' /\ LoadedSoFar' /\ DeclaredIsThere'
<1> DEFINE b == work[Boot]
<1>1. /\ Boot \in Workers /\ b.at # "idle" /\ ~b.gone
      /\ b.kind = "boot" /\ b.bundle = Declared
      /\ b.item \in DOMAIN Declared
      /\ DOMAIN Declared = 1 .. Len(Declared) /\ Len(Declared) \in Nat
  BY BootIs
<1>2. \A c \in Clients : work'[c] = work[c]
  BY <1>1, NextItemIs, ProvisionAssumption DEF Moves, Workers
<1>3. \A k \in DOMAIN Declared : k <= b.item /\ Declared[k].name # NoName
                                    => ~Free(Declared[k].name)
  BY <1>1 DEF IInv, Books, LoadedSoFar, Passed
<1>4. \A x : Free(x)' <=> Free(x)
  BY DEF Free
<1>5. CASE work'[Boot] = Idle /\ b.item = Len(Declared)
  <2>1. work'[Boot].at = "idle" /\ ~work'[Boot].gone
    BY <1>5 DEF Idle
  <2>2. BootLoads' /\ LoadedSoFar'
    BY <1>2, <2>1 DEF IInv, Books, BootLoads, LoadedSoFar, Up
  <2>3. ASSUME NEW d \in DeclaredNames
        PROVE  ~Free(d)
    <3>1. PICK k \in DOMAIN Declared : d = Declared[k].name
      BY DEF DeclaredNames, Range
    <3>2. d # NoName /\ k <= b.item
      BY <1>1, <1>5, <3>1 DEF DeclaredNames
    <3> QED
      BY <1>3, <3>1, <3>2
  <2> QED
    BY <1>4, <2>2, <2>3 DEF DeclaredIsThere
<1>6. CASE /\ work'[Boot].at = "name"
           /\ work'[Boot].kind = b.kind /\ work'[Boot].bundle = b.bundle
           /\ work'[Boot].gone = b.gone /\ work'[Boot].item = b.item + 1
           /\ work'[Boot].name = b.bundle[work'[Boot].item].name
  <2>1. BootLoads'
    BY <1>1, <1>2, <1>6 DEF IInv, Books, BootLoads
  <2>2. LoadedSoFar'
    <3>1. \A k \in DOMAIN Declared : Passed(k)' => k <= b.item
      BY <1>1, <1>6 DEF Passed, AtHooks
    <3> QED
      BY <1>3, <1>4, <3>1 DEF LoadedSoFar
  <2>3. DeclaredIsThere'
    BY <1>6 DEF DeclaredIsThere, Up
  <2> QED
    BY <2>1, <2>2, <2>3
<1> QED
  BY <1>1, <1>5, <1>6, NextItemIs

-----------------------------------------------------------------------------
(* The actions that touch no row.                                          *)
LEMMA ImportStep ==
  ASSUME NEW c \in Clients, NEW b \in Bundles, IInv, Import(c, b)
  PROVE  IInv'
<1>1. c \in Workers /\ WorkTyped(c) /\ c \in DOMAIN work /\ DOMAIN work = Workers
  BY WorkerTyped DEF Workers, IInv, Books, Shapes
<1>2. b \in Asked /\ 1 \in DOMAIN b
  BY DEF Asked, Import
<1>3. /\ work'[c].at = "name" /\ work'[c].kind = "import" /\ WorkTyped(c)'
      /\ Moves(c)
  BY <1>1, <1>2 DEF Import, Idle, WorkTyped, Fields, Moves
<1>4. BootLoads' /\ LoadedSoFar' /\ DeclaredIsThere'
  BY <1>3, ClientMoves DEF Import, store, history
<1>5. BoundsTyped'
  BY ProvisionAssumption DEF IInv, TypeOK, BoundsTyped, Import, Ask
<1> QED
  BY <1>1, <1>3, <1>4, <1>5, QuietMove DEF Import, AtHooks

LEMMA CreateStep ==
  ASSUME NEW c \in Clients, NEW b \in Bundles, IInv, Create(c, b)
  PROVE  IInv'
<1>1. c \in Workers /\ WorkTyped(c) /\ c \in DOMAIN work /\ DOMAIN work = Workers
  BY WorkerTyped DEF Workers, IInv, Books, Shapes
<1>2. b \in Asked /\ 1 \in DOMAIN b
  BY DEF Asked, Create
<1>3. /\ work'[c].at = "insert" /\ work'[c].kind = "create" /\ WorkTyped(c)'
      /\ Moves(c)
  BY <1>1, <1>2 DEF Create, Idle, WorkTyped, Fields, Moves
<1>4. BootLoads' /\ LoadedSoFar' /\ DeclaredIsThere'
  BY <1>3, ClientMoves DEF Create, store, history
<1>5. BoundsTyped'
  BY ProvisionAssumption DEF IInv, TypeOK, BoundsTyped, Create, Ask
<1> QED
  BY <1>1, <1>3, <1>4, <1>5, QuietMove DEF Create, AtHooks

LEMMA UniqueEnvNameStep ==
  ASSUME NEW w \in Workers, IInv, UniqueEnvName(w)
  PROVE  IInv'
<1>1. WorkTyped(w) /\ w \in DOMAIN work /\ DOMAIN work = Workers
  BY WorkerTyped DEF IInv, Books, Shapes
<1>2. /\ Moves(w) /\ DOMAIN work'[w] = Fields /\ work'[w].at \in {"name", "insert"}
      /\ \A f \in Fields \ {"at", "n", "name"} : work'[w][f] = work[w][f]
  <2>1. CASE Goto(w, "insert")
    BY <2>1, GotoIs
  <2>2. CASE ~Goto(w, "insert")
    BY <1>1, <2>2 DEF UniqueEnvName, Moves, WorkTyped, Fields
  <2> QED
    BY <2>1, <2>2
<1>3. work'[w].kind = "import" /\ WorkTyped(w)'
  BY <1>1, <1>2 DEF UniqueEnvName, WorkTyped, Fields
<1>4. w \in Clients
  BY WorkerOfKind DEF UniqueEnvName
<1>5. BootLoads' /\ LoadedSoFar' /\ DeclaredIsThere'
  BY <1>2, <1>3, <1>4, ClientMoves DEF UniqueEnvName, store, history
<1>6. BoundsTyped'
  BY DEF IInv, TypeOK, BoundsTyped, UniqueEnvName, bounds
<1> QED
  BY <1>2, <1>3, <1>5, <1>6, QuietMove DEF UniqueEnvName, AtHooks

LEMMA LookUpStep ==
  ASSUME NEW w \in Workers, IInv, LookUp(w)
  PROVE  IInv'
<1>1. w = Boot /\ ~Up
  BY WorkerOfKind DEF LookUp
<1>2. BoundsTyped'
  BY DEF IInv, TypeOK, BoundsTyped, LookUp, bounds
<1>3. WorkTyped(w) /\ work[w].name = Declared[work[w].item].name
  BY <1>1, WorkerTyped DEF IInv, Books, BootLoads, LookUp
<1>4. CASE work[w].name # NoName /\ Free(work[w].name)
  <2>1. /\ Moves(w) /\ DOMAIN work'[w] = Fields /\ work'[w].at = "insert"
        /\ \A f \in Fields \ {"at"} : work'[w][f] = work[w][f]
    BY <1>4, GotoIs DEF LookUp
  <2>2. WorkTyped(w)' /\ ~AtHooks(w)'
    BY <1>3, <2>1 DEF LookUp, WorkTyped, Fields, AtHooks
  <2>3. BootLoads'
    <3>1. \A c \in Clients : work'[c] = work[c]
      BY <1>1, <2>1, ProvisionAssumption DEF Moves, Workers
    <3>2. /\ work'[Boot].kind = "boot" /\ work'[Boot].bundle = Declared
          /\ ~work'[Boot].gone /\ work'[Boot].name = work[Boot].name
          /\ work'[Boot].item = work[Boot].item
      BY <1>1, <2>1, BootIs DEF Fields
    <3> QED
      BY <1>1, <1>3, <1>4, <2>1, <3>1, <3>2 DEF IInv, Books, BootLoads
  <2>4. LoadedSoFar' /\ DeclaredIsThere'
    <3>1. work'[Boot].item = work[Boot].item /\ work'[Boot].at = "insert"
      BY <1>1, <2>1 DEF Fields
    <3>2. \A k \in DOMAIN Declared : Passed(k)' => Passed(k)
      BY <3>1 DEF Passed, AtHooks
    <3> QED
      BY <1>1, <3>1, <3>2 DEF IInv, Books, LoadedSoFar, DeclaredIsThere, Up, Free,
          LookUp, store
  <2> QED
    BY <1>2, <2>1, <2>2, <2>3, <2>4, QuietMove DEF LookUp, AtHooks
<1>5. CASE ~(work[w].name # NoName /\ Free(work[w].name))
  <2>1. NextItem(w) /\ UNCHANGED <<store, history>>
    BY <1>5 DEF LookUp
  <2>2. BootLoads' /\ LoadedSoFar' /\ DeclaredIsThere'
    BY <1>1, <1>3, <1>5, <2>1, BootNext DEF store, history
  <2>3. WorkTyped(w)' /\ ~AtHooks(w)' /\ Moves(w)
    BY <2>1, NextItemTyped, NextItemIs DEF LookUp
  <2> QED
    BY <1>2, <2>1, <2>2, <2>3, QuietMove DEF LookUp, AtHooks
<1> QED
  BY <1>4, <1>5

LEMMA RefusedStep ==
  ASSUME NEW w \in Workers, IInv, Refused(w)
  PROVE  IInv'
<1>1. BoundsTyped'
  BY DEF IInv, TypeOK, BoundsTyped, Refused, bounds
<1>2. CASE w = Boot
  <2>1. NextItem(w) /\ UNCHANGED <<store, history>> /\ ~Up
    BY <1>2 DEF Refused, Up
  <2>2. ~Free(Declared[work[w].item].name)
    BY <1>2 DEF IInv, Books, BootLoads, Refused
  <2>3. BootLoads' /\ LoadedSoFar' /\ DeclaredIsThere'
    BY <1>2, <2>1, <2>2, BootNext DEF store, history
  <2>4. WorkTyped(w)' /\ ~AtHooks(w)' /\ Moves(w)
    BY <2>1, NextItemTyped, NextItemIs DEF Refused
  <2> QED
    BY <1>1, <2>1, <2>3, <2>4, QuietMove DEF Refused, AtHooks
<1>3. CASE w # Boot
  <2>1. w \in Clients
    BY <1>3 DEF Workers
  <2>2. Moves(w) /\ work'[w] = Idle
    BY <1>3 DEF Refused, Moves, IInv, Books, Shapes
  <2>3. WorkTyped(w)' /\ ~AtHooks(w)' /\ work'[w].kind # "boot"
    BY <2>2 DEF WorkTyped, AtHooks, Idle, Fields
  <2>4. BootLoads' /\ LoadedSoFar' /\ DeclaredIsThere'
    BY <2>1, <2>2, <2>3, ClientMoves DEF Refused, store, history
  <2> QED
    BY <1>1, <2>2, <2>3, <2>4, QuietMove DEF Refused, AtHooks
<1> QED
  BY <1>2, <1>3

-----------------------------------------------------------------------------
(* Names given up.                                                         *)
LEMMA GivenUpKeeps ==
  ASSUME IInv, Up, NEW id \in DOMAIN rows, GivenUp(rows[id].name),
         UNCHANGED <<work, loads>>,
         \A jd \in DOMAIN rows \ {id} : jd \in DOMAIN rows' /\ rows'[jd].name = rows[jd].name
  PROVE  /\ freed' \in [DeclaredNames -> Nat] /\ lost' \subseteq DeclaredNames
         /\ edits' \in 0 .. MaxEdits
         /\ DeclaredOnce' /\ LoadsAreUsedUp' /\ DeclaredIsThere'
         /\ BootLoads' /\ LoadedSoFar'
<1>1. freed' \in [DeclaredNames -> Nat] /\ lost' \subseteq DeclaredNames
  BY DEF IInv, TypeOK, GivenUp
<1>2. edits' \in 0 .. MaxEdits
  BY ProvisionAssumption DEF IInv, TypeOK, GivenUp
<1>3. ASSUME NEW d \in DeclaredNames
      PROVE  /\ loads'[d] \in Nat /\ freed[d] \in Nat
             /\ loads'[d] = loads[d]
             /\ freed'[d] = IF d = rows[id].name THEN freed[d] + 1 ELSE freed[d]
  BY DEF IInv, TypeOK, GivenUp
<1>4. ASSUME NEW d \in DeclaredNames
      PROVE  loads'[d] <= 1 + freed'[d]
  BY <1>3 DEF IInv, DeclaredOnce
<1>5. ASSUME NEW d, d # rows[id].name
      PROVE  ~Free(d) => ~Free(d)'
  BY <1>5 DEF Free
<1>6. LoadsAreUsedUp'
  <2> SUFFICES ASSUME NEW d \in DeclaredNames, Free(d)'
               PROVE  loads'[d] <= freed'[d]
    BY DEF LoadsAreUsedUp
  <2>1. CASE d = rows[id].name
    BY <1>3, <2>1 DEF IInv, DeclaredOnce
  <2>2. CASE d # rows[id].name
    BY <1>3, <1>5, <2>2 DEF IInv, Books, LoadsAreUsedUp
  <2> QED
    BY <2>1, <2>2
<1>7. DeclaredIsThere'
  <2>1. ASSUME NEW d \in DeclaredNames \ lost'
        PROVE  ~Free(d)'
    <3>1. d \notin lost /\ d # rows[id].name
      BY DEF GivenUp
    <3> QED
      BY <1>5, <3>1 DEF IInv, DeclaredIsThere
  <2> QED
    BY <2>1 DEF DeclaredIsThere
<1>8. BootLoads' /\ LoadedSoFar'
  BY DEF IInv, Books, BootLoads, LoadedSoFar, Up
<1> QED
  BY <1>1, <1>2, <1>4, <1>6, <1>7, <1>8 DEF DeclaredOnce

LEMMA DeleteStep ==
  ASSUME IInv, NEW id \in DOMAIN rows, Delete(id)
  PROVE  IInv'
<1>1. /\ DOMAIN rows' = DOMAIN rows \ {id}
      /\ \A jd \in DOMAIN rows \ {id} : rows'[jd] = rows[jd]
  BY DEF Delete, Restrict
<1>2. /\ freed' \in [DeclaredNames -> Nat] /\ lost' \subseteq DeclaredNames
      /\ edits' \in 0 .. MaxEdits
      /\ DeclaredOnce' /\ LoadsAreUsedUp' /\ DeclaredIsThere'
      /\ BootLoads' /\ LoadedSoFar'
  BY <1>1, GivenUpKeeps DEF Delete
<1>3. TypeOK'
  <2>1. /\ DOMAIN rows' \subseteq DOMAIN rows
        /\ \A jd \in DOMAIN rows' : rows'[jd] = rows[jd]
    BY <1>1
  <2>2. /\ \A jd \in DOMAIN rows' : rows'[jd].hooks \subseteq Hooks(origin[jd])
        /\ \A jd, kd \in DOMAIN rows' : rows'[jd].name = rows'[kd].name => jd = kd
    BY <2>1 DEF IInv, TypeOK
  <2> QED
    BY <1>2, <2>1, <2>2 DEF IInv, TypeOK, Delete
<1>4. Shapes'
  BY <1>1 DEF IInv, Books, Shapes, Delete
<1>5. OwnEnvironment' /\ HooksSoFar'
  <2>1. OwnEnvironment'
    BY DEF IInv, Books, OwnEnvironment, Item, AtHooks, Delete
  <2>2. HooksSoFar'
    <3>1. work' = work /\ cut' = cut /\ DOMAIN rows' \subseteq DOMAIN rows
      BY <1>1 DEF Delete
    <3>2. \A jd \in DOMAIN rows' : rows'[jd] = rows[jd]
      BY <1>1
    <3> QED
      BY <3>1, <3>2 DEF IInv, Books, HooksSoFar, Item, AtHooks
  <2> QED
    BY <2>1, <2>2
<1>6. MadeIsComplete'
  BY <1>1 DEF IInv, MadeIsComplete, Delete
<1> QED
  BY <1>2, <1>3, <1>4, <1>5, <1>6 DEF IInv, Books

LEMMA RenameStep ==
  ASSUME IInv, NEW id \in DOMAIN rows, NEW name \in NewNames, Rename(id, name)
  PROVE  IInv'
<1>1. /\ DOMAIN rows' = DOMAIN rows
      /\ \A jd \in DOMAIN rows \ {id} : rows'[jd] = rows[jd]
      /\ DOMAIN rows'[id] = {"name", "hooks"}
      /\ rows'[id].name = name /\ rows'[id].hooks = rows[id].hooks
  BY DEF Rename, IInv, Books, Shapes
<1>2. /\ freed' \in [DeclaredNames -> Nat] /\ lost' \subseteq DeclaredNames
      /\ edits' \in 0 .. MaxEdits
      /\ DeclaredOnce' /\ LoadsAreUsedUp' /\ DeclaredIsThere'
      /\ BootLoads' /\ LoadedSoFar'
  BY <1>1, GivenUpKeeps DEF Rename
<1>3. \A jd \in DOMAIN rows : rows'[jd].hooks = rows[jd].hooks
  BY <1>1
<1>4. \A jd, kd \in DOMAIN rows' : rows'[jd].name = rows'[kd].name => jd = kd
  BY <1>1 DEF IInv, TypeOK, Rename, Free
<1>5. TypeOK'
  BY <1>1, <1>2, <1>3, <1>4 DEF IInv, TypeOK, Rename
<1>6. Shapes'
  BY <1>1 DEF IInv, Books, Shapes, Rename
<1>7. OwnEnvironment' /\ HooksSoFar'
  BY <1>1, <1>3 DEF IInv, Books, OwnEnvironment, HooksSoFar, Item, AtHooks, Rename
<1>8. MadeIsComplete'
  BY <1>1, <1>3 DEF IInv, MadeIsComplete, Rename
<1> QED
  BY <1>2, <1>5, <1>6, <1>7, <1>8 DEF IInv, Books

LEMMA LeaveStep ==
  ASSUME NEW c \in Clients, IInv, Leave(c)
  PROVE  IInv'
<1> USE DEF store
<1>1. c \in Workers /\ WorkTyped(c) /\ c \in DOMAIN work /\ DOMAIN work = Workers
  BY WorkerTyped DEF Workers, IInv, Books, Shapes
<1>2. /\ Moves(c) /\ DOMAIN work'[c] = Fields /\ work'[c].gone = TRUE
      /\ \A f \in Fields \ {"gone"} : work'[c][f] = work[c][f]
  BY <1>1 DEF Leave, Moves, WorkTyped
<1>3. WorkTyped(c)' /\ work'[c].kind # "boot"
  BY <1>1, <1>2 DEF IInv, Books, BootLoads, WorkTyped, Fields
<1>4. BootLoads' /\ LoadedSoFar' /\ DeclaredIsThere'
  BY <1>2, <1>3, ClientMoves DEF Leave
<1>5. \A v \in Workers : WorkTyped(v)'
  <2> SUFFICES ASSUME NEW v \in Workers, v # c
               PROVE  WorkTyped(v)'
    BY <1>3
  <2>1. WorkTyped(v) /\ work'[v] = work[v]
    BY <1>2, WorkerTyped DEF Moves
  <2> QED
    BY <2>1 DEF WorkTyped
<1>6. \A v \in Workers : /\ work'[v].at = work[v].at /\ work'[v].id = work[v].id
                         /\ work'[v].hook = work[v].hook /\ Item(v)' = Item(v)
                         /\ work'[v].bundle = work[v].bundle
                         /\ work'[v].item = work[v].item
                         /\ work'[v].gone => work[v].gone \/ v = c
  BY <1>2 DEF Moves, Fields, Item
<1>7. /\ cut \subseteq cut' /\ cut' \subseteq DOMAIN origin
      /\ AtHooks(c) => work[c].id \in cut'
  <2>1. AtHooks(c) => work[c].id \in DOMAIN origin
    BY <1>1 DEF IInv, TypeOK, Books, OwnEnvironment
  <2> QED
    BY <2>1 DEF IInv, TypeOK, Leave, AtHooks
<1>8. TypeOK'
  BY <1>5, <1>6, <1>7 DEF IInv, TypeOK, Leave, bounds
<1>9. Shapes'
  BY <1>2, <1>5 DEF IInv, Books, Shapes, WorkTyped, Leave
<1>10. OwnEnvironment' /\ HooksSoFar'
  <2>1. OwnEnvironment'
    BY <1>6, <1>7 DEF IInv, Books, OwnEnvironment, AtHooks, Leave
  <2>2. HooksSoFar'
    BY <1>6, <1>7 DEF IInv, Books, HooksSoFar, AtHooks, Leave
  <2> QED
    BY <2>1, <2>2
<1>11. LoadsAreUsedUp' /\ DeclaredOnce'
  BY DEF IInv, Books, LoadsAreUsedUp, DeclaredOnce, Free, Leave
<1>12. MadeIsComplete'
  BY <1>6, <1>7 DEF IInv, MadeIsComplete, Leave
<1> QED
  BY <1>4, <1>8, <1>9, <1>10, <1>11, <1>12 DEF IInv, Books

LEMMA CrashStep ==
  ASSUME IInv, Crash
  PROVE  IInv'
<1> USE DEF store
<1>1. /\ DOMAIN work' = Workers /\ work'[Boot] = Loading
      /\ \A c \in Clients : work'[c] = Idle
  BY ProvisionAssumption DEF Crash, Workers
<1>2. \A v \in Workers : WorkTyped(v)' /\ ~AtHooks(v)'
  <2>1. ASSUME NEW c \in Clients
        PROVE  WorkTyped(c)' /\ ~AtHooks(c)'
    <3>1. work'[c] = Idle
      BY <1>1
    <3> QED
      BY <3>1 DEF WorkTyped, AtHooks, Idle, Fields
  <2>2. WorkTyped(Boot)' /\ ~AtHooks(Boot)'
    <3>1. Declared \in Asked /\ (Declared # <<>> => 1 \in DOMAIN Declared)
      BY DEF Asked
    <3> QED
      BY <1>1, <3>1, LoadingIs DEF WorkTyped, AtHooks
  <2> QED
    BY <2>1, <2>2 DEF Workers
<1>3. cut \subseteq cut' /\ cut' \subseteq DOMAIN origin
  BY DEF IInv, TypeOK, Books, OwnEnvironment, Crash, AtHooks
<1>4. restarts' \in 0 .. MaxRestarts
  BY ProvisionAssumption DEF IInv, TypeOK, Crash
<1>5. TypeOK'
  BY <1>2, <1>3, <1>4 DEF IInv, TypeOK, WorkTyped, AtHooks, Crash
<1>6. Shapes'
  BY <1>1, <1>2 DEF IInv, Books, Shapes, WorkTyped, Crash
<1>7. OwnEnvironment' /\ HooksSoFar'
  BY <1>2 DEF OwnEnvironment, HooksSoFar
<1>8. LoadsAreUsedUp' /\ DeclaredOnce'
  BY DEF IInv, Books, LoadsAreUsedUp, DeclaredOnce, Free, Crash
<1>9. BootLoads'
  <2>1. \A c \in Clients : work'[c].kind # "boot"
    BY <1>1 DEF Idle
  <2> QED
    BY <1>1, <2>1, LoadingIs DEF BootLoads
<1>10. Len(Declared) \in Nat /\ DOMAIN Declared = 1 .. Len(Declared)
  OBVIOUS
<1>11. LoadedSoFar'
  BY <1>1, <1>10, LoadingIs DEF LoadedSoFar, Passed, AtHooks
<1>12. DeclaredIsThere'
  <2>1. CASE Declared = <<>>
    BY <2>1 DEF DeclaredIsThere, DeclaredNames, Range
  <2>2. CASE Declared # <<>>
    BY <1>1, <2>2, LoadingIs DEF DeclaredIsThere, Up
  <2> QED
    BY <2>1, <2>2
<1>13. MadeIsComplete'
  <2>1. \A id \in DOMAIN rows \ cut' :
            ~\E w \in Workers : work[w].at = "hooks" /\ work[w].id = id
    BY DEF Crash
  <2> QED
    BY <1>3, <2>1 DEF IInv, MadeIsComplete, Crash
<1> QED
  BY <1>5, <1>6, <1>7, <1>8, <1>9, <1>11, <1>12, <1>13 DEF IInv, Books

-----------------------------------------------------------------------------
(* CreateEnvironment: a row with a new id and a name that was free.        *)
LEMMA InsertedRow ==
  ASSUME NEW w \in Workers, IInv, Insert(w)
  PROVE  /\ nextId \in Nat \ {0} /\ nextId \notin DOMAIN rows /\ nextId' = nextId + 1
         /\ DOMAIN rows' = DOMAIN rows \cup {nextId}
         /\ rows'[nextId] = [name |-> work[w].name, hooks |-> {}]
         /\ \A id \in DOMAIN rows : rows'[id] = rows[id]
         /\ \A x : Free(x)' <=> Free(x) /\ x # work[w].name
         /\ Item(w) \in Items /\ origin' \in Seq(Items) /\ Len(origin') = nextId
         /\ origin'[nextId] = Item(w)
         /\ DOMAIN origin = 1 .. (nextId - 1) /\ DOMAIN origin' = 1 .. nextId
         /\ \A id \in 1 .. (nextId - 1) : origin'[id] = origin[id]
<1>1. nextId \in Nat \ {0} /\ nextId \notin DOMAIN rows /\ nextId' = nextId + 1
  BY DEF IInv, TypeOK, Insert, Inserted
<1>2. /\ DOMAIN rows' = DOMAIN rows \cup {nextId}
      /\ rows'[nextId] = [name |-> work[w].name, hooks |-> {}]
      /\ \A id \in DOMAIN rows : rows'[id] = rows[id]
  BY <1>1 DEF Insert, Inserted
<1>3. \A x : Free(x)' <=> Free(x) /\ x # work[w].name
  BY <1>2 DEF Free
<1>4. Item(w) \in Items
  BY WorkerTyped, ItemTyped DEF Insert
<1>5. /\ origin' \in Seq(Items) /\ Len(origin') = nextId /\ origin'[nextId] = Item(w)
      /\ DOMAIN origin = 1 .. (nextId - 1) /\ DOMAIN origin' = 1 .. nextId
      /\ \A id \in 1 .. (nextId - 1) : origin'[id] = origin[id]
  <2>1. origin \in Seq(Items) /\ Len(origin) = nextId - 1 /\ origin' = Append(origin, Item(w))
    BY DEF IInv, Books, Shapes, Insert, Inserted
  <2> QED
    BY <1>1, <1>4, <2>1
<1> QED
  BY <1>1, <1>2, <1>3, <1>4, <1>5

LEMMA InsertStep ==
  ASSUME NEW w \in Workers, IInv, Insert(w)
  PROVE  IInv'
<1>1. /\ nextId \in Nat \ {0} /\ nextId \notin DOMAIN rows /\ nextId' = nextId + 1
      /\ DOMAIN rows' = DOMAIN rows \cup {nextId}
      /\ rows'[nextId] = [name |-> work[w].name, hooks |-> {}]
      /\ \A id \in DOMAIN rows : rows'[id] = rows[id]
      /\ \A x : Free(x)' <=> Free(x) /\ x # work[w].name
  BY InsertedRow
<1>2. /\ Item(w) \in Items /\ origin' \in Seq(Items) /\ Len(origin') = nextId
      /\ origin'[nextId] = Item(w)
      /\ DOMAIN origin = 1 .. (nextId - 1) /\ DOMAIN origin' = 1 .. nextId
      /\ \A id \in 1 .. (nextId - 1) : origin'[id] = origin[id]
  BY InsertedRow
<1>3. /\ WorkTyped(w) /\ Moves(w) /\ DOMAIN work'[w] = Fields
      /\ work'[w].at = "hooks" /\ work'[w].id = nextId /\ work'[w].hook = 1
      /\ \A f \in Fields \ {"at", "id", "hook"} : work'[w][f] = work[w][f]
  <2>1. WorkTyped(w) /\ w \in DOMAIN work /\ DOMAIN work = Workers
    BY WorkerTyped DEF IInv, Books, Shapes
  <2> QED
    BY <2>1 DEF Insert, Inserted, Moves, WorkTyped, Fields
<1>4. /\ work'[w].kind = work[w].kind /\ work'[w].bundle = work[w].bundle
      /\ work'[w].item = work[w].item /\ work'[w].name = work[w].name
      /\ work'[w].gone = FALSE /\ Item(w)' = Item(w)
  BY <1>3 DEF Fields, Item, Insert
<1>5. \A v \in Workers : WorkTyped(v)'
  <2> SUFFICES ASSUME NEW v \in Workers
               PROVE  WorkTyped(v)'
    OBVIOUS
  <2>1. CASE v = w
    <3>1. work[w].at # "idle"
      BY DEF Insert
    <3>2. /\ work[w].kind \in {"create", "import", "boot"}
          /\ work[w].bundle \in Asked \cup {<<>>}
          /\ work[w].item \in DOMAIN work[w].bundle
      BY <1>3, <3>1 DEF WorkTyped
    <3>3. work'[w].hook \in Nat
      BY <1>3
    <3>4. work'[w].gone \in BOOLEAN
      BY <1>4
    <3> QED
      BY <1>3, <1>4, <2>1, <3>2, <3>3, <3>4 DEF WorkTyped
  <2>2. CASE v # w
    <3>1. WorkTyped(v) /\ work'[v] = work[v]
      BY <1>3, <2>2, WorkerTyped DEF Moves
    <3> QED
      BY <3>1 DEF WorkTyped
  <2> QED
    BY <2>1, <2>2
<1>6. /\ \A v \in Workers \ {w} : work'[v] = work[v] /\ Item(v)' = Item(v)
      /\ ~AtHooks(w) /\ AtHooks(w)'
      /\ \A v \in Workers : AtHooks(v) => work[v].id \in 1 .. (nextId - 1)
  BY <1>3 DEF Moves, Item, AtHooks, Insert, IInv, Books, OwnEnvironment
<1>7. /\ loads' \in [DeclaredNames -> Nat]
      /\ \A d \in DeclaredNames : loads'[d] = IF w = Boot /\ d = Item(w).name
                                              THEN loads[d] + 1 ELSE loads[d]
  BY DEF IInv, TypeOK, Insert, Inserted
<1>8. TypeOK'
  <2>1. /\ DOMAIN rows' \subseteq 1 .. (nextId' - 1)
        /\ DOMAIN origin' = 1 .. (nextId' - 1)
    BY <1>1, <1>2 DEF IInv, TypeOK
  <2>2. \A id \in DOMAIN rows' : rows'[id].hooks \subseteq Hooks(origin'[id])
    BY <1>1, <1>2 DEF IInv, TypeOK
  <2>3. \A id, jd \in DOMAIN rows' : rows'[id].name = rows'[jd].name => id = jd
    BY <1>1 DEF IInv, TypeOK, Insert, Free
  <2>4. \A v \in Workers : work'[v].at = "hooks" =>
            origin'[work'[v].id] = work'[v].bundle[work'[v].item]
    <3> SUFFICES ASSUME NEW v \in Workers, work'[v].at = "hooks"
                 PROVE  origin'[work'[v].id] = work'[v].bundle[work'[v].item]
      OBVIOUS
    <3>1. CASE v = w
      BY <1>2, <1>3, <1>4, <3>1 DEF Item
    <3>2. CASE v # w
      BY <1>2, <1>6, <3>2 DEF IInv, TypeOK, AtHooks
    <3> QED
      BY <3>1, <3>2
  <2>5. triggered' \subseteq DOMAIN origin' /\ cut' \subseteq DOMAIN origin'
    BY <1>2 DEF IInv, TypeOK, Insert
  <2> QED
    BY <1>1, <1>5, <1>7, <2>1, <2>2, <2>3, <2>4, <2>5 DEF IInv, TypeOK, WorkTyped,
        Insert, bounds
<1>9. Shapes'
  BY <1>1, <1>2, <1>3, <1>5 DEF IInv, Books, Shapes, WorkTyped, Moves
<1>10. OwnEnvironment'
  <2>1. Len(Item(w).hooks) \in Nat
    BY <1>2
  <2> QED
    BY <1>1, <1>3, <1>4, <1>6, <2>1 DEF IInv, Books, OwnEnvironment, AtHooks,
        Insert
<1>11. HooksSoFar'
  <2> SUFFICES ASSUME NEW v \in Workers, AtHooks(v)',
                      work'[v].id \in DOMAIN rows' \ cut'
               PROVE  rows'[work'[v].id].hooks =
                        {Item(v)'.hooks[k] : k \in 1 .. (work'[v].hook - 1)}
    BY DEF HooksSoFar
  <2>1. CASE v = w
    BY <1>1, <1>3, <2>1
  <2>2. CASE v # w
    <3>1. /\ work'[v] = work[v] /\ Item(v)' = Item(v) /\ AtHooks(v)
          /\ work[v].id \in DOMAIN rows \ cut
      BY <1>1, <1>6, <2>2 DEF AtHooks, Insert
    <3> QED
      BY <1>1, <3>1 DEF IInv, Books, HooksSoFar
  <2> QED
    BY <2>1, <2>2
<1>12. w = Boot => work[w].name = Item(w).name
  BY BootIs, WorkerOfKind DEF IInv, Books, BootLoads, Insert
<1>13. LoadsAreUsedUp' /\ DeclaredOnce'
  <2> SUFFICES ASSUME NEW d \in DeclaredNames
               PROVE  /\ Free(d)' => loads'[d] <= freed'[d]
                      /\ loads'[d] <= 1 + freed'[d]
    BY DEF LoadsAreUsedUp, DeclaredOnce
  <2>1. loads[d] \in Nat /\ freed[d] \in Nat /\ freed' = freed
    BY DEF IInv, TypeOK, Insert
  <2>2. loads[d] <= 1 + freed[d] /\ (Free(d) => loads[d] <= freed[d])
    BY DEF IInv, DeclaredOnce, Books, LoadsAreUsedUp
  <2>3. CASE w = Boot /\ d = Item(w).name
    BY <1>1, <1>7, <1>12, <2>1, <2>2, <2>3 DEF Insert
  <2>4. CASE ~(w = Boot /\ d = Item(w).name)
    BY <1>1, <1>7, <2>1, <2>2, <2>4
  <2> QED
    BY <2>3, <2>4
<1>14. BootLoads' /\ LoadedSoFar' /\ DeclaredIsThere'
  <2>1. \A c \in Clients : work'[c].kind # "boot"
    BY <1>4, <1>6 DEF IInv, Books, BootLoads, Workers
  <2>2. CASE w = Boot
    <3>1. BootLoads'
      BY <1>3, <1>4, <2>1, <2>2, BootIs, WorkerOfKind DEF BootLoads, Insert
    <3>2. \A k \in DOMAIN Declared : Passed(k)' => Passed(k) \/ k = work[Boot].item
      BY <1>4, <2>2 DEF Passed
    <3>3. LoadedSoFar'
      BY <1>1, <1>12, <2>2, <3>2, BootIs, WorkerOfKind DEF IInv, Books,
          LoadedSoFar, Insert
    <3>4. DeclaredIsThere'
      BY <1>3, <2>2 DEF DeclaredIsThere, Up
    <3> QED
      BY <3>1, <3>3, <3>4
  <2>3. CASE w # Boot
    <3>1. Boot \in Workers /\ work'[Boot] = work[Boot]
      BY <1>6, <2>3 DEF Workers
    <3> QED
      BY <1>1, <2>1, <3>1 DEF IInv, Books, BootLoads, LoadedSoFar,
          DeclaredIsThere, Passed, AtHooks, Up, Insert
  <2> QED
    BY <2>2, <2>3
<1>15. MadeIsComplete'
  <2> SUFFICES ASSUME NEW id \in DOMAIN rows' \ cut'
               PROVE  \/ \E v \in Workers : work'[v].at = "hooks" /\ work'[v].id = id
                      \/ /\ rows'[id].hooks = Hooks(origin'[id])
                         /\ origin'[id].auto => id \in triggered'
    BY DEF MadeIsComplete
  <2>1. CASE id = nextId
    BY <1>3, <2>1
  <2>2. CASE id # nextId
    <3>1. /\ id \in DOMAIN rows \ cut /\ rows'[id] = rows[id] /\ id \in 1 .. (nextId - 1)
          /\ triggered' = triggered
      BY <1>1, <2>2 DEF IInv, TypeOK, Insert
    <3>2. \A v \in Workers : AtHooks(v) => work'[v] = work[v]
      BY <1>6
    <3> QED
      BY <1>2, <3>1, <3>2 DEF IInv, MadeIsComplete, AtHooks
  <2> QED
    BY <2>1, <2>2
<1> QED
  BY <1>8, <1>9, <1>10, <1>11, <1>13, <1>14, <1>15 DEF IInv, Books

-----------------------------------------------------------------------------
(* CreateTimedHook: the item's next hook is added, or its error ignored.   *)
LEMMA CreateTimedHookStep ==
  ASSUME NEW w \in Workers, IInv, CreateTimedHook(w)
  PROVE  IInv'
<1> DEFINE id == work[w].id
           hook == Item(w).hooks[work[w].hook]
<1>1. WorkTyped(w) /\ w \in DOMAIN work /\ DOMAIN work = Workers /\ AtHooks(w)
  BY WorkerTyped DEF IInv, Books, Shapes, CreateTimedHook, AtHooks
<1>2. /\ Item(w) \in Items /\ Len(Item(w).hooks) \in Nat
      /\ Hooks(Item(w)) = {Item(w).hooks[k] : k \in 1 .. Len(Item(w).hooks)}
      /\ work[w].hook \in 1 .. Len(Item(w).hooks)
  <2>1. Item(w) \in Items
    BY <1>1, ItemTyped DEF AtHooks
  <2>2. work[w].hook \in 1 .. (Len(Item(w).hooks) + 1)
    BY <1>1 DEF IInv, Books, OwnEnvironment
  <2> QED
    BY <2>1, <2>2, HooksTyped DEF CreateTimedHook
<1>3. /\ Moves(w) /\ DOMAIN work'[w] = Fields /\ work'[w].hook = work[w].hook + 1
      /\ \A f \in Fields \ {"hook"} : work'[w][f] = work[w][f]
  BY <1>1 DEF CreateTimedHook, Moves, WorkTyped
<1>4. \A v \in Workers : /\ work'[v].at = work[v].at /\ work'[v].id = work[v].id
                         /\ work'[v].kind = work[v].kind /\ work'[v].name = work[v].name
                         /\ work'[v].bundle = work[v].bundle
                         /\ work'[v].item = work[v].item
                         /\ work'[v].gone = work[v].gone /\ Item(v)' = Item(v)
  BY <1>3 DEF Moves, Fields, Item
<1>5. \A v \in Workers : WorkTyped(v)'
  <2> SUFFICES ASSUME NEW v \in Workers
               PROVE  WorkTyped(v)'
    OBVIOUS
  <2>1. WorkTyped(v)
    BY WorkerTyped
  <2>2. DOMAIN work'[v] = Fields /\ work'[v].hook \in Nat
    BY <1>1, <1>2, <1>3, <2>1 DEF Moves, WorkTyped
  <2> QED
    BY <1>4, <2>1, <2>2 DEF WorkTyped
<1>6. /\ DOMAIN rows' = DOMAIN rows
      /\ \A jd \in DOMAIN rows : /\ DOMAIN rows'[jd] = {"name", "hooks"}
                                 /\ rows'[jd].name = rows[jd].name
                                 /\ jd # id => rows'[jd] = rows[jd]
      /\ id \in DOMAIN rows => rows'[id].hooks =
            IF work[w].gone THEN rows[id].hooks ELSE rows[id].hooks \cup {hook}
  <2>1. CASE work[w].gone \/ id \notin DOMAIN rows
    BY <2>1 DEF CreateTimedHook, IInv, Books, Shapes
  <2>2. CASE ~(work[w].gone \/ id \notin DOMAIN rows)
    <3>1. rows' = [rows EXCEPT ![id].hooks = @ \cup {hook}]
      BY <2>2 DEF CreateTimedHook
    <3>2. \A jd \in DOMAIN rows : DOMAIN rows[jd] = {"name", "hooks"}
      BY DEF IInv, Books, Shapes
    <3> QED
      BY <2>2, <3>1, <3>2
  <2> QED
    BY <2>1, <2>2
<1>7. \A x : Free(x)' <=> Free(x)
  BY <1>6 DEF Free
<1>8. TypeOK'
  <2>1. \A jd \in DOMAIN rows' : rows'[jd].hooks \subseteq Hooks(origin'[jd])
    <3>1. id \in DOMAIN rows => hook \in Hooks(origin[id])
      BY <1>1, <1>2 DEF IInv, TypeOK, AtHooks, Item
    <3> QED
      BY <1>6, <3>1 DEF IInv, TypeOK, CreateTimedHook, history
  <2>2. \A jd, kd \in DOMAIN rows' : rows'[jd].name = rows'[kd].name => jd = kd
    BY <1>6 DEF IInv, TypeOK
  <2> QED
    BY <1>4, <1>5, <1>6, <2>1, <2>2 DEF IInv, TypeOK, CreateTimedHook, history,
        bounds
<1>9. Shapes'
  BY <1>3, <1>5, <1>6 DEF IInv, Books, Shapes, CreateTimedHook, history
<1>10. OwnEnvironment'
  <2>1. \A v \in Workers \ {w} : work'[v].hook = work[v].hook
    BY <1>3 DEF Moves
  <2>2. work'[w].hook \in 1 .. (Len(Item(w).hooks) + 1)
    BY <1>2, <1>3
  <2> QED
    BY <1>4, <2>1, <2>2 DEF IInv, Books, OwnEnvironment, AtHooks, CreateTimedHook,
        history
<1>11. HooksSoFar'
  <2> SUFFICES ASSUME NEW v \in Workers, AtHooks(v), work[v].id \in DOMAIN rows \ cut
               PROVE  rows'[work[v].id].hooks =
                        {Item(v).hooks[k] : k \in 1 .. (work'[v].hook - 1)}
    BY <1>4, <1>6 DEF HooksSoFar, AtHooks, CreateTimedHook, history
  <2>1. rows[work[v].id].hooks = {Item(v).hooks[k] : k \in 1 .. (work[v].hook - 1)}
    BY DEF IInv, Books, HooksSoFar
  <2>2. CASE v = w
    <3>1. ~work[w].gone
      BY <2>2, <1>1 DEF IInv, Books, OwnEnvironment
    <3>2. 1 .. work[w].hook = 1 .. (work[w].hook - 1) \cup {work[w].hook}
      BY <1>2
    <3>3. rows'[id].hooks = {Item(w).hooks[k] : k \in 1 .. work[w].hook}
      BY <1>6, <2>1, <2>2, <3>1, <3>2
    <3>4. work'[w].hook - 1 = work[w].hook
      BY <1>2, <1>3
    <3> QED
      BY <2>2, <3>3, <3>4
  <2>3. CASE v # w
    <3>1. work[v].id # id /\ work'[v] = work[v]
      BY <1>1, <1>3, <2>3 DEF IInv, Books, OwnEnvironment, Moves
    <3> QED
      BY <1>6, <2>1, <3>1
  <2> QED
    BY <2>2, <2>3
<1>12. LoadsAreUsedUp' /\ DeclaredOnce' /\ DeclaredIsThere'
  BY <1>4, <1>7 DEF IInv, Books, LoadsAreUsedUp, DeclaredOnce, DeclaredIsThere,
      Up, CreateTimedHook, history
<1>13. BootLoads' /\ LoadedSoFar'
  <2>1. Boot \in Workers /\ Clients \subseteq Workers
    BY DEF Workers
  <2> QED
    BY <1>4, <1>7, <2>1 DEF IInv, Books, BootLoads, LoadedSoFar, Passed, AtHooks,
        Up
<1>14. MadeIsComplete'
  <2> SUFFICES ASSUME NEW jd \in DOMAIN rows \ cut,
                      ~\E v \in Workers : work[v].at = "hooks" /\ work[v].id = jd
               PROVE  /\ rows'[jd].hooks = Hooks(origin[jd])
                      /\ origin[jd].auto => jd \in triggered
    BY <1>4, <1>6 DEF MadeIsComplete, CreateTimedHook, history
  <2>1. jd # id
    BY <1>1 DEF AtHooks
  <2> QED
    BY <1>6, <2>1 DEF IInv, MadeIsComplete
<1> QED
  BY <1>8, <1>9, <1>10, <1>11, <1>12, <1>13, <1>14 DEF IInv, Books

(* maybeAutoDeploy: the environment is complete, its maker goes on.        *)
LEMMA AutoDeployStep ==
  ASSUME NEW w \in Workers, IInv, AutoDeploy(w)
  PROVE  IInv'
<1> DEFINE id == work[w].id
<1>1. WorkTyped(w) /\ AtHooks(w) /\ work[w].at # "idle"
  BY WorkerTyped DEF AutoDeploy, AtHooks
<1>2. WorkTyped(w)' /\ ~AtHooks(w)' /\ Moves(w)
  BY <1>1, NextItemTyped, NextItemIs DEF AutoDeploy
<1>3. /\ \A v \in Workers : AtHooks(v)' <=> AtHooks(v) /\ v # w
      /\ \A v \in Workers \ {w} : work'[v] = work[v] /\ Item(v)' = Item(v)
  BY <1>2 DEF Moves, AtHooks, Item
<1>4. \A v \in Workers : WorkTyped(v)'
  <2> SUFFICES ASSUME NEW v \in Workers, v # w
               PROVE  WorkTyped(v)'
    BY <1>2
  <2>1. WorkTyped(v) /\ work'[v] = work[v]
    BY <1>3, WorkerTyped
  <2> QED
    BY <2>1 DEF WorkTyped
<1>5. triggered \subseteq triggered' /\ triggered' \subseteq DOMAIN origin
  BY DEF AutoDeploy, IInv, TypeOK
<1>6. TypeOK'
  <2>1. \A v \in Workers : work'[v].at = "hooks" =>
            origin[work'[v].id] = work'[v].bundle[work'[v].item]
    BY <1>3 DEF IInv, TypeOK, AtHooks
  <2> QED
    BY <1>4, <1>5, <2>1 DEF IInv, TypeOK, WorkTyped, AutoDeploy, bounds, history
<1>7. Shapes'
  BY <1>2, <1>4 DEF IInv, Books, Shapes, WorkTyped, Moves, AutoDeploy, history
<1>8. OwnEnvironment' /\ HooksSoFar'
  <2>1. OwnEnvironment'
    BY <1>3 DEF IInv, Books, OwnEnvironment, AutoDeploy, history
  <2>2. HooksSoFar'
    BY <1>3 DEF IInv, Books, HooksSoFar, AutoDeploy, history
  <2> QED
    BY <2>1, <2>2
<1>9. LoadsAreUsedUp' /\ DeclaredOnce'
  BY DEF IInv, Books, LoadsAreUsedUp, DeclaredOnce, Free, AutoDeploy, history
<1>10. BootLoads' /\ LoadedSoFar' /\ DeclaredIsThere'
  <2>1. UNCHANGED <<rows, lost>>
    BY DEF AutoDeploy, history
  <2>2. CASE w = Boot
    <3>1. ~Up /\ NextItem(Boot)
      BY <1>1, <2>2 DEF AutoDeploy, Up
    <3>2. Declared[work[Boot].item].name # NoName
            => ~Free(Declared[work[Boot].item].name)
      BY <1>1, <2>2, <3>1, BootIs DEF IInv, Books, LoadedSoFar, Passed
    <3> QED
      BY <2>1, <3>1, <3>2, BootNext
  <2>3. CASE w # Boot
    <3>1. w \in Clients /\ work[w].kind # "boot"
      BY <1>1, <2>3, WorkerOfKind
    <3>2. work'[w].kind # "boot"
      BY <1>1, <3>1, NextItemIs DEF AutoDeploy, Idle
    <3> QED
      BY <1>2, <2>1, <3>1, <3>2, ClientMoves
  <2> QED
    BY <2>2, <2>3
<1>11. MadeIsComplete'
  <2> SUFFICES ASSUME NEW jd \in DOMAIN rows \ cut,
                      ~\E v \in Workers : AtHooks(v)' /\ work'[v].id = jd
               PROVE  /\ rows[jd].hooks = Hooks(origin[jd])
                      /\ origin[jd].auto => jd \in triggered'
    BY DEF MadeIsComplete, AutoDeploy, history, AtHooks
  <2>1. CASE jd = id
    <3>1. ~work[w].gone /\ origin[id] = Item(w)
      BY <1>1, <2>1 DEF IInv, Books, OwnEnvironment, TypeOK, AtHooks, Item
    <3>2. Item(w) \in Items
      BY <1>1, ItemTyped
    <3>3. /\ Len(Item(w).hooks) \in Nat
          /\ Hooks(Item(w)) = {Item(w).hooks[k] : k \in 1 .. Len(Item(w).hooks)}
      BY <3>2, HooksTyped
    <3>4. work[w].hook - 1 = Len(Item(w).hooks)
      BY <1>1, <3>3 DEF IInv, Books, OwnEnvironment, AutoDeploy
    <3>5. rows[id].hooks = {Item(w).hooks[k] : k \in 1 .. (work[w].hook - 1)}
      BY <1>1, <2>1 DEF IInv, Books, HooksSoFar
    <3>6. origin[id].auto => id \in triggered'
      BY <2>1, <3>1 DEF AutoDeploy
    <3> QED
      BY <2>1, <3>1, <3>3, <3>4, <3>5, <3>6
  <2>2. CASE jd # id
    <3>1. ~\E v \in Workers : work[v].at = "hooks" /\ work[v].id = jd
      BY <1>3, <2>2 DEF AtHooks
    <3> QED
      BY <1>5, <3>1 DEF IInv, MadeIsComplete
  <2> QED
    BY <2>1, <2>2
<1> QED
  BY <1>6, <1>7, <1>8, <1>9, <1>10, <1>11 DEF IInv, Books

-----------------------------------------------------------------------------
(* The invariant holds in every reachable state.                           *)
LEMMA InitEstablishes == Init => IInv
<1> SUFFICES ASSUME Init
             PROVE  IInv
  OBVIOUS
<1>1. /\ DOMAIN work = Workers /\ work[Boot] = Loading
      /\ \A c \in Clients : work[c] = Idle
  BY ProvisionAssumption DEF Init, Workers
<1>2. \A v \in Workers : WorkTyped(v) /\ ~AtHooks(v)
  <2>1. \A c \in Clients : WorkTyped(c) /\ ~AtHooks(c)
    BY <1>1, IdleTyped DEF AtHooks
  <2>2. WorkTyped(Boot) /\ ~AtHooks(Boot)
    BY <1>1, LoadingTyped DEF AtHooks
  <2> QED
    BY <2>1, <2>2 DEF Workers
<1>3. nextId = 1 /\ DOMAIN rows = {} /\ origin \in Seq(Items) /\ Len(origin) = 0
      /\ DOMAIN origin = {}
  BY DEF Init
<1>4. TypeOK
  <2>1. \A v \in Workers : work[v].at # "hooks"
    BY <1>2 DEF AtHooks
  <2> QED
    BY <1>2, <1>3, <2>1, ProvisionAssumption DEF Init, TypeOK, WorkTyped
<1>5. Shapes
  BY <1>1, <1>2, <1>3 DEF Shapes, WorkTyped
<1>6. BootLoads
  <2>1. \A c \in Clients : work[c].kind # "boot"
    BY <1>1 DEF Idle
  <2> QED
    BY <1>1, <2>1, LoadingIs DEF BootLoads
<1>7. OwnEnvironment /\ HooksSoFar /\ LoadsAreUsedUp
  BY <1>2 DEF OwnEnvironment, HooksSoFar, LoadsAreUsedUp, Init
<1>8. Len(Declared) \in Nat /\ DOMAIN Declared = 1 .. Len(Declared)
  OBVIOUS
<1>9. LoadedSoFar
  BY <1>1, <1>8, LoadingIs DEF LoadedSoFar, Passed, AtHooks
<1>10. MadeIsComplete /\ DeclaredOnce
  BY <1>3 DEF MadeIsComplete, DeclaredOnce, Init
<1>11. DeclaredIsThere
  <2>1. CASE Declared = <<>>
    BY <2>1 DEF DeclaredIsThere, DeclaredNames, Range
  <2>2. CASE Declared # <<>>
    BY <1>1, <2>2, LoadingIs DEF DeclaredIsThere, Up
  <2> QED
    BY <2>1, <2>2
<1> QED
  BY <1>4, <1>5, <1>6, <1>7, <1>9, <1>10, <1>11 DEF IInv, Books

LEMMA StutterPreserves ==
  ASSUME IInv, UNCHANGED vars
  PROVE  IInv'
<1> USE DEF vars, bounds, store, history
<1>1. TypeOK'
  BY DEF IInv, TypeOK
<1>2. Books'
  BY DEF IInv, Books, Shapes, BootLoads, OwnEnvironment, HooksSoFar,
      LoadsAreUsedUp, LoadedSoFar, AtHooks, Up, Item, Passed, Free
<1>3. MadeIsComplete' /\ DeclaredOnce' /\ DeclaredIsThere'
  BY DEF IInv, MadeIsComplete, DeclaredOnce, DeclaredIsThere, Up, Free
<1> QED
  BY <1>1, <1>2, <1>3 DEF IInv

LEMMA StepPreserves ==
  ASSUME IInv, [Next]_vars
  PROVE  IInv'
<1>1. ASSUME NEW c \in Clients,
             (\E b \in Bundles : Import(c, b) \/ Create(c, b)) \/ Leave(c)
      PROVE  IInv'
  BY <1>1, ImportStep, CreateStep, LeaveStep
<1>2. ASSUME NEW id \in DOMAIN rows,
             Delete(id) \/ \E name \in NewNames : Rename(id, name)
      PROVE  IInv'
  BY <1>2, DeleteStep, RenameStep
<1>3. ASSUME NEW w \in Workers, Proceed(w)
      PROVE  IInv'
  BY <1>3, UniqueEnvNameStep, LookUpStep, InsertStep, RefusedStep,
      CreateTimedHookStep, AutoDeployStep DEF Proceed
<1>4. CASE Crash
  BY <1>4, CrashStep
<1>5. CASE UNCHANGED vars
  BY <1>5, StutterPreserves
<1> QED
  BY <1>1, <1>2, <1>3, <1>4, <1>5 DEF Next

LEMMA Invariance == Spec => []IInv
BY InitEstablishes, StepPreserves, PTL DEF Spec

(* Every variable keeps its type, and no two environments share a name.    *)
THEOREM TypeCorrectness == Spec => []TypeOK
<1>1. IInv => TypeOK
  BY DEF IInv
<1> QED
  BY <1>1, Invariance, PTL

(* apiImport, Bootstrap, maybeAutoDeploy: an environment whose maker was   *)
(* not cut off has every hook of its item, and was deployed if it asked to *)
(* be.                                                                     *)
THEOREM EnvironmentsAreComplete == Spec => []MadeIsComplete
<1>1. IInv => MadeIsComplete
  BY DEF IInv
<1> QED
  BY <1>1, Invariance, PTL

(* Bootstrap over any number of starts makes a declared environment once,  *)
(* and again only after its name was given up.                             *)
THEOREM BootstrapIsIdempotent == Spec => []DeclaredOnce
<1>1. IInv => DeclaredOnce
  BY DEF IInv
<1> QED
  BY <1>1, Invariance, PTL

(* Once edp serves, every declared name is there or was given up since.    *)
THEOREM BootstrapIsThorough == Spec => []DeclaredIsThere
<1>1. IInv => DeclaredIsThere
  BY DEF IInv
<1> QED
  BY <1>1, Invariance, PTL
=============================================================================
