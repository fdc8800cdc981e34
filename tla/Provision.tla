------------------------------ MODULE Provision ------------------------------
(***************************************************************************)
(* How environments come into being (internal/server): created and         *)
(* imported by clients, and declared in EDP_IMPORT, which is loaded each   *)
(* time the process starts, before it serves anybody.  A bundle is worked  *)
(* item by item and statement by statement; clients interleave, leave      *)
(* before they are answered (which cancels their statements), delete and   *)
(* rename environments; and the process dies.                              *)
(***************************************************************************)
EXTENDS Naturals, Sequences, FiniteSets, Functions

CONSTANTS Clients,      \* requests that create or import
          Bundles,      \* what they may ask for: sequences of items
          Declared,     \* the bundle of EDP_IMPORT; <<>> if there is none
          NewNames,     \* names that users rename environments to
          Boot,         \* the worker that loads Declared
          Imported,     \* the name "imported"
          MaxRequests,  \* bound: requests to create or import
          MaxEdits,     \* bound: deletions and renamings
          MaxRestarts   \* bound: times the process dies

(* A name is a base and the numbers appended to it: "web-2" is <<web, 2>>. *)
(* An item has a name, hooks (by name, in order), and auto_deploy.         *)
NoName == <<>>

Asked == Bundles \cup {Declared}
Items == UNION {Range(b) : b \in Asked}

ASSUME ProvisionAssumption ==
    /\ Boot \notin Clients
    /\ MaxRequests \in Nat /\ MaxEdits \in Nat /\ MaxRestarts \in Nat
    /\ \A b \in Asked : b \in Seq(Items)
    /\ \A i \in Items : /\ DOMAIN i = {"name", "hooks", "auto"}
                       /\ i.hooks \in Seq(Range(i.hooks)) /\ i.auto \in BOOLEAN

Workers == Clients \cup {Boot}
Hooks(item) == Range(item.hooks)

VARIABLES
    restarts,   \* times the process has died
    rows,       \* environments: name and names of timed hooks, by id
    nextId,     \* AUTOINCREMENT
    triggered,  \* environments that auto_deploy has triggered
    work,       \* what each worker is at
    requests,   \* requests so far
    edits,      \* deletions and renamings so far
    origin,     \* history: the item that each environment was made from
    cut,        \* history: environments whose maker died, or whose client left
    loads,      \* history: times each declared name was made at boot
    freed,      \* history: times each declared name was given up
    lost        \* history: declared names given up since the process started

store == <<rows, nextId, triggered>>
history == <<origin, cut, loads, freed, lost>>
bounds == <<restarts, requests, edits>>
vars == <<bounds, store, work, history>>

DeclaredNames == {i.name : i \in Range(Declared)} \ {NoName}

Idle == [at |-> "idle", kind |-> "create", bundle |-> <<>>, item |-> 0,
         name |-> NoName, n |-> 0, id |-> 0, hook |-> 0, gone |-> FALSE]

Loading == [Idle EXCEPT !.at = IF Declared = <<>> THEN "idle" ELSE "name",
                        !.kind = "boot", !.bundle = Declared,
                        !.item = IF Declared = <<>> THEN 0 ELSE 1,
                        !.name = IF Declared = <<>> THEN NoName ELSE Declared[1].name]

Up == work[Boot].at = "idle"        \* Bootstrap has returned: edp serves

Free(name) == \A id \in DOMAIN rows : rows[id].name # name

TypeOK ==
    /\ restarts \in 0 .. MaxRestarts
    /\ nextId \in Nat \ {0}
    /\ DOMAIN rows \subseteq 1 .. (nextId - 1)
    /\ DOMAIN origin = 1 .. (nextId - 1)
    /\ \A id \in DOMAIN rows : rows[id].hooks \subseteq Hooks(origin[id])
    /\ \A id, jd \in DOMAIN rows : rows[id].name = rows[jd].name => id = jd
    /\ triggered \subseteq DOMAIN origin /\ cut \subseteq DOMAIN origin
    /\ \A w \in Workers :
        /\ work[w].at \in {"idle", "name", "insert", "hooks"}
        /\ work[w].kind \in {"create", "import", "boot"}
        /\ work[w].bundle \in Asked \cup {<<>>}
        /\ work[w].at # "idle" => work[w].item \in DOMAIN work[w].bundle
        /\ work[w].at = "hooks" =>
            origin[work[w].id] = work[w].bundle[work[w].item]
    /\ edits \in 0 .. MaxEdits /\ requests \in 0 .. MaxRequests
    /\ loads \in [DeclaredNames -> Nat] /\ freed \in [DeclaredNames -> Nat]
    /\ lost \subseteq DeclaredNames

Init == /\ restarts = 0
        /\ rows = <<>>
        /\ nextId = 1
        /\ triggered = {}
        /\ work = [w \in Workers |-> IF w = Boot THEN Loading ELSE Idle]
        /\ requests = 0
        /\ edits = 0
        /\ origin = <<>>
        /\ cut = {}
        /\ loads = [d \in DeclaredNames |-> 0]
        /\ freed = [d \in DeclaredNames |-> 0]
        /\ lost = {}

-----------------------------------------------------------------------------
(* Requests.                                                               *)

Goto(w, p) == work' = [work EXCEPT ![w].at = p]

NameOf(item) == IF item.name = NoName THEN <<Imported>> ELSE item.name

Ask == requests < MaxRequests /\ requests' = requests + 1

(* apiImport, once it has parsed the bundle.                               *)
Import(c, b) ==
    /\ Up
    /\ work[c].at = "idle"
    /\ b # <<>>
    /\ work' = [work EXCEPT ![c] = [Idle EXCEPT !.at = "name", !.kind = "import",
                                    !.bundle = b, !.item = 1, !.name = NameOf(b[1]),
                                    !.n = 2]]
    /\ Ask
    /\ UNCHANGED <<restarts, store, edits, history>>

(* apiCreateEnv takes the name as it is, and refuses an empty one.         *)
Create(c, b) ==
    /\ Up
    /\ work[c].at = "idle"
    /\ Len(b) = 1 /\ b[1].name # NoName /\ b[1].hooks = <<>>
    /\ work' = [work EXCEPT ![c] = [Idle EXCEPT !.at = "insert", !.bundle = b,
                                    !.item = 1, !.name = b[1].name]]
    /\ Ask
    /\ UNCHANGED <<restarts, store, edits, history>>

(* The client leaves: its context is cancelled and every later statement   *)
(* fails, but the handler goes on to its end.                              *)
Leave(c) ==
    /\ work[c].at # "idle"
    /\ ~work[c].gone
    /\ work' = [work EXCEPT ![c].gone = TRUE]
    /\ cut' = IF work[c].at = "hooks" THEN cut \cup {work[c].id} ELSE cut
    /\ UNCHANGED <<bounds, store, origin, loads, freed, lost>>

(* What users do to names: apiDeleteEnv, apiUpdateEnv.                     *)
GivenUp(name) ==
    /\ edits < MaxEdits
    /\ edits' = edits + 1
    /\ lost' = lost \cup ({name} \cap DeclaredNames)
    /\ freed' = [d \in DeclaredNames |-> IF d = name THEN freed[d] + 1 ELSE freed[d]]

Delete(id) ==
    /\ Up
    /\ id \in DOMAIN rows
    /\ rows' = Restrict(rows, DOMAIN rows \ {id})
    /\ GivenUp(rows[id].name)
    /\ UNCHANGED <<restarts, requests, nextId, triggered, work, origin, cut, loads>>

Rename(id, name) ==
    /\ Up
    /\ id \in DOMAIN rows
    /\ Free(name)
    /\ rows' = [rows EXCEPT ![id].name = name]
    /\ GivenUp(rows[id].name)
    /\ UNCHANGED <<restarts, requests, nextId, triggered, work, origin, cut, loads>>

-----------------------------------------------------------------------------
(* A bundle, item by item.                                                 *)

NextItem(w) ==
    LET b == work[w].bundle
        i == work[w].item + 1
    IN work' = [work EXCEPT ![w] =
            IF i > Len(b) THEN Idle
            ELSE [@ EXCEPT !.at = "name", !.item = i, !.n = 2, !.id = 0, !.hook = 0,
                           !.name = IF w = Boot THEN b[i].name ELSE NameOf(b[i])]]

Item(w) == work[w].bundle[work[w].item]

(* Mutant: the number does not go up.                                      *)
UniqueEnvNameStuck(w) ==
    /\ work[w].at = "name" /\ work[w].kind = "import"
    /\ IF work[w].gone \/ Free(work[w].name)
       THEN Goto(w, "insert")
       ELSE work' = [work EXCEPT ![w].name = Append(NameOf(Item(w)), work[w].n)]
    /\ UNCHANGED <<bounds, store, history>>

(* uniqueEnvName: name, name-2, name-3, ...  A look-up that fails counts   *)
(* as a free name.                                                         *)
UniqueEnvName(w) ==
    /\ work[w].at = "name" /\ work[w].kind = "import"
    /\ IF work[w].gone \/ Free(work[w].name)
       THEN Goto(w, "insert")
       ELSE work' = [work EXCEPT ![w].n = @ + 1,
                                 ![w].name = Append(NameOf(Item(w)), work[w].n)]
    /\ UNCHANGED <<bounds, store, history>>

(* Mutant: boot, too, looks for a name that is free.                       *)
LookUpUnique(w) ==
    /\ work[w].at = "name" /\ work[w].kind = "boot"
    /\ IF work[w].name = NoName THEN NextItem(w)
       ELSE IF Free(work[w].name) THEN Goto(w, "insert")
       ELSE work' = [work EXCEPT ![w].name = Append(@, 2), ![w].at = "insert"]
    /\ UNCHANGED <<bounds, store, history>>

(* Mutant: the first name that exists ends the loading.                    *)
LookUpOrReturn(w) ==
    /\ work[w].at = "name" /\ work[w].kind = "boot"
    /\ IF work[w].name # NoName /\ Free(work[w].name)
       THEN Goto(w, "insert") ELSE work' = [work EXCEPT ![w] = Idle]
    /\ UNCHANGED <<bounds, store, history>>

(* Bootstrap leaves a name that exists alone, and skips an empty one.      *)
LookUp(w) ==
    /\ work[w].at = "name" /\ work[w].kind = "boot"
    /\ IF work[w].name # NoName /\ Free(work[w].name)
       THEN Goto(w, "insert") ELSE NextItem(w)
    /\ UNCHANGED <<bounds, store, history>>

Inserted(w) ==
    /\ rows' = [id \in DOMAIN rows \cup {nextId} |->
                    IF id = nextId THEN [name |-> work[w].name, hooks |-> {}]
                                   ELSE rows[id]]
    /\ nextId' = nextId + 1
    /\ origin' = Append(origin, Item(w))
    /\ work' = [work EXCEPT ![w].at = "hooks", ![w].id = nextId, ![w].hook = 1]
    /\ loads' = [d \in DeclaredNames |-> IF w = Boot /\ d = Item(w).name
                                         THEN loads[d] + 1 ELSE loads[d]]

(* Mutant: the table has no UNIQUE on the name, which was free when looked *)
(* up.                                                                     *)
InsertUnlessGone(w) ==
    /\ work[w].at = "insert"
    /\ ~work[w].gone
    /\ Inserted(w)
    /\ UNCHANGED <<bounds, triggered, cut, freed, lost>>

(* CreateEnvironment: a name that has been taken by now is refused, which  *)
(* ends the request with what it has made so far.                          *)
Insert(w) ==
    /\ work[w].at = "insert"
    /\ ~work[w].gone /\ Free(work[w].name)
    /\ Inserted(w)
    /\ UNCHANGED <<bounds, triggered, cut, freed, lost>>

Refused(w) ==
    /\ work[w].at = "insert"
    /\ work[w].gone \/ ~Free(work[w].name)
    /\ IF w = Boot THEN NextItem(w) ELSE work' = [work EXCEPT ![w] = Idle]
    /\ UNCHANGED <<bounds, store, history>>

(* Mutant: a hook that is refused ends the item's hooks.                   *)
CreateTimedHookOrStop(w) ==
    LET id == work[w].id
        hook == Item(w).hooks[work[w].hook]
    IN /\ work[w].at = "hooks"
       /\ work[w].hook <= Len(Item(w).hooks)
       /\ IF work[w].gone \/ id \notin DOMAIN rows \/ hook \in rows[id].hooks
          THEN work' = [work EXCEPT ![w].hook = Len(Item(w).hooks) + 1] /\ UNCHANGED rows
          ELSE /\ work' = [work EXCEPT ![w].hook = @ + 1]
               /\ rows' = [rows EXCEPT ![id].hooks = @ \cup {hook}]
       /\ UNCHANGED <<bounds, nextId, triggered, history>>

(* CreateTimedHook, its error ignored: the environment may be gone, the    *)
(* client may have left, and the second hook of one name is refused.       *)
CreateTimedHook(w) ==
    LET id == work[w].id
        hook == Item(w).hooks[work[w].hook]
    IN /\ work[w].at = "hooks"
       /\ work[w].hook <= Len(Item(w).hooks)
       /\ work' = [work EXCEPT ![w].hook = @ + 1]
       /\ rows' = IF work[w].gone \/ id \notin DOMAIN rows THEN rows
                  ELSE [rows EXCEPT ![id].hooks = @ \cup {hook}]
       /\ UNCHANGED <<bounds, nextId, triggered, history>>

(* maybeAutoDeploy, its error logged, and on to the next item.             *)
AutoDeploy(w) ==
    LET id == work[w].id IN
    /\ work[w].at = "hooks"
    /\ work[w].hook > Len(Item(w).hooks)
    /\ triggered' = IF Item(w).auto /\ ~work[w].gone /\ id \in DOMAIN rows
                    THEN triggered \cup {id} ELSE triggered
    /\ NextItem(w)
    /\ UNCHANGED <<bounds, rows, nextId, history>>

-----------------------------------------------------------------------------
(* The process dies; started again, it loads Declared before it serves.    *)
Crash ==
    /\ restarts < MaxRestarts
    /\ restarts' = restarts + 1
    /\ cut' = cut \cup {work[w].id : w \in {v \in Workers : work[v].at = "hooks"}}
    /\ work' = [w \in Workers |-> IF w = Boot THEN Loading ELSE Idle]
    /\ lost' = {}
    /\ UNCHANGED <<requests, edits, store, origin, loads, freed>>

-----------------------------------------------------------------------------
Proceed(w) == \/ UniqueEnvName(w) \/ LookUp(w) \/ Insert(w) \/ Refused(w)
              \/ CreateTimedHook(w) \/ AutoDeploy(w)

Next == \/ \E c \in Clients : \/ \E b \in Bundles : Import(c, b) \/ Create(c, b)
                              \/ Leave(c)
        \/ \E id \in DOMAIN rows : \/ Delete(id)
                                   \/ \E name \in NewNames : Rename(id, name)
        \/ \E w \in Workers : Proceed(w)
        \/ Crash

Spec == Init /\ [][Next]_vars

(* Handlers are goroutines, and the statements they wait for end.          *)
FairSpec == Spec /\ \A w \in Workers : WF_vars(Proceed(w))

-----------------------------------------------------------------------------
(* Properties.                                                             *)

(* apiImport, Bootstrap, maybeAutoDeploy: whatever the requests that run   *)
(* beside it do, an environment has every hook of the item it was made     *)
(* from, and was deployed if it asked to be, unless its maker is still at  *)
(* it, died over it, or lost the client it worked for.                     *)
MadeIsComplete ==
    \A id \in DOMAIN rows \ cut :
        \/ \E w \in Workers : work[w].at = "hooks" /\ work[w].id = id
        \/ /\ rows[id].hooks = Hooks(origin[id])
           /\ origin[id].auto => id \in triggered

(* Bootstrap "is idempotent" (handlers_io.go:192): over any number of      *)
(* starts, finished or not, a declared environment is made once, and again *)
(* only after its name was given up.                                       *)
DeclaredOnce == \A d \in DeclaredNames : loads[d] <= 1 + freed[d]

(* Bootstrap goes through all of its bundle: once edp serves, every        *)
(* declared name is there, or was given up since.                          *)
DeclaredIsThere == Up => \A d \in DeclaredNames \ lost : ~Free(d)

(* uniqueEnvName and the loops around it end: every request is answered,   *)
(* and edp comes to serve.                                                 *)
EveryRequestEnds == \A w \in Workers : work[w].at # "idle" ~> work[w].at = "idle"
=============================================================================
