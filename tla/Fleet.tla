-------------------------------- MODULE Fleet --------------------------------
(***************************************************************************)
(* edp-manager: the registry of edp instances (manager/internal/store,     *)
(* server/handlers.go), its seeding from the configuration file at every   *)
(* start (internal/bootstrap), the fan-out of a read to all registered     *)
(* instances (internal/aggregate), and the page that shows the answers and *)
(* acts, by way of the pass-through, on what it shows.                     *)
(*                                                                         *)
(* An edp is its base URL; what it answers is a set of environments, or a  *)
(* failure: a timeout, a refusal, a status that is not 2xx, a body that is *)
(* no array of objects; or its array holds a null, see CallPanics.  The    *)
(* goroutines of a fan-out append to the result under a mutex: each is one *)
(* action.  A summary goes the same way: its unreachable instances are the *)
(* errors, and it counts what the rows list.                               *)
(***************************************************************************)
EXTENDS Naturals, Sequences

CONSTANTS MaxIds,       \* bound: instances ever registered
          Labels, Bases, Tokens,
          NoToken,      \* the empty token
          Omitted,      \* a field the body of an update leaves out
          None,         \* no row, no answer
          Config,       \* the instances the configuration file declares
          Creations,    \* the instances clients may register
          Bodies,       \* the bodies of updates that clients may send
          Envs,         \* environments an edp may list
          Clients,      \* API clients that edit the registry
          Requests,     \* reads of the whole fleet that may be under way
          MaxRestarts   \* bound: times the manager is started again

Ids == 1 .. MaxIds
Rows == [label : Labels, base : Bases, token : Tokens \cup {NoToken}]

(* What a call comes to, if it comes to anything (see CallPanics): GetJSON *)
(* fails or its body is no array of objects, or it has the environments    *)
(* listed.                                                                 *)
Failures == [reachable : {FALSE}, envs : {{}}]
Listings == [reachable : {TRUE}, envs : SUBSET Envs]
Outcomes == Listings \cup Failures

ASSUME FleetAssumption ==
    /\ MaxIds \in Nat /\ MaxRestarts \in Nat
    /\ Config \in Seq(Rows) /\ Creations \subseteq Rows
    /\ Bodies \subseteq [id : Ids \cup {Omitted}, label : Labels \cup {Omitted},
                         base : Bases \cup {Omitted},
                         token : Tokens \cup {NoToken, Omitted}]
    /\ None \notin Rows
    /\ Omitted \notin Ids \cup Labels \cup Bases \cup Tokens \cup {NoToken}
    /\ NoToken \notin Tokens
    /\ None \notin Outcomes

VARIABLES
    boot,       \* the entry SeedFromFile is at; the API is up behind the last
    restarts,
    row,        \* the instances table
    nextId,     \* its AUTOINCREMENT
    edit,       \* the row each client's update has read, and its id
    raced,      \* history: clients whose row was updated since they read it
    moved,      \* history: instances whose base_url was changed
    ask,        \* per request, the instances listed, those that have not
                \* answered, and the result so far
    said,       \* history: what each call of the request came to
    page        \* the answer on the page; history: whom it asked, and what
                \* each call came to

registry == <<row, nextId, edit, raced, moved>>
process  == <<boot, restarts>>
reads    == <<ask, said>>
vars     == <<process, registry, reads, page>>

Registered == {i \in Ids : row[i] # None}
Up == boot > Len(Config)

Items == [id : Ids, base : Bases, env : Envs]
NoCalls == [i \in Ids |-> None]
NoAnswer == [items |-> {}, errors |-> {}, asked |-> {}, said |-> NoCalls]
NotAsked == [at |-> "idle", listed |-> NoCalls, todo |-> {},
             items |-> {}, errors |-> {}]

TypeOK ==
    /\ boot \in 1 .. Len(Config) + 1
    /\ restarts \in 0 .. MaxRestarts
    /\ row \in [Ids -> Rows \cup {None}]
    /\ nextId \in 1 .. MaxIds + 1
    /\ \A i \in Registered : i < nextId
    /\ \A i, j \in Registered : row[i].label = row[j].label => i = j
    /\ edit \in [Clients -> [id : Ids, row : Rows] \cup {None}]
    /\ raced \subseteq Clients
    /\ moved \subseteq Ids
    /\ ask \in [Requests -> [at : {"idle", "gather"}, listed : [Ids -> Rows \cup {None}],
                             todo : SUBSET Ids, items : SUBSET Items,
                             errors : SUBSET Ids]]
    /\ said \in [Requests -> [Ids -> Outcomes \cup {None}]]
    /\ page \in [items : SUBSET Items, errors : SUBSET Ids, asked : SUBSET Ids,
                 said : [Ids -> Outcomes \cup {None}]]

Init == /\ boot = 1 /\ restarts = 0
        /\ row = [i \in Ids |-> None]
        /\ nextId = 1
        /\ edit = [c \in Clients |-> None]
        /\ raced = {} /\ moved = {}
        /\ ask = [q \in Requests |-> NotAsked]
        /\ said = [q \in Requests |-> NoCalls]
        /\ page = NoAnswer

-----------------------------------------------------------------------------
(* The registry.                                                           *)

Taken(label) == \E i \in Registered : row[i].label = label

(* Mutant: ids are not AUTOINCREMENT; SQLite then gives the largest one in *)
(* use, and one.                                                           *)
InsertNextToLargest(r) ==
    \E last \in {0} \cup Registered :
        /\ \A i \in Registered : i <= last
        /\ last + 1 \in Ids
        /\ ~Taken(r.label)
        /\ row' = [row EXCEPT ![last + 1] = r]
        /\ nextId' = IF nextId > last + 1 THEN nextId ELSE last + 2

(* CreateInstance; label is UNIQUE.                                        *)
Insert(r) ==
    /\ nextId \in Ids
    /\ ~Taken(r.label)
    /\ row' = [row EXCEPT ![nextId] = r]
    /\ nextId' = nextId + 1

(* SeedFromFile, one entry: a label that is registered is left alone.      *)
Seed ==
    /\ ~Up
    /\ \/ Taken(Config[boot].label) /\ UNCHANGED <<row, nextId>>
       \/ Insert(Config[boot])
    /\ boot' = boot + 1
    /\ UNCHANGED <<restarts, edit, raced, moved, reads, page>>

CreateInstance(r) ==
    /\ Up
    /\ Insert(r)
    /\ UNCHANGED <<process, edit, raced, moved, reads, page>>

DeleteInstance(i) ==
    /\ Up
    /\ i \in Registered
    /\ row' = [row EXCEPT ![i] = None]
    /\ UNCHANGED <<process, nextId, edit, raced, moved, reads, page>>

(* apiUpdateInstance: loadInstance, with the token in the clear, ...       *)
ReadInstance(c, i) ==
    /\ Up
    /\ edit[c] = None
    /\ i \in Registered
    /\ edit' = [edit EXCEPT ![c] = [id |-> i, row |-> row[i]]]
    /\ raced' = raced \ {c}
    /\ UNCHANGED <<process, row, nextId, moved, reads, page>>

(* ... what the body has is decoded onto it, an id too, ...                 *)
Decoded(r, b) == [label |-> IF b.label = Omitted THEN r.label ELSE b.label,
                  base  |-> IF b.base  = Omitted THEN r.base  ELSE b.base,
                  token |-> IF b.token = Omitted THEN r.token ELSE b.token]

Target(c, b) == IF b.id = Omitted THEN edit[c].id ELSE b.id

(* Mutant: the token is written whatever it is.                            *)
StoredWithToken(i, r) == r

(* ... and written over the stored row, but for a token that is empty.     *)
Stored(i, r) == [r EXCEPT !.token = IF @ = NoToken THEN row[i].token ELSE @]

(* No row is updated once the instance is deleted; a label that is taken   *)
(* is refused.                                                             *)
UpdateInstance(c, b) ==
    /\ Up
    /\ edit[c] # None
    /\ LET i == Target(c, b)
           new == Decoded(edit[c].row, b)
       IN IF i \in Registered /\ \A j \in Registered \ {i} : row[j].label # new.label
          THEN /\ row' = [row EXCEPT ![i] = Stored(i, new)]
               /\ raced' = raced \cup {d \in Clients : edit[d] # None /\ edit[d].id = i}
               /\ moved' = IF new.base = row[i].base THEN moved ELSE moved \cup {i}
          ELSE UNCHANGED <<row, raced, moved>>
    /\ edit' = [edit EXCEPT ![c] = None]
    /\ UNCHANGED <<process, nextId, reads, page>>

-----------------------------------------------------------------------------
(* The fan-out.                                                            *)

(* ListInstances, and a goroutine for each.                                *)
Ask(q) ==
    /\ Up
    /\ ask[q].at = "idle"
    /\ ask' = [ask EXCEPT ![q] = [NotAsked EXCEPT !.at = "gather", !.listed = row,
                                                  !.todo = Registered]]
    /\ UNCHANGED <<process, registry, said, page>>

Tagged(q, i, envs) == {[id |-> i, base |-> ask[q].listed[i].base, env |-> e] :
                         e \in envs}

(* GetJSON, with the base URL and the token that were listed, and what the *)
(* goroutine makes of it: one error, or rows with their instance's tags.   *)
Call(q, i) ==
    /\ i \in ask[q].todo
    /\ \E outcome \in Outcomes :
        /\ said' = [said EXCEPT ![q][i] = outcome]
        /\ ask' = [ask EXCEPT
                     ![q].todo = @ \ {i},
                     ![q].errors = IF outcome.reachable THEN @ ELSE @ \cup {i},
                     ![q].items = @ \cup Tagged(q, i, outcome.envs)]
    /\ UNCHANGED <<process, registry, page>>

Listed(q) == {i \in Ids : ask[q].listed[i] # None}

AnswerTo(q) == [items |-> ask[q].items, errors |-> ask[q].errors,
                asked |-> Listed(q), said |-> said[q]]

(* Mutant: the handler does not wait for the goroutines.                   *)
ReplyEarly(q) ==
    /\ ask[q].at = "gather"
    /\ page' = AnswerTo(q)
    /\ ask' = [ask EXCEPT ![q] = NotAsked]
    /\ said' = [said EXCEPT ![q] = NoCalls]
    /\ UNCHANGED <<process, registry>>

(* wg.Wait, and the answer: the page shows it, or is gone.                 *)
Reply(q) ==
    /\ ask[q].at = "gather"
    /\ ask[q].todo = {}
    /\ page' \in {AnswerTo(q), NoAnswer}
    /\ ask' = [ask EXCEPT ![q] = NotAsked]
    /\ said' = [said EXCEPT ![q] = NoCalls]
    /\ UNCHANGED <<process, registry>>

(* proxyToInstance: where an action on an instance's rows goes.            *)
Destination(i) == row[i].base

(* The manager dies, and is started again.                                 *)
Crash ==
    /\ restarts < MaxRestarts
    /\ restarts' = restarts + 1
    /\ boot' = 1
    /\ edit' = [c \in Clients |-> None]
    /\ raced' = {}
    /\ ask' = [q \in Requests |-> NotAsked]
    /\ said' = [q \in Requests |-> NoCalls]
    /\ UNCHANGED <<row, nextId, moved, page>>

(* A null among the objects is a nil map, and to tag it is a panic in the  *)
(* goroutine, which is the end of the manager.                             *)
CallPanics(q, i) == i \in ask[q].todo /\ Crash

-----------------------------------------------------------------------------
Next == \/ Seed \/ Crash
        \/ \E r \in Creations : CreateInstance(r)
        \/ \E i \in Ids : DeleteInstance(i) \/ \E c \in Clients : ReadInstance(c, i)
        \/ \E c \in Clients, b \in Bodies : UpdateInstance(c, b)
        \/ \E q \in Requests : \/ Ask(q) \/ Reply(q)
                              \/ \E i \in Ids : Call(q, i) \/ CallPanics(q, i)

Spec == Init /\ [][Next]_vars

-----------------------------------------------------------------------------
(* Properties.                                                             *)

(* Fanout, "so one unreachable edp degrades gracefully instead of failing  *)
(* the whole response": an answer has, for each instance that was          *)
(* registered when it was asked for, either one error and no row, or no    *)
(* error and the rows that this edp answered with, whoever failed beside   *)
(* it and however the registry changed meanwhile.                          *)
AnswerAccountsForAll ==
    /\ page.errors \subseteq page.asked
    /\ \A it \in page.items : it.id \in page.asked
    /\ \A i \in page.asked :
        LET envs == {it.env : it \in {x \in page.items : x.id = i}} IN
        /\ page.said[i] # None
        /\ i \in page.errors <=> ~page.said[i].reachable
        /\ envs = page.said[i].envs

(* proxyToInstance: what is done to a row of the page, however old, is     *)
(* done to the edp that listed it, or to none: an id never comes to stand  *)
(* for another instance, and an instance for another edp only when its     *)
(* base_url is changed.                                                    *)
ActsWhereShown ==
    \A it \in page.items :
        it.id \in Registered => Destination(it.id) = it.base \/ it.id \in moved

(* manager/README.md:71 "omit api_token to keep the stored one": it is     *)
(* kept, unless another update of the instance came between this one's     *)
(* read and its write, which then undoes the other's token, or the body    *)
(* has the id of another instance, which then gets the token of this one.  *)
(* An empty token is not written at all.                                   *)
OmittedTokenIsKept ==
    [][\A c \in Clients, b \in Bodies :
        /\ edit[c] # None
        /\ \/ b.token = NoToken
           \/ b.token = Omitted /\ c \notin raced /\ Target(c, b) = edit[c].id
        /\ UpdateInstance(c, b)
        => \A i \in Registered : row'[i].token = row[i].token]_vars
=============================================================================
