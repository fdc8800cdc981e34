---------------------------- MODULE Fleet_proofs ----------------------------
(***************************************************************************)
(* Proofs about Fleet, for any number of instances, clients, requests and  *)
(* restarts.  FInv is TypeOK with what the histories and the answers that  *)
(* are being gathered have to do with the registry.                        *)
(***************************************************************************)
EXTENDS Fleet, TLAPS

(* What client c has read of an instance nobody updated since is its row,  *)
(* unless it was deleted.                                                  *)
EditsStand ==
    \A c \in Clients : edit[c] # None =>
        /\ edit[c].id < nextId
        /\ c \notin raced /\ row[edit[c].id] # None => row[edit[c].id] = edit[c].row

(* Instance i is the one it was when it had the base URL base.             *)
Same(i, base) == /\ i < nextId
                 /\ row[i] # None => row[i].base = base \/ i \in moved

(* The instances a request has listed are still the ones they were.        *)
ListedStand ==
    \A q \in Requests, i \in Ids :
        ask[q].listed[i] # None => Same(i, ask[q].listed[i].base)

(* The rows that were answered have the tags of an instance listed.        *)
ItemsStand ==
    \A q \in Requests : \A it \in ask[q].items :
        ask[q].listed[it.id] # None /\ it.base = ask[q].listed[it.id].base

RowsOf(items, i) == {it.env : it \in {x \in items : x.id = i}}

(* What one instance that was asked has come to, in an answer.             *)
Accounted(items, errors, call, i) ==
    /\ call # None
    /\ i \in errors <=> ~call.reachable
    /\ RowsOf(items, i) = call.envs

(* An instance that was listed is accounted for, or still to be; one that  *)
(* is still to be has given nothing.                                       *)
GatheredSoFar ==
    \A q \in Requests :
        /\ ask[q].todo \subseteq Listed(q)
        /\ ask[q].errors \subseteq Listed(q)
        /\ \A i \in ask[q].todo : i \notin ask[q].errors /\ RowsOf(ask[q].items, i) = {}
        /\ \A i \in Listed(q) \ ask[q].todo :
              Accounted(ask[q].items, ask[q].errors, said[q][i], i)

PageStands == \A it \in page.items : Same(it.id, it.base)

FInv == /\ TypeOK
        /\ EditsStand
        /\ ListedStand
        /\ ItemsStand
        /\ GatheredSoFar
        /\ AnswerAccountsForAll
        /\ PageStands

-----------------------------------------------------------------------------
LEMMA InitEstablishes == Init => FInv
<1> SUFFICES ASSUME Init PROVE FInv
  OBVIOUS
<1> USE FleetAssumption
<1>1. TypeOK
  <2>1. Len(Config) \in Nat
    OBVIOUS
  <2>2. NotAsked \in [at : {"idle", "gather"}, listed : [Ids -> Rows \cup {None}],
                      todo : SUBSET Ids, items : SUBSET Items, errors : SUBSET Ids]
    BY DEF NotAsked, NoCalls
  <2>3. NoAnswer \in [items : SUBSET Items, errors : SUBSET Ids, asked : SUBSET Ids,
                      said : [Ids -> Outcomes \cup {None}]]
    BY DEF NoAnswer, NoCalls
  <2>4. \A i \in Ids : row[i] = None
    BY DEF Init
  <2>5. said \in [Requests -> [Ids -> Outcomes \cup {None}]]
    BY DEF Init, NoCalls
  <2> QED
    BY <2>1, <2>2, <2>3, <2>4, <2>5 DEF Init, TypeOK, Registered
<1>2. EditsStand
  BY DEF Init, EditsStand
<1>3. ListedStand /\ ItemsStand
  BY DEF Init, ListedStand, ItemsStand, NotAsked, NoCalls
<1>4. GatheredSoFar
  BY DEF Init, GatheredSoFar, NotAsked, NoCalls, Listed
<1>5. AnswerAccountsForAll /\ PageStands
  BY DEF Init, AnswerAccountsForAll, PageStands, NoAnswer
<1> QED
  BY <1>1, <1>2, <1>3, <1>4, <1>5 DEF FInv

-----------------------------------------------------------------------------
(* The registry moves on.                                                  *)

(* What every step does to the rows: an id below the next one never comes  *)
(* to be another instance's.                                               *)
Moves == /\ nextId' >= nextId
         /\ moved \subseteq moved'
         /\ \A i \in Ids : i < nextId /\ row'[i] # None =>
                row[i] # None /\ (row'[i].base = row[i].base \/ i \in moved')

LEMMA InsertTypes ==
  ASSUME TypeOK, NEW r \in Rows, Insert(r)
  PROVE  /\ row' \in [Ids -> Rows \cup {None}]
         /\ nextId' \in 1 .. MaxIds + 1
         /\ \A i \in Registered' : i < nextId'
         /\ \A i, j \in Registered' : row'[i].label = row'[j].label => i = j
         /\ nextId' = nextId + 1
         /\ nextId \in Ids
         /\ row' = [row EXCEPT ![nextId] = r]
<1> USE FleetAssumption
<1>1. /\ nextId \in Ids /\ nextId' = nextId + 1
      /\ row' = [row EXCEPT ![nextId] = r]
      /\ row \in [Ids -> Rows \cup {None}]
  BY DEF Insert, TypeOK
<1>2. nextId \in Nat /\ nextId' \in 1 .. MaxIds + 1
  BY <1>1 DEF Ids
<1>3. row' \in [Ids -> Rows \cup {None}]
  BY <1>1
<1>4. \A i \in Registered' : i = nextId \/ (i \in Registered /\ row'[i] = row[i])
  BY <1>1 DEF Registered
<1>5. \A i \in Registered : i < nextId /\ row[i].label # r.label
  BY DEF TypeOK, Insert, Taken
<1>6. \A i \in Registered' : i < nextId'
  <2> TAKE i \in Registered'
  <2>1. i \in Nat
    BY DEF Registered, Ids
  <2> QED
    BY <2>1, <1>1, <1>2, <1>4, <1>5
<1>7. row'[nextId] = r
  BY <1>1
<1>8. \A i, j \in Registered' : row'[i].label = row'[j].label => i = j
  BY <1>4, <1>5, <1>7 DEF TypeOK
<1> QED
  BY <1>1, <1>2, <1>3, <1>6, <1>8

LEMMA InsertMoves ==
  ASSUME TypeOK, NEW r \in Rows, Insert(r), UNCHANGED moved
  PROVE  Moves
<1>1. /\ nextId' = nextId + 1 /\ nextId \in Ids
      /\ row' = [row EXCEPT ![nextId] = r]
  BY InsertTypes
<1>2. nextId \in Nat
  BY <1>1 DEF Ids
<1>3. \A i \in Ids : i < nextId => row'[i] = row[i]
  BY <1>1, <1>2 DEF TypeOK, Ids
<1> QED
  BY <1>1, <1>2, <1>3 DEF Moves

LEMMA SameStays ==
  ASSUME TypeOK, Moves, NEW i \in Ids, NEW base, Same(i, base), nextId' \in Nat
  PROVE  Same(i, base)'
<1>1. i \in Nat /\ nextId \in Nat /\ i < nextId
  BY FleetAssumption DEF Same, Ids, TypeOK
<1>2. i < nextId'
  BY <1>1 DEF Moves
<1> QED
  BY <1>1, <1>2 DEF Same, Moves

(* While the requests and the page stay as they are, what they have to do  *)
(* with the registry stays true.                                           *)
LEMMA AnswersStay ==
  ASSUME FInv, Moves, nextId' \in Nat, UNCHANGED <<reads, page>>
  PROVE  ListedStand' /\ ItemsStand' /\ GatheredSoFar' /\ AnswerAccountsForAll' /\ PageStands'
<1>0. TypeOK
  BY DEF FInv
<1>1. ListedStand'
  <2>1. \A q \in Requests, i \in Ids : ask[q].listed[i] # None =>
            Same(i, ask[q].listed[i].base)'
    BY <1>0, SameStays DEF FInv, ListedStand, reads
  <2> QED
    BY <2>1 DEF ListedStand, Same, reads
<1>2. PageStands'
  <2>1. \A it \in page.items : it.id \in Ids
    BY <1>0 DEF TypeOK, Items
  <2>2. \A it \in page.items : Same(it.id, it.base)'
    BY <1>0, <2>1, SameStays DEF FInv, PageStands
  <2> QED
    BY <2>2 DEF PageStands, Same
<1>3. ItemsStand' /\ AnswerAccountsForAll'
  BY DEF FInv, ItemsStand, AnswerAccountsForAll, reads
<1>4. GatheredSoFar'
  BY DEF FInv, GatheredSoFar, Listed, Accounted, RowsOf, reads
<1> QED
  BY <1>1, <1>2, <1>3, <1>4

(* A client's read row, when another id is written.                        *)
LEMMA EditsStay ==
  ASSUME FInv, NEW r \in Rows, Insert(r), UNCHANGED <<edit, raced>>
  PROVE  EditsStand'
<1>1. /\ TypeOK /\ nextId' = nextId + 1 /\ nextId \in Ids
      /\ row' = [row EXCEPT ![nextId] = r]
  BY InsertTypes DEF FInv
<1> SUFFICES ASSUME NEW c \in Clients, edit[c] # None
             PROVE  /\ edit[c].id < nextId'
                    /\ c \notin raced /\ row'[edit[c].id] # None =>
                           row'[edit[c].id] = edit[c].row
  BY DEF EditsStand
<1>2. edit[c].id \in Ids /\ edit[c].id < nextId
  BY <1>1 DEF FInv, EditsStand, TypeOK
<1>3. edit[c].id \in Nat /\ nextId \in Nat
  BY <1>1, <1>2 DEF Ids
<1>4. row'[edit[c].id] = row[edit[c].id]
  BY <1>1, <1>2, <1>3 DEF TypeOK
<1> QED
  BY <1>1, <1>2, <1>3, <1>4 DEF FInv, EditsStand

LEMMA InsertPreserves ==
  ASSUME FInv, NEW r \in Rows, Insert(r),
         UNCHANGED <<restarts, edit, raced, moved, reads, page>>,
         boot' \in 1 .. Len(Config) + 1
  PROVE  FInv'
<1>1. TypeOK'
  BY InsertTypes DEF FInv, TypeOK, reads
<1>2. Moves
  BY InsertMoves DEF FInv
<1>3. nextId' \in Nat
  BY <1>1, FleetAssumption DEF TypeOK
<1>4. EditsStand'
  BY EditsStay
<1>5. ListedStand' /\ ItemsStand' /\ GatheredSoFar' /\ AnswerAccountsForAll' /\ PageStands'
  BY <1>2, <1>3, AnswersStay
<1> QED
  BY <1>1, <1>4, <1>5 DEF FInv

LEMMA SeedPreserves == FInv /\ Seed => FInv'
<1> SUFFICES ASSUME FInv, Seed PROVE FInv'
  OBVIOUS
<1>1. /\ boot \in 1 .. Len(Config) /\ boot' \in 1 .. Len(Config) + 1
      /\ Config[boot] \in Rows
  <2>1. Len(Config) \in Nat /\ boot \in 1 .. Len(Config) + 1 /\ Config \in Seq(Rows)
    BY FleetAssumption DEF FInv, TypeOK
  <2>2. boot <= Len(Config) /\ boot' = boot + 1
    BY <2>1 DEF Seed, Up
  <2> QED
    BY <2>1, <2>2
<1>2. CASE Insert(Config[boot])
  BY <1>1, <1>2, InsertPreserves DEF Seed
<1>3. CASE UNCHANGED <<row, nextId>>
  <2>1. TypeOK'
    BY <1>1, <1>3 DEF Seed, FInv, TypeOK, reads, Registered
  <2>2. Moves
    BY <1>3, FleetAssumption DEF Seed, FInv, TypeOK, Moves
  <2>3. nextId' \in Nat
    BY <2>1, FleetAssumption DEF TypeOK
  <2>4. EditsStand'
    BY <1>3 DEF Seed, FInv, EditsStand
  <2> QED
    BY <2>1, <2>2, <2>3, <2>4, AnswersStay DEF Seed, FInv
<1> QED
  BY <1>2, <1>3 DEF Seed

LEMMA CreatePreserves ==
  ASSUME FInv, NEW r \in Creations, CreateInstance(r)
  PROVE  FInv'
<1>1. r \in Rows
  BY FleetAssumption
<1>2. boot' \in 1 .. Len(Config) + 1
  BY DEF CreateInstance, process, FInv, TypeOK
<1> QED
  BY <1>1, <1>2, InsertPreserves DEF CreateInstance, process

LEMMA DeletePreserves ==
  ASSUME FInv, NEW i \in Ids, DeleteInstance(i)
  PROVE  FInv'
<1>1. row' = [row EXCEPT ![i] = None] /\ row \in [Ids -> Rows \cup {None}]
  BY DEF DeleteInstance, FInv, TypeOK
<1>2. \A j \in Ids : row'[j] # None => row'[j] = row[j] /\ row[j] # None
  BY <1>1
<1>3. row' \in [Ids -> Rows \cup {None}]
  BY <1>1
<1>4. Registered' \subseteq Registered
  BY <1>2 DEF Registered
<1>5. TypeOK'
  <2>1. \A j, k \in Registered' : row'[j].label = row'[k].label => j = k
    BY <1>2, <1>4 DEF Registered, FInv, TypeOK
  <2> QED
    BY <1>3, <1>4, <2>1 DEF DeleteInstance, process, reads, FInv, TypeOK
<1>6. Moves
  BY <1>2, FleetAssumption DEF DeleteInstance, Moves, FInv, TypeOK
<1>7. nextId' \in Nat
  BY <1>5, FleetAssumption DEF TypeOK
<1>8. EditsStand'
  <2>1. \A c \in Clients : edit[c] # None => edit[c].id \in Ids
    BY DEF FInv, TypeOK
  <2> QED
    BY <1>2, <2>1 DEF DeleteInstance, FInv, EditsStand
<1> QED
  BY <1>5, <1>6, <1>7, <1>8, AnswersStay DEF DeleteInstance, FInv

-----------------------------------------------------------------------------
(* Updates.                                                                *)

LEMMA ReadPreserves ==
  ASSUME FInv, NEW c \in Clients, NEW i \in Ids, ReadInstance(c, i)
  PROVE  FInv'
<1>1. /\ i \in Registered /\ row[i] \in Rows /\ i < nextId
      /\ edit' = [edit EXCEPT ![c] = [id |-> i, row |-> row[i]]]
  BY DEF ReadInstance, Registered, FInv, TypeOK
<1>2. TypeOK'
  BY <1>1 DEF ReadInstance, process, reads, FInv, TypeOK, Registered
<1>3. Moves
  BY FleetAssumption DEF ReadInstance, Moves, FInv, TypeOK
<1>4. nextId' \in Nat
  BY <1>2, FleetAssumption DEF TypeOK
<1>5. EditsStand'
  <2> SUFFICES ASSUME NEW d \in Clients, edit'[d] # None
               PROVE  /\ edit'[d].id < nextId
                      /\ d \notin raced' /\ row[edit'[d].id] # None =>
                             row[edit'[d].id] = edit'[d].row
    BY DEF ReadInstance, EditsStand
  <2>1. CASE d = c
    BY <1>1, <2>1 DEF FInv, TypeOK
  <2>2. CASE d # c
    BY <1>1, <2>2 DEF ReadInstance, FInv, TypeOK, EditsStand
  <2> QED
    BY <2>1, <2>2
<1> QED
  BY <1>2, <1>3, <1>4, <1>5, AnswersStay DEF ReadInstance, FInv

LEMMA DecodedType ==
  ASSUME NEW r \in Rows, NEW b \in Bodies
  PROVE  Decoded(r, b) \in Rows
BY FleetAssumption DEF Decoded, Rows

LEMMA TargetType ==
  ASSUME TypeOK, NEW c \in Clients, NEW b \in Bodies, edit[c] # None
  PROVE  Target(c, b) \in Ids /\ edit[c].row \in Rows /\ edit[c].id \in Ids
BY FleetAssumption DEF Target, TypeOK

(* The row that is updated, when there is one.                             *)
Updates(c, b) ==
    /\ Target(c, b) \in Registered
    /\ \A j \in Registered \ {Target(c, b)} :
          row[j].label # Decoded(edit[c].row, b).label

LEMMA StoredType ==
  ASSUME TypeOK, NEW i \in Registered, NEW r \in Rows
  PROVE  /\ Stored(i, r) \in Rows
         /\ Stored(i, r).label = r.label
         /\ Stored(i, r).base = r.base
         /\ Stored(i, r).token = IF r.token = NoToken THEN row[i].token ELSE r.token
<1>1. row[i] \in Rows
  BY DEF TypeOK, Registered
<1> QED
  BY <1>1 DEF Stored, Rows

LEMMA UpdatePreserves ==
  ASSUME FInv, NEW c \in Clients, NEW b \in Bodies, UpdateInstance(c, b)
  PROVE  FInv'
<1> DEFINE i == Target(c, b)
           new == Decoded(edit[c].row, b)
<1>0. /\ TypeOK /\ edit[c] # None /\ i \in Ids /\ new \in Rows
      /\ edit' = [edit EXCEPT ![c] = None]
      /\ UNCHANGED <<process, nextId, reads, page>>
  BY TargetType, DecodedType DEF UpdateInstance, FInv
<1>1. edit' \in [Clients -> [id : Ids, row : Rows] \cup {None}]
  BY <1>0 DEF TypeOK
<1>2. \A d \in Clients : edit'[d] # None => d # c /\ edit'[d] = edit[d] /\ edit[d].id \in Ids
  BY <1>0 DEF TypeOK
<1>3. CASE ~Updates(c, b)
  <2>1. UNCHANGED <<row, raced, moved>>
    BY <1>3 DEF UpdateInstance, Updates
  <2>2. TypeOK'
    BY <1>0, <1>1, <2>1 DEF TypeOK, process, reads, Registered
  <2>3. Moves
    BY <1>0, <2>1, FleetAssumption DEF Moves, TypeOK
  <2>4. EditsStand'
    BY <1>0, <1>2, <2>1 DEF FInv, EditsStand
  <2>5. nextId' \in Nat
    BY <2>2, FleetAssumption DEF TypeOK
  <2> QED
    BY <1>0, <2>2, <2>3, <2>4, <2>5, AnswersStay DEF FInv
<1>4. CASE Updates(c, b)
  <2>1. /\ i \in Registered
        /\ \A j \in Registered \ {i} : row[j].label # new.label
        /\ row' = [row EXCEPT ![i] = Stored(i, new)]
        /\ raced' = raced \cup {d \in Clients : edit[d] # None /\ edit[d].id = i}
        /\ moved' = IF new.base = row[i].base THEN moved ELSE moved \cup {i}
    BY <1>4 DEF UpdateInstance, Updates
  <2> HIDE DEF i, new
  <2>2. /\ Stored(i, new) \in Rows /\ Stored(i, new).label = new.label
        /\ Stored(i, new).base = new.base
    BY <1>0, <2>1, StoredType
  <2>3. /\ row' \in [Ids -> Rows \cup {None}] /\ row'[i] = Stored(i, new)
        /\ \A j \in Ids \ {i} : row'[j] = row[j]
    BY <1>0, <2>1, <2>2 DEF TypeOK
  <2>4. Registered' = Registered
    BY <1>0, <2>1, <2>2, <2>3, FleetAssumption DEF Registered
  <2>5. TypeOK'
    <3>1. \A j, k \in Registered' : row'[j].label = row'[k].label => j = k
      BY <1>0, <2>1, <2>2, <2>3, <2>4 DEF TypeOK, Registered
    <3>2. raced' \subseteq Clients /\ moved' \subseteq Ids
      BY <1>0, <2>1 DEF TypeOK
    <3> QED
      BY <1>0, <1>1, <2>3, <2>4, <3>1, <3>2 DEF TypeOK, process, reads
  <2>6. Moves
    BY <1>0, <2>1, <2>2, <2>3, FleetAssumption DEF Moves, Registered, TypeOK
  <2>7. EditsStand'
    <3> SUFFICES ASSUME NEW d \in Clients, edit'[d] # None
                 PROVE  /\ edit'[d].id < nextId'
                        /\ d \notin raced' /\ row'[edit'[d].id] # None =>
                               row'[edit'[d].id] = edit'[d].row
      BY DEF EditsStand
    <3>1. d # c /\ edit'[d] = edit[d] /\ edit[d] # None /\ edit[d].id \in Ids
      BY <1>2
    <3>2. edit'[d].id < nextId'
      BY <1>0, <3>1 DEF FInv, EditsStand
    <3>3. ASSUME d \notin raced', row'[edit'[d].id] # None
          PROVE  row'[edit'[d].id] = edit'[d].row
      <4>1. edit[d].id # i /\ d \notin raced
        BY <2>1, <3>1, <3>3
      <4>2. row'[edit[d].id] = row[edit[d].id]
        BY <2>3, <3>1, <4>1
      <4> QED
        BY <3>1, <3>3, <4>1, <4>2 DEF FInv, EditsStand
    <3> QED
      BY <3>2, <3>3
  <2>8. nextId' \in Nat
    BY <2>5, FleetAssumption DEF TypeOK
  <2> QED
    BY <1>0, <2>5, <2>6, <2>7, <2>8, AnswersStay DEF FInv
<1> QED
  BY <1>3, <1>4

-----------------------------------------------------------------------------
(* The fan-out.                                                            *)

Answers == [at : {"idle", "gather"}, listed : [Ids -> Rows \cup {None}],
            todo : SUBSET Ids, items : SUBSET Items, errors : SUBSET Ids]

LEMMA NothingAsked ==
  /\ NotAsked \in Answers
  /\ NoCalls \in [Ids -> Outcomes \cup {None}]
  /\ \A i \in Ids : NotAsked.listed[i] = None
  /\ NotAsked.items = {} /\ NotAsked.errors = {} /\ NotAsked.todo = {}
BY DEF NotAsked, NoCalls, Answers

LEMMA AskPreserves ==
  ASSUME FInv, NEW q \in Requests, Ask(q)
  PROVE  FInv'
<1> DEFINE asked == [NotAsked EXCEPT !.at = "gather", !.listed = row, !.todo = Registered]
<1>1. /\ ask' = [ask EXCEPT ![q] = asked]
      /\ row \in [Ids -> Rows \cup {None}]
      /\ ask \in [Requests -> Answers]
      /\ UNCHANGED <<process, registry, said, page>>
  BY DEF Ask, FInv, TypeOK, Answers
<1>2. /\ asked \in Answers
      /\ asked.listed = row /\ asked.todo = Registered
      /\ asked.items = {} /\ asked.errors = {}
  BY <1>1 DEF NotAsked, NoCalls, Answers, Registered
<1> HIDE DEF asked
<1>3. /\ ask' \in [Requests -> Answers] /\ ask'[q] = asked
      /\ \A p \in Requests \ {q} : ask'[p] = ask[p]
  BY <1>1, <1>2
<1>4. TypeOK'
  BY <1>1, <1>3 DEF FInv, TypeOK, Answers, process, registry, Registered
<1>5. EditsStand' /\ AnswerAccountsForAll' /\ PageStands'
  BY <1>1 DEF FInv, EditsStand, AnswerAccountsForAll, PageStands, Same, registry
<1>6. ListedStand'
  <2> SUFFICES ASSUME NEW p \in Requests, NEW i \in Ids, ask'[p].listed[i] # None
               PROVE  Same(i, ask'[p].listed[i].base)
    BY <1>1 DEF ListedStand, Same, registry
  <2>1. CASE p = q
    BY <1>2, <1>3, <2>1 DEF Same, FInv, TypeOK, Registered
  <2>2. CASE p # q
    BY <1>3, <2>2 DEF FInv, ListedStand
  <2> QED
    BY <2>1, <2>2
<1>7. ItemsStand'
  <2> SUFFICES ASSUME NEW p \in Requests
               PROVE  \A it \in ask'[p].items :
                         /\ ask'[p].listed[it.id] # None
                         /\ it.base = ask'[p].listed[it.id].base
    BY DEF ItemsStand
  <2>1. CASE p = q
    BY <1>2, <1>3, <2>1
  <2>2. CASE p # q
    BY <1>3, <2>2 DEF FInv, ItemsStand
  <2> QED
    BY <2>1, <2>2
<1>8. GatheredSoFar'
  <2>1. Listed(q)' = Registered
    BY <1>2, <1>3 DEF Listed, Registered
  <2>2. \A p \in Requests \ {q} : Listed(p)' = Listed(p)
    BY <1>3 DEF Listed
  <2>3. \A i \in Ids : RowsOf(ask'[q].items, i) = {}
    BY <1>2, <1>3 DEF RowsOf
  <2> QED
    BY <1>1, <1>2, <1>3, <2>1, <2>2, <2>3 DEF FInv, GatheredSoFar, Registered
<1> QED
  BY <1>4, <1>5, <1>6, <1>7, <1>8 DEF FInv

LEMMA TaggedRows ==
  ASSUME TypeOK, NEW q \in Requests, NEW i \in Listed(q), NEW envs \in SUBSET Envs
  PROVE  /\ Tagged(q, i, envs) \subseteq Items
         /\ \A it \in Tagged(q, i, envs) : it.id = i /\ it.base = ask[q].listed[i].base
         /\ {it.env : it \in Tagged(q, i, envs)} = envs
<1>1. i \in Ids /\ ask[q].listed[i].base \in Bases
  BY DEF TypeOK, Listed, Rows
<1>2. Tagged(q, i, envs) = {[id |-> i, base |-> ask[q].listed[i].base, env |-> e] : e \in envs}
  BY DEF Tagged
<1>3. \A e \in envs : \E it \in Tagged(q, i, envs) : it.env = e
  <2> TAKE e \in envs
  <2> DEFINE it == [id |-> i, base |-> ask[q].listed[i].base, env |-> e]
  <2>1. it \in Tagged(q, i, envs) /\ it.env = e
    BY <1>2
  <2> HIDE DEF it
  <2> QED
    BY <2>1
<1>4. \A it \in Tagged(q, i, envs) :
          it \in Items /\ it.id = i /\ it.base = ask[q].listed[i].base /\ it.env \in envs
  BY <1>1, <1>2 DEF Items
<1>5. {it.env : it \in Tagged(q, i, envs)} = envs
  BY <1>3, <1>4
<1> QED
  BY <1>4, <1>5

LEMMA CallPreserves ==
  ASSUME FInv, NEW q \in Requests, NEW i \in Ids, Call(q, i)
  PROVE  FInv'
<1> PICK outcome \in Outcomes :
      /\ said' = [said EXCEPT ![q][i] = outcome]
      /\ ask' = [ask EXCEPT
                   ![q].todo = @ \ {i},
                   ![q].errors = IF outcome.reachable THEN @ ELSE @ \cup {i},
                   ![q].items = @ \cup Tagged(q, i, outcome.envs)]
  BY DEF Call
<1> DEFINE rows == Tagged(q, i, outcome.envs)
<1>1. /\ TypeOK /\ i \in ask[q].todo /\ i \in Listed(q) /\ outcome.envs \in SUBSET Envs
      /\ outcome.reachable \in BOOLEAN /\ (~outcome.reachable => outcome.envs = {})
      /\ UNCHANGED <<process, registry, page>>
      /\ ask \in [Requests -> Answers]
      /\ said \in [Requests -> [Ids -> Outcomes \cup {None}]]
      /\ outcome # None
  BY FleetAssumption DEF Call, FInv, GatheredSoFar, Outcomes, Listings, Failures,
     TypeOK, Answers
<1>2. /\ rows \subseteq Items
      /\ \A it \in rows : it.id = i /\ it.base = ask[q].listed[i].base
      /\ {it.env : it \in rows} = outcome.envs
  BY <1>1, TaggedRows
<1> HIDE DEF rows
<1>3. /\ ask'[q].listed = ask[q].listed /\ ask'[q].at = ask[q].at
      /\ ask'[q].todo = ask[q].todo \ {i}
      /\ ask'[q].errors = IF outcome.reachable THEN ask[q].errors ELSE ask[q].errors \cup {i}
      /\ ask'[q].items = ask[q].items \cup rows
      /\ \A p \in Requests \ {q} : ask'[p] = ask[p]
      /\ ask' \in [Requests -> Answers]
  <2> DEFINE errors == IF outcome.reachable THEN ask[q].errors ELSE ask[q].errors \cup {i}
             after == [ask[q] EXCEPT !.todo = @ \ {i}, !.errors = errors,
                                     !.items = @ \cup rows]
  <2>1. ask' = [ask EXCEPT ![q] = after]
    BY <1>1 DEF rows
  <2>2. ask[q] \in Answers
    BY <1>1
  <2>3. /\ after.listed = ask[q].listed /\ after.at = ask[q].at
        /\ after.todo = ask[q].todo \ {i} /\ after.errors = errors
        /\ after.items = ask[q].items \cup rows
        /\ after \in Answers
    BY <1>2, <2>2 DEF Answers
  <2> HIDE DEF after
  <2> QED
    BY <1>1, <2>1, <2>3
<1>4. /\ said' \in [Requests -> [Ids -> Outcomes \cup {None}]]
      /\ said'[q][i] = outcome
      /\ \A j \in Ids \ {i} : said'[q][j] = said[q][j]
      /\ \A p \in Requests \ {q} : said'[p] = said[p]
  BY <1>1
<1>5. TypeOK'
  BY <1>1, <1>3, <1>4 DEF TypeOK, Answers, process, registry, Registered
<1>6. EditsStand' /\ AnswerAccountsForAll' /\ PageStands'
  BY <1>1 DEF FInv, EditsStand, AnswerAccountsForAll, PageStands, Same, registry
<1>7. ListedStand'
  <2>1. \A p \in Requests : ask'[p].listed = ask[p].listed
    BY <1>3
  <2> QED
    BY <1>1, <2>1 DEF FInv, ListedStand, Same, registry
<1>8. ItemsStand'
  <2> SUFFICES ASSUME NEW p \in Requests, NEW it \in ask'[p].items
               PROVE  /\ ask'[p].listed[it.id] # None
                      /\ it.base = ask'[p].listed[it.id].base
    BY DEF ItemsStand
  <2>1. CASE p = q /\ it \in rows
    BY <1>1, <1>2, <1>3, <2>1 DEF Listed
  <2>2. CASE p = q /\ it \in ask[q].items
    BY <1>3, <2>2 DEF FInv, ItemsStand
  <2>3. CASE p # q
    BY <1>3, <2>3 DEF FInv, ItemsStand
  <2> QED
    BY <1>3, <2>1, <2>2, <2>3
<1>9. GatheredSoFar'
  <2>1. \A p \in Requests : Listed(p)' = Listed(p)
    <3>1. \A p \in Requests : ask'[p].listed = ask[p].listed
      BY <1>3
    <3> QED
      BY <3>1 DEF Listed
  <2>2. RowsOf(ask[q].items, i) = {} /\ i \notin ask[q].errors
    BY <1>1 DEF FInv, GatheredSoFar
  <2>3. RowsOf(ask'[q].items, i) = outcome.envs
    <3>1. RowsOf(ask'[q].items, i) = {it.env : it \in rows} \cup RowsOf(ask[q].items, i)
      BY <1>2, <1>3 DEF RowsOf
    <3> QED
      BY <1>2, <2>2, <3>1
  <2>4. \A j \in Ids \ {i} : RowsOf(ask'[q].items, j) = RowsOf(ask[q].items, j)
    BY <1>2, <1>3 DEF RowsOf
  <2>5. Accounted(ask'[q].items, ask'[q].errors, said'[q][i], i)
    BY <1>1, <1>3, <1>4, <2>2, <2>3 DEF Accounted
  <2>6. \A j \in Listed(q) \ ask[q].todo :
            Accounted(ask'[q].items, ask'[q].errors, said'[q][j], j)
    <3> TAKE j \in Listed(q) \ ask[q].todo
    <3>1. j \in Ids \ {i}
      BY <1>1 DEF Listed
    <3>2. Accounted(ask[q].items, ask[q].errors, said[q][j], j)
      BY DEF FInv, GatheredSoFar
    <3>3. j \in ask'[q].errors <=> j \in ask[q].errors
      BY <1>3, <3>1
    <3> QED
      BY <1>4, <2>4, <3>1, <3>2, <3>3 DEF Accounted
  <2>7. /\ ask[q].todo \subseteq Listed(q)
        /\ ask[q].errors \subseteq Listed(q)
        /\ \A j \in ask[q].todo : j \notin ask[q].errors /\ RowsOf(ask[q].items, j) = {}
    BY DEF FInv, GatheredSoFar
  <2>8. /\ ask'[q].todo \subseteq Listed(q)
        /\ ask'[q].errors \subseteq Listed(q)
        /\ \A j \in ask'[q].todo : j \notin ask'[q].errors /\ RowsOf(ask'[q].items, j) = {}
    <3>1. ask[q].todo \subseteq Ids
      BY <1>1 DEF Answers
    <3>2. ask'[q].todo \subseteq Listed(q) /\ ask'[q].errors \subseteq Listed(q)
      BY <1>1, <1>3, <2>7
    <3>3. ASSUME NEW j \in ask'[q].todo
          PROVE  j \notin ask'[q].errors /\ RowsOf(ask'[q].items, j) = {}
      <4>1. j \in ask[q].todo /\ j \in Ids \ {i}
        BY <1>3, <3>1
      <4>2. j \notin ask[q].errors /\ RowsOf(ask[q].items, j) = {}
        BY <2>7, <4>1
      <4>3. j \notin ask'[q].errors
        BY <1>3, <4>1, <4>2
      <4> QED
        BY <2>4, <4>1, <4>2, <4>3
    <3> QED
      BY <3>2, <3>3
  <2>9. \A j \in Listed(q) \ ask'[q].todo :
            Accounted(ask'[q].items, ask'[q].errors, said'[q][j], j)
    BY <1>3, <2>5, <2>6
  <2>10. ASSUME NEW p \in Requests \ {q}
         PROVE  /\ ask'[p].todo \subseteq Listed(p)
                /\ ask'[p].errors \subseteq Listed(p)
                /\ \A j \in ask'[p].todo :
                      j \notin ask'[p].errors /\ RowsOf(ask'[p].items, j) = {}
                /\ \A j \in Listed(p) \ ask'[p].todo :
                      Accounted(ask'[p].items, ask'[p].errors, said'[p][j], j)
    BY <1>3, <1>4 DEF FInv, GatheredSoFar
  <2> QED
    BY <2>1, <2>8, <2>9, <2>10 DEF GatheredSoFar
<1> QED
  BY <1>5, <1>6, <1>7, <1>8, <1>9 DEF FInv

LEMMA ReplyPreserves ==
  ASSUME FInv, NEW q \in Requests, Reply(q)
  PROVE  FInv'
<1>1. /\ ask[q].todo = {} /\ page' \in {AnswerTo(q), NoAnswer}
      /\ ask' = [ask EXCEPT ![q] = NotAsked]
      /\ said' = [said EXCEPT ![q] = NoCalls]
      /\ UNCHANGED <<process, registry>>
      /\ TypeOK
  BY DEF Reply, FInv
<1>2. /\ ask \in [Requests -> Answers]
      /\ said \in [Requests -> [Ids -> Outcomes \cup {None}]]
  BY <1>1 DEF TypeOK, Answers
<1>3. /\ ask' = [p \in Requests |-> IF p \in {q} THEN NotAsked ELSE ask[p]]
      /\ said' = [p \in Requests |-> IF p \in {q} THEN NoCalls ELSE said[p]]
  BY <1>1, <1>2
<1>4. ListedStand' /\ ItemsStand' /\ GatheredSoFar'
  <2>1. ListedStand' /\ ItemsStand'
    BY <1>1, <1>3, NothingAsked DEF FInv, ListedStand, ItemsStand, Same, registry
  <2>2. /\ \A p \in Requests \ {q} : ask'[p] = ask[p] /\ said'[p] = said[p]
        /\ ask'[q] = NotAsked
    BY <1>3
  <2>3. Listed(q)' = {} /\ \A p \in Requests \ {q} : Listed(p)' = Listed(p)
    BY <2>2, NothingAsked DEF Listed
  <2>4. GatheredSoFar'
    BY <2>2, <2>3, NothingAsked DEF FInv, GatheredSoFar
  <2> QED
    BY <2>1, <2>4
<1>5. TypeOK'
  <2>1. ask' \in [Requests -> Answers] /\ said' \in [Requests -> [Ids -> Outcomes \cup {None}]]
    BY <1>1, <1>2, NothingAsked
  <2>2. page' \in [items : SUBSET Items, errors : SUBSET Ids, asked : SUBSET Ids,
                   said : [Ids -> Outcomes \cup {None}]]
    BY <1>1, <1>2, NothingAsked DEF AnswerTo, NoAnswer, Listed, Answers
  <2> QED
    BY <1>1, <2>1, <2>2 DEF TypeOK, Answers, process, registry, Registered
<1>6. EditsStand'
  BY <1>1 DEF FInv, EditsStand, registry
<1>7. CASE page' = NoAnswer
  BY <1>1, <1>4, <1>5, <1>6, <1>7 DEF FInv, AnswerAccountsForAll, PageStands, NoAnswer
<1>8. CASE page' = AnswerTo(q)
  <2>1. /\ page'.items = ask[q].items /\ page'.errors = ask[q].errors
        /\ page'.asked = Listed(q) /\ page'.said = said[q]
    BY <1>8 DEF AnswerTo
  <2>2. \A it \in page'.items : it.id \in Ids
    BY <1>2, <2>1 DEF Answers, Items
  <2>3. PageStands'
    <3>1. \A it \in page'.items : Same(it.id, it.base)
      BY <2>1, <2>2 DEF FInv, ItemsStand, ListedStand
    <3> QED
      BY <1>1, <3>1 DEF PageStands, Same, registry
  <2>4. AnswerAccountsForAll'
    <3>1. page'.errors \subseteq page'.asked
      BY <2>1 DEF FInv, GatheredSoFar
    <3>2. \A it \in page'.items : it.id \in page'.asked
      BY <2>1, <2>2 DEF FInv, ItemsStand, Listed
    <3>3. \A i \in page'.asked : Accounted(page'.items, page'.errors, page'.said[i], i)
      BY <1>1, <2>1 DEF FInv, GatheredSoFar
    <3> QED
      BY <3>1, <3>2, <3>3 DEF AnswerAccountsForAll, Accounted, RowsOf
  <2> QED
    BY <1>4, <1>5, <1>6, <2>3, <2>4 DEF FInv
<1> QED
  BY <1>1, <1>7, <1>8

LEMMA CrashPreserves == FInv /\ Crash => FInv'
<1> SUFFICES ASSUME FInv, Crash PROVE FInv'
  OBVIOUS
<1>1. TypeOK'
  <2>1. Len(Config) \in Nat /\ 1 \in 1 .. Len(Config) + 1
    BY FleetAssumption
  <2>2. restarts' \in 0 .. MaxRestarts
    BY FleetAssumption DEF Crash, FInv, TypeOK
  <2>3. ask' \in [Requests -> Answers] /\ said' \in [Requests -> [Ids -> Outcomes \cup {None}]]
    BY NothingAsked DEF Crash
  <2> QED
    BY <2>1, <2>2, <2>3 DEF Crash, FInv, TypeOK, Answers, Registered
<1>2. EditsStand'
  BY DEF Crash, EditsStand
<1>3. ListedStand' /\ ItemsStand'
  BY NothingAsked DEF Crash, ListedStand, ItemsStand
<1>4. GatheredSoFar'
  <2>1. \A p \in Requests : ask'[p] = NotAsked
    BY DEF Crash
  <2>2. \A p \in Requests : Listed(p)' = {}
    BY <2>1, NothingAsked DEF Listed
  <2> QED
    BY <2>1, <2>2, NothingAsked DEF GatheredSoFar
<1>5. AnswerAccountsForAll' /\ PageStands'
  BY DEF Crash, FInv, AnswerAccountsForAll, PageStands, Same
<1> QED
  BY <1>1, <1>2, <1>3, <1>4, <1>5 DEF FInv

-----------------------------------------------------------------------------
LEMMA StepPreserves == FInv /\ [Next]_vars => FInv'
<1> SUFFICES ASSUME FInv, [Next]_vars PROVE FInv'
  OBVIOUS
<1>1. CASE UNCHANGED vars
  <2>1. UNCHANGED <<process, registry, reads, page>>
    BY <1>1 DEF vars
  <2>2. TypeOK'
    BY <2>1 DEF process, registry, reads, FInv, TypeOK, Registered
  <2>3. Moves /\ nextId' \in Nat
    BY <2>1, FleetAssumption DEF registry, FInv, TypeOK, Moves
  <2>4. EditsStand'
    BY <2>1 DEF registry, FInv, EditsStand
  <2> QED
    BY <2>1, <2>2, <2>3, <2>4, AnswersStay DEF FInv
<1>2. CASE Seed \/ Crash
  BY <1>2, SeedPreserves, CrashPreserves
<1>3. ASSUME NEW r \in Creations, CreateInstance(r) PROVE FInv'
  BY <1>3, CreatePreserves
<1>4. ASSUME NEW i \in Ids, DeleteInstance(i) PROVE FInv'
  BY <1>4, DeletePreserves
<1>5. ASSUME NEW c \in Clients, NEW i \in Ids, ReadInstance(c, i) PROVE FInv'
  BY <1>5, ReadPreserves
<1>6. ASSUME NEW c \in Clients, NEW b \in Bodies, UpdateInstance(c, b) PROVE FInv'
  BY <1>6, UpdatePreserves
<1>7. ASSUME NEW q \in Requests, Ask(q) PROVE FInv'
  BY <1>7, AskPreserves
<1>8. ASSUME NEW q \in Requests, Reply(q) PROVE FInv'
  BY <1>8, ReplyPreserves
<1>9. ASSUME NEW q \in Requests, NEW i \in Ids, Call(q, i) \/ CallPanics(q, i)
      PROVE  FInv'
  BY <1>9, CallPreserves, CrashPreserves DEF CallPanics
<1> QED
  BY <1>1, <1>2, <1>3, <1>4, <1>5, <1>6, <1>7, <1>8, <1>9 DEF Next

(* The registry, the updates under way, the fan-outs and the page keep     *)
(* their relations in every state.                                         *)
THEOREM FleetInvariance == Spec => []FInv
<1>1. Init => FInv
  BY InitEstablishes
<1>2. FInv /\ [Next]_vars => FInv'
  BY StepPreserves
<1> QED
  BY <1>1, <1>2, PTL DEF Spec

(* Type correctness: ids are handed out once, labels are unique.           *)
THEOREM FleetTypeCorrect == Spec => []TypeOK
<1>1. FInv => TypeOK
  BY DEF FInv
<1> QED
  BY <1>1, FleetInvariance, PTL

(* Fanout: every instance that was listed is in the answer once, by its    *)
(* rows or by its error, whatever became of the others.                    *)
THEOREM AnswersAccountForAll == Spec => []AnswerAccountsForAll
<1>1. FInv => AnswerAccountsForAll
  BY DEF FInv
<1> QED
  BY <1>1, FleetInvariance, PTL

(* proxyToInstance: a row of the page never leads to another edp than the  *)
(* one it came from, unless that instance's base_url was changed.          *)
THEOREM ActsWhereShownAlways == Spec => []ActsWhereShown
<1>1. FInv => ActsWhereShown
  BY DEF FInv, ActsWhereShown, PageStands, Same, Destination, Registered
<1> QED
  BY <1>1, FleetInvariance, PTL

LEMMA UpdateKeepsToken ==
  ASSUME FInv, NEW c \in Clients, NEW b \in Bodies, edit[c] # None, UpdateInstance(c, b),
         \/ b.token = NoToken
         \/ b.token = Omitted /\ c \notin raced /\ Target(c, b) = edit[c].id
  PROVE  \A i \in Registered : row'[i].token = row[i].token
<1> DEFINE t == Target(c, b)
           new == Decoded(edit[c].row, b)
<1>1. TypeOK /\ t \in Ids /\ new \in Rows /\ row \in [Ids -> Rows \cup {None}]
  BY TargetType, DecodedType DEF FInv, TypeOK
<1>2. CASE ~Updates(c, b)
  BY <1>2 DEF UpdateInstance, Updates
<1>3. CASE Updates(c, b)
  <2>1. t \in Registered /\ row' = [row EXCEPT ![t] = Stored(t, new)]
    BY <1>3 DEF UpdateInstance, Updates
  <2>2. new.token = NoToken \/ new.token = row[t].token
    <3>1. CASE b.token = NoToken
      BY <3>1, FleetAssumption DEF Decoded
    <3>2. CASE b.token = Omitted /\ c \notin raced /\ t = edit[c].id
      BY <2>1, <3>2 DEF Decoded, FInv, EditsStand, Registered
    <3> QED
      BY <3>1, <3>2
  <2> HIDE DEF t, new
  <2>3. Stored(t, new).token = row[t].token
    BY <1>1, <2>1, <2>2, StoredType
  <2>4. \A i \in Registered : row'[i] = IF i = t THEN Stored(t, new) ELSE row[i]
    BY <1>1, <2>1 DEF Registered
  <2> QED
    BY <2>3, <2>4
<1> QED
  BY <1>2, <1>3

(* apiUpdateInstance: an update that leaves the token out changes no token *)
(* that it read, whoever else edits the registry.                          *)
THEOREM OmittedTokensAreKept == Spec => OmittedTokenIsKept
<1>1. FInv => (\A c \in Clients, b \in Bodies :
                 /\ edit[c] # None
                 /\ \/ b.token = NoToken
                    \/ b.token = Omitted /\ c \notin raced /\ Target(c, b) = edit[c].id
                 /\ UpdateInstance(c, b)
                 => \A i \in Registered : row'[i].token = row[i].token)
  BY UpdateKeepsToken
<1> QED
  BY <1>1, FleetInvariance, PTL DEF OmittedTokenIsKept
=============================================================================
