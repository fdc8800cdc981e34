-------------------------- MODULE Dashboards_proofs --------------------------
(***************************************************************************)
(* Proofs about Dashboards, for any number of environments and clients,    *)
(* channels and connections of any size, and as many changes as one likes. *)
(***************************************************************************)
EXTENDS Dashboards, TLAPS

(* apiEventsStream has subscribed before it nudges.                        *)
HandlersSubscribe ==
    \A c \in Clients : pc[c] \in {"nudge", "loop", "write"} => c \in subs

(* No container has changed more often than all of them.                   *)
ChangesCounted == \A e \in Envs : state[e] <= changes

DInv == TypeOK /\ HandlersSubscribe /\ ChangesCounted /\ StaleIsExplained

-----------------------------------------------------------------------------
(* The events in a pipe.                                                   *)

LEMMA AppendAdds ==
  ASSUME NEW S, NEW s \in Seq(S), NEW e \in S
  PROVE  /\ Append(s, e) \in Seq(S) /\ Append(s, e) # <<>>
         /\ Len(Append(s, e)) = Len(s) + 1
         /\ ToSet(Append(s, e)) = ToSet(s) \cup {e}
<1>1. /\ Append(s, e) \in Seq(S) /\ Len(Append(s, e)) = Len(s) + 1 /\ Len(s) \in Nat
      /\ \A i \in 1 .. Len(s) + 1 : Append(s, e)[i] = IF i <= Len(s) THEN s[i] ELSE e
      /\ DOMAIN s = 1 .. Len(s) /\ DOMAIN Append(s, e) = 1 .. Len(s) + 1
  OBVIOUS
<1>2. ToSet(Append(s, e)) \subseteq ToSet(s) \cup {e}
  BY <1>1 DEF ToSet
<1>3. ToSet(s) \subseteq ToSet(Append(s, e))
  BY <1>1 DEF ToSet
<1>4. e \in ToSet(Append(s, e))
  <2>1. Len(s) + 1 \in DOMAIN Append(s, e) /\ Append(s, e)[Len(s) + 1] = e
    BY <1>1
  <2> QED
    BY <2>1 DEF ToSet
<1>5. Append(s, e) # <<>>
  BY <1>1
<1> QED
  BY <1>1, <1>2, <1>3, <1>4, <1>5

LEMMA HeadAndTail ==
  ASSUME NEW S, NEW s \in Seq(S), s # <<>>
  PROVE  /\ Head(s) \in S /\ Tail(s) \in Seq(S)
         /\ Len(Tail(s)) = Len(s) - 1
         /\ ToSet(s) = {Head(s)} \cup ToSet(Tail(s))
<1>1. /\ Head(s) \in S /\ Tail(s) \in Seq(S) /\ Len(Tail(s)) = Len(s) - 1
      /\ Len(s) \in Nat \ {0} /\ Head(s) = s[1]
      /\ \A i \in 1 .. Len(s) - 1 : Tail(s)[i] = s[i + 1]
      /\ DOMAIN s = 1 .. Len(s) /\ DOMAIN Tail(s) = 1 .. Len(s) - 1
  OBVIOUS
<1>2. ToSet(s) \subseteq {Head(s)} \cup ToSet(Tail(s))
  <2> SUFFICES ASSUME NEW i \in 1 .. Len(s)
               PROVE  s[i] \in {Head(s)} \cup ToSet(Tail(s))
    BY <1>1 DEF ToSet
  <2>1. CASE i = 1
    BY <1>1, <2>1
  <2>2. CASE i # 1
    <3>1. i - 1 \in 1 .. Len(s) - 1 /\ Tail(s)[i - 1] = s[i]
      BY <1>1, <2>2
    <3> QED
      BY <1>1, <3>1 DEF ToSet
  <2> QED
    BY <2>1, <2>2
<1>3. {Head(s)} \cup ToSet(Tail(s)) \subseteq ToSet(s)
  BY <1>1 DEF ToSet
<1> QED
  BY <1>1, <1>2, <1>3

-----------------------------------------------------------------------------
LEMMA DInit == Init => DInv
<1> SUFFICES ASSUME Init PROVE DInv
  OBVIOUS
<1>1. TypeOK
  <2>1. <<>> \in Seq(Envs) /\ Len(<<>>) <= Capacity
    BY DashboardsAssumption
  <2>2. 0 \in Versions /\ 0 \in 0 .. WireSize
    BY DashboardsAssumption DEF Versions
  <2>3. Nothing \in [Envs -> Versions \cup {Unread, Unknown}]
    BY DEF Nothing
  <2>4. /\ state \in [Envs -> Versions] /\ changes \in Versions
        /\ stream \in Seq(Envs) /\ watcher \in {"away", "reading", "deaf"}
        /\ missed \subseteq Envs
        /\ subs \subseteq Clients
        /\ queue \in [Clients -> Seq(Envs)]
        /\ \A c \in Clients : Len(queue[c]) <= Capacity
    BY <2>1, <2>2 DEF Init
  <2>5. /\ pc \in [Clients -> {"none", "leave", "left"} \cup Handling]
        /\ wire \in [Clients -> 0 .. WireSize]
        /\ page \in [Clients -> {"closed", "open"}]
        /\ loading \in [Clients -> BOOLEAN] /\ broken \in [Clients -> BOOLEAN]
    BY <2>2 DEF Init
  <2>6. /\ got \in [Clients -> [Envs -> Versions \cup {Unread, Unknown}]]
        /\ shown \in [Clients -> [Envs -> Versions \cup {Unread, Unknown}]]
    BY <2>3 DEF Init
  <2> QED
    BY <2>4, <2>5, <2>6 DEF TypeOK
<1>2. HandlersSubscribe /\ StaleIsExplained
  BY DEF Init, HandlersSubscribe, StaleIsExplained, Watching, Handling
<1>3. ChangesCounted
  BY DEF Init, ChangesCounted
<1> QED
  BY <1>1, <1>2, <1>3 DEF DInv

(* StaleIsExplained, for one client and one environment.                   *)
Explained(c, e) ==
    Watching(c) => UpToDate(c, e) \/ Nudged(c) \/ e \in ToSet(stream) \cup missed

(* Nothing that concerns client c changes.                                 *)
Apart(c) == /\ page'[c] = page[c] /\ pc'[c] = pc[c] /\ wire'[c] = wire[c]
            /\ queue'[c] = queue[c] /\ loading'[c] = loading[c] /\ got'[c] = got[c]
            /\ shown'[c] = shown[c] /\ broken'[c] = broken[c]

LEMMA ApartStays ==
  ASSUME NEW c \in Clients, NEW e \in Envs, Apart(c), UNCHANGED docker, Explained(c, e)
  PROVE  Explained(c, e)'
BY DEF Apart, docker, Explained, Watching, UpToDate, Nudged

(* A step of client c's own is a matter of what c is owed.                 *)
LEMMA OwnStep ==
  ASSUME DInv, NEW c \in Clients, UNCHANGED docker,
         \A d \in Clients \ {c} : Apart(d),
         \A e \in Envs : Explained(c, e)'
  PROVE  StaleIsExplained' /\ ChangesCounted'
<1>1. \A d \in Clients \ {c}, e \in Envs : Explained(d, e)'
  BY ApartStays DEF DInv, StaleIsExplained, Explained
<1>2. \A d \in Clients, e \in Envs : Explained(d, e)'
  BY <1>1
<1>3. StaleIsExplained'
  BY <1>2 DEF StaleIsExplained, Explained
<1> QED
  BY <1>3 DEF DInv, ChangesCounted, docker

-----------------------------------------------------------------------------
(* Docker, and the watcher.                                                *)

LEMMA ChangePreserves ==
  ASSUME DInv, NEW e \in Envs, ChangeContainer(e)
  PROVE  DInv'
<1>1. /\ TypeOK /\ changes' = changes + 1 /\ changes < MaxChanges
      /\ state' = [state EXCEPT ![e] = @ + 1]
      /\ UNCHANGED <<watcher, hub, handler, browser>>
      /\ changes \in Nat /\ state \in [Envs -> Nat]
  BY DashboardsAssumption DEF ChangeContainer, DInv, TypeOK, Versions
<1>2. /\ stream' \in Seq(Envs) /\ missed' \subseteq Envs
      /\ ToSet(stream) \subseteq ToSet(stream') /\ missed \ {e} \subseteq missed'
      /\ e \in ToSet(stream') \cup missed'
  <2>1. CASE watcher = "reading"
    <3>1. stream' = Append(stream, e) /\ missed' = missed \ {e}
      BY <2>1 DEF ChangeContainer
    <3> QED
      BY <1>1, <3>1, AppendAdds DEF TypeOK
  <2>2. CASE watcher # "reading"
    BY <1>1, <2>2 DEF ChangeContainer, TypeOK
  <2> QED
    BY <2>1, <2>2
<1>3. ChangesCounted' /\ \A d \in Envs : state'[d] \in Nat
  BY <1>1 DEF DInv, ChangesCounted
<1>4. TypeOK'
  <2>1. changes' \in Versions
    BY <1>1, DashboardsAssumption DEF Versions
  <2>2. \A d \in Envs : state'[d] \in Versions
    BY <1>1, <1>3, <2>1, DashboardsAssumption DEF ChangesCounted, Versions
  <2>3. state' \in [Envs -> Versions]
    BY <1>1, <2>2
  <2> QED
    BY <1>1, <1>2, <2>1, <2>3 DEF TypeOK, hub, handler, browser
<1>5. HandlersSubscribe'
  BY <1>1 DEF DInv, HandlersSubscribe, hub, handler
<1>6. StaleIsExplained'
  <2> SUFFICES ASSUME NEW c \in Clients, NEW d \in Envs PROVE Explained(c, d)'
    BY DEF StaleIsExplained, Explained
  <2>1. CASE d = e
    BY <1>2, <2>1 DEF Explained
  <2>2. CASE d # e
    <3>1. state'[d] = state[d]
      BY <1>1, <2>2
    <3>2. Explained(c, d)
      BY DEF DInv, StaleIsExplained, Explained
    <3> QED
      BY <1>1, <1>2, <2>2, <3>1, <3>2 DEF Explained, Watching, UpToDate, Nudged, hub,
                                          handler, browser
  <2> QED
    BY <2>1, <2>2
<1> QED
  BY <1>3, <1>4, <1>5, <1>6 DEF DInv

LEMMA GiveUpPreserves == DInv /\ GiveUp => DInv'
<1> SUFFICES ASSUME DInv, GiveUp PROVE DInv'
  OBVIOUS
<1>1. /\ UNCHANGED <<state, changes, hub, handler, browser>> /\ TypeOK
      /\ watcher' = "deaf"
  BY DEF GiveUp, DInv
<1>2. /\ stream' \in Seq(Envs) /\ missed' \subseteq Envs
      /\ ToSet(stream) \cup missed \subseteq ToSet(stream') \cup missed'
  <2>1. ToSet(stream) \subseteq Envs
    BY <1>1 DEF TypeOK, ToSet
  <2> QED
    BY <1>1, <2>1 DEF TypeOK, GiveUp
<1>3. TypeOK'
  BY <1>1, <1>2 DEF TypeOK, hub, handler, browser
<1>4. HandlersSubscribe' /\ ChangesCounted'
  BY <1>1 DEF DInv, HandlersSubscribe, ChangesCounted, hub, handler
<1>5. StaleIsExplained'
  BY <1>1, <1>2 DEF DInv, StaleIsExplained, Watching, UpToDate, Nudged, hub,
      handler, browser
<1> QED
  BY <1>3, <1>4, <1>5 DEF DInv

(* StreamEnds and Attach change nothing else.                              *)
LEMMA WatcherPreserves ==
  ASSUME DInv, watcher' \in {"away", "reading"},
         UNCHANGED <<state, changes, stream, missed, hub, handler, browser>>
  PROVE  DInv'
<1>1. TypeOK'
  BY DEF DInv, TypeOK, hub, handler, browser
<1>2. HandlersSubscribe' /\ ChangesCounted'
  BY DEF DInv, HandlersSubscribe, ChangesCounted, hub, handler
<1>3. StaleIsExplained'
  BY DEF DInv, StaleIsExplained, Watching, UpToDate, Nudged, hub, handler, browser
<1> QED
  BY <1>1, <1>2, <1>3 DEF DInv

LEMMA BroadcastPreserves == DInv /\ Broadcast => DInv'
<1> SUFFICES ASSUME DInv, Broadcast PROVE DInv'
  OBVIOUS
<1>1. /\ TypeOK /\ stream # <<>> /\ stream' = Tail(stream)
      /\ queue' = [c \in Clients |-> IF c \in subs /\ Len(queue[c]) < Capacity
                                     THEN Append(queue[c], Head(stream)) ELSE queue[c]]
      /\ UNCHANGED <<state, changes, watcher, missed, subs, handler, browser>>
  BY DEF Broadcast, DInv
<1>2. /\ Head(stream) \in Envs /\ stream' \in Seq(Envs)
      /\ ToSet(stream) = {Head(stream)} \cup ToSet(stream')
  BY <1>1, HeadAndTail DEF TypeOK
<1>3. ASSUME NEW c \in Clients
      PROVE  /\ queue'[c] \in Seq(Envs) /\ Len(queue'[c]) <= Capacity
             /\ c \in subs => queue'[c] # <<>>
             /\ queue[c] # <<>> => queue'[c] # <<>>
  <2>1. queue[c] \in Seq(Envs) /\ Len(queue[c]) <= Capacity /\ Len(queue[c]) \in Nat
    BY <1>1 DEF TypeOK
  <2>2. CASE c \in subs /\ Len(queue[c]) < Capacity
    <3>1. queue'[c] = Append(queue[c], Head(stream))
      BY <1>1, <2>2
    <3>2. queue'[c] \in Seq(Envs) /\ queue'[c] # <<>> /\ Len(queue'[c]) = Len(queue[c]) + 1
      BY <1>2, <2>1, <3>1, AppendAdds
    <3> QED
      BY <2>1, <2>2, <3>2, DashboardsAssumption
  <2>3. CASE ~(c \in subs /\ Len(queue[c]) < Capacity)
    BY <1>1, <2>1, <2>3, DashboardsAssumption
  <2> QED
    BY <2>2, <2>3
<1>4. TypeOK'
  <2>1. queue' \in [Clients -> Seq(Envs)]
    BY <1>1, <1>3
  <2> QED
    BY <1>1, <1>2, <1>3, <2>1 DEF TypeOK, handler, browser
<1>5. HandlersSubscribe' /\ ChangesCounted'
  BY <1>1 DEF DInv, HandlersSubscribe, ChangesCounted, handler
<1>6. StaleIsExplained'
  <2> SUFFICES ASSUME NEW c \in Clients, NEW e \in Envs, Watching(c)'
               PROVE  (UpToDate(c, e) \/ Nudged(c) \/ e \in ToSet(stream) \cup missed)'
    BY DEF StaleIsExplained
  <2>1. Watching(c) /\ (UpToDate(c, e)' <=> UpToDate(c, e))
    BY <1>1 DEF Watching, UpToDate, handler, browser
  <2>2. CASE pc[c] = "opened"
    BY <1>1, <2>2 DEF Nudged, handler
  <2>3. CASE pc[c] # "opened"
    <3>1. c \in subs
      BY <2>1, <2>3 DEF DInv, HandlersSubscribe, Watching, Handling
    <3> QED
      BY <1>3, <3>1 DEF Nudged
  <2> QED
    BY <2>2, <2>3
<1> QED
  BY <1>4, <1>5, <1>6 DEF DInv

-----------------------------------------------------------------------------
(* The handlers.                                                           *)

LEMMA SubscribePreserves == ASSUME DInv, NEW c \in Clients, Subscribe(c) PROVE DInv'
<1>1. /\ TypeOK /\ pc' = [pc EXCEPT ![c] = "nudge"] /\ subs' = subs \cup {c}
      /\ UNCHANGED <<docker, queue, wire, browser>>
  BY DEF Subscribe, Step, DInv
<1>2. TypeOK'
  BY <1>1 DEF TypeOK, docker, browser, Handling
<1>3. HandlersSubscribe'
  BY <1>1 DEF DInv, TypeOK, HandlersSubscribe
<1>4. \A d \in Clients \ {c} : Apart(d)
  BY <1>1 DEF TypeOK, Apart, browser
<1>5. \A e \in Envs : Explained(c, e)'
  BY <1>1 DEF TypeOK, Explained, Nudged
<1> QED
  BY <1>1, <1>2, <1>3, <1>4, <1>5, OwnStep DEF DInv

LEMMA NudgePreserves == ASSUME DInv, NEW c \in Clients, Nudge(c) PROVE DInv'
<1>1. /\ TypeOK /\ pc' = [pc EXCEPT ![c] = "loop"] /\ pc[c] = "nudge"
      /\ wire[c] < WireSize /\ wire' = [wire EXCEPT ![c] = @ + 1]
      /\ wire[c] \in 0 .. WireSize
      /\ UNCHANGED <<docker, hub, browser>>
  BY DEF Nudge, Step, Send, DInv, TypeOK
<1>2. wire'[c] \in 0 .. WireSize /\ wire'[c] > 0
  BY <1>1, DashboardsAssumption DEF TypeOK
<1>3. TypeOK'
  BY <1>1, <1>2 DEF TypeOK, docker, hub, browser, Handling
<1>4. HandlersSubscribe'
  BY <1>1 DEF DInv, TypeOK, HandlersSubscribe, hub
<1>5. \A d \in Clients \ {c} : Apart(d)
  BY <1>1 DEF TypeOK, Apart, hub, browser
<1>6. \A e \in Envs : Explained(c, e)'
  BY <1>2 DEF Explained, Nudged
<1> QED
  BY <1>1, <1>3, <1>4, <1>5, <1>6, OwnStep DEF DInv

LEMMA ReceivePreserves == ASSUME DInv, NEW c \in Clients, Receive(c) PROVE DInv'
<1>1. /\ TypeOK /\ pc' = [pc EXCEPT ![c] = "write"] /\ pc[c] = "loop"
      /\ queue[c] # <<>> /\ queue' = [queue EXCEPT ![c] = Tail(@)]
      /\ UNCHANGED <<docker, subs, wire, browser>>
  BY DEF Receive, Step, DInv
<1>2. queue'[c] \in Seq(Envs) /\ Len(queue'[c]) <= Capacity
  <2>1. /\ queue[c] \in Seq(Envs) /\ Len(queue[c]) <= Capacity /\ Len(queue[c]) \in Nat
        /\ queue'[c] = Tail(queue[c])
    BY <1>1 DEF TypeOK
  <2>2. queue'[c] \in Seq(Envs) /\ Len(queue'[c]) = Len(queue[c]) - 1
    BY <1>1, <2>1, HeadAndTail
  <2> QED
    BY <2>1, <2>2, DashboardsAssumption
<1>3. \A d \in Clients \ {c} : queue'[d] = queue[d]
  BY <1>1 DEF TypeOK
<1>4. TypeOK'
  <2>1. queue' \in [Clients -> Seq(Envs)] /\ \A d \in Clients : Len(queue'[d]) <= Capacity
    BY <1>1, <1>2, <1>3 DEF TypeOK
  <2> QED
    BY <1>1, <2>1 DEF TypeOK, docker, browser, Handling
<1>5. HandlersSubscribe'
  BY <1>1 DEF DInv, TypeOK, HandlersSubscribe
<1>6. \A d \in Clients \ {c} : Apart(d)
  BY <1>1, <1>3 DEF TypeOK, Apart, browser
<1>7. \A e \in Envs : Explained(c, e)'
  BY <1>1 DEF TypeOK, Explained, Nudged
<1> QED
  BY <1>1, <1>4, <1>5, <1>6, <1>7, OwnStep DEF DInv

LEMMA WritePreserves == ASSUME DInv, NEW c \in Clients, Write(c) PROVE DInv'
<1>1. /\ TypeOK /\ pc' = [pc EXCEPT ![c] = "loop"] /\ pc[c] = "write"
      /\ wire[c] < WireSize /\ wire' = [wire EXCEPT ![c] = @ + 1]
      /\ wire[c] \in 0 .. WireSize
      /\ UNCHANGED <<docker, hub, browser>>
  BY DEF Write, Step, Send, DInv, TypeOK
<1>2. wire'[c] \in 0 .. WireSize /\ wire'[c] > 0
  BY <1>1, DashboardsAssumption DEF TypeOK
<1>3. TypeOK'
  BY <1>1, <1>2 DEF TypeOK, docker, hub, browser, Handling
<1>4. HandlersSubscribe'
  BY <1>1 DEF DInv, TypeOK, HandlersSubscribe, hub
<1>5. \A d \in Clients \ {c} : Apart(d)
  BY <1>1 DEF TypeOK, Apart, hub, browser
<1>6. \A e \in Envs : Explained(c, e)'
  BY <1>2 DEF Explained, Nudged
<1> QED
  BY <1>1, <1>3, <1>4, <1>5, <1>6, OwnStep DEF DInv

LEMMA DisconnectPreserves == ASSUME DInv, NEW c \in Clients, Disconnect(c) PROVE DInv'
<1>1. /\ TypeOK /\ pc' = [pc EXCEPT ![c] = "leave"] /\ wire' = [wire EXCEPT ![c] = 0]
      /\ UNCHANGED <<docker, hub, browser>>
  BY DEF Disconnect, DInv
<1>2. TypeOK'
  BY <1>1, DashboardsAssumption DEF TypeOK, docker, hub, browser
<1>3. HandlersSubscribe'
  BY <1>1 DEF DInv, TypeOK, HandlersSubscribe, hub
<1>4. \A d \in Clients \ {c} : Apart(d)
  BY <1>1 DEF TypeOK, Apart, hub, browser
<1>5. \A e \in Envs : Explained(c, e)'
  BY <1>1 DEF TypeOK, Explained, Watching, Handling
<1> QED
  BY <1>1, <1>2, <1>3, <1>4, <1>5, OwnStep DEF DInv

LEMMA CancelPreserves == ASSUME DInv, NEW c \in Clients, Cancel(c) PROVE DInv'
<1>1. /\ TypeOK /\ pc' = [pc EXCEPT ![c] = "left"] /\ subs' = subs \ {c}
      /\ queue' = [queue EXCEPT ![c] = <<>>]
      /\ UNCHANGED <<docker, wire, browser>>
  BY DEF Cancel, Step, DInv
<1>2. TypeOK'
  BY <1>1, DashboardsAssumption DEF TypeOK, docker, browser
<1>3. HandlersSubscribe'
  BY <1>1 DEF DInv, TypeOK, HandlersSubscribe
<1>4. \A d \in Clients \ {c} : Apart(d)
  BY <1>1 DEF TypeOK, Apart, browser
<1>5. \A e \in Envs : Explained(c, e)'
  BY <1>1 DEF TypeOK, Explained, Watching, Handling
<1> QED
  BY <1>1, <1>2, <1>3, <1>4, <1>5, OwnStep DEF DInv

-----------------------------------------------------------------------------
(* The page.                                                               *)

LEMMA NothingType == Nothing \in [Envs -> Versions \cup {Unread, Unknown}]
BY DEF Nothing

LEMMA OpenPagePreserves == ASSUME DInv, NEW c \in Clients, OpenPage(c) PROVE DInv'
<1>1. /\ TypeOK /\ pc' = [pc EXCEPT ![c] = "opened"] /\ page' = [page EXCEPT ![c] = "open"]
      /\ loading' = [loading EXCEPT ![c] = TRUE] /\ got' = [got EXCEPT ![c] = Nothing]
      /\ UNCHANGED <<docker, hub, wire, shown, broken>>
  BY DEF OpenPage, Reload, DInv
<1>2. TypeOK'
  BY <1>1, NothingType DEF TypeOK, docker, hub, Handling
<1>3. HandlersSubscribe'
  BY <1>1 DEF DInv, TypeOK, HandlersSubscribe, hub
<1>4. \A d \in Clients \ {c} : Apart(d)
  BY <1>1 DEF TypeOK, Apart, hub
<1>5. \A e \in Envs : Explained(c, e)'
  BY <1>1 DEF TypeOK, Explained, Nudged
<1> QED
  BY <1>1, <1>2, <1>3, <1>4, <1>5, OwnStep DEF DInv

LEMMA ReadNudgePreserves == ASSUME DInv, NEW c \in Clients, ReadNudge(c) PROVE DInv'
<1>1. /\ TypeOK /\ wire[c] > 0 /\ wire' = [wire EXCEPT ![c] = @ - 1]
      /\ loading' = [loading EXCEPT ![c] = TRUE] /\ got' = [got EXCEPT ![c] = Nothing]
      /\ wire[c] \in 0 .. WireSize
      /\ UNCHANGED <<docker, hub, pc, page, shown, broken>>
  BY DEF ReadNudge, Reload, DInv, TypeOK
<1>2. wire'[c] \in 0 .. WireSize
  BY <1>1, DashboardsAssumption DEF TypeOK
<1>3. TypeOK'
  BY <1>1, <1>2, NothingType DEF TypeOK, docker, hub
<1>4. HandlersSubscribe'
  BY <1>1 DEF DInv, HandlersSubscribe, hub
<1>5. \A d \in Clients \ {c} : Apart(d)
  BY <1>1 DEF TypeOK, Apart, hub
<1>6. \A e \in Envs : Explained(c, e)'
  BY <1>1 DEF TypeOK, Explained, UpToDate, Nothing
<1> QED
  BY <1>1, <1>3, <1>4, <1>5, <1>6, OwnStep DEF DInv

LEMMA ReadStatePreserves ==
  ASSUME DInv, NEW c \in Clients, NEW e \in Envs, ReadState(c, e)
  PROVE  DInv'
<1> PICK s \in {state[e], Unknown} : got' = [got EXCEPT ![c][e] = s]
  BY DEF ReadState, Seen
<1>1. /\ TypeOK /\ loading[c]
      /\ UNCHANGED <<docker, hub, handler, page, loading, shown, broken>>
      /\ s \in Versions \cup {Unread, Unknown}
      /\ got \in [Clients -> [Envs -> Versions \cup {Unread, Unknown}]]
  BY DEF ReadState, DInv, TypeOK
<1>2. /\ got' \in [Clients -> [Envs -> Versions \cup {Unread, Unknown}]]
      /\ got'[c][e] = s /\ \A d \in Envs \ {e} : got'[c][d] = got[c][d]
      /\ \A d \in Clients \ {c} : got'[d] = got[d]
  BY <1>1
<1>3. TypeOK'
  BY <1>1, <1>2 DEF TypeOK, docker, hub, handler
<1>4. HandlersSubscribe'
  BY <1>1 DEF DInv, HandlersSubscribe, hub, handler
<1>5. \A d \in Clients \ {c} : Apart(d)
  BY <1>1, <1>2 DEF Apart, hub, handler
<1>6. \A d \in Envs : Explained(c, d)'
  <2> TAKE d \in Envs
  <2>1. CASE d = e
    BY <1>1, <1>2, <2>1 DEF Explained, UpToDate, docker
  <2>2. CASE d # e
    <3>1. Explained(c, d)
      BY DEF DInv, StaleIsExplained, Explained
    <3> QED
      BY <1>1, <1>2, <2>2, <3>1 DEF Explained, Watching, UpToDate, Nudged, docker, hub,
                                    handler
  <2> QED
    BY <2>1, <2>2
<1> QED
  BY <1>1, <1>3, <1>4, <1>5, <1>6, OwnStep DEF DInv

LEMMA AnswerPreserves == ASSUME DInv, NEW c \in Clients, Answer(c) PROVE DInv'
<1>1. /\ TypeOK /\ loading[c] /\ \A e \in Envs : got[c][e] # Unread
      /\ loading' = [loading EXCEPT ![c] = FALSE] /\ got' = [got EXCEPT ![c] = Nothing]
      /\ shown' = [shown EXCEPT ![c] = got[c]] /\ broken' = [broken EXCEPT ![c] = FALSE]
      /\ UNCHANGED <<docker, hub, handler, page>>
  BY DEF Answer, DInv
<1>2. TypeOK'
  BY <1>1, NothingType DEF TypeOK, docker, hub, handler
<1>3. HandlersSubscribe'
  BY <1>1 DEF DInv, HandlersSubscribe, hub, handler
<1>4. \A d \in Clients \ {c} : Apart(d)
  BY <1>1 DEF TypeOK, Apart, hub, handler
<1>5. \A e \in Envs : Explained(c, e)'
  <2> TAKE e \in Envs
  <2>1. Explained(c, e)
    BY DEF DInv, StaleIsExplained, Explained
  <2>2. shown'[c] = got[c] /\ loading'[c] = FALSE
    BY <1>1 DEF TypeOK
  <2>3. UpToDate(c, e) => UpToDate(c, e)'
    BY <1>1, <2>2 DEF UpToDate, docker
  <2>4. (Nudged(c)' <=> Nudged(c)) /\ (Watching(c)' <=> Watching(c))
    BY <1>1 DEF Nudged, Watching, hub, handler
  <2> QED
    BY <1>1, <2>1, <2>3, <2>4 DEF Explained, docker
<1> QED
  BY <1>1, <1>2, <1>3, <1>4, <1>5, OwnStep DEF DInv

LEMMA FailPreserves == ASSUME DInv, NEW c \in Clients, Fail(c) PROVE DInv'
<1>1. /\ TypeOK
      /\ loading' = [loading EXCEPT ![c] = FALSE] /\ got' = [got EXCEPT ![c] = Nothing]
      /\ broken' = [broken EXCEPT ![c] = TRUE]
      /\ UNCHANGED <<docker, hub, handler, page, shown>>
  BY DEF Fail, DInv
<1>2. TypeOK'
  BY <1>1, NothingType DEF TypeOK, docker, hub, handler
<1>3. HandlersSubscribe'
  BY <1>1 DEF DInv, HandlersSubscribe, hub, handler
<1>4. \A d \in Clients \ {c} : Apart(d)
  BY <1>1 DEF TypeOK, Apart, hub, handler
<1>5. \A e \in Envs : Explained(c, e)'
  BY <1>1 DEF TypeOK, Explained, UpToDate
<1> QED
  BY <1>1, <1>2, <1>3, <1>4, <1>5, OwnStep DEF DInv

LEMMA ClosePagePreserves == ASSUME DInv, NEW c \in Clients, ClosePage(c) PROVE DInv'
<1>1. /\ TypeOK
      /\ page' = [page EXCEPT ![c] = "closed"]
      /\ pc' = [pc EXCEPT ![c] = IF @ \in Handling THEN "leave" ELSE @]
      /\ wire' = [wire EXCEPT ![c] = 0]
      /\ loading' = [loading EXCEPT ![c] = FALSE] /\ got' = [got EXCEPT ![c] = Nothing]
      /\ shown' = [shown EXCEPT ![c] = Nothing] /\ broken' = [broken EXCEPT ![c] = FALSE]
      /\ UNCHANGED <<docker, hub>>
  BY DEF ClosePage, DInv
<1>2. TypeOK'
  BY <1>1, NothingType, DashboardsAssumption DEF TypeOK, docker, hub
<1>3. HandlersSubscribe'
  BY <1>1 DEF DInv, TypeOK, HandlersSubscribe, Handling, hub
<1>4. \A d \in Clients \ {c} : Apart(d)
  BY <1>1 DEF TypeOK, Apart, hub
<1>5. \A e \in Envs : Explained(c, e)'
  BY <1>1 DEF TypeOK, Explained, Watching
<1> QED
  BY <1>1, <1>2, <1>3, <1>4, <1>5, OwnStep DEF DInv

-----------------------------------------------------------------------------
LEMMA DStep == DInv /\ [Next]_vars => DInv'
<1> SUFFICES ASSUME DInv, [Next]_vars PROVE DInv'
  OBVIOUS
<1>1. CASE UNCHANGED vars
  <2>1. UNCHANGED <<docker, hub, handler, browser>>
    BY <1>1 DEF vars
  <2>2. TypeOK'
    BY <2>1 DEF DInv, TypeOK, docker, hub, handler, browser
  <2>3. HandlersSubscribe' /\ ChangesCounted'
    BY <2>1 DEF DInv, HandlersSubscribe, ChangesCounted, docker, hub, handler
  <2>4. StaleIsExplained'
    BY <2>1 DEF DInv, StaleIsExplained, Watching, UpToDate, Nudged, docker, hub,
       handler,
                browser
  <2> QED
    BY <2>2, <2>3, <2>4 DEF DInv
<1>2. CASE \E e \in Envs : ChangeContainer(e)
  BY <1>2, ChangePreserves
<1>3. CASE GiveUp \/ StreamEnds \/ Attach \/ Broadcast
  BY <1>3, GiveUpPreserves, WatcherPreserves, BroadcastPreserves DEF StreamEnds, Attach
<1>4. ASSUME NEW c \in Clients, Serve(c) PROVE DInv'
  BY <1>4, SubscribePreserves, NudgePreserves, ReceivePreserves, WritePreserves,
     CancelPreserves DEF Serve
<1>5. ASSUME NEW c \in Clients, Load(c) PROVE DInv'
  BY <1>5, AnswerPreserves, ReadStatePreserves DEF Load
<1>6. ASSUME NEW c \in Clients,
             OpenPage(c) \/ ClosePage(c) \/ Disconnect(c) \/ ReadNudge(c) \/ Fail(c)
      PROVE  DInv'
  BY <1>6, OpenPagePreserves, ClosePagePreserves, DisconnectPreserves,
     ReadNudgePreserves,
     FailPreserves
<1> QED
  BY <1>1, <1>2, <1>3, <1>4, <1>5, <1>6 DEF Next

LEMMA DashboardsInvariance == Spec => []DInv
<1>1. Init => DInv
  BY DInit
<1>2. DInv /\ [Next]_vars => DInv'
  BY DStep
<1> QED
  BY <1>1, <1>2, PTL DEF Spec

(* Type correctness: no channel ever holds more than its slots.            *)
THEOREM DashboardsTypeCorrect == Spec => []TypeOK
<1>1. DInv => TypeOK
  BY DEF DInv
<1> QED
  BY <1>1, DashboardsInvariance, PTL

(* Hub.Broadcast, apiEventsStream, useAsync: an open dashboard is behind   *)
(* only while a nudge or an event for it is under way, or over a change    *)
(* the watcher was away for.                                               *)
THEOREM StaleIsAlwaysExplained == Spec => []StaleIsExplained
<1>1. DInv => StaleIsExplained
  BY DEF DInv
<1> QED
  BY <1>1, DashboardsInvariance, PTL
=============================================================================
