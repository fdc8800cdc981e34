-------------------------- MODULE LogStream_proofs --------------------------
(***************************************************************************)
(* Proofs about LogStream, for any number of clients and chunks and        *)
(* channels of any size, and about CommandLog, for any number of commands  *)
(* and pipes of any size.  LInv says, for a handler, how far the log was   *)
(* when it read the row, when it subscribed, and what it was sent since.   *)
(* Commands do nothing to the log that LogStream does not allow, so its    *)
(* theorems hold beside them, and Stream leaves no output behind.          *)
(***************************************************************************)
EXTENDS CommandLog, TLAPS

Chunks == 1 .. MaxChunks

(* The row and its log, and the outcome once the stream is to be closed.   *)
Books == /\ row # "absent" => log = written
         /\ row = "absent" => log = 0
         /\ writer \in {"close", "done"} => late \/ row \in Finished \cup {"absent"}

(* A channel is closed when it is forgotten; a handler that lost its       *)
(* channel did so to Close.                                                *)
Channels == /\ open = subs
            /\ \A c \in Clients : pc[c] \in {"replay", "tail"} /\ c \notin subs =>
                                      writer = "done"

(* How far the log was.                                                    *)
ReadAt(c) == pc[c] \in {"subscribe", "replay", "tail", "cancel"} =>
                 /\ opened[c] <= dep[c].log /\ dep[c].log <= opened[c] + 1
                 /\ opened[c] <= Published
JoinedAt(c) == pc[c] \in {"replay", "tail", "cancel"} =>
                   opened[c] <= joined[c] /\ joined[c] <= Published

(* The chunks that a handler was sent, or has before it, came after that,  *)
(* in order.                                                               *)
Rising(s, from, to) ==
    /\ \A i \in DOMAIN s : from < s[i] /\ s[i] <= to
    /\ \A i, j \in DOMAIN s : i < j => s[i] < s[j]

Live(c) == IF pc[c] \in {"replay", "tail", "cancel"}
           THEN Rising(sent[c] \o buffer[c], joined[c], Published)
           ELSE sent[c] = <<>> /\ buffer[c] = <<>> /\ c \notin subs

(* Every chunk since is among them, or met a full channel.                 *)
Kept(c) == pc[c] \in {"replay", "tail"} =>
               \A i \in 1 .. Published : joined[c] < i =>
                   i \in ToSet(sent[c]) \cup ToSet(buffer[c]) \cup dropped[c]

Told(c) == ReadAt(c) /\ JoinedAt(c) /\ Live(c) /\ Kept(c)

LInv == /\ TypeOK /\ Books /\ Channels
        /\ \A c \in Clients : Told(c)
        /\ DoneIsFinal

-----------------------------------------------------------------------------
(* Sequences.                                                              *)

LEMMA AppendAdds ==
  ASSUME NEW S, NEW s \in Seq(S), NEW e \in S
  PROVE  /\ Append(s, e) \in Seq(S) /\ Append(s, e) # <<>>
         /\ Len(Append(s, e)) = Len(s) + 1
         /\ ToSet(Append(s, e)) = ToSet(s) \cup {e}
<1>1. /\ Append(s, e) \in Seq(S) /\ Len(Append(s, e)) = Len(s) + 1 /\ Len(s) \in Nat
      /\ \A i \in 1 .. Len(s) + 1 : Append(s, e)[i] = IF i <= Len(s) THEN s[i] ELSE e
      /\ DOMAIN s = 1 .. Len(s) /\ DOMAIN Append(s, e) = 1 .. Len(s) + 1
  OBVIOUS
<1>2. ToSet(Append(s, e)) \subseteq ToSet(s) \cup {e}
  BY <1>1 DEF ToSet
<1>3. ToSet(s) \subseteq ToSet(Append(s, e))
  BY <1>1 DEF ToSet
<1>4. e \in ToSet(Append(s, e))
  <2>1. Len(s) + 1 \in DOMAIN Append(s, e) /\ Append(s, e)[Len(s) + 1] = e
    BY <1>1
  <2> QED
    BY <2>1 DEF ToSet
<1>5. Append(s, e) # <<>>
  BY <1>1
<1> QED
  BY <1>1, <1>2, <1>3, <1>4, <1>5

LEMMA HeadAndTail ==
  ASSUME NEW S, NEW s \in Seq(S), s # <<>>
  PROVE  /\ Head(s) \in S /\ Tail(s) \in Seq(S)
         /\ Len(Tail(s)) = Len(s) - 1
         /\ \A i \in 1 .. Len(s) - 1 : Tail(s)[i] = s[i + 1]
         /\ ToSet(s) = {Head(s)} \cup ToSet(Tail(s))
<1>1. /\ Head(s) \in S /\ Tail(s) \in Seq(S) /\ Len(Tail(s)) = Len(s) - 1
      /\ Len(s) \in Nat \ {0} /\ Head(s) = s[1]
      /\ \A i \in 1 .. Len(s) - 1 : Tail(s)[i] = s[i + 1]
      /\ DOMAIN s = 1 .. Len(s) /\ DOMAIN Tail(s) = 1 .. Len(s) - 1
  OBVIOUS
<1>2. ToSet(s) \subseteq {Head(s)} \cup ToSet(Tail(s))
  <2> SUFFICES ASSUME NEW i \in 1 .. Len(s)
               PROVE  s[i] \in {Head(s)} \cup ToSet(Tail(s))
    BY <1>1 DEF ToSet
  <2>1. CASE i = 1
    BY <1>1, <2>1
  <2>2. CASE i # 1
    <3>1. i - 1 \in 1 .. Len(s) - 1 /\ Tail(s)[i - 1] = s[i]
      BY <1>1, <2>2
    <3> QED
      BY <1>1, <3>1 DEF ToSet
  <2> QED
    BY <2>1, <2>2
<1>3. {Head(s)} \cup ToSet(Tail(s)) \subseteq ToSet(s)
  BY <1>1 DEF ToSet
<1> QED
  BY <1>1, <1>2, <1>3

LEMMA Concat ==
  ASSUME NEW S, NEW s \in Seq(S), NEW t \in Seq(S)
  PROVE  /\ s \o t \in Seq(S) /\ Len(s \o t) = Len(s) + Len(t)
         /\ Len(s) \in Nat /\ Len(t) \in Nat
         /\ DOMAIN (s \o t) = 1 .. Len(s) + Len(t)
         /\ \A i \in 1 .. Len(s) + Len(t) :
               (s \o t)[i] = IF i <= Len(s) THEN s[i] ELSE t[i - Len(s)]
OBVIOUS

(* What was at the head of the channel is now the last that was sent.      *)
LEMMA MoveHead ==
  ASSUME NEW S, NEW s \in Seq(S), NEW t \in Seq(S), t # <<>>
  PROVE  Append(s, Head(t)) \o Tail(t) = s \o t
<1> DEFINE a == Append(s, Head(t))
           l == a \o Tail(t)
           r == s \o t
<1>1. /\ Head(t) \in S /\ Tail(t) \in Seq(S) /\ Len(Tail(t)) = Len(t) - 1
      /\ \A i \in 1 .. Len(t) - 1 : Tail(t)[i] = t[i + 1]
      /\ Head(t) = t[1] /\ Len(t) \in Nat \ {0} /\ Len(s) \in Nat
  BY HeadAndTail
<1>2. /\ a \in Seq(S) /\ Len(a) = Len(s) + 1
      /\ \A i \in 1 .. Len(s) + 1 : a[i] = IF i <= Len(s) THEN s[i] ELSE t[1]
  BY <1>1
<1>3. /\ l \in Seq(S) /\ Len(l) = Len(s) + Len(t)
      /\ \A i \in 1 .. Len(s) + Len(t) :
            l[i] = IF i <= Len(s) + 1 THEN a[i] ELSE Tail(t)[i - (Len(s) + 1)]
  BY <1>1, <1>2, Concat
<1>4. /\ r \in Seq(S) /\ Len(r) = Len(s) + Len(t)
      /\ \A i \in 1 .. Len(s) + Len(t) : r[i] = IF i <= Len(s) THEN s[i] ELSE t[i - Len(s)]
  BY Concat
<1> HIDE DEF a, l, r
<1>5. \A i \in 1 .. Len(s) + Len(t) : l[i] = r[i]
  <2> TAKE i \in 1 .. Len(s) + Len(t)
  <2>1. CASE i <= Len(s)
    BY <1>1, <1>2, <1>3, <1>4, <2>1
  <2>2. CASE i = Len(s) + 1
    BY <1>1, <1>2, <1>3, <1>4, <2>2
  <2>3. CASE i > Len(s) + 1
    <3>1. i - (Len(s) + 1) \in 1 .. Len(t) - 1
      BY <1>1, <2>3
    <3>2. Tail(t)[i - (Len(s) + 1)] = t[i - Len(s)]
      BY <1>1, <3>1
    <3> QED
      BY <1>1, <1>3, <1>4, <2>3, <3>2
  <2> QED
    BY <1>1, <2>1, <2>2, <2>3
<1> DEFINE n == Len(s) + Len(t)
<1>6. l = [i \in 1 .. n |-> l[i]] /\ r = [i \in 1 .. n |-> r[i]]
  BY <1>3, <1>4
<1>7. l = r
  BY <1>5, <1>6
<1> QED
  BY <1>7 DEF a, l, r

(* A chunk that is published comes last.                                   *)
LEMMA AppendLast ==
  ASSUME NEW S, NEW s \in Seq(S), NEW t \in Seq(S), NEW e \in S
  PROVE  s \o Append(t, e) = Append(s \o t, e)
<1> DEFINE a == Append(t, e)
           b == s \o t
           l == s \o a
           r == Append(b, e)
<1>1. /\ a \in Seq(S) /\ Len(a) = Len(t) + 1
      /\ \A i \in 1 .. Len(t) + 1 : a[i] = IF i <= Len(t) THEN t[i] ELSE e
      /\ Len(s) \in Nat /\ Len(t) \in Nat
  OBVIOUS
<1>2. /\ b \in Seq(S) /\ Len(b) = Len(s) + Len(t)
      /\ \A i \in 1 .. Len(s) + Len(t) : b[i] = IF i <= Len(s) THEN s[i] ELSE t[i - Len(s)]
  BY Concat
<1> HIDE DEF a, b
<1>3. /\ l \in Seq(S) /\ Len(l) = Len(s) + Len(t) + 1
      /\ \A i \in 1 .. Len(s) + Len(t) + 1 :
            l[i] = IF i <= Len(s) THEN s[i] ELSE a[i - Len(s)]
  <2>1. /\ l \in Seq(S) /\ Len(l) = Len(s) + Len(a)
        /\ \A i \in 1 .. Len(s) + Len(a) :
              l[i] = IF i <= Len(s) THEN s[i] ELSE a[i - Len(s)]
    BY <1>1, Concat
  <2>2. Len(s) + Len(a) = Len(s) + Len(t) + 1
    BY <1>1
  <2> QED
    BY <2>1, <2>2
<1>4. /\ r \in Seq(S) /\ Len(r) = Len(s) + Len(t) + 1
      /\ \A i \in 1 .. Len(s) + Len(t) + 1 :
            r[i] = IF i <= Len(s) + Len(t) THEN b[i] ELSE e
  <2>1. /\ r \in Seq(S) /\ Len(r) = Len(b) + 1
        /\ \A i \in 1 .. Len(b) + 1 : r[i] = IF i <= Len(b) THEN b[i] ELSE e
    BY <1>2
  <2> QED
    BY <1>2, <2>1
<1> HIDE DEF l, r
<1>5. ASSUME NEW i \in 1 .. Len(s) + Len(t) + 1 PROVE l[i] = r[i]
  <2>1. i \in Nat /\ Len(s) \in Nat /\ Len(t) \in Nat
    BY <1>1
  <2>2. l[i] = IF i <= Len(s) THEN s[i] ELSE a[i - Len(s)]
    BY <1>3
  <2>3. r[i] = IF i <= Len(s) + Len(t) THEN b[i] ELSE e
    BY <1>4
  <2>4. i <= Len(s) + Len(t) => b[i] = IF i <= Len(s) THEN s[i] ELSE t[i - Len(s)]
    BY <1>2, <2>1
  <2>5. i > Len(s) => a[i - Len(s)] = IF i - Len(s) <= Len(t) THEN t[i - Len(s)] ELSE e
    BY <1>1, <2>1
  <2> QED
    BY <2>1, <2>2, <2>3, <2>4, <2>5
<1>6. l = r
  BY <1>3, <1>4, <1>5
<1> QED
  BY <1>6 DEF l, r, a, b

LEMMA RisingAppend ==
  ASSUME NEW S \in SUBSET Nat, NEW s \in Seq(S), NEW from \in Nat, NEW to \in Nat,
         to + 1 \in S, Rising(s, from, to), from <= to
  PROVE  Rising(Append(s, to + 1), from, to + 1)
<1> DEFINE e == to + 1
           a == Append(s, e)
<1>1. e \in S
  OBVIOUS
<1> HIDE DEF e
<1>2. /\ DOMAIN s = 1 .. Len(s) /\ Len(s) \in Nat /\ DOMAIN a = 1 .. Len(s) + 1
      /\ \A i \in 1 .. Len(s) + 1 : a[i] = IF i <= Len(s) THEN s[i] ELSE e
      /\ \A i \in 1 .. Len(s) : s[i] \in S
  BY <1>1
<1> HIDE DEF a
<1>3. /\ \A i \in 1 .. Len(s) : a[i] = s[i] /\ s[i] \in Nat /\ s[i] < e
      /\ a[Len(s) + 1] = e /\ e \in Nat /\ from < e
  <2>1. e \in Nat /\ e = to + 1 /\ from < e
    BY DEF e
  <2>2. ASSUME NEW i \in 1 .. Len(s)
        PROVE  a[i] = s[i] /\ s[i] \in Nat /\ s[i] < e
    <3>1. s[i] \in Nat /\ s[i] <= to
      BY <1>2 DEF Rising
    <3>2. a[i] = s[i]
      BY <1>2
    <3> QED
      BY <2>1, <3>1, <3>2
  <2>3. a[Len(s) + 1] = e
    BY <1>2
  <2> QED
    BY <2>1, <2>2, <2>3
<1>4. \A i \in DOMAIN a : from < a[i] /\ a[i] <= e
  BY <1>2, <1>3 DEF Rising
<1>5. \A i, j \in DOMAIN a : i < j => a[i] < a[j]
  <2> SUFFICES ASSUME NEW i \in 1 .. Len(s) + 1, NEW j \in 1 .. Len(s) + 1, i < j
               PROVE  a[i] < a[j]
    BY <1>2
  <2>1. i \in 1 .. Len(s)
    BY <1>2
  <2>2. CASE j = Len(s) + 1
    BY <1>3, <2>1, <2>2
  <2>3. CASE j # Len(s) + 1
    <3>1. j \in 1 .. Len(s)
      BY <1>2, <2>3
    <3> QED
      BY <1>2, <1>3, <2>1, <3>1 DEF Rising
  <2> QED
    BY <2>2, <2>3
<1> QED
  BY <1>4, <1>5 DEF Rising, a, e

LEMMA RisingEmpty ==
  ASSUME NEW from, NEW to
  PROVE  Rising(<<>> \o <<>>, from, to)
BY DEF Rising

LEMMA RisingFurther ==
  ASSUME NEW S \in SUBSET Nat, NEW s \in Seq(S), NEW from \in Nat, NEW to \in Nat,
         NEW further \in Nat, Rising(s, from, to), to <= further
  PROVE  Rising(s, from, further)
<1>1. \A i \in DOMAIN s : s[i] \in S
  OBVIOUS
<1>2. \A i \in DOMAIN s : s[i] \in Nat
  BY <1>1
<1> QED
  BY <1>2 DEF Rising

-----------------------------------------------------------------------------
(* What one step leaves alone.                                             *)

LEMMA PublishedType ==
  ASSUME TypeOK
  PROVE  Published \in 0 .. MaxChunks /\ MaxChunks \in Nat /\ written \in Nat
BY LogStreamAssumption DEF TypeOK, Published

(* Nothing that handler c knows changes.                                   *)
Apart(c) == /\ pc'[c] = pc[c] /\ dep'[c] = dep[c] /\ sent'[c] = sent[c]
            /\ opened'[c] = opened[c] /\ joined'[c] = joined[c]
            /\ buffer'[c] = buffer[c] /\ dropped'[c] = dropped[c]
            /\ c \in subs' => c \in subs

LEMMA ApartStays ==
  ASSUME NEW c \in Clients, Apart(c), Published' = Published, Told(c)
  PROVE  Told(c)'
<1>1. ReadAt(c)' /\ JoinedAt(c)'
  BY DEF Told, Apart, ReadAt, JoinedAt
<1>2. Live(c)'
  BY DEF Told, Apart, Live, Rising
<1>3. Kept(c)'
  BY DEF Told, Apart, Kept
<1> QED
  BY <1>1, <1>2, <1>3 DEF Told

(* A step of handler c's own is a matter of what c was told.               *)
LEMMA OwnStep ==
  ASSUME LInv, NEW c \in Clients, UNCHANGED pipeline,
         \A d \in Clients \ {c} : Apart(d), Told(c)'
  PROVE  Books' /\ \A d \in Clients : Told(d)'
<1>1. Published' = Published
  BY DEF pipeline, Published
<1>2. \A d \in Clients \ {c} : Told(d)'
  BY <1>1, ApartStays DEF LInv
<1> QED
  BY <1>2 DEF LInv, Books, pipeline

(* A step of the writer's that publishes nothing is a matter of the row.   *)
LEMMA WriterStep ==
  ASSUME LInv, TypeOK', Books', Channels', UNCHANGED <<handlers, buffer, dropped>>,
         subs' \subseteq subs, Published' = Published, late => late'
  PROVE  LInv'
<1>1. \A c \in Clients : Apart(c)
  BY DEF Apart, handlers
<1>2. \A c \in Clients : Told(c)'
  BY <1>1, ApartStays DEF LInv
<1>3. DoneIsFinal'
  BY DEF LInv, DoneIsFinal, handlers
<1> QED
  BY <1>2, <1>3 DEF LInv

-----------------------------------------------------------------------------
LEMMA LInit == Init => LInv
<1> SUFFICES ASSUME Init PROVE LInv
  OBVIOUS
<1>1. TypeOK
  <2>1. <<>> \in Seq(Chunks) /\ Len(<<>>) <= BufferSize /\ 0 \in 0 .. MaxChunks
    BY LogStreamAssumption
  <2>2. Unread \in [log : 0 .. MaxChunks, status : Statuses]
    BY <2>1 DEF Unread, Statuses
  <2>3. /\ row \in Statuses \cup {"absent"} /\ log \in 0 .. MaxChunks
        /\ written \in 0 .. MaxChunks
        /\ writer \in {"lock", "run", "publish", "close", "done"}
        /\ writer # "publish" /\ late \in BOOLEAN
        /\ subs \subseteq Clients /\ open \subseteq Clients
    BY <2>1 DEF Init, Statuses
  <2>4. /\ buffer \in [Clients -> Seq(Chunks)]
        /\ \A c \in Clients : Len(buffer[c]) <= BufferSize
        /\ sent \in [Clients -> Seq(Chunks)]
        /\ dropped \in [Clients -> SUBSET Chunks]
    BY <2>1 DEF Init
  <2>5. /\ pc \in [Clients -> {"idle", "subscribe", "replay", "tail", "cancel", "left"}]
        /\ dep \in [Clients -> [log : 0 .. MaxChunks, status : Statuses]]
        /\ done \in [Clients -> Statuses \cup {"none", "ended"}]
        /\ opened \in [Clients -> 0 .. MaxChunks]
        /\ joined \in [Clients -> 0 .. MaxChunks]
    BY <2>1, <2>2 DEF Init
  <2> QED
    BY <2>3, <2>4, <2>5 DEF TypeOK, Chunks
<1>2. Books /\ Channels
  BY DEF Init, Books, Channels
<1>3. \A c \in Clients : Told(c)
  BY DEF Init, Told, ReadAt, JoinedAt, Live, Kept
<1>4. DoneIsFinal
  BY DEF Init, DoneIsFinal
<1> QED
  BY <1>1, <1>2, <1>3, <1>4 DEF LInv

-----------------------------------------------------------------------------
(* The deployment's goroutine.                                             *)

LEMMA MarkRunningPreserves == LInv /\ MarkRunning => LInv'
<1> SUFFICES ASSUME LInv, MarkRunning PROVE LInv'
  OBVIOUS
<1>1. /\ TypeOK /\ Books /\ Channels /\ writer = "lock" /\ writer' = "run"
      /\ row' = IF row = "absent" THEN row ELSE "running"
      /\ UNCHANGED <<log, written, late, bus, handlers, dropped>>
  BY DEF MarkRunning, LInv
<1>2. TypeOK'
  BY <1>1 DEF TypeOK, bus, handlers, Statuses
<1>3. Books' /\ Channels'
  BY <1>1 DEF Books, Channels, bus, handlers
<1>4. Published' = Published
  BY <1>1 DEF Published
<1> QED
  BY <1>1, <1>2, <1>3, <1>4, WriterStep DEF bus

LEMMA AppendLogPreserves == LInv /\ AppendLog => LInv'
<1> SUFFICES ASSUME LInv, AppendLog PROVE LInv'
  OBVIOUS
<1>1. /\ TypeOK /\ Books /\ Channels /\ writer = "run" /\ writer' = "publish"
      /\ written < MaxChunks /\ written' = written + 1
      /\ log' = IF row = "absent" THEN log ELSE log + 1
      /\ UNCHANGED <<row, late, bus, handlers, dropped>>
      /\ written \in Nat /\ MaxChunks \in Nat
  BY PublishedType DEF AppendLog, LInv
<1>2. written' \in 0 .. MaxChunks /\ written' > 0 /\ log' \in 0 .. MaxChunks
  BY <1>1 DEF TypeOK, Books
<1>3. TypeOK'
  BY <1>1, <1>2 DEF TypeOK, bus, handlers
<1>4. Books' /\ Channels'
  BY <1>1 DEF Books, Channels, bus, handlers
<1>5. Published' = Published
  BY <1>1 DEF Published
<1> QED
  BY <1>1, <1>3, <1>4, <1>5, WriterStep DEF bus

LEMMA FinishPreserves == LInv /\ Finish => LInv'
<1> SUFFICES ASSUME LInv, Finish PROVE LInv'
  OBVIOUS
<1>1. /\ TypeOK /\ Books /\ Channels /\ writer = "run" /\ writer' = "close"
      /\ UNCHANGED <<log, written, bus, handlers, dropped>>
  BY DEF Finish, LInv
<1>2. \/ row = "absent" /\ row' = row /\ late' = late
      \/ row # "absent" /\ row' \in Finished /\ late' = late
      \/ late' = TRUE /\ row' = row
  BY DEF Finish
<1>3. TypeOK'
  BY <1>1, <1>2 DEF TypeOK, bus, handlers, Statuses
<1>4. Books' /\ Channels'
  BY <1>1, <1>2 DEF Books, Channels, bus, handlers, Finished
<1>5. Published' = Published /\ (late => late')
  BY <1>1, <1>2 DEF Published
<1> QED
  BY <1>1, <1>3, <1>4, <1>5, WriterStep DEF bus

LEMMA ClosePreserves == LInv /\ Close => LInv'
<1> SUFFICES ASSUME LInv, Close PROVE LInv'
  OBVIOUS
<1>1. /\ TypeOK /\ Books /\ Channels /\ writer = "close" /\ writer' = "done"
      /\ open' = open \ subs /\ subs' = {}
      /\ UNCHANGED <<row, log, written, late, buffer, handlers, dropped>>
  BY DEF Close, LInv
<1>2. TypeOK'
  BY <1>1 DEF TypeOK, handlers
<1>3. Books' /\ Channels'
  BY <1>1 DEF Books, Channels, handlers
<1>4. Published' = Published
  BY <1>1 DEF Published
<1> QED
  BY <1>1, <1>2, <1>3, <1>4, WriterStep

LEMMA DeleteRowPreserves == LInv /\ DeleteRow => LInv'
<1> SUFFICES ASSUME LInv, DeleteRow PROVE LInv'
  OBVIOUS
<1>1. /\ TypeOK /\ Books /\ Channels /\ row' = "absent" /\ log' = 0
      /\ UNCHANGED <<written, writer, late, bus, handlers, dropped>>
  BY DEF DeleteRow, LInv
<1>2. TypeOK'
  BY <1>1, LogStreamAssumption DEF TypeOK, bus, handlers
<1>3. Books' /\ Channels'
  BY <1>1 DEF Books, Channels, bus, handlers
<1>4. Published' = Published
  BY <1>1 DEF Published
<1> QED
  BY <1>1, <1>2, <1>3, <1>4, WriterStep DEF bus

LEMMA PublishPreserves == LInv /\ Publish => LInv'
<1> SUFFICES ASSUME LInv, Publish PROVE LInv'
  OBVIOUS
<1>1. /\ TypeOK /\ Books /\ Channels /\ writer = "publish" /\ writer' = "run"
      /\ buffer' = [c \in Clients |-> IF c \in subs \ Full
                                      THEN Append(buffer[c], written) ELSE buffer[c]]
      /\ dropped' = [c \in Clients |-> IF c \in Full THEN dropped[c] \cup {written}
                                                     ELSE dropped[c]]
      /\ UNCHANGED <<row, log, written, late, subs, open, handlers>>
  BY DEF Publish, LInv
<1>2. /\ Published \in Nat /\ written = Published + 1 /\ Published' = Published + 1
      /\ written \in Chunks /\ Chunks \in SUBSET Nat /\ MaxChunks \in Nat
  BY <1>1, PublishedType DEF Published, TypeOK, Chunks
<1>3. ASSUME NEW c \in Clients
      PROVE  /\ buffer'[c] \in Seq(Chunks) /\ Len(buffer'[c]) <= BufferSize
             /\ ToSet(buffer[c]) \subseteq ToSet(buffer'[c])
             /\ c \in subs => written \in ToSet(buffer'[c]) \cup dropped'[c]
             /\ dropped'[c] \in SUBSET Chunks /\ dropped[c] \subseteq dropped'[c]
  <2>1. /\ buffer[c] \in Seq(Chunks) /\ Len(buffer[c]) <= BufferSize
        /\ Len(buffer[c]) \in Nat /\ dropped[c] \in SUBSET Chunks
    BY <1>1 DEF TypeOK, Chunks
  <2>2. CASE c \in subs \ Full
    <3>1. buffer'[c] = Append(buffer[c], written) /\ Len(buffer[c]) # BufferSize
      BY <1>1, <2>2 DEF Full
    <3>2. /\ buffer'[c] \in Seq(Chunks) /\ Len(buffer'[c]) = Len(buffer[c]) + 1
          /\ ToSet(buffer'[c]) = ToSet(buffer[c]) \cup {written}
      BY <1>2, <2>1, <3>1, AppendAdds
    <3> QED
      BY <1>1, <2>1, <2>2, <3>1, <3>2, LogStreamAssumption
  <2>3. CASE c \notin subs \ Full
    BY <1>1, <1>2, <2>1, <2>3 DEF Full
  <2> QED
    BY <2>2, <2>3
<1>4. TypeOK'
  <2>1. /\ buffer' \in [Clients -> Seq(Chunks)]
        /\ dropped' \in [Clients -> SUBSET Chunks]
    BY <1>1, <1>3
  <2> QED
    BY <1>1, <1>3, <2>1 DEF TypeOK, handlers, Chunks
<1>5. Books' /\ Channels' /\ DoneIsFinal'
  BY <1>1 DEF LInv, Books, Channels, DoneIsFinal, handlers
<1>6. ASSUME NEW c \in Clients PROVE Told(c)'
  <2>1. /\ Told(c) /\ sent[c] \in Seq(Chunks) /\ buffer[c] \in Seq(Chunks)
        /\ opened[c] \in Nat /\ joined[c] \in Nat
    BY <1>1, <1>2 DEF LInv, TypeOK, Chunks
  <2>2. ReadAt(c)' /\ JoinedAt(c)'
    BY <1>1, <1>2, <2>1 DEF Told, ReadAt, JoinedAt, handlers
  <2>3. Live(c)'
    <3>1. CASE pc[c] \notin {"replay", "tail", "cancel"}
      BY <1>1, <2>1, <3>1 DEF Told, Live, handlers
    <3>2. CASE pc[c] \in {"replay", "tail", "cancel"}
      <4>1. /\ sent[c] \o buffer[c] \in Seq(Chunks)
            /\ Rising(sent[c] \o buffer[c], joined[c], Published)
            /\ joined[c] <= Published
        BY <2>1, <3>2, Concat DEF Told, Live, JoinedAt
      <4>2. CASE c \in subs \ Full
        <5>1. sent[c] \o buffer'[c] = Append(sent[c] \o buffer[c], Published + 1)
          <6>1. buffer'[c] = Append(buffer[c], Published + 1) /\ Published + 1 \in Chunks
            BY <1>1, <1>2, <4>2
          <6> DEFINE e == Published + 1
                     s == sent[c]
                     t == buffer[c]
          <6>2. e \in Chunks /\ s \in Seq(Chunks) /\ t \in Seq(Chunks)
            BY <2>1, <6>1
          <6> HIDE DEF e, s, t
          <6>3. s \o Append(t, e) = Append(s \o t, e)
            BY ONLY <6>2, AppendLast
          <6> QED
            BY <6>1, <6>3 DEF e, s, t
        <5>2. Rising(Append(sent[c] \o buffer[c], Published + 1), joined[c], Published + 1)
          BY <1>2, <2>1, <4>1, RisingAppend
        <5>3. Rising(sent[c] \o buffer'[c], joined[c], Published + 1)
          BY <5>1, <5>2
        <5> QED
          BY <1>1, <1>2, <3>2, <5>3 DEF Live, Rising, handlers
      <4>3. CASE c \notin subs \ Full
        <5>1. Rising(sent[c] \o buffer[c], joined[c], Published + 1)
          <6>1. Published + 1 \in Nat /\ Published <= Published + 1
            BY <1>2
          <6> QED
            BY <1>2, <2>1, <4>1, <6>1, RisingFurther
        <5>2. buffer'[c] = buffer[c]
          BY <1>1, <4>3
        <5> QED
          BY <1>1, <1>2, <3>2, <5>1, <5>2 DEF Live, Rising, handlers
      <4> QED
        BY <4>2, <4>3
    <3> QED
      BY <3>1, <3>2
  <2>4. Kept(c)'
    <3> SUFFICES ASSUME pc[c] \in {"replay", "tail"},
                        NEW i \in 1 .. Published + 1, joined[c] < i
                 PROVE  i \in ToSet(sent[c]) \cup ToSet(buffer'[c]) \cup dropped'[c]
      BY <1>1, <1>2 DEF Kept, handlers
    <3>1. CASE i = Published + 1
      <4>1. c \in subs
        BY <1>1 DEF Channels
      <4> QED
        BY <1>2, <1>3, <3>1, <4>1
    <3>2. CASE i # Published + 1
      <4>1. i \in 1 .. Published
        BY <1>2, <3>2
      <4>2. i \in ToSet(sent[c]) \cup ToSet(buffer[c]) \cup dropped[c]
        BY <2>1, <4>1 DEF Told, Kept
      <4> QED
        BY <1>3, <4>2
    <3> QED
      BY <3>1, <3>2
  <2> QED
    BY <2>2, <2>3, <2>4 DEF Told
<1> QED
  BY <1>4, <1>5, <1>6 DEF LInv

-----------------------------------------------------------------------------
(* The handlers.                                                           *)

LEMMA OpenPreserves == ASSUME LInv, NEW c \in Clients, Open(c) PROVE LInv'
<1>1. /\ TypeOK /\ Books /\ Channels /\ pc[c] = "idle"
      /\ UNCHANGED <<row, log, written, writer, late, subs, open, buffer, sent, done,
                     joined, dropped>>
  BY DEF Open, Step, LInv, pipeline, bus
<1>2. \/ /\ row = "absent" /\ pc' = [pc EXCEPT ![c] = "left"] /\ UNCHANGED <<dep, opened>>
      \/ /\ row # "absent" /\ pc' = [pc EXCEPT ![c] = "subscribe"]
         /\ dep' = [dep EXCEPT ![c] = [log |-> log, status |-> row]]
         /\ opened' = [opened EXCEPT ![c] = Published]
  BY DEF Open, Step
<1>3. Published \in 0 .. MaxChunks /\ Published \in Nat /\ written \in Nat
  BY <1>1, PublishedType
<1>4. TypeOK'
  <2>1. [log |-> log, status |-> row] \in [log : 0 .. MaxChunks, status : Statuses]
        \/ row = "absent"
    BY <1>1 DEF TypeOK
  <2>2. /\ dep' \in [Clients -> [log : 0 .. MaxChunks, status : Statuses]]
        /\ opened' \in [Clients -> 0 .. MaxChunks]
        /\ pc' \in [Clients -> {"idle", "subscribe", "replay", "tail", "cancel", "left"}]
    <3>1. CASE row = "absent"
      BY <1>1, <1>2, <3>1 DEF TypeOK
    <3>2. CASE row # "absent"
      <4>1. dep' \in [Clients -> [log : 0 .. MaxChunks, status : Statuses]]
        BY <1>1, <1>2, <2>1, <3>2 DEF TypeOK
      <4>2. opened \in [Clients -> 0 .. MaxChunks] /\ opened' = [opened EXCEPT ![c] = Published]
        BY <1>1, <1>2, <3>2 DEF TypeOK
      <4>3. opened' \in [Clients -> 0 .. MaxChunks]
        BY <1>3, <4>2
      <4>4. pc' \in [Clients -> {"idle", "subscribe", "replay", "tail", "cancel", "left"}]
        BY <1>1, <1>2, <3>2 DEF TypeOK
      <4> QED
        BY <4>1, <4>3, <4>4
    <3> QED
      BY <3>1, <3>2
  <2> QED
    BY <1>1, <2>2 DEF TypeOK
<1>5. Channels' /\ DoneIsFinal'
  BY <1>1, <1>2 DEF LInv, TypeOK, Channels, DoneIsFinal
<1>6. \A d \in Clients \ {c} : Apart(d)
  BY <1>1, <1>2 DEF TypeOK, Apart
<1>7. Told(c)'
  <2>1. Live(c)' /\ JoinedAt(c)' /\ Kept(c)'
    BY <1>1, <1>2 DEF LInv, Told, TypeOK, Live, JoinedAt, Kept
  <2>2. ReadAt(c)'
    <3>1. CASE row = "absent"
      BY <1>1, <1>2, <3>1 DEF TypeOK, ReadAt
    <3>2. CASE row # "absent"
      <4>1. dep'[c].log = log /\ opened'[c] = Published /\ Published' = Published
        BY <1>1, <1>2, <3>2 DEF TypeOK, Published
      <4>2. log = written /\ (written = Published \/ written = Published + 1)
        BY <1>1, <1>3, <3>2 DEF Books, Published
      <4> QED
        BY <1>3, <4>1, <4>2 DEF ReadAt
    <3> QED
      BY <3>1, <3>2
  <2> QED
    BY <2>1, <2>2 DEF Told
<1> QED
  BY <1>1, <1>4, <1>5, <1>6, <1>7, OwnStep DEF LInv, pipeline

LEMMA SubscribePreserves == ASSUME LInv, NEW c \in Clients, Subscribe(c) PROVE LInv'
<1>1. /\ TypeOK /\ Books /\ Channels /\ pc[c] = "subscribe"
      /\ pc' = [pc EXCEPT ![c] = "replay"] /\ subs' = subs \cup {c} /\ open' = open \cup {c}
      /\ joined' = [joined EXCEPT ![c] = Published]
      /\ UNCHANGED <<row, log, written, writer, late, buffer, dep, sent, done, opened, dropped>>
  BY DEF Subscribe, Step, LInv, pipeline
<1>2. Published \in 0 .. MaxChunks /\ Published \in Nat /\ Published' = Published
  BY <1>1, PublishedType DEF Published
<1>3. TypeOK'
  <2>1. /\ joined' \in [Clients -> 0 .. MaxChunks]
        /\ pc' \in [Clients -> {"idle", "subscribe", "replay", "tail", "cancel", "left"}]
    BY <1>1, <1>2 DEF TypeOK
  <2> QED
    BY <1>1, <2>1 DEF TypeOK
<1>4. Channels' /\ DoneIsFinal'
  BY <1>1 DEF LInv, TypeOK, Channels, DoneIsFinal
<1>5. \A d \in Clients \ {c} : Apart(d)
  BY <1>1 DEF TypeOK, Apart
<1>6. Told(c)'
  <2>1. pc'[c] = "replay" /\ joined'[c] = Published /\ opened'[c] = opened[c]
    BY <1>1 DEF TypeOK
  <2>2. Told(c) /\ opened[c] <= Published /\ sent[c] = <<>> /\ buffer[c] = <<>>
    BY <1>1 DEF LInv, Told, ReadAt, Live
  <2>3. ReadAt(c)' /\ JoinedAt(c)'
    BY <1>1, <1>2, <2>1, <2>2 DEF Told, ReadAt, JoinedAt
  <2>4. Live(c)'
    BY <1>1, <1>2, <2>1, <2>2, RisingEmpty DEF Live, Rising
  <2>5. Kept(c)'
    BY <1>2, <2>1 DEF Kept
  <2> QED
    BY <2>3, <2>4, <2>5 DEF Told
<1> QED
  BY <1>1, <1>3, <1>4, <1>5, <1>6, OwnStep DEF LInv, pipeline

LEMMA ReplayPreserves == ASSUME LInv, NEW c \in Clients, Replay(c) PROVE LInv'
<1>1. /\ TypeOK /\ Channels /\ pc[c] = "replay"
      /\ UNCHANGED <<row, log, written, writer, late, subs, open, buffer, dep, sent, opened,
                     joined, dropped>>
  BY DEF Replay, Step, LInv, pipeline, bus
<1>2. \/ /\ dep[c].status \in Finished /\ pc' = [pc EXCEPT ![c] = "cancel"]
         /\ done' = [done EXCEPT ![c] = dep[c].status]
      \/ pc' = [pc EXCEPT ![c] = "tail"] /\ done' = done
  BY DEF Replay, Step
<1>3. TypeOK'
  <2>1. /\ pc' \in [Clients -> {"idle", "subscribe", "replay", "tail", "cancel", "left"}]
        /\ done' \in [Clients -> Statuses \cup {"none", "ended"}]
    BY <1>1, <1>2 DEF TypeOK, Statuses
  <2> QED
    BY <1>1, <2>1 DEF TypeOK
<1>4. Channels'
  BY <1>1, <1>2 DEF TypeOK, Channels
<1>5. DoneIsFinal'
  BY <1>1, <1>2 DEF LInv, TypeOK, DoneIsFinal, Finished
<1>6. \A d \in Clients \ {c} : Apart(d)
  BY <1>1, <1>2 DEF TypeOK, Apart
<1>7. Told(c)'
  <2>1. pc'[c] \in {"tail", "cancel"} /\ Published' = Published
    BY <1>1, <1>2 DEF TypeOK, Published
  <2>2. ReadAt(c)' /\ JoinedAt(c)' /\ Kept(c)'
    BY <1>1, <2>1 DEF LInv, Told, ReadAt, JoinedAt, Kept
  <2>3. Live(c)'
    BY <1>1, <2>1 DEF LInv, Told, Live, Rising
  <2> QED
    BY <2>2, <2>3 DEF Told
<1> QED
  BY <1>1, <1>3, <1>4, <1>5, <1>6, <1>7, OwnStep DEF LInv, pipeline

LEMMA ReceivePreserves == ASSUME LInv, NEW c \in Clients, Receive(c) PROVE LInv'
<1>1. /\ TypeOK /\ Channels /\ pc[c] = "tail" /\ buffer[c] # <<>>
      /\ sent' = [sent EXCEPT ![c] = Append(@, Head(buffer[c]))]
      /\ buffer' = [buffer EXCEPT ![c] = Tail(@)]
      /\ UNCHANGED <<row, log, written, writer, late, subs, open, pc, dep, done, opened,
                     joined, dropped>>
  BY DEF Receive, LInv, pipeline
<1>2. /\ sent[c] \in Seq(Chunks) /\ buffer[c] \in Seq(Chunks)
      /\ Len(buffer[c]) <= BufferSize /\ Len(buffer[c]) \in Nat
      /\ sent'[c] = Append(sent[c], Head(buffer[c])) /\ buffer'[c] = Tail(buffer[c])
  BY <1>1 DEF TypeOK, Chunks
<1>3. /\ Head(buffer[c]) \in Chunks /\ buffer'[c] \in Seq(Chunks)
      /\ Len(buffer'[c]) = Len(buffer[c]) - 1
      /\ ToSet(buffer[c]) = {Head(buffer[c])} \cup ToSet(buffer'[c])
  BY <1>1, <1>2, HeadAndTail
<1>4. /\ sent'[c] \in Seq(Chunks)
      /\ ToSet(sent'[c]) = ToSet(sent[c]) \cup {Head(buffer[c])}
  BY <1>2, <1>3, AppendAdds
<1>5. sent'[c] \o buffer'[c] = sent[c] \o buffer[c]
  <2> DEFINE s == sent[c]
             t == buffer[c]
  <2>1. s \in Seq(Chunks) /\ t \in Seq(Chunks) /\ t # <<>>
    BY <1>1, <1>2
  <2> HIDE DEF s, t
  <2>2. Append(s, Head(t)) \o Tail(t) = s \o t
    BY ONLY <2>1, MoveHead
  <2> QED
    BY <1>2, <2>2 DEF s, t
<1>6. /\ \A d \in Clients \ {c} : sent'[d] = sent[d] /\ buffer'[d] = buffer[d]
      /\ Len(buffer'[c]) <= BufferSize
  BY <1>1, <1>2, <1>3, LogStreamAssumption DEF TypeOK
<1>7. TypeOK'
  <2>1. sent' \in [Clients -> Seq(Chunks)] /\ buffer' \in [Clients -> Seq(Chunks)]
    BY <1>1, <1>3, <1>4, <1>6 DEF TypeOK, Chunks
  <2>2. \A d \in Clients : Len(buffer'[d]) <= BufferSize
    BY <1>1, <1>6 DEF TypeOK
  <2> QED
    BY <1>1, <2>1, <2>2 DEF TypeOK, Chunks
<1>8. Channels' /\ DoneIsFinal'
  BY <1>1 DEF LInv, Channels, DoneIsFinal
<1>9. \A d \in Clients \ {c} : Apart(d)
  BY <1>1, <1>6 DEF Apart
<1>10. Told(c)'
  <2>1. Told(c) /\ Published' = Published
    BY <1>1 DEF LInv, Published
  <2>2. ReadAt(c)' /\ JoinedAt(c)'
    BY <1>1, <2>1 DEF Told, ReadAt, JoinedAt
  <2>3. Live(c)'
    BY <1>1, <1>5, <2>1 DEF Told, Live, Rising
  <2>4. Kept(c)'
    BY <1>1, <1>3, <1>4, <2>1 DEF Told, Kept
  <2> QED
    BY <2>2, <2>3, <2>4 DEF Told
<1> QED
  BY <1>1, <1>7, <1>8, <1>9, <1>10, OwnStep DEF LInv, pipeline

(* Leaving the loop: what was told, and what is in the channel, is kept.   *)
LEMMA LeavePreserves ==
  ASSUME LInv, NEW c \in Clients, TypeOK', DoneIsFinal',
         pc[c] = "tail", pc' = [pc EXCEPT ![c] = "cancel"],
         UNCHANGED <<pipeline, bus, dep, sent, opened, joined, dropped>>
  PROVE  LInv'
<1>1. TypeOK /\ Channels /\ pc'[c] = "cancel" /\ Published' = Published
  BY DEF LInv, TypeOK, pipeline, Published
<1>2. Channels'
  BY <1>1 DEF TypeOK, Channels, bus, pipeline
<1>3. \A d \in Clients \ {c} : Apart(d)
  BY <1>1 DEF TypeOK, Apart, bus
<1>4. Told(c)'
  <2>1. ReadAt(c)' /\ JoinedAt(c)' /\ Kept(c)'
    BY <1>1 DEF LInv, Told, ReadAt, JoinedAt, Kept
  <2>2. Live(c)'
    BY <1>1 DEF LInv, Told, Live, Rising, bus
  <2> QED
    BY <2>1, <2>2 DEF Told
<1> QED
  BY <1>1, <1>2, <1>3, <1>4, OwnStep DEF LInv

LEMMA EndPreserves == ASSUME LInv, NEW c \in Clients, End(c) PROVE LInv'
<1>1. /\ TypeOK /\ Books /\ Channels /\ pc[c] = "tail" /\ c \notin open
      /\ pc' = [pc EXCEPT ![c] = "cancel"]
      /\ done' = [done EXCEPT ![c] = IF row = "absent" THEN "ended" ELSE row]
      /\ UNCHANGED <<pipeline, bus, dep, sent, opened, joined, dropped>>
  BY DEF End, Step, LInv
<1>2. TypeOK'
  <2>1. /\ pc' \in [Clients -> {"idle", "subscribe", "replay", "tail", "cancel", "left"}]
        /\ done' \in [Clients -> Statuses \cup {"none", "ended"}]
    BY <1>1 DEF TypeOK
  <2> QED
    BY <1>1, <2>1 DEF TypeOK, pipeline, bus
<1>3. DoneIsFinal'
  <2>1. late \/ row \in Finished \cup {"absent"}
    BY <1>1 DEF Channels, Books
  <2>2. done'[c] \in {"queued", "running"} => late
    BY <1>1, <2>1 DEF TypeOK, Finished
  <2> QED
    BY <1>1, <2>2 DEF LInv, TypeOK, DoneIsFinal, pipeline
<1> QED
  BY <1>1, <1>2, <1>3, LeavePreserves

LEMMA DisconnectPreserves == ASSUME LInv, NEW c \in Clients, Disconnect(c) PROVE LInv'
<1>1. /\ TypeOK /\ pc[c] = "tail" /\ pc' = [pc EXCEPT ![c] = "cancel"]
      /\ UNCHANGED <<pipeline, bus, dep, sent, done, opened, joined, dropped>>
  BY DEF Disconnect, Step, LInv
<1>2. TypeOK'
  <2>1. pc' \in [Clients -> {"idle", "subscribe", "replay", "tail", "cancel", "left"}]
    BY <1>1 DEF TypeOK
  <2> QED
    BY <1>1, <2>1 DEF TypeOK, pipeline, bus
<1>3. DoneIsFinal'
  BY <1>1 DEF LInv, DoneIsFinal, pipeline
<1> QED
  BY <1>1, <1>2, <1>3, LeavePreserves

LEMMA CancelPreserves == ASSUME LInv, NEW c \in Clients, Cancel(c) PROVE LInv'
<1>1. /\ TypeOK /\ Channels /\ pc' = [pc EXCEPT ![c] = "left"] /\ subs' = subs \ {c}
      /\ open' = IF c \in subs THEN open \ {c} ELSE open
      /\ buffer' = [buffer EXCEPT ![c] = <<>>] /\ dep' = [dep EXCEPT ![c] = Unread]
      /\ sent' = [sent EXCEPT ![c] = <<>>] /\ opened' = [opened EXCEPT ![c] = 0]
      /\ joined' = [joined EXCEPT ![c] = 0] /\ dropped' = [dropped EXCEPT ![c] = {}]
      /\ UNCHANGED <<pipeline, done>>
  BY DEF Cancel, Step, LInv
<1>2. TypeOK'
  <2>1. <<>> \in Seq(1 .. MaxChunks) /\ Len(<<>>) <= BufferSize /\ 0 \in 0 .. MaxChunks
    BY LogStreamAssumption
  <2>2. Unread \in [log : 0 .. MaxChunks, status : Statuses]
    BY <2>1 DEF Unread, Statuses
  <2>3. /\ buffer' \in [Clients -> Seq(1 .. MaxChunks)]
        /\ sent' \in [Clients -> Seq(1 .. MaxChunks)]
        /\ \A d \in Clients : Len(buffer'[d]) <= BufferSize
    BY <1>1, <2>1 DEF TypeOK
  <2>4. /\ dep' \in [Clients -> [log : 0 .. MaxChunks, status : Statuses]]
        /\ opened' \in [Clients -> 0 .. MaxChunks]
        /\ joined' \in [Clients -> 0 .. MaxChunks]
        /\ dropped' \in [Clients -> SUBSET (1 .. MaxChunks)]
        /\ pc' \in [Clients -> {"idle", "subscribe", "replay", "tail", "cancel", "left"}]
        /\ subs' \subseteq Clients /\ open' \subseteq Clients
    BY <1>1, <2>1, <2>2 DEF TypeOK
  <2> QED
    BY <1>1, <2>3, <2>4 DEF TypeOK, pipeline
<1>3. Channels'
  BY <1>1 DEF TypeOK, Channels, pipeline
<1>4. DoneIsFinal'
  BY <1>1 DEF LInv, DoneIsFinal, pipeline
<1>5. \A d \in Clients \ {c} : Apart(d)
  BY <1>1 DEF TypeOK, Apart
<1>6. Told(c)'
  BY <1>1 DEF TypeOK, Told, ReadAt, JoinedAt, Live, Kept
<1> QED
  BY <1>1, <1>2, <1>3, <1>4, <1>5, <1>6, OwnStep DEF LInv

-----------------------------------------------------------------------------
LEMMA LStep == LInv /\ [Next]_vars => LInv'
<1> SUFFICES ASSUME LInv, [Next]_vars PROVE LInv'
  OBVIOUS
<1>1. CASE UNCHANGED vars
  <2>1. UNCHANGED <<pipeline, bus, handlers, dropped>>
    BY <1>1 DEF vars
  <2>2. TypeOK' /\ Books' /\ Channels'
    BY <2>1 DEF LInv, TypeOK, Books, Channels, pipeline, bus, handlers
  <2>3. Published' = Published
    BY <2>1 DEF Published, pipeline
  <2> QED
    BY <2>1, <2>2, <2>3, WriterStep DEF bus, pipeline
<1>2. CASE Write
  BY <1>2, MarkRunningPreserves, AppendLogPreserves, PublishPreserves, FinishPreserves,
     ClosePreserves DEF Write
<1>3. CASE DeleteRow
  BY <1>3, DeleteRowPreserves
<1>4. ASSUME NEW c \in Clients, Open(c) \/ Handle(c) \/ Disconnect(c) PROVE LInv'
  BY <1>4, OpenPreserves, SubscribePreserves, ReplayPreserves, ReceivePreserves,
     EndPreserves, DisconnectPreserves, CancelPreserves DEF Handle
<1> QED
  BY <1>1, <1>2, <1>3, <1>4 DEF Next

LEMMA LogStreamInvariance == Spec => []LInv
<1>1. Init => LInv
  BY LInit
<1>2. LInv /\ [Next]_vars => LInv'
  BY LStep
<1> QED
  BY <1>1, <1>2, PTL DEF Spec

(* Type correctness: no channel ever holds more than its slots.            *)
THEOREM LogStreamTypeCorrect == Spec => []TypeOK
<1>1. LInv => TypeOK
  BY DEF LInv
<1> QED
  BY <1>1, LogStreamInvariance, PTL

(* Bus: no registered channel is closed, so Publish never panics.          *)
THEOREM RegisteredIsAlwaysOpen == Spec => []RegisteredIsOpen
<1>1. LInv => RegisteredIsOpen
  BY DEF LInv, Channels, RegisteredIsOpen
<1> QED
  BY <1>1, LogStreamInvariance, PTL

(* logWriter.Write, Bus.Publish, apiStreamLogs: what a tailing client      *)
(* misses met its own full channel, or fell between the read of the row    *)
(* and the subscription.                                                   *)
THEOREM NothingIsLostSilently == Spec => []NothingLostSilently
<1>1. LInv => NothingLostSilently
  <2> SUFFICES ASSUME LInv, NEW c \in Clients, pc[c] = "tail", NEW i \in 1 .. Published
               PROVE  \/ i <= dep[c].log
                      \/ i \in ToSet(sent[c]) \cup ToSet(buffer[c])
                      \/ i \in dropped[c]
                      \/ opened[c] < i /\ i <= joined[c]
    BY DEF NothingLostSilently
  <2>1. /\ opened[c] \in Nat /\ joined[c] \in Nat /\ dep[c].log \in Nat
        /\ Published \in Nat /\ i \in Nat /\ Told(c)
    BY PublishedType DEF LInv, TypeOK
  <2>2. opened[c] <= dep[c].log
    BY <2>1 DEF Told, ReadAt
  <2>3. CASE joined[c] < i
    BY <2>1, <2>3 DEF Told, Kept
  <2>4. CASE i <= opened[c]
    BY <2>1, <2>2, <2>4
  <2> QED
    BY <2>1, <2>3, <2>4
<1> QED
  BY <1>1, LogStreamInvariance, PTL

(* apiStreamLogs: the live chunks come in order, and at most the first of  *)
(* them was in the stored log already.                                     *)
THEOREM OneRepeatAtMostAlways == Spec => []OneRepeatAtMost
<1>1. LInv => OneRepeatAtMost
  <2> SUFFICES ASSUME LInv, NEW c \in Clients, pc[c] \in {"tail", "cancel"}
               PROVE  LET live == sent[c] \o buffer[c] IN
                      /\ \A i, j \in DOMAIN live : i < j => live[i] < live[j]
                      /\ live # <<>> => live[1] >= dep[c].log
    BY DEF OneRepeatAtMost
  <2> DEFINE live == sent[c] \o buffer[c]
  <2>1. /\ opened[c] \in Nat /\ joined[c] \in Nat /\ dep[c].log \in Nat /\ Told(c)
        /\ sent[c] \in Seq(Chunks) /\ buffer[c] \in Seq(Chunks)
        /\ Chunks \in SUBSET Nat
    BY LogStreamAssumption DEF LInv, TypeOK, Chunks
  <2>2. live \in Seq(Chunks)
    BY <2>1, Concat
  <2>3. Rising(live, joined[c], Published)
    BY <2>1 DEF Told, Live
  <2>4. opened[c] <= joined[c] /\ dep[c].log <= opened[c] + 1
    BY <2>1 DEF Told, ReadAt, JoinedAt
  <2> HIDE DEF live
  <2>5. live # <<>> => 1 \in DOMAIN live /\ live[1] \in Chunks
    BY <2>2
  <2>6. live # <<>> => live[1] >= dep[c].log
    <3>1. live # <<>> => joined[c] < live[1] /\ live[1] \in Nat
      BY <2>1, <2>3, <2>5 DEF Rising
    <3> QED
      BY <2>1, <2>4, <3>1
  <2> QED
    BY <2>3, <2>6 DEF live, Rising
<1> QED
  BY <1>1, LogStreamInvariance, PTL

(* Engine.work closes the stream after finish: the status in the done      *)
(* event is an outcome, unless the outcome was never recorded.             *)
THEOREM DoneIsAlwaysFinal == Spec => []DoneIsFinal
<1>1. LInv => DoneIsFinal
  BY DEF LInv
<1> QED
  BY <1>1, LogStreamInvariance, PTL

-----------------------------------------------------------------------------
(* CommandLog.                                                             *)

(* Stream waits for the child only at the end of the pipe, where nobody is *)
(* left to print, or with a line before it that is too long.               *)
WaitsForTheRest ==
    at = "wait" => \/ pipe = <<>> /\ child # "runs" /\ ~heir
                   \/ pipe # <<>> /\ Head(pipe) = "long"

CommandInv == CommandTypeOK /\ WaitsForTheRest

LEMMA InitEstablishesCommandInv == CommandInit => CommandInv
<1> SUFFICES ASSUME CommandInit PROVE CommandInv
  OBVIOUS
<1>1. heir \in BOOLEAN /\ over \in BOOLEAN
  BY DEF CommandInit
<1>2. pipe \in Seq(Lines) /\ commands \in 0 .. MaxCommands
  BY CommandLogAssumption DEF CommandInit
<1>3. at = "idle" /\ child = "none"
  BY DEF CommandInit
<1> QED
  BY <1>1, <1>2, <1>3 DEF CommandInv, CommandTypeOK, WaitsForTheRest

(* Whatever is printed comes behind what is in the pipe.                   *)
LEMMA FirstStaysFirst ==
    ASSUME NEW s \in Seq(Lines), NEW l \in Lines, s # <<>>
    PROVE  Append(s, l) # <<>> /\ Head(Append(s, l)) = Head(s)
OBVIOUS

LEMMA PipelineKeepsCommandInv ==
    ASSUME CommandInv, Pipeline PROVE CommandInv'
<1> USE DEF CommandInv, CommandTypeOK, WaitsForTheRest
<1>1. CASE UNCHANGED command
  BY <1>1 DEF command
<1>2. CASE Say
  BY <1>1, <1>2 DEF Say
<1>3. CASE StartCommand
  <2>1. /\ commands \in 0 .. MaxCommands /\ commands < MaxCommands
        /\ commands' = commands + 1
    BY <1>3 DEF StartCommand
  <2>2. commands' \in 0 .. MaxCommands
    BY <2>1, CommandLogAssumption
  <2>3. /\ at' = "scan" /\ child' = "runs"
        /\ heir' = heir /\ pipe' = pipe /\ over' = over
    BY <1>3 DEF StartCommand
  <2> QED
    BY <2>2, <2>3
<1>4. CASE ScanLine
  BY <1>4 DEF ScanLine
<1>5. CASE ScanStops
  BY <1>5 DEF ScanStops
<1>6. CASE EndOfFile
  BY <1>6 DEF EndOfFile
<1>7. CASE Return
  <2>1. heir' \in BOOLEAN /\ over' \in BOOLEAN
    BY <1>7 DEF Return
  <2>2. /\ at' = "idle" /\ child' = "none"
        /\ pipe' \in Seq(Lines) /\ commands' \in 0 .. MaxCommands
    BY <1>7 DEF Return
  <2> QED
    BY <2>1, <2>2
<1>8. CASE EndPipeline
  BY <1>1, <1>8 DEF EndPipeline
<1> QED
  BY <1>1, <1>2, <1>3, <1>4, <1>5, <1>6, <1>7, <1>8 DEF Pipeline

LEMMA ProcessesKeepCommandInv ==
    ASSUME CommandInv, Processes PROVE CommandInv'
<1> USE DEF CommandInv, CommandTypeOK, WaitsForTheRest
<1>1. CASE \E l \in Lines : Emit(l)
  <2> PICK l \in Lines : Emit(l)
    BY <1>1
  <2>1. pipe' = Append(pipe, l) /\ pipe' \in Seq(Lines)
    BY DEF Emit
  <2>2. CommandTypeOK'
    BY <2>1 DEF Emit
  <2>3. at' = "wait" => pipe # <<>> /\ Head(pipe) = "long"
    BY DEF Emit
  <2>4. WaitsForTheRest'
    BY <2>1, <2>3, FirstStaysFirst
  <2> QED
    BY <2>2, <2>4
<1>2. CASE LeaveHeir
  BY <1>2 DEF LeaveHeir
<1>3. CASE HeirEnds
  BY <1>3 DEF HeirEnds
<1>4. CASE ChildEnds
  BY <1>4 DEF ChildEnds
<1>5. CASE Expire
  BY <1>5 DEF Expire
<1>6. CASE Kill
  BY <1>6 DEF Kill
<1> QED
  BY <1>1, <1>2, <1>3, <1>4, <1>5, <1>6 DEF Processes

LEMMA StepKeepsCommandInv ==
    ASSUME CommandInv, [CommandNext]_cvars PROVE CommandInv'
<1>1. CASE UNCHANGED command
  BY <1>1 DEF command, CommandInv, CommandTypeOK, WaitsForTheRest
<1>2. CASE Pipeline
  BY <1>2, PipelineKeepsCommandInv
<1>3. CASE Processes
  BY <1>3, ProcessesKeepCommandInv
<1> QED
  BY <1>1, <1>2, <1>3 DEF CommandNext, cvars

(* The two parts of the invariant, in every state.                         *)
THEOREM CommandInvariance == CommandSpec => []CommandInv
BY InitEstablishesCommandInv, StepKeepsCommandInv, PTL DEF CommandSpec

(* Type correctness of the commands, whatever is printed by whom.          *)
THEOREM CommandTypeCorrect == CommandSpec => []CommandTypeOK
<1>1. CommandInv => CommandTypeOK
  BY DEF CommandInv
<1> QED
  BY <1>1, CommandInvariance, PTL

(* logWriter under sh.Stream: a behaviour of the commands and their log is *)
(* one of LogStream, so what is proved of the log and its readers holds    *)
(* for the output of commands, deadlines and heirs included.               *)
THEOREM CommandsRunTheLog == CommandSpec => Spec
<1>1. CommandInit => Init
  BY DEF CommandInit
<1>2. ASSUME [CommandNext]_cvars PROVE [Next]_vars
  <2>1. CASE UNCHANGED vars
    BY <2>1
  <2>2. CASE Pipeline
    <3>1. \/ MarkRunning \/ AppendLog \/ Publish \/ Finish \/ Close
          \/ UNCHANGED vars
      BY <2>2 DEF Pipeline, Say, StartCommand, ScanLine, ScanStops, EndOfFile,
                  Return, EndPipeline
    <3> QED
      BY <3>1 DEF Next, Write
  <2>3. CASE Processes
    BY <2>3 DEF Processes, Emit, LeaveHeir, HeirEnds, ChildEnds, Expire, Kill
  <2>4. CASE DeleteRow \/ \E c \in Clients : Open(c) \/ Handle(c) \/ Disconnect(c)
    BY <2>4 DEF Next
  <2> QED
    BY <1>2, <2>1, <2>2, <2>3, <2>4 DEF CommandNext, cvars
<1> QED
  BY <1>1, <1>2, PTL DEF CommandSpec, Spec

(* sh.Stream returns with everything that its command and what the command *)
(* started have printed in the log, unless a line was too long.            *)
THEOREM OutputIsAlwaysWhole == CommandSpec => OutputIsWhole
<1>1. CommandInv /\ [CommandNext]_cvars =>
          [at = "wait" /\ at' = "idle" => pipe = <<>> \/ Head(pipe) = "long"]_cvars
  BY DEF CommandInv, WaitsForTheRest
<1> QED
  BY <1>1, CommandInvariance, PTL DEF CommandSpec, OutputIsWhole
=============================================================================
