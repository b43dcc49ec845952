------------------------- MODULE OfflinePageProofs -------------------------
(***************************************************************************)
(* OfflinePage keeps its promises: what a tab takes for connected is open, *)
(* entries are recorded as handed in, the block list is stored whole and   *)
(* who is on it is found.  Both parts have an invariant of their own,      *)
(* SchemasInv and EntryIInv, and a step of one leaves the other alone.     *)
(***************************************************************************)
EXTENDS OfflinePage, FiniteSetTheorems, SequenceTheorems, TLAPS

-----------------------------------------------------------------------------
(* Short sequences, and what sequences contain.                            *)

\* What is in a sequence.
LEMMA InSeq ==
    ASSUME NEW S, NEW s \in Seq(S), NEW k \in DOMAIN s
    PROVE  s[k] \in S
BY LenProperties

\* Of a sequence of one nothing is left without it.
LEMMA OnlyOne ==
    ASSUME NEW S, NEW s \in Seq(S), Len(s) <= 1, s # <<>>
    PROVE  /\ Len(s) = 1 /\ DOMAIN s = {1} /\ s[1] \in S
           /\ Head(s) = s[1] /\ Last(s) = s[1]
           /\ Tail(s) = <<>> /\ Front(s) = <<>> /\ RemoveAt(s, 1) = <<>>
<1>1. Len(s) = 1 /\ DOMAIN s = {1} /\ s[1] \in S
  <2>1. Len(s) \in Nat /\ s \in [1..Len(s) -> S]
    BY LenProperties
  <2>2. Len(s) \in Nat \ {0}
    BY EmptySeq
  <2>3. 1..1 = {1}
    OBVIOUS
  <2> QED  BY <2>1, <2>2, <2>3
<1>2. Head(s) = s[1] /\ Last(s) = s[1]
  BY <1>1 DEF Last
<1>3. Tail(s) = <<>>
  <2>1. Tail(s) \in Seq(S) /\ Len(Tail(s)) = 0
    BY <1>1, HeadTailProperties
  <2> QED  BY <2>1, EmptySeq
<1>4. SubSeq(s, 1, 0) = <<>> /\ SubSeq(s, 2, 1) = <<>>
  BY SubSeqEmpty
<1>5. <<>> \o <<>> = <<>>
  OBVIOUS
<1> QED  BY <1>1, <1>2, <1>3, <1>4, <1>5 DEF Front, RemoveAt

\* What is appended is contained.
LEMMA ToSetAppend ==
    ASSUME NEW S, NEW s \in Seq(S), NEW e \in S
    PROVE  ToSet(Append(s, e)) = ToSet(s) \cup {e}
<1> DEFINE t == Append(s, e)
<1>1. /\ DOMAIN s = 1..Len(s) /\ Len(s) \in Nat /\ DOMAIN t = 1..(Len(s) + 1)
      /\ \A i \in 1..Len(s) : t[i] = s[i]
      /\ t[Len(s) + 1] = e
  BY AppendProperties, LenProperties
<1> HIDE DEF t
<1>2. \A x : x \in ToSet(t) <=> x \in ToSet(s) \/ x = e
  BY <1>1 DEF ToSet
<1> QED  BY <1>2 DEF t

\* A sequence contains its first and what the rest contains.
LEMMA ToSetTail ==
    ASSUME NEW S, NEW s \in Seq(S), s # <<>>
    PROVE  ToSet(s) = {Head(s)} \cup ToSet(Tail(s))
<1> DEFINE t == Tail(s)
<1>1. /\ DOMAIN s = 1..Len(s) /\ Len(s) \in Nat \ {0} /\ DOMAIN t = 1..(Len(s) - 1)
      /\ \A i \in 1..(Len(s) - 1) : t[i] = s[i + 1]
      /\ Head(s) = s[1]
  BY HeadTailProperties, LenProperties, EmptySeq
<1> HIDE DEF t
<1>2. ASSUME NEW x \in ToSet(s) PROVE x = Head(s) \/ x \in ToSet(t)
  <2>1. PICK i \in 1..Len(s) : s[i] = x
    BY <1>1 DEF ToSet
  <2>2. CASE i = 1
    BY <1>1, <2>1, <2>2
  <2>3. CASE i # 1
    <3>1. i - 1 \in DOMAIN t /\ t[i - 1] = x
      BY <1>1, <2>1, <2>3
    <3> QED  BY <3>1 DEF ToSet
  <2> QED  BY <2>2, <2>3
<1>3. Head(s) \in ToSet(s) /\ ToSet(t) \subseteq ToSet(s)
  <2>1. 1 \in DOMAIN s /\ \A i \in DOMAIN t : i + 1 \in DOMAIN s
    BY <1>1
  <2> QED  BY <1>1, <2>1 DEF ToSet
<1> QED  BY <1>2, <1>3 DEF t

-----------------------------------------------------------------------------
(* The chunks of a list.                                                   *)

\* A quotient and its multiples.
LEMMA Quotient ==
    ASSUME NEW a \in Nat, NEW d \in Nat \ {0}
    PROVE  /\ a \div d \in Nat
           /\ (a \div d) * d <= a /\ a < (a \div d) * d + d
BY SMT

\* Each of n rows is in one of the chunks.
LEMMA ChunkExists ==
    ASSUME NEW n \in Nat, NEW j \in 1..n, NEW d \in Nat \ {0}
    PROVE  /\ (n + d - 1) \div d \in Nat
           /\ (j - 1) \div d + 1 \in 1..((n + d - 1) \div d)
<1> DEFINE p == (j - 1) \div d
           q == (n + d - 1) \div d
<1>1. p \in Nat /\ p * d <= j - 1
  BY Quotient
<1>2. q \in Nat /\ n + d - 1 < q * d + d
  BY Quotient
<1> HIDE DEF p, q
<1>3. p * d + d < q * d + d
  BY <1>1, <1>2
<1>4. p < q
  <2> SUFFICES ASSUME q <= p PROVE FALSE
    BY <1>1, <1>2
  <2>1. q * d <= p * d
    BY <1>1, <1>2
  <2> QED  BY <1>1, <1>2, <1>3, <2>1
<1> QED  BY <1>1, <1>2, <1>4 DEF p, q

\* The elements of a finite set, one after the other.
LEMMA SeqOfSet ==
    ASSUME NEW S, IsFiniteSet(S)
    PROVE  /\ Cardinality(S) \in Nat
           /\ SetToSeq(S) \in [1..Cardinality(S) -> S]
           /\ \A x \in S : \E j \in 1..Cardinality(S) : SetToSeq(S)[j] = x
<1> DEFINE n == Cardinality(S)
           g == SetToSeq(S)
<1>1. n \in Nat /\ \E f \in [1..n -> S] : IsInjective(f)
  BY FS_CardinalityType DEF ExistsBijection, Bijection, Injection
<1>2. g \in [1..n -> S] /\ IsInjective(g)
  BY <1>1 DEF SetToSeq
<1>3. g \in Injection(1..n, S)
  BY <1>2 DEF Injection
<1>4. Cardinality(1..n) = n
  BY <1>1, FS_Interval
<1> HIDE DEF g
<1>5. g \in Surjection(1..n, S)
  BY <1>3, <1>4, FS_Injection
<1> QED  BY <1>1, <1>2, <1>5 DEF Surjection, g

\* The chunks of a file contain the patrons of its lines, and no others.
LEMMA ChunksMakeUp ==
    ASSUME NEW f \in Seq(Patrons)
    PROVE  /\ Chunks(f) \in Seq(SUBSET Patrons) /\ ToSet(f) \subseteq Patrons
           /\ UNION ToSet(Chunks(f)) = ToSet(f)
<1> DEFINE S == ToSet(f)
           n == Cardinality(S)
           rows == SetToSeq(S)
           last == (n + ChunkSize - 1) \div ChunkSize
           chunk(c) == {rows[k] : k \in {j \in 1..n : (j - 1) \div ChunkSize = c - 1}}
<1>1. S \subseteq Patrons /\ IsFiniteSet(S)
  <2>1. Len(f) \in Nat /\ f \in [1..Len(f) -> Patrons]
    BY LenProperties
  <2>2. f \in Surjection(1..Len(f), S) /\ S \subseteq Patrons
    BY <2>1 DEF Surjection, ToSet
  <2>3. IsFiniteSet(1..Len(f))
    BY <2>1, FS_Interval
  <2> QED  BY <2>2, <2>3, FS_Surjection
<1>2. /\ n \in Nat /\ rows \in [1..n -> S]
      /\ \A x \in S : \E j \in 1..n : rows[j] = x
  BY <1>1, SeqOfSet
<1>3. ChunkSize \in Nat \ {0} /\ last \in Nat
  BY <1>2, EntryAssumption, Quotient
<1>4. Len(rows) = n /\ DOMAIN rows = 1..n
  BY <1>2
<1>5. Chunks(f) = [c \in 1..last |-> chunk(c)]
  BY <1>4 DEF Chunks
<1> HIDE DEF S, n, rows, last
<1>6. \A c \in 1..last : chunk(c) \in SUBSET Patrons
  BY <1>1, <1>2
<1>7. Chunks(f) \in Seq(SUBSET Patrons)
  BY <1>3, <1>5, <1>6, IsASeq
<1>8. ASSUME NEW x \in S PROVE x \in UNION ToSet(Chunks(f))
  <2>1. PICK j \in 1..n : rows[j] = x
    BY <1>2
  <2> DEFINE c == (j - 1) \div ChunkSize + 1
  <2>2. c \in 1..last
    BY <1>2, <1>3, ChunkExists DEF last
  <2>3. (j - 1) \div ChunkSize = c - 1
    BY <1>2, <1>3, Quotient
  <2>4. x \in chunk(c)
    BY <2>1, <2>3
  <2> HIDE DEF c, chunk
  <2>5. chunk(c) \in ToSet(Chunks(f))
    BY <1>5, <2>2 DEF ToSet
  <2> QED  BY <2>4, <2>5
<1>9. UNION ToSet(Chunks(f)) \subseteq S
  BY <1>2, <1>5 DEF ToSet
<1> QED  BY <1>1, <1>7, <1>8, <1>9 DEF S
-----------------------------------------------------------------------------
(* Connected schemas are open.                                             *)

\* No schema is connected before it is asked for.
LEMMA SchemasInit == Worker!Init => Worker!SchemasInv
<1> SUFFICES ASSUME Worker!Init PROVE Worker!SchemasInv
  OBVIOUS
<1> USE DEF Worker!Init
<1>1. Worker!TypeOK
  <2>1. \A t \in Tabs : out[t] \in Seq(Worker!MsgType)
    BY EmptySeq
  <2>2. \A s \in Schemas : db[s] = "opening" <=> opener[s] \in Tabs
    BY PageAssumption
  <2> QED  BY <2>1, <2>2 DEF Worker!TypeOK, Worker!NoJob, Worker!JobType
<1>2. \A t \in Tabs : DOMAIN out[t] = {}
  OBVIOUS
<1> QED  BY <1>1, <1>2 DEF Worker!SchemasInv, Worker!ConnectedIsOpen

\* A job that was asked for stays one.
LEMMA JobSet ==
    ASSUME Worker!TypeOK, NEW t \in Tabs, NEW j \in Jobs,
           NEW s \in Schemas, NEW st \in {"waiting", "relayed", "ok", "err", "refused"},
           job' = [job EXCEPT ![t][j] = [schema |-> s, state |-> st]]
    PROVE  /\ job' \in [Tabs -> [Jobs -> Worker!JobType]]
           /\ \A u \in Tabs, i \in Jobs : job[u][i] # Worker!NoJob => job'[u][i] # Worker!NoJob
           /\ job'[t][j] # Worker!NoJob
<1> DEFINE x == [schema |-> s, state |-> st]
<1>1. x \in Worker!JobType /\ x # Worker!NoJob
  <2>1. x.state # Worker!NoJob.state
    BY DEF Worker!NoJob
  <2> QED  BY <2>1 DEF Worker!JobType
<1> HIDE DEF x
<1>2. job \in [Tabs -> [Jobs -> Worker!JobType]] /\ job' = [job EXCEPT ![t][j] = x]
  BY DEF Worker!TypeOK, x
<1> QED  BY <1>1, <1>2

\* What a message is.
LEMMA Messages ==
    ASSUME NEW m \in Worker!MsgType
    PROVE  /\ m.op \in {"create", "connect", "request"} /\ m.schema \in Schemas
           /\ m.op = "request" => m.job \in Jobs
           /\ m = Worker!Msg(m.op, m.schema, m.job)
BY DEF Worker!MsgType, Worker!Msg

\* What a step must not disturb.
LEMMA SchemasKeep ==
    ASSUME Worker!SchemasInv,
           step' \in [Tabs -> [Schemas ->
                {"none", "creating", "connecting", "connected", "failed"}]],
           cannot' \in SUBSET Tabs, job' \in [Tabs -> [Jobs -> Worker!JobType]],
           DOMAIN out' = Tabs, \A t \in Tabs : out'[t] \in Seq(Worker!MsgType),
           back' \in [Tabs -> SUBSET (Worker!MsgType \X BOOLEAN)],
           created' \in SUBSET Schemas, db' \in [Schemas -> {"closed", "opening", "open"}],
           DOMAIN opener' = Schemas,
           \A s \in Schemas : db'[s] = "opening" <=> opener'[s] \in Tabs,
           \A s \in Schemas : db[s] = "open" => db'[s] = "open",
           \A t \in Tabs, s \in Schemas :
                step'[t][s] = "connected" => step[t][s] = "connected" \/ db'[s] = "open",
           \A t \in Tabs, j \in Jobs :
                job[t][j] # Worker!NoJob => job'[t][j] # Worker!NoJob,
           \A t \in Tabs : \A m \in back'[t] :
                \/ m \in back[t]
                \/ /\ m[1].op = "connect" /\ m[2] => db'[m[1].schema] = "open"
                   /\ m[1].op = "request" => job'[t][m[1].job] # Worker!NoJob,
           \A t \in Tabs : \A k \in DOMAIN out'[t] :
                \/ \E l \in DOMAIN out[t] : out'[t][k] = out[t][l]
                \/ out'[t][k].op = "request" => job'[t][out'[t][k].job] # Worker!NoJob
    PROVE  Worker!SchemasInv'
<1> USE DEF Worker!SchemasInv
<1>1. Worker!TypeOK' /\ Worker!ConnectedIsOpen'
  BY DEF Worker!TypeOK, Worker!ConnectedIsOpen
<1>2. ASSUME NEW t \in Tabs, NEW m \in back'[t]
      PROVE  /\ m[1].op = "connect" /\ m[2] => db'[m[1].schema] = "open"
             /\ m[1].op = "request" => job'[t][m[1].job] # Worker!NoJob
  <2>1. CASE m \in back[t]
    <3>1. m[1] \in Worker!MsgType
      BY <2>1 DEF Worker!TypeOK
    <3>2. m[1].schema \in Schemas /\ (m[1].op = "request" => m[1].job \in Jobs)
      BY <3>1, Messages
    <3> QED  BY ZenonT(30), <2>1, <3>2
  <2> QED  BY <2>1
<1>3. ASSUME NEW t \in Tabs, NEW k \in DOMAIN out'[t], out'[t][k].op = "request"
      PROVE  job'[t][out'[t][k].job] # Worker!NoJob
  <2>1. ASSUME NEW l \in DOMAIN out[t], out'[t][k] = out[t][l]
        PROVE  job'[t][out'[t][k].job] # Worker!NoJob
    <3>1. out[t][l] \in Worker!MsgType
      BY InSeq DEF Worker!TypeOK
    <3>2. out[t][l].job \in Jobs
      BY <1>3, <2>1, <3>1, Messages
    <3>3. job[t][out[t][l].job] # Worker!NoJob
      BY <1>3, <2>1
    <3>4. job'[t][out[t][l].job] # Worker!NoJob
      BY <3>2, <3>3
    <3> QED  BY <2>1, <3>4
  <2> QED  BY <1>3, <2>1
<1> QED  BY <1>1, <1>2, <1>3

\* A message is put in a port's queue.
LEMMA Sent ==
    ASSUME Worker!SchemasInv, NEW t \in Tabs, NEW m \in Worker!MsgType,
           out' = [out EXCEPT ![t] = Append(@, m)]
    PROVE  /\ DOMAIN out' = Tabs /\ \A u \in Tabs : out'[u] \in Seq(Worker!MsgType)
           /\ \A u \in Tabs : \A k \in DOMAIN out'[u] :
                 \/ \E l \in DOMAIN out[u] : out'[u][k] = out[u][l]
                 \/ u = t /\ out'[u][k] = m
<1> DEFINE q == Append(out[t], m)
<1>1. out[t] \in Seq(Worker!MsgType)
  BY DEF Worker!SchemasInv, Worker!TypeOK
<1>2. /\ q \in Seq(Worker!MsgType) /\ DOMAIN q = 1..(Len(out[t]) + 1)
      /\ DOMAIN out[t] = 1..Len(out[t]) /\ Len(out[t]) \in Nat
      /\ \A k \in 1..Len(out[t]) : q[k] = out[t][k]
      /\ q[Len(out[t]) + 1] = m
  BY <1>1, AppendProperties, LenProperties
<1>3. out' = [out EXCEPT ![t] = q]
  OBVIOUS
<1> HIDE DEF q
<1>4. \A k \in DOMAIN q : (\E l \in DOMAIN out[t] : q[k] = out[t][l]) \/ q[k] = m
  BY <1>2
<1> QED  BY <1>2, <1>3, <1>4 DEF Worker!SchemasInv, Worker!TypeOK

\* The first message in a queue is taken.
LEMMA Taken ==
    ASSUME Worker!SchemasInv, NEW t \in Tabs, out[t] # <<>>,
           out' = [out EXCEPT ![t] = Tail(@)]
    PROVE  /\ DOMAIN out' = Tabs /\ \A u \in Tabs : out'[u] \in Seq(Worker!MsgType)
           /\ \A u \in Tabs : \A k \in DOMAIN out'[u] :
                 \E l \in DOMAIN out[u] : out'[u][k] = out[u][l]
           /\ Head(out[t]) \in Worker!MsgType
           /\ Head(out[t]).op = "request" => job[t][Head(out[t]).job] # Worker!NoJob
<1> DEFINE q == Tail(out[t])
<1>1. out[t] \in Seq(Worker!MsgType)
  BY DEF Worker!SchemasInv, Worker!TypeOK
<1>2. /\ q \in Seq(Worker!MsgType) /\ DOMAIN q = 1..(Len(out[t]) - 1)
      /\ DOMAIN out[t] = 1..Len(out[t]) /\ Len(out[t]) \in Nat \ {0}
      /\ \A k \in DOMAIN q : q[k] = out[t][k + 1]
      /\ Head(out[t]) = out[t][1]
  BY <1>1, HeadTailProperties, LenProperties, EmptySeq
<1>3. out' = [out EXCEPT ![t] = q]
  OBVIOUS
<1> HIDE DEF q
<1>4. \A k \in DOMAIN q : k + 1 \in DOMAIN out[t]
  BY <1>2
<1>5. 1 \in DOMAIN out[t]
  BY <1>2
<1>6. Head(out[t]) \in Worker!MsgType
  BY <1>1, <1>2, <1>5, InSeq
<1>7. Head(out[t]).op = "request" => job[t][Head(out[t]).job] # Worker!NoJob
  BY <1>2, <1>5 DEF Worker!SchemasInv
<1> QED  BY <1>2, <1>3, <1>4, <1>6, <1>7 DEF Worker!SchemasInv, Worker!TypeOK

\* Both modules count alike.
LEMMA SameCardinality == \A S : Worker!Cardinality(S) = Cardinality(S)
BY DEF Worker!Cardinality, Cardinality

\* A request first has the fresh schemas created.
LEMMA RequestKeeps ==
    ASSUME Worker!SchemasInv, NEW t \in Tabs, NEW j \in Jobs, NEW s \in Schemas,
           Worker!Request(t, j, s)
    PROVE  Worker!SchemasInv'
<1> USE DEF Worker!SchemasInv
<1>1. /\ UNCHANGED <<cannot, back, created, db, opener>>
      /\ \E st \in {"refused", "waiting"} :
            job' = [job EXCEPT ![t][j] = [schema |-> s, state |-> st]]
  BY DEF Worker!Request, Worker!workerVars
<1>2. /\ job' \in [Tabs -> [Jobs -> Worker!JobType]]
      /\ \A u \in Tabs, i \in Jobs : job[u][i] # Worker!NoJob => job'[u][i] # Worker!NoJob
  <2>1. PICK st \in {"refused", "waiting"} :
           job' = [job EXCEPT ![t][j] = [schema |-> s, state |-> st]]
    BY <1>1
  <2> QED  BY <2>1, JobSet
<1>3. /\ step' \in [Tabs -> [Schemas ->
                {"none", "creating", "connecting", "connected", "failed"}]]
      /\ \A u \in Tabs, x \in Schemas :
            step'[u][x] = "connected" => step[u][x] = "connected"
  <2>1. CASE t \in cannot
    BY <2>1 DEF Worker!Request, Worker!TypeOK
  <2>2. CASE t \notin cannot
    <3> DEFINE f == [x \in Schemas |-> IF x \in Worker!Fresh(t) THEN "creating"
                                       ELSE step[t][x]]
    <3>1. step' = [step EXCEPT ![t] = f]
      BY <2>2 DEF Worker!Request, Worker!TypeOK
    <3>2. /\ f \in [Schemas -> {"none", "creating", "connecting", "connected", "failed"}]
          /\ \A x \in Schemas : f[x] = "connected" => step[t][x] = "connected"
      BY DEF Worker!TypeOK
    <3> HIDE DEF f
    <3> QED  BY <3>1, <3>2 DEF Worker!TypeOK
  <2> QED  BY <2>1, <2>2
<1>4. /\ DOMAIN out' = Tabs
      /\ \A u \in Tabs : /\ out'[u] \in Seq(Worker!MsgType)
                         /\ \A k \in DOMAIN out'[u] : \/ out'[u][k].op = "create"
                                                      \/ k \in DOMAIN out[u]
                                                         /\ out'[u][k] = out[u][k]
  <2>1. CASE t \in cannot
    BY <2>1 DEF Worker!Request, Worker!TypeOK
  <2>2. CASE t \notin cannot
    <3>1. PICK q \in [1..Cardinality(Worker!Fresh(t)) -> Worker!Fresh(t)] :
             out' = [out EXCEPT ![t] = @ \o [k \in DOMAIN q |-> Worker!Msg("create", q[k], 0)]]
      BY <2>2, Zenon, SameCardinality DEF Worker!Request
    <3> DEFINE n == Cardinality(Worker!Fresh(t))
               msg(k) == Worker!Msg("create", q[k], 0)
               b == [k \in 1..n |-> msg(k)]
    <3>2. n \in Nat
      <4>1. Worker!Fresh(t) \subseteq Schemas
        BY DEF Worker!Fresh
      <4> QED  BY <4>1, PageAssumption, FS_Subset, FS_CardinalityType
    <3>3. \A k \in 1..n : msg(k) \in Worker!MsgType /\ msg(k).op = "create"
      BY DEF Worker!Msg, Worker!MsgType, Worker!Fresh
    <3>4. out' = [out EXCEPT ![t] = out[t] \o b]
      BY <3>1
    <3> HIDE DEF n, msg
    <3>5. b \in Seq(Worker!MsgType)
      BY <3>2, <3>3, IsASeq
    <3>6. out[t] \in Seq(Worker!MsgType)
      BY DEF Worker!TypeOK
    <3> HIDE DEF b
    <3>7. out[t] \o b \in Seq(Worker!MsgType)
      BY <3>5, <3>6, ConcatProperties
    <3>8. ASSUME NEW k \in DOMAIN (out[t] \o b)
          PROVE  \/ (out[t] \o b)[k].op = "create"
                 \/ k \in DOMAIN out[t] /\ (out[t] \o b)[k] = out[t][k]
      <4>1. /\ DOMAIN (out[t] \o b) = 1..(Len(out[t]) + Len(b)) /\ DOMAIN b = 1..Len(b)
            /\ DOMAIN out[t] = 1..Len(out[t]) /\ Len(out[t]) \in Nat /\ Len(b) \in Nat
        BY <3>5, <3>6, <3>7, ConcatProperties, LenProperties
      <4>2. CASE k <= Len(out[t])
        BY <4>1, <4>2, <3>5, <3>6, ConcatProperties
      <4>3. CASE k > Len(out[t])
        <5>1. k - Len(out[t]) \in DOMAIN b
          BY <4>1, <4>3
        <5>2. (out[t] \o b)[k] = b[k - Len(out[t])]
          BY <4>1, <4>3, <3>5, <3>6, ConcatProperties
        <5> QED  BY <5>1, <5>2, <3>3 DEF b
      <4> QED  BY <4>1, <4>2, <4>3
    <3> QED  BY <3>4, <3>7, <3>8 DEF Worker!TypeOK
  <2> QED  BY <2>1, <2>2
<1> QED  BY <1>1, <1>2, <1>3, <1>4, SchemasKeep DEF Worker!TypeOK

\* A request is relayed once its schemas are connected, or cannot be.
LEMMA RelayKeeps ==
    ASSUME Worker!SchemasInv, NEW t \in Tabs, NEW j \in Jobs, Worker!Relay(t, j)
    PROVE  Worker!SchemasInv'
<1> USE DEF Worker!SchemasInv
<1>1. /\ UNCHANGED <<step, back, created, db, opener>> /\ cannot' \in SUBSET Tabs
      /\ job[t][j].state = "waiting"
  BY DEF Worker!Relay, Worker!workerVars, Worker!TypeOK
<1> DEFINE s == job[t][j].schema
           m == Worker!Msg("request", s, j)
<1>2. s \in Schemas
  BY <1>1 DEF Worker!TypeOK, Worker!JobType, Worker!NoJob
<1>3. job' = [job EXCEPT ![t][j] = [schema |-> s, state |-> "relayed"]]
  <2>1. job[t][j] \in [schema : Schemas, state : {"waiting", "relayed", "ok", "err", "refused"}]
    BY <1>1 DEF Worker!TypeOK, Worker!JobType, Worker!NoJob
  <2>2. [job[t][j] EXCEPT !.state = "relayed"] = [schema |-> s, state |-> "relayed"]
    BY <2>1
  <2>3. job' = [job EXCEPT ![t][j] = [job[t][j] EXCEPT !.state = "relayed"]]
    BY DEF Worker!Relay, Worker!TypeOK
  <2> QED  BY <2>2, <2>3
<1>4. m \in Worker!MsgType /\ m.job = j /\ out' = [out EXCEPT ![t] = Append(@, m)]
  BY <1>2 DEF Worker!Relay, Worker!Msg, Worker!MsgType
<1> HIDE DEF s, m
<1>5. /\ job' \in [Tabs -> [Jobs -> Worker!JobType]]
      /\ \A u \in Tabs, i \in Jobs : job[u][i] # Worker!NoJob => job'[u][i] # Worker!NoJob
      /\ job'[t][j] # Worker!NoJob
  BY <1>2, <1>3, JobSet
<1>6. /\ DOMAIN out' = Tabs /\ \A u \in Tabs : out'[u] \in Seq(Worker!MsgType)
      /\ \A u \in Tabs : \A k \in DOMAIN out'[u] :
            \/ \E l \in DOMAIN out[u] : out'[u][k] = out[u][l]
            \/ u = t /\ out'[u][k] = m
  <2> HIDE DEF Worker!SchemasInv
  <2> QED  BY ZenonT(30), <1>4, Sent
<1>7. \A u \in Tabs : \A k \in DOMAIN out'[u] :
            \/ \E l \in DOMAIN out[u] : out'[u][k] = out[u][l]
            \/ out'[u][k].op = "request" => job'[u][out'[u][k].job] # Worker!NoJob
  BY <1>4, <1>5, <1>6
<1> QED  BY <1>1, <1>5, <1>6, <1>7, SchemasKeep DEF Worker!TypeOK

\* A tab hears how its request to create or connect a schema went.
LEMMA SteppedKeeps ==
    ASSUME Worker!SchemasInv, NEW t \in Tabs, NEW m \in back[t], Worker!Stepped(t, m)
    PROVE  Worker!SchemasInv'
<1> USE DEF Worker!SchemasInv
<1>1. /\ UNCHANGED <<cannot, job, created, db, opener>> /\ m[1].op # "request"
      /\ back' = [back EXCEPT ![t] = @ \ {m}]
  BY DEF Worker!Stepped, Worker!workerVars
<1>2. m[1] \in Worker!MsgType /\ m[1].op \in {"create", "connect"} /\ m[1].schema \in Schemas
  <2>1. m[1] \in Worker!MsgType
    BY DEF Worker!TypeOK
  <2> QED  BY <1>1, <2>1, Messages
<1>3. /\ back' \in [Tabs -> SUBSET (Worker!MsgType \X BOOLEAN)]
      /\ \A u \in Tabs : back'[u] \subseteq back[u]
  BY <1>1 DEF Worker!TypeOK
<1>4. CASE m[1].op = "create"
  <2> DEFINE x == Worker!Msg("connect", m[1].schema, 0)
  <2>1. x \in Worker!MsgType /\ x.op = "connect"
    BY <1>2 DEF Worker!Msg, Worker!MsgType
  <2>2. /\ step' = [step EXCEPT ![t][m[1].schema] = "connecting"]
        /\ out' = [out EXCEPT ![t] = Append(@, x)]
    BY <1>4 DEF Worker!Stepped
  <2> HIDE DEF x
  <2>3. /\ DOMAIN out' = Tabs /\ \A u \in Tabs : out'[u] \in Seq(Worker!MsgType)
        /\ \A u \in Tabs : \A k \in DOMAIN out'[u] :
              \/ \E l \in DOMAIN out[u] : out'[u][k] = out[u][l]
              \/ u = t /\ out'[u][k] = x
    <3> HIDE DEF Worker!SchemasInv
    <3> QED  BY <2>1, <2>2, Sent
  <2>4. \A u \in Tabs : \A k \in DOMAIN out'[u] :
              \/ \E l \in DOMAIN out[u] : out'[u][k] = out[u][l]
              \/ out'[u][k].op = "request" => job'[u][out'[u][k].job] # Worker!NoJob
    BY <2>1, <2>3
  <2>5. /\ step' \in [Tabs -> [Schemas ->
                {"none", "creating", "connecting", "connected", "failed"}]]
        /\ \A u \in Tabs, s \in Schemas : step'[u][s] = "connected" => step[u][s] = "connected"
    BY <2>2 DEF Worker!TypeOK
  <2> QED  BY <1>1, <1>3, <2>3, <2>4, <2>5, SchemasKeep DEF Worker!TypeOK
<1>5. CASE m[1].op = "connect"
  <2>1. /\ step' = [step EXCEPT ![t][m[1].schema] = IF m[2] THEN "connected" ELSE "failed"]
        /\ UNCHANGED out
    BY <1>5 DEF Worker!Stepped
  <2>2. m[2] => db[m[1].schema] = "open"
    BY <1>5
  <2>3. /\ step' \in [Tabs -> [Schemas ->
                {"none", "creating", "connecting", "connected", "failed"}]]
        /\ \A u \in Tabs, s \in Schemas :
              step'[u][s] = "connected" => step[u][s] = "connected" \/ db'[s] = "open"
    BY <1>1, <1>2, <2>1, <2>2 DEF Worker!TypeOK
  <2> QED  BY <1>1, <1>3, <2>1, <2>3, SchemasKeep DEF Worker!TypeOK
<1> QED  BY <1>2, <1>4, <1>5

\* A request's answer arrives.
LEMMA DoneKeeps ==
    ASSUME Worker!SchemasInv, NEW t \in Tabs, NEW m \in back[t], Worker!Done(t, m)
    PROVE  Worker!SchemasInv'
<1> USE DEF Worker!SchemasInv
<1>1. /\ UNCHANGED <<step, cannot, out, created, db, opener>> /\ m[1].op = "request"
      /\ back' = [back EXCEPT ![t] = @ \ {m}]
  BY DEF Worker!Done, Worker!workerVars
<1> DEFINE j == m[1].job
           s == job[t][j].schema
           st == IF m[2] THEN "ok" ELSE "err"
<1>2. j \in Jobs /\ job[t][j] # Worker!NoJob
  <2>1. m[1] \in Worker!MsgType
    BY DEF Worker!TypeOK
  <2> QED  BY <1>1, <2>1, Messages
<1>3. /\ back' \in [Tabs -> SUBSET (Worker!MsgType \X BOOLEAN)]
      /\ \A u \in Tabs : back'[u] \subseteq back[u]
  BY <1>1 DEF Worker!TypeOK
<1> HIDE DEF j
<1>4. s \in Schemas /\ job' = [job EXCEPT ![t][j] = [schema |-> s, state |-> st]]
  <2>1. job[t][j] \in [schema : Schemas, state : {"waiting", "relayed", "ok", "err", "refused"}]
    BY <1>2 DEF Worker!TypeOK, Worker!JobType
  <2>2. [job[t][j] EXCEPT !.state = st] = [schema |-> s, state |-> st]
    BY <2>1
  <2>3. job' = [job EXCEPT ![t][j] = [job[t][j] EXCEPT !.state = st]]
    BY <1>2 DEF Worker!Done, Worker!TypeOK, j
  <2> QED  BY <2>1, <2>2, <2>3
<1>5. st \in {"waiting", "relayed", "ok", "err", "refused"}
  OBVIOUS
<1> HIDE DEF s, st
<1>6. /\ job' \in [Tabs -> [Jobs -> Worker!JobType]]
      /\ \A u \in Tabs, i \in Jobs : job[u][i] # Worker!NoJob => job'[u][i] # Worker!NoJob
  BY <1>2, <1>4, <1>5, JobSet
<1> QED  BY <1>1, <1>3, <1>6, SchemasKeep DEF Worker!TypeOK
\* An answer is sent.
LEMMA Replied ==
    ASSUME Worker!SchemasInv, NEW t, NEW r \in Worker!MsgType \X BOOLEAN,
           back' = [back EXCEPT ![t] = @ \cup {r}]
    PROVE  /\ back' \in [Tabs -> SUBSET (Worker!MsgType \X BOOLEAN)]
           /\ \A u \in Tabs : \A n \in back'[u] : n \in back[u] \/ (u = t /\ n = r)
<1>1. back \in [Tabs -> SUBSET (Worker!MsgType \X BOOLEAN)]
  BY DEF Worker!SchemasInv, Worker!TypeOK
<1>2. ASSUME NEW u \in Tabs
      PROVE  back'[u] = IF u = t THEN back[u] \cup {r} ELSE back[u]
  BY <1>1
<1>3. DOMAIN back' = Tabs /\ back' = [u \in Tabs |-> back'[u]]
  BY <1>1
<1>4. ASSUME NEW u \in Tabs PROVE back'[u] \in SUBSET (Worker!MsgType \X BOOLEAN)
  BY <1>1, <1>2
<1> QED  BY <1>2, <1>3, <1>4

\* The worker creates a schema.
LEMMA CreateKeeps ==
    ASSUME Worker!SchemasInv, NEW t \in Tabs, Worker!Create(t)
    PROVE  Worker!SchemasInv'
<1> DEFINE m == Head(out[t])
           r == <<m, TRUE>>
<1>1. /\ UNCHANGED <<step, cannot, job, db, opener>> /\ m.op = "create" /\ out[t] # <<>>
      /\ out' = [out EXCEPT ![t] = Tail(@)] /\ created' = created \cup {m.schema}
      /\ back' = [back EXCEPT ![t] = @ \cup {r}]
  BY DEF Worker!Create, Worker!Reply, Worker!Take, Worker!tabVars
<1>2. /\ DOMAIN out' = Tabs /\ \A u \in Tabs : out'[u] \in Seq(Worker!MsgType)
      /\ \A u \in Tabs : \A k \in DOMAIN out'[u] :
            \E l \in DOMAIN out[u] : out'[u][k] = out[u][l]
      /\ m \in Worker!MsgType
  BY <1>1, Taken
<1> HIDE DEF m
<1>3. m.schema \in Schemas /\ r[1] = m /\ r \in Worker!MsgType \X BOOLEAN
  BY <1>2, Messages
<1> HIDE DEF r
<1>4. /\ back' \in [Tabs -> SUBSET (Worker!MsgType \X BOOLEAN)]
      /\ \A u \in Tabs : \A n \in back'[u] : n \in back[u] \/ n = r
  BY <1>1, <1>3, Replied
<1>5. r[1].op = "create"
  BY <1>1, <1>3
<1>6. \A u \in Tabs : \A n \in back'[u] : n \in back[u] \/ n[1].op = "create"
  BY <1>4, <1>5
<1> QED  BY <1>1, <1>2, <1>3, <1>4, <1>6, SchemasKeep DEF Worker!SchemasInv, Worker!TypeOK

\* The worker connects a schema, or says that it cannot while another tab has it
\* connected.
LEMMA ConnectKeeps ==
    ASSUME Worker!SchemasInv, NEW t \in Tabs, Worker!Connect(t)
    PROVE  Worker!SchemasInv'
<1> DEFINE m == Head(out[t])
           s == m.schema
<1>1. /\ UNCHANGED <<step, cannot, job, created>> /\ m.op = "connect" /\ out[t] # <<>>
      /\ out' = [out EXCEPT ![t] = Tail(@)]
  BY DEF Worker!Connect, Worker!Take, Worker!tabVars
<1>2. /\ DOMAIN out' = Tabs /\ \A u \in Tabs : out'[u] \in Seq(Worker!MsgType)
      /\ \A u \in Tabs : \A k \in DOMAIN out'[u] :
            \E l \in DOMAIN out[u] : out'[u][k] = out[u][l]
      /\ m \in Worker!MsgType
  BY <1>1, Taken
<1>3. s \in Schemas
  BY <1>2, Messages
<1>4. ASSUME NEW ok \in BOOLEAN, ok => db[s] = "open", UNCHANGED <<db, opener>>,
             back' = [back EXCEPT ![t] = @ \cup {<<m, ok>>}]
      PROVE  Worker!SchemasInv'
  <2> DEFINE r == <<m, ok>>
  <2>1. r[1].op = "connect" /\ (r[2] => db[r[1].schema] = "open")
    BY <1>1, <1>4
  <2>2. r \in Worker!MsgType \X BOOLEAN /\ back' = [back EXCEPT ![t] = @ \cup {r}]
    BY <1>2, <1>4
  <2> HIDE DEF r, m
  <2>3. /\ back' \in [Tabs -> SUBSET (Worker!MsgType \X BOOLEAN)]
        /\ \A u \in Tabs : \A n \in back'[u] : n \in back[u] \/ n = r
    BY <2>2, Replied
  <2>4. \A u \in Tabs : \A n \in back'[u] :
           n \in back[u] \/ (n[1].op = "connect" /\ (n[2] => db[n[1].schema] = "open"))
    BY <2>1, <2>3
  <2> QED  BY <1>1, <1>2, <1>4, <2>3, <2>4, SchemasKeep DEF Worker!SchemasInv, Worker!TypeOK
<1>5. CASE db[s] = "open"
  <2>1. UNCHANGED <<db, opener>> /\ back' = [back EXCEPT ![t] = @ \cup {<<m, TRUE>>}]
    BY <1>5 DEF Worker!Connect, Worker!Reply
  <2> QED  BY <1>4, <1>5, <2>1
<1>6. CASE db[s] = "opening"
  <2>1. UNCHANGED <<db, opener>> /\ back' = [back EXCEPT ![t] = @ \cup {<<m, FALSE>>}]
    BY <1>6 DEF Worker!Connect, Worker!Reply
  <2> QED  BY <1>4, <2>1
<1>7. CASE db[s] = "closed"
  <2>1. /\ db' = [db EXCEPT ![s] = "opening"] /\ opener' = [opener EXCEPT ![s] = t]
        /\ UNCHANGED back
    BY <1>7 DEF Worker!Connect, Worker!Reply
  <2> HIDE DEF m
  <2> QED  BY <1>1, <1>2, <1>3, <1>7, <2>1, SchemasKeep DEF Worker!SchemasInv, Worker!TypeOK
<1> QED  BY <1>3, <1>5, <1>6, <1>7 DEF Worker!SchemasInv, Worker!TypeOK

\* A database opens, or fails to.
LEMMA OpenedKeeps ==
    ASSUME Worker!SchemasInv, NEW s \in Schemas, Worker!Opened(s)
    PROVE  Worker!SchemasInv'
<1> DEFINE m == Worker!Msg("connect", s, 0)
<1>1. /\ UNCHANGED <<step, cannot, job, out, created>> /\ db[s] = "opening"
      /\ opener' = [opener EXCEPT ![s] = "none"]
      /\ \E ok \in BOOLEAN :
            /\ db' = [db EXCEPT ![s] = IF ok THEN "open" ELSE "closed"]
            /\ back' = [back EXCEPT ![opener[s]] = @ \cup {<<m, ok>>}]
  BY DEF Worker!Opened, Worker!Reply, Worker!tabVars
<1>2. m \in Worker!MsgType /\ m.op = "connect" /\ m.schema = s
  BY DEF Worker!Msg, Worker!MsgType
<1> HIDE DEF m
<1>3. PICK ok \in BOOLEAN : /\ db' = [db EXCEPT ![s] = IF ok THEN "open" ELSE "closed"]
                            /\ back' = [back EXCEPT ![opener[s]] = @ \cup {<<m, ok>>}]
  BY <1>1
<1> DEFINE r == <<m, ok>>
<1>4. /\ db' \in [Schemas -> {"closed", "opening", "open"}] /\ DOMAIN opener' = Schemas
      /\ \A x \in Schemas : db'[x] = "opening" <=> opener'[x] \in Tabs
      /\ \A x \in Schemas : db[x] = "open" => db'[x] = "open"
      /\ ok => db'[s] = "open"
  BY <1>1, <1>3, PageAssumption DEF Worker!SchemasInv, Worker!TypeOK
<1>5. r[1].op = "connect" /\ (r[2] => db'[r[1].schema] = "open")
  BY <1>2, <1>4
<1>6. r \in Worker!MsgType \X BOOLEAN /\ back' = [back EXCEPT ![opener[s]] = @ \cup {r}]
  BY <1>2, <1>3
<1> HIDE DEF r
<1>7. /\ back' \in [Tabs -> SUBSET (Worker!MsgType \X BOOLEAN)]
      /\ \A u \in Tabs : \A n \in back'[u] : n \in back[u] \/ n = r
  BY <1>6, Replied
<1>8. \A u \in Tabs : \A n \in back'[u] :
         n \in back[u] \/ (n[1].op = "connect" /\ (n[2] => db'[n[1].schema] = "open"))
  BY <1>5, <1>7
<1> QED  BY <1>1, <1>4, <1>7, <1>8, SchemasKeep DEF Worker!SchemasInv, Worker!TypeOK

\* A request is answered.
LEMMA QueryKeeps ==
    ASSUME Worker!SchemasInv, NEW t \in Tabs, Worker!Query(t)
    PROVE  Worker!SchemasInv'
<1> DEFINE m == Head(out[t])
           r == <<m, db[m.schema] = "open">>
<1>1. /\ UNCHANGED <<step, cannot, job, created, db, opener>> /\ m.op = "request"
      /\ out' = [out EXCEPT ![t] = Tail(@)] /\ out[t] # <<>>
      /\ back' = [back EXCEPT ![t] = @ \cup {r}]
  BY DEF Worker!Query, Worker!Reply, Worker!Take, Worker!tabVars, Worker!workerVars
<1>2. /\ DOMAIN out' = Tabs /\ \A u \in Tabs : out'[u] \in Seq(Worker!MsgType)
      /\ \A u \in Tabs : \A k \in DOMAIN out'[u] :
            \E l \in DOMAIN out[u] : out'[u][k] = out[u][l]
      /\ m \in Worker!MsgType /\ job[t][m.job] # Worker!NoJob
  BY <1>1, Taken
<1>3. r \in Worker!MsgType \X BOOLEAN /\ r[1] = m
  BY <1>2
<1> HIDE DEF m, r
<1>4. /\ back' \in [Tabs -> SUBSET (Worker!MsgType \X BOOLEAN)]
      /\ \A u \in Tabs : \A n \in back'[u] : n \in back[u] \/ (u = t /\ n = r)
  BY <1>1, <1>3, Replied
<1>5. r[1].op = "request" /\ job'[t][r[1].job] # Worker!NoJob
  BY <1>1, <1>2, <1>3
<1>6. \A u \in Tabs : \A n \in back'[u] :
         n \in back[u] \/ (n[1].op = "request" /\ job'[u][n[1].job] # Worker!NoJob)
  BY <1>4, <1>5
<1> QED  BY <1>1, <1>2, <1>4, <1>6, SchemasKeep DEF Worker!SchemasInv, Worker!TypeOK

\* No step of the tabs or the worker connects what is not open.
LEMMA SchemasStep == Worker!SchemasInv /\ Worker!Next => Worker!SchemasInv'
<1> SUFFICES ASSUME Worker!SchemasInv, Worker!Next PROVE Worker!SchemasInv'
  OBVIOUS
<1>1. ASSUME NEW t \in Tabs, NEW j \in Jobs, NEW s \in Schemas, Worker!Request(t, j, s)
      PROVE  Worker!SchemasInv'
  BY <1>1, RequestKeeps
<1>2. CASE Worker!Page
  BY <1>2, RelayKeeps, SteppedKeeps, DoneKeeps DEF Worker!Page
<1>3. CASE Worker!Worker
  BY <1>3, CreateKeeps, ConnectKeeps, QueryKeeps, OpenedKeeps DEF Worker!Worker
<1> QED  BY <1>1, <1>2, <1>3 DEF Worker!Next
-----------------------------------------------------------------------------
(* Entries are recorded as they were handed in.                            *)

Test == [patron : Patrons, of : Entry, state : {"sent", "clear", "blocked"}]
Dialog == [about : {"block", "strict"}, of : Entry]

\* What a step on the page must see to.
LEMMA DeskKeeps ==
    ASSUME EntryIInv, UNCHANGED <<listVars, manner>>,
           form' \in Entry, page' \in Seq(Entry), strict' \in BOOLEAN,
           tests' \in Seq(Test), dialogs' \in Seq(Dialog),
           wanted' \in SUBSET Entry, adds' \in 0..MaxAdds,
           Patient => OneUnderWay', InTurn'
    PROVE  EntryIInv'
<1> USE DEF EntryIInv, listVars
<1>1. TypeOK'
  BY DEF TypeOK, Test, Dialog
<1>2. OneUnderWay'
  BY DEF OneUnderWay, Patient
<1>3. Recorded'
  BY <1>2 DEF Recorded, OneUnderWay
<1>4. ListWhole' /\ ListInParts'
  BY DEF ListWhole, ListInParts, Filling
<1> QED  BY <1>1, <1>2, <1>3, <1>4

\* What a step of the worker must see to.
LEMMA ListKeeps ==
    ASSUME EntryIInv, UNCHANGED <<deskVars, manner>>,
           blocks' \in SUBSET Patrons, building' \in Seq(Build), Len(building') <= 1,
           waiting' \in Nat, builds' \in 0..MaxBuilds, known' \in SUBSET Patrons,
           ListInParts', builds' + waiting' <= MaxBuilds,
           Apart /\ ~Quiet => building' = <<>> /\ waiting' = 0
    PROVE  EntryIInv'
<1> USE DEF EntryIInv, deskVars
<1>1. TypeOK'
  BY DEF TypeOK
<1>2. OneUnderWay' /\ Recorded'
  BY DEF OneUnderWay, Recorded, Patient, Quiet, Duplicate
<1>3. InTurn'
  BY DEF InTurn, Apart, Quiet
<1>4. ListWhole'
  BY DEF ListWhole, ListInParts, Filling
<1> QED  BY <1>1, <1>2, <1>3, <1>4

\* Records keep their types.
LEMMA RecordTypes ==
    ASSUME TypeOK, Record
    PROVE  form' \in Entry /\ page' \in Seq(Entry)
BY AppendProperties DEF TypeOK, Record, Entry

\* The one entry under way becomes one of the page.
LEMMA RecordOne ==
    ASSUME TypeOK, Patient, UNCHANGED manner, IsFiniteSet(ToSet(page)),
           Len(page) = Cardinality(ToSet(page)), form.item # None, ~Duplicate,
           Record, tests' = <<>>, dialogs' = <<>>, wanted' = ToSet(page) \cup {form}
    PROVE  OneUnderWay'
<1>1. page' = Append(page, form) /\ page \in Seq(Entry) /\ form \in Entry
  BY DEF Record, TypeOK
<1>2. ToSet(page') = ToSet(page) \cup {form} /\ Len(page') = Len(page) + 1
  BY <1>1, ToSetAppend, AppendProperties
<1>3. form \notin ToSet(page)
  BY DEF Duplicate, ToSet
<1>4. IsFiniteSet(ToSet(page')) /\ Cardinality(ToSet(page')) = Cardinality(ToSet(page)) + 1
  BY <1>2, <1>3, FS_AddElement
<1> QED  BY <1>2, <1>4, EmptySeq DEF OneUnderWay, Quiet

\* The one entry under way is vetted further.
LEMMA AskedOne ==
    ASSUME Patient, UNCHANGED <<manner, form, page>>, IsFiniteSet(ToSet(page)),
           Len(page) = Cardinality(ToSet(page)), form.item # None, ~Duplicate,
           Len(tests') + Len(dialogs') <= 1, ~Quiet',
           \A k \in DOMAIN tests' : tests'[k].of = form,
           \A k \in DOMAIN dialogs' : dialogs'[k].of = form,
           wanted' = ToSet(page) \cup {form}
    PROVE  OneUnderWay'
BY DEF OneUnderWay, Duplicate

\* _add_impl for the one entry under way.
LEMMA VetOne ==
    ASSUME TypeOK, Patient, UNCHANGED manner, IsFiniteSet(ToSet(page)),
           Len(page) = Cardinality(ToSet(page)), form.item # None, ~Duplicate,
           NEW of, of = form, Vet(of),
           tests' = <<>>, dialogs = <<>>, wanted' = ToSet(page) \cup {form}
    PROVE  OneUnderWay'
<1>1. CASE strict /\ {form.patron, form.item} \cap Bad # {}
  <2> DEFINE d == [about |-> "strict", of |-> of]
  <2>1. /\ UNCHANGED <<form, page>> /\ dialogs' = Append(<<>>, d)
    BY <1>1 DEF Vet
  <2>2. d.of = form /\ d \in {d} /\ <<>> \in Seq({d})
    OBVIOUS
  <2> HIDE DEF d
  <2>3. Len(dialogs') = 1 /\ DOMAIN dialogs' = 1..1 /\ dialogs'[1] = d
    BY <2>1, <2>2, AppendProperties, LenProperties, EmptySeq
  <2> QED  BY <2>1, <2>2, <2>3, AskedOne, EmptySeq DEF Quiet
<1>2. CASE ~(strict /\ {form.patron, form.item} \cap Bad # {})
  BY <1>2, RecordOne DEF Vet
<1> QED  BY <1>1, <1>2

\* And for any entry.
LEMMA VetTypes ==
    ASSUME TypeOK, NEW of \in Entry, Vet(of)
    PROVE  form' \in Entry /\ page' \in Seq(Entry) /\ dialogs' \in Seq(Dialog)
<1>1. CASE strict /\ {form.patron, form.item} \cap Bad # {}
  <2> DEFINE d == [about |-> "strict", of |-> of]
  <2>1. /\ UNCHANGED <<form, page>> /\ dialogs' = Append(dialogs, d) /\ d \in Dialog
    BY <1>1 DEF Vet, Dialog
  <2> HIDE DEF d
  <2> QED  BY <2>1, AppendProperties DEF TypeOK, Dialog
<1>2. CASE ~(strict /\ {form.patron, form.item} \cap Bad # {})
  BY <1>2, RecordTypes DEF Vet, TypeOK, Dialog
<1> QED  BY <1>1, <1>2
\* The staff fill the form.
LEMMA TypeKeeps ==
    ASSUME EntryIInv, UNCHANGED manner,
           NEW p \in Patrons \cup {None}, NEW i \in Items, Type(p, i)
    PROVE  EntryIInv'
<1>1. /\ UNCHANGED <<page, strict, tests, dialogs, wanted, adds>> /\ UNCHANGED listVars
      /\ form' = [patron |-> p, item |-> i] /\ (Patient => Quiet)
  BY DEF Type, MayType
<1>2. form' \in Entry
  BY <1>1 DEF Entry
<1>3. InTurn'
  BY <1>1 DEF EntryIInv, InTurn, Quiet, Apart, listVars
<1>4. Patient => OneUnderWay'
  BY <1>1 DEF EntryIInv, OneUnderWay, Quiet
<1> QED  BY <1>1, <1>2, <1>3, <1>4, DeskKeeps DEF EntryIInv, TypeOK, Test, Dialog

\* An entry under way: what is known of it, if the staff wait.
LEMMA TheOne ==
    ASSUME EntryIInv, Patient
    PROVE  /\ IsFiniteSet(ToSet(page)) /\ Len(page) = Cardinality(ToSet(page))
           /\ Quiet => wanted = ToSet(page)
           /\ ~Quiet => /\ wanted = ToSet(page) \cup {form}
                        /\ form.item # None /\ ~Duplicate /\ form \notin ToSet(page)
           /\ tests # <<>> => /\ Len(tests) = 1 /\ DOMAIN tests = {1} /\ dialogs = <<>>
                              /\ Tail(tests) = <<>> /\ Head(tests).of = form
           /\ dialogs # <<>> => /\ Len(dialogs) = 1 /\ DOMAIN dialogs = {1} /\ tests = <<>>
                                /\ Front(dialogs) = <<>> /\ Last(dialogs).of = form
<1>1. /\ OneUnderWay /\ tests \in Seq(Test) /\ dialogs \in Seq(Dialog)
      /\ Len(tests) \in Nat /\ Len(dialogs) \in Nat
  BY LenProperties DEF EntryIInv, TypeOK, Test, Dialog
<1>2. ~Quiet => form \notin ToSet(page)
  BY <1>1 DEF OneUnderWay, Duplicate, ToSet
<1>3. ASSUME tests # <<>>
      PROVE  /\ Len(tests) = 1 /\ DOMAIN tests = {1} /\ dialogs = <<>>
             /\ Tail(tests) = <<>> /\ Head(tests).of = form
  <2>1. Len(tests) \in Nat \ {0}
    BY <1>1, <1>3, EmptySeq
  <2>2. Len(tests) <= 1 /\ Len(dialogs) = 0
    BY <1>1, <2>1 DEF OneUnderWay
  <2>3. dialogs = <<>>
    BY <1>1, <2>2, EmptySeq
  <2>4. /\ Len(tests) = 1 /\ DOMAIN tests = {1} /\ Tail(tests) = <<>>
        /\ Head(tests) = tests[1]
    BY <1>1, <1>3, <2>2, OnlyOne
  <2> QED  BY <1>1, <2>3, <2>4 DEF OneUnderWay
<1>4. ASSUME dialogs # <<>>
      PROVE  /\ Len(dialogs) = 1 /\ DOMAIN dialogs = {1} /\ tests = <<>>
             /\ Front(dialogs) = <<>> /\ Last(dialogs).of = form
  <2>1. Len(dialogs) \in Nat \ {0}
    BY <1>1, <1>4, EmptySeq
  <2>2. Len(dialogs) <= 1 /\ Len(tests) = 0
    BY <1>1, <2>1 DEF OneUnderWay
  <2>3. tests = <<>>
    BY <1>1, <2>2, EmptySeq
  <2>4. /\ Len(dialogs) = 1 /\ DOMAIN dialogs = {1} /\ Front(dialogs) = <<>>
        /\ Last(dialogs) = dialogs[1]
    BY <1>1, <1>4, <2>2, OnlyOne
  <2> QED  BY <1>1, <2>3, <2>4 DEF OneUnderWay
<1> QED  BY <1>1, <1>2, <1>3, <1>4 DEF OneUnderWay

\* An entry is handed in.
LEMMA AddKeeps ==
    ASSUME EntryIInv, UNCHANGED manner, Add
    PROVE  EntryIInv'
<1>1. /\ UNCHANGED strict /\ UNCHANGED listVars /\ dialogs = <<>>
      /\ form.item # None /\ ~Duplicate
      /\ wanted' = wanted \cup {form} /\ adds' = adds + 1 /\ adds < MaxAdds
      /\ Patient => Quiet
      /\ Apart => building = <<>> /\ waiting = 0
  BY DEF Add, MayType
<1>2. /\ form \in Entry /\ tests \in Seq(Test) /\ dialogs \in Seq(Dialog)
      /\ TypeOK /\ wanted' \in SUBSET Entry /\ adds' \in 0..MaxAdds /\ strict' \in BOOLEAN
  <2>1. adds' \in 0..MaxAdds
    BY <1>1, EntryAssumption DEF EntryIInv, TypeOK
  <2> QED  BY <1>1, <2>1 DEF EntryIInv, TypeOK, Test, Dialog
<1>3. Patient => /\ tests = <<>> /\ wanted' = ToSet(page) \cup {form}
                 /\ IsFiniteSet(ToSet(page)) /\ Len(page) = Cardinality(ToSet(page))
  BY <1>1, TheOne DEF Quiet
<1>4. CASE form.patron # None
  <2> DEFINE t == [patron |-> form.patron, of |-> form, state |-> "sent"]
  <2>1. /\ tests' = Append(tests, t) /\ UNCHANGED <<form, page, dialogs>>
    BY <1>4 DEF Add
  <2>2. t \in Test /\ t.of = form /\ t.state = "sent"
    BY <1>2, <1>4 DEF Test, Entry
  <2> HIDE DEF t
  <2>3. /\ tests' \in Seq(Test) /\ Len(tests') = Len(tests) + 1 /\ Len(tests) \in Nat
        /\ DOMAIN tests' = 1..(Len(tests) + 1) /\ DOMAIN tests = 1..Len(tests)
        /\ \A k \in 1..Len(tests) : tests'[k] = tests[k]
        /\ tests'[Len(tests) + 1] = t
    BY <1>2, <2>1, <2>2, AppendProperties, LenProperties
  <2>4. InTurn'
    <3>1. \A k, l \in DOMAIN tests' :
             k < l /\ tests'[l].state # "sent" => tests'[k].state # "sent"
      BY <2>2, <2>3 DEF EntryIInv, InTurn
    <3> QED  BY <1>1, <3>1 DEF InTurn, Apart, listVars
  <2>5. Patient => OneUnderWay'
    <3> SUFFICES ASSUME Patient PROVE OneUnderWay'
      OBVIOUS
    <3>1. Len(tests) = 0 /\ Len(dialogs') = 0
      BY <1>1, <1>3, <2>1, EmptySeq
    <3>2. /\ Len(tests') + Len(dialogs') <= 1 /\ ~Quiet'
          /\ \A k \in DOMAIN tests' : tests'[k].of = form
      BY <2>2, <2>3, <3>1, EmptySeq DEF Quiet
    <3>3. \A k \in DOMAIN dialogs' : dialogs'[k].of = form
      BY <1>1, <2>1
    <3> QED  BY <1>1, <1>3, <2>1, <3>2, <3>3, AskedOne
  <2> QED  BY <1>1, <1>2, <2>1, <2>3, <2>4, <2>5, DeskKeeps DEF TypeOK
<1>5. CASE form.patron = None
  <2>1. Vet(form) /\ UNCHANGED tests
    BY <1>5 DEF Add
  <2>2. form' \in Entry /\ page' \in Seq(Entry) /\ dialogs' \in Seq(Dialog)
    BY <1>2, <2>1, VetTypes
  <2>3. InTurn'
    BY <1>1, <2>1 DEF EntryIInv, InTurn, Apart, listVars
  <2>4. Patient => OneUnderWay'
    BY <1>1, <1>2, <1>3, <2>1, VetOne
  <2> QED  BY <1>1, <1>2, <2>1, <2>2, <2>3, <2>4, DeskKeeps
<1> QED  BY <1>4, <1>5

\* The rest of the lookups are in turn.
LEMMA TailInTurn ==
    ASSUME EntryIInv, tests # <<>>, tests' = Tail(tests), UNCHANGED <<listVars, manner>>
    PROVE  InTurn' /\ Head(tests) \in Test /\ tests' \in Seq(Test)
<1>1. tests \in Seq(Test)
  BY DEF EntryIInv, TypeOK, Test
<1>2. /\ tests' \in Seq(Test) /\ DOMAIN tests' = 1..(Len(tests) - 1)
      /\ DOMAIN tests = 1..Len(tests) /\ Len(tests) \in Nat \ {0}
      /\ \A k \in DOMAIN tests' : tests'[k] = tests[k + 1] /\ k + 1 \in DOMAIN tests
      /\ Head(tests) \in Test
  BY <1>1, HeadTailProperties, LenProperties, EmptySeq
<1>3. \A k, l \in DOMAIN tests' :
         k < l /\ tests'[l].state # "sent" => tests'[k].state # "sent"
  <2> SUFFICES ASSUME NEW k \in DOMAIN tests', NEW l \in DOMAIN tests',
                      k < l, tests'[l].state # "sent"
               PROVE  tests'[k].state # "sent"
    OBVIOUS
  <2>1. k + 1 \in DOMAIN tests /\ l + 1 \in DOMAIN tests /\ k + 1 < l + 1
    BY <1>2
  <2> QED  BY <1>2, <2>1 DEF EntryIInv, InTurn
<1> QED  BY <1>2, <1>3 DEF EntryIInv, InTurn, Quiet, Apart, listVars

\* The first lookup's answer arrives.
LEMMA TestedKeeps ==
    ASSUME EntryIInv, UNCHANGED manner, Tested
    PROVE  EntryIInv'
<1> DEFINE of == Head(tests).of
<1>1. /\ tests # <<>> /\ tests' = Tail(tests)
      /\ UNCHANGED <<strict, wanted, adds>> /\ UNCHANGED listVars
  BY DEF Tested
<1>2. InTurn' /\ of \in Entry /\ tests' \in Seq(Test)
  BY <1>1, TailInTurn DEF Test
<1>3. TypeOK /\ strict' \in BOOLEAN /\ wanted' \in SUBSET Entry /\ adds' \in 0..MaxAdds
  BY <1>1 DEF EntryIInv, TypeOK
<1>4. Patient => /\ tests' = <<>> /\ dialogs = <<>> /\ of = form
                 /\ wanted' = ToSet(page) \cup {form} /\ form.item # None /\ ~Duplicate
                 /\ IsFiniteSet(ToSet(page)) /\ Len(page) = Cardinality(ToSet(page))
  BY <1>1, TheOne DEF Quiet
<1>5. CASE Head(tests).state = "blocked"
  <2> DEFINE d == [about |-> "block", of |-> of]
  <2>1. dialogs' = Append(dialogs, d) /\ UNCHANGED <<form, page>>
    BY <1>5 DEF Tested
  <2>2. d \in Dialog /\ d.of = of /\ dialogs \in Seq(Dialog)
    BY <1>2, <1>3 DEF Dialog, TypeOK
  <2> HIDE DEF d, of
  <2>3. /\ dialogs' \in Seq(Dialog) /\ dialogs' # <<>>
        /\ dialogs = <<>> => Len(dialogs') = 1 /\ DOMAIN dialogs' = {1} /\ dialogs'[1] = d
    <3>1. /\ dialogs' \in Seq(Dialog) /\ dialogs' # <<>> /\ Len(dialogs') = Len(dialogs) + 1
          /\ dialogs'[Len(dialogs) + 1] = d /\ DOMAIN dialogs' = 1..Len(dialogs')
      BY <2>1, <2>2, AppendProperties, LenProperties
    <3>2. dialogs = <<>> => Len(dialogs) = 0
      OBVIOUS
    <3> QED  BY <3>1, <3>2
  <2>4. Patient => OneUnderWay'
    <3> SUFFICES ASSUME Patient PROVE OneUnderWay'
      OBVIOUS
    <3>1. /\ Len(tests') + Len(dialogs') <= 1 /\ ~Quiet'
          /\ \A k \in DOMAIN dialogs' : dialogs'[k].of = form
          /\ \A k \in DOMAIN tests' : tests'[k].of = form
      <4>1. Len(tests') = 0 /\ DOMAIN tests' = {} /\ dialogs = <<>> /\ of = form
        BY <1>4
      <4>2. Len(dialogs') = 1 /\ DOMAIN dialogs' = {1} /\ dialogs'[1].of = form
        BY <2>2, <2>3, <4>1
      <4>3. ~Quiet'
        BY <2>3 DEF Quiet
      <4> QED  BY <4>1, <4>2, <4>3
    <3> QED  BY <1>4, <2>1, <3>1, AskedOne
  <2> QED  BY <1>1, <1>2, <1>3, <2>1, <2>3, <2>4, DeskKeeps DEF TypeOK
<1>6. CASE Head(tests).state # "blocked"
  <2>1. Vet(of)
    BY <1>6 DEF Tested
  <2> HIDE DEF of
  <2>2. form' \in Entry /\ page' \in Seq(Entry) /\ dialogs' \in Seq(Dialog)
    BY <1>2, <1>3, <2>1, VetTypes
  <2>3. Patient => OneUnderWay'
    BY <1>3, <1>4, <2>1, VetOne
  <2> QED  BY <1>1, <1>2, <1>3, <2>2, <2>3, DeskKeeps
<1> QED  BY <1>5, <1>6

\* A lookup that is refused leaves the entry in the form.
LEMMA UntestedKeeps ==
    ASSUME EntryIInv, UNCHANGED manner, Untested
    PROVE  EntryIInv'
<1>1. /\ tests # <<>> /\ tests' = Tail(tests) /\ wanted' = wanted \ {Head(tests).of}
      /\ UNCHANGED <<form, page, strict, dialogs, adds>> /\ UNCHANGED listVars
  BY DEF Untested
<1>2. InTurn' /\ tests' \in Seq(Test)
  BY <1>1, TailInTurn
<1>3. Patient => OneUnderWay'
  <2> SUFFICES ASSUME Patient PROVE OneUnderWay'
    OBVIOUS
  <2>1. /\ tests' = <<>> /\ dialogs' = <<>> /\ wanted' = ToSet(page)
        /\ IsFiniteSet(ToSet(page)) /\ Len(page) = Cardinality(ToSet(page))
    BY <1>1, TheOne DEF Quiet
  <2>2. /\ Len(tests') = 0 /\ DOMAIN tests' = {} /\ Len(dialogs') = 0
        /\ DOMAIN dialogs' = {} /\ Quiet'
    BY <2>1 DEF Quiet
  <2> QED  BY <1>1, <2>1, <2>2 DEF OneUnderWay
<1> QED  BY <1>1, <1>2, <1>3, DeskKeeps DEF EntryIInv, TypeOK, Dialog
\* The last of a sequence and what is before it.
LEMMA FrontLast ==
    ASSUME NEW S, NEW s \in Seq(S), s # <<>>
    PROVE  Last(s) \in S /\ Front(s) \in Seq(S)
<1>1. Len(s) \in Nat \ {0} /\ \A i \in 1..Len(s) : s[i] \in S
  BY EmptySeq, ElementOfSeq
<1>2. Len(s) - 1 \in Int /\ \A i \in 1..(Len(s) - 1) : s[i] \in S
  BY <1>1
<1>3. SubSeq(s, 1, Len(s) - 1) \in Seq(S)
  BY <1>2, SubSeqProperties
<1> QED  BY <1>1, <1>3 DEF Last, Front

\* The staff confirm an entry, and may be asked again.
LEMMA AllowKeeps ==
    ASSUME EntryIInv, UNCHANGED manner, Allow
    PROVE  EntryIInv'
<1> DEFINE d == Last(dialogs)
           rest == Front(dialogs)
           e == [d EXCEPT !.about = "strict"]
<1>1. /\ dialogs # <<>> /\ UNCHANGED <<strict, tests, wanted, adds>> /\ UNCHANGED listVars
      /\ \/ Record /\ dialogs' = rest
         \/ dialogs' = Append(rest, e) /\ UNCHANGED <<form, page>>
  BY DEF Allow
<1>2. TypeOK /\ d \in Dialog /\ rest \in Seq(Dialog)
  BY <1>1, FrontLast DEF EntryIInv, TypeOK, Dialog
<1>3. e \in Dialog /\ e.of = d.of
  BY <1>2 DEF Dialog
<1>4. Patient => /\ tests' = <<>> /\ rest = <<>> /\ d.of = form
                 /\ wanted' = ToSet(page) \cup {form} /\ form.item # None /\ ~Duplicate
                 /\ IsFiniteSet(ToSet(page)) /\ Len(page) = Cardinality(ToSet(page))
  BY <1>1, TheOne DEF Quiet
<1>5. InTurn'
  BY <1>1 DEF EntryIInv, InTurn, Quiet, Apart, listVars
<1> HIDE DEF d, e, rest
<1>6. CASE Record /\ dialogs' = rest
  <2>1. form' \in Entry /\ page' \in Seq(Entry)
    BY <1>2, <1>6, RecordTypes
  <2>2. Patient => OneUnderWay'
    BY <1>2, <1>4, <1>6, RecordOne
  <2> QED  BY <1>1, <1>2, <1>5, <1>6, <2>1, <2>2, DeskKeeps DEF TypeOK, Test
<1>7. CASE dialogs' = Append(rest, e) /\ UNCHANGED <<form, page>>
  <2>1. /\ dialogs' \in Seq(Dialog) /\ dialogs' # <<>> /\ Len(dialogs') = Len(rest) + 1
        /\ dialogs'[Len(rest) + 1] = e /\ DOMAIN dialogs' = 1..Len(dialogs')
    BY <1>2, <1>3, <1>7, AppendProperties, LenProperties
  <2>2. Patient => OneUnderWay'
    <3> SUFFICES ASSUME Patient PROVE OneUnderWay'
      OBVIOUS
    <3>1. Len(rest) = 0 /\ Len(tests') = 0 /\ DOMAIN tests' = {}
      BY <1>4
    <3>2. /\ Len(tests') + Len(dialogs') <= 1 /\ ~Quiet'
          /\ \A k \in DOMAIN dialogs' : dialogs'[k].of = form
          /\ \A k \in DOMAIN tests' : tests'[k].of = form
      BY <1>3, <1>4, <2>1, <3>1 DEF Quiet
    <3> QED  BY <1>4, <1>7, <3>2, AskedOne
  <2> QED  BY <1>1, <1>2, <1>5, <1>7, <2>1, <2>2, DeskKeeps DEF TypeOK, Test
<1> QED  BY <1>1, <1>6, <1>7

\* Or they reject it.
LEMMA RejectKeeps ==
    ASSUME EntryIInv, UNCHANGED manner, Reject
    PROVE  EntryIInv'
<1>1. /\ dialogs # <<>> /\ dialogs' = Front(dialogs)
      /\ wanted' = wanted \ {Last(dialogs).of}
      /\ UNCHANGED <<form, page, strict, tests, adds>> /\ UNCHANGED listVars
  BY DEF Reject
<1>2. dialogs' \in Seq(Dialog)
  BY <1>1, FrontLast DEF EntryIInv, TypeOK, Dialog
<1>3. InTurn'
  BY <1>1 DEF EntryIInv, InTurn, Quiet, Apart, listVars
<1>4. Patient => OneUnderWay'
  <2> SUFFICES ASSUME Patient PROVE OneUnderWay'
    OBVIOUS
  <2>1. /\ tests' = <<>> /\ dialogs' = <<>> /\ wanted' = ToSet(page)
        /\ IsFiniteSet(ToSet(page)) /\ Len(page) = Cardinality(ToSet(page))
    BY <1>1, TheOne DEF Quiet
  <2>2. /\ Len(tests') = 0 /\ DOMAIN tests' = {} /\ Len(dialogs') = 0
        /\ DOMAIN dialogs' = {} /\ Quiet'
    BY <2>1 DEF Quiet
  <2> QED  BY <1>1, <2>1, <2>2 DEF OneUnderWay
<1> QED  BY <1>1, <1>2, <1>3, <1>4, DeskKeeps DEF EntryIInv, TypeOK, Test

\* The worker looks a patron up.
LEMMA ServeKeeps ==
    ASSUME EntryIInv, UNCHANGED manner, Serve
    PROVE  EntryIInv'
<1>1. PICK k \in DOMAIN tests :
        /\ tests[k].state = "sent"
        /\ \A l \in 1..(k - 1) : tests[l].state # "sent"
        /\ tests' = [tests EXCEPT ![k].state =
                        IF tests[k].patron \in blocks THEN "blocked" ELSE "clear"]
  BY DEF Serve
<1>2. UNCHANGED <<form, page, strict, dialogs, wanted, adds>> /\ UNCHANGED listVars
  BY DEF Serve
<1> DEFINE t == [tests[k] EXCEPT !.state = IF tests[k].patron \in blocks THEN "blocked" ELSE "clear"]
<1>3. /\ tests \in Seq(Test) /\ DOMAIN tests = 1..Len(tests) /\ Len(tests) \in Nat
      /\ tests[k] \in Test
  BY LenProperties, InSeq DEF EntryIInv, TypeOK, Test
<1>4. t \in Test /\ t.of = tests[k].of /\ t.state # "sent"
  BY <1>3 DEF Test
<1>5. tests' = [tests EXCEPT ![k] = t]
  BY <1>1, <1>3
<1> HIDE DEF t
<1>6. /\ tests' \in Seq(Test) /\ Len(tests') = Len(tests) /\ DOMAIN tests' = DOMAIN tests
      /\ tests'[k] = t /\ \A l \in DOMAIN tests : l # k => tests'[l] = tests[l]
  BY <1>3, <1>4, <1>5, ExceptSeq
<1>7. (tests' = <<>>) <=> (tests = <<>>)
  BY <1>3, <1>6, EmptySeq
<1>8. InTurn'
  <2>1. ASSUME NEW i \in DOMAIN tests', NEW l \in DOMAIN tests', i < l,
               tests'[l].state # "sent"
        PROVE  tests'[i].state # "sent"
    <3>1. CASE l = k
      BY <1>1, <1>3, <1>6, <2>1, <3>1
    <3>2. CASE l # k
      BY <1>4, <1>6, <2>1, <3>2 DEF EntryIInv, InTurn
    <3> QED  BY <3>1, <3>2
  <2> QED  BY <1>2, <1>7, <2>1 DEF EntryIInv, InTurn, Quiet, Apart, listVars
<1>9. Patient => OneUnderWay'
  BY <1>2, <1>4, <1>6, <1>7 DEF EntryIInv, OneUnderWay, Quiet, Duplicate
<1> QED  BY <1>2, <1>6, <1>8, <1>9, DeskKeeps DEF EntryIInv, TypeOK, Dialog
-----------------------------------------------------------------------------
(* Lists are stored whole.                                                 *)

\* A tab asks for a download.
LEMMA DownloadKeeps ==
    ASSUME EntryIInv, UNCHANGED manner, Download
    PROVE  EntryIInv'
<1>1. /\ UNCHANGED <<blocks, building, builds, known>> /\ UNCHANGED deskVars
      /\ builds + waiting < MaxBuilds /\ waiting' = waiting + 1
      /\ Apart => Quiet
  BY DEF Download
<1>2. builds \in Nat /\ waiting \in Nat /\ MaxBuilds \in Nat
  BY EntryAssumption DEF EntryIInv, TypeOK
<1>3. ListInParts'
  BY <1>1 DEF EntryIInv, ListInParts, Filling
<1> QED  BY <1>1, <1>2, <1>3, ListKeeps DEF EntryIInv, TypeOK

\* The build under way, if there is one.
LEMMA OneBuild ==
    ASSUME EntryIInv, building # <<>>
    PROVE  /\ DOMAIN building = {1} /\ building[1] \in Build
           /\ RemoveAt(building, 1) = <<>>
           /\ Apart => Quiet
BY OnlyOne DEF EntryIInv, TypeOK, InTurn

\* The worker begins to answer a tab, with a build unless one is under way.
LEMMA StartKeeps ==
    ASSUME EntryIInv, UNCHANGED manner, Start
    PROVE  EntryIInv'
<1>1. /\ UNCHANGED <<blocks, known>> /\ UNCHANGED deskVars
      /\ waiting > 0 /\ waiting' = waiting - 1 /\ builds' = builds + 1
  BY DEF Start
<1>2. builds \in Nat /\ waiting \in Nat /\ MaxBuilds \in Nat
      /\ waiting' \in Nat /\ builds' \in 0..MaxBuilds /\ builds' + waiting' <= MaxBuilds
  BY <1>1, EntryAssumption DEF EntryIInv, TypeOK
<1>3. Apart => Quiet
  BY <1>1 DEF EntryIInv, InTurn
<1>4. CASE building # <<>>
  <2>1. UNCHANGED building
    BY <1>4 DEF Start
  <2>2. ListInParts'
    BY <1>1, <2>1 DEF EntryIInv, ListInParts, Filling
  <2> QED  BY <1>1, <1>2, <1>3, <2>1, <2>2, ListKeeps DEF EntryIInv, TypeOK
<1>5. CASE building = <<>>
  <2> DEFINE b == [phase |-> "fetch", chunks |-> <<>>, list |-> {}]
  <2>1. building' = <<b>>
    BY <1>5 DEF Start
  <2>2. b \in Build /\ b.phase = "fetch"
    <3>1. <<>> \in Seq(SUBSET Patrons)
      BY EmptySeq
    <3> QED  BY <3>1 DEF Build
  <2> HIDE DEF b
  <2>3. building' \in Seq(Build) /\ Len(building') = 1 /\ building'[1] = b
    BY <2>1, <2>2
  <2>4. ListInParts'
    BY <1>1, <1>5, <2>2, <2>3 DEF EntryIInv, ListInParts, Filling
  <2> QED  BY <1>1, <1>2, <1>3, <2>3, <2>4, ListKeeps DEF EntryIInv, TypeOK
<1> QED  BY <1>4, <1>5

\* A build goes on.
LEMMA Built ==
    ASSUME EntryIInv, building # <<>>, NEW b \in Build, building' = [building EXCEPT ![1] = b]
    PROVE  /\ building' \in Seq(Build) /\ Len(building') = 1 /\ building' # <<>>
           /\ building'[1] = b
<1>1. building \in Seq(Build) /\ Len(building) = 1
  BY OnlyOne DEF EntryIInv, TypeOK
<1>2. building' \in Seq(Build) /\ Len(building') = 1 /\ building'[1] = b
  BY <1>1, ExceptSeq
<1> QED  BY <1>2

\* The table as it was, when a build ends without having touched it.
LEMMA GivenUpKeeps ==
    ASSUME EntryIInv, UNCHANGED manner, building # <<>>, building' = <<>>,
           UNCHANGED <<blocks, waiting, builds>>, UNCHANGED deskVars,
           known' \in SUBSET Patrons, known' \in {blocks, {}}
    PROVE  EntryIInv'
<1>1. ListInParts'
  BY DEF ListInParts, Filling
<1>2. building' \in Seq(Build) /\ Len(building') <= 1
  BY EmptySeq
<1> QED  BY <1>1, <1>2, OneBuild, ListKeeps DEF EntryIInv, TypeOK

\* The file arrives, or does not.
LEMMA FetchedKeeps ==
    ASSUME EntryIInv, UNCHANGED manner, NEW n \in DOMAIN building, Fetched(n)
    PROVE  EntryIInv'
<1>1. /\ UNCHANGED <<blocks, waiting, builds, known>> /\ UNCHANGED deskVars
      /\ n = 1 /\ building[1].phase = "fetch" /\ building # <<>>
      /\ DOMAIN building = {1} /\ RemoveAt(building, 1) = <<>> /\ (Apart => Quiet)
  BY OneBuild DEF Fetched, In
<1>2. known \in {blocks, {}} /\ known \in SUBSET Patrons
  BY <1>1 DEF EntryIInv, ListInParts, Filling, TypeOK
<1>3. CASE building' = <<>>
  BY <1>1, <1>2, <1>3, GivenUpKeeps
<1>4. ASSUME NEW f \in Files,
             building' = [building EXCEPT ![1] =
                [phase |-> "clear", chunks |-> Chunks(f), list |-> ToSet(f)]]
      PROVE  EntryIInv'
  <2> DEFINE b == [phase |-> "clear", chunks |-> Chunks(f), list |-> ToSet(f)]
  <2>1. /\ Chunks(f) \in Seq(SUBSET Patrons) /\ ToSet(f) \subseteq Patrons
        /\ UNION ToSet(Chunks(f)) = ToSet(f)
    BY EntryAssumption, ChunksMakeUp
  <2>2. /\ b \in Build /\ b.phase = "clear" /\ UNION ToSet(b.chunks) = b.list
        /\ building' = [building EXCEPT ![1] = b]
    BY <1>4, <2>1 DEF Build
  <2> HIDE DEF b
  <2>3. /\ building' \in Seq(Build) /\ Len(building') = 1 /\ building' # <<>>
        /\ building'[1] = b
    BY <1>1, <2>2, Built
  <2>4. ListInParts'
    BY <1>1, <1>2, <2>2, <2>3 DEF ListInParts, Filling
  <2> QED  BY <1>1, <2>3, <2>4, ListKeeps DEF EntryIInv, TypeOK
<1> QED  BY <1>1, <1>3, <1>4 DEF Fetched, Ended

\* The table is emptied, or cannot be.
LEMMA ClearedKeeps ==
    ASSUME EntryIInv, UNCHANGED manner, NEW n \in DOMAIN building, Cleared(n)
    PROVE  EntryIInv'
<1>1. /\ UNCHANGED <<waiting, builds, known>> /\ UNCHANGED deskVars
      /\ n = 1 /\ building[1].phase = "clear" /\ building # <<>>
      /\ DOMAIN building = {1} /\ RemoveAt(building, 1) = <<>> /\ (Apart => Quiet)
  BY OneBuild DEF Cleared, In
<1>2. /\ known \in {blocks, {}} /\ known \in SUBSET Patrons
      /\ UNION ToSet(building[1].chunks) = building[1].list /\ building[1] \in Build
  BY <1>1, OneBuild DEF EntryIInv, ListInParts, Filling, TypeOK
<1>3. CASE building' = <<>> /\ UNCHANGED blocks
  BY <1>1, <1>2, <1>3, GivenUpKeeps
<1>4. CASE blocks' = {} /\ building' = [building EXCEPT ![1].phase = "fill"]
  <2> DEFINE b == [building[1] EXCEPT !.phase = "fill"]
  <2>1. /\ b \in Build /\ b.phase = "fill" /\ UNION ToSet(b.chunks) = b.list
    BY <1>2 DEF Build
  <2>2. building' = [building EXCEPT ![1] = b]
    BY <1>1, <1>4
  <2> HIDE DEF b
  <2>3. /\ building' \in Seq(Build) /\ Len(building') = 1 /\ building' # <<>>
        /\ building'[1] = b
    BY <1>1, <2>1, <2>2, Built
  <2>4. ListInParts'
    BY <1>4, <2>1, <2>3 DEF ListInParts, Filling
  <2> QED  BY <1>1, <1>4, <2>3, <2>4, ListKeeps DEF EntryIInv, TypeOK
<1> QED  BY <1>1, <1>3, <1>4 DEF Cleared, Ended

\* A chunk is stored, or the build fails.
LEMMA FilledKeeps ==
    ASSUME EntryIInv, UNCHANGED manner, NEW n \in DOMAIN building, Filled(n)
    PROVE  EntryIInv'
<1> DEFINE cs == building[1].chunks
<1>1. /\ UNCHANGED <<waiting, builds>> /\ UNCHANGED deskVars
      /\ n = 1 /\ building[1].phase = "fill" /\ building # <<>> /\ cs # <<>>
      /\ DOMAIN building = {1} /\ RemoveAt(building, 1) = <<>> /\ (Apart => Quiet)
  BY OneBuild DEF Filled, In
<1>2. /\ blocks \cup UNION ToSet(cs) = building[1].list /\ building[1] \in Build
      /\ blocks \in SUBSET Patrons /\ known \in SUBSET Patrons
  BY <1>1, OneBuild DEF EntryIInv, ListInParts, Filling, TypeOK
<1>3. CASE building' = <<>> /\ known' = {} /\ UNCHANGED blocks
  BY <1>1, <1>3, GivenUpKeeps
<1>4. CASE /\ blocks' = blocks \cup Head(cs) /\ UNCHANGED known
           /\ building' = [building EXCEPT ![1].chunks = Tail(@)]
  <2> DEFINE b == [building[1] EXCEPT !.chunks = Tail(cs)]
  <2>1. /\ cs \in Seq(SUBSET Patrons) /\ Tail(cs) \in Seq(SUBSET Patrons)
        /\ Head(cs) \in SUBSET Patrons
        /\ ToSet(cs) = {Head(cs)} \cup ToSet(Tail(cs))
    <3>1. cs \in Seq(SUBSET Patrons)
      BY <1>2 DEF Build
    <3> QED  BY <1>1, <3>1, HeadTailProperties, ToSetTail
  <2>2. /\ b \in Build /\ b.phase = "fill" /\ b.chunks = Tail(cs)
        /\ b.list = building[1].list
    BY <1>1, <1>2, <2>1 DEF Build
  <2>3. blocks' \cup UNION ToSet(b.chunks) = b.list /\ blocks' \in SUBSET Patrons
    <3>1. UNION ToSet(cs) = Head(cs) \cup UNION ToSet(Tail(cs))
      BY <2>1
    <3> HIDE DEF cs, b
    <3> QED  BY <1>2, <1>4, <2>1, <2>2, <3>1
  <2>4. building' = [building EXCEPT ![1] = b]
    BY <1>1, <1>4
  <2> HIDE DEF b
  <2>5. /\ building' \in Seq(Build) /\ Len(building') = 1 /\ building' # <<>>
        /\ building'[1] = b
    BY <1>1, <2>2, <2>4, Built
  <2>6. ListInParts'
    BY <2>2, <2>3, <2>5 DEF ListInParts, Filling
  <2> QED  BY <1>1, <1>2, <1>4, <2>3, <2>5, <2>6, ListKeeps DEF EntryIInv, TypeOK
<1> QED  BY <1>1, <1>3, <1>4 DEF Filled, Ended

\* The build is complete.
LEMMA StoredKeeps ==
    ASSUME EntryIInv, UNCHANGED manner, NEW n \in DOMAIN building, Stored(n)
    PROVE  EntryIInv'
<1>1. /\ UNCHANGED <<blocks, waiting, builds>> /\ UNCHANGED deskVars
      /\ n = 1 /\ building[1].phase = "fill" /\ building # <<>>
      /\ building[1].chunks = <<>> /\ known' = building[1].list /\ building' = <<>>
  BY OneBuild DEF Stored, In, Ended
<1>2. blocks \cup UNION ToSet(building[1].chunks) = known' /\ blocks \in SUBSET Patrons
  BY <1>1 DEF EntryIInv, ListInParts, Filling, TypeOK
<1>3. UNION ToSet(building[1].chunks) = {}
  BY <1>1 DEF ToSet
<1>4. known' = blocks
  BY <1>2, <1>3
<1> QED  BY <1>1, <1>2, <1>4, GivenUpKeeps
\* The worker's part of a download.
LEMMA BuilderKeeps ==
    ASSUME EntryIInv, UNCHANGED manner, Builder
    PROVE  EntryIInv'
BY StartKeeps, FetchedKeeps, ClearedKeeps, FilledKeeps, StoredKeeps DEF Builder

-----------------------------------------------------------------------------
(* The page as a whole.                                                    *)

\* A page that was just opened is in order.
LEMMA EntryInit == Init => EntryIInv
<1> SUFFICES ASSUME Init PROVE EntryIInv
  OBVIOUS
<1>1. PICK f \in Files : blocks = ToSet(f)
  BY DEF Init
<1>2. blocks \in SUBSET Patrons /\ known = blocks
  <2>1. f \in Seq(Patrons)
    BY EntryAssumption
  <2>2. \A k \in DOMAIN f : f[k] \in Patrons
    BY <2>1, InSeq
  <2> QED  BY <1>1, <2>2 DEF Init, ToSet
<1>3. /\ Len(page) = 0 /\ ToSet(page) = {} /\ DOMAIN tests = {} /\ DOMAIN dialogs = {}
      /\ Len(tests) = 0 /\ Len(dialogs) = 0 /\ Len(building) = 0
      /\ IsFiniteSet({}) /\ Cardinality({}) = 0 /\ building = <<>>
  BY FS_EmptySet DEF Init, ToSet
<1>4. MaxAdds \in Nat /\ MaxBuilds \in Nat
  BY EntryAssumption
<1>5. TypeOK
  <2>1. form \in Entry
    BY DEF Init, Entry
  <2>2. \A S : <<>> \in Seq(S)
    BY EmptySeq
  <2> QED  BY <1>2, <1>3, <1>4, <2>1, <2>2 DEF Init, TypeOK
<1>6. OneUnderWay /\ Recorded
  <2>1. Quiet /\ wanted = {}
    BY DEF Init, Quiet
  <2> QED  BY <1>3, <2>1 DEF OneUnderWay, Recorded
<1>7. ListWhole /\ ListInParts /\ InTurn
  BY <1>2, <1>3 DEF Init, ListWhole, ListInParts, Filling, InTurn, Quiet
<1>8. builds + waiting <= MaxBuilds
  BY <1>4 DEF Init
<1> QED  BY <1>5, <1>6, <1>7, <1>8 DEF EntryIInv

\* Every step of the staff and of the worker leaves it in order.
LEMMA EntryStep == EntryIInv /\ Next => EntryIInv'
<1> SUFFICES ASSUME EntryIInv, Next PROVE EntryIInv'
  OBVIOUS
<1>1. UNCHANGED manner
  BY DEF Next
<1>2. CASE Staff
  BY <1>1, <1>2, TypeKeeps, AddKeeps, AllowKeeps, RejectKeeps, DownloadKeeps DEF Staff
<1>3. CASE Tested \/ Untested \/ Serve
  BY <1>1, <1>3, TestedKeeps, UntestedKeeps, ServeKeeps
<1>4. CASE Builder
  BY <1>1, <1>4, BuilderKeeps
<1> QED  BY <1>2, <1>3, <1>4 DEF Next

\* While the one part acts the other one stays as it is.
LEMMA EntryStays == EntryIInv /\ UNCHANGED vars => EntryIInv'
<1> SUFFICES ASSUME EntryIInv, UNCHANGED vars PROVE EntryIInv'
  OBVIOUS
<1>1. /\ UNCHANGED <<form, page, strict, tests, dialogs, wanted, adds>>
      /\ UNCHANGED <<blocks, waiting, building, builds, known>> /\ UNCHANGED manner
  BY DEF vars, deskVars, listVars
<1>2. TypeOK' /\ Recorded' /\ ListWhole'
  BY <1>1 DEF EntryIInv, TypeOK, Recorded, ListWhole, Quiet, Patient
<1>3. OneUnderWay' /\ ListInParts' /\ InTurn'
  BY <1>1 DEF EntryIInv, OneUnderWay, ListInParts, InTurn, Quiet, Patient, Apart,
              Filling, Duplicate
<1> QED  BY <1>1, <1>2, <1>3 DEF EntryIInv

LEMMA SchemasStay == Worker!SchemasInv /\ UNCHANGED startVars => Worker!SchemasInv'
<1> SUFFICES ASSUME Worker!SchemasInv, UNCHANGED startVars PROVE Worker!SchemasInv'
  OBVIOUS
<1>1. UNCHANGED <<step, cannot, job, out, back, created, db, opener>>
  BY DEF startVars
<1>2. Worker!TypeOK' /\ Worker!ConnectedIsOpen'
  BY <1>1 DEF Worker!SchemasInv, Worker!TypeOK, Worker!ConnectedIsOpen
<1> QED  BY <1>1, <1>2 DEF Worker!SchemasInv

LEMMA PageStep == PageIInv /\ [PageNext]_pageVars => PageIInv'
<1> SUFFICES ASSUME PageIInv, [PageNext]_pageVars PROVE PageIInv'
  OBVIOUS
<1>1. Worker!SchemasInv /\ EntryIInv
  BY DEF PageIInv
<1>2. CASE Worker!Next /\ UNCHANGED vars
  BY <1>1, <1>2, SchemasStep, EntryStays DEF PageIInv
<1>3. CASE Next /\ UNCHANGED startVars
  BY <1>1, <1>3, EntryStep, SchemasStay DEF PageIInv
<1>4. CASE UNCHANGED pageVars
  BY <1>1, <1>4, EntryStays, SchemasStay DEF PageIInv, pageVars
<1> QED  BY <1>2, <1>3, <1>4 DEF PageNext

\* A lookup that finds a patron clear is one Serve answered, and the table lacks
\* the patron.
LEMMA ClearIsServed ==
    ASSUME EntryIInv, Next, NEW k \in DOMAIN tests, FoundClear(k)
    PROVE  /\ tests[k].patron \notin blocks /\ ~Quiet
           /\ UNCHANGED <<building, known, blocks>>
<1>1. /\ tests \in Seq(Test) /\ DOMAIN tests = 1..Len(tests) /\ Len(tests) \in Nat
      /\ tests[k] \in Test /\ tests # <<>>
  <2>1. tests \in Seq(Test)
    BY DEF EntryIInv, TypeOK, Test
  <2> QED  BY <2>1, LenProperties, InSeq, EmptySeq
<1>2. k \in DOMAIN tests' /\ tests[k].state = "sent" /\ tests'[k].state = "clear"
  BY <1>1 DEF FoundClear, Test
<1>3. ASSUME UNCHANGED tests
      PROVE  FALSE
  BY <1>2, <1>3
<1>4. ASSUME NEW t \in Entry, NEW e, t = form, e.state = "sent", e \in Test, tests' = Append(tests, e)
      PROVE  FALSE
  BY <1>1, <1>2, <1>4, AppendProperties
<1>5. ASSUME tests' = Tail(tests)
      PROVE  FALSE
  <2>1. k + 1 \in DOMAIN tests /\ tests'[k] = tests[k + 1]
    BY <1>1, <1>2, <1>5, HeadTailProperties, LenProperties, EmptySeq
  <2>2. tests[k + 1].state # "sent"
    BY <1>2, <2>1
  <2> QED  BY <1>1, <1>2, <2>1, <2>2 DEF EntryIInv, InTurn
<1>6. CASE Serve
  <2>1. PICK l \in DOMAIN tests :
           tests' = [tests EXCEPT ![l].state =
                        IF tests[l].patron \in blocks THEN "blocked" ELSE "clear"]
    BY <1>6 DEF Serve
  <2>2. k = l
    BY <1>2, <2>1
  <2>3. tests'[k].state = IF tests[k].patron \in blocks THEN "blocked" ELSE "clear"
    BY <1>1, <2>1, <2>2 DEF Test
  <2> QED  BY <1>1, <1>2, <1>6, <2>3 DEF Serve, Quiet, listVars
<1>7. CASE Add
  <2>1. CASE form.patron # None
    <3> DEFINE e == [patron |-> form.patron, of |-> form, state |-> "sent"]
    <3>1. e \in Test /\ e.state = "sent" /\ form \in Entry
      BY <2>1 DEF EntryIInv, TypeOK, Test, Entry
    <3>2. tests' = Append(tests, e)
      BY <1>7, <2>1 DEF Add
    <3> HIDE DEF e
    <3> QED  BY <1>4, <3>1, <3>2
  <2>2. CASE form.patron = None
    BY <1>3, <1>7, <2>2 DEF Add
  <2> QED  BY <2>1, <2>2
<1>8. CASE Tested \/ Untested
  BY <1>5, <1>8 DEF Tested, Untested
<1>9. CASE Staff /\ ~Add
  BY <1>3, <1>9 DEF Staff, Type, Allow, Reject, Download, deskVars
<1>10. CASE Builder
  BY <1>3, <1>10 DEF Builder, Start, Fetched, Cleared, Filled, Stored, deskVars
<1> QED  BY <1>6, <1>7, <1>8, <1>9, <1>10 DEF Next

\* No lookup finds a patron of the list clear, unless a list is being stored.
LEMMA FoundStep ==
    ASSUME EntryIInv, Next, NEW k \in DOMAIN tests, FoundClear(k)
    PROVE  tests[k].patron \notin known \/ Refilling(tests[k].patron)
<1>1. tests[k].patron \notin blocks /\ ~Quiet
  BY ClearIsServed
<1>2. CASE ~Filling
  BY <1>1, <1>2 DEF EntryIInv, ListInParts
<1>3. CASE Filling
  <2>1. ~Apart /\ 1 \in DOMAIN building /\ building[1].phase = "fill"
    BY <1>1, <1>3, OneBuild DEF EntryIInv, InTurn, Filling
  <2> QED  BY <2>1 DEF Refilling
<1> QED  BY <1>2, <1>3

\* The page as a whole is in order at all times: the tabs' connections, the form,
\* its lookups and dialogs, and the list (worker.js, offline.js).
THEOREM PageInductive == PageSpec => []PageIInv
<1>1. PageInit => PageIInv
  BY EntryInit, SchemasInit DEF PageInit, PageIInv
<1>2. PageIInv /\ [PageNext]_pageVars => PageIInv'
  BY PageStep
<1> QED  BY <1>1, <1>2, PTL DEF PageSpec

\* What a tab takes for connected is open in the worker, and the table holds the
\* list last downloaded, whole, or that download failed.
THEOREM PageKept == PageSpec => []PageInv
<1>1. PageIInv => PageInv
  BY DEF PageIInv, PageInv, Worker!SchemasInv, EntryIInv
<1> QED  BY <1>1, PageInductive, PTL

\* Staff who wait for the page find on it what they handed in, once each.
THEOREM EntriesRecorded == PageSpec => []Recorded
<1>1. PageIInv => Recorded
  BY DEF PageIInv, EntryIInv
<1> QED  BY <1>1, PageInductive, PTL

\* A patron of the list last downloaded is found blocked, unless a list is being
\* stored that staff who wait do not look at.
THEOREM BlockedFound == PageSpec => BlockedAreFound
<1> DEFINE A == \A k \in DOMAIN tests :
                    FoundClear(k) => tests[k].patron \notin known
                                     \/ Refilling(tests[k].patron)
<1>1. PageIInv /\ [PageNext]_pageVars => [A]_vars
  <2> SUFFICES ASSUME PageIInv, PageNext PROVE A \/ UNCHANGED vars
    BY DEF pageVars
  <2>1. CASE Next
    BY <2>1, FoundStep DEF PageIInv
  <2>2. CASE UNCHANGED vars
    BY <2>2
  <2> QED  BY <2>1, <2>2 DEF PageNext
<1> HIDE DEF A
<1>2. PageSpec => [][A]_vars
  BY <1>1, PageInductive, PTL DEF PageSpec
<1> QED  BY <1>2 DEF A, BlockedAreFound
====
